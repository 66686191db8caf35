------------------------------ MODULE SbsFormat ------------------------------
(***************************************************************************)
(* SBS (BaseStation) lines: modesSendSBSOutput writes one for a message,   *)
(* decodeSbsLine of another program reads it.                              *)
(*                                                                         *)
(* A message mm has in `has` the fields that are valid, with their values; *)
(* what the formats leave out has no value.  A token of a line is the      *)
(* sequence of what is between two commas: empty, a number, a name, or a   *)
(* number followed by "H".  Positions are in 10^-7 degrees (written with 6 *)
(* decimals), speeds and headings in tenths.                               *)
(***************************************************************************)
EXTENDS Integers, Sequences, TLC

CONSTANT BadCallsigns   \* names with characters that no callsign has

\* a field and its value, if the condition holds
Field(cond, name, value) == IF cond THEN name :> value ELSE <<>>

NoToken == <<>>

\* printf %.0f of tenths, %.6f of 10^-7
Rounded(x) == IF x >= 0 THEN (x + 5) \div 10 ELSE -((5 - x) \div 10)

\* the type of the line, 0 if none is written
MsgType(mm) ==
    IF mm.sbs_in THEN mm.sbsMsgType
    ELSE CASE mm.msgtype \in {4, 20} -> 5
           [] mm.msgtype \in {5, 21} -> 6
           [] mm.msgtype \in {0, 16} -> 7
           [] mm.msgtype = 11        -> 8
           [] mm.msgtype \in {17, 18} ->
                CASE mm.metype \in 1..4  -> 1
                  [] mm.metype \in 5..8  -> 2
                  [] mm.metype \in 9..18 -> 3
                  [] mm.metype = 19      -> 4
                  [] OTHER               -> 0
           [] OTHER -> 0

Number(mm, f)  == IF f \in DOMAIN mm.has THEN <<mm.has[f]>> ELSE NoToken
Tenths(mm, f)  == IF f \in DOMAIN mm.has THEN <<Rounded(mm.has[f])>> ELSE NoToken
Flag(mm, f)    == IF f \in DOMAIN mm.has THEN (IF mm.has[f] THEN <<-1>> ELSE <<0>>) ELSE NoToken

\* Fault: without a pressure altitude the geometric one is written.
SbsAltitudeUncorrected(mm, geom_delta, use_gnss) ==
    CASE "baro_alt" \in DOMAIN mm.has -> <<mm.has.baro_alt>>
      [] "baro_alt" \notin DOMAIN mm.has /\ "geom_alt" \in DOMAIN mm.has -> <<mm.has.geom_alt>>
      [] OTHER -> NoToken

\* field 12; the difference between the two altitudes is the aircraft's, empty if unknown
SbsAltitude(mm, geom_delta, use_gnss) ==
    LET has(f) == f \in DOMAIN mm.has
        known  == geom_delta # <<>>
    IN  CASE use_gnss /\ has("geom_alt")               -> <<mm.has.geom_alt, "H">>
          [] use_gnss /\ ~has("geom_alt") /\ has("baro_alt") /\ known ->
                <<mm.has.baro_alt + geom_delta[1], "H">>
          [] (~use_gnss \/ (~has("geom_alt") /\ ~known)) /\ has("baro_alt") -> <<mm.has.baro_alt>>
          [] ~use_gnss /\ ~has("baro_alt") /\ has("geom_alt") /\ known ->
                <<mm.has.geom_alt - geom_delta[1]>>
          [] OTHER -> NoToken

\* field 17
SbsRate(mm, use_gnss) ==
    IF use_gnss /\ "geom_rate" \in DOMAIN mm.has THEN <<mm.has.geom_rate, "H">>
    ELSE IF "baro_rate" \in DOMAIN mm.has THEN <<mm.has.baro_rate>> ELSE Number(mm, "geom_rate")

\* field 20: the estimated error, or the flag, or what the squawk tells
SbsEmergency(mm) ==
    CASE "mlatEPU" \in DOMAIN mm.has -> <<mm.has.mlatEPU>>
      [] "mlatEPU" \notin DOMAIN mm.has /\ "squawk_emergency" \in DOMAIN mm.has ->
            Flag(mm, "squawk_emergency")
      [] {"mlatEPU", "squawk_emergency"} \intersect DOMAIN mm.has = {}
         /\ "squawk" \in DOMAIN mm.has ->
            IF mm.has.squawk \in {7500, 7600, 7700} THEN <<-1>> ELSE <<0>>
      [] OTHER -> NoToken

Degrees(mm, i) == IF "pos" \in DOMAIN mm.has THEN <<Rounded(mm.has.pos[i])>> ELSE NoToken

\* fields 11 to 22; the first ten are the type, the address and times nobody reads
SendSBSOutput(mm, geom_delta, use_gnss) ==
    IF mm.nonIcao \/ MsgType(mm) = 0 THEN <<>>
    ELSE [i \in 1..22 |->
            CASE i = 2  -> <<MsgType(mm)>>
              [] i = 5  -> <<mm.addr>>
              [] i = 11 -> Number(mm, "callsign")
              [] i = 12 -> SbsAltitude(mm, geom_delta, use_gnss)
              [] i = 13 -> Tenths(mm, "gs")
              [] i = 14 -> Tenths(mm, "track")
              [] i = 15 -> Degrees(mm, 1)
              [] i = 16 -> Degrees(mm, 2)
              [] i = 17 -> SbsRate(mm, use_gnss)
              [] i = 18 -> Number(mm, "squawk")
              [] i = 19 -> IF "receivers" \in DOMAIN mm.has THEN Number(mm, "receivers")
                           ELSE Flag(mm, "alert")
              [] i = 20 -> SbsEmergency(mm)
              [] i = 21 -> Flag(mm, "spi")
              [] i = 22 -> Flag(mm, "ground")
              [] OTHER  -> NoToken]
-----------------------------------------------------------------------------
(* Reading.                                                                *)

\* field 19: mlat-server puts the number of receivers there
SbsAlert(t, source) ==
    CASE t = NoToken -> <<>>
      [] t # NoToken /\ t[1] > 0 /\ source = "MLAT" -> "receivers" :> t[1]
      [] t # NoToken /\ t[1] \in {0, -1} -> "alert" :> (t[1] = -1)
      [] OTHER -> <<>>

\* field 20; the flag is taken from field 21
ReadEmergency(t20, t21, source) ==
    CASE t20 = NoToken -> <<>>
      [] t20 # NoToken /\ t20[1] > 0 /\ source = "MLAT" -> "mlatEPU" :> t20[1]
      [] t20 # NoToken /\ ~(t20[1] > 0 /\ source = "MLAT") /\ t21 \in {<<0>>, <<-1>>} ->
            "squawk_emergency" :> (t21 = <<-1>>)
      [] OTHER -> <<>>

\* atoi stops at the H; an altitude is taken for a pressure altitude
DecodeSbsLine(t, source) ==
    [addr |-> t[5][1], sbsMsgType |-> t[2][1],
     has |->
        Field(t[11] # NoToken /\ \A n \in BadCallsigns : t[11] # <<n>>, "callsign", t[11][1])
     @@ Field(t[12] # NoToken /\ t[12][1] > -5000 /\ t[12][1] < 100000, "baro_alt", t[12][1])
     @@ Field(t[13] # NoToken /\ t[13][1] > 0, "gs", 10 * t[13][1])
     @@ Field(t[14] # NoToken, "track", 10 * t[14][1])
     @@ Field(NoToken \notin {t[15], t[16]} /\ t[15][1] # 0 /\ t[16][1] # 0,
              "pos", <<10 * t[15][1], 10 * t[16][1]>>)
     @@ Field(t[17] # NoToken, "baro_rate", t[17][1])
     @@ Field(t[18] # NoToken /\ t[18][1] > 0, "squawk", t[18][1])
     @@ SbsAlert(t[19], source)
     @@ ReadEmergency(t[20], t[21], source)
     @@ Field(t[21] \in {<<0>>, <<1>>}, "spi", t[21] = <<1>>)
     @@ Field(t[22] \in {<<0>>, <<-1>>}, "ground", t[22] = <<-1>>)]
-----------------------------------------------------------------------------
(* What must arrive.                                                       *)

Near(x, y, d) == x - y \in -d..d

\* the value that is read stands for the one that was sent
SbsStandsFor(f, read, mm, geom_delta, use_gnss) ==
    CASE f \in {"gs", "track"} -> Near(read, mm.has[f], 5)
      [] f = "pos"       -> Near(read[1], mm.has.pos[1], 5) /\ Near(read[2], mm.has.pos[2], 5)
      [] f = "baro_alt"  ->
            IF use_gnss
            THEN read \in {mm.has[g] : g \in {"geom_alt", "baro_alt"} \intersect DOMAIN mm.has}
                          \union {mm.has[g] + geom_delta[i] :
                                    g \in {"baro_alt"} \intersect DOMAIN mm.has, i \in DOMAIN geom_delta}
            ELSE IF "baro_alt" \in DOMAIN mm.has THEN read = mm.has.baro_alt
                 ELSE \E i \in DOMAIN geom_delta : read = mm.has.geom_alt - geom_delta[i]
      [] f = "baro_rate" -> read \in {mm.has[g] : g \in {"geom_rate", "baro_rate"} \intersect DOMAIN mm.has}
      [] OTHER           -> read = mm.has[f]

\* values the reader takes for no value
SbsLost(f, mm, source) ==
    \/ f = "squawk" /\ mm.has.squawk = 0
    \/ f = "gs" /\ Rounded(mm.has.gs) = 0
    \/ f = "pos" /\ 0 \in {Rounded(mm.has.pos[1]), Rounded(mm.has.pos[2])}
    \/ f = "callsign" /\ mm.has.callsign \in BadCallsigns
    \/ f = "baro_alt" /\ mm.has.baro_alt \notin -4999..99999
    \/ f = "alert" /\ "receivers" \in DOMAIN mm.has
    \/ f \in {"receivers", "mlatEPU"} /\ source # "MLAT"

\* the altitudes and rates share a field, the emergency and ident flags do not survive
SbsFields == {"callsign", "baro_alt", "gs", "track", "pos", "baro_rate", "squawk", "alert",
              "receivers", "mlatEPU", "ground"}

SbsRelayed(mm, geom_delta, use_gnss, source) ==
    LET line == SendSBSOutput(mm, geom_delta, use_gnss)
        read == DecodeSbsLine(line, source)
    IN  line # <<>> =>
            /\ read.addr = mm.addr /\ read.sbsMsgType = MsgType(mm)
            /\ \A f \in DOMAIN read.has \intersect SbsFields :
                    SbsStandsFor(f, read.has[f], mm, geom_delta, use_gnss)
            /\ \A f \in DOMAIN mm.has \intersect SbsFields :
                    f \in DOMAIN read.has \/ SbsLost(f, mm, source)
==============================================================================
