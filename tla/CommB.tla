--------------------------------- MODULE CommB ---------------------------------
(***************************************************************************)
(* Comm-B replies: 56 bits of a register that the receiver has not asked   *)
(* for and has to infer.  decodeCommB gives every register a score and     *)
(* takes the best.  MB is the set of the numbers, from 1, of its one bits. *)
(* Values that the program keeps as floating point numbers are the raw     *)
(* numbers of their fields, less their offset.                             *)
(***************************************************************************)
EXTENDS Integers, Sequences, SequencesExt, FiniteSetsExt, Functions, TLC

\* getbits, and its inverse
Bits(MB, first, last) == MapThenSumSet(LAMBDA i : 2^(last - i), MB \intersect (first..last))
BitsOf(v, first, last) == {i \in first..last : (v \div 2^(last - i)) % 2 = 1}

Points(cond, n) == IF cond THEN n ELSE 0

\* a score that means 0, whatever the others are
Impossible == -1000
Total(scores) ==
    IF Impossible \in Range(scores) THEN 0 ELSE FoldSeq(LAMBDA x, y : x + y, 0, scores)

\* a field: plausible and not 0 if it is valid, else 0
Optional(valid, raw, plausible, n) ==
    IF valid /\ raw # 0 /\ plausible THEN n ELSE IF ~valid /\ raw = 0 THEN 1 ELSE Impossible

\* a number with a sign bit in front of it
Signed(MB, sign, first, last) ==
    Bits(MB, first, last) - Points(sign \in MB, 2^(last - first + 1))

\* scores that depend on more than one field
Penalty(cond, n) == IF cond THEN -n ELSE 0

Given(cond, name, value) == IF cond THEN name :> value ELSE <<>>
-----------------------------------------------------------------------------
(* The registers.                                                          *)

EmptyResponse(MB) == IF MB = {} THEN 56 ELSE 0

\* data link capabilities
BDS10(MB) == IF Bits(MB, 1, 8) = 16 /\ MB \intersect (10..14) = {} THEN 56 ELSE 0

\* capabilities: registers that are common, and those that hardly anybody has
BDS17(MB) ==
    LET none(set) == MB \intersect set = {}
        all(set)  == set \subseteq MB
    IN  IF ~none(25..56) THEN 0
        ELSE (IF 7 \in MB THEN 1 ELSE -2)
           + (-2) * Cardinality(MB \intersect ((10..14) \union (20..22)))
           + (IF all(1..5) THEN 5 + Points(6 \in MB, 1) ELSE IF none(1..6) THEN 1 ELSE -12)
           + (IF all({16, 24}) THEN 2 + Points(9 \in MB, 1) ELSE IF none({9, 16, 24}) THEN 1 ELSE -6)

\* the name, eight characters of the AIS set
Character(MB, i) == Bits(MB, 6 * i + 3, 6 * i + 8)
InCallsign(ch) == ch \in 0..26 \union {32} \union 45..57
BDS20(MB) ==
    IF Bits(MB, 1, 8) = 32 /\ \A i \in 1..8 : InCallsign(Character(MB, i)) THEN 56 ELSE 0

BDS30(MB) == IF Bits(MB, 1, 8) = 48 THEN 56 ELSE 0

\* selected vertical intention; altitudes in 16 feet, the pressure in 0.1 mb above 800
AltitudePlausible(raw) == 16 * raw \in 1000..50000
OddAltitude(raw) == ((16 * raw) % 500) \in 16..484
BDS40(MB) ==
    LET mcp  == Bits(MB, 2, 13)
        fms  == Bits(MB, 15, 26)
        baro == Bits(MB, 28, 39)
        mode == Bits(MB, 49, 51)
        src  == Bits(MB, 55, 56)
    IN  IF MB \intersect {1, 14, 27, 48, 54} = {} \/ MB \intersect ((40..47) \union (52..53)) # {} THEN 0
        ELSE Total(<<Optional(1 \in MB, mcp, AltitudePlausible(mcp), 13),
                     Optional(14 \in MB, fms, AltitudePlausible(fms), 13),
                     Optional(27 \in MB, baro, baro \in 1000..3000, 13),
                     IF 48 \in MB THEN 4 ELSE IF mode = 0 THEN 1 ELSE Impossible,
                     IF 54 \in MB THEN 3 ELSE IF src = 0 THEN 1 ELSE Impossible,
                     Penalty({1, 14} \subseteq MB /\ mcp # fms, 4),
                     Penalty(1 \in MB /\ OddAltitude(mcp), 4),
                     Penalty(14 \in MB /\ OddAltitude(fms), 4)>>)

\* 1/10000 of the tangent of a roll in 45/256 degrees, by its series
Tangent(roll) ==
    LET x  == (roll * 3068) \div 100
        x2 == (x * x) \div 10000
    IN  x + ((x * x2) \div 30000) + ((((x * x2) \div 10000) * x2) \div 75000)

\* track and turn; roll in 45/256 degrees, speeds in 2 knots, rates in 1/32 degrees per second.
\* A turn is compared with the roll at that speed; the two speeds are not compared.
BDS50(MB) ==
    LET roll == Signed(MB, 2, 3, 11)
        gs   == Bits(MB, 25, 34)
        rate == Signed(MB, 36, 37, 45)
        tas  == Bits(MB, 47, 56)
        turn == (3495 * Tangent(roll)) \div (2000 * tas)
    IN  IF ~({1, 12, 24, 46} \subseteq MB) THEN 0
        ELSE Total(<<IF 45 * roll \in (-40 * 256)..(40 * 256 - 1) THEN 11 ELSE Impossible,
                     12,
                     Optional(TRUE, gs, gs \in 25..350, 11),
                     IF 35 \in MB THEN (IF rate \in -320..320 THEN 11 ELSE Impossible)
                     ELSE IF MB \intersect (36..45) = {} THEN 1 ELSE Impossible,
                     Optional(TRUE, tas, tas \in 25..350, 11),
                     Penalty(35 \in MB /\ tas # 0 /\ turn - rate \notin -64..64, 6)>>)

\* heading and speed; Mach in 0.004, rates in 32 feet per minute
BDS60(MB) ==
    LET ias   == Bits(MB, 14, 23)
        mach  == Bits(MB, 25, 34)
        rate  == Signed(MB, 36, 37, 45)
        inert == Signed(MB, 47, 48, 56)
        vertical(valid, v, raw) ==
            IF valid THEN (IF 32 * v \in -6000..6000 THEN 11 ELSE Impossible)
            ELSE IF raw = 0 THEN 1 ELSE Impossible
    IN  IF ~({1, 13, 24} \subseteq MB) \/ MB \intersect {35, 46} = {} THEN 0
        ELSE Total(<<12,
                     Optional(TRUE, ias, ias \in 50..700, 11),
                     Optional(TRUE, mach, mach \in 25..225, 11),
                     vertical(35 \in MB, rate, Bits(MB, 37, 45)),
                     vertical(46 \in MB, inert, Bits(MB, 48, 56)),
                     Penalty({35, 46} \subseteq MB /\ 32 * (rate - inert) \notin -2000..2000, 12)>>)

\* weather; a register with a pressure is refused, temperatures are in 0.25 degrees
BDS44(MB) ==
    IF Bits(MB, 1, 4) > 6 \/ Signed(MB, 24, 25, 34) \notin -512..512 \/ 35 \in MB THEN 0
    ELSE 4 + (IF 5 \in MB THEN 18 ELSE 2) + 10 + 1 + (IF 47 \in MB THEN 2 ELSE 1)
         + (IF 50 \in MB THEN 6 ELSE 1)
-----------------------------------------------------------------------------
Scores(MB) ==
    [empty |-> EmptyResponse(MB), bds10 |-> BDS10(MB), bds20 |-> BDS20(MB), bds30 |-> BDS30(MB),
     bds17 |-> BDS17(MB), bds40 |-> BDS40(MB), bds50 |-> BDS50(MB), bds60 |-> BDS60(MB),
     bds44 |-> BDS44(MB)]

\* what the decoders store
StoredIntent(MB) ==
    Given(1 \in MB, "mcp_altitude", 16 * Bits(MB, 2, 13))
 @@ Given(14 \in MB, "fms_altitude", 16 * Bits(MB, 15, 26))
 @@ Given(27 \in MB, "qnh", Bits(MB, 28, 39))
 @@ Given(48 \in MB, "modes", Bits(MB, 49, 51))
 @@ Given(54 \in MB, "altitude_source", Bits(MB, 55, 56))

StoredTurn(MB) ==
    Given(TRUE, "roll", Signed(MB, 2, 3, 11))
 @@ Given(TRUE, "track", Bits(MB, 13, 23))
 @@ Given(TRUE, "gs", 2 * Bits(MB, 25, 34))
 @@ Given(35 \in MB, "track_rate", Signed(MB, 36, 37, 45))
 @@ Given(TRUE, "tas", 2 * Bits(MB, 47, 56))

StoredSpeed(MB) ==
    Given(TRUE, "mag", Bits(MB, 2, 12))
 @@ Given(TRUE, "ias", Bits(MB, 14, 23))
 @@ Given(TRUE, "mach", Bits(MB, 25, 34))
 @@ Given(35 \in MB, "baro_rate", 32 * Signed(MB, 36, 37, 45))
 @@ Given(46 \in MB, "geom_rate", 32 * Signed(MB, 47, 48, 56))

StoredWeather(MB) ==
    Given(5 \in MB, "wind_speed", Bits(MB, 6, 14))
 @@ Given(5 \in MB, "wind_direction", 0)
 @@ Given(TRUE, "oat", Signed(MB, 24, 25, 34))
 @@ Given(47 \in MB, "turbulence", Bits(MB, 48, 49))
 @@ Given(50 \in MB, "humidity", Bits(MB, 51, 56))

Stored(register, MB) ==
    CASE register = "bds20" -> "callsign" :> [i \in 1..8 |-> Character(MB, i)]
      [] register = "bds40" -> StoredIntent(MB)
      [] register = "bds50" -> StoredTurn(MB)
      [] register = "bds60" -> StoredSpeed(MB)
      [] register = "bds44" -> StoredWeather(MB)
      [] OTHER -> <<>>

Inferred(register, MB) == [register |-> register, has |-> Stored(register, MB)]

DecodeCommB(mm) ==
    LET scores == Scores(mm.MB)
        best   == Max(Range(scores))
        first  == {r \in DOMAIN scores : scores[r] = best}
    IN  IF mm.DR # 0 \/ mm.UM # 0 \/ mm.correctedbits > 0 \/ best <= 0 THEN Inferred("unknown", {})
        ELSE IF Cardinality(first) > 1 THEN Inferred("ambiguous", {})
        ELSE Inferred(CHOOSE r \in first : TRUE, mm.MB)
-----------------------------------------------------------------------------
(* Writing, which transponders do.  A report r is a register and its fields; *)
(* a field is a sequence, empty if it is not valid.                          *)

\* a status bit, and a number
Status(v, status, last) ==
    IF v = <<>> THEN {} ELSE {status} \union BitsOf(v[1], status + 1, last)

\* a status bit, a sign bit, and a number
StatusSigned(v, status, last) ==
    IF v = <<>> THEN {}
    ELSE {status} \union BitsOf(IF v[1] < 0 THEN v[1] + 2^(last - status) ELSE v[1], status + 1, last)

Report(r) ==
    CASE r.register = "bds17" -> r.bits
      [] r.register = "bds20" ->
            BitsOf(32, 1, 8) \union UNION {BitsOf(r.name[i], 6 * i + 3, 6 * i + 8) : i \in 1..8}
      [] r.register = "bds40" ->
            Status(r.mcp_altitude, 1, 13) \union Status(r.fms_altitude, 14, 26)
            \union Status(r.qnh, 27, 39) \union Status(r.modes, 48, 51)
            \union Status(r.altitude_source, 54, 56)
      [] r.register = "bds44" ->
            BitsOf(r.source, 1, 4) \union Status(r.wind_speed, 5, 14)
            \union BitsOf(r.wind_direction[1], 15, 23)
            \union (StatusSigned(r.oat, 23, 34) \ {23})
            \union Status(r.turbulence, 47, 49) \union Status(r.humidity, 50, 56)
      [] r.register = "bds50" ->
            StatusSigned(r.roll, 1, 11) \union Status(r.track, 12, 23) \union Status(r.gs, 24, 34)
            \union StatusSigned(r.track_rate, 35, 45) \union Status(r.tas, 46, 56)
      [] r.register = "bds60" ->
            Status(r.mag, 1, 12) \union Status(r.ias, 13, 23) \union Status(r.mach, 24, 34)
            \union StatusSigned(r.baro_rate, 35, 45) \union StatusSigned(r.geom_rate, 46, 56)

\* The units of the fields; the direction of the wind is always read as 0.
FieldUnit(f) ==
    CASE f \in {"mcp_altitude", "fms_altitude"} -> 16
      [] f \in {"gs", "tas"}                    -> 2
      [] f \in {"baro_rate", "geom_rate"}       -> 32
      [] f = "wind_direction"                   -> 0
      [] OTHER                                  -> 1

\* Reports that look more like another register: a selected altitude of the FMS alone (like
\* weather), vertical rates that contradict each other (like track and turn), weather
\* without a wind (its source is read as the number of a register), the capabilities of an
\* aircraft without extended squitter (like weather).
LikeAnother(r) ==
    CASE r.register = "bds40" -> r.mcp_altitude = <<>>
      [] r.register = "bds60" ->
            r.baro_rate # <<>> /\ r.geom_rate # <<>> /\ 32 * (r.baro_rate[1] - r.geom_rate[1]) \notin -2000..2000
      [] r.register = "bds44" -> r.wind_speed = <<>> /\ r.source \in 1..3
      [] r.register = "bds17" -> ~({1, 2, 3, 4, 5, 7} \subseteq r.bits)
      [] OTHER -> FALSE

AsReported(r, read) ==
    \/ read.register \in {"unknown", "ambiguous"}
    \/ /\ read.register = r.register
       /\ \A f \in DOMAIN read.has :
            read.has[f] = (IF r.register = "bds20" THEN r.name ELSE FieldUnit(f) * r[f][1])
       /\ r.register \in {"bds40", "bds50", "bds60"} =>
            DOMAIN read.has = {f \in DOMAIN r \ {"register"} : r[f] # <<>>}

\* What is inferred from a report is what was sent, or nothing.
InferredAsSent(r) ==
    LikeAnother(r) \/ AsReported(r, DecodeCommB([MB |-> Report(r), DR |-> 0, UM |-> 0, correctedbits |-> 0]))
==============================================================================
