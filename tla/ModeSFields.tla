------------------------------ MODULE ModeSFields ------------------------------
(***************************************************************************)
(* What the fields of a Mode A, C or S message say.  A message is the set  *)
(* of the numbers, from 1, of its one bits; in an extended squitter and an *)
(* altitude or identity code they are counted from its own first bit.      *)
(* Angles are kept in the unit of their field, the speed of a vehicle on   *)
(* the ground in 1/96 knots, a velocity as its components east and north.  *)
(***************************************************************************)
EXTENDS CommB

\* A Mode A code is a set of pulses.
Pulse == [letter : {"A", "B", "C", "D"}, n : {1, 2, 4}]
P(letter, n) == [letter |-> letter, n |-> n]
Digit(code, letter) == MapThenSumSet(LAMBDA p : p.n, {p \in code : p.letter = letter})
Squawk(code) == [i \in 1..4 |-> Digit(code, <<"A", "B", "C", "D">>[i])]

\* the pulses in the order of an identity code; the seventh is X, or M of an altitude
Id13 == << P("C", 1), P("A", 1), P("C", 2), P("A", 2), P("C", 4), P("A", 4), P("X", 0),
           P("B", 1), P("D", 1), P("B", 2), P("D", 2), P("B", 4), P("D", 4) >>
decodeID13Field(field) == {Id13[i] : i \in field \ {7}}

\* Gray code of the altitude in steps of 500 feet, and within a step
FiveHundredsOrder == << P("D", 2), P("D", 4), P("A", 1), P("A", 2), P("A", 4),
                        P("B", 1), P("B", 2), P("B", 4) >>
HundredsCode == << {4}, {2, 4}, {2}, {1, 2}, {1} >>

Reflected(fiveHundreds, hundreds) == IF fiveHundreds % 2 = 1 THEN 6 - hundreds ELSE hundreds

\* in hundreds of feet; empty if it is no altitude
modeAToModeC(code) ==
    LET cs    == {p.n : p \in {q \in code : q.letter = "C"}}
        above(i) == Cardinality({j \in 1..i : FiveHundredsOrder[j] \in code})
        five  == MapThenSumSet(LAMBDA i : (above(i) % 2) * 2^(8 - i), 1..8)
        found == {h \in 1..5 : HundredsCode[h] = cs}
    IN  IF P("D", 1) \in code \/ found = {} THEN <<>>
        ELSE << 5 * five + Reflected(five, CHOOSE h \in found : TRUE) - 13 >>

\* the table the other way round
modeCToModeA(altitude) ==
    LET n == altitude + 12
        five == n \div 5
        gray(i) == (five \div 2^(8 - i)) % 2 # (five \div 2^(9 - i)) % 2
    IN  {FiveHundredsOrder[i] : i \in {j \in 1..8 : gray(j)}}
        \union {P("C", m) : m \in HundredsCode[Reflected(five, (n % 5) + 1)]}

GillhamAltitude(code) ==
    LET n == modeAToModeC(code) IN IF n = <<>> \/ n[1] < -12 THEN <<>> ELSE <<100 * n[1]>>

\* in feet
decodeAC13Field(field) ==
    LET n == (Bits(field, 1, 6) * 32) + (Bits(field, 8, 8) * 16) + Bits(field, 10, 13)
    IN  IF 7 \in field THEN <<>>
        ELSE IF 9 \in field THEN <<25 * n - 1000>>
        ELSE GillhamAltitude(decodeID13Field(field))

WithoutM(field) == {IF i <= 6 THEN i ELSE i + 1 : i \in field}
decodeAC12Field(field) ==
    IF 8 \in field THEN <<25 * (Bits(field, 1, 7) * 16 + Bits(field, 9, 12)) - 1000>>
    ELSE GillhamAltitude(decodeID13Field(WithoutM(field)))

\* the midpoint of a range of speeds: its first code, the lower end and the width of a code
Ranges(version) ==
    << <<109, 9600, 480>>, <<94, 6720, 192>>, <<39, 1440, 96>>, <<13, 192, 48>>, <<9, 96, 24>> >>
    \o (IF version = 0 THEN << <<2, 12, 12>> >> ELSE << <<3, 12, 14>>, <<2, 0, 12>> >>)
MidpointOf(movement, ranges) ==
    LET i == SelectInSeq(ranges, LAMBDA r : movement >= r[1])
    IN  IF movement = 124 THEN 180 * 96
        ELSE IF i = 0 THEN 0
        ELSE ranges[i][2] + (movement - ranges[i][1]) * ranges[i][3] + (ranges[i][3] \div 2)
decodeMovementFieldV0(movement) == MidpointOf(movement, Ranges(0))
decodeMovementFieldV2(movement) == MidpointOf(movement, Ranges(2))
-----------------------------------------------------------------------------
(* The fields of replies.                                                  *)

Sub(bits, first, last) == {i - (first - 1) : i \in bits \intersect (first..last)}
SquawkIn(field) == Given(field # {}, "squawk", Squawk(decodeID13Field(field)))

AltitudeCode(bits) ==
    LET field == Sub(bits, 20, 32)
        alt   == decodeAC13Field(field)
    IN  Given(field # {} /\ alt # <<>>, "baro_alt", alt[1])

Capability(CA) ==
    Given(CA \in {0, 6, 7}, "airground", "uncertain")
 @@ Given(CA = 4, "airground", "ground") @@ Given(CA = 5, "airground", "airborne")

FlightStatus(FS) ==
    Given(FS <= 5, "airground", IF FS \in {1, 3} THEN "ground" ELSE "uncertain")
 @@ Given(FS <= 5, "alert", FS \in {2, 3, 4}) @@ Given(FS <= 5, "spi", FS \in {4, 5})

\* decodeModesMessage, for all but extended squitters
ReplyFields(df, bits) ==
    (IF df \in {0, 4, 16, 20} THEN AltitudeCode(bits) ELSE <<>>)
 @@ (IF df = 11 THEN Capability(Bits(bits, 6, 8)) ELSE <<>>)
 @@ Given(df = 0, "CC", Bits(bits, 7, 7))
 @@ (IF df \in {4, 5, 20, 21}
     THEN FlightStatus(Bits(bits, 6, 8)) @@ "DR" :> Bits(bits, 9, 13) @@ "UM" :> Bits(bits, 14, 19)
     ELSE <<>>)
 @@ (IF df \in {5, 21} THEN SquawkIn(Sub(bits, 20, 32)) ELSE <<>>)
 @@ Given(df = 16 /\ Bits(bits, 33, 40) = 48, "acas_ra", TRUE)
 @@ (IF df \in {0, 16}
     THEN "airground" :> (IF 6 \in bits THEN "ground" ELSE "uncertain")
       @@ "SL" :> Bits(bits, 9, 11) @@ "RI" :> Bits(bits, 14, 17)
     ELSE <<>>)

\* a Mode A or C reply; nobody can tell which it was
decodeModeAMessage(code, ident) ==
    Given(TRUE, "squawk", Squawk(code)) @@ Given(TRUE, "spi", ident)
 @@ Given(~ident /\ modeAToModeC(code) # <<>>, "baro_alt", 100 * modeAToModeC(code)[1])
-----------------------------------------------------------------------------
(* The messages of extended squitters.                                     *)

Scaled(me, sign, first, last, unit) ==
    (Bits(me, first, last) - 1) * unit * (IF sign \in me THEN -1 ELSE 1)

decodeESIdentAndCategory(me, tc) ==
    LET name == [i \in 1..8 |-> Character(me, i)]
    IN  Given(\A i \in 1..8 : InCallsign(name[i]), "callsign", name)
     @@ "category" :> <<14 - tc, Bits(me, 6, 8)>>

decodeESAirborneVelocity(me) ==
    LET sub   == Bits(me, 6, 8)
        scale == IF sub \in {2, 4} THEN 4 ELSE 1
    IN  IF sub \notin 1..4 THEN <<>>
        ELSE (IF sub \in 1..2
              THEN Given(Bits(me, 15, 24) # 0 /\ Bits(me, 26, 35) # 0, "velocity",
                         <<Scaled(me, 14, 15, 24, scale), Scaled(me, 25, 26, 35, scale)>>)
              ELSE Given(14 \in me, "heading", <<"magnetic_or_true", Bits(me, 15, 24)>>)
                @@ Given(Bits(me, 26, 35) # 0, IF 25 \in me THEN "tas" ELSE "ias",
                         (Bits(me, 26, 35) - 1) * scale))
          @@ "nac_v" :> Bits(me, 11, 13)
          @@ Given(Bits(me, 38, 46) # 0, IF 36 \in me THEN "baro_rate" ELSE "geom_rate",
                   Scaled(me, 37, 38, 46, 64))
          @@ Given(Bits(me, 50, 56) # 0, "geom_delta", Scaled(me, 49, 50, 56, 25))

CprField(me, type) == <<type, 22 \in me, Bits(me, 23, 39), Bits(me, 40, 56)>>

decodeESSurfacePosition(me) ==
    LET movement == Bits(me, 6, 12)
    IN  Given(movement \in 1..124, "gs_v0", decodeMovementFieldV0(movement))
     @@ Given(movement \in 1..124, "gs_v2", decodeMovementFieldV2(movement))
     @@ Given(13 \in me, "heading", <<"track_or_heading", Bits(me, 14, 20)>>)
     @@ "cpr" :> CprField(me, "surface") @@ "airground" :> "ground"

\* a transponder that has no position sends zeros
NoFix(me, tc) == tc = 15 /\ me \intersect ((9..20) \union (28..56)) = {}
decodeESAirbornePosition(me, tc, check_imf, onGround) ==
    LET ss  == Bits(me, 6, 7)
        alt == decodeAC12Field(Sub(me, 9, 20))
    IN  Given(TRUE, "alert", ss \in 1..2) @@ Given(ss \in {0, 3}, "spi", ss = 3)
     @@ Given(~check_imf, "nic_b", Bits(me, 8, 8))
     @@ Given(tc # 0 /\ ~NoFix(me, tc), "cpr", CprField(me, "airborne"))
     @@ Given(me \intersect (9..20) # {} /\ ~onGround /\ alt # <<>>,
              IF tc \in 20..22 THEN "geom_alt" ELSE "baro_alt", alt[1])

decodeESTestMessage(me) == IF Bits(me, 6, 8) = 7 THEN SquawkIn(Sub(me, 9, 21)) ELSE <<>>

decodeESAircraftStatus(me) ==
    CASE Bits(me, 6, 8) = 1 -> "emergency" :> Bits(me, 9, 11) @@ SquawkIn(Sub(me, 12, 24))
      [] Bits(me, 6, 8) = 2 -> "acas_ra" :> TRUE
      [] OTHER -> <<>>

\* modes of the autopilot; the last one is the altitude source
Modes1(me) ==
    LET source == Bits(me, 8, 9)
        vert == Bits(me, 14, 15)
    IN  (IF vert \notin 1..2 THEN {}
         ELSE IF source = 3 THEN {"vnav"}
         ELSE IF source = 2 /\ vert = 2 THEN {"alt_hold"} ELSE {"autopilot"})
        \union (IF Bits(me, 38, 39) \notin 1..2 THEN {}
                ELSE IF Bits(me, 26, 27) = 3 THEN {"lnav"} ELSE {"autopilot"})
Accuracy(me) ==
    "nac_p" :> Bits(me, 40, 43) @@ "nic_baro" :> Bits(me, 44, 44) @@ "sil" :> <<"unknown", Bits(me, 45, 46)>>
TargetStatusV1(me) ==
    LET source == Bits(me, 8, 9)
        tcas   == Bits(me, 52, 53)
        alt    == 100 * Bits(me, 16, 25) - 1000
    IN  Given(source # 0, "altitude_source", source)
     @@ Given(source = 1, "mcp_altitude", alt) @@ Given(source = 3, "fms_altitude", alt)
     @@ Given(Bits(me, 26, 27) # 0, "nav_heading",
              <<IF 37 \in me THEN "ground_track" ELSE "magnetic_or_true", Bits(me, 28, 36)>>)
     @@ Given(tcas # 0 \/ Modes1(me) # {}, "modes", Modes1(me) \union (IF tcas = 1 THEN {} ELSE {"tcas"}))
     @@ Accuracy(me) @@ "emergency" :> Bits(me, 54, 56)

ModeBits == 48 :> "autopilot" @@ 49 :> "vnav" @@ 50 :> "alt_hold" @@ 52 :> "approach" @@ 53 :> "tcas"
         @@ 54 :> "lnav"
TargetStatusV2(me) ==
    Given(Bits(me, 10, 20) # 0, IF 9 \in me THEN "fms_altitude" ELSE "mcp_altitude",
          (Bits(me, 10, 20) - 1) * 32)
 @@ Given(Bits(me, 21, 29) # 0, "qnh", (Bits(me, 21, 29) - 1) * 8)
 @@ Given(30 \in me, "nav_heading", <<"magnetic_or_true", Bits(me, 31, 39)>>)
 @@ Given(47 \in me, "modes", {ModeBits[i] : i \in me \intersect DOMAIN ModeBits})
 @@ Accuracy(me)

decodeESTargetStatus(me) ==
    CASE Bits(me, 6, 7) = 0 /\ 11 \notin me -> TargetStatusV1(me)
      [] Bits(me, 6, 7) = 1 -> TargetStatusV2(me)
      [] OTHER -> <<>>

Hrd(me) == IF 54 \in me THEN "magnetic" ELSE "true"
Tah(me) == IF 53 \in me THEN Hrd(me) ELSE "ground_track"
\* what version 1 and 2 have in common
OperationalModes(me) ==
    IF Bits(me, 25, 26) # 0 THEN <<>>
    ELSE "om_acas_ra" :> (27 \in me) @@ "om_ident" :> (28 \in me) @@ "om_atc" :> (29 \in me)
OperationalAccuracy(me, surface) ==
    "nic_a" :> Bits(me, 44, 44) @@ "nac_p" :> Bits(me, 45, 48) @@ "hrd" :> Hrd(me)
 @@ Given(~surface, "nic_baro", Bits(me, 53, 53)) @@ Given(surface, "tah", Tah(me))
AirborneClass(me) ==
    "cc_arv" :> (15 \in me) @@ "cc_ts" :> (16 \in me) @@ "cc_tc" :> Bits(me, 17, 18)
SurfaceClass(me) ==
    "cc_poa" :> (11 \in me) @@ "cc_b2_low" :> (15 \in me) @@ "cc_lw" :> Bits(me, 21, 24)

StatusV0(me, surface) ==
    IF surface \/ Bits(me, 9, 10) # 0 THEN <<>>
    ELSE "cc_acas" :> (12 \notin me) @@ "cc_cdti" :> (13 \in me)
StatusV1(me, surface) ==
    OperationalModes(me)
 @@ (IF Bits(me, 9, 10) # 0 \/ Bits(me, 13, 14) # 0 THEN <<>>
     ELSE "cc_cdti" :> (12 \in me)
       @@ (IF surface THEN SurfaceClass(me) ELSE "cc_acas" :> (11 \notin me) @@ AirborneClass(me)))
 @@ OperationalAccuracy(me, surface) @@ "sil" :> <<"unknown", Bits(me, 51, 52)>>
StatusV2(me, surface) ==
    OperationalModes(me)
 @@ (IF Bits(me, 25, 26) # 0 THEN <<>> ELSE "om_saf" :> (30 \in me) @@ "sda" :> Bits(me, 31, 32))
 @@ (IF Bits(me, 9, 10) # 0 THEN <<>>
     ELSE "cc_1090_in" :> (12 \in me)
       @@ (IF surface
           THEN SurfaceClass(me) @@ "cc_uat_in" :> (16 \in me) @@ "nac_v" :> Bits(me, 17, 19)
                @@ "nic_c" :> Bits(me, 20, 20) @@ "cc_antenna_offset" :> Bits(me, 33, 40)
           ELSE "cc_acas" :> (11 \in me) @@ AirborneClass(me) @@ "cc_uat_in" :> (19 \in me)))
 @@ OperationalAccuracy(me, surface) @@ Given(~surface, "gva", Bits(me, 49, 50))
 @@ "sil" :> <<IF 55 \in me THEN "per_sample" ELSE "per_hour", Bits(me, 51, 52)>>

decodeESOperationalStatus(me) ==
    LET surface == Bits(me, 6, 8) = 1
        version == Bits(me, 41, 43)
    IN  IF Bits(me, 6, 8) > 1 THEN <<>>
        ELSE "version" :> version
          @@ (CASE version = 0 -> StatusV0(me, surface)
                [] version = 1 -> StatusV1(me, surface)
                [] version = 2 -> StatusV2(me, surface)
                [] OTHER -> <<>>)
-----------------------------------------------------------------------------
(* Whose they are.                                                         *)

\* the IMF bit of a message, if it has one: the address is not one of ICAO
ImfBit(me) ==
    LET tc == Bits(me, 1, 5)
    IN  CASE tc = 19 /\ Bits(me, 6, 8) \in 1..4 -> {9}
          [] tc \in 5..8 -> {21}
          [] tc \in {0} \union (9..18) \union (20..22) -> {8}
          [] tc = 28 /\ Bits(me, 6, 8) = 1 -> {56}
          [] tc = 29 -> {51}
          [] tc = 31 -> {56}
          [] OTHER -> {}

Kind(addrtype, nonIcao, source) == [addrtype |-> addrtype, nonIcao |-> nonIcao, source |-> source]
setIMF(kind) ==
    [kind EXCEPT !.nonIcao = TRUE,
                 !.addrtype = CASE @ \in {"adsb_icao", "adsb_icao_nt"} -> "adsb_other"
                                [] @ = "tisb_icao" -> "tisb_trackfile"
                                [] @ = "adsr_icao" -> "adsr_other"
                                [] OTHER -> @]

check_imf(df, cf) == df = 18 /\ cf \in {2, 6}
KindOf(df, cf, me) ==
    LET kind ==
            IF df = 17 THEN Kind("adsb_icao", FALSE, "adsb")
            ELSE CASE cf = 0 -> Kind("adsb_icao_nt", FALSE, "adsb")
                   [] cf = 1 -> Kind("adsb_other", TRUE, "adsb")
                   [] cf \in {2, 3} -> Kind("tisb_icao", FALSE, "tisb")
                   [] cf = 5 -> Kind("tisb_other", TRUE, "tisb")
                   [] cf = 6 -> Kind("adsr_icao", FALSE, "adsr")
                   [] OTHER -> Kind("unknown", TRUE, "adsb")
        imf == IF df = 18 /\ cf = 3 THEN {1} ELSE IF check_imf(df, cf) THEN ImfBit(me) ELSE {}
    IN  IF imf \intersect me # {} THEN setIMF(kind) ELSE kind

SquitterFields(me, imf, onGround) ==
    LET tc == Bits(me, 1, 5)
    IN  CASE tc \in 1..4 -> decodeESIdentAndCategory(me, tc)
          [] tc = 19 -> decodeESAirborneVelocity(me)
          [] tc \in 5..8 -> decodeESSurfacePosition(me)
          [] tc \in {0} \union (9..18) \union (20..22) -> decodeESAirbornePosition(me, tc, imf, onGround)
          [] tc = 23 -> decodeESTestMessage(me)
          [] tc = 28 -> decodeESAircraftStatus(me)
          [] tc = 29 -> decodeESTargetStatus(me)
          [] tc = 31 -> decodeESOperationalStatus(me)
          [] OTHER -> <<>>

decodeExtendedSquitter(df, bits) ==
    LET me == Sub(bits, 33, 88)
        cf == Bits(bits, 6, 8)
        ca == IF df = 17 THEN Capability(cf) ELSE <<>>
    IN  [kind |-> KindOf(df, cf, me),
         has  |-> IF df = 18 /\ cf \in {3, 4, 7} THEN <<>>
                  ELSE SquitterFields(me, check_imf(df, cf), df = 17 /\ cf = 4) @@ ca]
-----------------------------------------------------------------------------
(* Writing, which transponders do: fields one after the other, each a      *)
(* number and its width.                                                   *)

Packed(fields) ==
    FoldLeft(LAMBDA acc, f : [at |-> acc.at + f[2],
                              bits |-> acc.bits \union BitsOf(f[1], acc.at, acc.at + f[2] - 1)],
             [at |-> 1, bits |-> {}], fields).bits

One(cond) == <<IF cond THEN 1 ELSE 0, 1>>
Zeros(n) == <<0, n>>
Has(r, name) == name \in DOMAIN r.says
Said(r, name, default) == IF Has(r, name) THEN r.says[name] ELSE default
Flag(r, name) == One(Said(r, name, FALSE))
Number(r, name, width) == <<Said(r, name, 0), width>>

\* a sign, and a number whose 0 is sent as 1; zeros if there is none
Offset(r, name, unit, width) ==
    IF ~Has(r, name) THEN <<Zeros(1), Zeros(width)>>
    ELSE LET v == r.says[name]
         IN  <<One(v < 0), <<((IF v < 0 THEN -v ELSE v) \div unit) + 1, width>> >>

Id13Fields(code) == [i \in 1..13 |-> One(Id13[i] \in code)]
CodeOf(squawk) == {p \in Pulse : (squawk[SelectInSeq(<<"A", "B", "C", "D">>, LAMBDA l : l = p.letter)] \div p.n) % 2 = 1}
SquawkFields(r) == Id13Fields(IF Has(r, "squawk") THEN CodeOf(r.says.squawk) ELSE {})

\* in 25 feet if it can be, else in the code of Mode C
AltitudeFields(alt) ==
    LET n == (alt + 1000) \div 25
    IN  IF alt >= -1000 /\ alt <= 50175
        THEN << <<n \div 32, 6>>, Zeros(1), <<(n \div 16) % 2, 1>>, <<1, 1>>, <<n % 16, 4>> >>
        ELSE Id13Fields(modeCToModeA(alt \div 100))

\* no altitude is zeros; the field of an extended squitter has no M bit
Altitude13(r) ==
    IF Has(r, "baro_alt") \/ Has(r, "geom_alt")
    THEN AltitudeFields(r.says[IF Has(r, "baro_alt") THEN "baro_alt" ELSE "geom_alt"])
    ELSE Id13Fields({})
WithoutMField(f) == RemoveAt(f, IF Len(f) = 5 THEN 2 ELSE 7)
Altitude12(r) == WithoutMField(Altitude13(r))

CprFields(r) ==
    IF ~Has(r, "cpr") THEN <<Zeros(18), Zeros(18)>>
    ELSE <<Zeros(1), One(r.says.cpr[2]), <<r.says.cpr[3], 17>>, <<r.says.cpr[4], 17>> >>

\* the first code whose range ends above the speed; the width of a range of the code before 3 is less
MovementOf(version, gs) ==
    CASE gs >= 175 * 96 -> 124
      [] gs = 0 \/ (version = 0 /\ gs < 12) -> 1
      [] OTHER ->
            LET rs == Ranges(version)
                r  == rs[SelectInSeq(rs, LAMBDA x : gs >= x[2])]
            IN  r[1] + ((gs - r[2]) \div r[3])

VelocityFields(r) ==
    LET ground == r.sub \in 1..2
        scale  == IF r.sub \in {2, 4} THEN 4 ELSE 1
        part(i) == IF ~Has(r, "velocity") THEN <<Zeros(11)>>
                   ELSE Offset([says |-> "v" :> r.says.velocity[i]], "v", scale, 10)
        speed  == IF Has(r, "tas") THEN "tas" ELSE "ias"
        rate   == IF Has(r, "baro_rate") THEN "baro_rate" ELSE "geom_rate"
    IN  << <<19, 5>>, <<r.sub, 3>>, One(r.imf), Zeros(1), Number(r, "nac_v", 3)>>
        \o (IF ground THEN part(1) \o part(2)
            ELSE <<One(Has(r, "heading")), <<Said(r, "heading", <<"", 0>>)[2], 10>>, One(Has(r, "tas"))>>
                 \o Tail(Offset(r, speed, scale, 10)))
        \o <<One(Has(r, "baro_rate"))>> \o Offset(r, rate, 64, 9) \o <<Zeros(2)>>
        \o Offset(r, "geom_delta", 25, 7)

OperationalFields(r) ==
    LET surface == r.sub = 1
        v == r.says.version
        acas == IF v = 2 THEN Flag(r, "cc_acas") ELSE One(~Said(r, "cc_acas", TRUE))
        class ==
            IF v = 0 THEN <<Zeros(3), acas, Flag(r, "cc_cdti"), Zeros(11)>>
            ELSE <<Zeros(2), IF surface THEN Flag(r, "cc_poa") ELSE acas,
                   Flag(r, IF v = 1 THEN "cc_cdti" ELSE "cc_1090_in"), Zeros(2)>>
                 \o (IF ~surface
                     THEN <<Flag(r, "cc_arv"), Flag(r, "cc_ts"), Number(r, "cc_tc", 2), Flag(r, "cc_uat_in"),
                            Zeros(5)>>
                     ELSE <<Flag(r, "cc_b2_low"), Flag(r, "cc_uat_in"), Number(r, "nac_v", 3),
                            Number(r, "nic_c", 1), Number(r, "cc_lw", 4)>>)
        sil == Said(r, "sil", <<"unknown", 0>>)
    IN  << <<31, 5>>, <<r.sub, 3>> >> \o class
        \o <<Zeros(2), Flag(r, "om_acas_ra"), Flag(r, "om_ident"), Flag(r, "om_atc"), Flag(r, "om_saf"),
              Number(r, "sda", 2), Number(r, "cc_antenna_offset", 8), <<v, 3>>, Number(r, "nic_a", 1),
              Number(r, "nac_p", 4), Number(r, "gva", 2), <<sil[2], 2>>,
              IF surface THEN One(Said(r, "tah", "ground_track") # "ground_track") ELSE Number(r, "nic_baro", 1),
              One(Said(r, "hrd", "true") = "magnetic"), One(sil[1] = "per_sample"), One(r.imf)>>

\* the modes of version 1 follow from how they are reached
TargetFieldsV1(r) ==
    LET alt == IF Has(r, "fms_altitude") THEN r.says.fms_altitude ELSE Said(r, "mcp_altitude", -1000)
    IN  << <<29, 5>>, Zeros(2), Number(r, "altitude_source", 2), Zeros(4), <<r.vertical, 2>>,
           <<(alt + 1000) \div 100, 10>>, <<r.h_source, 2>>, <<Said(r, "nav_heading", <<"", 0>>)[2], 9>>,
           One(Said(r, "nav_heading", <<"", 0>>)[1] = "ground_track"), <<r.horizontal, 2>>,
           Number(r, "nac_p", 4), Number(r, "nic_baro", 1), <<r.says.sil[2], 2>>, Zeros(4), One(r.imf),
           <<r.tcas, 2>>, Number(r, "emergency", 3)>>
TargetFieldsV2(r) ==
    LET modes == Said(r, "modes", {})
        fms   == Has(r, "fms_altitude")
    IN  << <<29, 5>>, <<1, 2>>, Zeros(1)>>
        \o <<One(fms)>> \o Tail(Offset(r, IF fms THEN "fms_altitude" ELSE "mcp_altitude", 32, 11))
        \o Tail(Offset(r, "qnh", 8, 9))
        \o <<One(Has(r, "nav_heading")), <<Said(r, "nav_heading", <<"", 0>>)[2], 9>>,
              Number(r, "nac_p", 4), Number(r, "nic_baro", 1), <<r.says.sil[2], 2>>, One(Has(r, "modes")),
              One("autopilot" \in modes), One("vnav" \in modes), One("alt_hold" \in modes), One(r.imf),
              One("approach" \in modes), One("tcas" \in modes), One("lnav" \in modes), Zeros(2)>>

SurveillanceStatus(r) == IF r.says.alert THEN 2 ELSE IF Said(r, "spi", FALSE) THEN 3 ELSE 0
SquitterOf(r) ==
    CASE r.type = "ident" ->
            << <<14 - r.says.category[1], 5>>, <<r.says.category[2], 3>> >>
            \o [i \in 1..8 |-> <<r.says.callsign[i], 6>>]
      [] r.type = "surface" ->
            << <<7, 5>>, <<IF Has(r, "gs") THEN MovementOf(r.version, r.says.gs) ELSE 0, 7>>,
               One(Has(r, "heading")), <<Said(r, "heading", <<"", 0>>)[2], 7>>, One(r.imf)>> \o Tail(CprFields(r))
      [] r.type = "airborne" ->
            << <<r.tc, 5>>, <<SurveillanceStatus(r), 2>>, One(r.imf \/ Said(r, "nic_b", 0) = 1)>>
            \o Altitude12(r) \o CprFields(r)
      [] r.type = "velocity" -> VelocityFields(r)
      [] r.type = "test"     -> << <<23, 5>>, <<7, 3>> >> \o SquawkFields(r)
      [] r.type = "status"   ->
            << <<28, 5>>, <<1, 3>>, Number(r, "emergency", 3)>> \o SquawkFields(r) \o <<Zeros(16), Zeros(15), One(r.imf)>>
      [] r.type = "target" /\ r.version = 1 -> TargetFieldsV1(r)
      [] r.type = "target" /\ r.version = 2 -> TargetFieldsV2(r)
      [] r.type = "operational" -> OperationalFields(r)

\* flight status: alert, spi and on the ground
FlightStatusOf(r) ==
    CASE r.says.alert /\ r.says.spi -> 4
      [] ~r.says.alert /\ r.says.spi -> 5
      [] r.says.alert -> IF r.says.airground = "ground" THEN 3 ELSE 2
      [] OTHER -> IF r.says.airground = "ground" THEN 1 ELSE 0

ReplyOf(r) ==
    LET code == IF r.df \in {5, 21} THEN SquawkFields(r)
                ELSE Altitude13(r)
    IN  IF r.df \in {0, 16}
        THEN <<<<r.df, 5>>, One(r.says.airground = "ground"), Number(r, "CC", 1), Zeros(1), Number(r, "SL", 3),
               Zeros(2), Number(r, "RI", 4), Zeros(2)>> \o code \o << <<IF Has(r, "acas_ra") THEN 48 ELSE 0, 8>> >>
        ELSE << <<r.df, 5>>, <<FlightStatusOf(r), 3>>, Number(r, "DR", 5), Number(r, "UM", 6)>> \o code
-----------------------------------------------------------------------------
\* The altitude of a transponder on the ground is not read, and IMF takes the place of NIC-B.
Reported(r, df, cf) ==
    LET unread == (IF df = 17 /\ cf = 4 THEN {"baro_alt", "geom_alt"} ELSE {})
                  \union (IF check_imf(df, cf) THEN {"nic_b"} ELSE {})
    IN  Restrict(r.says, DOMAIN r.says \ unread)

\* The speed of a surface position is that of its version, within half a step or, above, 175 knots or more.
MovementAsSent(gs, read) ==
    \/ gs >= 175 * 96 /\ read = 180 * 96
    \/ gs < 12 /\ read \in 0..12
    \/ \E r \in Range(Ranges(0) \o Ranges(2)) : gs >= r[2] /\ 2 * (gs - read) \in -r[3]..r[3]

\* What is read from a reply is what was said, no more and no less.
ReplyAsSent(r) == ReplyFields(r.df, Packed(ReplyOf(r))) = r.says

\* A reply to Mode A gives its code, one to Mode C its altitude.
ModeAAsSent(r) ==
    LET code == IF r.altitude = <<>> THEN CodeOf(r.squawk) ELSE modeCToModeA(r.altitude[1])
        read == decodeModeAMessage(code, r.ident)
    IN  IF r.altitude = <<>> THEN read.squawk = r.squawk /\ read.spi = r.ident
        ELSE read.baro_alt = 100 * r.altitude[1]

ReadAsSent(r, df, cf, read, says) ==
    /\ \A f \in DOMAIN says \ {"gs"} : f \in DOMAIN read.has /\ read.has[f] = says[f]
    /\ DOMAIN read.has \ {"gs_v0", "gs_v2", "airground"} = DOMAIN says \ {"gs", "airground"}
    /\ "gs" \in DOMAIN says =>
        MovementAsSent(says.gs, IF r.version = 0 THEN read.has.gs_v0 ELSE read.has.gs_v2)

OfOneWithoutAddress(kind, nonIcao) ==
    /\ kind.nonIcao = nonIcao
    /\ nonIcao => kind.addrtype \in {"adsb_other", "tisb_other", "tisb_trackfile", "adsr_other", "unknown"}

FromBitsAsSent(r, df, cf, bits) ==
    LET read == decodeExtendedSquitter(df, bits)
    IN  /\ IF df = 18 /\ cf \in {3, 4, 7} THEN read.has = <<>>
           ELSE ReadAsSent(r, df, cf, read, Reported(r, df, cf))
        /\ OfOneWithoutAddress(read.kind, df = 18 /\ (cf \in {1, 4, 5, 7} \/ (cf \in {2, 6} /\ r.imf)
                                                      \/ (cf = 3 /\ 33 \in bits)))

\* What is read from a squitter is what was said, and it is taken for one of an aircraft with that
\* ICAO address if the sender's address is one; a squitter that has no IMF is always taken for one.
SquitterAsSent(r, df, cf) ==
    FromBitsAsSent(r, df, cf, Packed(<< <<df, 5>>, <<cf, 3>>, Zeros(24)>> \o SquitterOf(r)))
==============================================================================
