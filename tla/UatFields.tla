------------------------------- MODULE UatFields -------------------------------
(***************************************************************************)
(* UAT, the other data link: a downlink frame is converted to the extended *)
(* squitters that a ground station would send for it, and read as those.   *)
(* A frame is the set of the numbers, from 1, of its one bits.  Latitudes  *)
(* and longitudes are in 2^-24 of a circle, without the rounding of        *)
(* floating point numbers; characters are the numbers of the base-40       *)
(* alphabet.                                                               *)
(***************************************************************************)
EXTENDS ModeSFields

Circle == 2^24
-----------------------------------------------------------------------------
(* Reading a frame.                                                        *)

uat_decode_hdr(frame) ==
    "mdb_type" :> Bits(frame, 1, 5) @@ "address_qualifier" :> Bits(frame, 6, 8)
 @@ "address" :> Bits(frame, 9, 32)

\* what is more than a half turn is negative
Turned(x, half) == IF x > half THEN x - 2 * half ELSE x
Feet(n) == 25 * (n - 1) - 1000

Airborne(frame, scale) ==
    Given(Bits(frame, 101, 110) # 0, "ns_vel", Scaled(frame, 100, 101, 110, scale))
 @@ Given(Bits(frame, 112, 121) # 0, "ew_vel", Scaled(frame, 111, 112, 121, scale))
 @@ Given(Bits(frame, 124, 132) # 0, "vert_rate",
          <<IF 122 \in frame THEN "baro" ELSE "geo", Scaled(frame, 123, 124, 132, 64)>>)

\* the speed is kept in 16 bits
OnGround(frame) ==
    LET kind == Bits(frame, 111, 112)
    IN  Given(Bits(frame, 100, 110) # 0, "speed", (Bits(frame, 101, 110) - 1) % 65536)
     @@ Given(kind # 0, "track", << <<"track", "magnetic", "true">>[kind],
                                    (Bits(frame, 113, 121) * 360) \div 512 >>)

\* The speed and the track of an aircraft in the air and the size of one on the ground are
\* computed too, and not used.
uat_decode_sv(frame) ==
    LET lat == Bits(frame, 33, 55)
        lon == Bits(frame, 56, 79)
        ag  == <<"subsonic", "supersonic", "ground", "reserved">>[Bits(frame, 97, 98) + 1]
    IN  Given(Bits(frame, 93, 96) # 0 \/ lat # 0 \/ lon # 0, "position",
              <<Turned(lat, Circle \div 4), Turned(lon, Circle \div 2)>>)
     @@ Given(Bits(frame, 81, 92) # 0, "altitude",
              <<IF 80 \in frame THEN "geo" ELSE "baro", Feet(Bits(frame, 81, 92))>>)
     @@ "airground" :> ag
     @@ (CASE ag = "subsonic"   -> Airborne(frame, 1)
           [] ag = "supersonic" -> Airborne(frame, 4)
           [] ag = "ground"     -> OnGround(frame)
           [] OTHER -> <<>>)

\* three characters of each word, the first one of all is the category
Base40(word) == <<(word \div 1600) % 40, (word \div 40) % 40, word % 40>>
Blanks == {36, 37}
uat_decode_ms(frame) ==
    LET chars == Base40(Bits(frame, 137, 152)) \o Base40(Bits(frame, 153, 168))
                 \o Base40(Bits(frame, 169, 184))
        used  == {i \in 2..9 : chars[i] \notin Blanks}
    IN  "emitter_category" :> chars[1]
     @@ Given(used # {}, IF 215 \in frame THEN "callsign" ELSE "squawk", SubSeq(chars, 2, Max(used)))

\* the other kind of altitude
uat_decode_auxsv(frame) ==
    Given(Bits(frame, 233, 244) # 0, "sec_altitude",
          <<IF 80 \in frame THEN "baro" ELSE "geo", Feet(Bits(frame, 233, 244))>>)

\* all that is not in a frame of a type is zero, and so its aircraft subsonic
uat_decode_adsb_mdb(frame) ==
    LET type == Bits(frame, 1, 5)
    IN  uat_decode_hdr(frame)
     @@ (IF type \in 0..10 THEN uat_decode_sv(frame) ELSE "airground" :> "subsonic")
     @@ (IF type \in {1, 3} THEN uat_decode_ms(frame) ELSE <<>>)
     @@ (IF type \in {1, 2, 5, 6} THEN uat_decode_auxsv(frame) ELSE <<>>)
-----------------------------------------------------------------------------
(* Writing squitters.                                                      *)

Knows(mdb, name) == name \in DOMAIN mdb
Limit(x, low, high) == IF x < low THEN low ELSE IF x > high THEN high ELSE x
Magnitude(x) == IF x < 0 THEN -x ELSE x

\* eleven bits, and the one of steps of 25 feet among them; no altitude is zeros
encode_altitude(ft) ==
    LET n == Limit((ft + 1000) \div 25, 0, 2047) IN << <<n \div 16, 7>>, One(TRUE), <<n % 16, 4>> >>
Unavailable == <<Zeros(12)>>

encode_ground_speed(kt) ==
    CASE kt > 175 -> 124
      [] kt \in 101..175 -> ((kt - 100) \div 5) + 108
      [] kt \in 71..100  -> ((kt - 70) \div 2) + 93
      [] kt \in 16..70   -> (kt - 15) + 38
      [] kt \in 3..15    -> (kt - 2) * 2 + 11
      [] kt = 2 -> 12
      [] kt = 1 -> 8
      [] kt = 0 -> 1

\* a sign, and a number whose 0 is written as 1
encode_air_speed(kt, supersonic) ==
    <<One(kt < 0), <<Limit((Magnitude(kt) \div (IF supersonic THEN 4 ELSE 1)) + 1, 1, 1023), 10>> >>
encode_vert_rate(rate) == <<One(rate < 0), <<Limit((Magnitude(rate) \div 64) + 1, 1, 511), 9>> >>

\* where the number of longitude zones changes, rounded up to 2^-24 of a circle
Transitions ==
    << 487960, 691044, 847542, 980041, 1097279, 1203731, 1302052, 1393971, 1480688, 1563075, 1641791,
       1717347, 1790149, 1860527, 1928752, 1995051, 2059616, 2122610, 2184177, 2244437, 2303501, 2361464,
       2418409, 2474414, 2529547, 2583868, 2637434, 2690296, 2742499, 2794087, 2845098, 2895569, 2945533,
       2995021, 3044061, 3092680, 3140904, 3188754, 3236252, 3283419, 3330272, 3376827, 3423101, 3469106,
       3514853, 3560351, 3605606, 3650617, 3695382, 3739886, 3784102, 3827982, 3871436, 3914299, 3956239,
       3996493, 4032841, 4054494 >>
cprNL(lat) == 59 - Cardinality({i \in DOMAIN Transitions : Transitions[i] <= lat})
cprN(lat, odd) == Max({1, cprNL(lat) - (IF odd THEN 1 ELSE 0)})

\* zones of latitude, and the size of a step in a zone; a surface position has the upper bits cut off
LatZones(odd) == IF odd THEN 59 ELSE 60
Step(surface) == IF surface THEN 32 ELSE 128
Steps(x, zones, surface) == (((x * zones) % Circle) + (Step(surface) \div 2)) \div Step(surface)
encode_cpr_lat(lat, odd, surface) == Steps(lat, LatZones(odd), surface) % 2^17
\* the zones of longitude are those at the latitude that will be read
encode_cpr_lon(lat, lon, odd, surface) ==
    LET nz   == LatZones(odd)
        zone == (lat * nz) \div Circle
        Rlat == Magnitude(zone * Circle + Steps(lat, nz, surface) * Step(surface)) \div nz
    IN  Steps(lon, cprN(Rlat, odd), surface) % 2^17

encode_cf(mdb) == CASE mdb.address_qualifier = 0 -> 6 [] mdb.address_qualifier \in {2, 3} -> 2 [] OTHER -> 1
encode_imf(mdb) == One(mdb.address_qualifier \notin {0, 2})

Squitter(mdb, me) == << <<18, 5>>, <<encode_cf(mdb), 3>>, <<mdb.address, 24>> >> \o me

\* an even and an odd message; a position that is not known is that of latitude and longitude 0
Pair(mdb, head, surface) ==
    LET p == IF Knows(mdb, "position") THEN mdb.position ELSE <<0, 0>>
    IN  [i \in 1..2 |->
            Squitter(mdb, head \o <<One(i = 2), <<encode_cpr_lat(p[1], i = 2, surface), 17>>,
                                    <<encode_cpr_lon(p[1], p[2], i = 2, surface), 17>> >>)]

send_altitude_only(mdb) ==
    LET baro == {f \in {"altitude", "sec_altitude"} : Knows(mdb, f) /\ mdb[f][1] = "baro"}
    IN  <<Squitter(mdb, <<Zeros(5), Zeros(2), encode_imf(mdb)>>
                        \o (IF baro = {} THEN Unavailable ELSE encode_altitude(mdb[CHOOSE f \in baro : TRUE][2]))
                        \o <<Zeros(2), Zeros(17), Zeros(17)>>)>>

maybe_send_surface_position(mdb) ==
    LET known == Knows(mdb, "track") /\ mdb.track[1] = "track"
    IN  IF mdb.airground # "ground" THEN <<>>
        ELSE Pair(mdb, << <<8, 5>>, <<IF Knows(mdb, "speed") THEN encode_ground_speed(mdb.speed) ELSE 0, 7>>,
                          One(known), <<IF known THEN (mdb.track[2] * 128) \div 360 ELSE 0, 7>>,
                          encode_imf(mdb)>>, TRUE)

InTheAir(mdb) == mdb.airground \in {"subsonic", "supersonic"}
maybe_send_air_position(mdb) ==
    LET geo == Knows(mdb, "altitude") /\ mdb.altitude[1] = "geo"
    IN  IF ~InTheAir(mdb) THEN <<>>
        ELSE IF ~Knows(mdb, "position") THEN send_altitude_only(mdb)
        ELSE Pair(mdb, << <<IF geo THEN 22 ELSE 18, 5>>, Zeros(2), encode_imf(mdb)>>
                       \o (IF Knows(mdb, "altitude") THEN encode_altitude(mdb.altitude[2]) ELSE Unavailable)
                       \o <<Zeros(1)>>, FALSE)

\* the sign tells whether the geometric altitude is below the other one
GeomDelta(mdb) ==
    IF ~Knows(mdb, "altitude") \/ ~Knows(mdb, "sec_altitude") THEN <<Zeros(8)>>
    ELSE LET above == mdb.altitude[2] - mdb.sec_altitude[2]
             baro  == mdb.altitude[1] = "baro"
         IN  <<One(IF above < 0 THEN ~baro ELSE baro), <<Limit((Magnitude(above) \div 25) + 1, 0, 127), 7>> >>

maybe_send_air_velocity(mdb) ==
    LET supersonic == mdb.airground = "supersonic"
        speed(f) == IF Knows(mdb, f) THEN encode_air_speed(mdb[f], supersonic) ELSE <<Zeros(11)>>
        rate == IF Knows(mdb, "vert_rate")
                THEN <<One(mdb.vert_rate[1] = "geo")>> \o encode_vert_rate(mdb.vert_rate[2])
                ELSE <<Zeros(11)>>
    IN  IF ~InTheAir(mdb) \/ {"ns_vel", "ew_vel", "vert_rate"} \intersect DOMAIN mdb = {} THEN <<>>
        ELSE <<Squitter(mdb, << <<19, 5>>, <<IF supersonic THEN 2 ELSE 1, 3>>, encode_imf(mdb), Zeros(4)>>
                             \o speed("ew_vel") \o speed("ns_vel") \o rate \o <<Zeros(2)>> \o GeomDelta(mdb))>>

\* the number of a character in the other alphabet; there is no character after the end
char_to_ais(name, i) ==
    IF i > Len(name) THEN 32
    ELSE CASE name[i] < 10       -> 48 + name[i]
           [] name[i] \in 10..35 -> name[i] - 9
           [] name[i] \in Blanks -> 32
           [] OTHER              -> 46

\* of a squawk of four digits
encodeSquawk(squawk) == Id13Fields(CodeOf(squawk))
mapSquawkToEmergency(squawk) ==
    CASE squawk = <<7, 5, 0, 0>> -> 5 [] squawk = <<7, 6, 0, 0>> -> 4 [] squawk = <<7, 7, 0, 0>> -> 1 [] OTHER -> 0

\* a callsign is not sent of an address that is not one of ICAO
maybe_send_callsign(mdb) ==
    LET e == mdb.emitter_category
    IN  CASE Knows(mdb, "callsign") /\ encode_imf(mdb) = One(FALSE) ->
                <<Squitter(mdb, (IF e <= 31 THEN << <<4 - (e \div 8), 5>>, <<e % 8, 3>> >> ELSE << <<4, 5>>, Zeros(3)>>)
                                \o [i \in 1..8 |-> <<char_to_ais(mdb.callsign, i), 6>>])>>
          [] Knows(mdb, "squawk") ->
                <<Squitter(mdb, << <<28, 5>>, <<1, 3>>, <<mapSquawkToEmergency(mdb.squawk), 3>> >>
                                \o encodeSquawk(mdb.squawk) \o <<Zeros(16), Zeros(15), encode_imf(mdb)>>)>>
          [] OTHER -> <<>>

\* The generator polynomial, and crc_table: what is left of a single bit, from bit 88 to the first; each is that
\* of the bit after it, times x.
Generator == {88 + g : g \in (1..12) \union {14, 21, 24}}
TimesX(rem) ==
    LET up == {k - 1 : k \in rem} IN IF 88 \in up THEN SymDiff(up \ {88}, Generator) ELSE up
crc_table == FoldLeft(LAMBDA t, i : Append(t, TimesX(Last(t))), <<Generator>>, [i \in 1..87 |-> i])
checksum(bits) ==
    {k \in 89..112 : Cardinality({i \in bits \intersect (1..88) : k \in crc_table[89 - i]}) % 2 = 1}
modesChecksum(bits) == SymDiff(checksum(bits), bits \intersect (89..112))
checksum_and_print(fields) == LET bits == Packed(fields) IN bits \union checksum(bits)

\* an aircraft is in the air or on the ground, so there is one position at most
generate_esnt(mdb) ==
    IF mdb.address = 0 THEN <<>>
    ELSE LET messages == maybe_send_surface_position(mdb) \o maybe_send_air_position(mdb)
                         \o maybe_send_air_velocity(mdb) \o maybe_send_callsign(mdb)
         IN  [i \in DOMAIN messages |-> checksum_and_print(messages[i])]

\* The level of the signal, from 1 if there is one; the line gives its power, of full scale, and this is the
\* amplitude in tenths of 1/255.  No level is full scale.
SignalOf(amplitude) == IF amplitude = <<>> THEN 255 ELSE Limit((amplitude[1] + 5) \div 10, 1, 255)

\* a line of a downlink frame
process_line(line) ==
    IF line.kind = "downlink" THEN generate_esnt(uat_decode_adsb_mdb(line.frame)) ELSE <<>>

\* The first line of an aircraft that was not heard for a while only makes it known.
FirstAfter == 300
decodeUatMessage(line, seen, now) ==
    LET messages == process_line(line)
        known    == now <= seen + FirstAfter
    IN  [read  |-> IF known THEN [i \in DOMAIN messages |-> decodeExtendedSquitter(18, messages[i])] ELSE <<>>,
         crcs  |-> {modesChecksum(messages[i]) : i \in DOMAIN messages},
         level |-> SignalOf(line.amplitude),
         seen  |-> IF known \/ messages = <<>> THEN seen ELSE now]
-----------------------------------------------------------------------------
(* Reading positions, by an even and an odd message; the reference is needed on the ground. *)

\* Numerators of the latitude, whose denominators are 60 and 59.  Those of a surface position are known up to a
\* quarter of a circle.
Latitude(cpr, odd, surface, ref) ==
    LET j     == (59 * cpr[1][3] - 60 * cpr[2][3] + 2^16) \div 2^17
        nz    == LatZones(odd)
        lat   == (((j % nz) * 2^17) + cpr[IF odd THEN 2 ELSE 1][3]) * Step(surface)
    IN  IF surface
        THEN IF lat = 0 /\ ref > Circle \div 8 THEN (Circle \div 4) * nz
             ELSE IF lat > (ref + (Circle \div 8)) * nz \/ (lat = 0 /\ ref < -(Circle \div 8))
             THEN lat - (Circle \div 4) * nz ELSE lat
        ELSE IF lat >= 3 * (Circle \div 4) * nz THEN lat - Circle * nz ELSE lat

\* decodeCPRairborne, decodeCPRsurface: the numerators of latitude and longitude with their denominators
ReadPosition(cpr, odd, surface, ref) ==
    LET lat(o) == Latitude(cpr, o, surface, ref)
        whole(o) == Magnitude(lat(o)) \div LatZones(o)
        nl     == cprNL(whole(odd))
        m      == (cpr[1][4] * (nl - 1) - cpr[2][4] * nl + 2^16) \div 2^17
        ni     == cprN(whole(odd), odd)
    IN  IF cprNL(whole(FALSE)) # cprNL(whole(TRUE)) THEN <<>>
        ELSE << <<lat(odd), LatZones(odd)>>,
                <<(((m % ni) * 2^17) + cpr[IF odd THEN 2 ELSE 1][4]) * Step(surface), ni>> >>
-----------------------------------------------------------------------------
(* What a transponder writes.  Its position, its callsign, and so on are   *)
(* what it says; the kind of its first altitude is geo or not.             *)

AltitudeCode12(r, name) == <<IF Has(r, name) THEN ((r.says[name] + 1000) \div 25) + 1 ELSE 0, 12>>
Word(a, b, c) == <<a * 1600 + b * 40 + c, 16>>
LetterOf(name, i) == IF i <= Len(name) THEN name[i] ELSE 36

MotionFields(r) ==
    LET part(f, scale) == Offset(r, f, scale, 10)
        scale == IF r.airground = 1 THEN 4 ELSE 1
        baro  == Has(r, "baro_rate")
    IN  IF r.airground = 2
        THEN << <<IF Has(r, "speed") THEN r.says.speed + 1 ELSE 0, 11>>,
                <<Said(r, "track", <<0, 0>>)[1], 2>>, <<Said(r, "track", <<0, 0>>)[2], 9>>, Zeros(11)>>
        ELSE part("ns", scale) \o part("ew", scale)
             \o <<One(baro)>> \o Offset(r, IF baro THEN "baro_rate" ELSE "geom_rate", 64, 9)

FrameOf(r) ==
    LET p    == Said(r, "position", <<0, 0>>)
        name == IF Has(r, "squawk") THEN r.says.squawk ELSE Said(r, "callsign", <<>>)
        c(i) == LetterOf(name, i)
    IN  Packed(<< <<r.type, 5>>, <<r.qualifier, 3>>, <<r.address, 24>>,
                  <<p[1] % 2^23, 23>>, <<p[2] % 2^24, 24>>, One(r.geo), AltitudeCode12(r, "altitude"),
                  <<IF Has(r, "position") THEN 8 ELSE 0, 4>>, <<r.airground, 2>>, Zeros(1)>>
               \o MotionFields(r)
               \o <<Zeros(4), Word(r.category, c(1), c(2)), Word(c(3), c(4), c(5)), Word(c(6), c(7), c(8)),
                    Zeros(30), One(Has(r, "callsign")), Zeros(17), AltitudeCode12(r, "sec_altitude")>>)
-----------------------------------------------------------------------------
(* What must arrive.                                                       *)

Among(messages, f) == {m.has[f] : m \in {x \in messages : f \in DOMAIN x.has}}
OfThem(cond, r, f) == IF cond /\ Has(r, f) THEN {r.says[f]} ELSE {}
HasState(r) == r.type \in 0..10
HasName(r)  == r.type \in {1, 3}
HasSecond(r) == r.type \in {1, 2, 5, 6}
InAir(r)    == HasState(r) => r.airground \in 0..1
Icao(r)     == r.qualifier \in {0, 2}

\* altitudes are cut off at 50 175 feet; one that is not the first is said only without a position
AltitudesRead(r, messages) ==
    LET air    == InAir(r) /\ HasState(r)
        pos    == Has(r, "position")
        second == IF HasSecond(r) THEN OfThem(air /\ ~pos /\ r.geo, r, "sec_altitude") ELSE {}
        baro   == OfThem(air /\ ~r.geo, r, "altitude") \union second
    IN  /\ Among(messages, "baro_alt") = {Limit(a, -1000, 50175) : a \in baro}
        /\ Among(messages, "geom_alt") = {Limit(a, -1000, 50175) : a \in OfThem(air /\ pos /\ r.geo, r, "altitude")}

\* The rate is read with its value; which source it has is not, see the README.
VelocityRead(r, messages) ==
    LET air  == InAir(r) /\ HasState(r)
        rate == OfThem(air, r, "baro_rate") \union OfThem(air, r, "geom_rate")
        above == (IF r.geo THEN 1 ELSE -1) * (r.says.altitude - r.says.sec_altitude)
    IN  /\ Among(messages, "velocity") = IF air /\ Has(r, "ns") /\ Has(r, "ew") THEN {<<r.says.ew, r.says.ns>>} ELSE {}
        /\ Among(messages, "baro_rate") \union Among(messages, "geom_rate") = rate
        /\ Among(messages, "geom_delta") =
                IF /\ air /\ HasSecond(r) /\ Has(r, "altitude") /\ Has(r, "sec_altitude")
                   /\ rate # {} \/ Has(r, "ns") \/ Has(r, "ew")
                THEN {Limit(above, -3150, 3150)} ELSE {}

\* A speed on the ground is read as up to one and a half steps less; from 176 knots it is 180, and 3 to 12 is
\* where the steps of the two codes differ.
GroundRead(r, messages) ==
    LET ground == HasState(r) /\ r.airground = 2
        gs     == Among(messages, "gs_v2")
        track  == ground /\ Has(r, "track") /\ r.says.track[1] = 1
        width(kt) == IF kt > 100 THEN 5 ELSE IF kt > 70 THEN 2 ELSE 1
    IN  /\ gs = {} <=> ~(ground /\ Has(r, "speed"))
        /\ \A x \in gs : LET kt == r.says.speed
                         IN  IF kt > 175 THEN x = 180 * 96
                             ELSE 2 * (x - 96 * kt) \in (-3 * width(kt) * 96)..(width(kt) * 96)
        /\ Among(messages, "heading") # {} <=> track
        /\ \A h \in Among(messages, "heading") :
                h[1] = "track_or_heading" /\ (r.says.track[2] \div 4) - h[2] \in 0..1

\* half a step of a number modulo all
Near(x, y, all, step) == ((x - y + (step \div 2)) % all) \in 0..step
\* both messages of a pair give the position; not if a transition of the zones is between them
PositionRead(r, messages) ==
    LET cprs    == Among(messages, "cpr")
        surface == HasState(r) /\ r.airground = 2
        p       == Said(r, "position", <<0, 0>>)
        all     == IF surface THEN Circle \div 4 ELSE Circle
        cpr(odd) == CHOOSE c \in cprs : c[2] = odd
    IN  IF ~HasState(r) \/ r.airground = 3 \/ (~surface /\ ~Has(r, "position")) THEN cprs = {}
        ELSE /\ {c[2] : c \in cprs} = BOOLEAN /\ Cardinality(cprs) = 2
             /\ \A odd \in BOOLEAN :
                    LET read == ReadPosition(<<cpr(FALSE), cpr(TRUE)>>, odd, surface, p[1])
                    IN  IF read = <<>>
                        THEN \E i \in DOMAIN Transitions : Magnitude(p[1]) - Transitions[i] \in -128..128
                        ELSE /\ Magnitude(read[1][1] - p[1] * read[1][2]) <= Step(surface) \div 2
                             /\ Near(read[2][1], (p[2] % all) * read[2][2], all * read[2][2], Step(surface))

\* a category that is reserved is none
NameRead(r, messages) ==
    LET named  == HasName(r) /\ Has(r, "callsign") /\ Icao(r)
        squawk == OfThem(HasName(r), r, "squawk")
        ais(i) == LET c == LetterOf(r.says.callsign, i)
                  IN  IF c < 10 THEN 48 + c ELSE IF c < 36 THEN c - 9 ELSE IF c < 38 THEN 32 ELSE 46
    IN  /\ Among(messages, "callsign") =
                IF named THEN {[i \in 1..8 |-> ais(i)]} ELSE {}
        /\ Among(messages, "category") =
                IF named THEN {IF r.category <= 31 THEN <<10 + (r.category \div 8), r.category % 8>> ELSE <<10, 0>>}
                ELSE {}
        /\ Among(messages, "squawk") = squawk
        /\ squawk # {} =>
                Among(messages, "emergency") =
                    {CASE squawk = {<<7, 5, 0, 0>>} -> 5 [] squawk = {<<7, 6, 0, 0>>} -> 4
                       [] squawk = {<<7, 7, 0, 0>>} -> 1 [] OTHER -> 0}

\* a rebroadcast, traffic information or another one, with the address of ICAO or not; the callsign of one
\* without is not sent
KindRead(r, messages) ==
    \A m \in messages :
        /\ m.kind.nonIcao = ~Icao(r)
        /\ m.kind.addrtype = CASE r.qualifier = 0 -> "adsr_icao" [] r.qualifier = 2 -> "tisb_icao"
                               [] r.qualifier = 3 -> "tisb_trackfile" [] OTHER -> "adsb_other"

FrameRead(r, messages) ==
    /\ KindRead(r, messages)
    /\ PositionRead(r, messages)
    /\ AltitudesRead(r, messages)
    /\ VelocityRead(r, messages)
    /\ GroundRead(r, messages)
    /\ NameRead(r, messages)

\* d: what decodeUatMessage makes of the line
LineRead(r, kind, amplitude, seen, now, d) ==
    /\ d.level \in 1..255
    /\ amplitude # <<>> /\ amplitude[1] < 2545 => Magnitude(10 * d.level - amplitude[1]) <= 10
    /\ d.crcs \subseteq {{}}
    /\ d.read = <<>> \/ d.seen = seen
    /\ IF kind # "downlink" \/ r.address = 0 THEN d.read = <<>> /\ d.seen = seen
       ELSE IF now - seen > FirstAfter THEN d.read = <<>> /\ d.seen \in {seen, now}
       ELSE FrameRead(r, Range(d.read))

\* What is read from the squitters of a frame is what the frame said, of an aircraft that was heard of lately;
\* with a checksum that is right, and at a level from 1 to 255.
UatAsSent(r, kind, amplitude, seen, now) ==
    \A d \in {decodeUatMessage([kind |-> kind, frame |-> FrameOf(r), amplitude |-> amplitude], seen, now)} :
        LineRead(r, kind, amplitude, seen, now, d)
==============================================================================
