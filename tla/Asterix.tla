------------------------------- MODULE Asterix -------------------------------
(***************************************************************************)
(* ASTERIX category 21 records: modesSendAsterixOutput writes one for a    *)
(* message, decodeAsterixMessage of another program reads it.              *)
(*                                                                         *)
(* A record is the set of items its FSPEC announces and the octets that    *)
(* follow.  A message mm has in `has` the valid fields with their values:  *)
(* positions in half units of the 24 bit coordinates (180 / 2^24 degrees), *)
(* headings, speeds and Mach numbers in tenths of what the record can      *)
(* express or finer, squawks and categories as digits, times in            *)
(* milliseconds.                                                           *)
(***************************************************************************)
EXTENDS Integers, Sequences, SequencesExt, FiniteSetsExt, TLC

Day == 86400000

\* a field and its value, if the condition holds
Given(cond, name, value) == IF cond THEN name :> value ELSE <<>>

\* division in C
Quot(a, b) == IF a >= 0 THEN a \div b ELSE -((-a) \div b)

\* v as two, or three, octets; and back, as int16_t and as it is
Two(v)   == <<(v \div 256) % 256, v % 256>>
Three(v) == <<(v \div 65536) % 256, (v \div 256) % 256, v % 256>>
\* with the uppermost bit cleared
Fifteen(v) == <<(v \div 256) % 128, v % 256>>

\* FSPEC: the items in the order of their bits, seven to an octet
Items == <<"010", "040", "161", "015", "071", "130", "131",
           "072", "150", "151", "080", "073", "074", "075",
           "076", "140", "090", "210", "070", "230", "145",
           "152", "200", "155", "157", "160", "165", "077",
           "170", "020", "220", "146", "148", "110", "016",
           "008", "271", "132", "250", "260", "400", "295">>

AisCharset ==
    <<"@", "A", "B", "C", "D", "E", "F", "G", "H", "I", "J", "K", "L", "M", "N", "O", "P", "Q",
      "R", "S", "T", "U", "V", "W", "X", "Y", "Z", "[", "\\", "]", "^", "_", " ", "!", "\"", "#",
      "$", "%", "&", "'", "(", ")", "*", "+", ",", "-", ".", "/", "0", "1", "2", "3", "4", "5",
      "6", "7", "8", "9", ":", ";", "<", "=", ">", "?">>
CharToAis(ch) == LET i == SelectInSeq(AisCharset, LAMBDA x : x = ch) IN IF i = 0 THEN 32 ELSE i - 1
-----------------------------------------------------------------------------
(* Writing, item by item.                                                  *)

Has(mm, f)  == f \in DOMAIN mm.has
Or0(mm, f)  == IF Has(mm, f) THEN mm.has[f] ELSE 0
OrNo(mm, f) == Has(mm, f) /\ mm.has[f]
Bit(cond, value) == IF cond THEN value ELSE 0

\* the time of day, in 1/128 s
AsterixTime(t) == Three(((t % Day) * 16) \div 125)

\* the second octet is announced by the first if there is anything in it
Descriptor(mm) ==
    LET first == Bit(mm.nonIcao, 96)
                 + Bit(~mm.nonIcao /\ mm.addrtype \in {"ADSB_OTHER", "ADSR_OTHER", "TISB_OTHER"}, 64)
                 + Bit(~mm.alt_q_bit, 8)
    IN  IF OrNo(mm, "ground") THEN <<first + 1, 64>> ELSE <<first>>

Position(mm) ==
    Three(Quot(mm.has.pos[1], 2) % 16777216) \o Three(Quot(mm.has.pos[2], 2) % 16777216)

AirSpeed(mm) ==
    IF Has(mm, "mach") THEN LET s == Fifteen(mm.has.mach \div 10) IN <<128 + s[1], s[2]>>
    ELSE Fifteen((mm.has.ias * 16384) \div 3600)

GeometricHeight(mm, a) ==
    Two(Quot((IF Has(mm, "geom_alt") THEN mm.has.geom_alt ELSE a.baro_alt + mm.has.geom_delta) * 4, 25))

\* an octet that is empty is not written, and the one after it takes its place
Quality(mm) ==
    LET q0 == 32 * Or0(mm, "nac_v") + 2 * Or0(mm, "nucp")
        q1 == 128 * Or0(mm, "nic_baro") + 32 * Or0(mm, "sil") + 2 * Or0(mm, "nac_p")
        q2 == Bit(OrNo(mm, "sil_per_sample"), 32) + 8 * Or0(mm, "sda") + 2 * Or0(mm, "gva")
        present == SelectSeq(<<q1, q2>>, LAMBDA q : q # 0)
    IN  IF present = <<>> THEN <<q0>>
        ELSE IF Len(present) = 1 THEN <<q0 + 1, present[1]>> ELSE <<q0 + 1, q1 + 1, q2>>

MopsVersion(mm) ==
    <<8 * mm.has.version
      + (IF mm.remote
         THEN CASE mm.addrtype \in {"ADSB_ICAO", "ADSB_OTHER"} -> 2
                [] mm.addrtype \in {"ADSR_ICAO", "ADSR_OTHER"} -> 1
                [] OTHER -> 0
         ELSE CASE mm.source = "ADSB" -> 2 [] mm.source = "ADSR" -> 1 [] OTHER -> 0)>>

SquawkCode(d) == <<2 * d[1] + d[2] \div 4, 64 * (d[2] % 4) + 8 * d[3] + d[4]>>

\* of the modes only 2 (VNAV) is written; without an alert, the ident
TargetStatus(mm) ==
    <<Bit(Has(mm, "nav_modes") /\ 2 \in mm.has.nav_modes, 64) + 4 * Or0(mm, "emergency")
      + (IF Has(mm, "alert") THEN Bit(mm.has.alert, 1) ELSE Bit(OrNo(mm, "spi"), 3))>>

\* the cast of the rate to int16_t, then >> 1
VerticalRate(v) == Fifteen(Quot(v * 8, 25) \div 2)

\* gs in tenths of a knot, headings in tenths of a degree
GroundVector(mm) ==
    Fifteen((mm.has.gs * 45511) \div 100000) \o Two((mm.has.track * 4096) \div 225)
MagneticHeading(mm) == Two(18 * mm.has.mag + (mm.has.mag * 20444) \div 100000)

\* four characters in three octets
Identification(mm) ==
    LET code(i) == CharToAis(mm.has.callsign[i])
        half(i) == Three(262144 * code(i) + 4096 * code(i + 1) + 64 * code(i + 2) + code(i + 3))
    IN  half(1) \o half(5)

\* categories that have no code leave the item empty although FSPEC announces it
EmitterCategory(mm) ==
    IF ~Has(mm, "category") \/ mm.has.category[2] = 0 THEN <<0>>
    ELSE LET set == mm.has.category[1]
             ca  == mm.has.category[2]
         IN  CASE set = "A" -> <<IF ca = 7 THEN 10 ELSE ca>>
               [] set = "B" -> IF ca = 5 THEN <<>> ELSE <<(<<11, 12, 16, 15, 0, 13, 14>>)[ca]>>
               [] set = "C" -> IF ca = 2 THEN <<>> ELSE <<(<<20, 0, 21, 22, 22, 22, 22>>)[ca]>>
               [] set = "D" -> <<>>

MetInformation(mm) ==
    <<Bit(Has(mm, "wind"), 192) + Bit(Has(mm, "oat"), 32)>>
    \o (IF Has(mm, "wind") THEN Two(mm.has.wind[1]) \o Two(mm.has.wind[2]) ELSE <<>>)
    \o (IF Has(mm, "oat") THEN Two(mm.has.oat) ELSE <<>>)

SelectedAltitude(mm) ==
    LET alt == Quot(IF Has(mm, "mcp_altitude") THEN mm.has.mcp_altitude ELSE mm.has.fms_altitude, 25)
    IN  <<(IF Has(mm, "mcp_altitude") THEN 192 ELSE 224) + ((alt \div 256) % 32), alt % 256>>

\* the items of a message and their octets; a is the aircraft
Written(mm, a, now) ==
    LET any(fs) == \E f \in fs : Has(mm, f)
    IN  Given(TRUE, "010", <<0, 1>>)
     @@ Given(TRUE, "040", Descriptor(mm))
     @@ Given(Has(mm, "pos"), "130", Position(mm))
     @@ Given(any({"ias", "mach"}), "150", AirSpeed(mm))
     @@ Given(Has(mm, "tas"), "151", Fifteen(mm.has.tas))
     @@ Given(TRUE, "080", Three(mm.addr))
     @@ Given(Has(mm, "pos"), "073", AsterixTime(mm.sysTimestamp))
     @@ Given(Has(mm, "gs") /\ Has(mm, "track"), "075", AsterixTime(mm.sysTimestamp))
     @@ Given(any({"geom_alt", "geom_delta"}), "140", GeometricHeight(mm, a))
     @@ Given(TRUE, "090", Quality(mm))
     @@ Given(Has(mm, "version"), "210", MopsVersion(mm))
     @@ Given(Has(mm, "squawk"), "070", SquawkCode(mm.has.squawk))
     @@ Given(Has(mm, "roll"), "230", Two(Quot(mm.has.roll, 2)))
     @@ Given(Has(mm, "baro_alt"), "145", Two(Quot(mm.has.baro_alt, 25)))
     @@ Given(Has(mm, "mag"), "152", MagneticHeading(mm))
     @@ Given(any({"spi", "alert", "emergency", "nav_modes"}), "200", TargetStatus(mm))
     @@ Given(Has(mm, "baro_rate"), "155", VerticalRate(mm.has.baro_rate))
     @@ Given(Has(mm, "geom_rate"), "157", VerticalRate(mm.has.geom_rate))
     @@ Given(Has(mm, "gs") /\ Has(mm, "track"), "160", GroundVector(mm))
     @@ Given(TRUE, "077", AsterixTime(now))
     @@ Given(Has(mm, "callsign"), "170", Identification(mm))
     @@ Given(Has(mm, "category") \/ ~a.category, "020", EmitterCategory(mm))
     @@ Given(any({"wind", "oat"}), "220", MetInformation(mm))
     @@ Given(any({"mcp_altitude", "fms_altitude"}), "146", SelectedAltitude(mm))
     @@ Given(Has(mm, "version") /\ mm.status # 0, "008", <<mm.status>>)
     @@ Given(mm.receiverId # 0, "400", <<mm.receiverId % 256>>)

SendAsterixOutput(mm, a, now) ==
    LET w == Written(mm, a, now)
    IN  [fspec |-> DOMAIN w,
         octets |-> FlattenSeq([i \in DOMAIN Items |-> IF Items[i] \in DOMAIN w THEN w[Items[i]] ELSE <<>>])]
-----------------------------------------------------------------------------
(* Reading.                                                                *)

\* behind the record is what the buffer has held before
At(b, p) == IF p <= Len(b) THEN b[p] ELSE 0

U16(b, p) == 256 * At(b, p) + At(b, p + 1)
U15(b, p) == (256 * (At(b, p) % 128)) + At(b, p + 1)
I16(b, p) == IF U16(b, p) >= 32768 THEN U16(b, p) - 65536 ELSE U16(b, p)
U24(b, p) == 65536 * At(b, p) + U16(b, p + 1)
I24(b, p) == IF U24(b, p) >= 8388608 THEN U24(b, p) - 16777216 ELSE U24(b, p)

\* octets of a field that ends at the first even one
Extent(b, p) == Min({n \in 1..6 : At(b, p + n - 1) % 2 = 0} \union {6})

\* how many octets the reader passes for an item.  A high precision time is read with the
\* time it belongs to.  Of the Met information only the flags are passed.
Passed(rec, item, p) ==
    CASE item \in {"015", "210", "200", "020"}        -> 1
      [] item \in {"010", "161", "150", "151", "140", "070", "230", "145", "152", "155", "157",
                   "165", "146"}                       -> 2
      [] item \in {"071", "072", "080", "077"}        -> 3
      [] item \in {"160"}                             -> 4
      [] item \in {"130", "170"}                      -> 6
      [] item \in {"131"}                             -> 8
      [] item = "073" -> IF "074" \in rec.fspec THEN 7 ELSE 3
      [] item = "075" -> IF "076" \in rec.fspec THEN 7 ELSE 3
      [] item \in {"040", "090", "220"} -> Extent(rec.octets, p)
      [] OTHER -> 0

\* where the reader looks for each item, up to the selected altitude
Places(rec) ==
    LET place[i \in 1..32] ==
            IF i = 1 THEN 1
            ELSE place[i - 1] + (IF Items[i - 1] \in rec.fspec
                                 THEN Passed(rec, Items[i - 1], place[i - 1]) ELSE 0)
    IN  place

PlaceOf(places, item) == places[SelectInSeq(Items, LAMBDA x : x = item)]

\* a time of day is one of today; if that is half a day ahead, of yesterday
ReadAsterixTime(b, p, now) ==
    LET midnight == (now \div Day) * Day
        mssm     == (U24(b, p) * 125) \div 16
    IN  IF mssm - (now - midnight) \notin -(Day \div 2)..(Day \div 2)
        THEN midnight - Day + mssm ELSE midnight + mssm

\* FSI 1 and 2 add or take a millisecond, and the fraction of a second counts milliseconds
Precise(b, p, t) ==
    LET fsi == At(b, p) \div 64
    IN  (t \div 1000) * 1000 + Bit(fsi = 1, 1) - Bit(fsi = 2, 1) + ((At(b, p) % 64) \div 8)

\* the position, in half units, and the one in high resolution
ReadPosition(b, p) == <<2 * I24(b, p), 2 * I24(b, p + 3)>>
ReadHighRes(b, p)  == <<4 * I24(b, p) + (At(b, p + 3) \div 64), 4 * I24(b, p + 4) + (At(b, p + 7) \div 64)>>
OnEarth(pos)       == pos[1] \in -8388608..8388608 /\ pos[2] \in -16777216..16777216

ReadAirSpeed(b, p) ==
    IF At(b, p) >= 128 THEN "mach" :> 10 * U15(b, p) ELSE "ias" :> (U15(b, p) * 3600) \div 16384

\* 6.25 feet; altitudes out of the range are ignored
ReadGeometricHeight(b, p) ==
    LET alt == I16(b, p) * 25
    IN  Given(alt >= -6000 /\ alt <= 600000, "geom_alt", Quot(alt, 4))

ReadQuality(b, p) ==
    LET n  == Extent(b, p)
        q1 == IF n > 1 THEN At(b, p + 1) ELSE 0
        q2 == IF n > 2 THEN At(b, p + 2) ELSE 0
    IN  [nac_v |-> At(b, p) \div 32, nic_baro |-> q1 \div 128, nac_p |-> (q1 \div 2) % 16,
         sil |-> (q1 \div 32) % 4, sil_per_sample |-> (q2 \div 32) % 2 = 1,
         sda |-> (q2 \div 8) % 4, gva |-> (q2 \div 2) % 4]

ReadSquawk(b, p) ==
    LET x == At(b, p)
        y == At(b, p + 1)
    IN  <<(x \div 2) % 8, 4 * (x % 2) + y \div 64, (y \div 8) % 8, y % 8>>

ReadTargetStatus(b, p) ==
    [spi |-> At(b, p) % 4 = 3, alert |-> At(b, p) % 4 # 0, emergency |-> (At(b, p) \div 4) % 8,
     nav_modes |-> IF (At(b, p) \div 64) % 2 = 1 THEN {4} ELSE {}]

\* the uppermost bit says that the range is exceeded; vr is an int16_t
ReadRate(b, p, f) ==
    LET raw == 2 * U15(b, p)
        vr  == IF raw >= 32768 THEN raw - 65536 ELSE raw
    IN  Given(At(b, p) < 128, f, Quot(vr * 25, 8))

ReadHeading(b, p) == (U16(b, p) * 225 + 2048) \div 4096

ReadGroundVector(b, p) ==
    IF At(b, p) >= 128 THEN <<>>
    ELSE "gs" :> (U15(b, p) * 36000) \div 16384 @@ "track" :> ReadHeading(b, p + 2)

\* the characters that make a callsign invalid leave it in place
ReadIdentification(b, p) ==
    LET half(q) == <<U24(b, q) \div 262144, (U24(b, q) \div 4096) % 64,
                     (U24(b, q) \div 64) % 64, U24(b, q) % 64>>
        name    == [i \in 1..8 |-> AisCharset[(half(p) \o half(p + 3))[i] + 1]]
    IN  Given(\A i \in 1..8 : CharToAis(name[i]) \in 0..26 \union {32} \union 45..57, "callsign", name)

ReadCategory(e) ==
    CASE e \in 1..6   -> <<"A", e>>
      [] e = 10       -> <<"A", 7>>
      [] e \in 11..16 -> <<"B", (<<1, 2, 6, 7, 4, 3>>)[e - 10]>>
      [] e \in 20..24 -> <<"C", (<<1, 3, 4, 5, 6>>)[e - 19]>>
      [] e = 0        -> <<"0", 0>>
      [] OTHER        -> <<"E", 0>>

ReadSelectedAltitude(b, p) ==
    LET flags == At(b, p) \div 32
        alt   == 256 * (At(b, p) % 32) + At(b, p + 1)
    IN  IF flags \in {6, 7} /\ alt < 4096
        THEN (IF flags = 6 THEN "mcp_altitude" ELSE "fms_altitude") :> 25 * alt ELSE <<>>

\* the kind of the address, from the link of the MOPS version and the target descriptor
AddrType(ltt, trd) ==
    CASE ltt = 0 -> IF trd = 0 THEN "TISB_ICAO" ELSE "TISB_OTHER"
      [] ltt = 1 -> IF trd = 0 THEN "ADSR_ICAO" ELSE "ADSR_OTHER"
      [] ltt = 2 -> IF trd = 0 THEN "ADSB_ICAO" ELSE "ADSB_OTHER"
      [] OTHER   -> "UNKNOWN"

\* which indicators a version of the standard has
QualityOf(version, q) ==
    CASE version = 1 -> "nac_p" :> q.nac_p @@ "nic_baro" :> q.nic_baro
      [] version = 2 -> "nac_p" :> q.nac_p @@ "nic_baro" :> q.nic_baro
                        @@ "gva" :> q.gva @@ "sda" :> q.sda
      [] OTHER       -> <<>>

\* The first of the times counts: of the position, of the velocity (which is looked at only
\* if an air speed came before it), of the report.
TimeOf(rec, places, has, now) ==
    LET p(item)   == PlaceOf(places, item)
        precise(item) == \/ item = "073" /\ "074" \in rec.fspec
                         \/ item = "075" /\ "076" \in rec.fspec
        at(item)  == LET t == ReadAsterixTime(rec.octets, p(item), now)
                     IN  IF precise(item) THEN Precise(rec.octets, p(item) + 3, t) ELSE t
        times == << <<"071", TRUE>>, <<"072", TRUE>>, <<"073", "pos" \in DOMAIN has>>,
                    <<"075", {"ias", "mach"} \intersect DOMAIN has # {}>>, <<"077", TRUE>> >>
        first == SelectInSeq(times, LAMBDA t : t[1] \in rec.fspec /\ t[2])
    IN  IF first = 0 THEN now ELSE at(times[first][1])

DecodeAsterixMessage(rec, now) ==
    LET b       == rec.octets
        places  == Places(rec)
        in(i)   == i \in rec.fspec
        pl(i)   == PlaceOf(places, i)
        trd     == IF in("040") THEN At(b, pl("040")) \div 32 ELSE 3
        second  == IF Extent(b, pl("040")) > 1 THEN At(b, pl("040") + 1) ELSE 0
        q       == ReadQuality(b, pl("090"))
        version == (At(b, pl("210")) \div 8) % 8
        status  == ReadTargetStatus(b, pl("200"))
        vector  == IF in("160") THEN ReadGroundVector(b, pl("160")) ELSE <<>>
        has     ==
            Given(in("040"), "ground", (second \div 64) % 2 = 1)
         @@ Given(in("131") /\ OnEarth(ReadHighRes(b, pl("131"))), "pos", ReadHighRes(b, pl("131")))
         @@ Given(in("130") /\ OnEarth(ReadPosition(b, pl("130"))), "pos", ReadPosition(b, pl("130")))
         @@ (IF in("150") THEN ReadAirSpeed(b, pl("150")) ELSE <<>>)
         @@ Given(in("151") /\ At(b, pl("151")) < 128, "tas", U15(b, pl("151")))
         @@ (IF in("140") THEN ReadGeometricHeight(b, pl("140")) ELSE <<>>)
         @@ Given(in("090"), "nac_v", q.nac_v)
         @@ Given(in("090") /\ Extent(b, pl("090")) > 1, "sil", q.sil)
         @@ Given(in("090") /\ Extent(b, pl("090")) > 2 /\ (in("210") => version # 1),
                  "sil_per_sample", q.sil_per_sample)
         @@ Given(in("210"), "version", version)
         @@ (IF in("210") THEN QualityOf(version, q) ELSE <<>>)
         @@ Given(in("070"), "squawk", ReadSquawk(b, pl("070")))
         @@ Given(in("230"), "roll", 2 * I16(b, pl("230")))
         @@ Given(in("145"), "baro_alt", 25 * I16(b, pl("145")))
         @@ vector
         @@ Given(in("152") /\ vector = <<>>, "mag", ReadHeading(b, pl("152")))
         @@ (IF in("200") THEN [f \in DOMAIN status |-> status[f]] ELSE <<>>)
         @@ (IF in("155") THEN ReadRate(b, pl("155"), "baro_rate") ELSE <<>>)
         @@ (IF in("157") THEN ReadRate(b, pl("157"), "geom_rate") ELSE <<>>)
         @@ (IF in("170") THEN ReadIdentification(b, pl("170")) ELSE <<>>)
         @@ Given(in("020"), "category", ReadCategory(At(b, pl("020"))))
         @@ (IF in("146") THEN ReadSelectedAltitude(b, pl("146")) ELSE <<>>)
    IN  [addr |-> U24(b, pl("080")), nonIcao |-> trd = 3,
         addrtype |-> IF in("210") THEN AddrType(At(b, pl("210")) % 8, trd) ELSE "ADSB_ICAO",
         alt_q_bit |-> in("040") /\ (At(b, pl("040")) \div 8) % 4 = 0,
         sysTimestamp |-> TimeOf(rec, places, has, now), has |-> has]
-----------------------------------------------------------------------------
(* What must arrive.                                                       *)

Close(x, y, d) == x - y \in -d..d

AsterixStandsFor(f, x, mm) ==
    LET y == mm.has[f]
    IN  CASE f = "pos" -> Close(x[1], y[1], 1) /\ ((x[2] - y[2]) % 33554432) \in {0, 1, 33554431}
          [] f \in {"roll", "track", "mag"}                -> Close(x, y, 1)
          [] f = "ias"                                     -> Close(x, y, 2)
          [] f = "gs"                                      -> Close(x, y, 4)
          [] f \in {"baro_rate", "geom_rate", "geom_alt"}  -> Close(x, y, 7)
          [] f = "mach"                                    -> Close(x, y, 9)
          [] f \in {"baro_alt", "mcp_altitude", "fms_altitude"} -> Close(x, y, 24)
          [] f = "category" ->
                x = IF y[2] = 0 THEN <<"0", 0>> ELSE IF y \in {"C"} \X (5..7) THEN <<"C", 4>> ELSE y
          [] OTHER -> x = y

\* fields that have no place beside another one, or in this version of the standard
AsterixLost(f, mm) ==
    LET version == IF Has(mm, "version") THEN mm.has.version ELSE 0
    IN  \/ f = "ias" /\ Has(mm, "mach")
        \/ f = "spi" /\ Has(mm, "alert")
        \/ f = "fms_altitude" /\ Has(mm, "mcp_altitude")
        \/ f = "gs" /\ ~Has(mm, "track")
        \/ f = "track" /\ ~Has(mm, "gs")
        \/ f \in {"nac_p", "nic_baro"} /\ version \notin {1, 2}
        \/ f \in {"gva", "sda"} /\ version # 2
        \/ f = "callsign" /\ \E i \in 1..8 :
                mm.has.callsign[i] # " " /\ CharToAis(mm.has.callsign[i]) \notin 0..26 \union 45..57

AsterixFields ==
    {"ground", "pos", "mach", "ias", "tas", "geom_alt", "nac_v", "nac_p", "nic_baro", "sil", "gva",
     "sda", "version", "squawk", "roll", "baro_alt", "mag", "spi", "alert", "emergency",
     "baro_rate", "geom_rate", "gs", "track", "callsign", "category", "mcp_altitude",
     "fms_altitude"}

\* Fields that are read although they were not sent are zero, and a position, an altitude or
\* a speed never is.
Invented(f, x) ==
    CASE f \in {"ground", "spi", "alert"} -> TRUE
      [] f = "category" -> x = <<"0", 0>>
      [] OTHER          -> f \in {"nac_v", "nac_p", "nic_baro", "sil", "gva", "sda", "emergency"} /\ x = 0

\* A category without a code and Met information move what follows; an empty octet of the
\* quality indicators moves the next one.
Regular(mm) ==
    /\ Has(mm, "category") => EmitterCategory(mm) # <<>>
    /\ ~(Has(mm, "wind") \/ Has(mm, "oat")) \/ ~(Has(mm, "mcp_altitude") \/ Has(mm, "fms_altitude"))
    /\ \E f \in {"nic_baro", "sil", "nac_p"} : Or0(mm, f) # 0

SentTime(mm, now) ==
    IF Has(mm, "pos") \/ ((Has(mm, "ias") \/ Has(mm, "mach")) /\ Has(mm, "gs") /\ Has(mm, "track"))
    THEN mm.sysTimestamp ELSE now

AsterixRelayed(mm, a, now, later) ==
    LET read == DecodeAsterixMessage(SendAsterixOutput(mm, a, now), later)
        sent == IF Has(mm, "geom_delta") /\ ~Has(mm, "geom_alt")
                THEN [mm EXCEPT !.has = @ @@ "geom_alt" :> a.baro_alt + mm.has.geom_delta] ELSE mm
    IN  Regular(mm) =>
            /\ read.addr = mm.addr /\ read.nonIcao = mm.nonIcao /\ read.alt_q_bit = mm.alt_q_bit
            /\ \A f \in DOMAIN read.has \intersect AsterixFields :
                    IF Has(sent, f) THEN AsterixStandsFor(f, read.has[f], sent) \/ AsterixLost(f, sent)
                    ELSE Invented(f, read.has[f])
            /\ \A f \in DOMAIN sent.has \intersect AsterixFields :
                    f \in DOMAIN read.has \/ AsterixLost(f, sent)
            /\ read.sysTimestamp \in (SentTime(mm, now) - 8)..SentTime(mm, now)
==============================================================================
