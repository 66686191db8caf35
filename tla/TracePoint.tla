----------------------------- MODULE TracePoint -----------------------------
(***************************************************************************)
(* A point of a trace: what is known of an aircraft is packed into a       *)
(* record (to_state), every fourth time with a second one (to_state_all),  *)
(* and written from those to the files (sprintTracePoint).                 *)
(*                                                                         *)
(* An aircraft is [value, valid, ...]: the value of each field, and of     *)
(* those that are valid the source and the time.  Speeds are in hundredths *)
(* of a knot, angles and rates of turn in thousandths of a degree, roll    *)
(* too, altitudes in feet, pressure in hundredths of a hPa, the Mach       *)
(* number in ten-thousandths, wind and temperatures in tenths; positions   *)
(* in 10^-7 degrees.  Floating point does not round here.                  *)
(***************************************************************************)
EXTENDS Integers, TLC

Given(cond, name, value) == IF cond THEN name :> value ELSE <<>>
If(cond, S) == IF cond THEN S ELSE {}
Magnitude(x) == IF x < 0 THEN -x ELSE x

\* nearbyint of x/step: a half goes to the even number
Nearest(x, step) ==
    LET q == x \div step
        r == x % step
    IN  IF 2 * r > step \/ (2 * r = step /\ q % 2 = 1) THEN q + 1 ELSE q
-----------------------------------------------------------------------------
(* The two records.                                                        *)

\* the fields of the small record, those of the other one with a flag, and those without
state == {"gs", "track", "baro_alt", "baro_rate", "geom_alt", "geom_rate", "ias", "roll"}
flagged ==
    {"callsign", "tas", "mach", "track_rate", "mag_heading", "true_heading", "nic_a", "nic_c", "nic_baro",
     "nac_p", "nac_v", "sil", "gva", "sda", "squawk", "emergency", "airground", "nav_qnh", "nav_altitude_mcp",
     "nav_altitude_fms", "nav_altitude_src", "nav_heading", "nav_modes", "alert", "spi"}
unflagged == {"category", "pos_nic", "pos_rc", "sil_type"}
wind == {"wind_direction", "wind_speed"}
temp == {"oat", "tat"}
state_all == flagged \union unflagged \union wind \union temp

\* a member is a number of bits, with a sign or not, that counts steps of num/den
UInt(bits, num) == [num |-> num, den |-> 1, bits |-> bits, signed |-> FALSE]
SInt(bits, num, den) == [num |-> num, den |-> den, bits |-> bits, signed |-> TRUE]
member(f) ==
    CASE f \in {"gs", "track", "mach", "mag_heading", "true_heading", "nav_heading"} -> UInt(16, 10)
      [] f \in {"baro_alt", "geom_alt"} -> SInt(16, 25, 4)
      [] f \in {"baro_rate", "geom_rate"} -> SInt(16, 8, 1)
      [] f \in {"nav_altitude_mcp", "nav_altitude_fms"} -> SInt(16, 4, 1)
      [] f \in {"track_rate", "nav_qnh"} -> SInt(16, 10, 1)
      [] f = "roll" -> SInt(12, 10, 1)
      [] f \in wind \union temp -> SInt(10, 10, 1)
      [] f \in {"squawk", "pos_rc"} -> UInt(16, 1)
      [] f \in {"ias", "tas"} -> UInt(12, 1)
      [] f \in {"category", "pos_nic"} -> UInt(8, 1)
      [] f = "nav_modes" -> UInt(7, 1)
      [] f = "nac_p" -> UInt(4, 1)
      [] f \in {"nac_v", "emergency", "nav_altitude_src", "sil_type"} -> UInt(3, 1)
      [] f \in {"sil", "gva", "sda", "airground"} -> UInt(2, 1)
      [] f \in {"nic_a", "nic_c", "nic_baro", "alert", "spi"} -> UInt(1, 1)
      [] f = "callsign" -> UInt(30, 1)      \* a name
Versions == {"adsb_version", "adsr_version", "tisb_version"}

Packed(m, x) ==
    LET n == Nearest(x * m.den, m.num)
        half == 2^(m.bits - 1)
    IN  IF m.signed THEN ((n + half) % (2 * half)) - half ELSE n % (2 * half)
\* a member that is read into an integer loses its fraction
Unpacked(m, n) == IF n < 0 THEN -((-n * m.num) \div m.den) ELSE (n * m.num) \div m.den
-----------------------------------------------------------------------------
(* Packing.                                                                *)

SECONDS == 1000
TRACK_EXPIRE == 60 * SECONDS
poor == {"INVALID", "INDIRECT", "MODE_AC", "SBS", "MLAT", "MODE_S", "JAERO"}

trackDataValid(a, f) == f \in DOMAIN a.valid
\* what comes with a good position has to be younger
trackVState(now, a, f) ==
    trackDataValid(a, f) /\ (a.pos_source \in poor \/ now < a.valid[f].updated + 35 * SECONDS)
altBaroReliable(a) ==
    trackDataValid(a, "baro_alt") /\ (a.position_source = "JAERO" \/ a.alt_reliable >= 2 * a.json_reliable)
altBaroReliableTrace(now, a) == altBaroReliable(a) /\ trackVState(now, a, "baro_alt")

\* where the nose points on the ground, and no track of a multilaterated aircraft
OnGround(a) == trackDataValid(a, "airground") /\ a.value["airground"] = 1
TrackOf(a, now) ==
    CASE OnGround(a) -> IF trackVState(now, a, "true_heading") THEN a.value["true_heading"] ELSE -1
      [] OTHER -> IF trackVState(now, a, "track") /\ a.valid["track"].source # "MLAT"
                  THEN a.value["track"] ELSE -1

to_state(a, now, on_ground, track, stale) ==
    LET valid == {f \in state \ {"track", "baro_alt"} : trackVState(now, a, f)}
                 \union If(track > -1, {"track"}) \union If(altBaroReliableTrace(now, a), {"baro_alt"})
        value == [a.value EXCEPT !["track"] = track]
    IN  [timestamp |-> now, lat |-> Nearest(a.lat, 10), lon |-> Nearest(a.lon, 10), stale |-> stale,
         on_ground |-> on_ground, leg_marker |-> FALSE, addrtype |-> a.addrtype, valid |-> valid,
         value |-> [f \in state |-> IF f \in valid THEN Packed(member(f), value[f]) ELSE 0]]

WindKnown(a, now) ==
    now < a.wind_updated + TRACK_EXPIRE /\ Magnitude(a.wind_altitude - a.value["baro_alt"]) < 500
to_state_all(a, now) ==
    LET windy == WindKnown(a, now)
        cold  == now < a.oat_updated + TRACK_EXPIRE
        warm  == cold /\ now < a.tat_updated + TRACK_EXPIRE
        kept  == flagged \union unflagged \union If(windy, wind)
                 \union If(cold, {"oat"}) \union If(warm, {"tat"})
    IN  [value |-> [f \in state_all |-> IF f \in kept THEN Packed(member(f), a.value[f]) ELSE 0]
                   @@ [v \in Versions |-> IF a.value[v] < 0 THEN 15 ELSE a.value[v] % 16],
         valid |-> {f \in flagged : trackVState(now, a, f)},
         position_valid |-> a.pos_source # "INVALID", wind_valid |-> windy, temp_valid |-> warm]

\* an aircraft of which is known what is in the records
from_state_all(in, in2, ts) ==
    LET valid == in.valid \union in2.valid
    IN  [value |-> [f \in state_all |-> Unpacked(member(f), in.value[f])]
                   @@ [f \in state |-> Unpacked(member(f), in2.value[f])]
                   @@ [v \in Versions |-> IF in.value[v] = 15 THEN -1 ELSE in.value[v]],
         valid |-> [f \in valid |-> [source |-> "INDIRECT", updated |-> ts - 5000]],
         pos_source |-> IF in.position_valid THEN "INDIRECT" ELSE "INVALID",
         addrtype |-> in2.addrtype,
         wind_updated |-> IF in.wind_valid THEN ts - 5000 ELSE 0,
         wind_altitude |-> IF in.wind_valid THEN Unpacked(member("baro_alt"), in2.value["baro_alt"]) ELSE 0,
         oat_updated |-> IF in.temp_valid THEN ts - 5000 ELSE 0]
-----------------------------------------------------------------------------
(* Writing.                                                                *)

\* with one decimal of a degree
Tenths(x) == ((x + 50) \div 100) * 100

\* the object for a trace: what the point itself says is not in it
PrintedIfValid == (flagged \union state)
                  \ {"gs", "baro_alt", "nic_a", "nic_c", "airground", "nav_altitude_src"}
sprintAircraftObject(a, now) ==
    [f \in {f \in PrintedIfValid : trackDataValid(a, f)} |-> a.value[f]]
 @@ [f \in If(WindKnown(a, now), wind) |-> a.value[f]]
 @@ [f \in If(now < a.oat_updated + TRACK_EXPIRE, temp) |-> a.value[f]]
 @@ [f \in If(a.pos_source # "INVALID", {"pos_nic", "pos_rc"}) |-> a.value[f]]
 @@ [f \in {f \in {"category", "sil_type"} : a.value[f] # 0} |-> a.value[f]]
 @@ Given(a.value["adsb_version"] >= 0, "adsb_version", a.value["adsb_version"])
 @@ "addrtype" :> a.addrtype

\* the barometric one of two kinds, or else the geometric one
OneOf(s, baro, geom) ==
    CASE baro \in s.valid -> baro [] geom \in s.valid -> geom [] OTHER -> "none"

sprintTracePoint(s, all, referenceTs) ==
    LET value    == [f \in state |-> Unpacked(member(f), s.value[f])] @@ "none" :> 0
        altitude == OneOf(s, "baro_alt", "geom_alt")
        rate     == OneOf(s, "baro_rate", "geom_rate")
    IN  [lat |-> s.lat, lon |-> s.lon, addrtype |-> s.addrtype,
         time |-> Nearest(s.timestamp - referenceTs, 10) * 10,
         altitude |-> IF s.on_ground THEN <<"ground">>
                      ELSE IF altitude # "none" THEN <<value[altitude]>> ELSE <<>>,
         rate |-> IF rate # "none" THEN <<value[rate]>> ELSE <<>>,
         flags |-> If(altitude = "geom_alt", {"altitude_geom"}) \union If(rate = "geom_rate", {"rate_geom"})
                   \union If(s.leg_marker, {"leg_marker"}) \union If(s.stale, {"stale"}),
         fields |-> [f \in s.valid \ {"baro_alt", "baro_rate"} |->
                        IF f \in {"track", "roll"} THEN Tenths(value[f]) ELSE value[f]],
         object |-> IF all = <<>> THEN <<>>
                    ELSE <<sprintAircraftObject(from_state_all(all[1], s, s.timestamp), s.timestamp)>>]
-----------------------------------------------------------------------------
(* What a point promises.                                                  *)

\* A roll of more than 20.47 degrees does not fit into its 12 bits.
Cut(f, x) == f = "roll" /\ Magnitude(x) > 20474
\* half a step, and less than one for a fraction that is lost; what comes in steps of 25 feet or
\* of 64 feet per minute is exact
Close(f, shown, x, more) ==
    LET m == member(f)
    IN  \/ Cut(f, x)
        \/ /\ 2 * m.den * (Magnitude(shown - x) - more) <= m.num + (IF m.den = 1 THEN 0 ELSE 2 * m.den)
           /\ (f \in {"baro_alt", "geom_alt"} /\ x % 25 = 0) => shown = x
           /\ (f \in {"baro_rate", "geom_rate"} /\ x % 64 = 0) => shown = x

\* what is known, and not too old beside a good position
Fresh(a, now, f) == trackDataValid(a, f) /\ (a.pos_source \in poor \/ now - a.valid[f].updated < 35 * SECONDS)
\* the direction is that of the nose on the ground, and in the air the track, if the aircraft sent it
Direction(a) == IF OnGround(a) THEN "true_heading" ELSE "track"
Directed(a, now) ==
    Fresh(a, now, Direction(a)) /\ (OnGround(a) \/ a.valid["track"].source # "MLAT")
Truth(a, f) == a.value[IF f = "track" THEN Direction(a) ELSE f]

\* All that is known of the aircraft when the point is taken, and not too old beside a good
\* position, and nothing else, is in the point (to_state, sprintTracePoint): each value within
\* the accuracy of the record, the kind of altitude and of rate, and the time to a hundredth of
\* a second.
PointShown(a, now, p, leg, stale, referenceTs) ==
    LET alt     == IF Fresh(a, now, "baro_alt") /\ altBaroReliable(a) THEN "baro_alt" ELSE "geom_alt"
        rate    == IF Fresh(a, now, "baro_rate") THEN "baro_rate" ELSE "geom_rate"
        seen(f) == IF f = "track" THEN Directed(a, now) ELSE Fresh(a, now, f)
    IN  /\ Magnitude(10 * p.lat - a.lat) <= 5 /\ Magnitude(10 * p.lon - a.lon) <= 5
        /\ Magnitude(p.time - (now - referenceTs)) <= 5
        /\ p.addrtype = a.addrtype
        /\ ("leg_marker" \in p.flags <=> leg) /\ ("stale" \in p.flags <=> stale)
        /\ IF OnGround(a) THEN p.altitude = <<"ground">>
           ELSE /\ p.altitude # <<>> <=> Fresh(a, now, alt)
                /\ p.altitude # <<>> => /\ Close(alt, p.altitude[1], a.value[alt], 0)
                                        /\ "altitude_geom" \in p.flags <=> alt = "geom_alt"
        /\ p.rate # <<>> <=> Fresh(a, now, rate)
        /\ p.rate # <<>> => /\ Close(rate, p.rate[1], a.value[rate], 0)
                            /\ "rate_geom" \in p.flags <=> rate = "geom_rate"
        /\ \A f \in {"gs", "track", "geom_alt", "geom_rate", "ias", "roll"} :
              /\ f \in DOMAIN p.fields <=> seen(f)
              /\ f \in DOMAIN p.fields =>
                    Close(f, p.fields[f], Truth(a, f), IF f \in {"track", "roll"} THEN 50 ELSE 0)

\* The same of the object that every fourth point has (to_state_all, from_state_all,
\* sprintAircraftObject), and of the wind and the temperatures while they are current.
ObjectShown(a, now, object) ==
    LET expected ==
            {f \in PrintedIfValid \ {"track"} : Fresh(a, now, f)} \union If(Directed(a, now), {"track"})
            \union If(now - a.wind_updated < TRACK_EXPIRE /\ Magnitude(a.wind_altitude - a.value["baro_alt"]) < 500,
                      wind)
            \union If(now - a.oat_updated < TRACK_EXPIRE /\ now - a.tat_updated < TRACK_EXPIRE, temp)
            \union If(a.pos_source # "INVALID", {"pos_nic", "pos_rc"})
            \union {f \in {"category", "sil_type"} : a.value[f] # 0}
    IN  /\ object.addrtype = a.addrtype
        /\ DOMAIN object \ {"addrtype", "adsb_version"} = expected
        /\ \A f \in expected : Close(f, object[f], Truth(a, f), 0)
        /\ IF a.value["adsb_version"] < 0 THEN "adsb_version" \notin DOMAIN object
           ELSE "adsb_version" \in DOMAIN object /\ object["adsb_version"] = a.value["adsb_version"]

\* a point is added with position number i and shown later
TraceShown(a, now, i, leg, stale, referenceTs) ==
    LET s == [to_state(a, now, OnGround(a), TrackOf(a, now), stale) EXCEPT !.leg_marker = leg]
        p == sprintTracePoint(s, IF i % 4 = 0 THEN <<to_state_all(a, now)>> ELSE <<>>, referenceTs)
    IN  /\ PointShown(a, now, p, leg, stale, referenceTs)
        /\ p.object # <<>> <=> i % 4 = 0
        /\ p.object # <<>> => ObjectShown(a, now, p.object[1])
=============================================================================
