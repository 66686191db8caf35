------------------------------- MODULE MCTrace -------------------------------
(* Aircraft at points of their traces: everything known or nothing, with one *)
(* field that has another value or another age, and any source of positions. *)
EXTENDS TracePoint

Now == 100000
Usual ==
    [gs |-> 45678, track |-> 123456, baro_alt |-> 36025, baro_rate |-> -1984, geom_alt |-> 36500,
     geom_rate |-> 640, ias |-> 265, roll |-> -3015, callsign |-> 77, tas |-> 480, mach |-> 8236,
     track_rate |-> -3214, mag_heading |-> 120004, true_heading |-> 122345, nic_a |-> 1, nic_c |-> 0,
     nic_baro |-> 1, nac_p |-> 10, nac_v |-> 2, sil |-> 3, gva |-> 2, sda |-> 2, squawk |-> 13923,
     emergency |-> 0, airground |-> 2, nav_qnh |-> 101325, nav_altitude_mcp |-> 37008,
     nav_altitude_fms |-> 37008, nav_altitude_src |-> 3, nav_heading |-> 119883, nav_modes |-> 5,
     alert |-> 0, spi |-> 1, category |-> 163, pos_nic |-> 8, pos_rc |-> 186, sil_type |-> 2,
     wind_direction |-> 2504, wind_speed |-> 312, oat |-> -565, tat |-> -276, adsb_version |-> 2,
     adsr_version |-> -1, tisb_version |-> -1]
Others ==
    [gs |-> {0, 4, 119994}, track |-> {0, 359994}, baro_alt |-> {-1000, 17, 126700}, baro_rate |-> {0, 100, 32576},
     geom_alt |-> {-975, 0, 50187}, geom_rate |-> {-12, 4}, ias |-> {0, 1023}, roll |-> {-20470, 20474, 0, 30000},
     callsign |-> {1}, tas |-> {0, 2046}, mach |-> {0, 40955}, track_rate |-> {5, 15995}, mag_heading |-> {359999},
     true_heading |-> {0, 359995}, nic_a |-> {0}, nic_c |-> {1}, nic_baro |-> {0}, nac_p |-> {0, 15}, nac_v |-> {7},
     sil |-> {0}, gva |-> {3}, sda |-> {1}, squawk |-> {0, 30583}, emergency |-> {7}, airground |-> {0, 1, 3},
     nav_qnh |-> {80000, 120955}, nav_altitude_mcp |-> {0, 65472}, nav_altitude_fms |-> {65}, nav_altitude_src |-> {4},
     nav_heading |-> {0}, nav_modes |-> {0, 127}, alert |-> {1}, spi |-> {0}, category |-> {0, 215}, pos_nic |-> {0, 11},
     pos_rc |-> {0, 37040}, sil_type |-> {0, 1}, wind_direction |-> {0, 3595}, wind_speed |-> {5, 2500},
     oat |-> {0, 314}, tat |-> {-5}, adsb_version |-> {-1, 0, 1}, adsr_version |-> {2}, tisb_version |-> {1}]

Known(source, age) == [source |-> source, updated |-> Now - age]
Everything == [f \in flagged \union state |-> Known("ADSB", 1000)]
Plane(valid, pos) ==
    [value |-> Usual, valid |-> valid, pos_source |-> pos, position_source |-> pos, alt_reliable |-> 4,
     json_reliable |-> 2, lat |-> 514999996, lon |-> -1234567, addrtype |-> "ADSB_ICAO", wind_updated |-> Now - 59999,
     wind_altitude |-> 35526, oat_updated |-> Now - 59999, tat_updated |-> Now - 59999]
Planes == {Plane(valid, pos) : valid \in {<<>>, Everything}, pos \in {"INVALID", "MLAT", "JAERO", "ADSB"}}
WithValue(a) ==
    UNION {{[a EXCEPT !.value[f] = v, !.valid = IF f \in DOMAIN Everything THEN f :> Known("TISB", 20000) @@ @ ELSE @] :
                v \in Others[f]} : f \in DOMAIN Others}
WithAge(a) ==
    {[a EXCEPT !.valid = f :> k @@ @] : f \in DOMAIN Everything,
                k \in {Known("ADSB", 34999), Known("ADSB", 35000), Known("MLAT", 0)}}
    \union {[a EXCEPT !.valid = [g \in DOMAIN @ \ {f} |-> @[g]]] : f \in DOMAIN Everything}
Elsewhere(a) ==
    {[a EXCEPT !.alt_reliable = 3], [a EXCEPT !.wind_updated = Now - 60000], [a EXCEPT !.wind_altitude = 36525],
     [a EXCEPT !.oat_updated = Now - 60000], [a EXCEPT !.tat_updated = Now - 60000],
     [a EXCEPT !.lat = -899999995, !.lon = 1799999999]}

Points ==
    [a : UNION {WithValue(a) \union WithAge(a) \union Elsewhere(a) : a \in Planes}, now : {Now},
     i : {4, 7}, leg : {FALSE}, stale : {FALSE}, referenceTs : {Now - 70006}]
    \union [a : Planes, now : {Now}, i : {0, 5}, leg : BOOLEAN, stale : BOOLEAN, referenceTs : {0, Now, Now - 3}]
=============================================================================
