-------------------------------- MODULE MCModeS --------------------------------
(* Messages of transponders for ModeSFields, and frames for UatFields. *)
EXTENDS Integers, Sequences, SequencesExt, TLC

\* all ways to say some of the fields, a sequence of names and values
Says(fields) ==
    FoldLeft(LAMBDA S, f : S \union {(f[1] :> v) @@ g : v \in f[2], g \in S}, {<<>>}, fields)
\* all of them
SaysAll(fields) ==
    FoldLeft(LAMBDA S, f : {(f[1] :> v) @@ g : v \in f[2], g \in S}, {<<>>}, fields)
Both(S, T) == {f @@ g : f \in S, g \in T}

Cprs == {<<TRUE, 74158, 50194>>, <<FALSE, 0, 131071>>}
CprAs(type) == << "cpr", {<<type>> \o c : c \in Cprs} >>
Squawks == {<<7, 7, 0, 0>>, <<1, 2, 3, 4>>, <<4, 5, 6, 7>>}
Altitudes == {-1000, 36025, 50200}

Ident == [type : {"ident"}, imf : {FALSE}, says : SaysAll(<<
    <<"callsign", {<<4, 12, 8, 49, 50, 51, 32, 32>>}>>, <<"category", (10..13) \X (0..7)>> >>)]
Surface == [type : {"surface"}, version : {0, 2}, imf : BOOLEAN, says : Both(
    SaysAll(<<CprAs("surface")>>),
    Says(<< <<"gs", {0, 5, 11, 12, 50, 95, 100, 191, 500, 1439, 1440, 6000, 9650, 16799, 17000}>>,
            <<"heading", {<<"track_or_heading", 77>>}>> >>))]
SaysStatus == {("alert" :> TRUE)} \union {"alert" :> FALSE @@ "spi" :> s : s \in BOOLEAN}
AirborneSays(alt) ==
    Both(SaysStatus, Both(SaysAll(<< <<"nic_b", {0, 1}>> >>),
                          Both(SaysAll(<<CprAs("airborne")>>), Says(<< <<alt, Altitudes>> >>))))
Airborne ==
    [type : {"airborne"}, tc : {9, 15, 18}, imf : BOOLEAN, says : AirborneSays("baro_alt")]
    \union [type : {"airborne"}, tc : {20, 22}, imf : BOOLEAN, says : AirborneSays("geom_alt")]
    \union [type : {"airborne"}, tc : {0}, imf : {FALSE},
            says : Both(SaysStatus, SaysAll(<< <<"nic_b", {0}>>, <<"baro_alt", Altitudes>> >>))]
SaysRates == Both(Says(<< <<"baro_rate", {-64, 3008}>> >>) \union Says(<< <<"geom_rate", {0, -32640}>> >>),
                  Both(SaysAll(<< <<"nac_v", {2}>> >>), Says(<< <<"geom_delta", {-325, 3125}>> >>)))
Velocity ==
    [type : {"velocity"}, sub : {1, 2}, imf : BOOLEAN, says : Both(SaysRates,
        Says(<< <<"velocity", {-400, 0, 4, 1000} \X {-8, 1020}>> >>))]
    \union [type : {"velocity"}, sub : {3, 4}, imf : BOOLEAN, says : Both(SaysRates,
        Both(Says(<< <<"heading", {<<"magnetic_or_true", 513>>}>> >>),
             Says(<< <<"tas", {0, 480}>> >>) \union Says(<< <<"ias", {252}>> >>)))]
Test == [type : {"test"}, imf : {FALSE}, says : Says(<< <<"squawk", Squawks>> >>)]
Status == [type : {"status"}, imf : BOOLEAN, says : Both(
    SaysAll(<< <<"emergency", 0..6>> >>), Says(<< <<"squawk", Squawks>> >>))]

\* version 1: the modes follow from the sources, and from the state of each
SaysAccuracy(siltypes) == SaysAll(<< <<"nac_p", {0, 10}>>, <<"nic_baro", {0, 1}>>, <<"sil", siltypes \X {0, 3}>> >>)
ModesV1(source, vertical, h_source, horizontal) ==
    {m \in {"vnav", "alt_hold", "lnav", "autopilot"} :
        CASE m = "vnav"     -> source = 3 /\ vertical \in 1..2
          [] m = "alt_hold" -> source = 2 /\ vertical = 2
          [] m = "lnav"     -> h_source = 3 /\ horizontal \in 1..2
          [] OTHER -> \/ source # 3 /\ vertical \in 1..2 /\ ~(source = 2 /\ vertical = 2)
                      \/ h_source # 3 /\ horizontal \in 1..2}
SaysModesV1(modes, tcas) ==
    IF tcas = 0 /\ modes = {} THEN <<>>
    ELSE "modes" :> (modes \union (IF tcas = 1 THEN {} ELSE {"tcas"}))
TargetV1 ==
    {  [type |-> "target", version |-> 1, imf |-> (tcas = 2), vertical |-> v, horizontal |-> h, h_source |-> hs,
        tcas |-> tcas,
        says |-> (IF source = 0 THEN <<>> ELSE "altitude_source" :> source)
              @@ (CASE source = 1 -> "mcp_altitude" :> 12000 [] source = 3 -> "fms_altitude" :> -100 [] OTHER -> <<>>)
              @@ (IF hs = 0 THEN <<>>
                  ELSE "nav_heading" :> <<IF hs = 2 THEN "ground_track" ELSE "magnetic_or_true", 301>>)
              @@ SaysModesV1(ModesV1(source, v, hs, h), tcas)
              @@ "emergency" :> 3 @@ "nac_p" :> 9 @@ "nic_baro" :> 1 @@ "sil" :> <<"unknown", 2>>] :
       source \in 0..3, v \in 0..2, h \in 0..2, hs \in {0, 2, 3}, tcas \in 0..2  }
TargetV2 == [type : {"target"}, version : {2}, imf : BOOLEAN, says : Both(SaysAccuracy({"unknown"}),
    Both(Says(<< <<"mcp_altitude", {0, 37024}>> >>) \union Says(<< <<"fms_altitude", {12000}>> >>),
         Says(<< <<"qnh", {0, 1704}>>, <<"nav_heading", {<<"magnetic_or_true", 511>>}>>,
                 <<"modes", {{}, {"autopilot", "alt_hold", "tcas"}, {"vnav", "lnav", "approach"}}>> >>)))]

SaysOm == SaysAll(<< <<"om_acas_ra", BOOLEAN>>, <<"om_ident", BOOLEAN>>, <<"om_atc", {TRUE}>> >>)
SaysCommon == SaysAll(<< <<"nic_a", {0, 1}>>, <<"nac_p", {9}>>, <<"hrd", {"true", "magnetic"}>> >>)
SaysAir == SaysAll(<< <<"cc_acas", BOOLEAN>>, <<"cc_arv", {TRUE}>>, <<"cc_ts", BOOLEAN>>, <<"cc_tc", {0, 2}>>,
                      <<"nic_baro", {0, 1}>> >>)
SaysGround(hrds) == {f @@ g : f \in SaysAll(<< <<"cc_poa", BOOLEAN>>, <<"cc_b2_low", BOOLEAN>>, <<"cc_lw", {0, 11}>> >>),
                              g \in {"hrd" :> h @@ "tah" :> t : h \in {"true", "magnetic"}, t \in {"ground_track"}}
                                    \union {"hrd" :> h @@ "tah" :> h : h \in {"true", "magnetic"}}}
SilOf(t) == SaysAll(<< <<"sil", {<<t, 1>>, <<t, 2>>}>> >>)
Op(sub, version, says) ==
    [type : {"operational"}, sub : {sub}, imf : BOOLEAN, says : {("version" :> version) @@ f : f \in says}]
Operational ==
    Op(0, 0, SaysAll(<< <<"cc_acas", BOOLEAN>>, <<"cc_cdti", BOOLEAN>> >>)) \union Op(1, 0, {<<>>})
    \union Op(0, 1, Both(Both(SaysOm, SaysCommon), Both(Both(SaysAir, SilOf("unknown")), {"cc_cdti" :> TRUE})))
    \union Op(1, 1, Both(Both(SaysOm, SaysGround({})),
                         Both(SilOf("unknown"), {"cc_cdti" :> TRUE @@ "nic_a" :> 1 @@ "nac_p" :> 8})))
    \union Op(0, 2, Both(Both(SaysOm, SaysCommon),
                Both(Both(SaysAir, SilOf("per_sample")),
                     {"cc_1090_in" :> TRUE @@ "cc_uat_in" :> FALSE @@ "om_saf" :> TRUE @@ "sda" :> 2 @@ "gva" :> 2})))
    \union Op(1, 2, Both(Both(SaysOm, SaysGround({})),
                Both(SilOf("per_hour"),
                     {"cc_1090_in" :> FALSE @@ "cc_uat_in" :> TRUE @@ "om_saf" :> FALSE @@ "sda" :> 1 @@ "nac_v" :> 2
                      @@ "nic_c" :> 1 @@ "cc_antenna_offset" :> 130 @@ "nic_a" :> 0 @@ "nac_p" :> 11})))

Senders == {<<17, 5>>, <<17, 4>>} \union {<<18, cf>> : cf \in 0..7}
AddressedByImf(s) == s[1] = 18 /\ s[2] \in {2, 6}
Squitters ==
    {m \in [r : Ident \union Surface \union Airborne \union Velocity \union Test \union Status
                \union TargetV1 \union TargetV2 \union Operational,
            s : Senders] :
        /\ m.r.imf => AddressedByImf(m.s)
        /\ AddressedByImf(m.s) /\ m.r.type = "airborne" => m.r.says.nic_b = 0
        /\ m.s \notin {<<17, 5>>, <<18, 2>>} => m.r.type \notin {"target", "operational", "velocity"} \/ m.r.imf}

Replies ==
    LET air == {"airground" :> g : g \in {"ground", "uncertain"}}
        acas == Both(air, Both(SaysAll(<< <<"SL", {0, 5}>>, <<"RI", {3, 10}>> >>), Says(<< <<"baro_alt", Altitudes>> >>)))
        fs == Both({"alert" :> a @@ "spi" :> FALSE @@ "airground" :> g : a \in BOOLEAN, g \in {"ground", "uncertain"}}
                   \union {"alert" :> a @@ "spi" :> TRUE @@ "airground" :> "uncertain" : a \in BOOLEAN},
                   SaysAll(<< <<"DR", {0, 18}>>, <<"UM", {0, 33}>> >>))
    IN  [df : {0}, says : Both(acas, {"CC" :> 0, "CC" :> 1})]
        \union [df : {16}, says : Both(acas, Says(<< <<"acas_ra", {TRUE}>> >>))]
        \union [df : {4, 20}, says : Both(fs, Says(<< <<"baro_alt", Altitudes \union {-1200, 126700}>> >>))]
        \union [df : {5, 21}, says : Both(fs, Says(<< <<"squawk", Squawks>> >>))]

ModeACReplies ==
    [altitude : {<<>>}, squawk : [1..4 -> {0, 1, 3, 6, 7}], ident : BOOLEAN]
    \union [altitude : {<<n>> : n \in -12..1267}, squawk : {<<0, 0, 0, 0>>}, ident : {FALSE}]
-----------------------------------------------------------------------------
\* Frames of UAT.

\* near the equator, the poles, the date line and where the number of zones changes
Positions ==
    {<<2348810, 559240>>, <<-1747626, -3262436>>, <<487959, -8388607>>, <<-847543, 8388608>>,
     <<4054494, 5>>, <<-4194303, 123456>>, <<4194304, 1>>, <<0, -77>>, <<-4032800, -4194304>>, <<5, 0>>}
Frame(type, qualifier, airground, geo, category) ==
    [type |-> type, qualifier |-> qualifier, address |-> 11259375, airground |-> airground, geo |-> geo,
     category |-> category, says |-> <<>>]
Saying(frames, says) == {[f EXCEPT !.says = s] : f \in frames, s \in says}
Shapes == { Frame(t, q, a, g, 9) : t \in {1, 2, 8, 3}, q \in {0, 3}, a \in {0, 2}, g \in BOOLEAN }

Moving == {Frame(t, 0, a, g, 0) : t \in {0, 1}, a \in 0..3, g \in BOOLEAN}
OnGround == {Frame(4, 2, 2, FALSE, 0)}
Flying == Says(<< <<"ns", {-1020, 0, 4}>>, <<"ew", {-8, 1000}>> >>)
Rates == Says(<< <<"baro_rate", {-32640, 0}>> >>) \union Says(<< <<"geom_rate", {1984}>> >>)
Names == {<<13, 21, 17, 1, 2, 3>>, <<35, 36, 10, 0, 9, 38>>, <<11, 37, 12, 1, 1, 2, 3, 4>>}
UatFrames ==
    Saying(Shapes, Says(<< <<"position", Positions>> >>))
    \union Saying(Moving, Both(Says(<< <<"position", {<<2348810, 559240>>}>>, <<"altitude", {-1000, 36025, 51000}>>,
                                       <<"sec_altitude", {35000, 101300}>> >>),
                               {<<>>, "ns" :> 8, "geom_rate" :> -64}))
    \union Saying(Moving, Both(Flying, Rates))
    \union Saying(OnGround, Both(Says(<< <<"speed", (0..40) \union (65..110) \union {174, 175, 176, 1022}>> >>),
                                 {<<>>, "track" :> <<1, 0>>, "track" :> <<1, 511>>, "track" :> <<2, 77>>, "track" :> <<1, 301>>}))
    \union Saying({Frame(t, q, 0, FALSE, c) : t \in {1, 3, 2}, q \in {0, 1, 2, 3, 4}, c \in {0, 7, 10, 23, 24, 31, 32, 39}},
                  {"callsign" :> n : n \in Names} \union {"squawk" :> s : s \in {<<7, 5, 0, 0>>, <<7, 6, 0, 0>>, <<7, 7, 0, 0>>, <<0, 1, 2, 3>>}})
    \union {Frame(t, 0, 1, FALSE, 0) : t \in {11, 31}}
    \union {[Frame(0, 0, 0, FALSE, 0) EXCEPT !.address = 0]}

\* the time since the last message, around the limit
UatLines ==
    [r : UatFrames, kind : {"downlink"}, amplitude : {<<1275>>}, seen : {700}, now : {1000}]
    \union [r : {Frame(0, 0, 0, FALSE, 0), [Frame(0, 0, 0, FALSE, 0) EXCEPT !.address = 0], Frame(11, 5, 0, FALSE, 0)},
            kind : {"downlink", "uplink", "broken"},
            amplitude : {<<>>, <<0>>, <<4>>, <<24>>, <<2544>>, <<9000>>}, seen : {0, 699, 700, 999}, now : {1000}]
==============================================================================
