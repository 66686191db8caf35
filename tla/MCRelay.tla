------------------------------- MODULE MCRelay -------------------------------
(* Feeds for the framing, and messages for the formats that carry their content. *)
EXTENDS Relay

\* Feeds.  "1a" and "3" in the data look like the start of a message.

AFeed(fmt, things, any, lossy) ==
    [fmt |-> fmt, things |-> things, any |-> any, gaps |-> lossy, netIngest |-> FALSE,
     mode_ac |-> FALSE, accept_synthetic |-> FALSE]

Mode_S(as, id, type, ts, sig, msg) ==
    [as |-> as, rid |-> id, type |-> type, ts |-> <<ts>>,
     sig |-> <<sig>>, msg |-> msg, first |-> FALSE, counts |-> TRUE]

Plain(bytes, content) ==
    [as |-> "plain", bytes |-> bytes, content |-> content, first |-> FALSE,
     counts |-> content # <<>>]

Id(bytes, id) ==
    [as |-> "id", bytes |-> bytes, content |-> <<>>, rid |-> id, first |-> TRUE,
     counts |-> FALSE]

Heartbeat == Plain(<<Esc, "1", Nul, Nul, Nul>>, <<>>)
Pong(b)   == [as |-> "ping", ping |-> b, first |-> FALSE, counts |-> TRUE]

\* beast_out or beast_reduce_out with --net-receiver-id
BeastFeed == AFeed("beast",
    <<Mode_S("beast", <<"a", Esc>>, "2", Esc, "3", <<Esc>>),
      Mode_S("beast", <<"a", Esc>>, "3", "3", "a", <<Esc, "3">>),
      Mode_S("beast", <<Esc, "3">>, "2", "a", Esc, <<"a">>)>>, TRUE, TRUE)

\* a file written with --dump-beast
DumpFeed == [AFeed("beast",
    <<Mode_S("dump", NoRid, "2", Esc, "3", <<Esc>>) @@ [stamped |-> TRUE, now |-> <<Esc, "3">>],
      Mode_S("dump", NoRid, "3", "3", "a", <<Esc, "3">>) @@ [stamped |-> FALSE]>>,
    TRUE, FALSE) EXCEPT !.accept_synthetic = TRUE]

\* a feeder that connects to --net-ingest, through a proxy or not
Proxy == <<"P", "R", "O", "X", "Y", " ", "\r", "\n">>
Uuid  == <<Esc, "e4", "0", "1", "2", "a">>
IngestFeed == [AFeed("beast",
    <<Id(Proxy, Front(Front(Proxy))), Id(Uuid, From(Uuid, 3)), Id(Proxy \o Uuid, From(Uuid, 3)),
      Plain(<<Esc, "W", "O", Esc, "P", "a", Esc, Esc, "3">>, <<"P", "a", Esc, "3">>), Heartbeat,
      Plain(<<Esc, "2", "a", "a", "a">>, <<"2", "a", "a", "a">>)>>,
    FALSE, FALSE) EXCEPT !.netIngest = TRUE]

\* a proxy whose header comes in parts
ProxyFeed == [AFeed("beast",
    <<Id(Proxy, Front(Front(Proxy))), Plain(<<Esc, "2", "a", "a", "a">>, <<"2", "a", "a", "a">>)>>,
    TRUE, FALSE) EXCEPT !.netIngest = TRUE]

\* a peer that sends something else
NoiseFeed == AFeed("beast",
    <<Plain(<<"a", "a", Esc, "9", "a", "a">>, <<>>),
      Plain(<<Esc, "5", "a", "a", "a", Esc, Esc>>, <<"5", "a", "a", "a", Esc>>),
      Plain(<<Esc, "2", "a", "a", "a">>, <<"2", "a", "a", "a">>)>>, TRUE, FALSE)

RawFeed == AFeed("ascii",
    <<[as |-> "raw", ts |-> <<>>, msg |-> <<"a", "3">>, first |-> FALSE, counts |-> TRUE],
      [as |-> "raw", ts |-> <<"3">>, msg |-> <<"a">>, first |-> FALSE, counts |-> TRUE]>>,
    TRUE, TRUE)

SbsFeed == AFeed("ascii",
    <<Plain(<<"M", "3", "\r", "\n">>, <<"M", "3">>), Plain(<<"M", "a", Nul>>, <<"M", "a">>),
      Plain(<<"\r", "\n">>, <<>>)>>, TRUE, TRUE)

CommandFeed == AFeed("command",
    <<Plain(<<Esc, "1", "J">>, <<"1", "J">>), Plain(<<Esc, "W", "S">>, <<"W", "S">>),
      Pong(<<"a", Esc, Esc>>), Pong(<<Esc, "1", "W">>), Heartbeat>>, TRUE, FALSE)

AsterixFeed == AFeed("asterix",
    <<Plain(<<"a", "3", "2">>, <<"a", "3", "2">>), Plain(<<"a", "2">>, <<"a", "2">>)>>, FALSE, FALSE)

PlanefinderFeed == AFeed("planefinder",
    <<[as |-> "planefinder", msg |-> <<"a", "DLE", "c1">>, first |-> FALSE, counts |-> TRUE],
      [as |-> "planefinder", msg |-> <<"ETX", "DLE">>, first |-> FALSE, counts |-> TRUE]>>,
    FALSE, TRUE)

AllFeeds == <<BeastFeed, DumpFeed, [DumpFeed EXCEPT !.accept_synthetic = FALSE], IngestFeed,
              ProxyFeed, NoiseFeed, RawFeed, SbsFeed, CommandFeed,
              AsterixFeed, PlanefinderFeed>>
-----------------------------------------------------------------------------
\* Messages.

MS == INSTANCE MCModeS
MT == INSTANCE MCTrace

Many(fields) == UNION {{<<f, v>> : v \in fields[f]} : f \in DOMAIN fields}

\* SBS
SbsMessage(t, me) ==
    [addr |-> 4840115, nonIcao |-> FALSE, sbs_in |-> FALSE, sbsMsgType |-> 0, msgtype |-> t,
     metype |-> me, has |-> <<>>]
SbsIn(source, gnss, delta, m) ==
    [mm |-> m, source |-> source, use_gnss |-> gnss, geom_delta |-> delta]
SbsMessages ==
    {  SbsIn("SBS", FALSE, <<>>, SbsMessage(17, 11)), SbsIn("SBS", TRUE, <<150>>, SbsMessage(17, 4)),
       SbsIn("SBS", FALSE, <<150>>, SbsMessage(17, 19)),
       SbsIn("SBS", TRUE, <<>>, SbsMessage(20, 0)),
       SbsIn("SBS", TRUE, <<>>, SbsMessage(18, 31)), SbsIn("SBS", FALSE, <<>>, SbsMessage(5, 0)),
       SbsIn("SBS", FALSE, <<>>, SbsMessage(16, 0)), SbsIn("SBS", FALSE, <<>>, SbsMessage(11, 0)),
       SbsIn("SBS", FALSE, <<>>, [SbsMessage(17, 5) EXCEPT !.nonIcao = TRUE]),
       SbsIn("MLAT", FALSE, <<>>,
             [SbsMessage(0, 0) EXCEPT !.sbs_in = TRUE, !.sbsMsgType = 3]) }
SbsFieldValues == Many(
    [callsign |-> {"DLH123", "BAD_1"}, baro_alt |-> {-1200, 36025}, geom_alt |-> {35000},
     gs |-> {4, 4567}, track |-> {0, 3599}, pos |-> {<<-123456789, 1799999999>>, <<3, 515000004>>},
     baro_rate |-> {-1024}, geom_rate |-> {960}, squawk |-> {0, 1234, 7700}, alert |-> BOOLEAN,
     squawk_emergency |-> BOOLEAN, spi |-> BOOLEAN, ground |-> BOOLEAN, receivers |-> {1, 5},
     mlatEPU |-> {2}])

\* ASTERIX; the sender's clock passes midnight or not
Day == 86400000
AstMessage(nonIcao, type, has) ==
    [addr |-> 4840115, nonIcao |-> nonIcao, addrtype |-> type, alt_q_bit |-> ~nonIcao,
     sysTimestamp |-> 0, has |-> has, remote |-> ~nonIcao, source |-> "ADSB", receiverId |-> 7,
     status |-> 0]
AstIn(m, at, now, later) ==
    [mm |-> [m EXCEPT !.sysTimestamp = at], a |-> [baro_alt |-> 30000, category |-> FALSE],
     now |-> now, later |-> later]
T0 == 17000
AstMessages ==
    {  AstIn(AstMessage(FALSE, "ADSB_ICAO", "sil" :> 3), T0, T0 + 5, T0 + 90),
       AstIn(AstMessage(TRUE, "TISB_OTHER", "nac_p" :> 9), Day + T0, Day + T0 + 60, Day + T0 + 200),
       AstIn(AstMessage(FALSE, "ADSR_ICAO", "nic_baro" :> 1 @@ "version" :> 2), 2 * Day - 40, 2 * Day - 9, 2 * Day + 5),
       AstIn(AstMessage(FALSE, "ADSB_ICAO", "sil" :> 1 @@ "version" :> 1), Day, Day + 7, Day + 8),
       AstIn(AstMessage(FALSE, "ADSB_ICAO", "track" :> 900), Day, Day + 7, Day + 8) }
AstFieldValues == Many(
    [ground |-> BOOLEAN, pos |-> {<<-1234567, 16777214>>, <<8388608, -16777216>>, <<5, -3>>},
     ias |-> {0, 450}, mach |-> {823}, tas |-> {480}, geom_alt |-> {-800, 41000},
     geom_delta |-> {-250}, nac_v |-> {2}, nac_p |-> {11}, nic_baro |-> {1}, gva |-> {2}, sda |-> {3},
     sil_per_sample |-> {TRUE}, nucp |-> {7},
     version |-> {0, 2}, squawk |-> {<<7, 7, 0, 0>>, <<1, 5, 6, 3>>}, roll |-> {-301},
     baro_alt |-> {-1000, 39000}, mag |-> {0, 3599}, spi |-> BOOLEAN, alert |-> BOOLEAN, emergency |-> {5},
     nav_modes |-> {{2}, {1, 3}}, baro_rate |-> {-6016, 1984}, geom_rate |-> {-64}, gs |-> {4533},
     track |-> {1234}, callsign |-> {<<"D","L","H","1","2","3"," "," ">>, <<"A","#","B","C","D","E","F","0">>},
     category |-> {<<"A", 0>>, <<"A", 7>>, <<"B", 3>>, <<"C", 6>>, <<"D", 2>>, <<"B", 5>>},
     wind |-> {<<250, 31>>}, oat |-> {-56}, mcp_altitude |-> {12000}, fms_altitude |-> {1008}])

\* forwarding; hops are bounded by the outputs that a message has come through
Node == [net |-> TRUE, net_only |-> TRUE, net_verbatim |-> FALSE, garbage_ports |-> FALSE,
         netIngest |-> FALSE, sbsReduce |-> FALSE, forward_mlat |-> TRUE, forward_mlat_sbs |-> FALSE,
         mlat |-> TRUE, filterDF |-> {}, net_forward_min_messages |-> 0,
         beast_set_noforward_timestamp |-> FALSE, beast_forward_noforward |-> FALSE]
AllNodes ==
    << Node, [Node EXCEPT !.beast_set_noforward_timestamp = TRUE],
       [Node EXCEPT !.beast_set_noforward_timestamp = TRUE, !.beast_forward_noforward = TRUE],
       [Node EXCEPT !.forward_mlat = FALSE, !.forward_mlat_sbs = TRUE, !.mlat = FALSE],
       [Node EXCEPT !.netIngest = TRUE, !.garbage_ports = TRUE, !.sbsReduce = TRUE],
       [Node EXCEPT !.net_only = FALSE, !.filterDF = {"17", "18"}, !.net_forward_min_messages = 2] >>
Heard(df, ts, source) ==
    [df |-> df, sbs_in |-> FALSE, source |-> source, ts |-> ts, crc0 |-> TRUE, correctedbits |-> 0,
     messages |-> 5, reduce_forward |-> TRUE, garbage |-> FALSE, mlat |-> source = "MLAT",
     marked |-> FALSE]
HeardMessages ==
    {  Heard("17", "clock", "MODE_S"), Heard("18", "mlat", "MLAT"),
       [Heard("AC", "none", "MODE_S") EXCEPT !.messages = 0, !.reduce_forward = FALSE],
       [Heard("11", "clock", "MODE_S") EXCEPT !.crc0 = FALSE, !.messages = 1],
       [Heard("17", "clock", "MODE_S") EXCEPT !.correctedbits = 2],
       [Heard("none", "none", "MLAT") EXCEPT !.sbs_in = TRUE, !.crc0 = FALSE] }
ForwardMessages == [mm : HeardMessages, node : DOMAIN AllNodes, through : {{}}]

\* lines of digits, with time stamps of 4, and messages of 2, 3 and 6 digits
HexMessage(form, ts, level, bits, at, pps) ==
    [form |-> form, ts |-> ts, level |-> level, bits |-> bits, millivolts |-> level, at |-> at, pps |-> pps]
HexMessages ==
    [mm : {HexMessage(f, ts, level, bits, at, pps) :
              f \in {"raw", "mlat", "signal", "time", "colon", "aerobits"},
              ts \in {<<"0", "0", "0", "1">>, <<"A", "F", "0", "9">>}, level \in {1, 26, 255},
              bits \in {<<"A", "0">>, <<"8", "D", "F">>, <<"5", "8", "C", "3", "8", "7">>},
              at \in {5000, 5999, 6400}, pps \in BOOLEAN},
     mode_ac : BOOLEAN, late : {0, 1, 499}]

\* pings, with a clock that wraps at 64
PingMessages == [t : 30..66, d1 : 0..5, hold : {0, 9, 70}, d2 : 0..4, offset : {0, 45}, tick : {0, 1}]

\* registers; values are the numbers that are sent
One(S) == {<<v>> : v \in S}
Opt(S) == One(S) \union {<<>>}
Registers ==
    [register : {"bds17"}, bits : {{1, 2, 3, 4, 5, 7} \union b : b \in SUBSET {6, 9, 10, 16, 20, 24}}]
    \union [register : {"bds20"},
            name : {<<4, 12, 8, 49, 50, 51, 32, 32>>, <<1, 26, 57, 48, 32, 32, 32, 32>>}]
    \union [register : {"bds40"}, mcp_altitude : Opt({63, 250, 2219}), fms_altitude : Opt({63, 1250, 3000}),
            qnh : Opt({1000, 2132}), modes : Opt({0, 1, 6}), altitude_source : Opt({0, 2})]
    \union [register : {"bds44"}, source : {1, 4}, wind_speed : Opt({0, 95, 300}), wind_direction : One({0, 350}),
            oat : One({-260, -1, 0, 100}), turbulence : Opt({2}), humidity : Opt({0, 63})]
    \union [register : {"bds50"}, roll : One({-227, -1, 0, 143}), track : One({0, 1024, 1, 2047}),
            gs : One({25, 64, 225}), track_rate : Opt({-320, -1, 0, 96}), tas : One({25, 128, 230})]
    \union [register : {"bds60"}, mag : One({0, 1024, 1, 2047}), ias : One({50, 256, 300}),
            mach : One({25, 128, 195}), baro_rate : Opt({-187, -1, 0, 64}), geom_rate : Opt({-187, 0, 64})]

AllConversions ==
    [sbs |-> SbsMessages, asterix |-> AstMessages, hex |-> HexMessages, commb |-> Registers,
     squitter |-> MS!Squitters, reply |-> MS!Replies, mode_ac |-> MS!ModeACReplies,
     uat |-> MS!UatLines, point |-> MT!Points, recent |-> {Recent!NewTrack(4), Recent!NewTrack(7)},
     ping |-> PingMessages, forward |-> ForwardMessages]
AllFields == [sbs |-> SbsFieldValues, asterix |-> AstFieldValues]
==============================================================================
