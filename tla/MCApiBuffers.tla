---------------------------- MODULE MCApiBuffers ----------------------------
(* Aircraft and requests for TLC *)
EXTENDS ApiBuffers

Plain == [lon |-> 0, lat |-> 0, pos |-> TRUE, nogps |-> FALSE, json |-> TRUE, dbFlags |-> {},
          reg |-> "none", callsign |-> "none", squawk |-> "none", type |-> "none",
          len |-> 300, alt |-> 0, alt_valid |-> FALSE, ground |-> FALSE]

\* two on one meridian near the antimeridian, of which one is shown where it was last; one
\* at its other side; one without a position; one that is not shown
Fleet ==
    [a \in 1..5 |->
        CASE a = 1 -> [Plain EXCEPT !.lon = 180, !.lat = 67, !.dbFlags = {"mil"}, !.reg = "r",
                                    !.callsign = "c", !.type = "t", !.ground = TRUE]
          [] a = 2 -> [Plain EXCEPT !.len = 900, !.lon = -180, !.callsign = "c", !.alt = 2, !.alt_valid = TRUE,
                                    !.dbFlags = {"pia", "mil"}]
          [] a = 3 -> [Plain EXCEPT !.pos = FALSE, !.squawk = "s", !.type = "t",
                                    !.dbFlags = {"ladd"}]
          [] a = 4 -> [Plain EXCEPT !.lon = 180, !.lat = -30, !.pos = FALSE, !.nogps = TRUE,
                                    !.squawk = "s", !.alt = -1, !.alt_valid = TRUE]
          [] a = 5 -> [Plain EXCEPT !.json = FALSE]]

Query(options) ==
    [options |-> options, malformed |-> FALSE, box |-> <<-90, 90, -180, 180>>, names |-> <<>>,
     circle |-> [lat |-> 0, lon |-> 0, radius |-> 0, onlyClosest |-> FALSE],
     types |-> {"t"}, squawk |-> "s", above |-> -1, below |-> 1, callsign |-> "c"]

Box(lat1, lat2, lon1, lon2, options) ==
    [Query({"box"} \union options) EXCEPT !.box = <<lat1, lat2, lon1, lon2>>]

Circle(lat, lon, radius, closest) ==
    [Query({"circle"}) EXCEPT !.circle = [lat |-> lat, lon |-> lon, radius |-> radius,
                                          onlyClosest |-> closest]]

Requests ==
    {Box(-90, 90, x, y, {}) : x, y \in {-180, -120, 120, 180}}
    \union {Box(-90, 90, 180, -180, {o}) : o \in {"bincraft", "mil"}}
    \union {Box(67, 0, -180, 180, {}), Box(0, 90, 180, -180, {"hexlist"})}
    \union {Circle(y, x, r, c) : y \in {-30, 0, 60, 84}, x \in {-180, 0, 138, 174},
                                 r \in {7, 20, 90, 180}, c \in BOOLEAN}
    \union {Circle(67, x, 1, c) : x \in {-178, 178}, c \in BOOLEAN}
    \union {[Circle(-30, x, r, FALSE) EXCEPT !.options = {"circle", "bincraft"}] :
             x \in {-174, 173, 174}, r \in {6, 7}}
    \union {[Query({o}) EXCEPT !.names = <<4, 1>>] : o \in {"hexlist"}}
    \union {[Query({o}) EXCEPT !.names = <<"r", "c">>] : o \in {"find_reg", "find_callsign"}}
    \union {Query({m} \union f) :
            m \in {"all", "all_with_pos", "find_type"},
            f \in {{}, {"filter_squawk"}, {"filter_with_pos"}, {"mil", "ladd"}, {"filter_alt"},
                   {"filter_callsign", "pia"}, {"filter_type"}, {"all"}}}
==============================================================================
