------------------------------ MODULE ApiBuffers ------------------------------
(***************************************************************************)
(* The two API buffers of readsb: the update thread rewrites the one that  *)
(* is not in use and then points every API thread to it, while requests    *)
(* read the buffer they found when they began, without a lock.             *)
(*                                                                         *)
(* Aircraft do not change while they are listed; their fields are data of  *)
(* the configuration.  Time is counted in ticks, the update's interval is  *)
(* Interval ticks, and the 5 ms of apiUpdateEntryPoint are MinGap ticks.   *)
(* Positions and the radius of a circle are whole degrees on the sphere.   *)
(***************************************************************************)
EXTENDS Integers, Sequences, SequencesExt, FiniteSetsExt

CONSTANTS
    Aircraft, Craft,    \* what is known of each aircraft, see ApiBuffersAssumption
    Threads,            \* API threads, of which 0 is also read by the update itself
    Interval, MinGap,
    Slack,              \* entries allocated above ca->len, 128 in the code
    Late,               \* bound on the aircraft that appear before the list is locked
    Movers,             \* bound: the aircraft that come and go
    Queries             \* requests, see ParseFetch

Ids == 0..1             \* the buffers
East == 180
North == 90
NoPos == 2147           \* INT32_MAX millionths of a degree: an entry without a position

ASSUME ApiBuffersAssumption ==
    /\ 0 \in Threads
    /\ IsFiniteSet(Aircraft) /\ Movers \subseteq Aircraft
    /\ {Interval, MinGap, Slack} \subseteq Nat \ {0} /\ Late \in Nat
    /\ MinGap < Interval
    /\ \A a \in Aircraft :
        /\ Craft[a].lon \in (-East)..East /\ Craft[a].lat \in (-North)..North
           \* position_valid; no position now but shown where it was (NOGPS_SHOW)
        /\ Craft[a].pos \in BOOLEAN /\ Craft[a].nogps \in BOOLEAN
        /\ Craft[a].json \in BOOLEAN        \* includeAircraftJson
        /\ Craft[a].len \in Nat             \* bytes of its JSON object
        /\ Craft[a].dbFlags \in SUBSET {"mil", "interesting", "pia", "ladd"}

VARIABLES
    active,     \* Modes.aircraftActive
    buffers,    \* Modes.apiBuffer
    apiFlip,    \* Modes.apiFlip, one for each thread
    pc,         \* what the update thread does next
    flip,       \* the buffer it writes
    acCount,    \* ca->len as it was read without the lock
    phase,      \* now % json_interval
    remaining,  \* ticks before the next update may start
    request     \* one of the requests, which only read: its buffer and age, up to MinGap

update == <<pc, flip, acCount, remaining>>
vars   == <<active, buffers, apiFlip, update, phase, request>>

NoRequest == [buffer |-> -1, age |-> 0]
Empty     == [list |-> <<>>, flagged |-> <<>>, json |-> {}, alloc |-> 0, behind |-> 0, came |-> 0,
              pos_range |-> [from |-> 0, to |-> 0]]
-----------------------------------------------------------------------------
(* Entries and searches.                                                   *)

\* apiAdd: an entry without a position sorts behind all others
Entry(a) ==
    IF Craft[a].pos \/ Craft[a].nogps THEN [hex |-> a] @@ Craft[a]
    ELSE [[hex |-> a] @@ Craft[a] EXCEPT !.lat = NoPos, !.lon = NoPos]

Listed(set) == {Entry(a) : a \in {b \in set : Craft[b].json}}

\* compareLon
ByLon(set) == SetToSortSeq(set, LAMBDA x, y : x.lon < y.lon \/ (x.lon = y.lon /\ x.hex < y.hex))

\* one of the two binary searches of findLonRange: the first place, not before "from", of an
\* entry that is not below the bound
Bisect(list, bound, from) ==
    LET left(e) == e.lon < bound
        f[i, j \in 1..Len(list)] ==
            IF j <= i + 1 THEN <<i, j>>
            ELSE LET pivot == (i + j - 2) \div 2 + 1
                 IN  IF left(list[pivot]) THEN f[pivot, j] ELSE f[i, pivot]
        ij == f[from, Len(list)]
    IN  CASE left(list[ij[2]]) -> ij[2] + 1
          [] left(list[ij[1]]) -> ij[1] + 1
          [] OTHER             -> ij[1]

\* Fault: the upper bound excludes entries that lie on it.
FindLonRangeOpen(ref_from, ref_to, list) ==
    IF list = <<>> \/ ref_from > ref_to THEN [from |-> 0, to |-> 0]
    ELSE LET from == Bisect(list, ref_from, 1)
         IN  [from |-> from,
              to |-> Bisect(list, ref_to, Min({from, Len(list)}))]

\* findLonRange: the places from..to - 1 of a sorted list
FindLonRange(ref_from, ref_to, list) ==
    IF list = <<>> \/ ref_from > ref_to THEN [from |-> 0, to |-> 0]
    ELSE LET from == Bisect(list, ref_from, 1)
         IN  [from |-> from,
              to |-> Bisect(list, ref_to + 1, Min({from, Len(list)}))]

In(list, r) == SubSeq(list, r.from, r.to - 1)

\* the stretch from lon1 east to lon2, in two parts when it crosses the antimeridian
Stretch(list, lon1, lon2) ==
    IF lon1 <= lon2 THEN In(list, FindLonRange(lon1, lon2, list))
    ELSE In(list, FindLonRange(lon1, East, list)) \o In(list, FindLonRange(-East, lon2, list))

InLatRange(e, lat1, lat2, q) ==
    e.lat >= lat1 /\ e.lat <= lat2 /\ (e.pos \/ "bincraft" \in q.options)

FindInBox(list, q) ==
    SelectSeq(Stretch(list, q.box[3], q.box[4]), LAMBDA e : InLatRange(e, q.box[1], q.box[2], q))

Abs(x) == IF x < 0 THEN -x ELSE x

\* cosines of 0 to 90 degrees, times Scale
Scale == 30000
CosTable == <<30000, 29995, 29982, 29959, 29927, 29886, 29836, 29776, 29708, 29631, 29544, 29449, 29344, 29231, 29109, 28978,
             28838, 28689, 28532, 28366, 28191, 28007, 27816, 27615, 27406, 27189, 26964, 26730, 26488, 26239, 25981, 25715,
             25441, 25160, 24871, 24575, 24271, 23959, 23640, 23314, 22981, 22641, 22294, 21941, 21580, 21213, 20840, 20460,
             20074, 19682, 19284, 18880, 18470, 18054, 17634, 17207, 16776, 16339, 15898, 15451, 15000, 14544, 14084, 13620,
             13151, 12679, 12202, 11722, 11238, 10751, 10261, 9767, 9271, 8771, 8269, 7765, 7258, 6749, 6237, 5724,
             5209, 4693, 4175, 3656, 3136, 2615, 2093, 1570, 1047, 524, 0>>
Cos(x) ==
    LET y == Min({Abs(x), 2 * East - Abs(x)})
    IN  IF y <= 90 THEN CosTable[y + 1] ELSE -CosTable[181 - y]
Sin(x) == Cos(90 - x)

\* greatcircle: the cosine of the distance, which is the larger the nearer the entry is
Nearness(c, e) ==
    Sin(c.lat) * Sin(e.lat) + ((Cos(c.lat) * Cos(e.lat)) \div Scale) * Cos(e.lon - c.lon)

Within(c, e) == c.radius > East \/ Nearness(c, e) > Scale * Cos(c.radius)

\* The half width of the box around a circle, in whole degrees.  The code enlarges it by 1.002,
\* of which its two circumferences of the earth leave 30026 / 30000.
LonDiff(c) == (30026 * c.radius) \div Cos(c.lat)

\* near a pole, and for a circle that is large enough, the box goes all around the globe
AllAround(c) ==
    \/ c.lat - c.radius <= -North \/ c.lat + c.radius >= North
    \/ LonDiff(c) >= East

\* what is left of a degree puts a bound that is rounded to 180 degrees beyond it
Wrapped(lon) == CASE lon <= -East -> lon + 2 * East [] lon >= East -> lon - 2 * East [] OTHER -> lon

\* findInCircle: first a box around the circle
FindInCircle(list, q) ==
    LET c    == q.circle
        box  == IF AllAround(c) THEN Stretch(list, -East, East)
                ELSE Stretch(list, Wrapped(c.lon - LonDiff(c)), Wrapped(c.lon + LonDiff(c)))
        near == SelectSeq(box, LAMBDA e : /\ InLatRange(e, c.lat - c.radius, c.lat + c.radius, q)
                                          /\ Within(c, e))
    IN  IF ~c.onlyClosest \/ near = <<>> THEN near
        ELSE LET closest == Max({Nearness(c, near[i]) : i \in DOMAIN near})
             IN  <<near[SelectInSeq(near, LAMBDA e : Nearness(c, e) = closest)]>>

\* findHexList, findRegList, findCallsignList: for each name the first entry of its chain,
\* the last one that was put into it
FindNames(list, names, name) ==
    FoldLeft(LAMBDA found, n :
                 LET i == SelectLastInSeq(list, LAMBDA e : e[name] = n)
                 IN  IF i = 0 THEN found ELSE Append(found, list[i]),
             <<>>, names)
-----------------------------------------------------------------------------
(* Requests.                                                               *)

MainOptions == {"box", "circle", "hexlist", "find_callsign", "find_reg", "find_type",
                "all", "all_with_pos"}
DbFilters == {"mil", "interesting", "pia", "ladd"}

\* parseFetch: every option is known and its value makes sense, and it is clear what to list
Invalid(q) ==
    LET main == q.options \intersect MainOptions
    IN  \/ q.malformed
        \/ "box" \in main /\ (q.box[1] > q.box[2]
                              \/ \E i \in 1..4 : q.box[i] \notin (-East)..East)
        \/ "circle" \in main /\ (q.circle.lat \notin (-North)..North
                                 \/ q.circle.lon \notin (-East)..East)
        \/ ("find_callsign" \in main \/ "find_reg" \in main) /\ q.names = <<>>
        \/ ("find_type" \in main \/ "filter_type" \in q.options) /\ q.types = {}
        \/ Cardinality(main) # 1 /\ main # {"box", "hexlist"}
        \/ {"find_type", "filter_type"} \subseteq q.options

Flagged(q) == q.options \intersect DbFilters # {}

\* the first selection of apiReq
Selection(b, q) ==
    LET list == IF Flagged(q) THEN b.flagged ELSE b.list
        hexes == FindNames(b.list, q.names, "hex")
        Has(option) == option \in q.options
    IN  CASE Has("box") -> FindInBox(list, q) \o (IF Has("hexlist") THEN hexes ELSE <<>>)
          [] Has("circle")        -> FindInCircle(list, q)
          [] Has("hexlist")       -> hexes
          [] Has("find_reg")      -> FindNames(b.list, q.names, "reg")
          [] Has("find_callsign") -> FindNames(b.list, q.names, "callsign")
          [] Has("find_type")     -> SelectSeq(list, LAMBDA e : e.type \in q.types)
          [] Has("all")           -> list
          [] OTHER                -> In(list, FindLonRange(-East, East, list))

\* an entry without altitude matches no altitude filter, unless it is on the ground
AltitudeOf(e) == IF e.alt_valid THEN {e.alt} ELSE IF e.ground THEN {0} ELSE {}

\* the condition of one filter on an entry
Keeps(q, filter, e) ==
    CASE filter = "filter_squawk"   -> e.squawk = q.squawk
      [] filter \in {"filter_with_pos", "all_with_pos"} -> e.pos
      [] filter \in DbFilters       -> e.dbFlags \intersect q.options # {}
      [] filter = "filter_alt"      -> \E x \in AltitudeOf(e) : q.above <= x /\ x <= q.below
      [] filter = "filter_callsign" -> e.callsign = q.callsign
      [] filter = "filter_type"     -> e.type \in q.types
      [] OTHER                      -> TRUE

\* the filters of apiReq, one after the other: what all of them keep, in its order
Filtered(matches, q) == SelectSeq(matches, LAMBDA e : \A filter \in q.options : Keeps(q, filter, e))

\* apiReq
ApiReq(b, q) == Filtered(Selection(b, q), q)

SumLen(matches) == FoldLeft(LAMBDA sum, e : sum + e.len, 0, matches)

\* The memory of the reply is that of the first selection; an entry is written if it leaves
\* room for 100 bytes more.  A circle adds distance and direction to every entry.
WrittenEntries(b, q) ==
    LET selection == Selection(b, q)
        extra(n) == IF "circle" \in q.options THEN n ELSE 0
        end  == 1024 + SumLen(selection) + extra(30 * Len(selection))
        step(w, e) == IF w.full \/ w.p + e.len + 100 >= end THEN [w EXCEPT !.full = TRUE]
                      ELSE [w EXCEPT !.p = @ + e.len + extra(28), !.count = @ + 1]
    IN  FoldLeft(step, [p |-> 60, count |-> 0, full |-> FALSE], ApiReq(b, q)).count
-----------------------------------------------------------------------------
(* The update thread.                                                      *)

\* what apiUpdate makes of the aircraft it saw: the lists, their JSON and the range of the
\* entries with a position
Filled(b, set, present) ==
    LET list == ByLon(Listed(set))
    IN  [b EXCEPT !.list = list,
                  !.flagged = SelectSeq(list, LAMBDA e : e.dbFlags # {}),
                  !.json = {e.hex : e \in {x \in ToSet(list) : x.hex \in present}},
                  !.pos_range = FindLonRange(-East, East, list)]

\* apiBufferInit: the first update, before any other thread of the API runs
Init ==
    /\ active \in {{}, Aircraft \ Movers}
    /\ buffers = [b \in Ids |->
                    IF b = 1 THEN [Filled(Empty, active, active) EXCEPT !.alloc =
                                    IF active = {} THEN 0 ELSE Cardinality(active) + Slack]
                    ELSE Empty]
    /\ apiFlip = [t \in Threads |-> 1]
    /\ pc = "wait" /\ flip = 1 /\ acCount = 0 /\ remaining = 0
    /\ phase \in 0..(Interval - 1)
    /\ request = NoRequest

\* apiUpdate up to the unlocked read of ca->len
StartUpdate ==
    /\ pc = "wait" /\ remaining = 0
    /\ flip' = (apiFlip[0] + 1) % 2
    /\ buffers' = [buffers EXCEPT ![flip'].list = <<>>, ![flip'].flagged = <<>>]
    /\ acCount' = Cardinality(active)
    /\ pc' = "alloc"
    /\ UNCHANGED <<active, apiFlip, remaining, phase, request>>

\* the lists grow; the hash tables and the lists are cleared
Allocate ==
    /\ pc = "alloc"
    /\ buffers' = [buffers EXCEPT ![flip].alloc = IF @ < acCount THEN acCount + Slack ELSE @]
    /\ pc' = "list"
    /\ UNCHANGED <<active, apiFlip, flip, acCount, remaining, phase, request>>

\* With the read lock held; nothing compares len with alloc.  History: how many entries lie
\* behind the memory, and how many aircraft came since they were counted.
FillList ==
    /\ pc = "list"
    /\ buffers' = [buffers EXCEPT ![flip].list = SetToSeq(Listed(active)),
                                  ![flip].behind =
                                        Max({0, Cardinality(Listed(active)) - buffers[flip].alloc}),
                                  ![flip].came = Cardinality(active) - acCount]
    /\ pc' = "json"
    /\ UNCHANGED <<active, apiFlip, flip, acCount, remaining, phase, request>>

\* sort, apiGenerateJson, which looks every aircraft up again, list_flag and the range
GenerateJson ==
    /\ pc = "json"
    /\ buffers' = [buffers EXCEPT ![flip] =
                    Filled(@, {e.hex : e \in ToSet(@.list)}, active)]
    /\ pc' = "publish"
    /\ UNCHANGED <<active, apiFlip, flip, acCount, remaining, phase, request>>

\* one of the stores to apiFlip
Publish(t) ==
    /\ pc = "publish" /\ apiFlip[t] # flip /\ \A u \in Threads : u < t => apiFlip[u] = flip
    /\ apiFlip' = [apiFlip EXCEPT ![t] = flip]
    /\ UNCHANGED <<active, buffers, update, phase, request>>

\* Fault: the update that ends just before the next multiple of the interval does not skip it.
FinishUpdateAtOnce ==
    /\ pc = "publish" /\ \A t \in Threads : apiFlip[t] = flip
    /\ pc' = "wait" /\ remaining' = Interval - phase
    /\ UNCHANGED <<active, buffers, apiFlip, flip, acCount, phase, request>>

\* apiUpdateEntryPoint: wait until the next multiple of the interval, 5 ms at least
FinishUpdate ==
    /\ pc = "publish" /\ \A t \in Threads : apiFlip[t] = flip
    /\ pc' = "wait"
    /\ LET r == Interval - phase
       IN  remaining' = IF r < MinGap THEN r + Interval ELSE r
    /\ UNCHANGED <<active, buffers, apiFlip, flip, acCount, phase, request>>

Update == StartUpdate \/ Allocate \/ FillList \/ GenerateJson \/ FinishUpdate
            \/ \E t \in Threads : Publish(t)
-----------------------------------------------------------------------------
(* Requests, the decode thread and time.                                   *)

BeginRequest(t) ==
    /\ request = NoRequest
    /\ request' = [buffer |-> apiFlip[t], age |-> 0]
    /\ UNCHANGED <<active, buffers, apiFlip, update, phase>>

EndRequest ==
    /\ request # NoRequest
    /\ request' = NoRequest
    /\ UNCHANGED <<active, buffers, apiFlip, update, phase>>

\* the list has its own lock, which FillList holds
AddAircraft(a) ==
    /\ a \notin active
    /\ pc \in {"alloc", "list"} => Cardinality(active) < acCount + Late
    /\ active' = active \union {a}
    /\ UNCHANGED <<buffers, apiFlip, update, phase, request>>

\* priorityTasksRun removes aircraft with the mutex of the update thread
RemoveAircraft(a) ==
    /\ a \in active /\ pc = "wait"
    /\ active' = active \ {a}
    /\ UNCHANGED <<buffers, apiFlip, update, phase, request>>

Tick ==
    /\ phase' = (phase + 1) % Interval
    /\ remaining' = Max({remaining - 1, 0})
    /\ request' = IF request = NoRequest THEN NoRequest
                  ELSE [request EXCEPT !.age = Min({@ + 1, MinGap})]
    /\ UNCHANGED <<active, buffers, apiFlip, pc, flip, acCount>>

Next ==
    \/ Update
    \/ EndRequest \/ \E t \in Threads : BeginRequest(t)
    \/ \E a \in Movers : AddAircraft(a) \/ RemoveAircraft(a)
    \/ Tick

Spec == Init /\ [][Next]_vars
-----------------------------------------------------------------------------
\* The type of every variable but the buffers.
TypeOK ==
    /\ active \subseteq Aircraft
    /\ apiFlip \in [Threads -> Ids]
    /\ pc \in {"wait", "alloc", "list", "json", "publish"}
    /\ flip \in Ids
    /\ acCount \in Nat
    /\ phase \in 0..(Interval - 1)
    /\ remaining \in 0..(2 * Interval)
    /\ request \in [buffer : Ids \union {-1}, age : 0..MinGap]

Writing(b) == flip = b /\ pc \in {"alloc", "list", "json"}

\* A request that has run for less than the 5 ms every pause of the update lasts reads a
\* buffer nobody writes, however long updates take.
FreshRequestsReadStableBuffer ==
    request # NoRequest /\ request.age < MinGap => ~Writing(request.buffer)

\* Every entry of a published buffer has its JSON: no aircraft is removed between the list
\* and apiGenerateJson; and no more entries lie behind the memory of the list than aircraft
\* came between the count (api.c:870) and the lock (api.c:898).
PublishedComplete ==
    \A b \in Ids : ~Writing(b) =>
        /\ buffers[b].json = {e.hex : e \in ToSet(buffers[b].list)}
        /\ buffers[b].behind <= buffers[b].came

\* what a request asks for, as a condition on an entry
Asked(q, e) ==
    LET Has(option) == option \in q.options
        lonOk == IF q.box[3] <= q.box[4] THEN q.box[3] <= e.lon /\ e.lon <= q.box[4]
                 ELSE e.lon <= East /\ (q.box[3] <= e.lon \/ e.lon <= q.box[4])
        shown == e.pos \/ (Has("bincraft") /\ e.lon # NoPos)
    IN  /\ \/ Has("box") /\ q.box[1] <= e.lat /\ e.lat <= q.box[2] /\ lonOk /\ shown
           \/ Has("circle") /\ shown /\ Within(q.circle, e)
           \/ Has("hexlist") /\ e.hex \in ToSet(q.names)
           \/ Has("find_reg") /\ e.reg \in ToSet(q.names)
           \/ Has("find_callsign") /\ e.callsign \in ToSet(q.names)
           \/ Has("find_type") /\ e.type \in q.types
           \/ Has("all")
           \/ Has("all_with_pos") /\ e.pos
        /\ Has("filter_squawk") => e.squawk = q.squawk
        /\ Has("filter_with_pos") => e.pos
        /\ Flagged(q) => e.dbFlags \intersect q.options # {}
        /\ Has("filter_alt") => \E x \in AltitudeOf(e) : q.above <= x /\ x <= q.below
        /\ Has("filter_callsign") => e.callsign = q.callsign
        /\ Has("filter_type") => e.type \in q.types

\* The lists are complete and no thread has been given the buffer yet.  An answer depends on
\* nothing else, so that one phase and no other request are enough.
JustFilled ==
    /\ pc = "publish" /\ \A t \in Threads : apiFlip[t] # flip
    /\ phase = 0 /\ request = NoRequest

\* The box of FindInCircle is as wide as the circle: the radius times the tangent of the
\* latitude is at most about 4 degrees, or the box goes all around.
BoxSuffices(c) == AllAround(c) \/ Abs(Sin(c.lat)) * c.radius <= 4 * Cos(c.lat)

Closest(q) == "circle" \in q.options /\ q.circle.onlyClosest

\* An answer lists the entries asked for: all of them, save that "closest" keeps one, which is
\* the nearest, and that aircraft of one name are listed once, and that a circle may lose
\* some at its sides where its box does not suffice; nothing else, and none twice, save in a
\* box with a list of addresses; and the reply has the memory to write them.
AnswersExact ==
    JustFilled => \A q \in {x \in Queries : ~Invalid(x)} :
        LET answer == ApiReq(buffers[flip], q)
            asked  == {e \in ToSet(buffers[flip].list) : Asked(q, e)}
        IN  /\ ToSet(answer) \subseteq asked
            /\ CASE "circle" \in q.options /\ ~BoxSuffices(q.circle) -> TRUE
                 [] Closest(q) ->
                        asked # {} => \A e \in asked : Nearness(q.circle, e) <= Nearness(q.circle, answer[1])
                 [] {"find_reg", "find_callsign"} \intersect q.options # {} -> TRUE
                 [] OTHER -> ToSet(answer) = asked
            /\ "hexlist" \notin q.options => IsInjective(answer)
            /\ Closest(q) => Len(answer) <= 1
            /\ WrittenEntries(buffers[flip], q) = Len(answer)

\* A reply is made of complete entries, and of all those asked for.
RepliesComplete == PublishedComplete /\ AnswersExact

\* "make the box we check a little bigger" (api.c:344): the box holds the circle.  It fails away
\* from the equator, where the sides of a circle lie nearer to the pole than its center.
CirclesComplete ==
    JustFilled =>
        \A q \in {x \in Queries : ~Invalid(x) /\ "circle" \in x.options /\ ~x.circle.onlyClosest} :
            {e \in ToSet(buffers[flip].list) : Asked(q, e)} \subseteq ToSet(ApiReq(buffers[flip], q))

\* The list is not longer than its memory.  It fails when an aircraft comes between the count
\* and the lock and alloc is the count (api.c:870).
ListFits == \A b \in Ids : buffers[b].behind = 0
=============================================================================
