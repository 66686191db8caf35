----------------------------- MODULE TraceCache -----------------------------
(***************************************************************************)
(* The file of the last points of a trace is written often, and most of    *)
(* its text has been written before.  A cache keeps the texts of points,   *)
(* one after the other, with times relative to one point (checkTraceCache, *)
(* generateTraceJson).                                                     *)
(*                                                                         *)
(* A point is its time, a text a number of cells, each with the point, its *)
(* relative time and its leg marker.  An aircraft is [trace, forgotten,    *)
(* now, seen, cache, file, object]: its trace without the points that are  *)
(* forgotten, the time and that of its last position, and the length of    *)
(* the text of every fourth point.                                         *)
(***************************************************************************)
EXTENDS Integers, Sequences, SequencesExt

CONSTANTS
    RecentPoints, CachePoints,  \* Modes.traceRecentPoints, traceCachePoints
    EntryRoom,                  \* cells for the text of an entry
    ReferenceLimit,             \* 8 * HOURS
    Lifetime,                   \* TRACE_CACHE_LIFETIME
    Pauses, MaxTime             \* bounds: times without a position, and that of the whole

SFOUR == 4
\* alignSFOUR, and TRACE_CACHE_EXTRA entries more than there are recent points
Sizes ==
    RecentPoints % SFOUR = 0 /\ CachePoints % SFOUR = 0 /\ RecentPoints \in 1..CachePoints - 1

json_max == CachePoints * EntryRoom
none == <<>>     \* no cache, or <<cache>>
Blank == [j \in 0..json_max - 1 |-> <<>>]
NewCache == [entries |-> <<>>, json |-> Blank, referenceTs |-> 0, first |-> 1]
End(entry) == entry.offset + entry.len

\* the text of a point, relative to a time
Text(point, reference) == [j \in 1..point.len |-> <<point.ts - reference, point.leg, point.ts, j>>]
-----------------------------------------------------------------------------
(* checkTraceCache                                                         *)

\* an aircraft that is seen, and has a trace, gets a cache
Allocated(a) ==
    IF a.cache # none THEN a.cache
    ELSE IF a.now - a.seen > Lifetime \div 2 \/ a.trace = <<>> THEN none ELSE <<NewCache>>

Places(cache, ts) == {k \in DOMAIN cache.entries : cache.entries[k].ts = ts}

Reset(cache, ts) == [cache EXCEPT !.referenceTs = ts, !.first = 1, !.entries = <<>>]

\* the texts before the first one that is needed are overwritten, if there are too many
Compacted(cache, first, recent) ==
    LET old   == cache.entries
        dist  == old[first].offset
        bytes == End(Last(old)) - dist
        many  == first - 1 + recent > CachePoints
        legal == Len(old) <= CachePoints /\ first > 1 /\ dist + bytes <= json_max /\ bytes > 0 /\ dist > 0
    IN  IF ~many THEN [cache EXCEPT !.first = first]
        ELSE IF ~legal THEN Reset(cache, old[first].ts)
        ELSE [cache EXCEPT !.first = 1,
                !.entries = [k \in 1..Len(old) - (first - 1) |->
                                [old[k + first - 1] EXCEPT !.offset = @ - dist]],
                !.json = [j \in DOMAIN @ |-> IF j < bytes THEN @[j + dist] ELSE @[j]]]

\* where the recent points begin in the cache; it starts again if they are not in it, or if
\* the relative times get long
Positioned(cache, firstTs, recent) ==
    LET at  == Places(cache, firstTs)
        old == cache.referenceTs # 0 /\ firstTs > cache.referenceTs + ReferenceLimit
    IN  IF at = {} \/ old THEN Reset(cache, firstTs)
        ELSE Compacted(cache, CHOOSE k \in at : \A l \in at : k <= l, recent)

UpToDate(cache, k, point) ==
    k <= Len(cache.entries) /\ cache.entries[k].ts = point.ts /\ cache.entries[k].leg = point.leg

\* a point is written behind the one before it; what does not fit is cut off, and the last one
Written(cache, k, point) ==
    LET start == IF k = 1 THEN 0 ELSE End(cache.entries[k - 1])
        text  == Text(point, cache.referenceTs)
        json  == [j \in DOMAIN cache.json |->
                    IF j \in start..start + point.len - 1 THEN text[j - start + 1]
                    ELSE IF j = start + point.len THEN <<>> ELSE cache.json[j]]
        fits  == start + point.len + 1 < json_max
    IN  [cache EXCEPT !.json = json,
                      !.entries = SubSeq(@, 1, k - 1)
                          \o (IF fits THEN <<[ts |-> point.ts, leg |-> point.leg, offset |-> start, len |-> point.len]>>
                              ELSE <<>>)]

\* one point after the other, until there is no room
Updated(cache, points) ==
    LET Put(c, i) ==
            LET k == c.first + i - 1
            IN  IF k > CachePoints \/ k > Len(c.entries) + 1 \/ UpToDate(c, k, points[i]) THEN c
                ELSE Written(c, k, points[i])
    IN  FoldLeft(Put, cache, [i \in DOMAIN points |-> i])

checkTraceCache(a, points) ==
    LET cache == Allocated(a)
    IN  IF cache = none THEN none
        ELSE <<Updated(Positioned(cache[1], points[1].ts, Len(points)), points)>>
-----------------------------------------------------------------------------
(* generateTraceJson, of the recent points                                 *)

RecentOf(a, legs) ==
    LET from == IF Len(a.trace) > RecentPoints THEN Len(a.trace) - RecentPoints ELSE 0
    IN  [i \in 1..Len(a.trace) - from |->
            [ts |-> a.trace[from + i], leg |-> a.trace[from + i] \in legs,
             len |-> IF (a.forgotten + from + i - 1) % SFOUR = 0 THEN a.object ELSE 1]]

\* what is in the cache from the first of the recent points to the last one that is in it
Copied(cache) ==
    LET from == cache.entries[cache.first].offset
    IN  IF cache.first > Len(cache.entries) THEN <<>>
        ELSE [j \in 1..End(Last(cache.entries)) - from |-> cache.json[from + j - 1]]

generateTraceJson(a, legs) ==
    LET points == RecentOf(a, legs)
        cache  == IF points = <<>> THEN a.cache ELSE checkTraceCache(a, points)
        file   == CASE points = <<>> -> [timestamp |-> a.now, text |-> <<>>]
                    [] cache # none /\ cache[1].entries # <<>> ->
                         [timestamp |-> cache[1].referenceTs, text |-> Copied(cache[1])]
                    [] OTHER -> [timestamp |-> points[1].ts,
                                 text |-> FlattenSeq([i \in DOMAIN points |-> Text(points[i], points[1].ts)])]
    IN  [a EXCEPT !.cache = cache, !.file = <<[file |-> file, points |-> points]>>]
-----------------------------------------------------------------------------
(* What happens to an aircraft.                                            *)

NewTrack(object) ==
    [trace |-> <<>>, forgotten |-> 0, now |-> 1, seen |-> 1, cache |-> none, file |-> <<>>, object |-> object]
Later(a, d) == [a EXCEPT !.now = @ + d, !.file = <<>>]
\* a position that is added to the trace
PointAdded(a) == LET b == Later(a, 1) IN [b EXCEPT !.seen = b.now, !.trace = Append(@, b.now)]
\* traceMaintenance: an old tuple may be forgotten
Maintained(a) == [a EXCEPT !.cache = IF a.now - a.seen > Lifetime THEN none ELSE @, !.file = <<>>]
Forgotten(a) ==
    [a EXCEPT !.trace = SubSeq(@, SFOUR + 1, Len(@)), !.forgotten = @ + SFOUR, !.file = <<>>]
\* setTrace, with what is left after a deletion
setTrace(a, trace) == [a EXCEPT !.trace = trace, !.forgotten = 0, !.cache = none, !.file = <<>>]

After(a) ==
    (IF a.now < MaxTime THEN {PointAdded(a)} ELSE {})
    \union {Later(a, d) : d \in {d \in Pauses : a.now + d <= MaxTime}}
    \union {Maintained(a)}
    \union (IF Len(a.trace) > SFOUR THEN {Forgotten(a), setTrace(a, SubSeq(a.trace, 1, SFOUR))} ELSE {})
    \union {setTrace(a, <<>>)}
    \union {generateTraceJson(a, legs) :
                legs \in {{}} \union {{a.trace[i]} : i \in {i \in DOMAIN a.trace : i = Len(a.trace) - 1}}}

\* all points of a full cache fit
Roomy(object) == (CachePoints \div SFOUR) * (object + SFOUR - 1) + 1 < json_max

\* The file has the last points, each with its time and its leg marker, whatever was cached of
\* them before (checkTraceCache, generateTraceJson), and a reference that is no older than the
\* limit; if their texts are longer than they are expected to be, it has the first ones of them.
RecentShown(a) ==
    a.file # <<>> =>
      LET file   == a.file[1].file
          points == a.file[1].points
          texts  == [i \in DOMAIN points |-> Text(points[i], file.timestamp)]
      IN  /\ \E n \in 0..Len(points) :
                /\ file.text = FlattenSeq(SubSeq(texts, 1, n))
                /\ Roomy(a.object) => n = Len(points)
          /\ points # <<>> => file.timestamp \in points[1].ts - ReferenceLimit..points[1].ts
=============================================================================
