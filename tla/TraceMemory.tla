---------------------------- MODULE TraceMemory ----------------------------
(***************************************************************************)
(* The trace of one aircraft in memory and in the state file               *)
(* (globe_index.c).  The decode thread adds positions to a buffer that is  *)
(* uncompressed, trace_current; with the threads stopped, maintenance      *)
(* forgets old positions and moves the older ones of the buffer into       *)
(* compressed chunks; the misc thread saves the state while the decode     *)
(* thread goes on: without a lock it copies the aircraft field by field,   *)
(* and then the positions from the buffer the decode thread still uses.    *)
(* A position is its time; two are never of one time.                      *)
(*                                                                         *)
(* The slot after the last position may hold one more, which traceAdd did  *)
(* not want but that may be used later (tracePosBuffered): every operation *)
(* that moves positions has to take it along.  States are stored in tuples *)
(* of four (SFOUR) and moved by whole tuples only.                         *)
(***************************************************************************)
EXTENDS Integers, Sequences, SequencesExt, FiniteSets

CONSTANTS SFour,            \* SFOUR, states in a tuple
          MinCurrent,       \* minCurrentPoints
          Reserve,          \* Modes.traceReserve
          ChunkPoints,      \* Modes.traceChunkPoints
          BigChunk,         \* a chunk of more positions exceeds traceChunkMaxBytes
          ChunkDuration,    \* traceChunkDuration
          Keep,             \* Modes.keep_traces
          Inactive,         \* 60 minutes without a position
          Stale,            \* TRACE_STALE
          MaxElapsed,       \* Modes.json_trace_interval
          BufferLong,       \* the 2700 ms of traceAdd
          Gaps,             \* how long nothing may be received
          Budgets           \* bounds of the time and of what the environment does

ASSUME MemoryAssumption ==
    /\ {SFour, MinCurrent, Reserve, ChunkPoints} \subseteq Nat \ {0}
    /\ \A n \in {MinCurrent, Reserve, ChunkPoints} : n % SFour = 0

VARIABLES
    now,
    trace,          \* the aircraft's trace_* fields, tracePosBuffered and seenPosReliable
    adding,         \* traceAdd, called again after the buffered position: its wish
    saving,         \* save_blob: what it has copied of the aircraft
    file,           \* the aircraft in the state file: a set of at most one record
    budget          \* how often the environment may still do something

vars == <<now, trace, adding, saving, file, budget>>

Free == 0                                   \* a slot that was only zeroed
(* cur is <<>> where the pointer is NULL.  excess is history: by how much a *)
(* trace_len that was loaded was larger than what was loaded with it.       *)
Empty == [cur |-> <<>>, len |-> 0, total |-> 0, chunks |-> <<>>,
          buffered |-> FALSE, seen |-> 0, excess |-> 0]
Cleanup(tr) == [Empty EXCEPT !.seen = tr.seen]
NotSaving == [done |-> FALSE, mark |-> 0, copy |-> <<>>]

Lesser(a, b) == IF a <= b THEN a ELSE b
Larger(a, b) == IF a >= b THEN a ELSE b
Fours(n) == (n + SFour - 1) \div SFour
Align(n) == Fours(n) * SFour

Points(tr) == SubSeq(tr.cur, 1, tr.len)
Stored(chunks) == FlattenSeq([k \in DOMAIN chunks |-> chunks[k].pts])
Reassembled(tr) == Stored(tr.chunks) \o Points(tr)

-----------------------------------------------------------------------------
(* The buffer *)

Nominal(tr, t) == IF t - tr.seen > Inactive THEN Reserve + MinCurrent + SFour ELSE Reserve + ChunkPoints

(* the tuples that hold the positions and the buffered one are copied *)
Moved(cur, skip, count, size) ==
    [i \in 1..size |-> IF i <= Align(count) /\ i + skip <= Len(cur) THEN cur[i + skip] ELSE Free]

(* Fault: the buffered position is not copied *)
ResizeCurrentExact(tr, t) ==
    LET size == Larger(Nominal(tr, t), Align(tr.len + Reserve))
    IN [tr EXCEPT !.cur = IF Len(tr.cur) = size THEN tr.cur ELSE Moved(tr.cur, 0, tr.len, size)]

ResizeCurrent(tr, t) ==
    LET size == Larger(Nominal(tr, t), Align(tr.len + Reserve))
    IN [tr EXCEPT !.cur = IF Len(tr.cur) = size THEN tr.cur ELSE Moved(tr.cur, 0, tr.len + 1, size)]

(* the rest of the buffer moves to its front, within the allocation *)
DropFront(tr, count) ==
    LET left == tr.len - count
    IN [tr EXCEPT !.len = left,
          !.cur = [i \in DOMAIN tr.cur |-> IF i <= Align(left + 1) THEN tr.cur[i + count] ELSE tr.cur[i]]]

UsePosBuffered(tr) ==
    IF tr.buffered THEN [tr EXCEPT !.buffered = FALSE, !.total = @ + 1, !.len = @ + 1] ELSE tr

-----------------------------------------------------------------------------
(* Chunks *)

ChunkOf(pts) == [pts |-> pts, first |-> pts[1], last |-> pts[Len(pts)]]

(* how many positions the last chunk is extended by: whole tuples, within its duration *)
Extension(chunks, source) ==
    LET final == chunks[Len(chunks)]
        fits == {k \in 1..(Len(source) \div SFour) : source[k * SFour] - final.first <= ChunkDuration}
        count == SFour * Cardinality(fits)
    IN IF chunks = <<>> \/ Len(Stored(<<final>>)) > BigChunk \/ count < ChunkPoints \div 4 THEN 0 ELSE count

(* compressChunk: the chunks, and how many positions of source they took *)
CompressChunk(chunks, source) ==
    LET more == IF chunks = <<>> THEN 0 ELSE Extension(chunks, source)
        k == Len(chunks)
    IN IF more > 0
       THEN [taken |-> more,
             chunks |-> [chunks EXCEPT ![k].pts = @ \o SubSeq(source, 1, more), ![k].last = source[more]]]
       ELSE [taken |-> Len(source), chunks |-> Append(chunks, ChunkOf(source))]

CompressCurrent(tr) ==
    LET count == IF tr.len < MinCurrent THEN 0 ELSE SFour * ((tr.len - MinCurrent) \div SFour)
        res == CompressChunk(tr.chunks, SubSeq(tr.cur, 1, count))
    IN IF count < SFour THEN tr
       ELSE [DropFront(tr, res.taken) EXCEPT !.chunks = res.chunks]

(* setTrace: every full chunk as long as more than the minimum stays *)
RECURSIVE Chunked(_, _)
Chunked(chunks, pts) ==
    IF Len(pts) <= ChunkPoints + MinCurrent THEN [chunks |-> chunks, rest |-> pts]
    ELSE LET res == CompressChunk(chunks, SubSeq(pts, 1, ChunkPoints))
         IN Chunked(res.chunks, SubSeq(pts, res.taken + 1, Len(pts)))

SetTrace(tr, pts, t) ==
    LET split == Chunked(<<>>, pts)
        bare == ResizeCurrent([Cleanup(tr) EXCEPT !.len = Len(split.rest), !.total = Len(pts),
                                              !.chunks = split.chunks], t)
    IN IF pts = <<>> THEN Cleanup(tr)
       ELSE [bare EXCEPT !.cur = split.rest \o SubSeq(@, Len(split.rest) + 1, Len(@))]

-----------------------------------------------------------------------------
(* tracePrune and traceMaintenance *)

Prune(tr, t) ==
    LET after == t - Keep
        oldChunks == Len(SelectSeq(tr.chunks, LAMBDA c : c.last < after))
        kept == [tr EXCEPT !.chunks = SubSeq(@, oldChunks + 1, Len(@)),
                           !.total = @ - Len(Stored(SubSeq(tr.chunks, 1, oldChunks)))]
        oldFours == SFour * Cardinality({k \in 1..(tr.len \div SFour) : tr.cur[k * SFour] < after})
    IN IF tr.len > 0 /\ tr.cur[tr.len] < after THEN Cleanup(tr)
       ELSE IF oldFours >= Reserve THEN [DropFront(kept, oldFours) EXCEPT !.total = @ - oldFours]
       ELSE kept

Shortened(tr) == IF tr.len >= ChunkPoints + Reserve \div 4 THEN CompressCurrent(tr) ELSE tr
Aged(tr) ==
    IF tr.len > ChunkPoints \div 4 /\ tr.cur[tr.len] - tr.cur[1] > ChunkDuration
    THEN CompressCurrent(tr) ELSE tr
Compacted(tr, t) ==
    IF tr.total = 0 \/ tr.len = 0 THEN tr
    ELSE Aged(Shortened(IF Len(tr.cur) # Nominal(tr, t) THEN ResizeCurrent(tr, t) ELSE tr))
Maintained(tr, t) == IF tr.total = 0 THEN tr ELSE Compacted(Prune(tr, t), t)

-----------------------------------------------------------------------------
(* traceAdd.  What it wants of a position depends on how far the aircraft  *)
(* has moved, turned, climbed: "save" and "exact" (save_state_no_buf) use  *)
(* it, "skip" only buffers it, and "none" drops a position that repeats    *)
(* the last one.                                                           *)

Wishes == {"save", "exact", "skip", "none"}

(* the buffered position is used first when it is far enough from the last one *)
PrefersBuffered(tr, t) ==
    LET final == tr.cur[tr.len]
        toBuffered == tr.cur[tr.len + 1] - final
    IN /\ tr.len > 0 /\ tr.buffered
       /\ (t - final > MaxElapsed \/ 2 * toBuffered > t - final \/ toBuffered > BufferLong)

(* Fault: the slot after the last position may lie outside of the buffer *)
PlaceUnchecked(tr, wish, t) ==
    LET room == IF tr.cur = <<>> THEN ResizeCurrent(tr, t) ELSE tr
        put == [room EXCEPT !.cur[tr.len + 1] = t]
    IN IF (wish = "none" /\ tr.len > 0) \/ tr.len >= Len(room.cur) THEN room
       ELSE IF wish = "skip" /\ tr.len > 0 THEN [put EXCEPT !.buffered = TRUE]
       ELSE [put EXCEPT !.buffered = FALSE, !.len = @ + 1, !.total = @ + 1]

Place(tr, wish, t) ==
    LET room == IF tr.cur = <<>> THEN ResizeCurrent(tr, t) ELSE tr
        put == [room EXCEPT !.cur[tr.len + 1] = t]
    IN IF wish = "none" /\ tr.len > 0 THEN tr
       ELSE IF tr.len + 1 >= Len(room.cur) - 1 THEN room
       ELSE IF wish = "skip" /\ tr.len > 0 THEN [put EXCEPT !.buffered = TRUE]
       ELSE [put EXCEPT !.buffered = FALSE, !.len = @ + 1, !.total = @ + 1]

-----------------------------------------------------------------------------
(* Saving and loading *)

(* the fields of the copy, in the order in which they lie in struct aircraft *)
Fields == <<"trace_current", "trace_current_len", "trace_len", "seenPosReliable", "tracePosBuffered">>
FieldOf(tr, field) ==
    CASE field = "trace_current"     -> IF tr.cur = <<>> THEN 0 ELSE 1
      [] field = "trace_current_len" -> tr.len
      [] field = "trace_len"         -> tr.total
      [] field = "seenPosReliable"   -> tr.seen
      [] field = "tracePosBuffered"  -> IF tr.buffered THEN 1 ELSE 0

(* the copy, once its buffered position is used *)
HasBuffer == saving.copy[1] = 1
CopyLen == saving.copy[2] + saving.copy[5]
CopyTotal == saving.copy[3] + saving.copy[5]

(* Positions are to be copied from the buffer, and the pointer in the copy *)
(* is NULL, as it was read before there was a trace.                       *)
ReadsFromNull == saving.done /\ CopyTotal > 0 /\ CopyLen > 0 /\ ~HasBuffer

(* what the next start finds: the fields of the copy, and the positions as the buffer has them
   by now, which is the one of the aircraft *)
Record == [chunks |-> IF CopyTotal > 0 THEN trace.chunks ELSE <<>>,
           total |-> CopyTotal, seen |-> saving.copy[4],
           pts |-> IF CopyTotal > 0 THEN SubSeq(trace.cur, 1, CopyLen) ELSE <<>>]

Loaded(rec, t) ==
    LET bare == ResizeCurrent([Empty EXCEPT !.len = Len(rec.pts), !.total = rec.total,
                                            !.chunks = rec.chunks, !.seen = rec.seen,
                                            !.excess = rec.total - Len(Stored(rec.chunks) \o rec.pts)], t)
    IN IF rec.total = 0 THEN [Empty EXCEPT !.seen = rec.seen]
       ELSE Maintained([bare EXCEPT !.cur = rec.pts \o SubSeq(@, Len(rec.pts) + 1, Len(@))], t)

-----------------------------------------------------------------------------
Init ==
    /\ now = 0
    /\ trace = Empty /\ adding = <<>> /\ saving = NotSaving /\ file = {}
    /\ budget \in Budgets

(* the decode thread, for a position that was accepted *)
AddPosition ==
    /\ now < budget.until /\ adding = <<>>
    /\ now' = now + 1
    /\ \E wish \in Wishes :
         /\ ~(wish = "save" /\ PrefersBuffered(trace, now'))
         /\ trace' = Place([trace EXCEPT !.seen = now'], wish, now')
    /\ UNCHANGED <<adding, saving, file, budget>>

(* first the buffered position, ... *)
AddBuffered ==
    /\ now < budget.until /\ adding = <<>>
    /\ PrefersBuffered(trace, now + 1)
    /\ trace' = UsePosBuffered([trace EXCEPT !.seen = now + 1])
    /\ \E again \in Wishes : adding' = <<again>>
    /\ UNCHANGED <<now, saving, file, budget>>

(* ... then the same call once more *)
AddAgain ==
    /\ adding # <<>>
    /\ now' = now + 1
    /\ trace' = Place(trace, adding[1], now')
    /\ adding' = <<>>
    /\ UNCHANGED <<saving, file, budget>>

Silence ==
    /\ budget.gaps > 0 /\ adding = <<>>
    /\ \E gap \in Gaps : now + gap <= budget.until /\ now' = now + gap
    /\ budget' = [budget EXCEPT !.gaps = @ - 1]
    /\ UNCHANGED <<trace, adding, saving, file>>

(* the decode thread waits and the misc thread is not saving *)
ThreadsStopped == adding = <<>> /\ saving = NotSaving

(* trackRemoveStale *)
Maintain ==
    /\ ThreadsStopped
    /\ trace' = Maintained(IF now > trace.seen + Stale THEN UsePosBuffered(trace) ELSE trace, now)
    /\ UNCHANGED <<now, adding, saving, file, budget>>

(* Fault: the tuple that begins at the end of the interval stays *)
RemainingEnd(pts, from, to) ==
    LET heads == {i \in 1..Len(pts) : (i - 1) % SFour = 0}
        late == {i \in heads : pts[i] >= to}
        end == IF late = {} THEN Len(pts) + SFour ELSE CHOOSE i \in late : \A j \in late : i <= j
        early == {i \in heads : i <= end /\ pts[i] <= from}
        start == IF early = {} THEN 1 ELSE CHOOSE i \in early : \A j \in early : i >= j
    IN IF late = {} THEN SubSeq(pts, 1, Larger(0, start - 1 - SFour))
       ELSE SubSeq(pts, 1, start - 1) \o SubSeq(pts, end, Len(pts))

(* traceDelete, with the threads stopped: whole tuples, counted in the reassembled trace *)
Remaining(pts, from, to) ==
    LET heads == {i \in 1..Len(pts) : (i - 1) % SFour = 0}
        late == {i \in heads : pts[i] > to}
        end == IF late = {} THEN Len(pts) + SFour ELSE CHOOSE i \in late : \A j \in late : i <= j
        early == {i \in heads : i <= end /\ pts[i] <= from}
        start == IF early = {} THEN 1 ELSE CHOOSE i \in early : \A j \in early : i >= j
    IN IF late = {} THEN SubSeq(pts, 1, Larger(0, start - 1 - SFour))
       ELSE SubSeq(pts, 1, start - 1) \o SubSeq(pts, end, Len(pts))

Delete ==
    /\ ThreadsStopped /\ budget.deletes > 0 /\ trace.total > 0
    /\ \E from \in 1..now : \E to \in from..now :
         trace' = Maintained(SetTrace(trace, Remaining(Reassembled(UsePosBuffered(trace)), from, to), now), now)
    /\ budget' = [budget EXCEPT !.deletes = @ - 1]
    /\ UNCHANGED <<now, adding, saving, file>>

(* save_blob copies one field after the other, each as the decode thread has left it by then.
   Chunks only change while the threads are stopped.  mark is history: the length of the trace
   when the copying began. *)
CopyField ==
    /\ ~saving.done /\ (saving = NotSaving => budget.saves > 0)
    /\ LET k == Len(saving.copy) + 1
       IN saving' = [done |-> k = Len(Fields),
                     mark |-> IF k = 1 THEN Len(Reassembled(trace)) ELSE saving.mark,
                     copy |-> Append(saving.copy, FieldOf(trace, Fields[k]))]
    /\ budget' = IF saving = NotSaving THEN [budget EXCEPT !.saves = @ - 1] ELSE budget
    /\ UNCHANGED <<now, trace, adding, file>>

(* the positions are written from the buffer the decode thread uses; then the file is renamed *)
SaveFile ==
    /\ saving.done /\ ~ReadsFromNull
    /\ file' = {Record} /\ saving' = NotSaving
    /\ UNCHANGED <<now, trace, adding, budget>>

(* compression fails: the old file stays *)
SaveError ==
    /\ saving.done
    /\ saving' = NotSaving
    /\ UNCHANGED <<now, trace, adding, file, budget>>

(* write() fails: its result is not used, and what is renamed can not be loaded *)
SaveTruncated ==
    /\ saving.done /\ ~ReadsFromNull
    /\ file' = {} /\ saving' = NotSaving
    /\ UNCHANGED <<now, trace, adding, budget>>

(* the process starts with what the file has *)
Start ==
    /\ saving' = NotSaving /\ adding' = <<>>
    /\ \/ file = {} /\ trace' = Empty
       \/ \E rec \in file : trace' = Loaded(rec, now)
    /\ UNCHANGED <<now, file>>

(* the process ends without saving, at any point, and starts again *)
Restart ==
    /\ budget.restarts > 0
    /\ budget' = [budget EXCEPT !.restarts = @ - 1]
    /\ Start

(* the copy from NULL ends the process, before the file is renamed *)
SaveFault == ReadsFromNull /\ Start /\ UNCHANGED budget

Next == \/ AddPosition \/ AddBuffered \/ AddAgain \/ Silence \/ Maintain \/ Delete
        \/ CopyField \/ SaveFile \/ SaveError \/ SaveTruncated \/ SaveFault \/ Restart

Spec == Init /\ [][Next]_vars

-----------------------------------------------------------------------------
(* What is moved is counted: trace_len is what the chunks and the buffer   *)
(* hold, and what it was too large when it was loaded (LengthsAgree) stays *)
(* the same until the trace is cleared; chunks and their bounds agree and  *)
(* hold whole tuples; the slot traceAdd may write next is inside the       *)
(* buffer (globe_index.c:2614).                                            *)
Accounted ==
    /\ trace.total = Len(Reassembled(trace)) + trace.excess
    /\ trace.excess >= 0
    /\ \A k \in DOMAIN trace.chunks :
         LET c == trace.chunks[k] IN Len(c.pts) % SFour = 0 /\ c.first = c.pts[1] /\ c.last = c.pts[Len(c.pts)]
    /\ trace.cur # <<>> => trace.len < Len(trace.cur)

(* The stored trace is a log of positions: none is lost, repeated, mixed up *)
(* or replaced by the slot of another one, through compression, resizing,   *)
(* pruning, deletion, a save that runs beside the decoder and a restart.    *)
Log == INSTANCE TraceLog WITH
           log <- Reassembled(trace),
           spare <- IF trace.buffered THEN <<trace.cur[trace.len + 1]>> ELSE <<>>,
           mark <- saving.mark,
           disk <- {Stored(rec.chunks) \o rec.pts : rec \in file}
ImplementsLog == Log!LSpec

(* Nothing of a deleted interval stays (globe_index.c:3713-3735). *)
IntervalGone ==
    ThreadsStopped => \A from \in 1..now : \A to \in from..now :
      ToSet(Remaining(Reassembled(UsePosBuffered(trace)), from, to)) \intersect from..to = {}

(* What is kept is accounted for, and what was deleted is gone.            *)
TraceConsistent == Accounted /\ IntervalGone

(* traceDelete promises to "delete whole fourState tuple if stuff we want   *)
(* to delete is contained" (globe_index.c:3725): a tuple stays when the one *)
(* after it begins before the interval does.                                *)
WholeTuplesOnly ==
    LET pts == Reassembled(UsePosBuffered(trace))
        next(i) == ((i - 1) \div SFour + 1) * SFour + 1
    IN \A from \in 1..now : \A to \in from..now :
         {pts[i] : i \in {j \in DOMAIN pts : next(j) <= Len(pts) /\ pts[next(j)] <= from}}
           \subseteq ToSet(Remaining(pts, from, to))

(* The trace of the copy is as good as that of the aircraft, although "work *)
(* on local copy of aircraft" (globe_index.c:2748) takes no lock: positions *)
(* are never copied from NULL.  It fails when the first positions are added *)
(* between the copy of the pointer and that of the lengths.                 *)
NeverFromNull == ~ReadsFromNull

(* trace_len is the "total number of points in the trace" (track.h:344).   *)
(* It fails when a position is added between the copies of the two lengths *)
(* and the process is started from that file.                              *)
LengthsAgree == trace.total = Len(Reassembled(trace))
=============================================================================
