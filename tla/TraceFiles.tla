----------------------------- MODULE TraceFiles -----------------------------
(***************************************************************************)
(* Writing the traces to files (globe_index.c, readsb.c).  The decode      *)
(* thread records positions and marks the aircraft; the upkeep thread      *)
(* sweeps over the table of aircraft in runs of tasks that stop at a time  *)
(* limit and are resumed, and writes what is marked: trace_recent (the     *)
(* last positions), trace_full (all of them) and, for the history, one     *)
(* file per day, which is closed 55 minutes after midnight.  The marks and *)
(* the counter of an aircraft are written by both threads without a lock.  *)
(*                                                                         *)
(* A position is its index in the log of the aircraft, which gives its     *)
(* time; what a file holds is an interval <<first, last>> of indices.      *)
(* Times are in units of a few minutes; the clock ticks only after a sweep *)
(* that began after the tick before it: the sweeps are assumed to keep up. *)
(***************************************************************************)
EXTENDS Integers, Sequences, FiniteSets

CONSTANTS
    Aircraft, Chains,           \* the aircraft, and those of every bucket in their order
    TaskCount, Invocations,     \* tasks of a run, and runs of a sweep
    Alloted,                    \* traces a task writes at least before its time is up
    RecentPoints,               \* Modes.traceRecentPoints
    Day, Trigger, Close, Hour,  \* a day, 15, 55 and 60 minutes
    Spread,                     \* random() % (5 * MINUTES)
    Followed,                   \* the positions that EveryPositionShown follows
    PermIvals,                  \* the interval between permanent writes, with its random part
    Mixes                       \* bounds: how the clock, the decoder and the process may behave

ASSUME FilesAssumption ==
    /\ {TaskCount, Invocations, Day, Hour} \subseteq Nat \ {0}
    /\ RecentPoints \in Nat /\ RecentPoints > 2
    /\ Trigger < Close /\ Close <= Hour

VARIABLES
    now,
    ac,             \* the trace fields of every aircraft; for the properties only: since (the
                    \* first position of this run), beside (the positions recorded beside a
                    \* write) and lost (those whose mark was cleared unread)
    decode,         \* where the decode thread is in the bookkeeping of a position
    triggerDay,     \* Modes.triggerPermWriteDay
    upkeep,         \* where the upkeep thread is, and the state of writeTraces
    task,           \* the tasks of a run
    files,          \* per aircraft: recent, full, and perm for every day
    left            \* the bounds that remain

vars == <<now, ac, decode, triggerDay, upkeep, task, files, left>>

Tasks == 1..TaskCount
Flags == {"RECENT", "MEM", "PERM"}
Coffee == 100                               \* 0xc0ffee
Nothing == <<1, 0>>

Lesser(a, b) == IF a <= b THEN a ELSE b
Larger(a, b) == IF a >= b THEN a ELSE b
Span(interval) == interval[1]..interval[2]
DayOf(t) == t \div Day
(* the day that permanent writes at t are for, and whether it is in its last hour *)
WriteDay(t) == DayOf(t - Close)
LastHour(t) == (t - Close) % Day >= Day - Hour

KeepTraces == Day + Hour

Kept(a) == ac[a].lo..Len(ac[a].log)
Written(a) == Span(files[a].recent) \union Span(files[a].full)
Reached(a) == Larger(files[a].recent[2], files[a].full[2])
NewAircraft == [log |-> <<>>, lo |-> 1, write |-> {}, counter |-> 0, nextMw |-> 0, nextPerm |-> 0,
                permLast |-> 0, forDay |-> 0, done |-> FALSE, since |-> 1, beside |-> {},
                lost |-> {}]
AtRest == [at |-> "rest", from |-> 0, to |-> 0, pos |-> 1, written |-> 0, flags |-> {}, hi |-> 0]

-----------------------------------------------------------------------------
(* The decode thread: traceAdd uses a position, then does the bookkeeping  *)

Untouched(a) == \A k \in Tasks : task[k].at \in {"clear", "assemble", "write", "reset"} => task[k].a # a
InFlight(a) == decode.at # "idle" /\ decode.a = a

Record(a) ==
    LET r == ac[a]
        first == r.lo > Len(r.log)
    IN /\ decode.at = "idle" /\ left.points[a] > 0 /\ Cardinality(r.beside) < left.beside
       /\ ac' = [ac EXCEPT ![a].log = Append(@, now),
                           ![a].beside = IF Untouched(a) THEN @ ELSE @ \union {Len(r.log) + 1},
                           ![a].nextMw = IF first THEN now ELSE @,
                           ![a].counter = IF first THEN Coffee ELSE @,
                           ![a].nextPerm = IF first THEN now + 2 * Hour ELSE @]
       /\ decode' = [at |-> "flags", a |-> a, old |-> {}]
       /\ left' = [left EXCEPT !.points[a] = @ - 1]
       /\ UNCHANGED <<now, triggerDay, upkeep, task, files>>

(* trace_write |= WRECENT is a read and a write *)
ReadFlags ==
    /\ decode.at = "flags"
    /\ decode' = [decode EXCEPT !.at = "mark", !.old = ac[decode.a].write]
    /\ UNCHANGED <<now, ac, triggerDay, upkeep, task, files, left>>

Mark ==
    /\ decode.at = "mark"
    /\ ac' = [ac EXCEPT ![decode.a].write = decode.old \union {"RECENT"}]
    /\ decode' = [decode EXCEPT !.at = "count", !.old = {}]
    /\ UNCHANGED <<now, triggerDay, upkeep, task, files, left>>

Count ==
    /\ decode.at = "count"
    /\ ac' = [ac EXCEPT ![decode.a].counter = @ + 1]
    /\ decode' = [at |-> "idle"]
    /\ UNCHANGED <<now, triggerDay, upkeep, task, files, left>>

-----------------------------------------------------------------------------
(* The misc thread: a quarter past midnight all traces of yesterday are due *)

CheckNewDay ==
    /\ triggerDay # DayOf(now - Trigger)
    /\ triggerDay' = DayOf(now - Trigger)
    /\ UNCHANGED <<now, ac, decode, upkeep, task, files, left>>

-----------------------------------------------------------------------------
(* The upkeep thread: traceMaintenance of every aircraft, decoding stopped *)

FirstSince(r, t) ==
    LET young == {i \in r.lo..Len(r.log) : r.log[i] >= t}
    IN IF young = {} THEN Len(r.log) + 1 ELSE CHOOSE i \in young : \A j \in young : i <= j

(* Fault: a new day does not schedule a write of the day before *)
MaintainedNoTrigger(r, t, day, spread) ==
    LET lo == FirstSince(r, t - KeepTraces)
    IN IF lo > Len(r.log) THEN [r EXCEPT !.lo = lo]
       ELSE [r EXCEPT !.lo = lo,
               !.write = @ \union (IF t > r.nextPerm THEN {"PERM"} ELSE {})
                           \union (IF t > r.nextMw THEN {"MEM"} ELSE {})]

Maintained(r, t, day, spread) ==
    LET lo == FirstSince(r, t - KeepTraces)
    IN IF lo > Len(r.log) THEN [r EXCEPT !.lo = lo]
       ELSE [r EXCEPT !.lo = lo,
               !.write = @ \union (IF t > r.nextPerm THEN {"PERM"} ELSE {})
                           \union (IF t > r.nextMw THEN {"MEM"} ELSE {}),
               !.nextPerm = IF r.forDay # day THEN t + spread ELSE @,
               !.forDay = day]

(* threadpool_run has returned, and decoding can be stopped *)
RunOver == upkeep.at = "run" /\ (\A k \in Tasks : task[k].at = "rest") /\ decode.at = "idle"

Priority ==
    /\ RunOver
    /\ \E spread \in Spread :
         ac' = [a \in Aircraft |-> Maintained(ac[a], now, triggerDay, spread)]
    /\ upkeep' = [upkeep EXCEPT !.at = "assign", !.swept = IF @ = "no" THEN "ready" ELSE @]
    /\ UNCHANGED <<now, decode, triggerDay, task, files, left>>

(* writeTraces: the next parts of the table, if the last ones are finished *)
Buckets == Len(Chains)
NParts == TaskCount * Invocations
Start(part) == part * (Buckets \div NParts) + Lesser(Buckets % NParts, part)
End(part) == Start(part) + Buckets \div NParts + (IF part < Buckets % NParts THEN 1 ELSE 0)

(* a sweep is over: the second one writes what was not written since the start *)
SweepOver(u) == [u EXCEPT !.part = 0, !.firstRun = TRUE, !.pastDay = ~u.firstRun,
                          !.swept = IF @ = "sweeping" THEN "yes" ELSE @]

Assign ==
    LET finished == \A k \in Tasks : task[k].from = task[k].to
        u == IF upkeep.part >= NParts THEN SweepOver(upkeep) ELSE upkeep
    IN /\ upkeep.at = "assign"
       /\ IF finished
          THEN /\ task' = [k \in Tasks |-> [AtRest EXCEPT !.at = "next", !.from = Start(u.part + k - 1),
                                                          !.to = End(u.part + k - 1)]]
               /\ upkeep' = [u EXCEPT !.at = "run", !.part = @ + TaskCount,
                                !.swept = IF @ = "ready" /\ u.part = 0 THEN "sweeping" ELSE @]
          ELSE /\ task' = [k \in Tasks |-> [AtRest EXCEPT !.at = "next", !.from = task[k].from, !.to = task[k].to]]
               /\ upkeep' = [upkeep EXCEPT !.at = "run"]
       /\ UNCHANGED <<now, ac, decode, triggerDay, files, left>>

-----------------------------------------------------------------------------
(* traceWriteTask: the aircraft of the task's buckets *)

Current(k) == Chains[task[k].from + 1][task[k].pos]
MoreInBucket(k) == task[k].at = "next" /\ task[k].from < task[k].to
                   /\ task[k].pos <= Len(Chains[task[k].from + 1])
PastDayDue(a) == upkeep.pastDay /\ ~ac[a].done

NextBucket(k) ==
    /\ task[k].at = "next" /\ ~MoreInBucket(k)
    /\ task' = [task EXCEPT ![k].from = Lesser(@ + 1, task[k].to), ![k].pos = 1,
                            ![k].at = IF task[k].from + 1 < task[k].to THEN @ ELSE "rest"]
    /\ UNCHANGED <<now, ac, decode, triggerDay, upkeep, files, left>>

PastDayWrite(k) ==
    /\ MoreInBucket(k) /\ PastDayDue(Current(k))
    /\ ~({"RECENT", "MEM"} \subseteq ac[Current(k)].write)
    /\ ac' = [ac EXCEPT ![Current(k)].counter = Coffee, ![Current(k)].write = @ \union {"RECENT", "MEM"}]
    /\ UNCHANGED <<now, decode, triggerDay, upkeep, task, files, left>>

NothingToWrite(k) ==
    /\ MoreInBucket(k) /\ ac[Current(k)].write = {} /\ ~PastDayDue(Current(k))
    /\ task' = [task EXCEPT ![k].pos = @ + 1]
    /\ UNCHANGED <<now, ac, decode, triggerDay, upkeep, files, left>>

(* the time is up: the bucket is begun again in the next run *)
TimeUp(k) ==
    /\ MoreInBucket(k) /\ ac[Current(k)].write # {} /\ task[k].written >= Alloted
    /\ task' = [task EXCEPT ![k].at = "rest"]
    /\ UNCHANGED <<now, ac, decode, triggerDay, upkeep, files, left>>

(* traceWrite reads the marks, then clears them *)
TakeMarks(k) ==
    /\ MoreInBucket(k) /\ ac[Current(k)].write # {}
    /\ task' = [task EXCEPT ![k] = [at |-> "clear", from |-> @.from, to |-> @.to, pos |-> @.pos,
                                    written |-> @.written, a |-> Current(k),
                                    flags |-> ac[Current(k)].write, hi |-> 0]]
    /\ ac' = [ac EXCEPT ![Current(k)].beside = @ \union {i \in {Len(ac[Current(k)].log)} : InFlight(Current(k))}]
    /\ UNCHANGED <<now, decode, triggerDay, upkeep, files, left>>

Clear(k) ==
    /\ task[k].at = "clear"
    /\ ac' = [ac EXCEPT ![task[k].a].write = {},
                        ![task[k].a].lost = IF "RECENT" \in ac[task[k].a].write \ task[k].flags
                                            THEN Reached(task[k].a) + 1..Len(ac[task[k].a].log) ELSE @]
    /\ task' = [task EXCEPT ![k].at = "assemble"]
    /\ UNCHANGED <<now, decode, triggerDay, upkeep, files, left>>

MemThresholdLate == RecentPoints            \* Fault: no room for what is not counted
MemThreshold == RecentPoints - 2

(* the trace as it is now is copied; with enough new positions all files are due *)
Assemble(k) ==
    LET r == ac[task[k].a]
        due == task[k].flags \union (IF r.counter >= MemThreshold THEN {"RECENT", "MEM"} ELSE {})
    IN /\ task[k].at = "assemble"
       /\ task' = [task EXCEPT ![k].at = "write", ![k].hi = Len(r.log),
                     ![k].flags = IF FirstSince(r, now - KeepTraces) > Len(r.log) THEN {} ELSE due]
       /\ UNCHANGED <<now, ac, decode, triggerDay, upkeep, files, left>>

WriteFiles(k) ==
    LET t == task[k]
        r == ac[t.a]
    IN /\ t.at = "write"
       /\ files' = [files EXCEPT
            ![t.a].recent = IF "RECENT" \in t.flags THEN <<Larger(r.lo, t.hi - RecentPoints + 1), t.hi>> ELSE @,
            ![t.a].full = IF "MEM" \in t.flags /\ r.counter > 0 THEN <<r.lo, t.hi>> ELSE @]
       /\ task' = [task EXCEPT ![k].at = "reset"]
       /\ ac' = [ac EXCEPT ![t.a].beside = {i \in @ : "MEM" \in t.flags /\ r.counter > 0 => i > t.hi}]
       /\ UNCHANGED <<now, decode, triggerDay, upkeep, left>>

(* Fault: the marks are cleared when everything is written *)
ResetLateClear(r, flags, next, count) ==
    [r EXCEPT !.write = {}, !.done = TRUE,
        !.counter = IF "MEM" \notin flags THEN @ ELSE IF @ >= Coffee THEN count ELSE 0,
        !.nextMw = IF "MEM" \notin flags THEN @ ELSE next]

(* the counter starts again, from anywhere after the write of a new trace *)
Reset(r, flags, next, count) ==
    [r EXCEPT !.done = TRUE,
        !.counter = IF "MEM" \notin flags THEN @ ELSE IF @ >= Coffee THEN count ELSE 0,
        !.nextMw = IF "MEM" \notin flags THEN @ ELSE next]

(* the part of the trace that is of the day, if it was not written up to its end *)
PermWindow(r, hi) ==
    LET ofDay == {i \in r.lo..hi : DayOf(r.log[i]) = WriteDay(now)}
    IN IF ofDay = {} THEN Nothing
       ELSE <<CHOOSE i \in ofDay : \A j \in ofDay : i <= j, CHOOSE i \in ofDay : \A j \in ofDay : i >= j>>

FinishWrite(k) ==
    LET t == task[k]
        r == ac[t.a]
        window == PermWindow(r, t.hi)
        perm == "PERM" \in t.flags
        wait == IF perm /\ LastHour(now) THEN PermIvals ELSE {4 * Hour}
    IN /\ t.at = "reset"
       /\ \E next \in {now, now + Hour}, count \in 0..MemThreshold - 1, ival \in wait :
            /\ ("MEM" \in t.flags /\ r.counter >= Coffee) \/ (next = now + Hour /\ count = 0)
            /\ ac' = [ac EXCEPT ![t.a] =
                 [Reset(r, t.flags, next, count) EXCEPT
                    !.nextPerm = IF perm THEN now + ival ELSE @,
                    !.permLast = IF perm THEN window[2] ELSE @]]
       /\ files' = IF perm /\ window # Nothing /\ r.permLast # window[2]
                   THEN [files EXCEPT ![t.a].perm[WriteDay(now)] = window] ELSE files
       /\ task' = [task EXCEPT ![k] = [AtRest EXCEPT !.at = "next", !.from = t.from, !.to = t.to,
                                                     !.pos = t.pos + 1, !.written = Lesser(Alloted, t.written + 1)]]
       /\ UNCHANGED <<now, decode, triggerDay, upkeep, left>>

TaskStep(k) == \/ NextBucket(k) \/ PastDayWrite(k) \/ NothingToWrite(k) \/ TimeUp(k) \/ TakeMarks(k)
               \/ Clear(k) \/ Assemble(k) \/ WriteFiles(k) \/ FinishWrite(k)

-----------------------------------------------------------------------------
(* The clock, and a stop and start of the program *)

Tick ==
    /\ now < left.until /\ RunOver /\ upkeep.swept = "yes"
    /\ triggerDay = DayOf(now - Trigger)
    /\ now' = now + 1
    /\ upkeep' = [upkeep EXCEPT !.swept = "no"]
    /\ UNCHANGED <<ac, decode, triggerDay, task, files, left>>

Started == [at |-> "run", part |-> 0, firstRun |-> FALSE, pastDay |-> FALSE, swept |-> "no"]

(* load_aircraft: due soon, or within an interval; written at once if seen lately *)
Loaded(r, t, day, spread, ival) ==
    LET m == Maintained([r EXCEPT !.done = FALSE, !.since = Len(r.log) + 1, !.beside = {}, !.lost = {},
                            !.nextPerm = IF @ < t THEN t + spread ELSE IF @ - t > 4 * Hour THEN t + ival ELSE @],
                        t, day, spread)
    IN IF m.lo <= Len(m.log) /\ t - m.log[Len(m.log)] < Trigger
       THEN [m EXCEPT !.counter = Coffee, !.write = @ \union {"RECENT", "MEM"}] ELSE m

(* the state is saved at the end; the files in /run are gone, the history stays *)
Restart ==
    /\ left.restarts > 0 /\ RunOver
    /\ \E pause \in {0, 1}, spread \in Spread, ival \in PermIvals :
         /\ now + pause <= left.until
         /\ now' = now + pause
         /\ ac' = [a \in Aircraft |-> Loaded(ac[a], now', DayOf(now' - Trigger), spread, ival)]
    /\ triggerDay' = DayOf(now' - Trigger)
    /\ upkeep' = Started /\ task' = [k \in Tasks |-> AtRest]
    /\ files' = [a \in Aircraft |-> [files[a] EXCEPT !.recent = Nothing, !.full = Nothing]]
    /\ left' = [left EXCEPT !.restarts = @ - 1]
    /\ UNCHANGED decode

Init ==
    /\ left \in Mixes
    /\ now = left.start
    /\ ac = [a \in Aircraft |->
               IF left.old[a] = 0 THEN NewAircraft
               ELSE Loaded([NewAircraft EXCEPT !.log = <<left.old[a]>>], now, DayOf(now - Trigger), 0, 4 * Hour)]
    /\ decode = [at |-> "idle"] /\ triggerDay = DayOf(now - Trigger)
    /\ upkeep = Started /\ task = [k \in Tasks |-> AtRest]
    /\ files = [a \in Aircraft |-> [recent |-> Nothing, full |-> Nothing,
                                    perm |-> [d \in 0..DayOf(left.until) |-> Nothing]]]

Upkeep == Priority \/ Assign
Decode == ReadFlags \/ Mark \/ Count

Next == \/ Upkeep \/ Decode \/ CheckNewDay \/ Tick \/ Restart
        \/ \E a \in Aircraft : Record(a)
        \/ \E k \in Tasks : TaskStep(k)

Spec == Init /\ [][Next]_vars

(* The threads run.  Locking all the others may be delayed by positions    *)
(* that keep coming, not for ever.                                         *)
FairSpec == /\ Spec /\ WF_vars(Decode) /\ WF_vars(Upkeep)
            /\ \A k \in Tasks : WF_vars(TaskStep(k))

-----------------------------------------------------------------------------
(* The web interface joins trace_full and trace_recent: between them there *)
(* is no hole, although what is recorded beside a write may go uncounted,  *)
(* as long as that is no more than two positions since trace_full was      *)
(* written (memThreshold, globe_index.c:485).                              *)
NoHole ==
    \A a \in Aircraft : Untouched(a) /\ Cardinality(ac[a].beside) <= 2 =>
      \A i \in Kept(a) : i <= Reached(a) => i \in Written(a)

(* When the day before is closed, 55 minutes after midnight, its permanent *)
(* trace has every position of the day, across the midnight, a restart and *)
(* the forgetting of old positions (globe_index.c:612, :2256).             *)
DayComplete ==
    \A a \in Aircraft : \A d \in 0..WriteDay(now) - 1 :
      d >= DayOf(left.start) =>
        \A i \in DOMAIN ac[a].log : DayOf(ac[a].log[i]) = d => i \in Span(files[a].perm[d])

(* What is on disk has no hole while a day lasts nor when it is closed.    *)
FilesComplete == NoHole /\ DayComplete

(* Every position is shown in the end: a mark is lost between the threads  *)
(* in no other way than by a clearing that follows a reading of the marks  *)
(* without it, and no aircraft is left out of the sweeps that are cut      *)
(* short and resumed (globe_index.c:475, readsb.c:943).                    *)
EveryPositionShown ==
    \A a \in Aircraft : \A i \in Followed :
      LET concerned == i \in Kept(a) /\ i >= ac[a].since /\ i \notin ac[a].lost
      IN concerned ~> (i <= Reached(a) \/ ~concerned)

(* What was loaded from the saved state is shown again: the second sweep   *)
(* is there for it (readsb.c:1041).                                        *)
LoadedShown ==
    \A a \in Aircraft : \A i \in Followed : i \in Kept(a) ~> (i <= Reached(a) \/ i \notin Kept(a))
=============================================================================
