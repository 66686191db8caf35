----------------------------- MODULE DecodePool -----------------------------
(***************************************************************************)
(* --decode-threads > 1: modesNetPeriodicWork runs one decodeTask per      *)
(* message buffer in the decode pool.  The tasks share the clients and the *)
(* list of epoll events under decodeLock, which drainMessageBuffer gives   *)
(* up while a full buffer is tracked (under trackLock) and then output     *)
(* (under outputLock).  A task that waits for those leaves its client      *)
(* half processed; the other task continues with it through activeClient.  *)
(* At the end each task serves the output group of clients, under          *)
(* outputLock instead of decodeLock.                                       *)
(*                                                                         *)
(* A client is a stream of messages 1, 2, ..., read in chunks; som and eod *)
(* are the numbers of the last message parsed and the last one read.       *)
(* Clients of the output group only send commands, which put nothing into  *)
(* the message buffer.  Accepting and connecting are left out, as is       *)
(* synthetic time.  Between lock operations a task runs in steps of one    *)
(* message, one read, one event.                                           *)
(***************************************************************************)
EXTENDS Integers, Sequences, FiniteSets

CONSTANTS
    Tasks,        \* the decode tasks, one per message buffer
    InClients,    \* clients of Modes.services_in
    OutClients,   \* clients of Modes.services_out
    Nobody,       \* owns a free mutex; also: no client
    Main,         \* the thread that runs modesNetPeriodicWork
    Sdr,          \* does Main demodulate samples, too?
    Alloc,        \* messages that fit into a buffer
    MaxSent,      \* bound: messages a peer sends
    MaxRead,      \* a read that returns as many filled the buffer
    MaxRounds     \* bound: calls of modesNetPeriodicWork

Clients == InClients \union OutClients

ASSUME DecodePoolAssumption ==
    /\ IsFiniteSet(Tasks) /\ Tasks # {} /\ Main \notin Tasks
    /\ InClients \intersect OutClients = {} /\ Nobody \notin Clients \union Tasks \union {Main}
    /\ Sdr \in BOOLEAN
    /\ Alloc \in Nat \ {0} /\ MaxRead \in Nat \ {0} /\ MaxSent \in Nat /\ MaxRounds \in Nat

VARIABLES
    decodeLock, trackLock, outputLock,   \* their owners
    events,           \* clients with an epoll event neither group has come to
    pc,               \* control point of each task
    stage,            \* which part of decodeTask it is in: "in", "steal" or "out"
    cl,               \* the client it is reading from
    first,            \* the first pass of the loop of modesReadFromClient?
    others,           \* message buffers whose activeClient it has yet to look at
    buffer,           \* its message buffer
    activeClient,     \* published in the message buffer
    open, som, eod, bufferToProcess, bContinue, discard,   \* of each client
    mainpc,           \* control point of Main
    kt,               \* passes left of the loop of netDrainMessageBuffers
    round,
    tracked, output,  \* history: messages, in order
    dropped           \* history: messages of discarded reads

locks   == <<decodeLock, trackLock, outputLock>>
task    == <<pc, stage, cl, first, others>>
buffers == <<buffer, activeClient>>
clients == <<open, som, eod, bufferToProcess, bContinue, discard>>
main    == <<mainpc, kt, round>>
history == <<tracked, output, dropped>>
vars    == <<locks, events, task, buffers, clients, main, history>>

Init ==
    /\ decodeLock = Nobody /\ trackLock = Nobody /\ outputLock = Nobody
    /\ events = {}
    /\ pc = [t \in Tasks |-> "done"]
    /\ stage = [t \in Tasks |-> "in"]
    /\ cl = [t \in Tasks |-> Nobody]
    /\ first = [t \in Tasks |-> TRUE]
    /\ others = [t \in Tasks |-> {}]
    /\ buffer = [t \in Tasks |-> <<>>]
    /\ activeClient = [t \in Tasks |-> Nobody]
    /\ open = [c \in Clients |-> TRUE]
    /\ som = [c \in Clients |-> 0] /\ eod = [c \in Clients |-> 0]
    /\ bufferToProcess = [c \in Clients |-> FALSE]
    /\ bContinue = [c \in Clients |-> FALSE]
    /\ discard = [c \in Clients |-> FALSE]
    /\ mainpc = "demod" /\ kt = 0 /\ round = 0
    /\ tracked = <<>> /\ output = <<>> /\ dropped = {}

Goto(t, from, to) == pc[t] = from /\ pc' = [pc EXCEPT ![t] = to]

MainGoto(from, to) == mainpc = from /\ mainpc' = to

\* modesCloseClient
Close(c) == open' = [open EXCEPT ![c] = FALSE]

-----------------------------------------------------------------------------
(* Main *)

\* demodulate2400, when the reader has delivered a buffer: its messages go into the first
\* message buffer and netDrainMessageBuffers follows
Demodulate ==
    /\ round < MaxRounds
    /\ \/ MainGoto("demod", "net") /\ kt' = 0
       \/ Sdr /\ MainGoto("demod", "drain") /\ kt' = Cardinality(Tasks)
    /\ UNCHANGED <<locks, events, task, buffers, clients, round, history>>

\* drainMessageBuffer on Main: unlocking a mutex that nobody holds leaves it free
DemodUnlock ==
    /\ kt > 0 /\ MainGoto("drain", "relock")
    /\ decodeLock' = Nobody
    /\ UNCHANGED <<trackLock, outputLock, events, task, buffers, clients, kt, round, history>>

DemodRelock ==
    /\ MainGoto("relock", "drain")
    /\ decodeLock = Nobody /\ decodeLock' = Main
    /\ kt' = kt - 1
    /\ UNCHANGED <<trackLock, outputLock, events, task, buffers, clients, round, history>>

DemodEnd ==
    /\ kt = 0 /\ MainGoto("drain", "net")
    /\ UNCHANGED <<locks, events, task, buffers, clients, kt, round, history>>

\* epoll_wait, then threadpool_run with one decodeTask per message buffer
EpollWait ==
    /\ MainGoto("net", "pool")
    /\ round' = round + 1
    /\ events' \in SUBSET {c \in Clients : open[c]}
    /\ pc' = [t \in Tasks |-> "start"]
    /\ stage' = [t \in Tasks |-> "in"]
    /\ UNCHANGED <<locks, cl, first, others, buffers, clients, kt, history>>

PoolReturns ==
    /\ \A t \in Tasks : pc[t] = "done"
    /\ MainGoto("pool", "demod")
    /\ UNCHANGED <<locks, events, task, buffers, clients, kt, round, history>>

MainSteps == Demodulate \/ DemodUnlock \/ DemodRelock \/ DemodEnd \/ EpollWait \/ PoolReturns

-----------------------------------------------------------------------------
(* decodeTask: its locks and its loops *)

TakeDecodeLock(t) ==
    /\ stage[t] = "in" /\ Goto(t, "start", "scan")
    /\ decodeLock = Nobody /\ decodeLock' = t
    /\ UNCHANGED <<trackLock, outputLock, events, stage, cl, first, others, buffers, clients,
                   main, history>>

TakeOutputLock(t) ==
    /\ stage[t] = "out" /\ Goto(t, "start", "scan")
    /\ outputLock = Nobody /\ outputLock' = t
    /\ UNCHANGED <<decodeLock, trackLock, events, stage, cl, first, others, buffers, clients,
                   main, history>>

\* modesReadFromClient(c, buffer of t) is called; both callers skip a closed client
Read(t, c) ==
    IF open[c]
    THEN /\ Goto(t, "scan", "head")
         /\ cl' = [cl EXCEPT ![t] = c]
         /\ first' = [first EXCEPT ![t] = TRUE]
         /\ bContinue' = [bContinue EXCEPT ![c] = @ \/ ~bufferToProcess[c]]
    ELSE UNCHANGED <<pc, cl, first, bContinue>>

Group(t) == IF stage[t] = "out" THEN OutClients ELSE InClients

\* handleEpoll: the next event of the group
HandleEvent(t) ==
    /\ pc[t] = "scan" /\ stage[t] # "steal"
    /\ \E c \in events \intersect Group(t) : events' = events \ {c} /\ Read(t, c)
    /\ UNCHANGED <<locks, stage, others, buffers, open, som, eod, bufferToProcess, discard,
                   main, history>>

\* no input event is left: look for clients that other tasks are busy with
InputDone(t) ==
    /\ pc[t] = "scan" /\ stage[t] = "in"
    /\ events \intersect InClients = {}
    /\ stage' = [stage EXCEPT ![t] = "steal"]
    /\ others' = [others EXCEPT ![t] = Tasks]
    /\ UNCHANGED <<locks, events, pc, cl, first, buffers, clients, main, history>>

Steal(t) ==
    /\ pc[t] = "scan" /\ stage[t] = "steal"
    /\ \E k \in others[t] :
          /\ others' = [others EXCEPT ![t] = @ \ {k}]
          /\ IF activeClient[k] # Nobody THEN Read(t, activeClient[k])
                                         ELSE UNCHANGED <<pc, cl, first, bContinue>>
    /\ UNCHANGED <<locks, events, stage, buffers, open, som, eod, bufferToProcess, discard,
                   main, history>>

\* Fault: decodeLock is kept while the buffer is tracked and output.
StealDoneLocked(t) ==
    /\ stage[t] = "steal" /\ others[t] = {}
    /\ Goto(t, "scan", "track")
    /\ UNCHANGED <<locks, events, stage, cl, first, others, buffers, clients, main, history>>

\* drainMessageBuffer gives up decodeLock first
StealDone(t) ==
    /\ stage[t] = "steal" /\ others[t] = {}
    /\ Goto(t, "scan", "track")
    /\ decodeLock' = Nobody
    /\ UNCHANGED <<trackLock, outputLock, events, stage, cl, first, others, buffers, clients,
                   main, history>>

OutputDone(t) ==
    /\ stage[t] = "out" /\ Goto(t, "scan", "done")
    /\ events \intersect OutClients = {}
    /\ outputLock' = Nobody
    /\ UNCHANGED <<decodeLock, trackLock, events, stage, cl, first, others, buffers, clients,
                   main, history>>

-----------------------------------------------------------------------------
(* drainMessageBuffer, without decodeLock *)

TakeTrackLock(t) ==
    /\ Goto(t, "track", "tracking")
    /\ trackLock = Nobody /\ trackLock' = t
    /\ UNCHANGED <<decodeLock, outputLock, events, stage, cl, first, others, buffers, clients,
                   main, history>>

\* trackUpdateFromMessage for every message of the buffer
Track(t) ==
    /\ Goto(t, "tracking", "output")
    /\ tracked' = tracked \o buffer[t]
    /\ trackLock' = Nobody
    /\ UNCHANGED <<decodeLock, outputLock, events, stage, cl, first, others, buffers, clients,
                   main, output, dropped>>

TakeOutputLockToDrain(t) ==
    /\ Goto(t, "output", "outputting")
    /\ outputLock = Nobody /\ outputLock' = t
    /\ UNCHANGED <<decodeLock, trackLock, events, stage, cl, first, others, buffers, clients,
                   main, history>>

\* outputMessage for every message of the buffer, which is then empty
Output(t) ==
    /\ Goto(t, "outputting", "relock")
    /\ output' = output \o buffer[t]
    /\ buffer' = [buffer EXCEPT ![t] = <<>>]
    /\ outputLock' = Nobody
    /\ UNCHANGED <<decodeLock, trackLock, events, stage, cl, first, others, activeClient, clients,
                   main, tracked, dropped>>

\* Fault: back to the client without decodeLock.
RelockForgotten(t) ==
    /\ IF cl[t] # Nobody
       THEN Goto(t, "relock", "process") /\ UNCHANGED stage
       ELSE Goto(t, "relock", "start") /\ stage' = [stage EXCEPT ![t] = "out"]
    /\ UNCHANGED <<locks, events, cl, first, others, buffers, clients, main, history>>

\* back to the client, or to the end of decodeTask, which unlocks again
Relock(t) ==
    /\ decodeLock = Nobody
    /\ IF cl[t] # Nobody
       THEN /\ Goto(t, "relock", "process")
            /\ decodeLock' = t
            /\ UNCHANGED stage
       ELSE /\ Goto(t, "relock", "start")
            /\ stage' = [stage EXCEPT ![t] = "out"]
            /\ UNCHANGED decodeLock
    /\ UNCHANGED <<trackLock, outputLock, events, cl, first, others, buffers, clients, main, history>>

-----------------------------------------------------------------------------
(* modesReadFromClient and, at "process", processClient *)

Return(t) == cl' = [cl EXCEPT ![t] = Nobody]

\* the loop ends: no more data, the time limit ("guarantee at least one read before"),
\* or a closed client
LeaveClient(t) ==
    /\ Goto(t, "head", "scan")
    /\ ~bContinue[cl[t]] \/ ~first[t] \/ ~open[cl[t]]
    /\ Return(t)
    /\ discard' = [discard EXCEPT ![cl[t]] = @ /\ bContinue[cl[t]]]
    /\ UNCHANGED <<locks, events, stage, first, others, buffers, open, som, eod, bufferToProcess,
                   bContinue, main, history>>

\* nothing to read, or the end of the stream, or an error
ReadNothing(t) ==
    LET c == cl[t] IN
    /\ Goto(t, "head", "scan") /\ Return(t)
    /\ bContinue[c] /\ open[c] /\ ~bufferToProcess[c]
    /\ bContinue' = [bContinue EXCEPT ![c] = FALSE]
    /\ Close(c) \/ UNCHANGED open
    /\ UNCHANGED <<locks, events, stage, first, others, buffers, som, eod, bufferToProcess,
                   discard, main, history>>

\* readClient; "not enough CPU" starts to discard what it reads
ReadData(t) ==
    LET c == cl[t] IN
    /\ pc[t] = "head"
    /\ bContinue[c] /\ open[c] /\ ~bufferToProcess[c]
    /\ \E n \in 1..MaxRead :
          /\ eod[c] + n <= MaxSent
          /\ eod' = [eod EXCEPT ![c] = @ + n]
          /\ bContinue' = [bContinue EXCEPT ![c] = (n = MaxRead)]
          /\ \/ /\ ~discard[c]
                /\ Goto(t, "head", "process")
                /\ bufferToProcess' = [bufferToProcess EXCEPT ![c] = TRUE]
                /\ activeClient' = [activeClient EXCEPT ![t] = c]
                /\ UNCHANGED <<som, discard, dropped, first>>
             \/ /\ discard' = [discard EXCEPT ![c] = TRUE]
                /\ som' = [som EXCEPT ![c] = eod[c] + n]
                /\ dropped' = dropped \union {<<c, m>> : m \in (som[c] + 1)..(eod[c] + n)}
                /\ first' = [first EXCEPT ![t] = FALSE]
                /\ UNCHANGED <<pc, bufferToProcess, activeClient>>
    /\ UNCHANGED <<locks, events, stage, cl, others, buffer, open, main, tracked, output>>

\* data that is there already is not read again: another task left it
ReadOthersData(t) ==
    /\ Goto(t, "head", "process")
    /\ bContinue[cl[t]] /\ open[cl[t]] /\ bufferToProcess[cl[t]]
    /\ UNCHANGED <<locks, events, stage, cl, first, others, buffers, clients, main, history>>

\* "advance to next message", then read_handler and netUseMessage: a full buffer is drained
ParseMessage(t) ==
    LET c == cl[t] IN
    /\ pc[t] = "process" /\ open[c] /\ som[c] < eod[c]
    /\ som' = [som EXCEPT ![c] = @ + 1]
    /\ LET full == Append(buffer[t], <<c, som[c] + 1>>)
       IN  IF c \in OutClients
           THEN UNCHANGED <<buffer, decodeLock, pc>>
           ELSE /\ buffer' = [buffer EXCEPT ![t] = full]
                /\ IF Len(full) = Alloc
                   THEN Goto(t, "process", "track") /\ decodeLock' = Nobody
                   ELSE UNCHANGED <<pc, decodeLock>>
    /\ UNCHANGED <<trackLock, outputLock, events, stage, cl, first, others, activeClient, open,
                   eod, bufferToProcess, bContinue, discard, main, history>>

\* Fault: the client stays published as active.
ProcessEndsActive(t) ==
    /\ bufferToProcess' = [bufferToProcess EXCEPT ![cl[t]] = FALSE]
    /\ UNCHANGED activeClient

ProcessEnds(t) ==
    /\ bufferToProcess' = [bufferToProcess EXCEPT ![cl[t]] = FALSE]
    /\ activeClient' = [activeClient EXCEPT ![t] = Nobody]

\* everything is parsed; a garbage feed is closed
ParsedAll(t) ==
    LET c == cl[t] IN
    /\ pc[t] = "process" /\ open[c] /\ som[c] = eod[c]
    /\ ProcessEnds(t)
    /\ \/ /\ Goto(t, "process", "head")
          /\ first' = [first EXCEPT ![t] = FALSE]
          /\ UNCHANGED <<cl, open>>
       \/ /\ Goto(t, "process", "scan")
          /\ Return(t) /\ Close(c)
          /\ UNCHANGED first
    /\ UNCHANGED <<locks, events, stage, others, buffer, som, eod, bContinue, discard, main, history>>

\* processClient fails: the handler rejects a message, or another task closed the client
ProcessFails(t) ==
    LET c == cl[t] IN
    /\ Goto(t, "process", "scan")
    /\ ~open[c] \/ som[c] < eod[c]
    /\ ProcessEnds(t) /\ Return(t) /\ Close(c)
    /\ UNCHANGED <<locks, events, stage, first, others, buffer, som, eod, bContinue, discard,
                   main, history>>

ReadSteps(t) ==
    \/ LeaveClient(t) \/ ReadNothing(t) \/ ReadData(t) \/ ReadOthersData(t)
    \/ ParseMessage(t) \/ ParsedAll(t) \/ ProcessFails(t)

DrainSteps(t) ==
    \/ TakeTrackLock(t) \/ Track(t) \/ TakeOutputLockToDrain(t) \/ Output(t) \/ Relock(t)

TaskSteps(t) ==
    \/ TakeDecodeLock(t) \/ HandleEvent(t) \/ InputDone(t) \/ Steal(t) \/ StealDone(t)
    \/ TakeOutputLock(t) \/ OutputDone(t)

DecodeTask(t) == TaskSteps(t) \/ DrainSteps(t) \/ ReadSteps(t)

Next == MainSteps \/ \E t \in Tasks : DecodeTask(t)

Spec == Init /\ [][Next]_vars

\* Every thread keeps running.  A round's work is bounded (network_time_limit), so weak
\* fairness is enough: no task can be overtaken at a mutex for ever.
Fairness == WF_vars(MainSteps) /\ \A t \in Tasks : WF_vars(DecodeTask(t))

FairSpec == Spec /\ Fairness

-----------------------------------------------------------------------------
(* Properties *)

Messages == Clients \X (1..MaxSent)

\* The type of every variable.
TypeOK ==
    /\ decodeLock \in Tasks \union {Main, Nobody}
    /\ trackLock \in Tasks \union {Nobody} /\ outputLock \in Tasks \union {Nobody}
    /\ events \in SUBSET Clients
    /\ pc \in [Tasks -> {"start", "scan", "head", "process", "track", "tracking", "output",
                         "outputting", "relock", "done"}]
    /\ stage \in [Tasks -> {"in", "steal", "out"}]
    /\ cl \in [Tasks -> Clients \union {Nobody}]
    /\ first \in [Tasks -> BOOLEAN]
    /\ others \in [Tasks -> SUBSET Tasks]
    /\ buffer \in [Tasks -> Seq(Messages)] /\ \A t \in Tasks : Len(buffer[t]) <= Alloc
    /\ activeClient \in [Tasks -> Clients \union {Nobody}]
    /\ open \in [Clients -> BOOLEAN] /\ bufferToProcess \in [Clients -> BOOLEAN]
    /\ bContinue \in [Clients -> BOOLEAN] /\ discard \in [Clients -> BOOLEAN]
    /\ som \in [Clients -> 0..MaxSent] /\ eod \in [Clients -> 0..MaxSent]
    /\ mainpc \in {"demod", "drain", "relock", "net", "pool"}
    /\ kt \in 0..Cardinality(Tasks) /\ round \in 0..MaxRounds
    /\ tracked \in Seq(Messages) /\ output \in Seq(Messages) /\ dropped \in SUBSET Messages

Occurrences(m, seq) == Cardinality({i \in DOMAIN seq : seq[i] = m})

\* A message is tracked once and output once, after it was tracked, although two tasks may
\* take turns in parsing one client's data; parsing loses none.
DeliveredOnce ==
    \A c \in InClients, n \in 1..MaxSent :
        LET m == <<c, n>>
            held == \E t \in Tasks : \E i \in DOMAIN buffer[t] : buffer[t][i] = m
            times == Occurrences(m, tracked)
        IN  /\ times <= 1
            /\ Occurrences(m, output) <= times
            /\ ~held => times = Occurrences(m, output)
            /\ ~held /\ m \notin dropped => times = (IF n <= som[c] THEN 1 ELSE 0)

\* When the pool returns the message buffers are empty, nobody is published as active,
\* and no open client has data that was read and not parsed.
NothingLeftBehind ==
    mainpc # "pool" =>
        /\ \A t \in Tasks : buffer[t] = <<>> /\ activeClient[t] = Nobody
        /\ \A c \in Clients : open[c] => ~bufferToProcess[c] /\ som[c] = eod[c]

\* No message is lost, doubled or left behind by tasks that take over each other's client.
EveryMessageOnce == DeliveredOnce /\ NothingLeftBehind

Inside(t, group) == pc[t] = "process" /\ cl[t] \in group

\* "using locking each group can only be processed by one thread at a time": a task that
\* left a client of the input group to drain its buffer is back only with decodeLock.
InputExclusive ==
    \A t, u \in Tasks : Inside(t, InClients) /\ Inside(u, InClients) => t = u

\* The same for the output group.
OutputExclusive ==
    \A t, u \in Tasks : Inside(t, OutClients) /\ Inside(u, OutClients) => t = u

\* threadpool_run on the decode pool returns: the tasks never wait for each other, or for
\* Main, for ever.
PoolRunReturns == mainpc = "pool" ~> mainpc = "demod"

\* It does return when nobody left decodeLock locked before.
PoolRunReturnsUnlocked == mainpc = "pool" /\ decodeLock # Main ~> mainpc = "demod"

=============================================================================
