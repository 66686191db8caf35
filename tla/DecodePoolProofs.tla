-------------------------- MODULE DecodePoolProofs --------------------------
(***************************************************************************)
(* Safety of DecodePool.tla for every set of tasks and of clients, every   *)
(* size of a message buffer and any number of messages and rounds.         *)
(*                                                                         *)
(* Neither EveryMessageOnce nor InputExclusive is inductive.  The proofs   *)
(* add where a task may be and with which client (Places), who has         *)
(* decodeLock there (DecodeLocked), when a buffer is empty (Emptied),      *)
(* which task still owes the rest of a read (Unparsed), and what became of *)
(* each message that was parsed: it is in one buffer, or tracked, or       *)
(* discarded (Accounted).                                                  *)
(***************************************************************************)
EXTENDS DecodePool, FiniteSetTheorems, TLAPS

\* the control points of drainMessageBuffer: in the middle of a client, or with none
Draining == {"track", "tracking", "output", "outputting", "relock"}

\* Where a task may be, with which client.
Places ==
    \A t \in Tasks :
        /\ pc[t] \in {"head", "process"} => cl[t] \in Clients
        /\ pc[t] \in {"start", "scan", "done"} => cl[t] = Nobody
        /\ stage[t] = "out" => pc[t] \notin Draining /\ cl[t] \in OutClients \union {Nobody}

\* decodeLock is held by the task that walks the input clients.
DecodeLocked ==
    \A t \in Tasks :
        stage[t] # "out" /\ pc[t] \in {"scan", "head", "process"} => decodeLock = t

\* Main does not run beside the tasks.
MainAlone ==
    /\ mainpc # "pool" => \A t \in Tasks : pc[t] = "done"
    /\ mainpc = "relock" => kt > 0
    /\ mainpc \in {"drain", "relock", "net"} => round < MaxRounds

\* A buffer is drained before it is full, and at the end of the input group.
Emptied ==
    \A t \in Tasks :
        /\ pc[t] \notin Draining => Len(buffer[t]) < Alloc
        /\ pc[t] \in {"relock", "done"} \/ stage[t] = "out" => buffer[t] = <<>>

\* what ties the tasks to their clients, the lock and their buffers
Control == TypeOK /\ Places /\ DecodeLocked /\ MainAlone /\ Emptied

\* a task that still has to come back to the data of its client
Owes(t, c) == cl[t] = c /\ pc[t] \in {"process"} \union Draining

\* Data that is read and not parsed belongs to a task that comes back to it.
Unparsed ==
    /\ \A t \in Tasks : activeClient[t] # Nobody => \E c \in Clients : Owes(t, c)
    /\ \A c \in Clients :
          /\ som[c] <= eod[c]
          /\ open[c] /\ som[c] # eod[c] => bufferToProcess[c]
          /\ open[c] /\ bufferToProcess[c] => \E t \in Tasks : Owes(t, c)

Elements(seq) == {seq[i] : i \in DOMAIN seq}
Distinct(seq) == \A i, j \in DOMAIN seq : seq[i] = seq[j] => i = j

\* a task whose buffer is tracked and not yet output
HalfDrained(t) == pc[t] \in {"output", "outputting"}

\* Nothing is anywhere twice, and a buffer is tracked as a whole before it is output.
Once ==
    /\ Distinct(tracked) /\ Distinct(output) /\ Elements(output) \subseteq Elements(tracked)
    /\ \A t \in Tasks :
          /\ Distinct(buffer[t])
          /\ Elements(buffer[t]) \intersect Elements(output) = {}
          /\ HalfDrained(t) => Elements(buffer[t]) \subseteq Elements(tracked)
          /\ ~HalfDrained(t) => Elements(buffer[t]) \intersect Elements(tracked) = {}
    /\ \A t, u \in Tasks : t # u => Elements(buffer[t]) \intersect Elements(buffer[u]) = {}
    /\ \A m \in Elements(tracked) \ Elements(output) :
          \E t \in Tasks : HalfDrained(t) /\ m \in Elements(buffer[t])

Held == UNION {Elements(buffer[t]) : t \in Tasks}

\* A message of the input group is parsed when it is in a buffer or tracked, or else it was
\* discarded unparsed.
Accounted ==
    /\ \A c \in InClients, n \in 1..MaxSent :
          n <= som[c] <=> <<c, n>> \in Held \union Elements(tracked) \union dropped
    /\ dropped \intersect (Held \union Elements(tracked)) = {}
    /\ Held \union Elements(tracked) \subseteq InClients \X (1..MaxSent)

\* the inductive invariant
IInv == Control /\ Unparsed /\ Once /\ Accounted

-----------------------------------------------------------------------------
(* Sequences without repetition.                                           *)

\* What is in a concatenation; it repeats nothing if its parts have nothing in common.
LEMMA ConcatOnce ==
  ASSUME NEW S, NEW s \in Seq(S), NEW q \in Seq(S)
  PROVE  /\ s \o q \in Seq(S)
         /\ Elements(s \o q) = Elements(s) \union Elements(q)
         /\ Distinct(s) /\ Distinct(q) /\ Elements(s) \intersect Elements(q) = {}
               => Distinct(s \o q)
<1>1. /\ s \o q \in Seq(S) /\ DOMAIN (s \o q) = 1..(Len(s) + Len(q))
      /\ DOMAIN s = 1..Len(s) /\ DOMAIN q = 1..Len(q)
      /\ Len(s) \in Nat /\ Len(q) \in Nat
      /\ \A i \in 1..Len(s) : (s \o q)[i] = s[i]
      /\ \A i \in 1..Len(q) : (s \o q)[Len(s) + i] = q[i]
  OBVIOUS
<1>2. \A i \in DOMAIN (s \o q) : i \in 1..Len(s) \/ \E j \in 1..Len(q) : i = Len(s) + j
  <2>1. \A i \in 1..(Len(s) + Len(q)) : i \notin 1..Len(s) => i - Len(s) \in 1..Len(q) /\ i = Len(s) + (i - Len(s))
    BY <1>1
  <2>2. QED
    BY <1>1, <2>1
<1>3. Elements(s \o q) = Elements(s) \union Elements(q)
  <2>1. Elements(s \o q) \subseteq Elements(s) \union Elements(q)
    BY <1>1, <1>2 DEF Elements
  <2>2. Elements(s) \subseteq Elements(s \o q)
    BY <1>1 DEF Elements
  <2>3. Elements(q) \subseteq Elements(s \o q)
    <3>1. \A i \in 1..Len(q) : Len(s) + i \in DOMAIN (s \o q)
      BY <1>1
    <3>2. QED
      BY <1>1, <3>1 DEF Elements
  <2>4. QED
    BY <2>1, <2>2, <2>3
<1>4. ASSUME Distinct(s), Distinct(q), Elements(s) \intersect Elements(q) = {}
      PROVE  Distinct(s \o q)
  <2>1. SUFFICES ASSUME NEW i \in DOMAIN (s \o q), NEW j \in DOMAIN (s \o q), (s \o q)[i] = (s \o q)[j]
                 PROVE  i = j
    BY DEF Distinct
  <2>2. CASE i \in 1..Len(s) /\ j \in 1..Len(s)
    BY <1>1, <1>4, <2>1, <2>2 DEF Distinct
  <2>3. CASE i \in 1..Len(s) /\ j \notin 1..Len(s)
    <3>1. PICK k \in 1..Len(q) : j = Len(s) + k
      BY <1>2, <2>3
    <3>2. s[i] \in Elements(s) /\ q[k] \in Elements(q)
      BY <1>1, <2>3 DEF Elements
    <3>3. s[i] = q[k]
      BY <1>1, <2>1, <2>3, <3>1
    <3>4. QED
      BY <1>4, <3>2, <3>3
  <2>4. CASE i \notin 1..Len(s) /\ j \in 1..Len(s)
    <3>1. PICK k \in 1..Len(q) : i = Len(s) + k
      BY <1>2, <2>4
    <3>2. s[j] \in Elements(s) /\ q[k] \in Elements(q)
      BY <1>1, <2>4 DEF Elements
    <3>3. s[j] = q[k]
      BY <1>1, <2>1, <2>4, <3>1
    <3>4. QED
      BY <1>4, <3>2, <3>3
  <2>5. CASE i \notin 1..Len(s) /\ j \notin 1..Len(s)
    BY <1>1, <1>2, <1>4, <2>1, <2>5 DEF Distinct
  <2>6. QED
    BY <2>2, <2>3, <2>4, <2>5
<1>5. QED
  BY <1>1, <1>3, <1>4

\* The same for a message that is appended.
LEMMA AppendOnce ==
  ASSUME NEW S, NEW s \in Seq(S), NEW m \in S
  PROVE  /\ Append(s, m) \in Seq(S) /\ Len(Append(s, m)) = Len(s) + 1
         /\ Elements(Append(s, m)) = Elements(s) \union {m}
         /\ Distinct(s) /\ m \notin Elements(s) => Distinct(Append(s, m))
<1>1. /\ Append(s, m) \in Seq(S) /\ Len(s) \in Nat /\ Len(Append(s, m)) = Len(s) + 1
      /\ DOMAIN s = 1..Len(s) /\ DOMAIN Append(s, m) = 1..(Len(s) + 1)
      /\ \A i \in 1..Len(s) : Append(s, m)[i] = s[i]
      /\ Append(s, m)[Len(s) + 1] = m
  OBVIOUS
<1>2. DOMAIN Append(s, m) = DOMAIN s \union {Len(s) + 1}
  BY <1>1
<1>3. QED
  BY <1>1, <1>2 DEF Elements, Distinct

\* Occurrences counts 1 for what is in a sequence without repetition.
LEMMA OccursOnce ==
  ASSUME NEW S, NEW s \in Seq(S), Distinct(s), NEW m
  PROVE  Occurrences(m, s) = IF m \in Elements(s) THEN 1 ELSE 0
<1>1. CASE m \in Elements(s)
  <2>1. PICK i \in DOMAIN s : s[i] = m
    BY <1>1 DEF Elements
  <2>2. {j \in DOMAIN s : s[j] = m} = {i}
    BY <2>1 DEF Distinct
  <2>3. QED
    BY <1>1, <2>2, FS_Singleton DEF Occurrences
<1>2. CASE m \notin Elements(s)
  <2>1. {j \in DOMAIN s : s[j] = m} = {}
    BY <1>2 DEF Elements
  <2>2. QED
    BY <1>2, <2>1, FS_EmptySet DEF Occurrences
<1>3. QED
  BY <1>1, <1>2

-----------------------------------------------------------------------------
(* Where everybody is.                                                     *)

\* There are finitely many message buffers, and tasks.
LEMMA TasksFinite == Cardinality(Tasks) \in Nat
  BY DecodePoolAssumption, FS_CardinalityType

\* Initially all tasks are done and everything is empty.
LEMMA InitControl == Init => Control
<1>1. Init => TypeOK
  BY DecodePoolAssumption, TasksFinite DEF MainAlone, Init, TypeOK, Messages, Clients
<1>2. Init => Places /\ DecodeLocked /\ MainAlone /\ Emptied
  BY DecodePoolAssumption DEF Init, Places, DecodeLocked, MainAlone, Emptied
<1>3. QED
  BY <1>1, <1>2 DEF Control

\* modesReadFromClient begins, or not.
LEMMA ReadType ==
  ASSUME TypeOK, NEW t \in Tasks, NEW c \in Clients, Read(t, c)
  PROVE  (pc \in [Tasks -> {"start", "scan", "head", "process", "track", "tracking", "output",
                           "outputting", "relock", "done"}]
          /\ cl \in [Tasks -> Clients \union {Nobody}]
          /\ first \in [Tasks -> BOOLEAN] /\ bContinue \in [Clients -> BOOLEAN])'
<1>1. CASE open[c]
  BY <1>1 DEF Read, Goto, TypeOK
<1>2. CASE ~open[c]
  BY <1>2 DEF Read, TypeOK
<1>3. QED
  BY <1>1, <1>2

\* Every step preserves the types; the places are needed for the clients that are indexed.
LEMMA TypeStep ==
  ASSUME TypeOK, Places, MainAlone, Emptied, [Next]_vars
  PROVE  TypeOK'
<1> USE DecodePoolAssumption DEF TypeOK
<1>1. CASE Demodulate
  BY <1>1, TasksFinite DEF MainAlone, Demodulate, MainGoto, locks, task, buffers, clients, main,
     history
<1>2. CASE DemodUnlock
  BY <1>2, TasksFinite DEF MainAlone, DemodUnlock, MainGoto, locks, task, buffers, clients, main,
     history
<1>3. CASE DemodRelock
  BY <1>3, TasksFinite DEF MainAlone, DemodRelock, MainGoto, locks, task, buffers, clients, main,
     history
<1>4. CASE DemodEnd
  BY <1>4, TasksFinite DEF MainAlone, DemodEnd, MainGoto, locks, task, buffers, clients, main,
     history
<1>5. CASE EpollWait
  BY <1>5, TasksFinite DEF MainAlone, EpollWait, MainGoto, locks, task, buffers, clients, main,
     history
<1>6. CASE PoolReturns
  BY <1>6, TasksFinite DEF MainAlone, PoolReturns, MainGoto, locks, task, buffers, clients, main,
     history
<1>7. ASSUME NEW t \in Tasks, TakeDecodeLock(t)
      PROVE  TypeOK'
  BY <1>7 DEF TakeDecodeLock, Goto, Places, locks, task, buffers, clients, main, history
<1>8. ASSUME NEW t \in Tasks, HandleEvent(t)
      PROVE  TypeOK'
  <2>1. PICK c \in events \intersect Group(t) : events' = events \ {c} /\ Read(t, c)
    BY <1>8 DEF HandleEvent
  <2>2. c \in Clients
    BY <2>1
  <2>3. QED
    BY <1>8, <2>1, <2>2, ReadType DEF HandleEvent, locks, buffers, main, history
<1>9. ASSUME NEW t \in Tasks, InputDone(t)
      PROVE  TypeOK'
  BY <1>9 DEF InputDone, Goto, Places, locks, task, buffers, clients, main, history
<1>10. ASSUME NEW t \in Tasks, Steal(t)
      PROVE  TypeOK'
  <2>1. PICK k \in others[t] :
           /\ others' = [others EXCEPT ![t] = @ \ {k}]
           /\ IF activeClient[k] # Nobody THEN Read(t, activeClient[k])
                                          ELSE UNCHANGED <<pc, cl, first, bContinue>>
    BY <1>10 DEF Steal
  <2>2. k \in Tasks
    BY <2>1
  <2>3. CASE activeClient[k] # Nobody
    <3>1. activeClient[k] \in Clients /\ Read(t, activeClient[k])
      BY <2>1, <2>2, <2>3
    <3>2. QED
      BY <1>10, <2>1, <3>1, ReadType DEF Steal, locks, buffers, main, history
  <2>4. CASE activeClient[k] = Nobody
    BY <1>10, <2>1, <2>4 DEF Steal, locks, buffers, main, history
  <2>5. QED
    BY <2>3, <2>4
<1>11. ASSUME NEW t \in Tasks, StealDone(t)
      PROVE  TypeOK'
  BY <1>11 DEF StealDone, Goto, Places, locks, task, buffers, clients, main, history
<1>12. ASSUME NEW t \in Tasks, TakeOutputLock(t)
      PROVE  TypeOK'
  BY <1>12 DEF TakeOutputLock, Goto, Places, locks, task, buffers, clients, main, history
<1>13. ASSUME NEW t \in Tasks, OutputDone(t)
      PROVE  TypeOK'
  BY <1>13 DEF OutputDone, Goto, Places, locks, task, buffers, clients, main, history
<1>14. ASSUME NEW t \in Tasks, TakeTrackLock(t)
      PROVE  TypeOK'
  BY <1>14 DEF TakeTrackLock, Goto, Places, locks, task, buffers, clients, main, history
<1>15. ASSUME NEW t \in Tasks, Track(t)
      PROVE  TypeOK'
  BY <1>15 DEF Track, Goto, Places, locks, task, buffers, clients, main, history
<1>16. ASSUME NEW t \in Tasks, TakeOutputLockToDrain(t)
      PROVE  TypeOK'
  BY <1>16 DEF TakeOutputLockToDrain, Goto, Places, locks, task, buffers, clients, main, history
<1>17. ASSUME NEW t \in Tasks, Output(t)
      PROVE  TypeOK'
  BY <1>17 DEF Output, Goto, Places, locks, task, buffers, clients, main, history
<1>18. ASSUME NEW t \in Tasks, Relock(t)
      PROVE  TypeOK'
  <2>1. CASE cl[t] # Nobody
    BY <1>18, <2>1 DEF Relock, Goto, buffers, clients, main, history
  <2>2. CASE cl[t] = Nobody
    BY <1>18, <2>2 DEF Relock, Goto, buffers, clients, main, history
  <2>3. QED
    BY <2>1, <2>2
<1>19. ASSUME NEW t \in Tasks, LeaveClient(t)
      PROVE  TypeOK'
  BY <1>19 DEF LeaveClient, Goto, Return, Places, locks, task, buffers, clients, main, history
<1>20. ASSUME NEW t \in Tasks, ReadNothing(t)
      PROVE  TypeOK'
  <2>1. cl[t] \in Clients
    BY <1>20 DEF ReadNothing, Goto, Places
  <2>2. CASE Close(cl[t])
    BY <1>20, <2>1, <2>2 DEF ReadNothing, Goto, Return, Close, locks, buffers, main, history
  <2>3. CASE UNCHANGED open
    BY <1>20, <2>1, <2>3 DEF ReadNothing, Goto, Return, locks, buffers, main, history
  <2>4. QED
    BY <1>20, <2>2, <2>3 DEF ReadNothing
<1>21. ASSUME NEW t \in Tasks, ReadData(t)
      PROVE  TypeOK'
  <2> DEFINE c == cl[t]
  <2>1. c \in Clients
    BY <1>21 DEF ReadData, Places
  <2>2. PICK n \in 1..MaxRead :
           /\ eod[c] + n <= MaxSent
           /\ eod' = [eod EXCEPT ![c] = @ + n]
           /\ bContinue' = [bContinue EXCEPT ![c] = (n = MaxRead)]
           /\ \/ /\ Goto(t, "head", "process")
                 /\ bufferToProcess' = [bufferToProcess EXCEPT ![c] = TRUE]
                 /\ activeClient' = [activeClient EXCEPT ![t] = c]
                 /\ UNCHANGED <<som, discard, dropped, first>>
              \/ /\ discard' = [discard EXCEPT ![c] = TRUE]
                 /\ som' = [som EXCEPT ![c] = eod[c] + n]
                 /\ dropped' = dropped \union {<<c, m>> : m \in (som[c] + 1)..(eod[c] + n)}
                 /\ first' = [first EXCEPT ![t] = FALSE]
                 /\ UNCHANGED <<pc, bufferToProcess, activeClient>>
    BY <1>21 DEF ReadData
  <2>3. /\ eod[c] + n \in 0..MaxSent /\ (n = MaxRead) \in BOOLEAN
        /\ \A m \in (som[c] + 1)..(eod[c] + n) : m \in 1..MaxSent
    BY <2>1, <2>2
  <2>4. UNCHANGED <<locks, events, stage, cl, others, buffer, open, main, tracked, output>>
    BY <1>21 DEF ReadData
  <2>5. CASE Goto(t, "head", "process") /\ UNCHANGED <<som, discard, dropped, first>>
             /\ bufferToProcess' = [bufferToProcess EXCEPT ![c] = TRUE]
             /\ activeClient' = [activeClient EXCEPT ![t] = c]
    BY <2>1, <2>2, <2>3, <2>4, <2>5 DEF Goto, locks, main
  <2>6. CASE /\ discard' = [discard EXCEPT ![c] = TRUE]
             /\ som' = [som EXCEPT ![c] = eod[c] + n]
             /\ dropped' = dropped \union {<<c, m>> : m \in (som[c] + 1)..(eod[c] + n)}
             /\ first' = [first EXCEPT ![t] = FALSE]
             /\ UNCHANGED <<pc, bufferToProcess, activeClient>>
    <3>1. dropped' \in SUBSET Messages
      BY <2>1, <2>3, <2>6 DEF Messages
    <3>2. QED
      BY <2>1, <2>2, <2>3, <2>4, <2>6, <3>1 DEF locks, main
  <2>7. QED
    BY <2>2, <2>5, <2>6
<1>22. ASSUME NEW t \in Tasks, ReadOthersData(t)
      PROVE  TypeOK'
  BY <1>22 DEF ReadOthersData, Goto, Places, locks, task, buffers, clients, main, history
<1>23. ASSUME NEW t \in Tasks, ParseMessage(t)
      PROVE  TypeOK'
  <2> DEFINE c == cl[t]
             full == Append(buffer[t], <<c, som[c] + 1>>)
  <2>1. c \in Clients /\ som[c] + 1 \in 1..MaxSent /\ <<c, som[c] + 1>> \in Messages
    <3>1. c \in Clients
      BY <1>23 DEF ParseMessage, Places
    <3>2. som[c] < eod[c] /\ som[c] \in 0..MaxSent /\ eod[c] \in 0..MaxSent
      BY <1>23, <3>1 DEF ParseMessage
    <3>3. QED
      BY <3>1, <3>2 DEF Messages
  <2>2. full \in Seq(Messages) /\ Len(full) <= Alloc
    <3>1. Len(buffer[t]) < Alloc /\ Len(buffer[t]) \in Nat /\ Alloc \in Nat /\ buffer[t] \in Seq(Messages)
      <4>1. buffer[t] \in Seq(Messages) /\ Alloc \in Nat
        OBVIOUS
      <4>2. Len(buffer[t]) < Alloc
        BY <1>23 DEF ParseMessage, Emptied, Draining
      <4>3. QED
        BY <4>1, <4>2
    <3>2. full \in Seq(Messages) /\ Len(full) = Len(buffer[t]) + 1
      <4> HIDE DEF TypeOK
      <4>1. QED
        BY <2>1, <3>1, AppendOnce
    <3>3. QED
      BY <3>1, <3>2
  <2>3. /\ som' = [som EXCEPT ![c] = @ + 1]
        /\ UNCHANGED <<trackLock, outputLock, events, stage, cl, first, others, activeClient, open,
                       eod, bufferToProcess, bContinue, discard, main, history>>
    BY <1>23 DEF ParseMessage
  <2>4. buffer' \in [Tasks -> Seq(Messages)] /\ \A u \in Tasks : Len(buffer'[u]) <= Alloc
    <3>1. CASE UNCHANGED buffer
      BY <3>1
    <3>2. CASE buffer' = [buffer EXCEPT ![t] = full]
      BY <2>2, <3>2
    <3>3. QED
      BY <1>23, <3>1, <3>2 DEF ParseMessage
  <2>5. /\ pc' \in [Tasks -> {"start", "scan", "head", "process", "track", "tracking", "output",
                              "outputting", "relock", "done"}]
        /\ decodeLock' \in Tasks \union {Main, Nobody}
    <3>1. CASE UNCHANGED <<pc, decodeLock>>
      BY <3>1
    <3>2. CASE Goto(t, "process", "track") /\ decodeLock' = Nobody
      BY <3>2 DEF Goto
    <3>3. QED
      BY <1>23, <3>1, <3>2 DEF ParseMessage
  <2>6. som' \in [Clients -> 0..MaxSent]
    BY <2>1, <2>3
  <2>7. QED
    BY <2>3, <2>4, <2>5, <2>6 DEF main, history
<1>24. ASSUME NEW t \in Tasks, ParsedAll(t)
      PROVE  TypeOK'
  <2>1. cl[t] \in Clients
    BY <1>24 DEF ParsedAll, Places
  <2>2. CASE UNCHANGED <<cl, open>> /\ Goto(t, "process", "head") /\ first' = [first EXCEPT ![t] = FALSE]
    BY <1>24, <2>1, <2>2 DEF ParsedAll, ProcessEnds, Goto, locks, main, history
  <2>3. CASE Goto(t, "process", "scan") /\ Return(t) /\ Close(cl[t]) /\ UNCHANGED first
    BY <1>24, <2>1, <2>3 DEF ParsedAll, ProcessEnds, Goto, Return, Close, locks, main, history
  <2>4. QED
    BY <1>24, <2>2, <2>3 DEF ParsedAll
<1>25. ASSUME NEW t \in Tasks, ProcessFails(t)
      PROVE  TypeOK'
  BY <1>25 DEF ProcessFails, Goto, ProcessEnds, Return, Close, Places, locks, task, buffers,
     clients, main, history
<1>26. CASE UNCHANGED vars
  BY <1>26 DEF vars, locks, task, buffers, clients, main, history
<1>27. QED
  BY <1>1, <1>2, <1>3, <1>4, <1>5, <1>6, <1>7, <1>8, <1>9, <1>10, <1>11, <1>12, <1>13, <1>14,
     <1>15, <1>16, <1>17, <1>18, <1>19, <1>20, <1>21, <1>22, <1>23, <1>24, <1>25, <1>26 DEF Next,
     MainSteps, DecodeTask, TaskSteps, DrainSteps, ReadSteps


\* Every step leaves a task where it may be, the lock with the task that needs it, and a
\* buffer that is written to with room for one message.
LEMMA ControlStep ==
  ASSUME Control, [Next]_vars
  PROVE  Control'
<1> DEFINE Rest == Places /\ DecodeLocked /\ MainAlone /\ Emptied
<1> USE DecodePoolAssumption DEF Control
<1> SUFFICES Rest'
  BY TypeStep
<1>1. CASE Demodulate
  BY <1>1 DEF Demodulate, MainGoto, locks, task, buffers, main, TypeOK, Places, DecodeLocked,
     MainAlone, Emptied, Draining
<1>2. CASE DemodUnlock
  BY <1>2 DEF DemodUnlock, MainGoto, locks, task, buffers, main, TypeOK, Places, DecodeLocked,
     MainAlone, Emptied, Draining
<1>3. CASE DemodRelock
  BY <1>3 DEF DemodRelock, MainGoto, locks, task, buffers, main, TypeOK, Places, DecodeLocked,
     MainAlone, Emptied, Draining
<1>4. CASE DemodEnd
  BY <1>4 DEF DemodEnd, MainGoto, locks, task, buffers, main, TypeOK, Places, DecodeLocked,
     MainAlone, Emptied, Draining
<1>5. CASE EpollWait
  BY <1>5 DEF EpollWait, MainGoto, locks, task, buffers, main, TypeOK, Places, DecodeLocked,
     MainAlone, Emptied, Draining
<1>6. CASE PoolReturns
  BY <1>6 DEF PoolReturns, MainGoto, locks, task, buffers, main, TypeOK, Places, DecodeLocked,
     MainAlone, Emptied, Draining
<1>7. ASSUME NEW t \in Tasks, TakeDecodeLock(t)
      PROVE  Rest'
  BY <1>7 DEF TakeDecodeLock, Goto, Clients, locks, task, buffers, main, TypeOK, Places,
     DecodeLocked, MainAlone, Emptied, Draining
<1>8. ASSUME NEW t \in Tasks, HandleEvent(t)
      PROVE  Rest'
  <2>1. PICK c \in events \intersect Group(t) : Read(t, c)
    BY <1>8 DEF HandleEvent
  <2>2. /\ pc[t] = "scan" /\ stage[t] # "steal"
        /\ UNCHANGED <<locks, stage, others, buffers, main>>
    BY <1>8 DEF HandleEvent
  <2>3. CASE UNCHANGED <<pc, cl>>
    BY <2>2, <2>3 DEF Clients, locks, task, buffers, main, TypeOK, Places, DecodeLocked, MainAlone,
       Emptied, Draining
  <2>4. CASE Goto(t, "scan", "head") /\ cl' = [cl EXCEPT ![t] = c]
    <3>1. c \in Clients /\ (stage[t] = "out" => c \in OutClients)
      BY <2>1 DEF Group, TypeOK
    <3>2. QED
      BY <2>2, <2>4, <3>1 DEF Goto, Clients, locks, task, buffers, main, TypeOK, Places,
         DecodeLocked, MainAlone, Emptied, Draining
  <2>5. QED
    BY <2>1, <2>3, <2>4 DEF Read
<1>9. ASSUME NEW t \in Tasks, InputDone(t)
      PROVE  Rest'
  BY <1>9 DEF InputDone, Goto, Clients, locks, task, buffers, main, TypeOK, Places, DecodeLocked,
     MainAlone, Emptied, Draining
<1>10. ASSUME NEW t \in Tasks, Steal(t)
      PROVE  Rest'
  <2>1. PICK k \in others[t] : IF activeClient[k] # Nobody THEN Read(t, activeClient[k])
                              ELSE UNCHANGED <<pc, cl, first, bContinue>>
    BY <1>10 DEF Steal
  <2>2. pc[t] = "scan" /\ stage[t] = "steal" /\ UNCHANGED <<locks, stage, buffers, main>>
    BY <1>10 DEF Steal
  <2>3. CASE UNCHANGED <<pc, cl>>
    BY <2>2, <2>3 DEF Clients, locks, task, buffers, main, TypeOK, Places, DecodeLocked, MainAlone,
       Emptied, Draining
  <2>4. CASE /\ activeClient[k] # Nobody
             /\ Goto(t, "scan", "head") /\ cl' = [cl EXCEPT ![t] = activeClient[k]]
    <3>1. activeClient[k] \in Clients
      BY <2>1, <2>4 DEF TypeOK
    <3>2. QED
      BY <2>2, <2>4, <3>1 DEF Goto, Clients, locks, task, buffers, main, TypeOK, Places,
         DecodeLocked, MainAlone, Emptied, Draining
  <2>5. QED
    BY <2>1, <2>3, <2>4 DEF Read
<1>11. ASSUME NEW t \in Tasks, StealDone(t)
      PROVE  Rest'
  BY <1>11 DEF StealDone, Goto, Clients, locks, task, buffers, main, TypeOK, Places, DecodeLocked,
     MainAlone, Emptied, Draining
<1>12. ASSUME NEW t \in Tasks, TakeOutputLock(t)
      PROVE  Rest'
  BY <1>12 DEF TakeOutputLock, Goto, Clients, locks, task, buffers, main, TypeOK, Places,
     DecodeLocked, MainAlone, Emptied, Draining
<1>13. ASSUME NEW t \in Tasks, OutputDone(t)
      PROVE  Rest'
  BY <1>13 DEF OutputDone, Goto, Clients, locks, task, buffers, main, TypeOK, Places, DecodeLocked,
     MainAlone, Emptied, Draining
<1>14. ASSUME NEW t \in Tasks, TakeTrackLock(t)
      PROVE  Rest'
  BY <1>14 DEF TakeTrackLock, Goto, Clients, locks, task, buffers, main, TypeOK, Places,
     DecodeLocked, MainAlone, Emptied, Draining
<1>15. ASSUME NEW t \in Tasks, Track(t)
      PROVE  Rest'
  BY <1>15 DEF Track, Goto, Clients, locks, task, buffers, main, TypeOK, Places, DecodeLocked,
     MainAlone, Emptied, Draining
<1>16. ASSUME NEW t \in Tasks, TakeOutputLockToDrain(t)
      PROVE  Rest'
  BY <1>16 DEF TakeOutputLockToDrain, Goto, Clients, locks, task, buffers, main, TypeOK, Places,
     DecodeLocked, MainAlone, Emptied, Draining
<1>17. ASSUME NEW t \in Tasks, Output(t)
      PROVE  Rest'
  BY <1>17 DEF Output, Goto, Clients, locks, task, buffers, main, TypeOK, Places, DecodeLocked,
     MainAlone, Emptied, Draining
<1>18. ASSUME NEW t \in Tasks, Relock(t)
      PROVE  Rest'
  <2>1. UNCHANGED <<cl, buffer, mainpc, kt, round>> /\ pc[t] = "relock" /\ decodeLock = Nobody
    BY <1>18 DEF Relock, Goto, buffers, main
  <2>2. CASE cl[t] # Nobody
    <3>1. pc' = [pc EXCEPT ![t] = "process"] /\ decodeLock' = t /\ UNCHANGED stage
      BY <1>18, <2>2 DEF Relock, Goto
    <3>2. QED
      BY <2>1, <2>2, <3>1 DEF Clients, locks, task, buffers, main, TypeOK, Places, DecodeLocked,
         MainAlone, Emptied, Draining
  <2>3. CASE cl[t] = Nobody
    <3>1. pc' = [pc EXCEPT ![t] = "start"] /\ stage' = [stage EXCEPT ![t] = "out"]
          /\ UNCHANGED decodeLock
      BY <1>18, <2>3 DEF Relock, Goto
    <3>2. QED
      BY <2>1, <2>3, <3>1 DEF Clients, locks, task, buffers, main, TypeOK, Places, DecodeLocked,
         MainAlone, Emptied, Draining
  <2>4. QED
    BY <2>2, <2>3
<1>19. ASSUME NEW t \in Tasks, LeaveClient(t)
      PROVE  Rest'
  BY <1>19 DEF LeaveClient, Goto, Return, Clients, locks, task, buffers, main, TypeOK, Places,
     DecodeLocked, MainAlone, Emptied, Draining
<1>20. ASSUME NEW t \in Tasks, ReadNothing(t)
      PROVE  Rest'
  BY <1>20 DEF ReadNothing, Goto, Return, Clients, locks, task, buffers, main, TypeOK, Places,
     DecodeLocked, MainAlone, Emptied, Draining
<1>21. ASSUME NEW t \in Tasks, ReadData(t)
      PROVE  Rest'
  <2>1. pc[t] = "head" /\ UNCHANGED <<decodeLock, stage, cl, buffer, mainpc, kt, round>>
    BY <1>21 DEF ReadData, locks, main
  <2>2. CASE pc' = [pc EXCEPT ![t] = "process"]
    BY <2>1, <2>2 DEF TypeOK, Places, DecodeLocked, MainAlone, Emptied, Draining
  <2>3. CASE UNCHANGED pc
    BY <2>1, <2>3 DEF Places, DecodeLocked, MainAlone, Emptied
  <2>4. QED
    BY <1>21, <2>2, <2>3 DEF ReadData, Goto
<1>22. ASSUME NEW t \in Tasks, ReadOthersData(t)
      PROVE  Rest'
  BY <1>22 DEF ReadOthersData, Goto, Clients, locks, task, buffers, main, TypeOK, Places,
     DecodeLocked, MainAlone, Emptied, Draining
<1>23. ASSUME NEW t \in Tasks, ParseMessage(t)
      PROVE  Rest'
  <2>1. pc[t] = "process" /\ cl[t] \in Clients /\ UNCHANGED <<stage, cl, mainpc, kt, round>>
    BY <1>23 DEF ParseMessage, main, Places
  <2>2. CASE cl[t] \in OutClients
    <3>1. UNCHANGED <<buffer, decodeLock, pc>>
      BY <1>23, <2>2 DEF ParseMessage
    <3>2. QED
      BY <2>1, <3>1 DEF Clients, locks, task, buffers, main, TypeOK, Places, DecodeLocked,
         MainAlone, Emptied, Draining
  <2>3. CASE cl[t] \notin OutClients
    <3> DEFINE full == Append(buffer[t], <<cl[t], som[cl[t]] + 1>>)
    <3>1. stage[t] # "out" /\ decodeLock = t
      BY <2>1, <2>3 DEF Places, DecodeLocked, Clients
    <3>2. /\ buffer' = [buffer EXCEPT ![t] = full]
          /\ \/ Len(full) = Alloc /\ pc' = [pc EXCEPT ![t] = "track"] /\ decodeLock' = Nobody
             \/ Len(full) # Alloc /\ UNCHANGED <<pc, decodeLock>>
      BY <1>23, <2>3 DEF ParseMessage, Goto
    <3>3. Len(full) # Alloc => Len(full) < Alloc
      <4>1. Len(buffer'[t]) <= Alloc
        BY TypeStep DEF TypeOK
      <4>2. buffer'[t] = full /\ Len(full) \in Nat /\ Alloc \in Nat
        BY <3>2, TypeStep DEF TypeOK
      <4>3. QED
        BY <4>1, <4>2
    <3>4. CASE pc' = [pc EXCEPT ![t] = "track"] /\ decodeLock' = Nobody
      BY <2>1, <3>1, <3>2, <3>4 DEF TypeOK, Places, DecodeLocked, MainAlone, Emptied, Draining
    <3>5. CASE Len(full) < Alloc /\ UNCHANGED <<pc, decodeLock>>
      BY <2>1, <3>1, <3>2, <3>5 DEF TypeOK, Places, DecodeLocked, MainAlone, Emptied, Draining
    <3>6. QED
      BY <3>2, <3>3, <3>4, <3>5
  <2>4. QED
    BY <2>2, <2>3
<1>24. ASSUME NEW t \in Tasks, ParsedAll(t)
      PROVE  Rest'
  <2>1. pc[t] = "process" /\ UNCHANGED <<decodeLock, stage, buffer, mainpc, kt, round>>
    BY <1>24 DEF ParsedAll, locks, main
  <2>2. CASE pc' = [pc EXCEPT ![t] = "head"] /\ UNCHANGED cl
    BY <2>1, <2>2 DEF TypeOK, Places, DecodeLocked, MainAlone, Emptied, Draining
  <2>3. CASE pc' = [pc EXCEPT ![t] = "scan"] /\ cl' = [cl EXCEPT ![t] = Nobody]
    BY <2>1, <2>3 DEF TypeOK, Places, DecodeLocked, MainAlone, Emptied, Draining
  <2>4. QED
    BY <1>24, <2>2, <2>3 DEF ParsedAll, Goto, Return
<1>25. ASSUME NEW t \in Tasks, ProcessFails(t)
      PROVE  Rest'
  BY <1>25 DEF ProcessFails, Goto, Return, Clients, locks, task, buffers, main, TypeOK, Places,
     DecodeLocked, MainAlone, Emptied, Draining
<1>26. CASE UNCHANGED vars
  BY <1>26 DEF vars, locks, task, buffers, main, TypeOK, Places, DecodeLocked, MainAlone, Emptied,
     Draining
<1>27. QED
  BY <1>1, <1>2, <1>3, <1>4, <1>5, <1>6, <1>7, <1>8, <1>9, <1>10, <1>11, <1>12, <1>13, <1>14,
     <1>15, <1>16, <1>17, <1>18, <1>19, <1>20, <1>21, <1>22, <1>23, <1>24, <1>25, <1>26 DEF Next,
     MainSteps, DecodeTask, TaskSteps, DrainSteps, ReadSteps

-----------------------------------------------------------------------------
(* Data that was read.                                                     *)

\* a step after which a task that owes the rest of a client's data still does, while the
\* data stays as it is
KeepsData ==
    /\ \A u \in Tasks, c \in Clients : Owes(u, c) => Owes(u, c)'
    /\ \A c \in Clients : open'[c] => open[c]
    /\ UNCHANGED <<activeClient, som, eod, bufferToProcess>>

\* A step that does not read or parse keeps what is known of the unparsed bytes.
LEMMA KeepsUnparsed ==
  ASSUME Unparsed, KeepsData
  PROVE  Unparsed'
BY DEF Unparsed, KeepsData

\* Initially nothing is read.
LEMMA InitUnparsed == Init => Unparsed
  BY DecodePoolAssumption DEF Init, Unparsed

\* Whoever reads data comes back to it, or closes the client, or another one does.
LEMMA UnparsedStep ==
  ASSUME Control, Unparsed, [Next]_vars
  PROVE  Unparsed'
<1> USE DecodePoolAssumption DEF Control
<1>1. CASE Demodulate
  BY <1>1, KeepsUnparsed DEF Demodulate, task, buffers, clients, KeepsData, Owes
<1>2. CASE DemodUnlock
  BY <1>2, KeepsUnparsed DEF DemodUnlock, task, buffers, clients, KeepsData, Owes
<1>3. CASE DemodRelock
  BY <1>3, KeepsUnparsed DEF DemodRelock, task, buffers, clients, KeepsData, Owes
<1>4. CASE DemodEnd
  BY <1>4, KeepsUnparsed DEF DemodEnd, task, buffers, clients, KeepsData, Owes
<1>5. CASE PoolReturns
  BY <1>5, KeepsUnparsed DEF PoolReturns, task, buffers, clients, KeepsData, Owes
<1>6. CASE EpollWait
  <2>1. \A u \in Tasks : pc[u] = "done"
    BY <1>6 DEF EpollWait, MainGoto, MainAlone
  <2>2. KeepsData
    BY <1>6, <2>1 DEF EpollWait, buffers, clients, KeepsData, Owes, Draining
  <2>3. QED
    BY <2>2, KeepsUnparsed
<1>7. ASSUME NEW t \in Tasks, TakeDecodeLock(t)
      PROVE  Unparsed'
  BY <1>7, KeepsUnparsed DEF TakeDecodeLock, Goto, buffers, clients, KeepsData, Owes, Draining,
     Places, TypeOK
<1>8. ASSUME NEW t \in Tasks, HandleEvent(t)
      PROVE  Unparsed'
  BY <1>8, KeepsUnparsed DEF HandleEvent, Goto, Read, buffers, clients, KeepsData, Owes, Draining,
     Places, TypeOK
<1>9. ASSUME NEW t \in Tasks, InputDone(t)
      PROVE  Unparsed'
  BY <1>9, KeepsUnparsed DEF InputDone, Goto, buffers, clients, KeepsData, Owes, Draining, Places,
     TypeOK
<1>10. ASSUME NEW t \in Tasks, Steal(t)
      PROVE  Unparsed'
  BY <1>10, KeepsUnparsed DEF Steal, Goto, Read, buffers, clients, KeepsData, Owes, Draining,
     Places, TypeOK
<1>11. ASSUME NEW t \in Tasks, StealDone(t)
      PROVE  Unparsed'
  BY <1>11, KeepsUnparsed DEF StealDone, Goto, buffers, clients, KeepsData, Owes, Draining, Places,
     TypeOK
<1>12. ASSUME NEW t \in Tasks, TakeOutputLock(t)
      PROVE  Unparsed'
  BY <1>12, KeepsUnparsed DEF TakeOutputLock, Goto, buffers, clients, KeepsData, Owes, Draining,
     Places, TypeOK
<1>13. ASSUME NEW t \in Tasks, OutputDone(t)
      PROVE  Unparsed'
  BY <1>13, KeepsUnparsed DEF OutputDone, Goto, buffers, clients, KeepsData, Owes, Draining,
     Places, TypeOK
<1>14. ASSUME NEW t \in Tasks, TakeTrackLock(t)
      PROVE  Unparsed'
  BY <1>14, KeepsUnparsed DEF TakeTrackLock, Goto, buffers, clients, KeepsData, Owes, Draining,
     Places, TypeOK
<1>15. ASSUME NEW t \in Tasks, Track(t)
      PROVE  Unparsed'
  BY <1>15, KeepsUnparsed DEF Track, Goto, buffers, clients, KeepsData, Owes, Draining, Places,
     TypeOK
<1>16. ASSUME NEW t \in Tasks, TakeOutputLockToDrain(t)
      PROVE  Unparsed'
  BY <1>16, KeepsUnparsed DEF TakeOutputLockToDrain, Goto, buffers, clients, KeepsData, Owes,
     Draining, Places, TypeOK
<1>17. ASSUME NEW t \in Tasks, Output(t)
      PROVE  Unparsed'
  BY <1>17, KeepsUnparsed DEF Output, Goto, buffers, clients, KeepsData, Owes, Draining, Places,
     TypeOK
<1>18. ASSUME NEW t \in Tasks, Relock(t)
      PROVE  Unparsed'
  BY <1>18, KeepsUnparsed DEF Relock, Goto, buffers, clients, KeepsData, Owes, Draining, Places,
     TypeOK
<1>19. ASSUME NEW t \in Tasks, LeaveClient(t)
      PROVE  Unparsed'
  BY <1>19, KeepsUnparsed DEF LeaveClient, Goto, Return, buffers, clients, KeepsData, Owes,
     Draining, Places, TypeOK
<1>20. ASSUME NEW t \in Tasks, ReadNothing(t)
      PROVE  Unparsed'
  <2>1. /\ pc[t] = "head" /\ pc' = [pc EXCEPT ![t] = "scan"] /\ cl' = [cl EXCEPT ![t] = Nobody]
        /\ UNCHANGED <<activeClient, som, eod, bufferToProcess>>
    BY <1>20 DEF ReadNothing, Goto, Return, buffers
  <2>2. \A c \in Clients : open'[c] => open[c]
    BY <1>20 DEF ReadNothing, Close, TypeOK
  <2>3. KeepsData
    BY <2>1, <2>2 DEF KeepsData, Owes, Draining, TypeOK
  <2>4. QED
    BY <2>3, KeepsUnparsed
<1>21. ASSUME NEW t \in Tasks, ReadOthersData(t)
      PROVE  Unparsed'
  BY <1>21, KeepsUnparsed DEF ReadOthersData, Goto, buffers, clients, KeepsData, Owes, Draining,
     Places, TypeOK
<1>22. ASSUME NEW t \in Tasks, ReadData(t)
      PROVE  Unparsed'
  <2> DEFINE c == cl[t]
  <2>1. /\ c \in Clients /\ pc[t] = "head" /\ open[c] /\ ~bufferToProcess[c]
        /\ UNCHANGED <<open, cl>> /\ som[c] = eod[c]
    BY <1>22 DEF ReadData, Places, Unparsed
  <2>2. CASE /\ pc' = [pc EXCEPT ![t] = "process"]
             /\ bufferToProcess' = [bufferToProcess EXCEPT ![c] = TRUE]
             /\ activeClient' = [activeClient EXCEPT ![t] = c]
             /\ UNCHANGED som
    <3>1. PICK n \in 1..MaxRead : eod' = [eod EXCEPT ![c] = @ + n]
      BY <1>22 DEF ReadData
    <3>2. Owes(t, c)' /\ \A u \in Tasks, d \in Clients : Owes(u, d) => Owes(u, d)'
      BY <2>1, <2>2 DEF Owes, Draining, TypeOK
    <3>3. \A d \in Clients : som'[d] <= eod'[d] /\ (d # c => eod'[d] = eod[d])
      BY <2>2, <3>1 DEF Unparsed, TypeOK
    <3>4. /\ \A d \in Clients : bufferToProcess'[d] = (d = c \/ bufferToProcess[d])
          /\ \A u \in Tasks : activeClient'[u] = IF u = t THEN c ELSE activeClient[u]
      BY <2>1, <2>2 DEF TypeOK
    <3>5. \A u \in Tasks : activeClient'[u] # Nobody => \E d \in Clients : Owes(u, d)'
      BY <2>1, <3>2, <3>4 DEF Unparsed
    <3>6. \A d \in Clients :
             /\ open'[d] /\ som'[d] # eod'[d] => bufferToProcess'[d]
             /\ open'[d] /\ bufferToProcess'[d] => \E u \in Tasks : Owes(u, d)'
      BY <2>1, <2>2, <3>2, <3>3, <3>4 DEF Unparsed
    <3>7. QED
      BY <3>3, <3>5, <3>6 DEF Unparsed
  <2>3. CASE UNCHANGED <<pc, bufferToProcess, activeClient>>
    <3>1. PICK n \in 1..MaxRead : /\ eod' = [eod EXCEPT ![c] = @ + n]
                                 /\ som' = [som EXCEPT ![c] = eod[c] + n]
      BY <1>22, <2>1, <2>3 DEF ReadData, Goto, TypeOK
    <3>2. \A d \in Clients : IF d = c THEN som'[d] = eod'[d] /\ eod'[d] \in Int
                             ELSE som'[d] = som[d] /\ eod'[d] = eod[d]
      BY <2>1, <3>1 DEF TypeOK
    <3>3. \A u \in Tasks, d \in Clients : Owes(u, d) <=> Owes(u, d)'
      BY <2>1, <2>3 DEF Owes
    <3>4. QED
      BY <2>1, <2>3, <3>2, <3>3 DEF Unparsed
  <2>4. QED
    BY <1>22, <2>2, <2>3 DEF ReadData, Goto
<1>23. ASSUME NEW t \in Tasks, ParseMessage(t)
      PROVE  Unparsed'
  <2> DEFINE c == cl[t]
  <2>1. /\ c \in Clients /\ som[c] < eod[c] /\ som' = [som EXCEPT ![c] = @ + 1]
        /\ pc[t] = "process" /\ UNCHANGED <<cl, open, eod, bufferToProcess, activeClient>>
    BY <1>23 DEF ParseMessage, Places
  <2>2. pc' = [pc EXCEPT ![t] = "track"] \/ UNCHANGED pc
    BY <1>23 DEF ParseMessage, Goto
  <2>3. \A u \in Tasks, d \in Clients : Owes(u, d) => Owes(u, d)'
    BY <2>1, <2>2 DEF Owes, Draining, TypeOK
  <2>4. \A d \in Clients : som'[d] <= eod[d] /\ (som'[d] # eod[d] => som[d] # eod[d])
    BY <2>1 DEF Unparsed, TypeOK
  <2>5. QED
    BY <2>1, <2>3, <2>4 DEF Unparsed
<1>24. ASSUME NEW t \in Tasks, ParsedAll(t)
      PROVE  Unparsed'
  <2> DEFINE c == cl[t]
  <2>1. /\ c \in Clients /\ som[c] = eod[c] /\ pc[t] = "process"
        /\ bufferToProcess' = [bufferToProcess EXCEPT ![c] = FALSE]
        /\ activeClient' = [activeClient EXCEPT ![t] = Nobody]
        /\ UNCHANGED <<som, eod>>
    BY <1>24 DEF ParsedAll, ProcessEnds, Places
  <2>2. \A d \in Clients : open'[d] => open[d]
    BY <1>24 DEF ParsedAll, Close, TypeOK
  <2>3. \A u \in Tasks, d \in Clients : u # t /\ Owes(u, d) => Owes(u, d)'
    BY <1>24 DEF ParsedAll, Goto, Return, Owes, TypeOK
  <2>4. \A d \in Clients : IF d = c THEN ~bufferToProcess'[d] ELSE bufferToProcess'[d] = bufferToProcess[d]
    BY <2>1 DEF TypeOK
  <2>5. \A u \in Tasks : activeClient'[u] # Nobody => u # t /\ activeClient[u] # Nobody
    BY <2>1 DEF TypeOK
  <2>6. \A d \in Clients : d # c => ~Owes(t, d)
    BY DEF Owes
  <2>7. QED
    BY <2>1, <2>2, <2>3, <2>4, <2>5, <2>6 DEF Unparsed
<1>25. ASSUME NEW t \in Tasks, ProcessFails(t)
      PROVE  Unparsed'
  BY <1>25 DEF ProcessFails, Goto, ProcessEnds, Return, Close, Owes, Draining, Places, TypeOK,
     Unparsed
<1>26. CASE UNCHANGED vars
  BY <1>26, KeepsUnparsed DEF vars, task, buffers, clients, KeepsData, Owes
<1>27. QED
  BY <1>1, <1>2, <1>3, <1>4, <1>5, <1>6, <1>7, <1>8, <1>9, <1>10, <1>11, <1>12, <1>13, <1>14,
     <1>15, <1>16, <1>17, <1>18, <1>19, <1>20, <1>21, <1>22, <1>23, <1>24, <1>25, <1>26 DEF Next,
     MainSteps, DecodeTask, TaskSteps, DrainSteps, ReadSteps

-----------------------------------------------------------------------------
(* What becomes of a message.                                              *)

\* a step that moves no message
MessagesStay ==
    /\ UNCHANGED <<buffer, tracked, output, dropped, som>>
    /\ \A u \in Tasks : HalfDrained(u)' <=> HalfDrained(u)

\* A step that moves no message keeps every message in its one place.
LEMMA StayingMessages ==
  ASSUME Once, Accounted, MessagesStay
  PROVE  Once' /\ Accounted'
<1>1. Once'
  BY DEF Once, MessagesStay
<1>2. Accounted'
  BY DEF Accounted, MessagesStay, Held
<1>3. QED
  BY <1>1, <1>2

\* Initially there are no messages.
LEMMA InitMessages == Init => Once /\ Accounted
<1> SUFFICES ASSUME Init
             PROVE  Once /\ Accounted
  OBVIOUS
<1>1. /\ Elements(tracked) = {} /\ Elements(output) = {} /\ Distinct(tracked) /\ Distinct(output)
      /\ \A t \in Tasks : Elements(buffer[t]) = {} /\ Distinct(buffer[t])
  BY DEF Init, Elements, Distinct
<1>2. Once
  BY <1>1 DEF Once
<1>3. Accounted
  <2>1. Held = {} /\ dropped = {} /\ Elements(tracked) = {}
    BY <1>1 DEF Held, Init
  <2>2. \A c \in InClients : som[c] = 0
    BY DEF Init, Clients
  <2>3. QED
    BY <1>1, <2>1, <2>2, DecodePoolAssumption DEF Accounted
<1>4. QED
  BY <1>2, <1>3

\* A message that is parsed is a new one, and goes into one buffer.
LEMMA ParseMessages ==
  ASSUME Control, Unparsed, Once, Accounted, NEW t \in Tasks, ParseMessage(t)
  PROVE  Once' /\ Accounted'
<1> DEFINE c == cl[t]
           m == <<c, som[c] + 1>>
<1>1. /\ c \in Clients /\ pc[t] = "process" /\ som[c] < eod[c]
      /\ som' = [som EXCEPT ![c] = @ + 1] /\ UNCHANGED <<tracked, output, dropped>>
  BY DEF ParseMessage, Control, Places, history
<1>2. som[c] \in 0..MaxSent /\ som[c] + 1 \in 1..MaxSent
  BY <1>1, DecodePoolAssumption DEF Control, TypeOK
<1>3. \A u \in Tasks : HalfDrained(u)' <=> HalfDrained(u)
  BY <1>1 DEF ParseMessage, Goto, HalfDrained, Control, TypeOK
<1>4. ~HalfDrained(t)
  BY <1>1 DEF HalfDrained
<1>5. CASE c \in OutClients
  <2>1. UNCHANGED buffer
    BY <1>5 DEF ParseMessage
  <2>2. Once'
    BY <1>1, <1>3, <2>1 DEF Once
  <2>3. \A d \in InClients : som'[d] = som[d]
    BY <1>1, <1>5, DecodePoolAssumption DEF Control, TypeOK, Clients
  <2>4. Accounted'
    BY <1>1, <2>1, <2>3 DEF Accounted, Held
  <2>5. QED
    BY <2>2, <2>4
<1>6. CASE c \notin OutClients
  <2>1. c \in InClients /\ m \in Messages
    BY <1>1, <1>2, <1>6 DEF Clients, Messages
  <2>2. buffer' = [buffer EXCEPT ![t] = Append(buffer[t], m)]
    BY <1>6 DEF ParseMessage
  <2>3. m \notin Held \union Elements(tracked) \union dropped
    BY <1>2, <2>1 DEF Accounted
  <2>4. buffer[t] \in Seq(Messages) /\ m \notin Elements(buffer[t])
    BY <2>3 DEF Held, Control, TypeOK
  <2>5. /\ Elements(buffer'[t]) = Elements(buffer[t]) \union {m}
        /\ Distinct(buffer'[t])
        /\ \A u \in Tasks : u # t => buffer'[u] = buffer[u]
    <3>1. buffer'[t] = Append(buffer[t], m) /\ \A u \in Tasks : u # t => buffer'[u] = buffer[u]
      BY <2>2 DEF Control, TypeOK
    <3>2. Distinct(buffer[t])
      BY DEF Once
    <3>3. QED
      BY <2>1, <2>4, <3>1, <3>2, AppendOnce
  <2>6. \A u \in Tasks : m \notin Elements(buffer[u])
    BY <2>3 DEF Held
  <2>7. m \notin Elements(tracked) /\ m \notin Elements(output)
    BY <2>3 DEF Once
  <2>8. Once'
    BY <1>1, <1>3, <1>4, <2>5, <2>6, <2>7 DEF Once
  <2>9. Held' = Held \union {m}
    BY <2>5 DEF Held
  <2>10. Accounted'
    <3>1. \A d \in InClients : som'[d] = IF d = c THEN som[c] + 1 ELSE som[d]
      BY <1>1 DEF Control, TypeOK, Clients
    <3>2. \A d \in InClients, n \in 1..MaxSent :
             <<d, n>> \in Held' \union Elements(tracked)' \union dropped'
                <=> <<d, n>> \in Held \union Elements(tracked) \union dropped \/ (d = c /\ n = som[c] + 1)
      BY <1>1, <2>9
    <3>3. \A n \in 1..MaxSent : n <= som[c] + 1 <=> n <= som[c] \/ n = som[c] + 1
      BY <1>2
    <3>4. Held' \union Elements(tracked)' \subseteq InClients \X (1..MaxSent)
      BY <1>1, <1>2, <2>1, <2>9 DEF Accounted
    <3>5. QED
      BY <1>1, <2>3, <2>9, <3>1, <3>2, <3>3, <3>4 DEF Accounted
  <2>11. QED
    BY <2>8, <2>10
<1>7. QED
  BY <1>5, <1>6

\* What is read and discarded has not been parsed.
LEMMA DiscardMessages ==
  ASSUME Control, Unparsed, Once, Accounted, NEW t \in Tasks, ReadData(t)
  PROVE  Once' /\ Accounted'
<1> DEFINE c == cl[t]
<1>1. /\ c \in Clients /\ pc[t] = "head" /\ open[c] /\ ~bufferToProcess[c]
      /\ UNCHANGED <<buffer, tracked, output>> /\ som[c] = eod[c]
  BY DEF ReadData, Control, Places, Unparsed
<1>2. \A u \in Tasks : HalfDrained(u)' <=> HalfDrained(u)
  BY <1>1 DEF ReadData, Goto, HalfDrained, Control, TypeOK
<1>3. Once'
  BY <1>1, <1>2 DEF Once
<1>4. CASE UNCHANGED <<som, dropped>>
  BY <1>1, <1>2, <1>4, StayingMessages DEF MessagesStay
<1>5. ASSUME NEW n \in 1..MaxRead, eod[c] + n <= MaxSent,
             som' = [som EXCEPT ![c] = eod[c] + n],
             dropped' = dropped \union {<<c, k>> : k \in (som[c] + 1)..(eod[c] + n)}
      PROVE  Accounted'
  <2>1. som[c] \in 0..MaxSent /\ n \in Nat /\ som[c] + n <= MaxSent
    BY <1>1, <1>5 DEF Control, TypeOK
  <2>2. \A d \in InClients : som'[d] = IF d = c THEN som[c] + n ELSE som[d]
    BY <1>1, <1>5 DEF Control, TypeOK, Clients
  <2>3. \A d \in InClients, k \in 1..MaxSent :
           <<d, k>> \in dropped' <=> <<d, k>> \in dropped \/ (d = c /\ k > som[c] /\ k <= som[c] + n)
    BY <1>1, <1>5, <2>1
  <2>4. Held' = Held
    BY <1>1 DEF Held
  <2>5. \A d \in InClients, k \in 1..MaxSent :
           k <= som'[d] <=> <<d, k>> \in Held' \union Elements(tracked)' \union dropped'
    <3>1. SUFFICES ASSUME NEW d \in InClients, NEW k \in 1..MaxSent
                   PROVE  k <= som'[d] <=> <<d, k>> \in Held \union Elements(tracked) \union dropped'
      BY <1>1, <2>4
    <3>2. k <= som[d] <=> <<d, k>> \in Held \union Elements(tracked) \union dropped
      BY DEF Accounted
    <3>3. CASE d = c
      <4>1. k <= som[c] + n <=> k <= som[c] \/ (k > som[c] /\ k <= som[c] + n)
        BY <2>1
      <4>2. QED
        BY <2>2, <2>3, <3>2, <3>3, <4>1
    <3>4. CASE d # c
      BY <2>2, <2>3, <3>2, <3>4
    <3>5. QED
      BY <3>3, <3>4
  <2>6. dropped' \intersect (Held \union Elements(tracked)) = {}
    <3>1. SUFFICES ASSUME NEW k \in (som[c] + 1)..(eod[c] + n), <<c, k>> \in Held \union Elements(tracked)
                   PROVE  FALSE
      BY <1>5 DEF Accounted
    <3>2. c \in InClients /\ k \in 1..MaxSent /\ ~(k <= som[c])
      BY <1>1, <2>1, <3>1 DEF Accounted
    <3>3. QED
      BY <3>1, <3>2 DEF Accounted
  <2>7. QED
    BY <1>1, <2>4, <2>5, <2>6 DEF Accounted
<1>6. QED
  BY <1>3, <1>4, <1>5 DEF ReadData

\* trackUpdateFromMessage for a whole buffer: it was not tracked before.
LEMMA TrackMessages ==
  ASSUME Control, Once, Accounted, NEW t \in Tasks, Track(t)
  PROVE  Once' /\ Accounted'
<1>1. /\ pc[t] = "tracking" /\ pc' = [pc EXCEPT ![t] = "output"]
      /\ tracked' = tracked \o buffer[t]
      /\ UNCHANGED <<buffer, output, dropped, som>>
  BY DEF Track, Goto, buffers, clients
<1>2. HalfDrained(t)' /\ ~HalfDrained(t)
      /\ \A u \in Tasks : u # t => (HalfDrained(u)' <=> HalfDrained(u))
  BY <1>1 DEF HalfDrained, Control, TypeOK
<1>3. /\ Elements(tracked') = Elements(tracked) \union Elements(buffer[t])
      /\ Distinct(tracked')
  <2>1. tracked \in Seq(Messages) /\ buffer[t] \in Seq(Messages)
    BY DEF Control, TypeOK
  <2>2. Distinct(tracked) /\ Distinct(buffer[t]) /\ Elements(tracked) \intersect Elements(buffer[t]) = {}
    BY <1>2 DEF Once
  <2>3. QED
    BY <1>1, <2>1, <2>2, ConcatOnce
<1>4. Once'
  <2>1. \A u \in Tasks : u # t /\ ~HalfDrained(u) => Elements(buffer[u]) \intersect Elements(tracked') = {}
    BY <1>3 DEF Once
  <2>2. \A m \in Elements(tracked') \ Elements(output) :
           \E u \in Tasks : HalfDrained(u)' /\ m \in Elements(buffer[u])
    BY <1>2, <1>3 DEF Once
  <2>3. QED
    BY <1>1, <1>2, <1>3, <2>1, <2>2 DEF Once
<1>5. Accounted'
  <2>1. Held' = Held /\ Elements(buffer[t]) \subseteq Held
    BY <1>1 DEF Held
  <2>2. QED
    BY <1>1, <1>3, <2>1 DEF Accounted
<1>6. QED
  BY <1>4, <1>5

\* outputMessage for a whole buffer: it was tracked, and is empty then.
LEMMA OutputMessages ==
  ASSUME Control, Once, Accounted, NEW t \in Tasks, Output(t)
  PROVE  Once' /\ Accounted'
<1>1. /\ pc[t] = "outputting" /\ pc' = [pc EXCEPT ![t] = "relock"]
      /\ output' = output \o buffer[t] /\ buffer' = [buffer EXCEPT ![t] = <<>>]
      /\ UNCHANGED <<tracked, dropped, som>>
  BY DEF Output, Goto, clients
<1>2. HalfDrained(t) /\ ~HalfDrained(t)'
      /\ \A u \in Tasks : u # t => (HalfDrained(u)' <=> HalfDrained(u))
  BY <1>1 DEF HalfDrained, Control, TypeOK
<1>3. /\ Elements(output') = Elements(output) \union Elements(buffer[t])
      /\ Distinct(output')
  <2>1. output \in Seq(Messages) /\ buffer[t] \in Seq(Messages)
    BY DEF Control, TypeOK
  <2>2. Distinct(output) /\ Distinct(buffer[t]) /\ Elements(output) \intersect Elements(buffer[t]) = {}
    BY DEF Once
  <2>3. QED
    BY <1>1, <2>1, <2>2, ConcatOnce
<1>4. /\ Elements(buffer'[t]) = {} /\ Distinct(buffer'[t])
      /\ \A u \in Tasks : u # t => buffer'[u] = buffer[u]
  BY <1>1 DEF Control, TypeOK, Elements, Distinct
<1>5. Elements(buffer[t]) \subseteq Elements(tracked)
  BY <1>2 DEF Once
<1>6. Once'
  <2>1. \A u \in Tasks : u # t => Elements(buffer[u]) \intersect Elements(output') = {}
    BY <1>3 DEF Once
  <2>2. Elements(output') \subseteq Elements(tracked)
    BY <1>3, <1>5 DEF Once
  <2>3. \A m \in Elements(tracked) \ Elements(output') :
           \E u \in Tasks : HalfDrained(u)' /\ m \in Elements(buffer'[u])
    BY <1>2, <1>3, <1>4 DEF Once
  <2>4. /\ Distinct(buffer[t]')
        /\ Elements(buffer[t]') = {}
        /\ \A u \in Tasks : u # t => buffer[u]' = buffer[u]
    BY <1>4
  <2>5. ASSUME NEW u \in Tasks
        PROVE  /\ Distinct(buffer[u]')
               /\ Elements(buffer[u]') \intersect Elements(output') = {}
               /\ HalfDrained(u)' => Elements(buffer[u]') \subseteq Elements(tracked)
               /\ ~HalfDrained(u)' => Elements(buffer[u]') \intersect Elements(tracked) = {}
    <3>1. CASE u = t
      BY <2>4, <3>1, <1>2
    <3>2. CASE u # t
      BY <1>2, <2>1, <2>4, <3>2 DEF Once
    <3>3. QED
      BY <3>1, <3>2
  <2>6. ASSUME NEW u \in Tasks, NEW v \in Tasks, u # v
        PROVE  Elements(buffer[u]') \intersect Elements(buffer[v]') = {}
    <3>1. CASE u = t \/ v = t
      BY <2>4, <3>1
    <3>2. CASE u # t /\ v # t
      BY <2>4, <2>6, <3>2 DEF Once
    <3>3. QED
      BY <3>1, <3>2
  <2>7. Distinct(tracked)
    BY DEF Once
  <2>8. QED
    BY <1>1, <1>3, <2>2, <2>3, <2>5, <2>6, <2>7 DEF Once
<1>7. Accounted'
  <2>1. Held = Held' \union Elements(buffer[t])
    BY <1>4 DEF Held
  <2>2. Held' \union Elements(tracked)' = Held \union Elements(tracked)
    BY <1>1, <1>5, <2>1
  <2>3. Held' \union Elements(tracked)' \union dropped' = Held \union Elements(tracked) \union dropped
    BY <1>1, <2>2
  <2>4. QED
    BY <1>1, <2>2, <2>3 DEF Accounted
<1>8. QED
  BY <1>6, <1>7

\* Every step leaves each message in one place, and knows it.
LEMMA MessagesStep ==
  ASSUME Control, Unparsed, Once, Accounted, [Next]_vars
  PROVE  Once' /\ Accounted'
<1>1. CASE Demodulate
  BY <1>1, StayingMessages DEF Demodulate, task, buffers, clients, history, MessagesStay,
     HalfDrained
<1>2. CASE DemodUnlock
  BY <1>2, StayingMessages DEF DemodUnlock, task, buffers, clients, history, MessagesStay,
     HalfDrained
<1>3. CASE DemodRelock
  BY <1>3, StayingMessages DEF DemodRelock, task, buffers, clients, history, MessagesStay,
     HalfDrained
<1>4. CASE DemodEnd
  BY <1>4, StayingMessages DEF DemodEnd, task, buffers, clients, history, MessagesStay, HalfDrained
<1>5. CASE PoolReturns
  BY <1>5, StayingMessages DEF PoolReturns, task, buffers, clients, history, MessagesStay,
     HalfDrained
<1>6. CASE EpollWait
  <2>1. \A u \in Tasks : pc[u] = "done" /\ pc'[u] = "start"
    BY <1>6 DEF EpollWait, MainGoto, Control, MainAlone
  <2>2. MessagesStay
    BY <1>6, <2>1 DEF EpollWait, buffers, clients, history, MessagesStay, HalfDrained
  <2>3. QED
    BY <2>2, StayingMessages
<1>7. ASSUME NEW t \in Tasks, TakeDecodeLock(t)
      PROVE  Once' /\ Accounted'
  BY <1>7, StayingMessages DEF TakeDecodeLock, Goto, buffers, clients, history, MessagesStay,
     HalfDrained, Control, TypeOK
<1>8. ASSUME NEW t \in Tasks, HandleEvent(t)
      PROVE  Once' /\ Accounted'
  BY <1>8, StayingMessages DEF HandleEvent, Goto, Read, buffers, clients, history, MessagesStay,
     HalfDrained, Control, TypeOK
<1>9. ASSUME NEW t \in Tasks, InputDone(t)
      PROVE  Once' /\ Accounted'
  BY <1>9, StayingMessages DEF InputDone, Goto, buffers, clients, history, MessagesStay,
     HalfDrained, Control, TypeOK
<1>10. ASSUME NEW t \in Tasks, Steal(t)
      PROVE  Once' /\ Accounted'
  BY <1>10, StayingMessages DEF Steal, Goto, Read, buffers, clients, history, MessagesStay,
     HalfDrained, Control, TypeOK
<1>11. ASSUME NEW t \in Tasks, StealDone(t)
      PROVE  Once' /\ Accounted'
  BY <1>11, StayingMessages DEF StealDone, Goto, buffers, clients, history, MessagesStay,
     HalfDrained, Control, TypeOK
<1>12. ASSUME NEW t \in Tasks, TakeOutputLock(t)
      PROVE  Once' /\ Accounted'
  BY <1>12, StayingMessages DEF TakeOutputLock, Goto, buffers, clients, history, MessagesStay,
     HalfDrained, Control, TypeOK
<1>13. ASSUME NEW t \in Tasks, OutputDone(t)
      PROVE  Once' /\ Accounted'
  BY <1>13, StayingMessages DEF OutputDone, Goto, buffers, clients, history, MessagesStay,
     HalfDrained, Control, TypeOK
<1>14. ASSUME NEW t \in Tasks, TakeTrackLock(t)
      PROVE  Once' /\ Accounted'
  BY <1>14, StayingMessages DEF TakeTrackLock, Goto, buffers, clients, history, MessagesStay,
     HalfDrained, Control, TypeOK
<1>15. ASSUME NEW t \in Tasks, TakeOutputLockToDrain(t)
      PROVE  Once' /\ Accounted'
  BY <1>15, StayingMessages DEF TakeOutputLockToDrain, Goto, buffers, clients, history,
     MessagesStay, HalfDrained, Control, TypeOK
<1>16. ASSUME NEW t \in Tasks, Relock(t)
      PROVE  Once' /\ Accounted'
  BY <1>16, StayingMessages DEF Relock, Goto, buffers, clients, history, MessagesStay, HalfDrained,
     Control, TypeOK
<1>17. ASSUME NEW t \in Tasks, LeaveClient(t)
      PROVE  Once' /\ Accounted'
  BY <1>17, StayingMessages DEF LeaveClient, Goto, buffers, clients, history, MessagesStay,
     HalfDrained, Control, TypeOK
<1>18. ASSUME NEW t \in Tasks, ReadNothing(t)
      PROVE  Once' /\ Accounted'
  BY <1>18, StayingMessages DEF ReadNothing, Goto, buffers, clients, history, MessagesStay,
     HalfDrained, Control, TypeOK
<1>19. ASSUME NEW t \in Tasks, ReadOthersData(t)
      PROVE  Once' /\ Accounted'
  BY <1>19, StayingMessages DEF ReadOthersData, Goto, buffers, clients, history, MessagesStay,
     HalfDrained, Control, TypeOK
<1>20. ASSUME NEW t \in Tasks, ParsedAll(t)
      PROVE  Once' /\ Accounted'
  BY <1>20, StayingMessages DEF ParsedAll, Goto, buffers, clients, history, MessagesStay,
     HalfDrained, Control, TypeOK
<1>21. ASSUME NEW t \in Tasks, ProcessFails(t)
      PROVE  Once' /\ Accounted'
  BY <1>21, StayingMessages DEF ProcessFails, Goto, buffers, clients, history, MessagesStay,
     HalfDrained, Control, TypeOK
<1>22. ASSUME NEW t \in Tasks, ReadData(t)
      PROVE  Once' /\ Accounted'
  BY <1>22, DiscardMessages
<1>23. ASSUME NEW t \in Tasks, ParseMessage(t)
      PROVE  Once' /\ Accounted'
  BY <1>23, ParseMessages
<1>24. ASSUME NEW t \in Tasks, Track(t)
      PROVE  Once' /\ Accounted'
  BY <1>24, TrackMessages
<1>25. ASSUME NEW t \in Tasks, Output(t)
      PROVE  Once' /\ Accounted'
  BY <1>25, OutputMessages
<1>26. CASE UNCHANGED vars
  BY <1>26, StayingMessages DEF vars, task, buffers, clients, history, MessagesStay, HalfDrained
<1>27. QED
  BY <1>1, <1>2, <1>3, <1>4, <1>5, <1>6, <1>7, <1>8, <1>9, <1>10, <1>11, <1>12, <1>13, <1>14,
     <1>15, <1>16, <1>17, <1>18, <1>19, <1>20, <1>21, <1>22, <1>23, <1>24, <1>25, <1>26 DEF Next,
     MainSteps, DecodeTask, TaskSteps, DrainSteps, ReadSteps

-----------------------------------------------------------------------------
(* The theorems.                                                           *)

\* IInv is invariant.
THEOREM Invariance == Spec => []IInv
<1>1. Init => IInv
  BY InitControl, InitUnparsed, InitMessages DEF IInv
<1>2. IInv /\ [Next]_vars => IInv'
  BY ControlStep, UnparsedStep, MessagesStep DEF IInv
<1>3. QED
  BY <1>1, <1>2, PTL DEF Spec

\* Every variable keeps its type.
THEOREM TypeCorrect == Spec => []TypeOK
<1>1. IInv => TypeOK
  BY DEF IInv, Control
<1>2. QED
  BY <1>1, Invariance, PTL

\* Two tasks never process clients of the input group at once, although a task gives up
\* decodeLock in the middle of a client to drain its buffer (drainMessageBuffer) and another
\* one may take its place.
THEOREM InputExclusion == Spec => []InputExclusive
<1>1. IInv => InputExclusive
  <2>1. SUFFICES ASSUME IInv, NEW t \in Tasks, Inside(t, InClients)
                 PROVE  decodeLock = t
    BY DEF InputExclusive
  <2>2. stage[t] # "out"
    BY <2>1, DecodePoolAssumption DEF Inside, IInv, Control, Places, Clients
  <2>3. QED
    BY <2>1, <2>2 DEF Inside, IInv, Control, DecodeLocked
<1>2. QED
  BY <1>1, Invariance, PTL

\* A message that was parsed is tracked once and output once, or its read was discarded, and
\* the pool does not return before all is done: for any number of tasks that take over each
\* other's clients, and any size of their buffers.
THEOREM MessagesOnce == Spec => []EveryMessageOnce
<1>1. IInv => DeliveredOnce
  <2>1. SUFFICES ASSUME IInv, NEW c \in InClients, NEW n \in 1..MaxSent
                 PROVE  LET m == <<c, n>>
                            held == \E t \in Tasks : \E i \in DOMAIN buffer[t] : buffer[t][i] = m
                            times == Occurrences(m, tracked)
                        IN  /\ times <= 1
                            /\ Occurrences(m, output) <= times
                            /\ ~held => times = Occurrences(m, output)
                            /\ ~held /\ m \notin dropped => times = (IF n <= som[c] THEN 1 ELSE 0)
    BY DEF DeliveredOnce
  <2> DEFINE m == <<c, n>>
             held == \E t \in Tasks : \E i \in DOMAIN buffer[t] : buffer[t][i] = m
  <2>2. /\ Occurrences(m, tracked) = IF m \in Elements(tracked) THEN 1 ELSE 0
        /\ Occurrences(m, output) = IF m \in Elements(output) THEN 1 ELSE 0
    BY <2>1, OccursOnce DEF IInv, Control, TypeOK, Once
  <2>3. held <=> m \in Held
    BY DEF Held, Elements
  <2>4. Elements(output) \subseteq Elements(tracked)
    BY <2>1 DEF IInv, Once
  <2>5. m \in Elements(tracked) \ Elements(output) => m \in Held
    BY <2>1 DEF IInv, Once, Held
  <2>6. m \notin Held /\ m \notin dropped => (n <= som[c] <=> m \in Elements(tracked))
    BY <2>1 DEF IInv, Accounted
  <2>7. QED
    BY <2>2, <2>3, <2>4, <2>5, <2>6
<1>2. IInv => NothingLeftBehind
  <2>1. SUFFICES ASSUME IInv, mainpc # "pool"
                 PROVE  /\ \A t \in Tasks : buffer[t] = <<>> /\ activeClient[t] = Nobody
                        /\ \A c \in Clients : open[c] => ~bufferToProcess[c] /\ som[c] = eod[c]
    BY DEF NothingLeftBehind
  <2>2. \A t \in Tasks : pc[t] = "done"
    BY <2>1 DEF IInv, Control, MainAlone
  <2>3. \A t \in Tasks, c \in Clients : ~Owes(t, c)
    BY <2>2 DEF Owes, Draining
  <2>4. \A t \in Tasks : buffer[t] = <<>>
    BY <2>1, <2>2 DEF IInv, Control, Emptied
  <2>5. QED
    BY <2>1, <2>3, <2>4 DEF IInv, Unparsed
<1>3. QED
  BY <1>1, <1>2, Invariance, PTL DEF EveryMessageOnce

=============================================================================
