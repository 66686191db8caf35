-------------------------- MODULE ThreadPoolProofs --------------------------
(***************************************************************************)
(* Safety of ThreadPool.tla for every set of workers, every batch size and *)
(* any number of runs, and the refinement of TaskBatch.tla.                *)
(*                                                                         *)
(* None of the invariants of ThreadPool.tla is inductive.  IInv adds what  *)
(* the atomics stand for: pending_count is the number of tasks that are    *)
(* unclaimed or in a worker's hands (PendingIsLeft), so the master leaves  *)
(* its loop only when no worker holds a task (QuietOutsideRuns); the tasks *)
(* of a run are partitioned into unclaimed, held and finished (Partition). *)
(***************************************************************************)
EXTENDS ThreadPool, FiniteSetTheorems, TLAPS

\* the control points of threadpool_destroy
Stopping == {"stop workers", "stop master", "join", "gone"}

\* who holds worker_lock, and when the master holds master_lock
Locks ==
    /\ \A w \in Workers : wpc[w] \in {"check", "recheck", "tosleep"} => worker_lock = w
    /\ master_lock <=> mpc \in {"test", "towait"}

\* terminate is set for good by threadpool_destroy, and only then does a worker exit
Terminating ==
    /\ terminate <=> mpc \in Stopping
    /\ \A w \in Workers : wpc[w] = "exited" => terminate

\* a worker tries to claim only when it has seen a task
CasPositive == \A w \in Workers : wpc[w] = "cas" => expected[w] > 0

\* outside threadpool_run there is nothing to claim and nobody works
QuietOutsideRuns == mpc \notin InRun => task_count = 0 /\ Busy = {}

\* tasks counted in pending_count that task_count does not show yet
Announced == IF mpc \in {"tasks", "count"} THEN count ELSE 0

\* pending_count counts the tasks not claimed and the tasks claimed and not finished
PendingIsLeft == pending_count = task_count + Cardinality(Busy) + Announced

\* the tasks of a run: those below task_count are free, each worker that is busy holds one
\* of the others, and the rest has finished
Partition ==
    /\ count <= MaxTasks
    /\ mpc \notin {"tasks", "count"} =>
           /\ task_count <= count
           /\ finished = {t \in task_count..(count - 1) : \A w \in Busy : task[w] # t}
           /\ \A w \in Busy : task[w] \in task_count..(count - 1)
           /\ \A v, w \in Busy : v # w => task[v] # task[w]

\* workers execute tasks of the array of this run
CurrentArray ==
    /\ mpc # "tasks" => tasks = run
    /\ \A w \in Workers : wpc[w] = "run" => array[w] = run

\* the inductive invariant
IInv ==
    /\ TypeOK /\ Locks /\ Terminating /\ CasPositive
    /\ QuietOutsideRuns /\ PendingIsLeft /\ Partition /\ CurrentArray
    /\ BuffersOfATaskStay /\ NoLostWakeup

-----------------------------------------------------------------------------
\* The set of workers that hold a task is finite, so its size is a number.
LEMMA BusyFinite == IsFiniteSet(Busy) /\ Cardinality(Busy) \in Nat
  BY FS_Subset, FS_CardinalityType, WorkersAssumption DEF Busy

\* While a worker holds a task, pending_count is not zero.
LEMMA BusyPending ==
  ASSUME TypeOK, QuietOutsideRuns, PendingIsLeft, NEW w \in Busy
  PROVE  pending_count > 0
<1>1. Cardinality(Busy) > 0
  BY BusyFinite, FS_EmptySet
<1>2. QED
  BY <1>1, BusyFinite DEF PendingIsLeft, TypeOK, Announced

\* The other direction: when pending_count is zero, every task was claimed and finished.
LEMMA NobodyBusy ==
  ASSUME TypeOK, PendingIsLeft, pending_count = 0
  PROVE  task_count = 0 /\ Busy = {}
<1>1. task_count = 0 /\ Cardinality(Busy) = 0
  BY BusyFinite DEF PendingIsLeft, TypeOK, Announced
<1>2. QED
  BY <1>1, BusyFinite, FS_EmptySet

\* What a successful compare-exchange does, in terms of the tasks.
LEMMA ClaimEffect ==
  ASSUME TypeOK, CasPositive, QuietOutsideRuns, NEW w \in Workers, Claim(w)
  PROVE  /\ task_count > 0 /\ task_count' = task_count - 1
         /\ mpc \in InRun /\ mpc' = mpc
         /\ w \notin Busy /\ Busy' = Busy \union {w}
         /\ task' = [task EXCEPT ![w] = task_count - 1]
         /\ UNCHANGED <<pending_count, count, finished, run>>
<1>1. task_count > 0
  BY DEF CasPositive, Claim, WGoto
<1>2. w \notin Busy /\ Busy' = Busy \union {w}
  BY DEF Busy, Claim, WGoto, TypeOK
<1>3. mpc \in InRun
  BY <1>1 DEF QuietOutsideRuns
<1>4. QED
  BY <1>1, <1>2, <1>3 DEF Claim, master

\* What the atomic_fetch_sub after a task does, in terms of the tasks.
LEMMA FinishEffect ==
  ASSUME TypeOK, QuietOutsideRuns, PendingIsLeft, NEW w \in Workers, Finish(w)
  PROVE  /\ pending_count > 0 /\ pending_count' = pending_count - 1
         /\ mpc \in InRun /\ mpc' = mpc
         /\ w \in Busy /\ Busy' = Busy \ {w}
         /\ finished' = finished \union {task[w]}
         /\ task' = [task EXCEPT ![w] = 0]
         /\ UNCHANGED <<task_count, count, run>>
<1>1. w \in Busy /\ Busy' = Busy \ {w}
  BY DEF Busy, Finish, WGoto, TypeOK
<1>2. pending_count > 0
  BY <1>1, BusyPending
<1>3. mpc \in InRun
  BY <1>1 DEF QuietOutsideRuns
<1>4. QED
  BY <1>1, <1>2, <1>3 DEF Finish, master

\* a step that claims and finishes nothing
UnchangedTasks ==
    /\ Busy' = Busy
    /\ UNCHANGED <<task_count, pending_count, task, finished, count>>
    /\ mpc' \in {"tasks", "count"} <=> mpc \in {"tasks", "count"}

\* every step is one of the five that concern the tasks, or leaves them alone
TaskStep ==
    \/ RunPending \/ RunTasks \/ RunCount
    \/ \E w \in Workers : Claim(w) \/ Finish(w)
    \/ UnchangedTasks

\* Only five actions touch what the batch consists of; all others leave it alone.
LEMMA TaskFrame ==
  ASSUME TypeOK, QuietOutsideRuns, PendingIsLeft, [Next]_vars
  PROVE  TaskStep
<1>1. CASE DestroyMaster
  <2>1. mpc = "stop master" /\ mpc' = "join" /\ pending_count' = 0
    BY <1>1 DEF DestroyMaster, MGoto
  <2>2. task_count = 0 /\ Busy = {}
    BY <2>1 DEF QuietOutsideRuns, InRun
  <2>3. pending_count = 0
    <3>1. Cardinality(Busy) = 0 /\ Announced = 0
      BY <2>1, <2>2, FS_EmptySet DEF Announced
    <3>2. QED
      BY <2>2, <3>1 DEF PendingIsLeft
  <2>4. Busy' = Busy /\ UNCHANGED <<task_count, task, finished, count>>
    BY <1>1 DEF DestroyMaster, Busy, local
  <2>5. QED
    BY <2>1, <2>3, <2>4 DEF TaskStep, UnchangedTasks
<1> USE DEF TypeOK, MGoto, WGoto, WakeWorkers, WorkerPoints, MasterPoints, InRun,
         vars, shared, locks, local, master, TaskStep, UnchangedTasks, Busy,
         QuietOutsideRuns
<1>2. CASE RunPending
  BY <1>2 DEF RunPending
<1>3. CASE RunTasks
  BY <1>3 DEF RunTasks
<1>4. CASE RunCount
  BY <1>4 DEF RunCount
<1>5. CASE RunWake
  BY <1>5 DEF RunWake
<1>6. CASE RunLock
  BY <1>6 DEF RunLock
<1>7. CASE RunTest
  BY <1>7 DEF RunTest
<1>8. CASE RunWait
  BY <1>8 DEF RunWait
<1>9. CASE RunRelock
  BY <1>9 DEF RunRelock
<1>10. CASE ResetBuffers
  BY <1>10 DEF ResetBuffers
<1>11. CASE DestroyFlag
  BY <1>11 DEF DestroyFlag
<1>12. CASE DestroyWorkers
  BY <1>12 DEF DestroyWorkers
<1>13. CASE DestroyJoin
  BY <1>13 DEF DestroyJoin
<1>14. CASE SpuriousMaster
  BY <1>14 DEF SpuriousMaster
<1>15. ASSUME NEW w \in Workers, Load(w) PROVE TaskStep
  BY <1>15 DEF Load
<1>16. ASSUME NEW w \in Workers, Lock(w) PROVE TaskStep
  BY <1>16 DEF Lock
<1>17. ASSUME NEW w \in Workers, CheckTerminate(w) PROVE TaskStep
  BY <1>17 DEF CheckTerminate
<1>18. ASSUME NEW w \in Workers, Recheck(w) PROVE TaskStep
  BY <1>18 DEF Recheck
<1>19. ASSUME NEW w \in Workers, Sleep(w) PROVE TaskStep
  BY <1>19 DEF Sleep
<1>20. ASSUME NEW w \in Workers, Awake(w) PROVE TaskStep
  BY <1>20 DEF Awake
<1>21. ASSUME NEW w \in Workers, Claim(w) PROVE TaskStep
  BY <1>21 DEF Claim
<1>22. ASSUME NEW w \in Workers, ClaimFail(w) PROVE TaskStep
  BY <1>22 DEF ClaimFail
<1>23. ASSUME NEW w \in Workers, Fetch(w) PROVE TaskStep
  BY <1>23 DEF Fetch
<1>24. ASSUME NEW w \in Workers, Finish(w) PROVE TaskStep
  BY <1>24 DEF Finish
<1>25. ASSUME NEW w \in Workers, Notify(w) PROVE TaskStep
  BY <1>25 DEF Notify
<1>26. ASSUME NEW w \in Workers, SpuriousWorker(w) PROVE TaskStep
  BY <1>26 DEF SpuriousWorker
<1>27. CASE UNCHANGED vars
  BY <1>27
<1>28. QED
  BY <1>1, <1>2, <1>3, <1>4, <1>5, <1>6, <1>7, <1>8, <1>9, <1>10, <1>11, <1>12,
     <1>13, <1>14, <1>15, <1>16, <1>17, <1>18, <1>19, <1>20, <1>21, <1>22, <1>23,
     <1>24, <1>25, <1>26, <1>27 DEF Next, Run, Destroy, Loop

\* Every step preserves the type invariant; the two decrements need the counters to be positive.
LEMMA TypePreserved ==
  ASSUME TypeOK, CasPositive, QuietOutsideRuns, PendingIsLeft, [Next]_vars
  PROVE  TypeOK'
<1>1. ASSUME NEW w \in Workers, Claim(w) PROVE TypeOK'
  <2>1. task_count' \in Nat
    BY <1>1, ClaimEffect DEF TypeOK
  <2>2. QED
    BY <1>1, <2>1 DEF Claim, TypeOK, WGoto, WorkerPoints, shared, locks, master
<1>2. ASSUME NEW w \in Workers, Finish(w) PROVE TypeOK'
  <2>1. pending_count' \in Nat
    BY <1>2, FinishEffect DEF TypeOK
  <2>2. QED
    BY <1>2, <2>1 DEF Finish, TypeOK, WGoto, WorkerPoints, shared, locks, master
<1> USE DEF TypeOK, MGoto, WGoto, WakeWorkers, WorkerPoints, MasterPoints, InRun,
         vars, shared, locks, local, master
<1>3. CASE RunPending
  BY <1>3 DEF RunPending
<1>4. CASE RunTasks
  BY <1>4 DEF RunTasks
<1>5. CASE RunCount
  BY <1>5 DEF RunCount
<1>6. CASE RunWake
  BY <1>6 DEF RunWake
<1>7. CASE RunLock
  BY <1>7 DEF RunLock
<1>8. CASE RunTest
  BY <1>8 DEF RunTest
<1>9. CASE RunWait
  BY <1>9 DEF RunWait
<1>10. CASE RunRelock
  BY <1>10 DEF RunRelock
<1>11. CASE ResetBuffers
  BY <1>11 DEF ResetBuffers
<1>12. CASE DestroyFlag
  BY <1>12 DEF DestroyFlag
<1>13. CASE DestroyWorkers
  BY <1>13 DEF DestroyWorkers
<1>14. CASE DestroyMaster
  BY <1>14 DEF DestroyMaster
<1>15. CASE DestroyJoin
  BY <1>15 DEF DestroyJoin
<1>16. CASE SpuriousMaster
  BY <1>16 DEF SpuriousMaster
<1>17. ASSUME NEW w \in Workers, Load(w) PROVE TypeOK'
  BY <1>17 DEF Load
<1>18. ASSUME NEW w \in Workers, Lock(w) PROVE TypeOK'
  BY <1>18 DEF Lock
<1>19. ASSUME NEW w \in Workers, CheckTerminate(w) PROVE TypeOK'
  BY <1>19 DEF CheckTerminate
<1>20. ASSUME NEW w \in Workers, Recheck(w) PROVE TypeOK'
  BY <1>20 DEF Recheck
<1>21. ASSUME NEW w \in Workers, Sleep(w) PROVE TypeOK'
  BY <1>21 DEF Sleep
<1>22. ASSUME NEW w \in Workers, Awake(w) PROVE TypeOK'
  BY <1>22 DEF Awake
<1>23. ASSUME NEW w \in Workers, ClaimFail(w) PROVE TypeOK'
  BY <1>23 DEF ClaimFail
<1>24. ASSUME NEW w \in Workers, Fetch(w) PROVE TypeOK'
  BY <1>24 DEF Fetch
<1>25. ASSUME NEW w \in Workers, Notify(w) PROVE TypeOK'
  BY <1>25 DEF Notify
<1>26. ASSUME NEW w \in Workers, SpuriousWorker(w) PROVE TypeOK'
  BY <1>26 DEF SpuriousWorker
<1>27. CASE UNCHANGED vars
  BY <1>27
<1>28. QED
  BY <1>1, <1>2, <1>3, <1>4, <1>5, <1>6, <1>7, <1>8, <1>9, <1>10, <1>11, <1>12,
     <1>13, <1>14, <1>15, <1>16, <1>17, <1>18, <1>19, <1>20, <1>21, <1>22, <1>23,
     <1>24, <1>25, <1>26, <1>27 DEF Next, Run, Destroy, Loop

\* Every step preserves the ownership of the mutexes.
LEMMA LocksPreserved ==
  ASSUME TypeOK, Locks, [Next]_vars
  PROVE  Locks'
<1> USE DEF TypeOK, MGoto, WGoto, WakeWorkers, WorkerPoints, MasterPoints, InRun,
         vars, shared, locks, local, master, Locks
<1>1. CASE RunPending
  BY <1>1 DEF RunPending
<1>2. CASE RunTasks
  BY <1>2 DEF RunTasks
<1>3. CASE RunCount
  BY <1>3 DEF RunCount
<1>4. CASE RunWake
  BY <1>4 DEF RunWake
<1>5. CASE RunLock
  BY <1>5 DEF RunLock
<1>6. CASE RunTest
  BY <1>6 DEF RunTest
<1>7. CASE RunWait
  BY <1>7 DEF RunWait
<1>8. CASE RunRelock
  BY <1>8 DEF RunRelock
<1>9. CASE ResetBuffers
  BY <1>9 DEF ResetBuffers
<1>10. CASE DestroyFlag
  BY <1>10 DEF DestroyFlag
<1>11. CASE DestroyWorkers
  BY <1>11 DEF DestroyWorkers
<1>12. CASE DestroyMaster
  BY <1>12 DEF DestroyMaster
<1>13. CASE DestroyJoin
  BY <1>13 DEF DestroyJoin
<1>14. CASE SpuriousMaster
  BY <1>14 DEF SpuriousMaster
<1>15. ASSUME NEW w \in Workers, Load(w) PROVE Locks'
  BY <1>15 DEF Load
<1>16. ASSUME NEW w \in Workers, Lock(w) PROVE Locks'
  BY <1>16, WorkersAssumption DEF Lock
<1>17. ASSUME NEW w \in Workers, CheckTerminate(w) PROVE Locks'
  BY <1>17 DEF CheckTerminate
<1>18. ASSUME NEW w \in Workers, Recheck(w) PROVE Locks'
  BY <1>18 DEF Recheck
<1>19. ASSUME NEW w \in Workers, Sleep(w) PROVE Locks'
  BY <1>19 DEF Sleep
<1>20. ASSUME NEW w \in Workers, Awake(w) PROVE Locks'
  BY <1>20 DEF Awake
<1>21. ASSUME NEW w \in Workers, Claim(w) PROVE Locks'
  BY <1>21 DEF Claim
<1>22. ASSUME NEW w \in Workers, ClaimFail(w) PROVE Locks'
  BY <1>22 DEF ClaimFail
<1>23. ASSUME NEW w \in Workers, Fetch(w) PROVE Locks'
  BY <1>23 DEF Fetch
<1>24. ASSUME NEW w \in Workers, Finish(w) PROVE Locks'
  BY <1>24 DEF Finish
<1>25. ASSUME NEW w \in Workers, Notify(w) PROVE Locks'
  BY <1>25 DEF Notify
<1>26. ASSUME NEW w \in Workers, SpuriousWorker(w) PROVE Locks'
  BY <1>26 DEF SpuriousWorker
<1>27. CASE UNCHANGED vars
  BY <1>27
<1>28. QED
  BY <1>1, <1>2, <1>3, <1>4, <1>5, <1>6, <1>7, <1>8, <1>9, <1>10, <1>11, <1>12,
     <1>13, <1>14, <1>15, <1>16, <1>17, <1>18, <1>19, <1>20, <1>21, <1>22, <1>23,
     <1>24, <1>25, <1>26, <1>27 DEF Next, Run, Destroy, Loop

\* Every step preserves when terminate is set and who exits.
LEMMA TerminatingPreserved ==
  ASSUME TypeOK, Terminating, [Next]_vars
  PROVE  Terminating'
<1> USE DEF TypeOK, MGoto, WGoto, WakeWorkers, WorkerPoints, MasterPoints, InRun,
         vars, shared, locks, local, master, Terminating, Stopping
<1>1. CASE RunPending
  BY <1>1 DEF RunPending
<1>2. CASE RunTasks
  BY <1>2 DEF RunTasks
<1>3. CASE RunCount
  BY <1>3 DEF RunCount
<1>4. CASE RunWake
  BY <1>4 DEF RunWake
<1>5. CASE RunLock
  BY <1>5 DEF RunLock
<1>6. CASE RunTest
  BY <1>6 DEF RunTest
<1>7. CASE RunWait
  BY <1>7 DEF RunWait
<1>8. CASE RunRelock
  BY <1>8 DEF RunRelock
<1>9. CASE ResetBuffers
  BY <1>9 DEF ResetBuffers
<1>10. CASE DestroyFlag
  BY <1>10 DEF DestroyFlag
<1>11. CASE DestroyWorkers
  BY <1>11 DEF DestroyWorkers
<1>12. CASE DestroyMaster
  BY <1>12 DEF DestroyMaster
<1>13. CASE DestroyJoin
  BY <1>13 DEF DestroyJoin
<1>14. CASE SpuriousMaster
  BY <1>14 DEF SpuriousMaster
<1>15. ASSUME NEW w \in Workers, Load(w) PROVE Terminating'
  BY <1>15 DEF Load
<1>16. ASSUME NEW w \in Workers, Lock(w) PROVE Terminating'
  BY <1>16 DEF Lock
<1>17. ASSUME NEW w \in Workers, CheckTerminate(w) PROVE Terminating'
  BY <1>17 DEF CheckTerminate
<1>18. ASSUME NEW w \in Workers, Recheck(w) PROVE Terminating'
  BY <1>18 DEF Recheck
<1>19. ASSUME NEW w \in Workers, Sleep(w) PROVE Terminating'
  BY <1>19 DEF Sleep
<1>20. ASSUME NEW w \in Workers, Awake(w) PROVE Terminating'
  BY <1>20 DEF Awake
<1>21. ASSUME NEW w \in Workers, Claim(w) PROVE Terminating'
  BY <1>21 DEF Claim
<1>22. ASSUME NEW w \in Workers, ClaimFail(w) PROVE Terminating'
  BY <1>22 DEF ClaimFail
<1>23. ASSUME NEW w \in Workers, Fetch(w) PROVE Terminating'
  BY <1>23 DEF Fetch
<1>24. ASSUME NEW w \in Workers, Finish(w) PROVE Terminating'
  BY <1>24 DEF Finish
<1>25. ASSUME NEW w \in Workers, Notify(w) PROVE Terminating'
  BY <1>25 DEF Notify
<1>26. ASSUME NEW w \in Workers, SpuriousWorker(w) PROVE Terminating'
  BY <1>26 DEF SpuriousWorker
<1>27. CASE UNCHANGED vars
  BY <1>27
<1>28. QED
  BY <1>1, <1>2, <1>3, <1>4, <1>5, <1>6, <1>7, <1>8, <1>9, <1>10, <1>11, <1>12,
     <1>13, <1>14, <1>15, <1>16, <1>17, <1>18, <1>19, <1>20, <1>21, <1>22, <1>23,
     <1>24, <1>25, <1>26, <1>27 DEF Next, Run, Destroy, Loop

\* Every step preserves that a compare-exchange never expects zero.
LEMMA CasPreserved ==
  ASSUME TypeOK, CasPositive, [Next]_vars
  PROVE  CasPositive'
<1>1. ASSUME NEW w \in Workers, Load(w) PROVE CasPositive'
  <2>1. wpc' = [wpc EXCEPT ![w] = IF task_count = 0 THEN "lock" ELSE "cas"]
    BY <1>1 DEF Load, WGoto
  <2>2. expected' = [expected EXCEPT ![w] = task_count]
    BY <1>1 DEF Load
  <2>3. task_count # 0 => task_count > 0
    BY DEF TypeOK
  <2>4. QED
    BY <2>1, <2>2, <2>3 DEF CasPositive, TypeOK
<1> USE DEF TypeOK, MGoto, WGoto, WakeWorkers, WorkerPoints, MasterPoints, InRun,
         vars, shared, locks, local, master, CasPositive
<1>2. CASE RunPending
  BY <1>2 DEF RunPending
<1>3. CASE RunTasks
  BY <1>3 DEF RunTasks
<1>4. CASE RunCount
  BY <1>4 DEF RunCount
<1>5. CASE RunWake
  BY <1>5 DEF RunWake
<1>6. CASE RunLock
  BY <1>6 DEF RunLock
<1>7. CASE RunTest
  BY <1>7 DEF RunTest
<1>8. CASE RunWait
  BY <1>8 DEF RunWait
<1>9. CASE RunRelock
  BY <1>9 DEF RunRelock
<1>10. CASE ResetBuffers
  BY <1>10 DEF ResetBuffers
<1>11. CASE DestroyFlag
  BY <1>11 DEF DestroyFlag
<1>12. CASE DestroyWorkers
  BY <1>12 DEF DestroyWorkers
<1>13. CASE DestroyMaster
  BY <1>13 DEF DestroyMaster
<1>14. CASE DestroyJoin
  BY <1>14 DEF DestroyJoin
<1>15. CASE SpuriousMaster
  BY <1>15 DEF SpuriousMaster
<1>16. ASSUME NEW w \in Workers, Lock(w) PROVE CasPositive'
  BY <1>16 DEF Lock
<1>17. ASSUME NEW w \in Workers, CheckTerminate(w) PROVE CasPositive'
  BY <1>17 DEF CheckTerminate
<1>18. ASSUME NEW w \in Workers, Recheck(w) PROVE CasPositive'
  BY <1>18 DEF Recheck
<1>19. ASSUME NEW w \in Workers, Sleep(w) PROVE CasPositive'
  BY <1>19 DEF Sleep
<1>20. ASSUME NEW w \in Workers, Awake(w) PROVE CasPositive'
  BY <1>20 DEF Awake
<1>21. ASSUME NEW w \in Workers, Claim(w) PROVE CasPositive'
  BY <1>21 DEF Claim
<1>22. ASSUME NEW w \in Workers, ClaimFail(w) PROVE CasPositive'
  BY <1>22 DEF ClaimFail
<1>23. ASSUME NEW w \in Workers, Fetch(w) PROVE CasPositive'
  BY <1>23 DEF Fetch
<1>24. ASSUME NEW w \in Workers, Finish(w) PROVE CasPositive'
  BY <1>24 DEF Finish
<1>25. ASSUME NEW w \in Workers, Notify(w) PROVE CasPositive'
  BY <1>25 DEF Notify
<1>26. ASSUME NEW w \in Workers, SpuriousWorker(w) PROVE CasPositive'
  BY <1>26 DEF SpuriousWorker
<1>27. CASE UNCHANGED vars
  BY <1>27
<1>28. QED
  BY <1>1, <1>2, <1>3, <1>4, <1>5, <1>6, <1>7, <1>8, <1>9, <1>10, <1>11, <1>12,
     <1>13, <1>14, <1>15, <1>16, <1>17, <1>18, <1>19, <1>20, <1>21, <1>22, <1>23,
     <1>24, <1>25, <1>26, <1>27 DEF Next, Run, Destroy, Loop

\* Every step preserves that no task is left outside a run; the master leaves a run only when
\* pending_count is zero.
LEMMA QuietPreserved ==
  ASSUME TypeOK, CasPositive, QuietOutsideRuns, PendingIsLeft, Terminating, [Next]_vars
  PROVE  QuietOutsideRuns'
<1>1. CASE RunTest
  <2>1. Busy' = Busy /\ task_count' = task_count
    BY <1>1 DEF RunTest, Busy, local, shared
  <2>2. CASE mpc' \in InRun
    BY <2>2 DEF QuietOutsideRuns
  <2>3. CASE mpc' \notin InRun
    <3>1. ~terminate
      BY <1>1 DEF RunTest, MGoto, Terminating, Stopping
    <3>2. ~(pending_count > 0)
      BY <1>1, <2>3, <3>1 DEF RunTest, MGoto, InRun
    <3>3. pending_count = 0
      BY <3>2 DEF TypeOK
    <3>4. QED
      BY <3>3, <2>1, NobodyBusy DEF QuietOutsideRuns
  <2>4. QED
    BY <2>2, <2>3
<1>2. ASSUME NEW w \in Workers, Claim(w) PROVE QuietOutsideRuns'
  BY <1>2, ClaimEffect DEF QuietOutsideRuns
<1>3. ASSUME NEW w \in Workers, Finish(w) PROVE QuietOutsideRuns'
  BY <1>3, FinishEffect DEF QuietOutsideRuns
<1> USE DEF TypeOK, MGoto, WGoto, WakeWorkers, WorkerPoints, MasterPoints, InRun,
         vars, shared, locks, local, master, QuietOutsideRuns, Busy
<1>4. CASE RunPending
  BY <1>4 DEF RunPending
<1>5. CASE RunTasks
  BY <1>5 DEF RunTasks
<1>6. CASE RunCount
  BY <1>6 DEF RunCount
<1>7. CASE RunWake
  BY <1>7 DEF RunWake
<1>8. CASE RunLock
  BY <1>8 DEF RunLock
<1>9. CASE RunWait
  BY <1>9 DEF RunWait
<1>10. CASE RunRelock
  BY <1>10 DEF RunRelock
<1>11. CASE ResetBuffers
  BY <1>11 DEF ResetBuffers
<1>12. CASE DestroyFlag
  BY <1>12 DEF DestroyFlag
<1>13. CASE DestroyWorkers
  BY <1>13 DEF DestroyWorkers
<1>14. CASE DestroyMaster
  BY <1>14 DEF DestroyMaster
<1>15. CASE DestroyJoin
  BY <1>15 DEF DestroyJoin
<1>16. CASE SpuriousMaster
  BY <1>16 DEF SpuriousMaster
<1>17. ASSUME NEW w \in Workers, Load(w) PROVE QuietOutsideRuns'
  BY <1>17 DEF Load
<1>18. ASSUME NEW w \in Workers, Lock(w) PROVE QuietOutsideRuns'
  BY <1>18 DEF Lock
<1>19. ASSUME NEW w \in Workers, CheckTerminate(w) PROVE QuietOutsideRuns'
  BY <1>19 DEF CheckTerminate
<1>20. ASSUME NEW w \in Workers, Recheck(w) PROVE QuietOutsideRuns'
  BY <1>20 DEF Recheck
<1>21. ASSUME NEW w \in Workers, Sleep(w) PROVE QuietOutsideRuns'
  BY <1>21 DEF Sleep
<1>22. ASSUME NEW w \in Workers, Awake(w) PROVE QuietOutsideRuns'
  BY <1>22 DEF Awake
<1>23. ASSUME NEW w \in Workers, ClaimFail(w) PROVE QuietOutsideRuns'
  BY <1>23 DEF ClaimFail
<1>24. ASSUME NEW w \in Workers, Fetch(w) PROVE QuietOutsideRuns'
  BY <1>24 DEF Fetch
<1>25. ASSUME NEW w \in Workers, Notify(w) PROVE QuietOutsideRuns'
  BY <1>25 DEF Notify
<1>26. ASSUME NEW w \in Workers, SpuriousWorker(w) PROVE QuietOutsideRuns'
  BY <1>26 DEF SpuriousWorker
<1>27. CASE UNCHANGED vars
  BY <1>27
<1>28. QED
  BY <1>1, <1>2, <1>3, <1>4, <1>5, <1>6, <1>7, <1>8, <1>9, <1>10, <1>11, <1>12,
     <1>13, <1>14, <1>15, <1>16, <1>17, <1>18, <1>19, <1>20, <1>21, <1>22, <1>23,
     <1>24, <1>25, <1>26, <1>27 DEF Next, Run, Destroy, Loop

\* Every step preserves what pending_count counts.
LEMMA PendingPreserved ==
  ASSUME TypeOK, CasPositive, QuietOutsideRuns, PendingIsLeft, [Next]_vars
  PROVE  PendingIsLeft'
<1>1. CASE RunPending
  <2>1. task_count = 0 /\ Busy = {} /\ Busy' = {} /\ task_count' = 0
    BY <1>1 DEF RunPending, MGoto, QuietOutsideRuns, InRun, Busy, local
  <2>2. pending_count' = count' /\ count' \in Nat /\ mpc' = "tasks"
    BY <1>1, BoundsAssumption DEF RunPending, MGoto
  <2>3. QED
    BY <2>1, <2>2, FS_EmptySet DEF PendingIsLeft, Announced
<1>2. CASE RunTasks
  BY <1>2 DEF RunTasks, MGoto, PendingIsLeft, Announced, Busy, local
<1>3. CASE RunCount
  <2>1. task_count = 0 /\ Busy = {} /\ Busy' = {}
    BY <1>3 DEF RunCount, MGoto, QuietOutsideRuns, InRun, Busy, local
  <2>2. pending_count = count /\ pending_count' = count /\ task_count' = count /\ mpc' = "wake"
    BY <1>3, <2>1, FS_EmptySet DEF RunCount, MGoto, PendingIsLeft, Announced, TypeOK
  <2>3. QED
    BY <2>1, <2>2, FS_EmptySet DEF PendingIsLeft, Announced, TypeOK
<1>4. ASSUME NEW w \in Workers, Claim(w) PROVE PendingIsLeft'
  <2>1. Cardinality(Busy') = Cardinality(Busy) + 1
    BY <1>4, ClaimEffect, BusyFinite, FS_AddElement
  <2>2. Announced' = 0 /\ Announced = 0
    BY <1>4, ClaimEffect DEF Announced, InRun
  <2>3. QED
    BY <1>4, <2>1, <2>2, ClaimEffect, BusyFinite DEF PendingIsLeft, TypeOK
<1>5. ASSUME NEW w \in Workers, Finish(w) PROVE PendingIsLeft'
  <2>1. Cardinality(Busy') = Cardinality(Busy) - 1
    BY <1>5, FinishEffect, BusyFinite, FS_RemoveElement
  <2>2. Announced' = 0 /\ Announced = 0
    BY <1>5, FinishEffect DEF Announced, InRun
  <2>3. QED
    BY <1>5, <2>1, <2>2, FinishEffect, BusyFinite DEF PendingIsLeft, TypeOK
<1>6. CASE UnchangedTasks
  BY <1>6 DEF UnchangedTasks, PendingIsLeft, Announced
<1>7. QED
  BY <1>1, <1>2, <1>3, <1>4, <1>5, <1>6, TaskFrame DEF TaskStep

\* Every step preserves the partition of a run's tasks.
LEMMA PartitionPreserved ==
  ASSUME TypeOK, CasPositive, QuietOutsideRuns, PendingIsLeft, Partition, [Next]_vars
  PROVE  Partition'
<1>1. CASE RunPending
  BY <1>1 DEF RunPending, MGoto, Partition
<1>2. CASE RunTasks
  BY <1>2 DEF RunTasks, MGoto, Partition
<1>3. CASE RunCount
  <2>1. Busy' = {} /\ count' = count /\ task_count' = count /\ finished' = {} /\ count \in Nat
    BY <1>3 DEF RunCount, MGoto, QuietOutsideRuns, InRun, Busy, local, TypeOK
  <2>2. QED
    BY <2>1 DEF Partition
<1>4. ASSUME NEW w \in Workers, Claim(w) PROVE Partition'
  <2>1. mpc \notin {"tasks", "count"}
    BY <1>4, ClaimEffect DEF InRun
  <2>2. task' \in [Workers -> Nat] /\ task'[w] = task_count - 1
    BY <1>4, ClaimEffect DEF TypeOK
  <2>3. \A v \in Busy : v \in Workers /\ v # w /\ task'[v] = task[v] /\ task[v] # task_count - 1
    BY <1>4, <2>1, ClaimEffect DEF Partition, TypeOK, Busy
  <2>4. task_count \in Nat /\ task_count > 0 /\ count \in Nat
    BY <1>4, ClaimEffect DEF TypeOK
  <2>5. Busy' = Busy \union {w} /\ task_count' = task_count - 1 /\ count' = count /\ finished' = finished
    BY <1>4, ClaimEffect
  <2>6. QED
    BY <2>1, <2>2, <2>3, <2>4, <2>5 DEF Partition
<1>5. ASSUME NEW w \in Workers, Finish(w) PROVE Partition'
  <2>1. mpc \notin {"tasks", "count"}
    BY <1>5, FinishEffect DEF InRun
  <2>2. w \in Busy /\ task[w] \in task_count..(count - 1)
    BY <1>5, <2>1, FinishEffect DEF Partition
  <2>3. \A v \in Busy' : v \in Busy /\ v # w /\ task'[v] = task[v] /\ task[v] # task[w]
    BY <1>5, <2>1, FinishEffect DEF Partition, TypeOK, Busy
  <2>4. Busy' = Busy \ {w} /\ task_count' = task_count /\ count' = count
        /\ finished' = finished \union {task[w]}
    BY <1>5, FinishEffect
  <2>5. finished' = {t \in task_count'..(count' - 1) : \A v \in Busy' : task'[v] # t}
    BY <2>1, <2>2, <2>3, <2>4 DEF Partition
  <2>6. QED
    BY <2>1, <2>3, <2>4, <2>5 DEF Partition
<1>6. CASE UnchangedTasks
  BY <1>6 DEF UnchangedTasks, Partition
<1>7. QED
  BY <1>1, <1>2, <1>3, <1>4, <1>5, <1>6, TaskFrame DEF TaskStep

\* Every step preserves which array the tasks come from.
LEMMA ArrayPreserved ==
  ASSUME TypeOK, CasPositive, QuietOutsideRuns, CurrentArray, [Next]_vars
  PROVE  CurrentArray'
<1> USE DEF TypeOK, MGoto, WGoto, WakeWorkers, WorkerPoints, MasterPoints, InRun,
         vars, shared, locks, local, master, CurrentArray, Busy, QuietOutsideRuns
<1>1. CASE RunPending
  BY <1>1 DEF RunPending
<1>2. CASE RunTasks
  BY <1>2 DEF RunTasks
<1>3. CASE RunCount
  BY <1>3 DEF RunCount
<1>4. CASE RunWake
  BY <1>4 DEF RunWake
<1>5. CASE RunLock
  BY <1>5 DEF RunLock
<1>6. CASE RunTest
  BY <1>6 DEF RunTest
<1>7. CASE RunWait
  BY <1>7 DEF RunWait
<1>8. CASE RunRelock
  BY <1>8 DEF RunRelock
<1>9. CASE ResetBuffers
  BY <1>9 DEF ResetBuffers
<1>10. CASE DestroyFlag
  BY <1>10 DEF DestroyFlag
<1>11. CASE DestroyWorkers
  BY <1>11 DEF DestroyWorkers
<1>12. CASE DestroyMaster
  BY <1>12 DEF DestroyMaster
<1>13. CASE DestroyJoin
  BY <1>13 DEF DestroyJoin
<1>14. CASE SpuriousMaster
  BY <1>14 DEF SpuriousMaster
<1>15. ASSUME NEW w \in Workers, Load(w) PROVE CurrentArray'
  BY <1>15 DEF Load
<1>16. ASSUME NEW w \in Workers, Lock(w) PROVE CurrentArray'
  BY <1>16 DEF Lock
<1>17. ASSUME NEW w \in Workers, CheckTerminate(w) PROVE CurrentArray'
  BY <1>17 DEF CheckTerminate
<1>18. ASSUME NEW w \in Workers, Recheck(w) PROVE CurrentArray'
  BY <1>18 DEF Recheck
<1>19. ASSUME NEW w \in Workers, Sleep(w) PROVE CurrentArray'
  BY <1>19 DEF Sleep
<1>20. ASSUME NEW w \in Workers, Awake(w) PROVE CurrentArray'
  BY <1>20 DEF Awake
<1>21. ASSUME NEW w \in Workers, Claim(w) PROVE CurrentArray'
  BY <1>21 DEF Claim
<1>22. ASSUME NEW w \in Workers, ClaimFail(w) PROVE CurrentArray'
  BY <1>22 DEF ClaimFail
<1>23. ASSUME NEW w \in Workers, Fetch(w) PROVE CurrentArray'
  BY <1>23 DEF Fetch
<1>24. ASSUME NEW w \in Workers, Finish(w) PROVE CurrentArray'
  BY <1>24 DEF Finish
<1>25. ASSUME NEW w \in Workers, Notify(w) PROVE CurrentArray'
  BY <1>25 DEF Notify
<1>26. ASSUME NEW w \in Workers, SpuriousWorker(w) PROVE CurrentArray'
  BY <1>26 DEF SpuriousWorker
<1>27. CASE UNCHANGED vars
  BY <1>27
<1>28. QED
  BY <1>1, <1>2, <1>3, <1>4, <1>5, <1>6, <1>7, <1>8, <1>9, <1>10, <1>11, <1>12,
     <1>13, <1>14, <1>15, <1>16, <1>17, <1>18, <1>19, <1>20, <1>21, <1>22, <1>23,
     <1>24, <1>25, <1>26, <1>27 DEF Next, Run, Destroy, Loop

\* Every step preserves that a running task has its buffers.
LEMMA BuffersPreserved ==
  ASSUME TypeOK, CasPositive, QuietOutsideRuns, BuffersOfATaskStay, [Next]_vars
  PROVE  BuffersOfATaskStay'
<1> USE DEF TypeOK, MGoto, WGoto, WakeWorkers, WorkerPoints, MasterPoints, InRun,
         vars, shared, locks, local, master, BuffersOfATaskStay, Busy,
         QuietOutsideRuns
<1>1. CASE RunPending
  BY <1>1 DEF RunPending
<1>2. CASE RunTasks
  BY <1>2 DEF RunTasks
<1>3. CASE RunCount
  BY <1>3 DEF RunCount
<1>4. CASE RunWake
  BY <1>4 DEF RunWake
<1>5. CASE RunLock
  BY <1>5 DEF RunLock
<1>6. CASE RunTest
  BY <1>6 DEF RunTest
<1>7. CASE RunWait
  BY <1>7 DEF RunWait
<1>8. CASE RunRelock
  BY <1>8 DEF RunRelock
<1>9. CASE ResetBuffers
  BY <1>9 DEF ResetBuffers
<1>10. CASE DestroyFlag
  BY <1>10 DEF DestroyFlag
<1>11. CASE DestroyWorkers
  BY <1>11 DEF DestroyWorkers
<1>12. CASE DestroyMaster
  BY <1>12 DEF DestroyMaster
<1>13. CASE DestroyJoin
  BY <1>13 DEF DestroyJoin
<1>14. CASE SpuriousMaster
  BY <1>14 DEF SpuriousMaster
<1>15. ASSUME NEW w \in Workers, Load(w) PROVE BuffersOfATaskStay'
  BY <1>15 DEF Load
<1>16. ASSUME NEW w \in Workers, Lock(w) PROVE BuffersOfATaskStay'
  BY <1>16 DEF Lock
<1>17. ASSUME NEW w \in Workers, CheckTerminate(w) PROVE BuffersOfATaskStay'
  BY <1>17 DEF CheckTerminate
<1>18. ASSUME NEW w \in Workers, Recheck(w) PROVE BuffersOfATaskStay'
  BY <1>18 DEF Recheck
<1>19. ASSUME NEW w \in Workers, Sleep(w) PROVE BuffersOfATaskStay'
  BY <1>19 DEF Sleep
<1>20. ASSUME NEW w \in Workers, Awake(w) PROVE BuffersOfATaskStay'
  BY <1>20 DEF Awake
<1>21. ASSUME NEW w \in Workers, Claim(w) PROVE BuffersOfATaskStay'
  BY <1>21 DEF Claim
<1>22. ASSUME NEW w \in Workers, ClaimFail(w) PROVE BuffersOfATaskStay'
  BY <1>22 DEF ClaimFail
<1>23. ASSUME NEW w \in Workers, Fetch(w) PROVE BuffersOfATaskStay'
  BY <1>23 DEF Fetch
<1>24. ASSUME NEW w \in Workers, Finish(w) PROVE BuffersOfATaskStay'
  BY <1>24 DEF Finish
<1>25. ASSUME NEW w \in Workers, Notify(w) PROVE BuffersOfATaskStay'
  BY <1>25 DEF Notify
<1>26. ASSUME NEW w \in Workers, SpuriousWorker(w) PROVE BuffersOfATaskStay'
  BY <1>26 DEF SpuriousWorker
<1>27. CASE UNCHANGED vars
  BY <1>27
<1>28. QED
  BY <1>1, <1>2, <1>3, <1>4, <1>5, <1>6, <1>7, <1>8, <1>9, <1>10, <1>11, <1>12,
     <1>13, <1>14, <1>15, <1>16, <1>17, <1>18, <1>19, <1>20, <1>21, <1>22, <1>23,
     <1>24, <1>25, <1>26, <1>27 DEF Next, Run, Destroy, Loop

\* A broadcast under worker_lock reaches every worker that sleeps or was about to.
LEMMA WorkersWoken ==
  ASSUME TypeOK, Locks, WakeWorkers
  PROVE  \A w \in Workers : wpc'[w] \notin {"tosleep", "asleep"}
<1> SUFFICES ASSUME NEW w \in Workers PROVE wpc'[w] \notin {"tosleep", "asleep"}
  OBVIOUS
<1>1. wpc[w] # "tosleep"
  BY WorkersAssumption DEF WakeWorkers, Locks
<1>2. QED
  BY <1>1 DEF WakeWorkers, TypeOK, WorkerPoints

\* Every step preserves that no worker sleeps through the store to task_count.
LEMMA AwakePreserved ==
  ASSUME TypeOK, Locks, CasPositive, QuietOutsideRuns, WorkersAwake, [Next]_vars
  PROVE  WorkersAwake'
<1>1. CASE RunWake
  BY <1>1, WorkersWoken DEF RunWake, WorkersAwake
<1>2. CASE DestroyWorkers
  <2>1. task_count' = 0
    BY <1>2 DEF DestroyWorkers
  <2>2. QED
    BY <2>1 DEF WorkersAwake
<1>3. ASSUME NEW w \in Workers, Recheck(w) PROVE WorkersAwake'
  <2>1. wpc' = [wpc EXCEPT ![w] = IF task_count = 0 THEN "tosleep" ELSE "load"]
    BY <1>3 DEF Recheck, WGoto
  <2>2. task_count' = task_count /\ mpc' = mpc
    BY <1>3 DEF Recheck, shared, master
  <2>3. task_count > 0 => task_count # 0
    OBVIOUS
  <2>4. QED
    BY <2>1, <2>2, <2>3 DEF WorkersAwake, TypeOK
<1>4. ASSUME NEW w \in Workers, Claim(w) PROVE WorkersAwake'
  <2>1. wpc' = [wpc EXCEPT ![w] = "fetch"]
    BY <1>4 DEF Claim, WGoto
  <2>2. task_count > 0 /\ mpc' = mpc
    BY <1>4, ClaimEffect
  <2>3. QED
    BY <2>1, <2>2 DEF WorkersAwake, TypeOK
<1> USE DEF TypeOK, MGoto, WGoto, WakeWorkers, WorkerPoints, MasterPoints, InRun,
         vars, shared, locks, local, master, WorkersAwake
<1>5. CASE RunPending
  BY <1>5 DEF RunPending
<1>6. CASE RunTasks
  BY <1>6 DEF RunTasks
<1>7. CASE RunCount
  BY <1>7 DEF RunCount
<1>8. CASE RunLock
  BY <1>8 DEF RunLock
<1>9. CASE RunTest
  BY <1>9 DEF RunTest
<1>10. CASE RunWait
  BY <1>10 DEF RunWait
<1>11. CASE RunRelock
  BY <1>11 DEF RunRelock
<1>12. CASE ResetBuffers
  BY <1>12 DEF ResetBuffers
<1>13. CASE DestroyFlag
  BY <1>13 DEF DestroyFlag
<1>14. CASE DestroyMaster
  BY <1>14 DEF DestroyMaster
<1>15. CASE DestroyJoin
  BY <1>15 DEF DestroyJoin
<1>16. CASE SpuriousMaster
  BY <1>16 DEF SpuriousMaster
<1>17. ASSUME NEW w \in Workers, Load(w) PROVE WorkersAwake'
  BY <1>17 DEF Load
<1>18. ASSUME NEW w \in Workers, Lock(w) PROVE WorkersAwake'
  BY <1>18 DEF Lock
<1>19. ASSUME NEW w \in Workers, CheckTerminate(w) PROVE WorkersAwake'
  BY <1>19 DEF CheckTerminate
<1>20. ASSUME NEW w \in Workers, Sleep(w) PROVE WorkersAwake'
  BY <1>20 DEF Sleep
<1>21. ASSUME NEW w \in Workers, Awake(w) PROVE WorkersAwake'
  BY <1>21 DEF Awake
<1>22. ASSUME NEW w \in Workers, ClaimFail(w) PROVE WorkersAwake'
  BY <1>22 DEF ClaimFail
<1>23. ASSUME NEW w \in Workers, Fetch(w) PROVE WorkersAwake'
  BY <1>23 DEF Fetch
<1>24. ASSUME NEW w \in Workers, Finish(w) PROVE WorkersAwake'
  BY <1>24 DEF Finish
<1>25. ASSUME NEW w \in Workers, Notify(w) PROVE WorkersAwake'
  BY <1>25 DEF Notify
<1>26. ASSUME NEW w \in Workers, SpuriousWorker(w) PROVE WorkersAwake'
  BY <1>26 DEF SpuriousWorker
<1>27. CASE UNCHANGED vars
  BY <1>27
<1>28. QED
  BY <1>1, <1>2, <1>3, <1>4, <1>5, <1>6, <1>7, <1>8, <1>9, <1>10, <1>11, <1>12,
     <1>13, <1>14, <1>15, <1>16, <1>17, <1>18, <1>19, <1>20, <1>21, <1>22, <1>23,
     <1>24, <1>25, <1>26, <1>27 DEF Next, Run, Destroy, Loop

\* Every step preserves that a master asleep on a finished run will be woken.
LEMMA NotifiedPreserved ==
  ASSUME TypeOK, Locks, QuietOutsideRuns, PendingIsLeft, Terminating, MasterNotified, [Next]_vars
  PROVE  MasterNotified'
<1>1. ASSUME NEW w \in Workers, Finish(w) PROVE MasterNotified'
  <2>1. pending_count > 0 /\ pending_count' = pending_count - 1 /\ pending_count \in Nat
    BY <1>1, FinishEffect DEF TypeOK
  <2>2. CASE pending_count = 1
    BY <1>1, <2>2 DEF Finish, WGoto, TypeOK, MasterNotified
  <2>3. CASE pending_count # 1
    BY <2>1, <2>3 DEF MasterNotified
  <2>4. QED
    BY <2>2, <2>3
<1> USE DEF TypeOK, MGoto, WGoto, WakeWorkers, WorkerPoints, MasterPoints, InRun,
         vars, shared, locks, local, master, MasterNotified, Locks
<1>2. CASE RunPending
  BY <1>2 DEF RunPending
<1>3. CASE RunTasks
  BY <1>3 DEF RunTasks
<1>4. CASE RunCount
  BY <1>4 DEF RunCount
<1>5. CASE RunWake
  BY <1>5 DEF RunWake
<1>6. CASE RunLock
  BY <1>6 DEF RunLock
<1>7. CASE RunTest
  BY <1>7 DEF RunTest
<1>8. CASE RunWait
  BY <1>8 DEF RunWait
<1>9. CASE RunRelock
  BY <1>9 DEF RunRelock
<1>10. CASE ResetBuffers
  BY <1>10 DEF ResetBuffers
<1>11. CASE DestroyFlag
  BY <1>11 DEF DestroyFlag
<1>12. CASE DestroyWorkers
  BY <1>12 DEF DestroyWorkers
<1>13. CASE DestroyMaster
  BY <1>13 DEF DestroyMaster
<1>14. CASE DestroyJoin
  BY <1>14 DEF DestroyJoin
<1>15. CASE SpuriousMaster
  BY <1>15 DEF SpuriousMaster
<1>16. ASSUME NEW w \in Workers, Load(w) PROVE MasterNotified'
  BY <1>16 DEF Load
<1>17. ASSUME NEW w \in Workers, Lock(w) PROVE MasterNotified'
  BY <1>17 DEF Lock
<1>18. ASSUME NEW w \in Workers, CheckTerminate(w) PROVE MasterNotified'
  BY <1>18 DEF CheckTerminate
<1>19. ASSUME NEW w \in Workers, Recheck(w) PROVE MasterNotified'
  BY <1>19 DEF Recheck
<1>20. ASSUME NEW w \in Workers, Sleep(w) PROVE MasterNotified'
  BY <1>20 DEF Sleep
<1>21. ASSUME NEW w \in Workers, Awake(w) PROVE MasterNotified'
  BY <1>21 DEF Awake
<1>22. ASSUME NEW w \in Workers, Claim(w) PROVE MasterNotified'
  BY <1>22 DEF Claim
<1>23. ASSUME NEW w \in Workers, ClaimFail(w) PROVE MasterNotified'
  BY <1>23 DEF ClaimFail
<1>24. ASSUME NEW w \in Workers, Fetch(w) PROVE MasterNotified'
  BY <1>24 DEF Fetch
<1>25. ASSUME NEW w \in Workers, Notify(w) PROVE MasterNotified'
  BY <1>25 DEF Notify
<1>26. ASSUME NEW w \in Workers, SpuriousWorker(w) PROVE MasterNotified'
  BY <1>26 DEF SpuriousWorker
<1>27. CASE UNCHANGED vars
  BY <1>27
<1>28. QED
  BY <1>1, <1>2, <1>3, <1>4, <1>5, <1>6, <1>7, <1>8, <1>9, <1>10, <1>11, <1>12,
     <1>13, <1>14, <1>15, <1>16, <1>17, <1>18, <1>19, <1>20, <1>21, <1>22, <1>23,
     <1>24, <1>25, <1>26, <1>27 DEF Next, Run, Destroy, Loop

-----------------------------------------------------------------------------
\* The inductive invariant holds initially.
LEMMA InitIInv == Init => IInv
<1> SUFFICES ASSUME Init PROVE IInv
  OBVIOUS
<1>1. TypeOK
  BY DEF Init, TypeOK, WorkerPoints, MasterPoints
<1>2. Busy = {}
  BY DEF Init, Busy
<1>3. Locks /\ Terminating /\ CasPositive /\ CurrentArray
  BY DEF Init, Locks, Terminating, Stopping, CasPositive, CurrentArray
<1>4. QuietOutsideRuns /\ PendingIsLeft
  BY <1>2, FS_EmptySet DEF Init, QuietOutsideRuns, PendingIsLeft, Announced
<1>5. Partition
  BY <1>2, BoundsAssumption DEF Init, Partition
<1>6. BuffersOfATaskStay /\ NoLostWakeup
  BY DEF Init, BuffersOfATaskStay, NoLostWakeup, WorkersAwake, MasterNotified
<1>7. QED
  BY <1>1, <1>3, <1>4, <1>5, <1>6 DEF IInv

\* The inductive invariant is preserved by every step.
LEMMA NextIInv == IInv /\ [Next]_vars => IInv'
BY TypePreserved, LocksPreserved, TerminatingPreserved, CasPreserved, QuietPreserved,
   PendingPreserved, PartitionPreserved, ArrayPreserved, BuffersPreserved,
   AwakePreserved, NotifiedPreserved DEF IInv, NoLostWakeup

\* The inductive invariant holds in every reachable state of the pool, for every number of
\* workers and every size of a batch.
THEOREM Invariance == Spec => []IInv
<1>1. QED
  BY InitIInv, NextIInv, PTL DEF Spec

\* Every variable keeps its type; in particular the two atomic counters never go below zero.
THEOREM TypeCorrect == Spec => []TypeOK
<1>1. IInv => TypeOK
  BY DEF IInv
<1>2. QED
  BY Invariance, <1>1, PTL

\* What the inductive invariant says of a worker that holds a task.
LEMMA BusyInsideRun ==
  ASSUME IInv, NEW w \in Busy
  PROVE  /\ mpc \in InRun
         /\ task[w] \in task_count..(count - 1) /\ task[w] \notin finished
         /\ \A v \in Busy \ {w} : task[v] # task[w]
<1>1. mpc \in InRun
  BY DEF IInv, QuietOutsideRuns
<1>2. mpc \notin {"tasks", "count"}
  BY <1>1 DEF InRun
<1>3. QED
  BY <1>1, <1>2 DEF IInv, Partition

\* The compare-exchange on task_count hands every task to one worker, once.
THEOREM TasksExecutedOnce == Spec => []ExactlyOnce
<1>1. IInv => ExactlyOnce
  <2> SUFFICES ASSUME IInv, NEW w \in Busy
               PROVE  /\ task[w] \notin finished /\ task[w] >= task_count
                      /\ \A v \in Busy \ {w} : task[v] # task[w]
    BY DEF ExactlyOnce
  <2>1. task_count \in Nat /\ count \in Nat /\ w \in Workers /\ task \in [Workers -> Nat]
    BY DEF IInv, TypeOK, Busy
  <2>2. QED
    BY <2>1, BusyInsideRun
<1>2. QED
  BY Invariance, <1>1, PTL

\* "threadpool_run will block until all tasks have finished".
THEOREM RunBlocks == Spec => []BlocksUntilFinished
<1>1. IInv => BlocksUntilFinished
  <2> SUFFICES ASSUME IInv, mpc = "idle" PROVE finished = 0..(count - 1) /\ Busy = {}
    BY DEF BlocksUntilFinished
  <2>1. task_count = 0 /\ Busy = {}
    BY DEF IInv, QuietOutsideRuns, InRun
  <2>2. QED
    BY <2>1 DEF IInv, Partition
<1>2. QED
  BY Invariance, <1>1, PTL

\* Storing tasks before task_count keeps workers off a stale or a foreign array.
THEOREM TasksOfThisRun == Spec => []RightArray
<1>1. IInv => RightArray
  <2> SUFFICES ASSUME IInv, NEW w \in Workers, wpc[w] = "run"
               PROVE  array[w] = run /\ task[w] \in 0..(count - 1)
    BY DEF RightArray
  <2>1. task_count \in Nat /\ count \in Nat /\ w \in Busy
    BY DEF IInv, TypeOK, Busy
  <2>2. QED
    BY <2>1, BusyInsideRun DEF IInv, CurrentArray
<1>2. QED
  BY Invariance, <1>1, PTL

\* threadpool_reset_buffers and threadpool_destroy never free a buffer in use.
THEOREM BuffersSafe == Spec => []BuffersOfATaskStay
<1>1. IInv => BuffersOfATaskStay
  BY DEF IInv
<1>2. QED
  BY Invariance, <1>1, PTL

\* "this makes lost wakeup impossible", for the workers and for the master.
THEOREM WakeupsNotLost == Spec => []NoLostWakeup
<1>1. IInv => NoLostWakeup
  BY DEF IInv
<1>2. QED
  BY Invariance, <1>1, PTL

-----------------------------------------------------------------------------
\* The initial state of the pool is an initial state of the batch.
LEMMA InitRefines == Init => Batch!BatchInit
BY DEF Init, Batch!BatchInit, Phase, InRun, Busy

\* Every step of the pool is a step of the batch or leaves the batch unchanged.
LEMMA StepRefines == IInv /\ [Next]_vars => [Batch!BatchNext]_Batch!batchVars
<1> SUFFICES ASSUME IInv, [Next]_vars PROVE [Batch!BatchNext]_Batch!batchVars
  OBVIOUS
<1> DEFINE active == {task[w] : w \in Busy}
<1>1. CASE RunCount
  <2>1. Phase = "idle" /\ Phase' = "running" /\ count \in 0..MaxTasks
    BY <1>1 DEF RunCount, MGoto, Phase, InRun, IInv, TypeOK, Partition
  <2>2. 0..(task_count' - 1) = 0..(count - 1) /\ finished' = {}
    BY <1>1 DEF RunCount
  <2>3. active' = active
    BY <1>1 DEF RunCount, local, Busy
  <2>4. QED
    BY <2>1, <2>2, <2>3 DEF Batch!BatchNext, Batch!Submit
<1>2. ASSUME NEW w \in Workers, Claim(w) PROVE [Batch!BatchNext]_Batch!batchVars
  <2>1. Phase' = Phase /\ finished' = finished
    BY <1>2, ClaimEffect DEF Phase, IInv
  <2>2. 0..(task_count' - 1) = (0..(task_count - 1)) \ {task_count - 1}
    BY <1>2, ClaimEffect DEF IInv, TypeOK
  <2>3. active' = active \union {task_count - 1}
    BY <1>2, ClaimEffect DEF IInv, TypeOK, Busy
  <2>4. task_count - 1 \in 0..(task_count - 1) /\ task_count - 1 \in 0..MaxTasks
    <3>1. task_count > 0 /\ mpc \in InRun /\ task_count \in Nat /\ count \in Nat
      BY <1>2, ClaimEffect DEF IInv, TypeOK
    <3>2. task_count <= count /\ count <= MaxTasks
      BY <3>1 DEF IInv, Partition, InRun
    <3>3. QED
      BY <3>1, <3>2, BoundsAssumption
  <2>5. PICK t : t = task_count - 1
    OBVIOUS
  <2>6. t \in 0..MaxTasks /\ Batch!Start(t)
    BY <2>1, <2>2, <2>3, <2>4, <2>5 DEF Batch!Start
  <2>7. QED
    BY <2>6 DEF Batch!BatchNext
<1>3. ASSUME NEW w \in Workers, Finish(w) PROVE [Batch!BatchNext]_Batch!batchVars
  <2>1. Phase' = Phase /\ task_count' = task_count /\ finished' = finished \union {task[w]}
    BY <1>3, FinishEffect DEF Phase, IInv
  <2>2. w \in Busy
    BY <1>3, FinishEffect DEF IInv
  <2>3. active' = active \ {task[w]}
    <3>1. \A v \in Busy \ {w} : v \in Workers /\ task[v] # task[w]
      BY <2>2, BusyInsideRun DEF Busy
    <3>2. \A v \in Busy \ {w} : task'[v] = task[v]
      BY <1>3, <3>1, FinishEffect DEF IInv, TypeOK
    <3>3. Busy' = Busy \ {w}
      BY <1>3, FinishEffect DEF IInv
    <3>4. QED
      BY <3>1, <3>2, <3>3, <2>2
  <2>4. task[w] \in 0..MaxTasks
    <3>1. task[w] \in task_count..(count - 1) /\ task_count \in Nat /\ count \in Nat /\ count <= MaxTasks
      BY <2>2, BusyInsideRun DEF IInv, TypeOK, Partition
    <3>2. QED
      BY <3>1, BoundsAssumption
  <2>5. PICK t : t = task[w]
    OBVIOUS
  <2>6. t \in 0..MaxTasks /\ Batch!Finish(t)
    BY <2>1, <2>2, <2>3, <2>4, <2>5 DEF Batch!Finish
  <2>7. QED
    BY <2>6 DEF Batch!BatchNext
<1>4. CASE RunTest
  <2>1. active' = active /\ task_count' = task_count /\ finished' = finished
    BY <1>4 DEF RunTest, local, shared, Busy
  <2>2. CASE mpc' = "idle"
    <3>1. QuietOutsideRuns'
      BY QuietPreserved DEF IInv
    <3>2. task_count = 0 /\ active = {} /\ Phase = "running" /\ Phase' = "idle"
      BY <1>4, <2>2, <3>1 DEF QuietOutsideRuns, RunTest, MGoto, Phase, InRun, local, shared, Busy
    <3>3. Batch!Return
      BY <2>1, <3>2 DEF Batch!Return
    <3>4. QED
      BY <3>3 DEF Batch!BatchNext
  <2>3. CASE mpc' # "idle"
    <3>1. Phase' = Phase
      BY <1>4, <2>3 DEF RunTest, MGoto, Phase, InRun
    <3>2. QED
      BY <2>1, <3>1 DEF Batch!batchVars
  <2>4. QED
    BY <2>2, <2>3
<1>5. CASE DestroyFlag
  <2>1. active' = active /\ task_count' = task_count /\ finished' = finished
    BY <1>5 DEF DestroyFlag, local, Busy
  <2>2. Phase = "idle" /\ Phase' = "closed"
    BY <1>5 DEF DestroyFlag, MGoto, Phase, InRun
  <2>3. QED
    BY <2>1, <2>2 DEF Batch!BatchNext, Batch!Close
<1>6. CASE RunPending \/ RunTasks
  <2>1. active' = active /\ task_count' = task_count /\ finished' = finished
    BY <1>6 DEF RunPending, RunTasks, local, Busy
  <2>2. Phase = "idle" /\ Phase' = "idle"
    BY <1>6 DEF RunPending, RunTasks, MGoto, Phase, InRun
  <2>3. QED
    BY <2>1, <2>2 DEF Batch!batchVars
<1>7. CASE UnchangedTasks /\ Phase' = Phase
  <2>1. active' = active
    BY <1>7 DEF UnchangedTasks
  <2>2. QED
    BY <1>7, <2>1 DEF UnchangedTasks, Batch!batchVars
<1>8. \/ Phase' = Phase \/ RunCount \/ RunTest \/ DestroyFlag
  <2> USE DEF MGoto, Phase, InRun, vars, master
  <2>1. CASE RunPending
    BY <2>1 DEF RunPending
  <2>2. CASE RunTasks
    BY <2>2 DEF RunTasks
  <2>3. CASE RunWake
    BY <2>3 DEF RunWake
  <2>4. CASE RunLock
    BY <2>4 DEF RunLock
  <2>5. CASE RunWait
    BY <2>5 DEF RunWait
  <2>6. CASE RunRelock
    BY <2>6 DEF RunRelock
  <2>7. CASE ResetBuffers
    BY <2>7 DEF ResetBuffers
  <2>8. CASE DestroyWorkers
    BY <2>8 DEF DestroyWorkers
  <2>9. CASE DestroyMaster
    BY <2>9 DEF DestroyMaster
  <2>10. CASE DestroyJoin
    BY <2>10 DEF DestroyJoin
  <2>11. CASE SpuriousMaster
    BY <2>11 DEF SpuriousMaster
  <2>12. ASSUME NEW w \in Workers, Load(w) PROVE Phase' = Phase
    BY <2>12 DEF Load
  <2>13. ASSUME NEW w \in Workers, Lock(w) PROVE Phase' = Phase
    BY <2>13 DEF Lock
  <2>14. ASSUME NEW w \in Workers, CheckTerminate(w) PROVE Phase' = Phase
    BY <2>14 DEF CheckTerminate
  <2>15. ASSUME NEW w \in Workers, Recheck(w) PROVE Phase' = Phase
    BY <2>15 DEF Recheck
  <2>16. ASSUME NEW w \in Workers, Sleep(w) PROVE Phase' = Phase
    BY <2>16 DEF Sleep
  <2>17. ASSUME NEW w \in Workers, Awake(w) PROVE Phase' = Phase
    BY <2>17 DEF Awake
  <2>18. ASSUME NEW w \in Workers, Claim(w) PROVE Phase' = Phase
    BY <2>18 DEF Claim
  <2>19. ASSUME NEW w \in Workers, ClaimFail(w) PROVE Phase' = Phase
    BY <2>19 DEF ClaimFail
  <2>20. ASSUME NEW w \in Workers, Fetch(w) PROVE Phase' = Phase
    BY <2>20 DEF Fetch
  <2>21. ASSUME NEW w \in Workers, Finish(w) PROVE Phase' = Phase
    BY <2>21 DEF Finish
  <2>22. ASSUME NEW w \in Workers, Notify(w) PROVE Phase' = Phase
    BY <2>22 DEF Notify
  <2>23. ASSUME NEW w \in Workers, SpuriousWorker(w) PROVE Phase' = Phase
    BY <2>23 DEF SpuriousWorker
  <2>24. CASE UNCHANGED vars
    BY <2>24
  <2>25. QED
    BY <2>1, <2>2, <2>3, <2>4, <2>5, <2>6, <2>7, <2>8, <2>9, <2>10, <2>11, <2>12,
       <2>13, <2>14, <2>15, <2>16, <2>17, <2>18, <2>19, <2>20, <2>21, <2>22, <2>23,
       <2>24 DEF Next, Run, Destroy, Loop
<1>9. TaskStep
  BY TaskFrame DEF IInv
<1>10. QED
  BY <1>1, <1>2, <1>3, <1>4, <1>5, <1>6, <1>7, <1>8, <1>9 DEF TaskStep

\* The pool implements its abstract specification: to its caller the atomics, the mutexes and
\* the workers are invisible.
THEOREM Implementation == Spec => ImplementsTaskBatch
<1>1. QED
  BY Invariance, InitRefines, StepRefines, PTL DEF Spec, ImplementsTaskBatch, Batch!BatchSpec

=============================================================================
