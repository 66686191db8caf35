----------------------------- MODULE ThreadPool -----------------------------
(***************************************************************************)
(* threadpool.c: a master thread hands an array of tasks to a fixed set of *)
(* workers and blocks until all of them have finished.                     *)
(*                                                                         *)
(* task_count, pending_count and tasks are atomics accessed WITHOUT the    *)
(* mutexes; worker_lock and master_lock only guard the two condition       *)
(* variables.  Every atomic access, lock acquisition and wait below is a   *)
(* step of its own.  The one reduction: a critical section that contains   *)
(* nothing but a broadcast (or, after a wakeup, nothing at all) is one     *)
(* step that requires the mutex to be free.  A worker's local variable     *)
(* that no later statement reads is set back to 0.                         *)
(*                                                                         *)
(* The user of the pool is readsb.c, track.c, net_io.c and globe_index.c:  *)
(* one thread at a time calls threadpool_run, threadpool_reset_buffers     *)
(* between two runs (writeTraces) and threadpool_destroy at the end.       *)
(***************************************************************************)
EXTENDS Integers, FiniteSets

CONSTANTS
    Workers,     \* the threads of the pool
    Nobody,      \* the owner of a free mutex
    MaxTasks,    \* bound: the largest array handed to threadpool_run
    MaxRuns      \* bound: calls of threadpool_run in a behaviour

ASSUME WorkersAssumption == IsFiniteSet(Workers) /\ Workers # {} /\ Nobody \notin Workers
ASSUME BoundsAssumption == MaxTasks \in Nat /\ MaxRuns \in Nat

VARIABLES
    task_count,     \* atomic: tasks not claimed yet
    pending_count,  \* atomic: tasks not finished yet
    tasks,          \* atomic pointer: the array of the n-th run is called n
    terminate,      \* plain flag set by threadpool_destroy
    worker_lock,    \* its owner
    master_lock,    \* held by the master?
    wpc,            \* control point of each worker
    expected,       \* each worker's local copy of task_count
    task,           \* index of the task each worker claimed
    array,          \* the array each worker loaded that task from
    buffers,        \* does the worker's user_buffers hold memory?
    mpc,            \* control point of the master
    run,            \* number of the current run
    count,          \* the argument of the current run
    finished        \* history: tasks of the current run that returned

shared == <<task_count, pending_count, tasks, terminate>>
locks  == <<worker_lock, master_lock>>
local  == <<wpc, expected, task, array, buffers>>
master == <<mpc, run, count>>
vars   == <<shared, locks, local, master, finished>>

Busy == {w \in Workers : wpc[w] \in {"fetch", "run"}}

InRun == {"wake", "lock", "test", "towait", "waiting", "rewake"}

-----------------------------------------------------------------------------
\* threadpool_create
Init ==
    /\ task_count = 0 /\ pending_count = 0 /\ tasks = 0
    /\ terminate = FALSE
    /\ worker_lock = Nobody /\ master_lock = FALSE
    /\ wpc = [w \in Workers |-> "load"]
    /\ expected = [w \in Workers |-> 0]
    /\ task = [w \in Workers |-> 0]
    /\ array = [w \in Workers |-> 0]
    /\ buffers = [w \in Workers |-> FALSE]
    /\ mpc = "idle" /\ run = 0 /\ count = 0
    /\ finished = {}

MGoto(from, to) == mpc = from /\ mpc' = to

WGoto(w, from, to) == wpc[w] = from /\ wpc' = [wpc EXCEPT ![w] = to]

-----------------------------------------------------------------------------
(* threadpool_run, called by the master *)

RunPending ==
    /\ run < MaxRuns
    /\ MGoto("idle", "tasks")
    /\ run' = run + 1
    /\ \E n \in 0..MaxTasks : count' = n /\ pending_count' = n
    /\ UNCHANGED <<task_count, tasks, terminate, locks, local, finished>>

RunTasks ==
    /\ MGoto("tasks", "count")
    /\ tasks' = run
    /\ UNCHANGED <<task_count, pending_count, terminate, locks, local, run, count, finished>>

RunCount ==
    /\ MGoto("count", "wake")
    /\ task_count' = count
    /\ finished' = {}
    /\ UNCHANGED <<pending_count, tasks, terminate, locks, local, run, count>>

\* a broadcast on notify_worker under worker_lock
WakeWorkers ==
    /\ worker_lock = Nobody
    /\ wpc' = [w \in Workers |-> IF wpc[w] = "asleep" THEN "woken" ELSE wpc[w]]

RunWake ==
    /\ MGoto("wake", "lock")
    /\ WakeWorkers
    /\ UNCHANGED <<shared, locks, expected, task, array, buffers, run, count, finished>>

RunLock ==
    /\ MGoto("lock", "test")
    /\ master_lock' = TRUE
    /\ UNCHANGED <<shared, worker_lock, local, run, count, finished>>

\* Fault: the master waits until every task is claimed, not until it is finished.
RunTestClaimed ==
    /\ IF task_count > 0 /\ ~terminate
       THEN MGoto("test", "towait") /\ UNCHANGED master_lock
       ELSE MGoto("test", "idle") /\ master_lock' = FALSE
    /\ UNCHANGED <<shared, worker_lock, local, run, count, finished>>

\* the condition of the while loop; leaving the loop unlocks and returns
RunTest ==
    /\ IF pending_count > 0 /\ ~terminate
       THEN MGoto("test", "towait") /\ UNCHANGED master_lock
       ELSE MGoto("test", "idle") /\ master_lock' = FALSE
    /\ UNCHANGED <<shared, worker_lock, local, run, count, finished>>

RunWait ==
    /\ MGoto("towait", "waiting")
    /\ master_lock' = FALSE
    /\ UNCHANGED <<shared, worker_lock, local, run, count, finished>>

\* back from pthread_cond_wait with master_lock held again
RunRelock ==
    /\ MGoto("rewake", "test")
    /\ master_lock' = TRUE
    /\ UNCHANGED <<shared, worker_lock, local, run, count, finished>>

-----------------------------------------------------------------------------
(* threadpool_reset_buffers and threadpool_destroy, called by the master *)

ResetBuffers ==
    /\ mpc = "idle"
    /\ \E w \in Workers : buffers[w]
    /\ buffers' = [w \in Workers |-> FALSE]
    /\ UNCHANGED <<shared, locks, wpc, expected, task, array, master, finished>>

DestroyFlag ==
    /\ MGoto("idle", "stop workers")
    /\ terminate' = TRUE
    /\ UNCHANGED <<task_count, pending_count, tasks, locks, local, run, count, finished>>

DestroyWorkers ==
    /\ MGoto("stop workers", "stop master")
    /\ task_count' = 0
    /\ WakeWorkers
    /\ UNCHANGED <<pending_count, tasks, terminate, locks, expected, task, array, buffers,
                   run, count, finished>>

DestroyMaster ==
    /\ MGoto("stop master", "join")
    /\ pending_count' = 0
    /\ UNCHANGED <<task_count, tasks, terminate, locks, local, run, count, finished>>

\* every worker is joined, then its buffers and the pool itself are freed
DestroyJoin ==
    /\ MGoto("join", "gone")
    /\ \A w \in Workers : wpc[w] = "exited"
    /\ buffers' = [w \in Workers |-> FALSE]
    /\ UNCHANGED <<shared, locks, wpc, expected, task, array, run, count, finished>>

-----------------------------------------------------------------------------
(* threadpool_threadproc, the loop of worker w *)

Load(w) ==
    /\ expected' = [expected EXCEPT ![w] = task_count]
    /\ WGoto(w, "load", IF task_count = 0 THEN "lock" ELSE "cas")
    /\ UNCHANGED <<shared, locks, task, array, buffers, master, finished>>

Lock(w) ==
    /\ WGoto(w, "lock", "check")
    /\ worker_lock = Nobody
    /\ worker_lock' = w
    /\ UNCHANGED <<shared, master_lock, expected, task, array, buffers, master, finished>>

\* "if (pool->terminate)" under worker_lock
CheckTerminate(w) ==
    /\ WGoto(w, "check", IF terminate THEN "exited" ELSE "recheck")
    /\ worker_lock' = IF terminate THEN Nobody ELSE worker_lock
    /\ UNCHANGED <<shared, master_lock, expected, task, array, buffers, master, finished>>

\* Fault: no second look at task_count inside worker_lock.
RecheckSkipped(w) ==
    /\ WGoto(w, "recheck", "tosleep")
    /\ UNCHANGED <<shared, locks, expected, task, array, buffers, master, finished>>

\* "re-check task_count inside worker_lock before sleeping"
Recheck(w) ==
    /\ WGoto(w, "recheck", IF task_count = 0 THEN "tosleep" ELSE "load")
    /\ worker_lock' = IF task_count = 0 THEN worker_lock ELSE Nobody
    /\ UNCHANGED <<shared, master_lock, expected, task, array, buffers, master, finished>>

Sleep(w) ==
    /\ WGoto(w, "tosleep", "asleep")
    /\ worker_lock' = Nobody
    /\ UNCHANGED <<shared, master_lock, expected, task, array, buffers, master, finished>>

\* back from pthread_cond_wait: relock, unlock, continue
Awake(w) ==
    /\ WGoto(w, "woken", "load")
    /\ worker_lock = Nobody
    /\ UNCHANGED <<shared, locks, expected, task, array, buffers, master, finished>>

\* Fault: a load and a store instead of the compare-exchange.
ClaimByStore(w) ==
    /\ WGoto(w, "cas", "fetch")
    /\ task_count' = expected[w] - 1
    /\ task' = [task EXCEPT ![w] = expected[w] - 1]
    /\ expected' = [expected EXCEPT ![w] = 0]
    /\ UNCHANGED <<pending_count, tasks, terminate, locks, array, buffers, master, finished>>

\* the compare-exchange succeeds: task_count - 1 is the index of w's task
Claim(w) ==
    /\ WGoto(w, "cas", "fetch")
    /\ task_count = expected[w]
    /\ task_count' = task_count - 1
    /\ task' = [task EXCEPT ![w] = task_count - 1]
    /\ expected' = [expected EXCEPT ![w] = 0]
    /\ UNCHANGED <<pending_count, tasks, terminate, locks, array, buffers, master, finished>>

\* it fails because of another worker, or for no reason: it is the weak form
ClaimFail(w) ==
    /\ WGoto(w, "cas", "load")
    /\ expected' = [expected EXCEPT ![w] = 0]
    /\ UNCHANGED <<shared, locks, task, array, buffers, master, finished>>

\* load the array and enter the task function, which grows the buffers it uses
Fetch(w) ==
    /\ WGoto(w, "fetch", "run")
    /\ array' = [array EXCEPT ![w] = tasks]
    /\ buffers' = [buffers EXCEPT ![w] = TRUE]
    /\ UNCHANGED <<shared, locks, expected, task, master, finished>>

\* Fault: the value before the subtraction is compared with 0.
FinishOffByOne(w) ==
    /\ WGoto(w, "run", IF pending_count = 0 THEN "notify" ELSE "load")
    /\ pending_count' = pending_count - 1
    /\ finished' = finished \union {task[w]}
    /\ task' = [task EXCEPT ![w] = 0]
    /\ array' = [array EXCEPT ![w] = 0]
    /\ UNCHANGED <<task_count, tasks, terminate, locks, expected, buffers, master>>

\* the function returned: atomic_fetch_sub on pending_count
Finish(w) ==
    /\ WGoto(w, "run", IF pending_count = 1 THEN "notify" ELSE "load")
    /\ pending_count' = pending_count - 1
    /\ finished' = finished \union {task[w]}
    /\ task' = [task EXCEPT ![w] = 0]
    /\ array' = [array EXCEPT ![w] = 0]
    /\ UNCHANGED <<task_count, tasks, terminate, locks, expected, buffers, master>>

\* a broadcast on notify_master under master_lock
Notify(w) ==
    /\ WGoto(w, "notify", "load")
    /\ ~master_lock
    /\ mpc' = IF mpc = "waiting" THEN "rewake" ELSE mpc
    /\ UNCHANGED <<shared, locks, expected, task, array, buffers, run, count, finished>>

-----------------------------------------------------------------------------
\* POSIX allows a condition wait to return without a signal
SpuriousWorker(w) ==
    /\ WGoto(w, "asleep", "woken")
    /\ UNCHANGED <<shared, locks, expected, task, array, buffers, master, finished>>

SpuriousMaster ==
    /\ MGoto("waiting", "rewake")
    /\ UNCHANGED <<shared, locks, local, run, count, finished>>

Run == RunPending \/ RunTasks \/ RunCount \/ RunWake \/ RunLock \/ RunTest \/ RunWait \/ RunRelock

Destroy == DestroyFlag \/ DestroyWorkers \/ DestroyMaster \/ DestroyJoin

Loop(w) ==
    \/ Load(w) \/ Lock(w) \/ CheckTerminate(w) \/ Recheck(w) \/ Sleep(w) \/ Awake(w)
    \/ Claim(w) \/ ClaimFail(w) \/ Fetch(w) \/ Finish(w) \/ Notify(w)

Next ==
    \/ Run \/ ResetBuffers \/ Destroy \/ SpuriousMaster
    \/ \E w \in Workers : Loop(w) \/ SpuriousWorker(w)

Spec == Init /\ [][Next]_vars

(***************************************************************************)
(* Every thread that can step eventually does.  SF where a step can be     *)
(* disabled again and again: a mutex that keeps being released is          *)
(* eventually obtained, and a compare-exchange that is retried does not    *)
(* fail for ever without contention.  Nothing obliges the caller to start  *)
(* a run, to reset the buffers or to destroy the pool (RunPending,         *)
(* ResetBuffers and DestroyFlag are not fair), and no wakeup is spurious   *)
(* by obligation.                                                          *)
(***************************************************************************)
RunSteps == RunTasks \/ RunCount \/ RunWake \/ RunLock \/ RunTest \/ RunWait \/ RunRelock
DestroySteps == DestroyWorkers \/ DestroyMaster \/ DestroyJoin

Fairness ==
    /\ SF_vars(RunSteps) /\ SF_vars(DestroySteps)
    /\ \A w \in Workers : /\ WF_vars(Loop(w))
                          /\ SF_vars(Claim(w)) /\ SF_vars(Lock(w)) /\ SF_vars(Notify(w))

FairSpec == Spec /\ Fairness

-----------------------------------------------------------------------------
(* Properties *)

WorkerPoints == {"load", "lock", "check", "recheck", "tosleep", "asleep", "woken",
                 "cas", "fetch", "run", "notify", "exited"}
MasterPoints == InRun \union {"idle", "tasks", "count", "stop workers", "stop master",
                              "join", "gone"}

\* The type of every variable.
TypeOK ==
    /\ task_count \in Nat /\ pending_count \in Nat /\ tasks \in Nat
    /\ terminate \in BOOLEAN
    /\ worker_lock \in Workers \union {Nobody} /\ master_lock \in BOOLEAN
    /\ wpc \in [Workers -> WorkerPoints]
    /\ expected \in [Workers -> Nat]
    /\ task \in [Workers -> Nat]
    /\ array \in [Workers -> Nat]
    /\ buffers \in [Workers -> BOOLEAN]
    /\ mpc \in MasterPoints /\ run \in Nat /\ count \in Nat
    /\ finished \in SUBSET Nat

\* Two workers never hold the same task, none is executed after it returned, and
\* no claimed task can be claimed again (the compare-exchange on task_count).
ExactlyOnce ==
    \A w \in Busy :
        /\ task[w] \notin finished /\ task[w] >= task_count
        /\ \A v \in Busy \ {w} : task[v] # task[w]

\* When threadpool_run returns, every task of its array has finished and no worker
\* is still inside one ("threadpool_run will block until all tasks have finished").
BlocksUntilFinished ==
    mpc = "idle" => finished = 0..(count - 1) /\ Busy = {}

\* A worker only ever executes tasks of the current run's array, inside its bounds:
\* tasks and pending_count are in place before task_count is ("this order is important").
RightArray ==
    \A w \in Workers : wpc[w] = "run" => array[w] = run /\ task[w] \in 0..(count - 1)

\* threadpool_reset_buffers and threadpool_destroy never free a buffer a task is using.
BuffersOfATaskStay == \A w \in Workers : wpc[w] = "run" => buffers[w]

\* "this makes lost wakeup impossible": while there is a task to claim a worker can be
\* asleep (or about to be) only if the master has yet to broadcast; and the master sleeps
\* on a finished run only if a worker has yet to broadcast.
WorkersAwake ==
    task_count > 0 /\ mpc # "wake" => \A w \in Workers : wpc[w] \notin {"tosleep", "asleep"}
MasterNotified ==
    mpc \in {"towait", "waiting"} /\ pending_count = 0 => \E w \in Workers : wpc[w] = "notify"
NoLostWakeup == WorkersAwake /\ MasterNotified

\* threadpool_run returns, threadpool_destroy joins every worker and returns: nobody sleeps
\* through the broadcast that was meant for him, in whatever order the threads arrive.
RunReturns == mpc \in InRun ~> mpc = "idle"
DestroyReturns == mpc = "stop workers" ~> mpc = "gone"
CallsReturn == RunReturns /\ DestroyReturns

\* The pool implements TaskBatch: the store to task_count submits the batch, a
\* compare-exchange starts a task, a fetch_sub finishes it.
Phase == CASE mpc \in InRun -> "running"
           [] mpc \in {"stop workers", "stop master", "join", "gone"} -> "closed"
           [] OTHER -> "idle"

Batch == INSTANCE TaskBatch
    WITH phase  <- Phase,
         todo   <- 0..(task_count - 1),
         active <- {task[w] : w \in Busy},
         done   <- finished

ImplementsTaskBatch == Batch!BatchSpec

=============================================================================
