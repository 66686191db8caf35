----------------------------- MODULE TaskBatch -----------------------------
(***************************************************************************)
(* What threadpool.h promises to a caller of the pool, without threads,    *)
(* locks or atomics: a batch of tasks is handed over, every task of it is  *)
(* started once and finished once, and the call returns when all of them   *)
(* have finished.  A new batch is accepted only after that return.         *)
(*                                                                         *)
(* ThreadPool.tla implements this specification.                           *)
(***************************************************************************)
EXTENDS Integers

CONSTANT MaxTasks   \* the largest batch a caller hands over

VARIABLES
    phase,   \* "idle", "running" (inside threadpool_run) or "closed"
    todo,    \* tasks of the batch nobody has claimed
    active,  \* tasks a worker has claimed and not finished
    done     \* tasks whose function has returned

batchVars == <<phase, todo, active, done>>

BatchInit ==
    /\ phase = "idle"
    /\ todo = {} /\ active = {} /\ done = {}

\* "run count tasks defined in tasks using a function pointer"
Submit ==
    /\ phase = "idle"
    /\ phase' = "running"
    /\ \E n \in 0..MaxTasks : todo' = 0..(n - 1)
    /\ done' = {}
    /\ UNCHANGED active

Start(t) ==
    /\ t \in todo
    /\ todo' = todo \ {t}
    /\ active' = active \union {t}
    /\ UNCHANGED <<phase, done>>

Finish(t) ==
    /\ t \in active
    /\ active' = active \ {t}
    /\ done' = done \union {t}
    /\ UNCHANGED <<phase, todo>>

\* "threadpool_run will block until all tasks have finished"
Return ==
    /\ phase = "running"
    /\ todo = {} /\ active = {}
    /\ phase' = "idle"
    /\ UNCHANGED <<todo, active, done>>

Close ==
    /\ phase = "idle"
    /\ phase' = "closed"
    /\ UNCHANGED <<todo, active, done>>

BatchNext ==
    \/ Submit \/ Return \/ Close
    \/ \E t \in 0..MaxTasks : Start(t) \/ Finish(t)

BatchSpec == BatchInit /\ [][BatchNext]_batchVars

=============================================================================
