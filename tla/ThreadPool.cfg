\* two workers: one may take all tasks and the other none
CONSTANTS
    w1 = w1
    w2 = w2
    Workers = {w1, w2}
    Nobody = Nobody
    MaxTasks = 2
    MaxRuns = 2
SPECIFICATION FairSpec
\* a pool that was destroyed, or that nobody uses again, stops
CHECK_DEADLOCK FALSE
INVARIANTS
    ExactlyOnce
    BlocksUntilFinished
    BuffersOfATaskStay
    NoLostWakeup
PROPERTIES
    ImplementsTaskBatch
    CallsReturn
