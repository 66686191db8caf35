--------------------------- MODULE MCTraceMemory ---------------------------
(* What may happen to the trace of one aircraft besides its positions *)
EXTENDS TraceMemory

MCBudgets == {[until |-> 7, gaps |-> 1, saves |-> 1, deletes |-> 0, restarts |-> 1],
              [until |-> 9, gaps |-> 1, saves |-> 0, deletes |-> 0, restarts |-> 0],
              [until |-> 10, gaps |-> 0, saves |-> 0, deletes |-> 1, restarts |-> 0]}
=============================================================================
