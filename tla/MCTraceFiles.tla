---------------------------- MODULE MCTraceFiles ----------------------------
(* Two aircraft in one bucket, and an empty bucket that is a part of its own *)
EXTENDS TraceFiles

MCChains == <<<<>>, <<1, 2>>>>
Quiet == [start |-> 14, until |-> 14, restarts |-> 0, old |-> <<0, 0>>, points |-> <<0, 0>>,
          beside |-> 2]

(* many positions of one aircraft; a restart; a day change; a restart in the first hour of a day *)
MCMixes == {
  [Quiet EXCEPT !.points = <<6, 0>>],
  [Quiet EXCEPT !.points = <<1, 1>>, !.restarts = 1],
  [Quiet EXCEPT !.start = 10, !.until = 22, !.old = <<1, 0>>, !.points = <<1, 0>>],
  [Quiet EXCEPT !.start = 13, !.until = 22, !.old = <<9, 0>>, !.restarts = 1]}
(* the state was saved more than an hour ago *)
MCSavedLongAgo == {[Quiet EXCEPT !.start = 10, !.until = 12, !.old = <<1, 1>>]}
=============================================================================
