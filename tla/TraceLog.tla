------------------------------ MODULE TraceLog ------------------------------
(***************************************************************************)
(* What the trace of an aircraft promises, whatever it is stored in: a log *)
(* of positions in the order of their times.  A position is at most kept   *)
(* as a spare, which a later one may replace or confirm.  Only what is     *)
(* older than Keep is forgotten; a deletion takes one stretch out of it;   *)
(* and what a saved state brings back is a part of the log, from its       *)
(* start, that is at least as long as it was when the saving began.        *)
(***************************************************************************)
EXTENDS Naturals, Sequences, SequencesExt

CONSTANT Keep           \* Modes.keep_traces

VARIABLES now,          \* the time
          log,          \* the positions recorded, each by its time
          spare,        \* <<>>, or the one position that may still be recorded
          mark,         \* how long the log was when the running save began
          disk          \* what the state file holds: {} or one log

lvars == <<now, log, spare, mark, disk>>

Younger(s, t) == SelectSeq(s, LAMBDA p : p + Keep >= t)
Confirmed == {log, log \o spare}

LInit == now = 0 /\ log = <<>> /\ spare = <<>> /\ mark = 0 /\ disk = {}

Pass == now' > now /\ UNCHANGED <<log, spare, mark, disk>>

(* a position of the time now': recorded, or kept as the spare, or refused *)
Arrive ==
    /\ now' > now
    /\ \E base \in Confirmed :
         \/ log' = Append(base, now') /\ spare' = <<>>
         \/ log' = base /\ spare' = <<now'>>
         \/ log' = base /\ spare' = IF base = log THEN spare ELSE <<>>
    /\ UNCHANGED <<mark, disk>>

(* an end of the log that has all that is young; the spare goes with a log *)
(* that is forgotten as a whole                                            *)
Forget ==
    /\ \E base \in Confirmed : \E n \in 0..Len(base) :
         /\ log' = SubSeq(base, n + 1, Len(base))
         /\ Younger(SubSeq(base, 1, n), now) = <<>>
         /\ spare' = IF base = log /\ log' # <<>> THEN spare ELSE <<>>
    /\ UNCHANGED <<now, mark, disk>>

(* a stretch of the log goes, and what is old in front of it *)
Delete ==
    /\ \E n, a, b \in 0..Len(log \o spare) :
         /\ n <= a /\ a <= b
         /\ Younger(SubSeq(log \o spare, 1, n), now) = <<>>
         /\ log' = SubSeq(log \o spare, n + 1, a) \o SubSeq(log \o spare, b + 1, Len(log \o spare))
    /\ spare' = <<>>
    /\ UNCHANGED <<now, mark, disk>>

StartSave == mark' = Len(log) /\ UNCHANGED <<now, log, spare, disk>>

(* a write that fails half way loses the file: the result is not looked at *)
EndSave ==
    /\ disk' \in {{}} \union {{SubSeq(log \o spare, 1, n)} : n \in mark..Len(log \o spare)}
    /\ mark' = 0
    /\ UNCHANGED <<now, log, spare>>

Restart ==
    /\ mark' = 0 /\ spare' = <<>>
    /\ \/ disk = {} /\ log' = <<>>
       \/ \E saved \in disk : \E n \in 0..Len(saved) :
            /\ log' = SubSeq(saved, n + 1, Len(saved))
            /\ Younger(SubSeq(saved, 1, n), now) = <<>>
    /\ UNCHANGED <<now, disk>>

LNext == Pass \/ Arrive \/ Forget \/ StartSave \/ EndSave \/ Restart \/ Delete

LSpec == LInit /\ [][LNext]_lvars
=============================================================================
