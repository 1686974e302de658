------------------------------ MODULE LineStream ------------------------------
(***************************************************************************)
(* What the tailer promises the rules: from some line on, every line of    *)
(* the log, whole, once, and in order, as long as nobody disturbs the log  *)
(* (truncates or removes it).  After that lines can be missed, but still   *)
(* none comes twice or out of order.  Lines are numbered as they are       *)
(* written.                                                                *)
(***************************************************************************)
EXTENDS Integers, Sequences

VARIABLES written,   \* how many lines have been written
          seen,      \* the numbers of the lines handed on
          disturbed  \* the log was truncated or removed

Init == written = 0 /\ seen = <<>> /\ disturbed = FALSE

Write == written' = written + 1 /\ UNCHANGED <<seen, disturbed>>

Disturb == disturbed' = TRUE /\ UNCHANGED <<written, seen>>

LastSeen == IF seen = <<>> THEN 0 ELSE seen[Len(seen)]

\* The next line is handed on; on an undisturbed log there is no gap before it,
\* unless it is the first.
See(line) ==
  /\ disturbed \/ seen = <<>> \/ line = LastSeen + 1
  /\ seen' = Append(seen, line)
  /\ UNCHANGED <<written, disturbed>>

Next ==
  \/ Write
  \/ Disturb
  \/ \E line \in (LastSeen + 1)..written : See(line)

Spec == Init /\ [][Next]_<<written, seen, disturbed>>
=============================================================================
