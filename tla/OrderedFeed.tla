----------------------------- MODULE OrderedFeed -----------------------------
(***************************************************************************)
(* What the bridge promises to somebody who listens to a child agent, with *)
(* nothing said of how: the agent writes a log, and until the listener is  *)
(* cut off it is told all that is written, each entry once, in the order   *)
(* of the log.  (src/src/subagent-bridge.ts:413-416, 441-443, 721.)        *)
(***************************************************************************)
EXTENDS Naturals, Sequences

VARIABLES
  log,   \* what the agent wrote
  open,  \* whether the listener is still there
  heard  \* what it was told

vars == <<log, open, heard>>

Init == log = <<>> /\ open = TRUE /\ heard = <<>>

\* The log grows, by an entry or by several at once.
Write ==
  /\ Len(log') > Len(log)
  /\ SubSeq(log', 1, Len(log)) = log
  /\ UNCHANGED <<open, heard>>

Close ==
  /\ open /\ open' = FALSE
  /\ UNCHANGED <<log, heard>>

\* The listener is told the next entry.
Hear ==
  /\ open
  /\ Len(heard) < Len(log)
  /\ heard' = Append(heard, log[Len(heard) + 1])
  /\ UNCHANGED <<log, open>>

Next == Write \/ Close \/ Hear

Spec == Init /\ [][Next]_vars

\* A listener who stays hears what there is.
Fairness == WF_vars(Hear)

FairSpec == Spec /\ Fairness
=============================================================================
