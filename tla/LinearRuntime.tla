---------------------------- MODULE LinearRuntime ----------------------------
(***************************************************************************)
(* What Pi promises its extensions, with nothing said of how a host keeps  *)
(* it: one linear runtime.  A session is started when none is open and the *)
(* handlers of the last session_shutdown have finished; nobody waits for   *)
(* those of an agent that is no longer there.                              *)
(* (src/src/runtime.ts:1941-1951.)                                         *)
(***************************************************************************)
CONSTANTS Agents

VARIABLES
  open,   \* agents whose session has been started and not ended
  ending  \* living agents whose session_shutdown is being handled

vars == <<open, ending>>

Init == open = {} /\ ending = {}

Start(a) ==
  /\ open = {} /\ ending \subseteq {a}
  /\ open' = {a}
  /\ UNCHANGED ending

\* session_shutdown goes out, also for a session that never came up.
Shutdown(a) ==
  /\ open' = open \ {a}
  /\ ending' = ending \cup {a}

\* A handler of session_start throws.
Fail(a) ==
  /\ open' = open \ {a}
  /\ UNCHANGED ending

\* The handlers of session_shutdown have finished, or nobody waits for them now.
Finish(a) ==
  /\ ending' = ending \ {a}
  /\ UNCHANGED open

\* The agent is disposed of.
Leave(a) ==
  /\ open' = open \ {a}
  /\ ending' = ending \ {a}

Next == \E a \in Agents : Start(a) \/ Shutdown(a) \/ Fail(a) \/ Finish(a) \/ Leave(a)

Spec == Init /\ [][Next]_vars
=============================================================================
