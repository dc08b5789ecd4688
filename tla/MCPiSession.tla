---------------------------- MODULE MCPiSession ----------------------------
(* The mounts of PiSession that TLC checks: one that an agent owns, with a  *)
(* child, reloads and calls at any time; and two legacy root mounts that    *)
(* switch between agents, one start at a time.                              *)
EXTENDS PiSession

CONSTANTS a1, a2, k1

AllAgents == {a1, a2, k1}
OneChild == {k1}

\* Every agent has a durable session of its own.
OwnSessions == [x \in AllAgents |-> x]

Owned == [owner |-> a1, agents |-> {a1, k1}, tasks |-> 2, reloads |-> 1, throws |-> TRUE,
          overlap |-> TRUE]
Legacy == [owner |-> NoAgent, agents |-> {a1, a2}, tasks |-> 2, reloads |-> 0, throws |-> FALSE,
           overlap |-> FALSE]
Failing == [Legacy EXCEPT !.tasks = 1, !.throws = TRUE]

AllSetups == {Owned, Legacy, Failing}
=============================================================================
