------------------------ MODULE MCEventProjection ------------------------
(* The instance of EventProjection that TLC checks.  Each host has the      *)
(* bounds for the part of the behaviour it shows: retried streams; prompts  *)
(* that follow each other; long prompts with a compaction and a failure.    *)
EXTENDS EventProjection

AllHosts == {"frames", "log", "both"}

Bounds == [h \in Hosts |->
  CASE h = "frames" -> [turns |-> 1, steps |-> 2, attempts |-> 2, chunks |-> 2, compactions |-> 0, throws |-> 0]
    [] h = "log"    -> [turns |-> 2, steps |-> 1, attempts |-> 2, chunks |-> 1, compactions |-> 0, throws |-> 1]
    [] h = "both"   -> [turns |-> 1, steps |-> 2, attempts |-> 1, chunks |-> 1, compactions |-> 1, throws |-> 1]]
=============================================================================
