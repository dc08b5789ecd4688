----------------------------- MODULE MCToolGate -----------------------------
(* The setups of ToolGate that TLC checks: prompts that follow each other,  *)
(* with handlers in both packages; batches and nested calls that meet.      *)
EXTENDS ToolGate

CONSTANTS c1, c2

TwoCalls == {c1, c2}

Turns == [asking |-> {1, 2}, calls |-> {c1}, turns |-> 3, steps |-> 2, breaks |-> 1]
Batches == [asking |-> {}, calls |-> {c1, c2}, turns |-> 2, steps |-> 2, breaks |-> 1]

AllSetups == {Turns, Batches}
=============================================================================
