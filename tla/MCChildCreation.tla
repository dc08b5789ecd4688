--------------------------- MODULE MCChildCreation ---------------------------
(* A plain call, one with an allowlist and a denylist that meet, one with     *)
(* no built-in tools, and one that brings a prompt.                           *)
EXTENDS ChildCreation, TLC

Plain == [tools |-> NoNames, excluded |-> {}, noTools |-> "no", custom |-> FALSE, prompt |-> FALSE]

FewRequests ==
  {[Plain EXCEPT !.tools = {"ls"}, !.excluded = {"bash"}],
   [Plain EXCEPT !.noTools = "builtin", !.custom = TRUE],
   [Plain EXCEPT !.noTools = "all", !.custom = TRUE],
   [Plain EXCEPT !.excluded = {"ls"}, !.prompt = TRUE]}

PiNames == {"find", "ls", "bash"}
HostTools == {"glob", "bash"}
CallSymmetry == Permutations(Calls)
=============================================================================
