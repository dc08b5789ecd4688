-------------------------- MODULE MCProviderLedger --------------------------
(* The instance of ProviderLedger that TLC checks: a package with instances *)
(* in two agents, another in one; overlays that bring a model list, or move *)
(* the endpoint and bring a transport.                                      *)
EXTENDS ProviderLedger, TLC

CONSTANTS a1, a2, b1

Three == {a1, a2, b1}
TwoPackages == [i \in Three |-> IF i = b1 THEN "b" ELSE "a"]
Agents == Permutations({a1, a2})
Overlays == {[url |-> 1, list |-> 1, transport |-> FALSE],
             [url |-> 2, list |-> 0, transport |-> TRUE]}
=============================================================================
