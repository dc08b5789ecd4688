-------------------------- MODULE MCSessionArchive --------------------------
(* Instances of SessionArchive for TLC.                                    *)
EXTENDS SessionArchive, TLC

BridgeSymmetry == Permutations(Bridges)
=============================================================================
