--------------------------- MODULE MCStoredLogins ---------------------------
(* Instances of StoredLogins for TLC.                                      *)
EXTENDS StoredLogins, TLC

JobSymmetry == Permutations(Jobs)
=============================================================================
