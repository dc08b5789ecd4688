--------------------------- MODULE MCEngineMounts ---------------------------
(* The instance of EngineMounts that TLC checks: its sets are given in      *)
(* EngineMounts.cfg.                                                        *)
EXTENDS EngineMounts

=============================================================================
