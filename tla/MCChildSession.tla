--------------------------- MODULE MCChildSession ---------------------------
(* The instance of ChildSession that TLC checks: its bounds are given in    *)
(* ChildSession.cfg.                                                        *)
EXTENDS ChildSession
=============================================================================
