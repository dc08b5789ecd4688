---------------------------- MODULE MCLoginFlow ----------------------------
(* The instance of LoginFlow that TLC checks: its bounds are plain numbers, *)
(* given in LoginFlow.cfg.                                                  *)
EXTENDS LoginFlow
=============================================================================
