------------------------- MODULE MCBrowserSurfaces -------------------------
(* The seats of BrowserSurfaces that TLC checks: the composer and another.  *)
EXTENDS BrowserSurfaces

TwoSeats == {"composer", "strip"}
=============================================================================
