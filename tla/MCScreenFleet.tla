---------------------------- MODULE MCScreenFleet ----------------------------
(* Instances of ScreenFleet for TLC.                                        *)
EXTENDS ScreenFleet, TLC

CONSTANTS a, b, v, c1, c2, g, r1, r2
=============================================================================
