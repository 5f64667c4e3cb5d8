--------------------------- MODULE MCScreenDelivery ---------------------------
(* Instances of ScreenDelivery for TLC.                                     *)
EXTENDS ScreenDelivery
=============================================================================
