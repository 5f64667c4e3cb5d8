--------------------------- MODULE MCStripeEvents ---------------------------
(* Instances of StripeEvents for TLC.                                       *)
EXTENDS StripeEvents

CONSTANTS r1, r2, va, vb
TwoVenues == <<va, vb>>
=============================================================================
