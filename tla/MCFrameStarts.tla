---------------------------- MODULE MCFrameStarts ---------------------------
(* Every page of up to four sections of up to six items.                   *)
EXTENDS FrameStarts

SmallPages == UNION {[1 .. n -> 0 .. 6] : n \in 0 .. 4}
=============================================================================
