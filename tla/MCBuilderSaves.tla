--------------------------- MODULE MCBuilderSaves ---------------------------
(* Instances of BuilderSaves for TLC.                                       *)
EXTENDS BuilderSaves
=============================================================================
