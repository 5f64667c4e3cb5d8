--------------------------- MODULE MCDisplayPlayer ---------------------------
(* Instances of DisplayPlayer for TLC.                                      *)
EXTENDS DisplayPlayer, TLC

CONSTANTS l1, l2

\* Loads in flight are interchangeable (safety runs only).
Symmetry == Permutations(Loads)
=============================================================================
