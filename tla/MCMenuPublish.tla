---------------------------- MODULE MCMenuPublish ----------------------------
(* Instances of MenuPublish for TLC.                                        *)
EXTENDS MenuPublish, TLC

CONSTANTS m1, m2, m3, s1, s2, c1, c2, v1, v2

\* Menus, screens, requests and values are interchangeable (safety runs only).
Symmetry == Permutations(Menus) \cup Permutations(Screens)
            \cup Permutations(Clients) \cup Permutations(Values)
=============================================================================
