------------------------------ MODULE VenueWall ------------------------------
(***************************************************************************)
(* What a venue's screens promise a person standing in front of them.      *)
(* Editing, assigning, discarding and going back are invisible; only a     *)
(* publish changes the wall, and one publish moves a screen to the version *)
(* just published, darkens it, or leaves it alone.                         *)
(***************************************************************************)
EXTENDS Naturals

CONSTANTS Menus, Screens

VARIABLES
    shown,   \* [Screens -> Nothing or <<menu, version>>]
    version  \* [Menus -> Nat], the last published version

Nothing == << >>

Init ==
    /\ shown = [s \in Screens |-> Nothing]
    /\ version = [m \in Menus |-> 0]

Publish(m, reached, darkened) ==
    /\ version' = [version EXCEPT ![m] = @ + 1]
    /\ shown' = [s \in Screens |-> IF s \in reached THEN <<m, version[m] + 1>>
                                   ELSE IF s \in darkened THEN Nothing
                                   ELSE shown[s]]

Next == \E m \in Menus, reached, darkened \in SUBSET Screens : Publish(m, reached, darkened)

Spec == Init /\ [][Next]_<<shown, version>>
=============================================================================
