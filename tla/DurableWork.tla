----------------------------- MODULE DurableWork -----------------------------
(***************************************************************************)
(* What a durable inbox promises to those who deliver into it: what was    *)
(* accepted is worked off at least once before it counts as done, what is  *)
(* done stays done, and everything that can be worked off at all is.       *)
(***************************************************************************)
CONSTANTS Items, Hopeless   \* Hopeless: items no attempt can work off

VARIABLES accepted, worked, done
vars == <<accepted, worked, done>>

Init == accepted = {} /\ worked = {} /\ done = {}

Accept(i) == accepted' = accepted \cup {i} /\ UNCHANGED <<worked, done>>

Work(i) ==
    /\ i \in accepted \ Hopeless
    /\ worked' = worked \cup {i} /\ UNCHANGED <<accepted, done>>

Finish(i) ==
    /\ i \in worked \ done
    /\ done' = done \cup {i} /\ UNCHANGED <<accepted, worked>>

Next == \E i \in Items : Accept(i) \/ Work(i) \/ Finish(i)

Spec == Init /\ [][Next]_vars

AllDone == \A i \in Items \ Hopeless : (i \in accepted) ~> (i \in done)
=============================================================================
