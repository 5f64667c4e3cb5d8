---------------------------- MODULE FrameStarts -----------------------------
(***************************************************************************)
(* ComputeFrameStarts, the loop that decides where each virtual screen of  *)
(* a page starts. One round of its loops is a step.                        *)
(***************************************************************************)
EXTENDS FrameCuts

CONSTANTS
    Inputs,     \* pages: sequences of section sizes
    WallSizes   \* items a wall can hold

ASSUME InputsAssumption == Inputs \subseteq Seq(Nat)
ASSUME WallSizesAssumption == WallSizes \subseteq Nat \ {0}

VARIABLES
    sizes, capacity,  \* the arguments
    section,          \* the section the loop is in, 0 before the first
    left,             \* items of that section still to place
    remaining,        \* room in the current frame
    consumed,         \* items placed
    starts            \* the result

loopVars == <<sizes, capacity, section, left, remaining, consumed, starts>>

LoopInit ==
    /\ sizes \in Inputs
    /\ capacity \in WallSizes
    /\ section = 0
    /\ left = 0
    /\ remaining = capacity
    /\ consumed = 0
    /\ starts = <<0>>

NextSection ==
    /\ left = 0
    /\ section < Len(sizes)
    /\ section' = section + 1
    /\ left' = sizes[section + 1]
    /\ UNCHANGED <<sizes, capacity, remaining, consumed, starts>>

(* A round opens a frame first when the last one is full. *)
Room == IF remaining = 0 THEN capacity ELSE remaining
Opened == IF remaining = 0 THEN Append(starts, consumed) ELSE starts

Fill(n) ==
    /\ starts' = Opened
    /\ consumed' = consumed + n
    /\ remaining' = Room - n
    /\ left' = left - n
    /\ UNCHANGED <<sizes, capacity, section>>

(* Mutant: a section that just fills the frame does not count as fitting. *)
TakeWholeStrict == 0 < left /\ left < Room /\ Fill(left)

(* What is left of the section fits. *)
TakeWhole == 0 < left /\ left <= Room /\ Fill(left)

(* Mutant: the section is broken over two frames instead. *)
DeferBroken == Room < left /\ left <= capacity /\ Fill(Room)

(* Mutant: the frame it closes is not recorded. *)
DeferUnrecorded ==
    /\ Room < left
    /\ left <= capacity
    /\ remaining' = capacity
    /\ UNCHANGED <<sizes, capacity, section, left, consumed, starts>>

(* Mutant: a section bigger than a frame is deferred as well. *)
DeferBig ==
    /\ Room < left
    /\ Room < capacity
    /\ starts' = Append(Opened, consumed)
    /\ remaining' = capacity
    /\ UNCHANGED <<sizes, capacity, section, left, consumed>>

(* It does not, but fits a frame of its own: this one closes early. *)
Defer ==
    /\ Room < left
    /\ left <= capacity
    /\ starts' = Append(Opened, consumed)
    /\ remaining' = capacity
    /\ UNCHANGED <<sizes, capacity, section, left, consumed>>

(* It is bigger than any frame. *)
Split == capacity < left /\ Fill(Room)

Round == NextSection \/ TakeWhole \/ Defer \/ Split

LoopSpec == LoopInit /\ [][Round]_loopVars

(* A loop goes on until it is done. *)
LoopFairSpec == LoopSpec /\ WF_loopVars(Round)
-----------------------------------------------------------------------------
TypeOK ==
    /\ sizes \in Seq(Nat)
    /\ capacity \in Nat \ {0}
    /\ section \in 0 .. Len(sizes)
    /\ left \in Nat
    /\ remaining \in 0 .. capacity
    /\ consumed \in Nat
    /\ starts \in Seq(Nat)

(* The frames follow each other from the first item on; none that is       *)
(* closed is empty or bigger than the wall, however often frames close     *)
(* early.                                                                  *)
FramesFit ==
    /\ starts[1] = 0
    /\ \A i \in 1 .. Len(starts) - 1 :
          starts[i] < starts[i + 1] /\ starts[i + 1] <= starts[i] + capacity
    /\ starts[Len(starts)] <= consumed
    /\ consumed <= starts[Len(starts)] + capacity

(* "Only a section bigger than a whole screen is actually split": a frame  *)
(* that starts inside a section is one of a section too big for a frame.   *)
WholeSections ==
    [][Len(starts') > Len(starts) /\ section > 0 /\ left < sizes[section]
        => sizes[section] > capacity]_loopVars

Framed == left = 0 /\ section = Len(sizes)

(* The loop makes the cuts that are defined section by section, and places *)
(* every item.                                                             *)
MakesTheCuts ==
    Framed => ToSet(starts) = Cuts(sizes, capacity) /\ consumed = Total(sizes)

(* It ends, though a round that defers a section places nothing.           *)
Ends == <>Framed
=============================================================================
