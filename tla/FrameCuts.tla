----------------------------- MODULE FrameCuts ------------------------------
(***************************************************************************)
(* Where a page is cut into frames. A page is the sequence of its          *)
(* sections' sizes; a frame holds up to cap items, and a cut is the number *)
(* of items before a frame.                                                *)
(***************************************************************************)
EXTENDS Integers, SequencesExt, FiniteSetsExt

(* The items of the first i sections. *)
ItemsBefore(sizes) ==
    LET upTo[i \in 0 .. Len(sizes)] == IF i = 0 THEN 0 ELSE upTo[i - 1] + sizes[i]
    IN  upTo

Total(sizes) == ItemsBefore(sizes)[Len(sizes)]

(* The cuts made for a section of n items that begins after c items, when  *)
(* the frame has room for r more: none if it fits, one in front of it if   *)
(* it fits a frame of its own, and otherwise one wherever a frame is full. *)
CutsFor(c, r, n, cap) ==
    IF r < n /\ n <= cap THEN {c} ELSE {c + r + cap * j : j \in 0 .. n} \cap (0 .. (c + n - 1))

(* The cuts of the first i sections. *)
CutsUpTo(sizes, cap) ==
    LET cuts[i \in 0 .. Len(sizes)] ==
          IF i = 0 THEN {0}
          ELSE LET c == ItemsBefore(sizes)[i - 1]
                   r == cap - (c - Max(cuts[i - 1]))
               IN  cuts[i - 1] \cup CutsFor(c, r, sizes[i], cap)
    IN  cuts

Cuts(sizes, cap) == CutsUpTo(sizes, cap)[Len(sizes)]
=============================================================================
