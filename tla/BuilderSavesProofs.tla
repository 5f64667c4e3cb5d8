-------------------------- MODULE BuilderSavesProofs --------------------------
(***************************************************************************)
(* Proofs about the save queue of the menu builder, for any number of      *)
(* edits, publishes, undos, redos, lost requests and ended sessions.       *)
(*                                                                         *)
(* The invariant speaks of what is held (HeldInv), of the order of the     *)
(* calls and of what landed (QueueInv), and of the places where the step   *)
(* of a write can be (PlacesInv).                                          *)
(***************************************************************************)
EXTENDS BuilderSaves, SequenceTheorems, FiniteSetTheorems, TLAPS

Working(c) == c.at \in {"queued", "applied", "reading"}

\* A held write has failed, and a timer, a prompt or a call that can fail moves it on.
HeldInv ==
    held # None =>
        /\ held \in unsure
        /\ timer \/ prompt # "no" \/ \E i \in DOMAIN calls : Working(calls[i])

\* Requests go out in the order of the calls; writes no call failed of are in it once.
QueueInv ==
    /\ \A i, j \in DOMAIN calls : i < j /\ InChain(calls[i]) => calls[j].at = "queued"
    /\ \A i, j \in DOMAIN calls :
          i < j /\ calls[i].write \notin unsure /\ calls[j].write \notin unsure
             => calls[i].write < calls[j].write
    /\ \A i \in late : calls[i].write \in unsure
    /\ \A n \in DOMAIN landed : landed[n].by = "save" /\ landed[n].write \notin unsure =>
          \E i \in DOMAIN calls : calls[i].write = landed[n].write /\ calls[i].at # "queued"

Steps(stack, w) == {n \in DOMAIN stack : stack[n] = w}
Asked(w) == {m \in DOMAIN moves : moves[m].write = w /\ moves[m].at # "over"}
Delivering(w) == \E i \in DOMAIN calls : calls[i].write = w /\ calls[i].at # "over"

AtMostOne(S) == \A m, n \in S : m = n

OnePlace(U, R, M) ==
    /\ AtMostOne(U) /\ AtMostOne(R) /\ AtMostOne(M)
    /\ U = {} \/ R = {}
    /\ U = {} \/ M = {}
    /\ R = {} \/ M = {}

Nowhere(w) == Steps(undoStack, w) = {} /\ Steps(redoStack, w) = {} /\ Asked(w) = {}

\* A write no call failed of is nowhere before and while it is delivered, then in one place.
PlacesInv ==
    \A w \in Nat \ unsure :
        /\ OnePlace(Steps(undoStack, w), Steps(redoStack, w), Asked(w))
        /\ Delivering(w) \/ w \notin DOMAIN made => Nowhere(w)

SavesInv ==
    /\ TypeOK /\ HeldInv /\ QuietMeansConfirmed
    /\ QueueInv /\ SavesLandInOrder /\ PlacesInv

-----------------------------------------------------------------------------
(* Calls, moves and stacks.                                                *)

Stages == {"queued", "applied", "reading", "rereading", "over"}
Landings == [write : Nat, by : {"save", "undo", "redo"}]

LEMMA Typed ==
    ASSUME TypeOK
    PROVE  /\ made \in Seq(Kinds) /\ DOMAIN made = 1..Len(made) /\ Len(made) \in Nat
           /\ calls \in Seq(Calls) /\ DOMAIN calls = 1..Len(calls) /\ Len(calls) \in Nat
           /\ moves \in Seq(Moves) /\ DOMAIN moves = 1..Len(moves) /\ Len(moves) \in Nat
           /\ landed \in Seq(Landings) /\ DOMAIN landed = 1..Len(landed) /\ Len(landed) \in Nat
           /\ undoStack \in Seq(Nat) /\ DOMAIN undoStack = 1..Len(undoStack) /\ Len(undoStack) \in Nat
           /\ redoStack \in Seq(Nat) /\ DOMAIN redoStack = 1..Len(redoStack) /\ Len(redoStack) \in Nat
           /\ \A i \in DOMAIN calls :
                calls[i].write \in DOMAIN made /\ calls[i].write \in Nat /\ calls[i].at \in Stages
           /\ \A m \in DOMAIN moves : moves[m].write \in Nat
           /\ MaxHistory \in Nat \ {0} /\ MaxFaults \in Nat
           /\ held # None => held \in DOMAIN made /\ held \in Nat
<1>1. /\ made \in Seq(Kinds) /\ calls \in Seq(Calls) /\ moves \in Seq(Moves)
      /\ landed \in Seq(Landings) /\ undoStack \in Seq(Nat) /\ redoStack \in Seq(Nat)
      /\ \A i \in DOMAIN calls : calls[i].write \in DOMAIN made
      /\ held # None => held \in DOMAIN made
  BY DEF TypeOK, Landings
<1>2. \A i \in DOMAIN calls : calls[i] \in Calls
  BY <1>1
<1>3. \A m \in DOMAIN moves : moves[m] \in Moves
  BY <1>1
<1>4. \A n \in DOMAIN made : n \in Nat
  BY <1>1
<1> QED
  BY <1>1, <1>2, <1>3, <1>4, SaveConstants DEF Calls, Moves, Stages

LEMMA AtEffect ==
    ASSUME TypeOK, NEW i \in DOMAIN calls, NEW stage \in Stages, At(i, stage)
    PROVE  /\ calls' \in Seq(Calls) /\ DOMAIN calls' = DOMAIN calls
           /\ \A j \in DOMAIN calls : calls'[j].write = calls[j].write
           /\ \A j \in DOMAIN calls \ {i} : calls'[j] = calls[j]
           /\ calls'[i].at = stage
<1> DEFINE c == [write |-> calls[i].write, at |-> stage]
<1>1. c \in Calls
  BY Typed DEF Calls, Stages
<1>2. calls' = [calls EXCEPT ![i] = c]
  BY DEF At
<1>3. calls \in Seq(Calls) /\ i \in 1..Len(calls)
  BY Typed
<1>4. c.write = calls[i].write /\ c.at = stage
  OBVIOUS
<1> HIDE DEF c
<1>5. /\ calls' \in Seq(Calls) /\ Len(calls') = Len(calls)
      /\ \A j \in 1..Len(calls) : calls'[j] = IF j = i THEN c ELSE calls[j]
  BY <1>1, <1>2, <1>3, ExceptSeq
<1>6. DOMAIN calls' = 1..Len(calls) /\ DOMAIN calls = 1..Len(calls)
  BY <1>5, Typed
<1> QED
  BY <1>3, <1>4, <1>5, <1>6

LEMMA DeliverEffect ==
    ASSUME TypeOK, NEW w \in Nat, Deliver(w)
    PROVE  /\ calls' \in Seq(Calls)
           /\ DOMAIN calls' = DOMAIN calls \cup {Len(calls) + 1}
           /\ \A j \in DOMAIN calls : j < Len(calls) + 1 /\ calls'[j] = calls[j]
           /\ calls'[Len(calls) + 1].write = w /\ calls'[Len(calls) + 1].at = "queued"
           /\ saveState' = "saving"
<1> DEFINE c == [write |-> w, at |-> "queued"]
<1>1. c \in Calls /\ c.write = w /\ c.at = "queued"
  BY DEF Calls
<1>2. calls' = Append(calls, c) /\ saveState' = "saving"
  BY DEF Deliver
<1> HIDE DEF c
<1>3. /\ calls' \in Seq(Calls) /\ Len(calls') = Len(calls) + 1
      /\ \A j \in 1..Len(calls) : calls'[j] = calls[j]
      /\ calls'[Len(calls) + 1] = c
  BY <1>1, <1>2, Typed, AppendProperties
<1>4. /\ DOMAIN calls' = 1..(Len(calls) + 1) /\ DOMAIN calls = 1..Len(calls) /\ Len(calls) \in Nat
  BY <1>3, Typed
<1> QED
  BY <1>1, <1>2, <1>3, <1>4

LEMMA LandedEffect ==
    ASSUME TypeOK, NEW w \in Nat, NEW by \in {"save", "undo", "redo"},
           landed' = Append(landed, [write |-> w, by |-> by])
    PROVE  /\ landed' \in Seq(Landings)
           /\ DOMAIN landed' = DOMAIN landed \cup {Len(landed) + 1}
           /\ \A n \in DOMAIN landed : n < Len(landed) + 1 /\ landed'[n] = landed[n]
           /\ landed'[Len(landed) + 1].write = w /\ landed'[Len(landed) + 1].by = by
<1> DEFINE c == [write |-> w, by |-> by]
<1>1. c \in Landings /\ c.write = w /\ c.by = by
  BY DEF Landings
<1>2. landed' = Append(landed, c)
  OBVIOUS
<1> HIDE DEF c
<1>3. /\ landed' \in Seq(Landings) /\ Len(landed') = Len(landed) + 1
      /\ \A j \in 1..Len(landed) : landed'[j] = landed[j]
      /\ landed'[Len(landed) + 1] = c
  BY <1>1, <1>2, Typed, AppendProperties
<1>4. DOMAIN landed' = 1..(Len(landed) + 1) /\ DOMAIN landed = 1..Len(landed) /\ Len(landed) \in Nat
  BY <1>3, Typed
<1> QED
  BY <1>1, <1>3, <1>4

\* A stack of natural numbers that grows by one at its end.
LEMMA AppendStep ==
    ASSUME NEW stack \in Seq(Nat), NEW v \in Nat
    PROVE  /\ Append(stack, v) \in Seq(Nat)
           /\ \A w : w # v => Steps(Append(stack, v), w) = Steps(stack, w)
           /\ Steps(Append(stack, v), v) = Steps(stack, v) \cup {Len(stack) + 1}
<1> DEFINE t == Append(stack, v)
<1>1. /\ t \in Seq(Nat) /\ Len(t) = Len(stack) + 1
      /\ \A n \in 1..Len(stack) : t[n] = stack[n]
      /\ t[Len(stack) + 1] = v
  BY AppendProperties
<1>2. DOMAIN t = 1..(Len(stack) + 1) /\ DOMAIN stack = 1..Len(stack) /\ Len(stack) \in Nat
  BY <1>1
<1> HIDE DEF t
<1> QED
  BY <1>1, <1>2 DEF Steps, t

\* A stack that loses its last step.
LEMMA DropStep ==
    ASSUME NEW stack \in Seq(Nat), stack # << >>
    PROVE  /\ AllButLast(stack) \in Seq(Nat) /\ Last(stack) \in Nat
           /\ \A w : w # Last(stack) => Steps(AllButLast(stack), w) = Steps(stack, w)
           /\ Steps(AllButLast(stack), Last(stack)) = Steps(stack, Last(stack)) \ {Len(stack)}
           /\ Len(stack) \in Steps(stack, Last(stack))
<1> DEFINE t == AllButLast(stack)
           v == Last(stack)
<1>1. Len(stack) \in Nat \ {0} /\ DOMAIN stack = 1..Len(stack) /\ \A n \in 1..Len(stack) : stack[n] \in Nat
  BY EmptySeq
<1>2. t = SubSeq(stack, 1, Len(stack) - 1) /\ v = stack[Len(stack)]
  BY DEF AllButLast, Last
<1>3. /\ t \in Seq(Nat) /\ Len(t) = Len(stack) - 1
      /\ \A n \in 1..(Len(stack) - 1) : t[n] = stack[n]
  <2>1. \A n \in 1..(Len(stack) - 1) : stack[n] \in Nat
    BY <1>1
  <2>2. Len(stack) - 1 \in Int /\ 1 \in Int
    BY <1>1
  <2>3. /\ t \in Seq(Nat)
        /\ Len(t) = IF 1 <= Len(stack) - 1 THEN Len(stack) - 1 - 1 + 1 ELSE 0
        /\ \A n \in 1..(Len(stack) - 1 - 1 + 1) : t[n] = stack[1 + n - 1]
    BY <1>2, <2>1, <2>2, SubSeqProperties
  <2>4. /\ (IF 1 <= Len(stack) - 1 THEN Len(stack) - 1 - 1 + 1 ELSE 0) = Len(stack) - 1
        /\ Len(stack) - 1 - 1 + 1 = Len(stack) - 1
        /\ \A n \in 1..(Len(stack) - 1) : 1 + n - 1 = n
    BY <1>1
  <2> HIDE DEF t
  <2>5. \A n \in 1..(Len(stack) - 1) : t[n] = stack[1 + n - 1]
    BY <2>3, <2>4
  <2>6. \A n \in 1..(Len(stack) - 1) : t[n] = stack[n]
    BY <2>4, <2>5
  <2> QED
    BY <2>3, <2>4, <2>6
<1>4. DOMAIN t = 1..(Len(stack) - 1)
  BY <1>3
<1>5. v \in Nat /\ v = stack[Len(stack)]
  BY <1>1, <1>2
<1> HIDE DEF t, v
<1>6. \A w, n : n \in Steps(t, w) <=> n \in 1..(Len(stack) - 1) /\ stack[n] = w
  BY <1>3, <1>4 DEF Steps
<1>7. \A w, n : n \in Steps(stack, w) <=> n \in 1..Len(stack) /\ stack[n] = w
  BY <1>1 DEF Steps
<1>8. \A w : w # v => Steps(t, w) = Steps(stack, w)
  <2> SUFFICES ASSUME NEW w, w # v PROVE Steps(t, w) = Steps(stack, w)
    OBVIOUS
  <2>1. \A n : n \in Steps(t, w) <=> n \in Steps(stack, w)
    BY <1>1, <1>5, <1>6, <1>7
  <2> QED
    BY <2>1 DEF Steps
<1>9. Steps(t, v) = Steps(stack, v) \ {Len(stack)} /\ Len(stack) \in Steps(stack, v)
  BY <1>1, <1>5, <1>6, <1>7
<1> QED
  BY <1>3, <1>5, <1>8, <1>9 DEF t, v

\* The stack after a save: the last MaxHistory steps, the new one at the end.
LEMMA PushedStep ==
    ASSUME TypeOK, NEW v \in Nat
    PROVE  /\ Pushed(undoStack, v) \in Seq(Nat)
           /\ \A w \in Nat : w # v /\ AtMostOne(Steps(undoStack, w)) =>
                 /\ AtMostOne(Steps(Pushed(undoStack, v), w))
                 /\ Steps(undoStack, w) = {} => Steps(Pushed(undoStack, v), w) = {}
           /\ Steps(undoStack, v) = {} => AtMostOne(Steps(Pushed(undoStack, v), v))
<1> DEFINE full == Len(undoStack) >= MaxHistory
           k == IF full THEN Len(undoStack) - MaxHistory + 1 ELSE 0
           old == IF full THEN SubSeq(undoStack, Len(undoStack) - MaxHistory + 2, Len(undoStack))
                  ELSE undoStack
<1>1. /\ undoStack \in Seq(Nat) /\ Len(undoStack) \in Nat /\ DOMAIN undoStack = 1..Len(undoStack)
      /\ \A n \in 1..Len(undoStack) : undoStack[n] \in Nat
      /\ MaxHistory \in Nat \ {0}
  BY Typed
<1>2. k \in Nat /\ k <= Len(undoStack)
  BY <1>1
<1>3. /\ old \in Seq(Nat) /\ Len(old) = Len(undoStack) - k
      /\ \A n \in 1..Len(old) : old[n] = undoStack[n + k]
  <2>1. CASE full
    <3> DEFINE m == Len(undoStack) - MaxHistory + 2
    <3>1. m \in Int /\ Len(undoStack) \in Int /\ \A n \in m..Len(undoStack) : undoStack[n] \in Nat
      BY <1>1, <2>1
    <3>2. /\ old \in Seq(Nat)
          /\ Len(old) = IF m <= Len(undoStack) THEN Len(undoStack) - m + 1 ELSE 0
          /\ \A n \in 1..(Len(undoStack) - m + 1) : old[n] = undoStack[m + n - 1]
      BY <2>1, <3>1, SubSeqProperties
    <3>3. /\ Len(undoStack) - m + 1 = Len(undoStack) - k
          /\ (IF m <= Len(undoStack) THEN Len(undoStack) - m + 1 ELSE 0) = Len(undoStack) - k
          /\ \A n \in 1..(Len(undoStack) - k) : m + n - 1 = n + k
      BY <1>1, <2>1
    <3> HIDE DEF old, m, k
    <3> QED
      BY <3>2, <3>3
  <2>2. CASE ~full
    BY <1>1, <2>2
  <2> QED
    BY <2>1, <2>2
<1>4. Pushed(undoStack, v) = Append(old, v)
  BY DEF Pushed
<1> HIDE DEF old, k, full
<1>5. \A w, n : n \in Steps(old, w) =>
         n \in Nat /\ n + k \in 1..Len(undoStack) /\ undoStack[n + k] = w
  <2> SUFFICES ASSUME NEW w, NEW n \in Steps(old, w)
               PROVE  n \in Nat /\ n + k \in 1..Len(undoStack) /\ undoStack[n + k] = w
    OBVIOUS
  <2>1. n \in 1..Len(old) /\ old[n] = w
    BY <1>3 DEF Steps
  <2> QED
    BY <1>1, <1>2, <1>3, <2>1
<1>6. \A w : AtMostOne(Steps(undoStack, w)) => AtMostOne(Steps(old, w))
  <2> SUFFICES ASSUME NEW w, AtMostOne(Steps(undoStack, w)),
                      NEW m \in Steps(old, w), NEW n \in Steps(old, w)
               PROVE  m = n
    BY DEF AtMostOne
  <2>1. m \in Nat /\ n \in Nat /\ m + k \in Steps(undoStack, w) /\ n + k \in Steps(undoStack, w)
    BY <1>1, <1>2, <1>5 DEF Steps
  <2>2. m + k = n + k
    BY <2>1 DEF AtMostOne
  <2> QED
    BY <1>2, <2>1, <2>2
<1>7. \A w : Steps(undoStack, w) = {} => Steps(old, w) = {}
  <2> SUFFICES ASSUME NEW w, NEW n \in Steps(old, w) PROVE Steps(undoStack, w) # {}
    OBVIOUS
  <2>1. n + k \in Steps(undoStack, w)
    BY <1>1, <1>2, <1>5 DEF Steps
  <2> QED
    BY <2>1
<1>8. /\ Append(old, v) \in Seq(Nat)
      /\ \A w : w # v => Steps(Append(old, v), w) = Steps(old, w)
      /\ Steps(Append(old, v), v) = Steps(old, v) \cup {Len(old) + 1}
  BY <1>3, AppendStep
<1>9. Steps(undoStack, v) = {} => AtMostOne(Steps(Append(old, v), v))
  <2>1. Steps(old, v) = {} => AtMostOne(Steps(old, v) \cup {Len(old) + 1})
    BY DEF AtMostOne
  <2> QED
    BY <1>7, <1>8, <2>1
<1> QED
  BY <1>4, <1>6, <1>7, <1>8, <1>9

LEMMA MoveToEffect ==
    ASSUME TypeOK, NEW m \in DOMAIN moves, NEW stage \in {"asked", "applied", "over"},
           MoveTo(m, stage)
    PROVE  /\ moves' \in Seq(Moves) /\ DOMAIN moves' = DOMAIN moves
           /\ \A n \in DOMAIN moves : moves'[n].write = moves[n].write
           /\ \A n \in DOMAIN moves \ {m} : moves'[n] = moves[n]
           /\ moves'[m].at = stage
<1> DEFINE c == [write |-> moves[m].write, way |-> moves[m].way, at |-> stage]
<1>1. moves \in Seq(Moves) /\ m \in 1..Len(moves)
  BY Typed
<1>2. moves[m] \in Moves
  BY <1>1
<1>3. c \in Moves /\ c.write = moves[m].write /\ c.at = stage
  BY <1>2 DEF Moves
<1>4. moves' = [moves EXCEPT ![m] = c]
  BY DEF MoveTo
<1> HIDE DEF c
<1>5. /\ moves' \in Seq(Moves) /\ Len(moves') = Len(moves)
      /\ \A j \in 1..Len(moves) : moves'[j] = IF j = m THEN c ELSE moves[j]
  BY <1>1, <1>3, <1>4, ExceptSeq
<1>6. DOMAIN moves' = 1..Len(moves) /\ DOMAIN moves = 1..Len(moves)
  BY <1>5, Typed
<1> QED
  BY <1>1, <1>3, <1>5, <1>6

\* An undo or redo that starts.
LEMMA MoveStarts ==
    ASSUME TypeOK, NEW v \in Nat, NEW way \in {"undo", "redo"},
           moves' = Append(moves, [write |-> v, way |-> way, at |-> "asked"])
    PROVE  /\ moves' \in Seq(Moves)
           /\ \A w : w # v => Asked(w)' = Asked(w)
           /\ Asked(v)' = Asked(v) \cup {Len(moves) + 1}
<1> DEFINE c == [write |-> v, way |-> way, at |-> "asked"]
<1>1. c \in Moves /\ c.write = v /\ c.at = "asked"
  BY DEF Moves
<1>2. moves' = Append(moves, c)
  OBVIOUS
<1> HIDE DEF c
<1>3. /\ moves' \in Seq(Moves) /\ Len(moves') = Len(moves) + 1
      /\ \A j \in 1..Len(moves) : moves'[j] = moves[j]
      /\ moves'[Len(moves) + 1] = c
  BY <1>1, <1>2, Typed, AppendProperties
<1>4. DOMAIN moves' = 1..(Len(moves) + 1) /\ DOMAIN moves = 1..Len(moves) /\ Len(moves) \in Nat
  BY <1>3, Typed
<1> QED
  BY <1>1, <1>3, <1>4 DEF Asked

\* An undo or redo that goes on or ends.
LEMMA MoveGoesOn ==
    ASSUME TypeOK, NEW m \in DOMAIN moves, NEW stage \in {"asked", "applied", "over"},
           MoveTo(m, stage), moves[m].at # "over"
    PROVE  /\ \A w : Asked(w)' = IF w = moves[m].write /\ stage = "over"
                                 THEN Asked(w) \ {m} ELSE Asked(w)
           /\ m \in Asked(moves[m].write)
  BY MoveToEffect DEF Asked

LEMMA RunEffect ==
    ASSUME TypeOK, NEW kind \in Kinds, Run(kind)
    PROVE  /\ made' \in Seq(Kinds) /\ DOMAIN made' = DOMAIN made \cup {Len(made) + 1}
           /\ Len(made) + 1 \in Nat /\ \A w \in DOMAIN made : w < Len(made) + 1
           /\ Deliver(Len(made) + 1) /\ timer' = FALSE
           /\ UNCHANGED <<late, held, prompt, session, landed, history, unsure, faults>>
<1>1. /\ made' \in Seq(Kinds) /\ Len(made') = Len(made) + 1
  BY Typed, AppendProperties DEF Run
<1>2. DOMAIN made' = 1..(Len(made) + 1) /\ DOMAIN made = 1..Len(made) /\ Len(made) \in Nat
  BY <1>1, Typed
<1> QED
  BY <1>1, <1>2 DEF Run

\* Delivering what is held.
LEMMA HeldDelivered ==
    ASSUME TypeOK, IF held # None THEN Deliver(held) ELSE UNCHANGED <<calls, saveState>>
    PROVE  /\ calls' \in Seq(Calls) /\ saveState' \in {"clean", "saving", "failed"}
           /\ DOMAIN calls \subseteq DOMAIN calls'
           /\ \A i \in DOMAIN calls' : calls'[i].write \in DOMAIN made
<1>1. CASE held # None
  BY <1>1, Typed, DeliverEffect
<1>2. CASE held = None
  BY <1>2, Typed DEF TypeOK
<1> QED
  BY <1>1, <1>2

-----------------------------------------------------------------------------
(* Types.                                                                  *)

LEMMA CallTypes ==
    ASSUME TypeOK, NEW i \in DOMAIN calls, CallStep(i)
    PROVE  TypeOK'
<1> USE DEF Stages
<1>1. ASSUME NEW stage \in Stages, At(i, stage), made' = made
      PROVE  /\ calls' \in Seq(Calls) /\ DOMAIN calls' = DOMAIN calls
             /\ \A j \in DOMAIN calls' : calls'[j].write \in DOMAIN made'
  BY <1>1, AtEffect, Typed
<1>2. calls[i].write \in DOMAIN made /\ calls[i].write \in Nat
  BY Typed
<1>3. CASE Land(i)
  <2>1. landed' \in Seq(Landings)
    BY <1>2, <1>3, LandedEffect DEF Land
  <2> QED
    BY <1>1, <1>3, <2>1 DEF Land, TypeOK, client, history, Landings
<1>4. CASE Answered(i)
  <2>1. undoStack' \in Seq(Nat) /\ redoStack' \in Seq(Nat) /\ moves' = moves
    BY <1>4, EmptySeq DEF Answered, TypeOK, history
  <2> QED
    BY <1>1, <1>4, <2>1 DEF Answered, TypeOK, client
<1>5. CASE Refused(i)
  BY <1>1, <1>5 DEF Refused, TypeOK, history
<1>6. ASSUME NEW unauthorized \in BOOLEAN, Fail(i, unauthorized), UNCHANGED <<made, session, landed, history>>,
             late' \subseteq late \cup {i}, faults' \in 0..MaxFaults
      PROVE  TypeOK'
  <2>1. timer' \in BOOLEAN /\ prompt' \in {"no", "open", "deferred"}
    BY <1>6 DEF Fail, TypeOK
  <2>2. late' \subseteq DOMAIN calls
    BY <1>6 DEF TypeOK
  <2>3. /\ calls' \in Seq(Calls) /\ DOMAIN calls' = DOMAIN calls
        /\ \A j \in DOMAIN calls' : calls'[j].write \in DOMAIN made'
    BY <1>1, <1>6 DEF Fail
  <2> QED
    BY <1>2, <1>6, <2>1, <2>2, <2>3 DEF Fail, TypeOK, history
<1>7. CASE Lost(i)
  <2>1. faults' \in 0..MaxFaults
    BY <1>7, Typed DEF Lost, TypeOK
  <2>2. late' \subseteq late \cup {i}
    BY <1>7 DEF Lost
  <2> QED
    BY <1>6, <1>7, <2>1, <2>2 DEF Lost
<1>8. CASE Unauthorized(i)
  BY <1>6, <1>8 DEF Unauthorized, TypeOK
<1>9. CASE Confirmed(i)
  <2>1. undoStack' \in Seq(Nat) /\ redoStack' \in Seq(Nat) /\ moves' = moves
    <3>1. Pushed(undoStack, calls[i].write) \in Seq(Nat)
      BY <1>2, PushedStep
    <3> QED
      BY <1>9, <3>1, EmptySeq DEF Confirmed, TypeOK, history
  <2> QED
    BY <1>1, <1>9, <2>1 DEF Confirmed, TypeOK
<1>10. CASE Reread(i)
  BY <1>1, <1>10 DEF Reread, TypeOK, history
<1> QED
  BY <1>3, <1>4, <1>5, <1>7, <1>8, <1>9, <1>10 DEF CallStep

LEMMA MoveTypes ==
    ASSUME TypeOK, NEW m \in DOMAIN moves, MoveStep(m)
    PROVE  TypeOK'
<1>1. ASSUME NEW stage \in {"asked", "applied", "over"}, MoveTo(m, stage)
      PROVE  moves' \in Seq(Moves)
  BY <1>1, MoveToEffect
<1>2. moves[m].write \in Nat /\ moves[m].way \in {"undo", "redo"}
  <2>1. moves[m] \in Moves
    BY Typed
  <2> QED
    BY <2>1 DEF Moves
<1>3. CASE MoveLands(m)
  <2>1. landed' \in Seq(Landings)
    BY <1>2, <1>3, LandedEffect DEF MoveLands
  <2> QED
    BY <1>1, <1>3, <2>1 DEF MoveLands, TypeOK, client, Landings
<1>4. CASE MoveDone(m)
  <2>1. undoStack' \in Seq(Nat) /\ redoStack' \in Seq(Nat)
    <3>1. /\ Append(undoStack, moves[m].write) \in Seq(Nat)
          /\ Append(redoStack, moves[m].write) \in Seq(Nat)
      BY <1>2, Typed, AppendProperties
    <3> QED
      BY <1>4, <3>1, Typed DEF MoveDone
  <2> QED
    BY <1>1, <1>4, <2>1 DEF MoveDone, TypeOK, client
<1>5. CASE MoveFails(m)
  BY <1>1, <1>5 DEF MoveFails, TypeOK, client
<1> QED
  BY <1>3, <1>4, <1>5 DEF MoveStep

LEMMA TypeStep == TypeOK /\ [Next]_vars => TypeOK'
<1> SUFFICES ASSUME TypeOK, [Next]_vars PROVE TypeOK'
  OBVIOUS
<1>1. ASSUME NEW kind \in Kinds, Run(kind) PROVE TypeOK'
  <2>1. /\ calls' \in Seq(Calls) /\ saveState' = "saving"
        /\ DOMAIN calls \subseteq DOMAIN calls'
        /\ \A i \in DOMAIN calls' : calls'[i].write \in DOMAIN made'
    BY <1>1, RunEffect, DeliverEffect, Typed
  <2> QED
    BY <1>1, <2>1, RunEffect DEF TypeOK, history
<1>2. CASE Edit \/ Publish
  BY <1>1, <1>2 DEF Edit, Publish, Kinds
<1>3. CASE \E i \in late : LandLate(i)
  <2>1. PICK i \in late : LandLate(i)
    BY <1>3
  <2>2. i \in DOMAIN calls
    BY DEF TypeOK
  <2>3. landed' \in Seq(Landings)
    BY <2>1, <2>2, Typed, LandedEffect DEF LandLate
  <2> QED
    BY <2>1, <2>3 DEF LandLate, TypeOK, client, history, Landings
<1>4. CASE RetryFires
  BY <1>4, HeldDelivered DEF RetryFires, TypeOK, history
<1>5. CASE SignIn
  BY <1>5, HeldDelivered DEF SignIn, TypeOK, history
<1>6. CASE SessionEnds
  <2>1. faults' \in 0..MaxFaults
    BY <1>6, Typed DEF SessionEnds, TypeOK
  <2> QED
    BY <1>6, <2>1 DEF SessionEnds, TypeOK, client, history
<1>7. CASE PutOff
  BY <1>7 DEF PutOff, TypeOK, history
<1>8. CASE Undo
  <2>1. undoStack' \in Seq(Nat) /\ moves' \in Seq(Moves)
    BY <1>8, Typed, DropStep, MoveStarts DEF Undo
  <2> QED
    BY <1>8, <2>1 DEF Undo, TypeOK, client
<1>9. CASE Redo
  <2>1. redoStack' \in Seq(Nat) /\ moves' \in Seq(Moves)
    BY <1>9, Typed, DropStep, MoveStarts DEF Redo
  <2> QED
    BY <1>9, <2>1 DEF Redo, TypeOK, client
<1>10. CASE UNCHANGED vars
  BY <1>10 DEF vars, TypeOK, client, history
<1> QED
  BY <1>2, <1>3, <1>4, <1>5, <1>6, <1>7, <1>8, <1>9, <1>10, CallTypes, MoveTypes DEF Next

-----------------------------------------------------------------------------
(* What is held.                                                           *)

\* What a step of a call does to the held write.
LEMMA HeldStep == SavesInv /\ [Next]_vars => HeldInv' /\ QuietMeansConfirmed'
<1> SUFFICES ASSUME SavesInv, [Next]_vars PROVE HeldInv' /\ QuietMeansConfirmed'
  OBVIOUS
<1>1. TypeOK /\ HeldInv /\ QuietMeansConfirmed
  BY DEF SavesInv
<1>2. ASSUME DOMAIN calls \subseteq DOMAIN calls', \A i \in DOMAIN calls : calls'[i].at = calls[i].at,
             UNCHANGED <<held, unsure>>,
             \/ saveState' = saveState
             \/ saveState' = "clean"
             \/ \E i \in DOMAIN calls' : calls'[i].at = "queued",
             held # None => \/ timer => timer'
                            \/ \E i \in DOMAIN calls' : calls'[i].at = "queued",
             held # None => \/ prompt # "no" => prompt' # "no"
                            \/ \E i \in DOMAIN calls' : calls'[i].at = "queued"
      PROVE  HeldInv' /\ QuietMeansConfirmed'
  BY <1>1, <1>2 DEF HeldInv, QuietMeansConfirmed, Working, Busy, InFlight
<1>3. ASSUME NEW i \in DOMAIN calls, CallStep(i)
      PROVE  HeldInv' /\ QuietMeansConfirmed'
  <2> USE DEF Stages
  <2>1. \A stage \in Stages : At(i, stage) =>
           /\ DOMAIN calls' = DOMAIN calls /\ calls'[i].at = stage
           /\ \A j \in DOMAIN calls \ {i} : calls'[j] = calls[j]
    BY <1>1, AtEffect
  <2>2. CASE Land(i) \/ Answered(i)
    <3>1. Working(calls[i])' /\ InFlight(calls[i])' /\ UNCHANGED <<held, unsure, timer, prompt, saveState>>
      BY <2>1, <2>2 DEF Land, Answered, client, Working, InFlight
    <3>2. DOMAIN calls' = DOMAIN calls
      BY <2>1, <2>2 DEF Land, Answered
    <3> QED
      BY <1>1, <3>1, <3>2 DEF HeldInv, QuietMeansConfirmed, Busy
  <2>3. CASE Refused(i)
    <3>1. InFlight(calls[i])' /\ held' = None /\ DOMAIN calls' = DOMAIN calls
      BY <2>1, <2>3 DEF Refused, InFlight
    <3> QED
      BY <3>1 DEF HeldInv, QuietMeansConfirmed, Busy
  <2>4. CASE Lost(i) \/ Unauthorized(i)
    <3>1. held' = calls[i].write /\ held' \in unsure' /\ held' # None /\ (timer' \/ prompt' # "no")
      <4>1. PICK unauthorized \in BOOLEAN : Fail(i, unauthorized)
        BY <2>4 DEF Lost, Unauthorized
      <4>2. calls[i].write # None
        BY <1>1, Typed, SaveConstants
      <4> QED
        BY <4>1, <4>2 DEF Fail
    <3> QED
      BY <3>1 DEF HeldInv, QuietMeansConfirmed
  <2>5. CASE Confirmed(i)
    BY <2>5 DEF Confirmed, HeldInv, QuietMeansConfirmed
  <2>6. CASE Reread(i)
    <3>1. /\ saveState' = "clean" /\ UNCHANGED <<held, unsure, timer, prompt>>
          /\ DOMAIN calls' = DOMAIN calls /\ calls[i].at = "rereading"
          /\ \A j \in DOMAIN calls \ {i} : calls'[j] = calls[j]
      BY <2>1, <2>6 DEF Reread
    <3>2. \A j \in DOMAIN calls : Working(calls[j]) => Working(calls[j])'
      BY <3>1 DEF Working
    <3> QED
      BY <1>1, <3>1, <3>2 DEF HeldInv, QuietMeansConfirmed
  <2> QED
    BY <1>3, <2>2, <2>3, <2>4, <2>5, <2>6 DEF CallStep
<1>4. ASSUME NEW w \in Nat, Deliver(w), UNCHANGED <<held, unsure>>
      PROVE  HeldInv' /\ QuietMeansConfirmed'
  <2>1. /\ DOMAIN calls \subseteq DOMAIN calls' /\ \A i \in DOMAIN calls : calls'[i].at = calls[i].at
        /\ \E i \in DOMAIN calls' : calls'[i].at = "queued"
    BY <1>1, <1>4, DeliverEffect
  <2> QED
    BY <1>2, <1>4, <2>1
<1>5. CASE Edit \/ Publish
  BY <1>1, <1>4, <1>5, RunEffect DEF Edit, Publish, Kinds
<1>6. CASE RetryFires \/ SignIn
  <2>1. CASE held # None
    BY <1>1, <1>4, <1>6, <2>1, Typed DEF RetryFires, SignIn
  <2>2. CASE held = None
    BY <1>2, <1>6, <2>2 DEF RetryFires, SignIn
  <2> QED
    BY <2>1, <2>2
<1>7. CASE \E i \in late : LandLate(i)
  BY <1>2, <1>7 DEF LandLate, client
<1>8. CASE SessionEnds \/ PutOff
  BY <1>2, <1>8 DEF SessionEnds, PutOff, client
<1>9. CASE Undo \/ Redo \/ \E m \in DOMAIN moves : MoveStep(m)
  BY <1>2, <1>9 DEF Undo, Redo, MoveStep, MoveLands, MoveDone, MoveFails, client
<1>10. CASE UNCHANGED vars
  BY <1>2, <1>10 DEF vars, client
<1> QED
  BY <1>3, <1>5, <1>6, <1>7, <1>8, <1>9, <1>10 DEF Next

-----------------------------------------------------------------------------
(* The order of the calls and of what landed.                              *)

\* A call goes on, and nothing lands.
LEMMA QueueGoesOn ==
    ASSUME TypeOK, QueueInv, SavesLandInOrder,
           NEW i \in DOMAIN calls, NEW stage \in Stages, At(i, stage),
           stage # "queued", stage = "applied" => InChain(calls[i]),
           OnTheWire(i) \/ ~InChain(calls[i]),
           unsure \subseteq unsure', late' \subseteq late \cup {i},
           i \in late' \ late => calls[i].write \in unsure', UNCHANGED landed
    PROVE  QueueInv' /\ SavesLandInOrder'
<1>1. /\ DOMAIN calls' = DOMAIN calls /\ calls'[i].at = stage
      /\ \A j \in DOMAIN calls : calls'[j].write = calls[j].write
      /\ \A j \in DOMAIN calls \ {i} : calls'[j] = calls[j]
  BY AtEffect
<1>2. DOMAIN calls = 1..Len(calls) /\ Len(calls) \in Nat /\ late \subseteq DOMAIN calls
  BY Typed DEF TypeOK
<1>3. \A j, k \in DOMAIN calls' : j < k /\ InChain(calls[j])' => calls'[k].at = "queued"
  <2> SUFFICES ASSUME NEW j \in DOMAIN calls, NEW k \in DOMAIN calls, j < k, InChain(calls[j])'
               PROVE  calls'[k].at = "queued"
    BY <1>1
  <2>1. InChain(calls[j])
    BY <1>1 DEF InChain
  <2>2. calls[k].at = "queued"
    BY <2>1 DEF QueueInv
  <2>3. k # i
    <3>1. ASSUME k = i PROVE FALSE
      <4>1. InChain(calls[i])
        BY <2>2, <3>1 DEF InChain
      <4>2. j \in 1..(i - 1)
        BY <1>2, <3>1
      <4> QED
        BY <2>1, <4>1, <4>2 DEF OnTheWire
    <3> QED
      BY <3>1
  <2> QED
    BY <1>1, <2>2, <2>3
<1>4. \A j, k \in DOMAIN calls' :
         j < k /\ calls'[j].write \notin unsure' /\ calls'[k].write \notin unsure'
            => calls'[j].write < calls'[k].write
  BY <1>1 DEF QueueInv
<1>5. \A j \in late' : calls'[j].write \in unsure'
  BY <1>1, <1>2 DEF QueueInv
<1>6. ASSUME NEW n \in DOMAIN landed', landed'[n].by = "save", landed'[n].write \notin unsure'
      PROVE  \E j \in DOMAIN calls' : calls'[j].write = landed'[n].write /\ calls'[j].at # "queued"
  <2>1. PICK j \in DOMAIN calls : calls[j].write = landed[n].write /\ calls[j].at # "queued"
    BY <1>6 DEF QueueInv
  <2> QED
    BY <1>1, <2>1
<1>7. QueueInv'
  BY <1>3, <1>4, <1>5, <1>6 DEF QueueInv
<1>8. SavesLandInOrder'
  BY DEF SavesLandInOrder
<1> QED
  BY <1>7, <1>8

\* A write joins the chain.
LEMMA QueueGrows ==
    ASSUME TypeOK, QueueInv, SavesLandInOrder, NEW w \in Nat, Deliver(w),
           w \in unsure \/ \A v \in DOMAIN made : v < w,
           UNCHANGED <<late, landed, unsure>>
    PROVE  QueueInv' /\ SavesLandInOrder'
<1> DEFINE new == Len(calls) + 1
<1>1. /\ DOMAIN calls' = DOMAIN calls \cup {new}
      /\ \A j \in DOMAIN calls : j < new /\ calls'[j] = calls[j]
      /\ calls'[new].write = w /\ calls'[new].at = "queued"
  BY DeliverEffect
<1>2. DOMAIN calls = 1..Len(calls) /\ Len(calls) \in Nat /\ late \subseteq DOMAIN calls
  BY Typed DEF TypeOK
<1>3. \A j \in DOMAIN calls : calls[j].write \in DOMAIN made
  BY Typed
<1>4. new \in Nat /\ \A j \in DOMAIN calls : j \in Nat /\ ~(new < j)
  BY <1>2
<1> HIDE DEF new
<1>5. \A j, k \in DOMAIN calls' : j < k /\ InChain(calls[j])' => calls'[k].at = "queued"
  BY <1>1, <1>4 DEF QueueInv, InChain
<1>6. \A j, k \in DOMAIN calls' :
         j < k /\ calls'[j].write \notin unsure' /\ calls'[k].write \notin unsure'
            => calls'[j].write < calls'[k].write
  BY <1>1, <1>3, <1>4 DEF QueueInv
<1>7. \A j \in late' : calls'[j].write \in unsure'
  BY <1>1, <1>2 DEF QueueInv
<1>8. ASSUME NEW n \in DOMAIN landed', landed'[n].by = "save", landed'[n].write \notin unsure'
      PROVE  \E j \in DOMAIN calls' : calls'[j].write = landed'[n].write /\ calls'[j].at # "queued"
  <2>1. PICK j \in DOMAIN calls : calls[j].write = landed[n].write /\ calls[j].at # "queued"
    BY <1>8 DEF QueueInv
  <2> QED
    BY <1>1, <2>1
<1>9. QueueInv'
  BY <1>5, <1>6, <1>7, <1>8 DEF QueueInv
<1>10. SavesLandInOrder'
  BY DEF SavesLandInOrder
<1> QED
  BY <1>9, <1>10

\* Something lands that is not a save, or a save that a call failed of.
LEMMA OtherLands ==
    ASSUME TypeOK, QueueInv, SavesLandInOrder, NEW w \in Nat, NEW by \in {"save", "undo", "redo"},
           landed' = Append(landed, [write |-> w, by |-> by]),
           by # "save" \/ w \in unsure, late' \subseteq late, UNCHANGED <<calls, unsure>>
    PROVE  QueueInv' /\ SavesLandInOrder'
<1> DEFINE new == Len(landed) + 1
<1>1. /\ DOMAIN landed' = DOMAIN landed \cup {new}
      /\ \A n \in DOMAIN landed : n < new /\ landed'[n] = landed[n]
      /\ landed'[new].write = w /\ landed'[new].by = by
  BY LandedEffect
<1> HIDE DEF new
<1>2. QueueInv'
  <2>1. \A n \in DOMAIN landed' : landed'[n].by = "save" /\ landed'[n].write \notin unsure' =>
          \E j \in DOMAIN calls' : calls'[j].write = landed'[n].write /\ calls'[j].at # "queued"
    BY <1>1 DEF QueueInv
  <2> QED
    BY <2>1 DEF QueueInv, InChain
<1>3. SavesLandInOrder'
  BY <1>1 DEF SavesLandInOrder
<1> QED
  BY <1>2, <1>3

\* The server applies the request whose turn it is.
LEMMA SaveLands ==
    ASSUME TypeOK, QueueInv, SavesLandInOrder, NEW i \in DOMAIN calls, Land(i)
    PROVE  QueueInv' /\ SavesLandInOrder'
<1> DEFINE new == Len(landed) + 1
<1>1. calls[i].write \in Nat /\ calls[i].at = "queued" /\ OnTheWire(i) /\ UNCHANGED <<late, unsure>>
  BY Typed DEF Land
<1>2. /\ DOMAIN landed' = DOMAIN landed \cup {new}
      /\ \A n \in DOMAIN landed : n < new /\ landed'[n] = landed[n]
      /\ landed'[new].write = calls[i].write /\ landed'[new].by = "save"
  BY <1>1, LandedEffect DEF Land
<1>3. /\ DOMAIN calls' = DOMAIN calls /\ calls'[i].at = "applied"
      /\ \A j \in DOMAIN calls : calls'[j].write = calls[j].write
      /\ \A j \in DOMAIN calls \ {i} : calls'[j] = calls[j]
  BY AtEffect DEF Land, Stages
<1>4. /\ DOMAIN calls = 1..Len(calls) /\ Len(calls) \in Nat /\ late \subseteq DOMAIN calls
      /\ DOMAIN landed = 1..Len(landed) /\ Len(landed) \in Nat
  BY Typed DEF TypeOK
<1>5. new \in Nat /\ \A n \in DOMAIN landed : n \in Nat /\ ~(new < n)
  BY <1>4
<1> HIDE DEF new
<1>6. \A j, k \in DOMAIN calls' : j < k /\ InChain(calls[j])' => calls'[k].at = "queued"
  <2> SUFFICES ASSUME NEW j \in DOMAIN calls, NEW k \in DOMAIN calls, j < k, InChain(calls[j])'
               PROVE  calls'[k].at = "queued"
    BY <1>3
  <2>1. InChain(calls[j])
    BY <1>1, <1>3 DEF InChain
  <2>2. calls[k].at = "queued"
    BY <2>1 DEF QueueInv
  <2>3. k # i
    <3>1. ASSUME k = i PROVE FALSE
      <4>1. j \in 1..(i - 1)
        BY <1>4, <3>1
      <4> QED
        BY <1>1, <2>1, <4>1 DEF OnTheWire
    <3> QED
      BY <3>1
  <2> QED
    BY <1>3, <2>2, <2>3
<1>7. ASSUME NEW n \in DOMAIN landed', landed'[n].by = "save", landed'[n].write \notin unsure'
      PROVE  \E j \in DOMAIN calls' : calls'[j].write = landed'[n].write /\ calls'[j].at # "queued"
  <2>1. CASE n = new
    BY <1>2, <1>3, <2>1
  <2>2. CASE n # new
    <3>1. n \in DOMAIN landed /\ landed'[n] = landed[n]
      BY <1>2, <1>7, <2>2
    <3>2. PICK j \in DOMAIN calls : calls[j].write = landed[n].write /\ calls[j].at # "queued"
      BY <1>1, <1>7, <3>1 DEF QueueInv
    <3> QED
      BY <1>1, <1>3, <3>1, <3>2
  <2> QED
    BY <2>1, <2>2
<1>8. QueueInv'
  <2>1. \A j, k \in DOMAIN calls' :
           j < k /\ calls'[j].write \notin unsure' /\ calls'[k].write \notin unsure'
              => calls'[j].write < calls'[k].write
    BY <1>1, <1>3 DEF QueueInv
  <2>2. \A j \in late' : calls'[j].write \in unsure'
    BY <1>1, <1>3, <1>4 DEF QueueInv
  <2> QED
    BY <1>6, <1>7, <2>1, <2>2 DEF QueueInv
<1>9. ASSUME NEW n \in DOMAIN landed, landed[n].by = "save", landed[n].write \notin unsure,
             calls[i].write \notin unsure
      PROVE  landed[n].write < calls[i].write
  <2>1. PICK j \in DOMAIN calls : calls[j].write = landed[n].write /\ calls[j].at # "queued"
    BY <1>9 DEF QueueInv
  <2>2. j # i /\ ~(i < j)
    BY <1>1, <2>1 DEF QueueInv, InChain
  <2>3. j < i
    BY <1>4, <2>2
  <2> QED
    BY <1>9, <2>1, <2>3 DEF QueueInv
<1>10. SavesLandInOrder'
  BY <1>1, <1>2, <1>5, <1>9 DEF SavesLandInOrder
<1> QED
  BY <1>8, <1>10

LEMMA OrderStep == SavesInv /\ [Next]_vars => QueueInv' /\ SavesLandInOrder'
<1> SUFFICES ASSUME SavesInv, [Next]_vars PROVE QueueInv' /\ SavesLandInOrder'
  OBVIOUS
<1>1. TypeOK /\ HeldInv /\ QueueInv /\ SavesLandInOrder
  BY DEF SavesInv
<1>2. ASSUME UNCHANGED <<calls, late, landed, unsure>> PROVE QueueInv' /\ SavesLandInOrder'
  BY <1>1, <1>2 DEF QueueInv, SavesLandInOrder, InChain
<1>3. ASSUME NEW i \in DOMAIN calls, CallStep(i) PROVE QueueInv' /\ SavesLandInOrder'
  <2> USE DEF Stages
  <2>1. CASE Land(i)
    BY <1>1, <2>1, SaveLands
  <2>2. CASE Answered(i) \/ Refused(i)
    BY <1>1, <2>2, QueueGoesOn DEF Answered, Refused
  <2>3. CASE Confirmed(i) \/ Reread(i)
    BY <1>1, <2>3, QueueGoesOn DEF Confirmed, Reread, InChain
  <2>4. CASE Lost(i)
    <3>1. /\ At(i, "over") /\ unsure' = unsure \cup {calls[i].write} /\ UNCHANGED landed
          /\ late' \subseteq late \cup {i}
          /\ OnTheWire(i) \/ ~InChain(calls[i])
      BY <2>4 DEF Lost, Fail, InChain
    <3> QED
      BY <1>1, <3>1, QueueGoesOn
  <2>5. CASE Unauthorized(i)
    <3>1. /\ At(i, "over") /\ unsure' = unsure \cup {calls[i].write} /\ UNCHANGED <<landed, late>>
          /\ OnTheWire(i) \/ ~InChain(calls[i])
      BY <2>5 DEF Unauthorized, Fail, InChain
    <3> QED
      BY <1>1, <3>1, QueueGoesOn
  <2> QED
    BY <1>3, <2>1, <2>2, <2>3, <2>4, <2>5 DEF CallStep
<1>4. CASE Edit \/ Publish
  <2>1. PICK kind \in Kinds : Run(kind)
    BY <1>4 DEF Edit, Publish, Kinds
  <2> QED
    BY <1>1, <2>1, RunEffect, QueueGrows
<1>5. CASE RetryFires \/ SignIn
  <2>1. CASE held # None
    <3>1. held \in Nat /\ held \in unsure
      BY <1>1, <2>1, Typed DEF HeldInv
    <3> QED
      BY <1>1, <1>5, <2>1, <3>1, QueueGrows DEF RetryFires, SignIn
  <2>2. CASE held = None
    BY <1>2, <1>5, <2>2 DEF RetryFires, SignIn
  <2> QED
    BY <2>1, <2>2
<1>6. CASE \E i \in late : LandLate(i)
  <2>1. PICK i \in late : LandLate(i)
    BY <1>6
  <2>2. calls[i].write \in Nat /\ calls[i].write \in unsure
    BY <1>1, Typed DEF QueueInv, TypeOK
  <2> QED
    BY <1>1, <2>1, <2>2, OtherLands DEF LandLate
<1>7. ASSUME NEW m \in DOMAIN moves, MoveLands(m) PROVE QueueInv' /\ SavesLandInOrder'
  <2>1. moves[m].write \in Nat /\ moves[m].way \in {"undo", "redo"}
    <3>1. moves[m] \in Moves
      BY <1>1, Typed
    <3> QED
      BY <3>1 DEF Moves
  <2> QED
    BY <1>1, <1>7, <2>1, OtherLands DEF MoveLands
<1>8. CASE Undo \/ Redo \/ \E m \in DOMAIN moves : MoveDone(m) \/ MoveFails(m)
  BY <1>2, <1>8 DEF Undo, Redo, MoveDone, MoveFails
<1>9. CASE SessionEnds \/ PutOff
  BY <1>2, <1>9 DEF SessionEnds, PutOff
<1>10. CASE UNCHANGED vars
  BY <1>2, <1>10 DEF vars
<1> QED
  BY <1>3, <1>4, <1>5, <1>6, <1>7, <1>8, <1>9, <1>10 DEF Next, MoveStep

-----------------------------------------------------------------------------
(* Where the step of a write is.                                           *)

\* Nothing moves between the stacks, and no write that was not failed is sent again.
LEMMA PlacesKept ==
    ASSUME PlacesInv, UNCHANGED history, unsure \subseteq unsure',
           DOMAIN made \subseteq DOMAIN made',
           \A w \in Nat \ unsure' : Delivering(w)' => Delivering(w) \/ w \notin DOMAIN made
    PROVE  PlacesInv'
<1> SUFFICES ASSUME NEW w \in Nat \ unsure'
             PROVE  /\ OnePlace(Steps(undoStack, w), Steps(redoStack, w), Asked(w))'
                    /\ Delivering(w)' \/ w \notin DOMAIN made' => Nowhere(w)'
  BY DEF PlacesInv
<1>1. /\ Steps(undoStack, w)' = Steps(undoStack, w)
      /\ Steps(redoStack, w)' = Steps(redoStack, w) /\ Asked(w)' = Asked(w)
  BY DEF history, Steps, Asked
<1>2. /\ OnePlace(Steps(undoStack, w), Steps(redoStack, w), Asked(w))
      /\ Delivering(w) \/ w \notin DOMAIN made => Nowhere(w)
  BY DEF PlacesInv
<1> QED
  BY <1>1, <1>2 DEF Nowhere, OnePlace, AtMostOne

\* A step of a call takes nothing up that was over.
LEMMA DeliveringShrinks ==
    ASSUME TypeOK, NEW i \in DOMAIN calls, NEW stage \in Stages, At(i, stage),
           calls[i].at # "over"
    PROVE  \A w : Delivering(w)' => Delivering(w)
  BY AtEffect DEF Delivering

\* A save is confirmed: its step is pushed.
LEMMA StepPushed ==
    ASSUME TypeOK, QueueInv, PlacesInv, NEW i \in DOMAIN calls, calls[i].at # "over", At(i, "over"),
           undoStack' = Pushed(undoStack, calls[i].write), redoStack' = << >>, moves' = moves,
           UNCHANGED <<made, unsure>>
    PROVE  PlacesInv'
<1>1. PICK v \in Nat : v = calls[i].write /\ v \in DOMAIN made
  BY Typed
<1>2. /\ DOMAIN calls' = DOMAIN calls /\ calls'[i].at = "over"
      /\ \A j \in DOMAIN calls : calls'[j].write = calls[j].write
      /\ \A j \in DOMAIN calls \ {i} : calls'[j] = calls[j]
  BY AtEffect DEF Stages
<1>3. \A w : Steps(redoStack', w) = {} /\ Asked(w)' = Asked(w)
  BY DEF Steps, Asked
<1>4. /\ \A w \in Nat : w # v /\ AtMostOne(Steps(undoStack, w)) =>
            /\ AtMostOne(Steps(undoStack', w))
            /\ Steps(undoStack, w) = {} => Steps(undoStack', w) = {}
      /\ Steps(undoStack, v) = {} => AtMostOne(Steps(undoStack', v))
  BY <1>1, PushedStep
<1>5. ASSUME NEW w \in Nat \ unsure, w # v
      PROVE  /\ OnePlace(Steps(undoStack', w), Steps(redoStack', w), Asked(w)')
             /\ Delivering(w)' \/ w \notin DOMAIN made' =>
                   Steps(undoStack', w) = {} /\ Asked(w)' = {}
  <2>1. /\ OnePlace(Steps(undoStack, w), Steps(redoStack, w), Asked(w))
        /\ Delivering(w) \/ w \notin DOMAIN made => Nowhere(w)
    BY <1>5 DEF PlacesInv
  <2>2. Delivering(w)' => Delivering(w)
    BY <1>2 DEF Delivering
  <2>3. AtMostOne({})
    BY DEF AtMostOne
  <2> QED
    BY <1>3, <1>4, <1>5, <2>1, <2>2, <2>3 DEF OnePlace, Nowhere
<1>6. ASSUME v \notin unsure
      PROVE  /\ OnePlace(Steps(undoStack', v), Steps(redoStack', v), Asked(v)')
             /\ ~Delivering(v)'
  <2>1. Nowhere(v)
    <3>1. Delivering(v)
      BY <1>1 DEF Delivering
    <3> QED
      BY <1>1, <1>6, <3>1 DEF PlacesInv
  <2>2. \A j \in DOMAIN calls : calls[j].write = v => j = i
    <3> SUFFICES ASSUME NEW j \in DOMAIN calls, calls[j].write = v PROVE j = i
      OBVIOUS
    <3>1. ~(v < v)
      BY <1>1
    <3>2. ~(i < j) /\ ~(j < i)
      BY <1>1, <1>6, <3>1 DEF QueueInv
    <3> QED
      BY <3>2, Typed
  <2>3. ~Delivering(v)'
    BY <1>2, <2>2 DEF Delivering
  <2>4. AtMostOne({})
    BY DEF AtMostOne
  <2> QED
    BY <1>3, <1>4, <2>1, <2>3, <2>4 DEF OnePlace, Nowhere
<1> QED
  <2> SUFFICES ASSUME NEW w \in Nat \ unsure'
               PROVE  /\ OnePlace(Steps(undoStack', w), Steps(redoStack', w), Asked(w)')
                      /\ Delivering(w)' \/ w \notin DOMAIN made' =>
                            Steps(undoStack', w) = {} /\ Steps(redoStack', w) = {} /\ Asked(w)' = {}
    BY DEF PlacesInv, Nowhere
  <2>1. CASE w = v
    BY <1>1, <1>6, <2>1
  <2>2. CASE w # v
    BY <1>3, <1>5, <2>2
  <2> QED
    BY <2>1, <2>2

\* A step changes places: it is taken from one and may be put into another.
LEMMA StepMoved ==
    ASSUME PlacesInv, NEW v \in Nat, UNCHANGED <<made, calls, unsure>>,
           \A w \in Nat \ {v} : /\ Steps(undoStack', w) = Steps(undoStack, w)
                                /\ Steps(redoStack', w) = Steps(redoStack, w)
                                /\ Asked(w)' = Asked(w),
           v \notin unsure /\ OnePlace(Steps(undoStack, v), Steps(redoStack, v), Asked(v)) =>
              OnePlace(Steps(undoStack', v), Steps(redoStack', v), Asked(v)'),
           ~Nowhere(v)
    PROVE  PlacesInv'
<1> SUFFICES ASSUME NEW w \in Nat \ unsure
             PROVE  /\ OnePlace(Steps(undoStack', w), Steps(redoStack', w), Asked(w)')
                    /\ Delivering(w)' \/ w \notin DOMAIN made =>
                          Steps(undoStack', w) = {} /\ Steps(redoStack', w) = {} /\ Asked(w)' = {}
  BY DEF PlacesInv, Nowhere
<1>1. /\ OnePlace(Steps(undoStack, w), Steps(redoStack, w), Asked(w))
      /\ Delivering(w) \/ w \notin DOMAIN made => Nowhere(w)
  BY DEF PlacesInv
<1>2. Delivering(w)' = Delivering(w)
  BY DEF Delivering
<1>3. CASE w = v
  BY <1>1, <1>2, <1>3
<1>4. CASE w # v
  BY <1>1, <1>2, <1>4 DEF Nowhere
<1> QED
  BY <1>3, <1>4

LEMMA PlacesStep == SavesInv /\ [Next]_vars => PlacesInv'
<1> SUFFICES ASSUME SavesInv, [Next]_vars PROVE PlacesInv'
  OBVIOUS
<1>1. TypeOK /\ HeldInv /\ QueueInv /\ PlacesInv
  BY DEF SavesInv
<1>2. ASSUME UNCHANGED <<made, calls, unsure, history>> PROVE PlacesInv'
  <2>1. \A w : Delivering(w)' => Delivering(w)
    BY <1>2 DEF Delivering
  <2> QED
    BY <1>1, <1>2, <2>1, PlacesKept
<1>3. ASSUME NEW i \in DOMAIN calls, NEW stage \in Stages, At(i, stage), calls[i].at # "over",
             made' = made, unsure \subseteq unsure', UNCHANGED history
      PROVE  PlacesInv'
  BY <1>1, <1>3, DeliveringShrinks, PlacesKept
<1>4. ASSUME NEW i \in DOMAIN calls, CallStep(i) PROVE PlacesInv'
  <2> USE DEF Stages
  <2>1. CASE Land(i)
    BY <1>3, <2>1 DEF Land
  <2>2. CASE Answered(i)
    <3>1. CASE UNCHANGED history
      BY <1>3, <2>2, <3>1 DEF Answered, OnTheWire, InChain
    <3>2. CASE undoStack' = << >> /\ redoStack' = << >> /\ moves' = moves
      <4>1. \A w : Steps(undoStack', w) = {} /\ Steps(redoStack', w) = {} /\ Asked(w)' = Asked(w)
        BY <3>2 DEF Steps, Asked
      <4>2. \A w : Delivering(w)' => Delivering(w)
        BY <1>1, <2>2, DeliveringShrinks DEF Answered
      <4>3. made' = made /\ unsure' = unsure
        BY <2>2 DEF Answered
      <4> QED
        BY <1>1, <4>1, <4>2, <4>3 DEF PlacesInv, OnePlace, AtMostOne, Nowhere
    <3> QED
      BY <2>2, <3>1, <3>2 DEF Answered
  <2>3. CASE Refused(i)
    BY <1>3, <2>3 DEF Refused
  <2>4. CASE Lost(i) \/ Unauthorized(i)
    <3>1. /\ At(i, "over") /\ calls[i].at # "over" /\ made' = made
          /\ unsure \subseteq unsure' /\ UNCHANGED history
      BY <2>4 DEF Lost, Unauthorized, Fail, OnTheWire, InChain
    <3> QED
      BY <1>3, <3>1
  <2>5. CASE Confirmed(i)
    <3>1. CASE UNCHANGED history
      BY <1>3, <2>5, <3>1 DEF Confirmed
    <3>2. CASE /\ undoStack' = Pushed(undoStack, calls[i].write)
               /\ redoStack' = << >> /\ moves' = moves
      BY <1>1, <2>5, <3>2, StepPushed DEF Confirmed
    <3> QED
      BY <2>5, <3>1, <3>2 DEF Confirmed
  <2>6. CASE Reread(i)
    BY <1>3, <2>6 DEF Reread
  <2> QED
    BY <1>4, <2>1, <2>2, <2>3, <2>4, <2>5, <2>6 DEF CallStep
<1>5. ASSUME NEW w \in Nat, Deliver(w), w \in unsure \/ w \notin DOMAIN made,
             DOMAIN made \subseteq DOMAIN made', UNCHANGED <<unsure, history>>
      PROVE  PlacesInv'
  <2>1. \A u \in Nat \ unsure' : Delivering(u)' => Delivering(u) \/ u \notin DOMAIN made
    BY <1>1, <1>5, DeliverEffect DEF Delivering
  <2> QED
    BY <1>1, <1>5, <2>1, PlacesKept
<1>6. CASE Edit \/ Publish
  <2>1. PICK kind \in Kinds : Run(kind)
    BY <1>6 DEF Edit, Publish, Kinds
  <2>2. ~(Len(made) + 1 < Len(made) + 1)
    BY <1>1, Typed
  <2> QED
    BY <1>1, <1>5, <2>1, <2>2, RunEffect
<1>7. CASE RetryFires \/ SignIn
  <2>1. CASE held # None
    <3>1. held \in Nat /\ held \in unsure
      BY <1>1, <2>1, Typed DEF HeldInv
    <3> QED
      BY <1>5, <1>7, <2>1, <3>1 DEF RetryFires, SignIn
  <2>2. CASE held = None
    BY <1>2, <1>7, <2>2 DEF RetryFires, SignIn
  <2> QED
    BY <2>1, <2>2
<1>8. CASE Undo
  <2>1. undoStack \in Seq(Nat) /\ undoStack # << >> /\ UNCHANGED <<made, calls, unsure, redoStack>>
    BY <1>1, <1>8, Typed DEF Undo
  <2>a. PICK v \in Nat : v = Last(undoStack)
    BY <2>1, DropStep
  <2>2. /\ Steps(undoStack', v) = Steps(undoStack, v) \ {Len(undoStack)}
        /\ Len(undoStack) \in Steps(undoStack, v)
        /\ \A w : w # v => Steps(undoStack', w) = Steps(undoStack, w)
    BY <1>8, <2>1, <2>a, DropStep DEF Undo
  <2>3. /\ \A w : w # v => Asked(w)' = Asked(w)
        /\ Asked(v)' = Asked(v) \cup {Len(moves) + 1}
    BY <1>1, <1>8, <2>a, MoveStarts DEF Undo
  <2>4. OnePlace(Steps(undoStack, v), Steps(redoStack, v), Asked(v)) =>
           OnePlace(Steps(undoStack', v), Steps(redoStack', v), Asked(v)')
    BY <2>1, <2>2, <2>3 DEF OnePlace, AtMostOne
  <2>5. ~Nowhere(v)
    BY <2>2 DEF Nowhere
  <2> QED
    BY <1>1, <2>1, <2>2, <2>3, <2>4, <2>5, StepMoved
<1>9. CASE Redo
  <2>1. redoStack \in Seq(Nat) /\ redoStack # << >> /\ UNCHANGED <<made, calls, unsure, undoStack>>
    BY <1>1, <1>9, Typed DEF Redo
  <2>a. PICK v \in Nat : v = Last(redoStack)
    BY <2>1, DropStep
  <2>2. /\ Steps(redoStack', v) = Steps(redoStack, v) \ {Len(redoStack)}
        /\ Len(redoStack) \in Steps(redoStack, v)
        /\ \A w : w # v => Steps(redoStack', w) = Steps(redoStack, w)
    BY <1>9, <2>1, <2>a, DropStep DEF Redo
  <2>3. /\ \A w : w # v => Asked(w)' = Asked(w)
        /\ Asked(v)' = Asked(v) \cup {Len(moves) + 1}
    BY <1>1, <1>9, <2>a, MoveStarts DEF Redo
  <2>4. OnePlace(Steps(undoStack, v), Steps(redoStack, v), Asked(v)) =>
           OnePlace(Steps(undoStack', v), Steps(redoStack', v), Asked(v)')
    BY <2>1, <2>2, <2>3 DEF OnePlace, AtMostOne
  <2>5. ~Nowhere(v)
    BY <2>2 DEF Nowhere
  <2> QED
    BY <1>1, <2>1, <2>2, <2>3, <2>4, <2>5, StepMoved
<1>10. ASSUME NEW m \in DOMAIN moves, MoveStep(m) PROVE PlacesInv'
  <2>1. undoStack \in Seq(Nat) /\ redoStack \in Seq(Nat)
    BY <1>1, Typed
  <2>a. PICK v \in Nat : v = moves[m].write
    BY <1>1, Typed
  <2>2. moves[m].at # "over" /\ UNCHANGED <<made, calls, unsure>>
    BY <1>10 DEF MoveStep, MoveLands, MoveDone, MoveFails
  <2>3. m \in Asked(v)
    BY <2>2, <2>a DEF Asked
  <2>4. ~Nowhere(v)
    BY <2>3 DEF Nowhere
  <2>5. ASSUME NEW stage \in {"asked", "applied", "over"}, MoveTo(m, stage)
        PROVE  \A w : Asked(w)' = IF w = v /\ stage = "over" THEN Asked(w) \ {m} ELSE Asked(w)
    BY <1>1, <2>2, <2>5, <2>a, MoveGoesOn
  <2>6. CASE MoveLands(m)
    <3>1. (\A w : Asked(w)' = Asked(w)) /\ UNCHANGED <<undoStack, redoStack>>
      BY <2>5, <2>6 DEF MoveLands
    <3> QED
      BY <1>1, <2>1, <2>2, <2>4, <3>1, StepMoved
  <2>7. CASE MoveFails(m)
    <3>1. /\ \A w : w # v => Asked(w)' = Asked(w)
          /\ Asked(v)' = Asked(v) \ {m} /\ UNCHANGED <<undoStack, redoStack>>
      BY <2>5, <2>7 DEF MoveFails
    <3>2. OnePlace(Steps(undoStack, v), Steps(redoStack, v), Asked(v)) =>
             OnePlace(Steps(undoStack', v), Steps(redoStack', v), Asked(v)')
      BY <3>1 DEF OnePlace, AtMostOne
    <3> QED
      BY <1>1, <2>1, <2>2, <2>4, <3>1, <3>2, StepMoved
  <2>8. CASE MoveDone(m)
    <3>1. /\ \A w : w # v => Asked(w)' = Asked(w)
          /\ Asked(v)' = Asked(v) \ {m}
      BY <2>5, <2>8 DEF MoveDone
    <3>2. \/ redoStack' = Append(redoStack, v) /\ undoStack' = undoStack
          \/ undoStack' = Append(undoStack, v) /\ redoStack' = redoStack
      BY <2>8, <2>a DEF MoveDone
    <3>3. \A stack \in Seq(Nat) :
             /\ \A w : w # v => Steps(Append(stack, v), w) = Steps(stack, w)
             /\ Steps(Append(stack, v), v) = Steps(stack, v) \cup {Len(stack) + 1}
      BY AppendStep
    <3>4. OnePlace(Steps(undoStack, v), Steps(redoStack, v), Asked(v)) =>
             OnePlace(Steps(undoStack', v), Steps(redoStack', v), Asked(v)')
      <4>1. CASE redoStack' = Append(redoStack, v) /\ undoStack' = undoStack
        BY <2>1, <2>3, <3>1, <3>3, <4>1 DEF OnePlace, AtMostOne
      <4>2. CASE undoStack' = Append(undoStack, v) /\ redoStack' = redoStack
        BY <2>1, <2>3, <3>1, <3>3, <4>2 DEF OnePlace, AtMostOne
      <4> QED
        BY <3>2, <4>1, <4>2
    <3>5. \A w \in Nat \ {v} : /\ Steps(undoStack', w) = Steps(undoStack, w)
                               /\ Steps(redoStack', w) = Steps(redoStack, w)
      BY <2>1, <3>2, <3>3
    <3> QED
      BY <1>1, <2>1, <2>2, <2>4, <3>1, <3>4, <3>5, StepMoved
  <2> QED
    BY <1>10, <2>6, <2>7, <2>8 DEF MoveStep
<1>11. CASE \E i \in late : LandLate(i)
  BY <1>2, <1>11 DEF LandLate
<1>12. CASE SessionEnds \/ PutOff
  BY <1>2, <1>12 DEF SessionEnds, PutOff
<1>13. CASE UNCHANGED vars
  BY <1>2, <1>13 DEF vars
<1> QED
  BY <1>4, <1>6, <1>7, <1>8, <1>9, <1>10, <1>11, <1>12, <1>13 DEF Next

\* One place holds one step.
LEMMA OnePlaceCounts ==
    ASSUME NEW U, NEW R, NEW M, OnePlace(U, R, M)
    PROVE  Cardinality(U) + Cardinality(R) + Cardinality(M) <= 1
<1>1. ASSUME NEW S, AtMostOne(S)
      PROVE  Cardinality(S) \in {0, 1} /\ (S = {} => Cardinality(S) = 0)
  <2>1. CASE S = {}
    BY <2>1, FS_EmptySet
  <2>2. CASE S # {}
    <3>1. PICK x \in S : S = {x}
      BY <1>1, <2>2 DEF AtMostOne
    <3> QED
      BY <2>2, <3>1, FS_Singleton
  <2> QED
    BY <2>1, <2>2
<1>2. /\ Cardinality(U) \in {0, 1} /\ Cardinality(R) \in {0, 1} /\ Cardinality(M) \in {0, 1}
      /\ (U = {} => Cardinality(U) = 0) /\ (R = {} => Cardinality(R) = 0)
      /\ (M = {} => Cardinality(M) = 0)
  BY <1>1 DEF OnePlace
<1> QED
  BY <1>2 DEF OnePlace

-----------------------------------------------------------------------------

LEMMA InitSaves == Init => SavesInv
<1> SUFFICES ASSUME Init PROVE SavesInv
  OBVIOUS
<1> USE DEF Init
<1>1. TypeOK
  <2>1. << >> \in Seq(Kinds) /\ << >> \in Seq(Calls) /\ << >> \in Seq(Moves)
        /\ << >> \in Seq([write : Nat, by : {"save", "undo", "redo"}]) /\ << >> \in Seq(Nat)
    BY EmptySeq
  <2>2. 0 \in 0..MaxFaults /\ DOMAIN << >> = {}
    BY SaveConstants
  <2> QED
    BY <2>1, <2>2 DEF TypeOK
<1>2. DOMAIN calls = {} /\ DOMAIN landed = {} /\ DOMAIN undoStack = {} /\ DOMAIN redoStack = {}
      /\ DOMAIN moves = {}
  OBVIOUS
<1>3. HeldInv /\ QuietMeansConfirmed /\ QueueInv /\ SavesLandInOrder
  BY <1>2 DEF HeldInv, QuietMeansConfirmed, QueueInv, SavesLandInOrder
<1>4. PlacesInv
  BY <1>2 DEF PlacesInv, OnePlace, AtMostOne, Nowhere, Steps, Asked
<1> QED
  BY <1>1, <1>3, <1>4 DEF SavesInv

LEMMA SavesInvariant == Spec => []SavesInv
<1>1. SavesInv /\ [Next]_vars => SavesInv'
  <2> SUFFICES ASSUME SavesInv, [Next]_vars PROVE SavesInv'
    OBVIOUS
  <2>1. TypeOK'
    BY TypeStep DEF SavesInv
  <2> QED
    BY <2>1, HeldStep, OrderStep, PlacesStep DEF SavesInv
<1> QED
  BY <1>1, InitSaves, PTL DEF Spec

\* The queue, what is held and the history have their types, and name writes that
\* were made.
THEOREM SavesTypes == Spec => []TypeOK
<1>1. SavesInv => TypeOK
  BY DEF SavesInv
<1> QED
  BY <1>1, SavesInvariant, PTL

\* The promise chain of deliver sends the saves that never failed once each and in
\* the order of the edits, whatever is retried in between.
THEOREM SavesKeepTheirOrder == Spec => []SavesLandInOrder
<1>1. SavesInv => SavesLandInOrder
  BY DEF SavesInv
<1> QED
  BY <1>1, SavesInvariant, PTL

\* Whenever deliver has kept a failed write, its timer, the sign-in prompt or a call
\* that is still to end will come back to it.
THEOREM HeldIsNeverStranded == Spec => []HeldIsLookedAfter
<1>1. SavesInv => HeldIsLookedAfter
  BY DEF SavesInv, HeldInv, HeldIsLookedAfter, Working, Busy, InFlight
<1> QED
  BY <1>1, SavesInvariant, PTL

\* Publish is not left shut by a save state that nothing will change any more.
THEOREM PublishOpensAgain == Spec => []QuietMeansConfirmed
<1>1. SavesInv => QuietMeansConfirmed
  BY DEF SavesInv
<1> QED
  BY <1>1, SavesInvariant, PTL

\* Undo and redo take a step off its stack before they ask the server, so a step is
\* undone once however fast the keys repeat.
THEOREM StepsAreUndoneOnce == Spec => []StepsAreInOnePlace
<1>1. SavesInv => StepsAreInOnePlace
  <2> SUFFICES ASSUME SavesInv, NEW w \in DOMAIN made \ unsure
               PROVE  Times(undoStack, w) + Times(redoStack, w) + Moving(w) <= 1
    BY DEF StepsAreInOnePlace
  <2>1. w \in Nat
    BY Typed DEF SavesInv
  <2>2. OnePlace(Steps(undoStack, w), Steps(redoStack, w), Asked(w))
    BY <2>1 DEF SavesInv, PlacesInv
  <2>3. Cardinality(Steps(undoStack, w)) + Cardinality(Steps(redoStack, w))
          + Cardinality(Asked(w)) <= 1
    BY <2>2, OnePlaceCounts
  <2> QED
    BY <2>3 DEF Times, Moving, Steps, Asked
<1> QED
  BY <1>1, SavesInvariant, PTL
=============================================================================
