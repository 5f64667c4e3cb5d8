---------------------------- MODULE BuilderSaves ----------------------------
(***************************************************************************)
(* The save queue of the menu builder (MenuBuilder.tsx): edits are sent    *)
(* one at a time in the order they were made; one that fails is held and   *)
(* tried again, or waits for the person to sign in; Publish is shut while  *)
(* a save is unconfirmed; undo and redo go past the queue.                 *)
(*                                                                         *)
(* A call is one run of `deliver`: it waits for its turn (the promise      *)
(* chain `writes`), then its request is with the server, then it re-reads  *)
(* the board.  Calls overlap: the chain covers the request only.           *)
(***************************************************************************)
EXTENDS Integers, Sequences, FiniteSets

CONSTANTS
    MaxWrites,    \* edits and publishes made (a bound)
    MaxFaults,    \* lost requests and ended sessions (a bound)
    MaxMoves,     \* undos and redos asked for (a bound)
    MaxHistory,   \* steps the undo history keeps (50 in the code)
    None

ASSUME SaveConstants ==
    /\ MaxWrites \in Nat /\ MaxFaults \in Nat /\ MaxMoves \in Nat
    /\ MaxHistory \in Nat \ {0}
    /\ None \notin Nat

VARIABLES
    made,         \* the kinds of the writes made so far, in order
    calls,        \* calls of deliver, in the order they joined the chain
    late,         \* calls given up here whose request the server still works on
    held,         \* the one write kept for later, or None
    timer,        \* a retry is scheduled
    prompt,       \* the sign-in prompt: not shown, open, put off
    saveState,    \* "clean", "saving", "failed"
    session,      \* the server accepts the credential
    landed,       \* what the server applied, in its order
    undoStack, redoStack,
    moves,        \* undos and redos asked for
    unsure,       \* writes one of whose calls failed
    faults

client  == <<held, timer, prompt, saveState>>
history == <<undoStack, redoStack, moves>>
vars == <<made, calls, late, client, session, landed, history, unsure, faults>>

Init ==
    /\ made = << >> /\ calls = << >> /\ late = {}
    /\ held = None /\ timer = FALSE /\ prompt = "no" /\ saveState = "clean"
    /\ session = TRUE /\ landed = << >>
    /\ undoStack = << >> /\ redoStack = << >> /\ moves = << >>
    /\ unsure = {} /\ faults = 0

-----------------------------------------------------------------------------
InChain(c)  == c.at \in {"queued", "applied"}
InFlight(c) == c.at # "over"
Busy == \E i \in DOMAIN calls : InFlight(calls[i])

\* Mutant: every call sends its request at once.
SentAtOnce(i) == InChain(calls[i])

\* writes.current.then(action, action): a request waits for those before it.
OnTheWire(i) == InChain(calls[i]) /\ \A j \in 1..(i - 1) : ~InChain(calls[j])

At(i, stage) == calls' = [calls EXCEPT ![i] = [write |-> @.write, at |-> stage]]

Deliver(w) ==
    /\ calls' = Append(calls, [write |-> w, at |-> "queued"])
    /\ saveState' = "saving"

\* run(): a new write forgets the timer of the one that is held.
Run(kind) ==
    /\ Len(made) < MaxWrites
    /\ made' = Append(made, kind)
    /\ timer' = FALSE
    /\ Deliver(Len(made) + 1)
    /\ UNCHANGED <<late, held, prompt, session, landed, history, unsure, faults>>

Edit == Run("edit")
Publish == saveState = "clean" /\ Run("publish")

\* The server applies the request whose turn it is.
Land(i) ==
    /\ OnTheWire(i) /\ calls[i].at = "queued" /\ session
    /\ At(i, "applied")
    /\ landed' = Append(landed, [write |-> calls[i].write, by |-> "save"])
    /\ UNCHANGED <<made, late, client, session, history, unsure, faults>>

\* A request given up after 45 seconds may still be applied by the server.
LandLate(i) ==
    /\ late' = late \ {i}
    /\ landed' = Append(landed, [write |-> calls[i].write, by |-> "save"])
    /\ UNCHANGED <<made, calls, client, session, history, unsure, faults>>

\* The answer arrives; the action of a publish forgets the history.
Answered(i) ==
    /\ OnTheWire(i) /\ calls[i].at = "applied"
    /\ At(i, "reading")
    /\ IF made[calls[i].write] = "publish"
         THEN undoStack' = << >> /\ redoStack' = << >> /\ moves' = moves
         ELSE UNCHANGED history
    /\ UNCHANGED <<made, late, client, session, landed, unsure, faults>>

\* The server says no (MenuActionRefused): nothing is held, and the board is read again.
Refused(i) ==
    /\ OnTheWire(i) /\ calls[i].at = "queued" /\ session
    /\ At(i, "rereading")
    /\ held' = None
    /\ UNCHANGED <<made, late, timer, prompt, saveState, session, landed, history, unsure, faults>>

\* Mutant: only the first failure of a write schedules a retry.
RetryOnce(i, unauthorized) ==
    /\ At(i, "over")
    /\ held' = calls[i].write
    /\ saveState' = "failed"
    /\ prompt' = IF unauthorized THEN "open" ELSE prompt
    /\ timer' = (timer \/ (~unauthorized /\ calls[i].write \notin unsure))
    /\ unsure' = unsure \cup {calls[i].write}

\* The catch clause.  A lost session is asked back, anything else is retried.
Fail(i, unauthorized) ==
    /\ At(i, "over")
    /\ held' = calls[i].write
    /\ saveState' = "failed"
    /\ prompt' = IF unauthorized THEN "open" ELSE prompt
    /\ timer' = (timer \/ ~unauthorized)
    /\ unsure' = unsure \cup {calls[i].write}

\* A request, its answer or the read of the board is lost or times out.
Lost(i) ==
    /\ OnTheWire(i) \/ calls[i].at = "reading"
    /\ faults < MaxFaults /\ faults' = faults + 1
    /\ late' \in {late} \cup (IF calls[i].at = "queued" THEN {late \cup {i}} ELSE {})
    /\ Fail(i, FALSE)
    /\ UNCHANGED <<made, session, landed, history>>

Unauthorized(i) ==
    /\ ~session
    /\ (OnTheWire(i) /\ calls[i].at = "queued") \/ calls[i].at = "reading"
    /\ Fail(i, TRUE)
    /\ UNCHANGED <<made, late, session, landed, history, faults>>

\* The last of MaxHistory steps, the new one included.
Pushed(stack, w) ==
    LET full == Len(stack) >= MaxHistory
    IN  Append(IF full THEN SubSeq(stack, Len(stack) - MaxHistory + 2, Len(stack)) ELSE stack, w)

\* The board was read after the save: nothing is held, and an edit can be undone.
Confirmed(i) ==
    /\ calls[i].at = "reading" /\ session
    /\ At(i, "over")
    /\ held' = None /\ prompt' = "no" /\ saveState' = "clean"
    /\ IF made[calls[i].write] = "edit"
         THEN /\ undoStack' = Pushed(undoStack, calls[i].write)
              /\ redoStack' = << >>
              /\ moves' = moves
         ELSE UNCHANGED history
    /\ UNCHANGED <<made, late, timer, session, landed, unsure, faults>>

\* Mutant: a refusal's read of the board that fails ends the call there.
RereadUncaught(i) ==
    /\ calls[i].at = "rereading"
    /\ At(i, "over")
    /\ saveState' = IF session THEN "clean" ELSE saveState
    /\ UNCHANGED <<made, late, held, timer, prompt, session, landed, history, unsure, faults>>

\* After a refusal the read may fail: the queue is confirmed all the same.
Reread(i) ==
    /\ calls[i].at = "rereading"
    /\ At(i, "over")
    /\ saveState' = "clean"
    /\ UNCHANGED <<made, late, held, timer, prompt, session, landed, history, unsure, faults>>

\* Mutant: a timer that fires while a call is under way does nothing.
RetryUnlessBusy ==
    /\ timer /\ timer' = FALSE
    /\ IF held # None /\ ~Busy THEN Deliver(held) ELSE UNCHANGED <<calls, saveState>>
    /\ UNCHANGED <<made, late, held, prompt, session, landed, history, unsure, faults>>

\* The retry timer: 1, 2, 4, then every 8 seconds; what is held now is delivered.
RetryFires ==
    /\ timer /\ timer' = FALSE
    /\ IF held # None THEN Deliver(held) ELSE UNCHANGED <<calls, saveState>>
    /\ UNCHANGED <<made, late, held, prompt, session, landed, history, unsure, faults>>

SessionEnds ==
    /\ session /\ session' = FALSE
    /\ faults < MaxFaults /\ faults' = faults + 1
    /\ UNCHANGED <<made, calls, late, client, landed, history, unsure>>

\* resumeAfterSignIn
SignIn ==
    /\ prompt = "open" /\ prompt' = "no"
    /\ session' = TRUE
    /\ IF held # None THEN Deliver(held) ELSE UNCHANGED <<calls, saveState>>
    /\ UNCHANGED <<made, late, held, timer, landed, history, unsure, faults>>

\* The dialog is put off; the line that opens it again is there while a save failed.
PutOff ==
    /\ \/ prompt = "open" /\ prompt' = "deferred"
       \/ prompt = "deferred" /\ saveState = "failed" /\ prompt' = "open"
    /\ UNCHANGED <<made, calls, late, held, timer, saveState, session, landed, history, unsure, faults>>

-----------------------------------------------------------------------------
Last(stack)     == stack[Len(stack)]
AllButLast(stack) == SubSeq(stack, 1, Len(stack) - 1)

\* Mutant: the step leaves its stack only when the server has answered.
UndoInPlace ==
    /\ Len(moves) < MaxMoves /\ undoStack # << >>
    /\ moves' = Append(moves, [write |-> Last(undoStack), way |-> "undo", at |-> "asked"])
    /\ UNCHANGED <<made, calls, late, client, session, landed, undoStack, redoStack, unsure, faults>>

\* Ctrl+Z: the step leaves its stack before its request is sent.
Undo ==
    /\ Len(moves) < MaxMoves /\ undoStack # << >>
    /\ moves' = Append(moves, [write |-> Last(undoStack), way |-> "undo", at |-> "asked"])
    /\ undoStack' = AllButLast(undoStack)
    /\ UNCHANGED <<made, calls, late, client, session, landed, redoStack, unsure, faults>>

Redo ==
    /\ Len(moves) < MaxMoves /\ redoStack # << >>
    /\ moves' = Append(moves, [write |-> Last(redoStack), way |-> "redo", at |-> "asked"])
    /\ redoStack' = AllButLast(redoStack)
    /\ UNCHANGED <<made, calls, late, client, session, landed, undoStack, unsure, faults>>

MoveTo(m, stage) == moves' = [moves EXCEPT ![m] = [write |-> @.write, way |-> @.way, at |-> stage]]

MoveLands(m) ==
    /\ moves[m].at = "asked" /\ session
    /\ MoveTo(m, "applied")
    /\ landed' = Append(landed, [write |-> moves[m].write, by |-> moves[m].way])
    /\ UNCHANGED <<made, calls, late, client, session, undoStack, redoStack, unsure, faults>>

\* The board was read after it: the step goes to the other stack.
MoveDone(m) ==
    /\ moves[m].at = "applied" /\ session
    /\ MoveTo(m, "over")
    /\ IF moves[m].way = "undo"
         THEN redoStack' = Append(redoStack, moves[m].write) /\ undoStack' = undoStack
         ELSE undoStack' = Append(undoStack, moves[m].write) /\ redoStack' = redoStack
    /\ UNCHANGED <<made, calls, late, client, session, landed, unsure, faults>>

\* Refused as stale, unauthorized, lost, or the read failed: the step is forgotten.
MoveFails(m) ==
    /\ moves[m].at # "over"
    /\ MoveTo(m, "over")
    /\ UNCHANGED <<made, calls, late, client, session, landed, undoStack, redoStack, unsure, faults>>

-----------------------------------------------------------------------------
CallStep(i) ==
    \/ Land(i) \/ Answered(i) \/ Refused(i) \/ Lost(i) \/ Unauthorized(i)
    \/ Confirmed(i) \/ Reread(i)

MoveStep(m) == MoveLands(m) \/ MoveDone(m) \/ MoveFails(m)

Next ==
    \/ Edit \/ Publish
    \/ \E i \in DOMAIN calls : CallStep(i)
    \/ \E i \in late : LandLate(i)
    \/ RetryFires \/ SessionEnds \/ SignIn \/ PutOff
    \/ Undo \/ Redo \/ \E m \in DOMAIN moves : MoveStep(m)

Spec == Init /\ [][Next]_vars

\* Every request settles within its 45 seconds, and timers fire.  Nobody is
\* assumed to sign in.
FairSpec == Spec /\ WF_vars(\E i \in DOMAIN calls : CallStep(i)) /\ WF_vars(RetryFires)

-----------------------------------------------------------------------------
(* Properties.                                                             *)

Kinds == {"edit", "publish"}
Calls == [write : Nat, at : {"queued", "applied", "reading", "rereading", "over"}]
Moves == [write : Nat, way : {"undo", "redo"}, at : {"asked", "applied", "over"}]

\* Everything has its type, and nothing refers to a write that was not made.
TypeOK ==
    /\ made \in Seq(Kinds) /\ calls \in Seq(Calls) /\ moves \in Seq(Moves)
    /\ late \subseteq DOMAIN calls
    /\ held = None \/ held \in DOMAIN made
    /\ timer \in BOOLEAN /\ session \in BOOLEAN
    /\ prompt \in {"no", "open", "deferred"}
    /\ saveState \in {"clean", "saving", "failed"}
    /\ landed \in Seq([write : Nat, by : {"save", "undo", "redo"}])
    /\ undoStack \in Seq(Nat) /\ redoStack \in Seq(Nat)
    /\ unsure \subseteq DOMAIN made /\ faults \in 0..MaxFaults
    /\ \A i \in DOMAIN calls : calls[i].write \in DOMAIN made

\* Saves that no call failed of reach the server once each, in the order they were
\* made, whatever else was held, retried, undone or applied late in between.
SavesLandInOrder ==
    \A i, j \in DOMAIN landed :
        /\ i < j
        /\ landed[i].by = "save" /\ landed[j].by = "save"
        /\ landed[i].write \notin unsure /\ landed[j].write \notin unsure
        => landed[i].write < landed[j].write

\* A held change is never stranded: a timer, a prompt or a call is there to move it on.
HeldIsLookedAfter == held # None => timer \/ prompt # "no" \/ Busy

\* Once no call is under way and nothing is held, Publish is open again.
QuietMeansConfirmed == ~Busy /\ held = None => saveState = "clean"

Times(stack, w) == Cardinality({n \in DOMAIN stack : stack[n] = w})
Moving(w) == Cardinality({m \in DOMAIN moves : moves[m].write = w /\ moves[m].at # "over"})

\* The step of a save that never failed is on one stack, or in one undo or redo under
\* way, and never in two places: however fast the keys repeat, it is undone once.
StepsAreInOnePlace ==
    \A w \in DOMAIN made \ unsure :
        Times(undoStack, w) + Times(redoStack, w) + Moving(w) <= 1

\* Saving never hangs, and whatever failed is saved or waits for a sign-in.
SavesSettle == <>[](saveState # "saving" /\ (held = None \/ prompt # "no"))
=============================================================================
