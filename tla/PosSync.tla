------------------------------- MODULE PosSync -------------------------------
(***************************************************************************)
(* What the events of a venue's point of sale do to one mapped menu item:  *)
(* the handlers that the workers of PosWebhooks dispatch to, the hourly    *)
(* Toast poll, and the connection they read first and write back last.     *)
(*                                                                         *)
(* Square and Toast apply what the event says, Clover asks the provider.   *)
(* The item is what the last applied change made of it.                    *)
(***************************************************************************)
EXTENDS PosWebhooks

CONSTANT Providers
ASSUME KnownProviders == Providers \subseteq {"Square", "Toast", "Clover"}

VARIABLES
    provider,     \* the provider of this venue; it never changes
    item,         \* the change the menu item shows
    conn,         \* Status of the PosConnections row, or None
    step,         \* [Workers -> where its handler is, and what it read]
    poll          \* the same of the Toast poll

syncVars == <<provider, item, conn, step, poll>>
vars == <<queueVars, syncVars>>

NoStep == [at |-> "none", conn |-> None, value |-> 0]

Init ==
    /\ QueueInit
    /\ provider \in Providers
    /\ item = 0
    /\ conn \in {None, "Connected"}
    /\ step = [w \in Workers |-> NoStep]
    /\ poll = NoStep

-----------------------------------------------------------------------------
(* A handler.                                                              *)

At(w, at, c, v) == step' = [step EXCEPT ![w] = [at |-> at, conn |-> c, value |-> v]]

Begin(w, n) ==
    /\ Claim(w, n)
    /\ At(w, "begun", None, 0)
    /\ UNCHANGED <<provider, item, conn, poll>>

\* GetByExternalMerchantIdAsync: without a connected venue there is nothing to do.
Look(w) ==
    /\ step[w].at = "begun" /\ worker[w].event \notin Poison
    /\ IF conn = "Connected" THEN At(w, "looked", conn, 0) ELSE At(w, "done", None, 0)
    /\ UNCHANGED <<queueVars, provider, item, conn, poll>>

\* Mutant: Clover's handler applies what the event said, like the others.
FetchFromEvent(w) ==
    /\ step[w].at = "looked"
    /\ At(w, "fetched", step[w].conn, worker[w].event)
    /\ UNCHANGED <<queueVars, provider, item, conn, poll>>

Fetch(w) ==
    /\ step[w].at = "looked"
    /\ At(w, "fetched", step[w].conn, IF provider = "Clover" THEN stock ELSE worker[w].event)
    /\ UNCHANGED <<queueVars, provider, item, conn, poll>>

\* UpdateItemAsync; an item that has the value already is not written, which is the same.
Apply(w) ==
    /\ step[w].at = "fetched"
    /\ item' = step[w].value
    /\ At(w, IF provider = "Clover" THEN "applied" ELSE "done", step[w].conn, 0)
    /\ UNCHANGED <<queueVars, provider, conn, poll>>

\* Clover records the health of the connection: SaveAsync writes all columns of the
\* row that was read, or inserts it when it is gone.
SaveHealth(w) ==
    /\ step[w].at = "applied"
    /\ conn' = step[w].conn
    /\ At(w, "done", None, 0)
    /\ UNCHANGED <<queueVars, provider, item, poll>>

Return(w) ==
    /\ step[w].at = "done" /\ Handled(w)
    /\ step' = [step EXCEPT ![w] = NoStep]
    /\ UNCHANGED <<provider, item, conn, poll>>

\* An exception; Clover's handler tries to record it in the connection it read.
Throw(w) ==
    /\ HandlerFails(w)
    /\ conn' \in {conn} \cup IF provider = "Clover" /\ step[w].conn # None THEN {step[w].conn} ELSE {}
    /\ step' = [step EXCEPT ![w] = NoStep]
    /\ UNCHANGED <<provider, item, poll>>

Die(w) ==
    /\ Crash(w)
    /\ step' = [step EXCEPT ![w] = NoStep]
    /\ UNCHANGED <<provider, item, conn, poll>>

HandlerStep(w) ==
    \/ Look(w) \/ Fetch(w) \/ Apply(w) \/ SaveHealth(w) \/ Return(w) \/ Throw(w)
    \/ Settle(w) /\ UNCHANGED syncVars

-----------------------------------------------------------------------------
(* The poll: one cycle at a time, for connected venues whose time has come. *)

PollAt(at, c, v) == poll' = [at |-> at, conn |-> c, value |-> v]

PollLooks ==
    /\ provider = "Toast" /\ poll.at = "none" /\ conn = "Connected"
    /\ PollAt("looked", conn, poll.value)
    /\ UNCHANGED <<queueVars, provider, item, conn, step>>

PollFetches ==
    /\ poll.at = "looked"
    /\ PollAt("fetched", poll.conn, stock)
    /\ UNCHANGED <<queueVars, provider, item, conn, step>>

\* Mutant: the poll imports items and never corrects one.
PollImports ==
    /\ poll.at = "fetched"
    /\ item' = IF item = 0 THEN poll.value ELSE item
    /\ PollAt("applied", poll.conn, poll.value)
    /\ UNCHANGED <<queueVars, provider, conn, step>>

PollApplies ==
    /\ poll.at = "fetched"
    /\ item' = poll.value
    /\ PollAt("applied", poll.conn, poll.value)
    /\ UNCHANGED <<queueVars, provider, conn, step>>

PollSaves ==
    /\ poll.at = "applied"
    /\ conn' = poll.conn
    /\ PollAt("none", None, 0)
    /\ UNCHANGED <<queueVars, provider, item, step>>

\* A failed poll is recorded, a refused credential by asking for a new one; when the
\* process dies or the record cannot be written, nothing is.
PollFails ==
    /\ poll.at # "none" /\ Fault
    /\ conn' \in {conn, poll.conn, "ReauthorizationRequired"}
    /\ PollAt("none", None, 0)
    /\ UNCHANGED <<stock, events, queue, worker, handled, overrun, provider, item, step>>

PollStep == PollLooks \/ PollFetches \/ PollApplies \/ PollSaves \/ PollFails

-----------------------------------------------------------------------------
\* StoreCredentialsAsync, and DisconnectAsync of Square and Clover.
Connect ==
    /\ conn' = "Connected"
    /\ UNCHANGED <<queueVars, provider, item, step, poll>>

Disconnect ==
    /\ provider # "Toast"
    /\ conn' = None
    /\ UNCHANGED <<queueVars, provider, item, step, poll>>

Next ==
    \/ Change /\ UNCHANGED syncVars
    \/ \E e \in Events : (Receive(e) \/ TimePasses(e)) /\ UNCHANGED syncVars
    \/ \E w \in Workers : HandlerStep(w) \/ Die(w) \/ \E n \in DOMAIN queue : Begin(w, n)
    \/ PollStep
    \/ Connect \/ Disconnect

Spec == Init /\ [][Next]_vars

\* As in QueueFairSpec; and the poller runs.
Fairness ==
    /\ \A e \in Events :
          /\ WF_vars(Receive(e) /\ UNCHANGED syncVars)
          /\ WF_vars(TimePasses(e) /\ UNCHANGED syncVars)
          /\ SF_vars(\E w \in Workers, n \in DOMAIN queue : queue[n] = e /\ Begin(w, n))
    /\ \A w \in Workers : WF_vars(HandlerStep(w))
    /\ WF_vars(PollStep)

FairSpec == Spec /\ Fairness

-----------------------------------------------------------------------------
(* Properties.                                                             *)

Connections == {None, "Connected", "ReauthorizationRequired"}
Steps == [at : {"none", "begun", "looked", "fetched", "applied", "done"}, conn : Connections,
          value : 0..MaxChanges]

\* Everything has its type, and a handler is somewhere exactly while a worker works.
TypeOK ==
    /\ QueueTypeOK
    /\ provider \in Providers /\ item \in 0..MaxChanges /\ conn \in Connections
    /\ step \in [Workers -> Steps] /\ poll \in Steps
    /\ \A w \in Workers : step[w].at = "none" <=> worker[w].at # "working"

\* Toast: webhooks are applied in any order, late ones last, and may be lost while
\* the venue is not connected; once it stays connected, the poll makes it right (and
\* once attempts at one event stop undoing each other, see WorksItOff).
ToastConverges ==
    provider = "Toast" /\ <>[](conn = "Connected" /\ \A v, w \in Workers : ~Overlap(v, w))
        => <>[](item = stock)

\* Clover: there is no poll, but its handler asks the provider.  As long as the venue
\* is connected and no two attempts overlap, the item ends up right whatever order
\* the events are applied in, unless it is the last event that cannot be handled.
OneAtATime == Cardinality({w \in Workers : worker[w].at # "idle"}) <= 1
CloverConverges ==
    provider = "Clover" /\ [](conn = "Connected" /\ OneAtATime)
        => <>[](item = stock \/ stock \in Poison)
=============================================================================
