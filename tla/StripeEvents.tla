---------------------------- MODULE StripeEvents ----------------------------
(***************************************************************************)
(* What Stripe's webhooks and two local operations do to an organization's *)
(* subscription: the ledger of processed events with its leased claims,    *)
(* the OrganizationSubscriptions row and its projection to every venue.    *)
(*                                                                         *)
(* A writer is a request: the delivery of an event, a tier switch or the   *)
(* expiry of a trial.  Every repository call of it is a step.              *)
(***************************************************************************)
EXTENDS Integers, Sequences, FiniteSets

CONSTANTS
    Writers,      \* requests that can run at the same time
    VenueOrder,   \* the organization's venues, by Id
    Tiers,
    MaxEvents,    \* events that Stripe sends (a bound)
    MaxFaults,    \* failed calls and dead processes (a bound)
    None

Events == 1..MaxEvents
Venues == {VenueOrder[n] : n \in DOMAIN VenueOrder}
ASSUME BillingConstants ==
    MaxEvents \in Nat /\ MaxFaults \in Nat /\ None \notin Tiers /\ VenueOrder \in Seq(Venues)

VARIABLES
    stripe,       \* the subscription as Stripe has it
    sent,         \* the events that tell of its changes
    answered,     \* events that were answered with 200
    ledger,       \* ProcessedStripeEvents: status, and whether the lease ran out
    org, venue,   \* the organization's row, and those of its venues
    writer,
    applied,      \* events the row was written for
    disturbed,    \* events an attempt of which failed, died or was overtaken
    calm,         \* writers never overlapped, and events were taken up in order
    faults

vars == <<stripe, sent, answered, ledger, org, venue, writer, applied, disturbed, calm, faults>>

Statuses == {"none", "trialing", "active", "past_due", "canceled"}

\* A subscription row; linked: it has its Stripe subscription's id.
Sub(tier, status, linked) == [tier |-> tier, status |-> status, linked |-> linked]
NoRow == Sub(None, "none", FALSE)

Idle == [at |-> "idle", kind |-> "none", event |-> 0, row |-> NoRow, old |-> None, left |-> << >>]

Init ==
    /\ sent = << >> /\ answered = {}
    /\ ledger = [e \in Events |-> [status |-> "none", stale |-> FALSE]]
    /\ \E t \in Tiers :
          \/ stripe = NoRow /\ org \in {NoRow, Sub(t, "trialing", FALSE)}
          \/ stripe = Sub(t, "active", TRUE) /\ org = stripe
    /\ venue = [v \in Venues |-> org]
    /\ writer = [w \in Writers |-> Idle]
    /\ applied = {} /\ disturbed = {} /\ calm = TRUE /\ faults = 0

Fault == faults < MaxFaults /\ faults' = faults + 1

\* What an event makes of a row: the subscription as it is now, invoice.paid, or
\* its deletion.
Effect(ev, row) ==
    CASE ev.kind = "updated" -> Sub(ev.tier, ev.status, TRUE)
      [] ev.kind = "paid" -> [row EXCEPT !.status = "active"]
      [] ev.kind = "deleted" -> [row EXCEPT !.status = "canceled"]

Event(kind, tier, status) == [kind |-> kind, tier |-> tier, status |-> status]

\* The bound keeps room for the two events that a tier switch may cause.
Room == MaxEvents - Len(sent) - 2 * Cardinality({w \in Writers : writer[w].kind = "switch"})

Send(ev) ==
    /\ sent' = Append(sent, ev)
    /\ stripe' = Effect(ev, stripe)

-----------------------------------------------------------------------------
(* Stripe.                                                                 *)

Changes ==
    {Event("updated", t, s) : t \in Tiers, s \in {"active", "past_due"}}
        \cup IF stripe = NoRow THEN {} ELSE {Event("paid", None, "none"), Event("deleted", None, "none")}

StripeChanges ==
    /\ stripe.status # "canceled" /\ Room > 0
    /\ \E ev \in Changes : Send(ev) /\ stripe' # stripe
    /\ UNCHANGED <<answered, ledger, org, venue, writer, applied, disturbed, calm, faults>>

Processed(e) == ledger[e].status = "processed"
Alone(w) == \A v \in Writers \ {w} : writer[v].at = "idle"

\* Mutant: a claim does not wait for the lease of another to run out.
ClaimableHeld(e) == ledger[e].status # "processed"

Claimable(e) == ledger[e].status \in {"none", "failed"} \/ ledger[e].stale

\* TryClaimAsync; when the event is taken or done, the answer is 200.
Deliver(w, e) ==
    /\ writer[w].at = "idle" /\ e \in DOMAIN sent \ answered
    /\ IF Claimable(e)
         THEN /\ ledger' = [ledger EXCEPT ![e] = [status |-> "processing", stale |-> FALSE]]
              /\ writer' = [writer EXCEPT ![w] =
                              [Idle EXCEPT !.at = "read", !.kind = "event", !.event = e]]
              /\ disturbed' = IF ledger[e].stale THEN disturbed \cup {e} ELSE disturbed
              /\ calm' = (calm /\ Alone(w) /\ \A d \in 1..(e - 1) : Processed(d))
              /\ UNCHANGED answered
         ELSE /\ answered' = answered \cup {e}
              /\ UNCHANGED <<ledger, writer, disturbed, calm>>
    /\ UNCHANGED <<stripe, sent, org, venue, applied, faults>>

LeaseRunsOut(e) ==
    /\ ledger[e].status = "processing" /\ ~ledger[e].stale
    /\ ledger' = [ledger EXCEPT ![e].stale = TRUE]
    /\ UNCHANGED <<stripe, sent, answered, org, venue, writer, applied, disturbed, calm, faults>>

-----------------------------------------------------------------------------
(* The handlers.                                                           *)

Goto(w, at) == writer' = [writer EXCEPT ![w].at = at]

\* invoice.paid and deletions look the row up by its Stripe id, and throw without it.
Read(w) ==
    LET ev == sent[writer[w].event] IN
    /\ writer[w].at = "read"
    /\ IF ev.kind = "updated" \/ org.linked
         THEN writer' = [writer EXCEPT ![w].at = "save", ![w].row = Effect(ev, org)]
         ELSE Goto(w, "failed")
    /\ UNCHANGED <<stripe, sent, answered, ledger, org, venue, applied, disturbed, calm, faults>>

\* SaveAsync writes the whole row that was read, with its changes.
Save(w) ==
    /\ writer[w].at \in {"save", "undo"}
    /\ org' = writer[w].row
    /\ writer' = [writer EXCEPT ![w].at = IF writer[w].at = "save" THEN "sync" ELSE "unsync",
                                ![w].left = VenueOrder]
    /\ applied' = applied \cup IF writer[w].kind = "event" THEN {writer[w].event} ELSE {}
    /\ UNCHANGED <<stripe, sent, answered, ledger, venue, disturbed, calm, faults>>

\* Mutant: a venue that has a row keeps it.
ProjectMissing(w) ==
    /\ writer[w].at \in {"sync", "unsync"} /\ writer[w].left # << >>
    /\ venue' = [venue EXCEPT ![Head(writer[w].left)] = IF @ = NoRow THEN writer[w].row ELSE @]
    /\ writer' = [writer EXCEPT ![w].left = Tail(@)]
    /\ UNCHANGED <<stripe, sent, answered, ledger, org, applied, disturbed, calm, faults>>

\* SyncAsync, venue by venue.
Project(w) ==
    /\ writer[w].at \in {"sync", "unsync"} /\ writer[w].left # << >>
    /\ venue' = [venue EXCEPT ![Head(writer[w].left)] = writer[w].row]
    /\ writer' = [writer EXCEPT ![w].left = Tail(@)]
    /\ UNCHANGED <<stripe, sent, answered, ledger, org, applied, disturbed, calm, faults>>

\* MarkProcessedAsync; without the claim it throws.
MarkProcessed(w) ==
    LET e == writer[w].event IN
    /\ writer[w].kind = "event" /\ writer[w].at = "sync" /\ writer[w].left = << >>
    /\ IF ledger[e].status = "processing"
         THEN /\ ledger' = [ledger EXCEPT ![e] = [status |-> "processed", stale |-> FALSE]]
              /\ answered' = answered \cup {e}
              /\ writer' = [writer EXCEPT ![w] = Idle]
         ELSE Goto(w, "failed") /\ UNCHANGED <<ledger, answered>>
    /\ UNCHANGED <<stripe, sent, org, venue, applied, disturbed, calm, faults>>

\* Mutant: a failure settles the event whatever it has come to meanwhile.
MarkFailedAny(w) ==
    LET e == writer[w].event IN
    /\ writer[w].at = "failed"
    /\ ledger' = [ledger EXCEPT ![e] = [status |-> "failed", stale |-> FALSE]]
    /\ writer' = [writer EXCEPT ![w] = Idle]
    /\ disturbed' = disturbed \cup {e}
    /\ UNCHANGED <<stripe, sent, answered, org, venue, applied, calm, faults>>

\* MarkFailedAsync, and the exception on its way to Stripe.
MarkFailed(w) ==
    LET e == writer[w].event IN
    /\ writer[w].at = "failed"
    /\ ledger' = IF ledger[e].status = "processing"
                   THEN [ledger EXCEPT ![e] = [status |-> "failed", stale |-> FALSE]] ELSE ledger
    /\ writer' = [writer EXCEPT ![w] = Idle]
    /\ disturbed' = disturbed \cup {e}
    /\ UNCHANGED <<stripe, sent, answered, org, venue, applied, calm, faults>>

-----------------------------------------------------------------------------
(* The local operations.                                                   *)

\* ExpireTrialsAsync read the row, and the trial had ended.
ExpireTrial(w) ==
    /\ writer[w].at = "idle" /\ org.status = "trialing"
    /\ writer' = [writer EXCEPT ![w] = [Idle EXCEPT !.at = "save", !.kind = "expire",
                                                   !.row = [org EXCEPT !.status = "canceled"]]]
    /\ calm' = (calm /\ Alone(w))
    /\ UNCHANGED <<stripe, sent, answered, ledger, org, venue, applied, disturbed, faults>>

\* SwitchAsync reads the row; one that has the tier is only projected, and one that
\* is not linked is refused.
ReadForSwitch(w, t) ==
    /\ writer[w].at = "idle" /\ (org.linked \/ org.tier = t) /\ Room > 1
    /\ writer' = [writer EXCEPT ![w] =
                    [Idle EXCEPT !.at = IF org.tier = t THEN "last" ELSE "change", !.kind = "switch",
                                 !.row = [org EXCEPT !.tier = t], !.old = org.tier]]
    /\ calm' = (calm /\ Alone(w))
    /\ UNCHANGED <<stripe, sent, answered, ledger, org, venue, applied, disturbed, faults>>

\* ChangeAsync: Stripe changes the price, and sends the event.
ChangeAtStripe(w) ==
    /\ writer[w].at = "change"
    /\ IF stripe.status = "canceled"
         THEN writer' = [writer EXCEPT ![w] = Idle] /\ UNCHANGED <<stripe, sent>>
         ELSE Send(Event("updated", writer[w].row.tier, stripe.status)) /\ Goto(w, "save")
    /\ UNCHANGED <<answered, ledger, org, venue, applied, disturbed, calm, faults>>

\* The catch of SwitchAsync saves and projects the row it had read, then
\* RestoreAsync gives Stripe the old price.
Restore(w) ==
    /\ writer[w].at = "unsync" /\ writer[w].left = << >>
    /\ writer' = [writer EXCEPT ![w] = Idle]
    /\ IF stripe.status = "canceled" THEN UNCHANGED <<stripe, sent>>
       ELSE Send(Event("updated", writer[w].old, stripe.status))
    /\ UNCHANGED <<answered, ledger, org, venue, applied, disturbed, calm, faults>>

\* SwitchAsync projects the row to the venue it was asked for once more.
Return(w) ==
    /\ writer[w].left = << >>
    /\ \/ writer[w].kind = "switch" /\ writer[w].at = "sync" /\ Goto(w, "last") /\ UNCHANGED venue
       \/ /\ writer[w].at = "last"
          /\ \E v \in Venues : venue' = [venue EXCEPT ![v] = writer[w].row]
          /\ writer' = [writer EXCEPT ![w] = Idle]
       \/ /\ writer[w].kind = "expire" /\ writer[w].at = "sync"
          /\ writer' = [writer EXCEPT ![w] = Idle] /\ UNCHANGED venue
    /\ UNCHANGED <<stripe, sent, answered, ledger, org, applied, disturbed, calm, faults>>

-----------------------------------------------------------------------------
\* A call of the database or of Stripe throws.
Throw(w) ==
    /\ writer[w].at \notin {"idle", "failed"} /\ Fault
    /\ CASE writer[w].kind = "event" -> Goto(w, "failed")
         [] writer[w].kind = "switch" /\ writer[w].at \in {"save", "sync"} ->
              writer' = [writer EXCEPT ![w].at = "undo", ![w].row.tier = writer[w].old]
         [] OTHER -> writer' = [writer EXCEPT ![w] = Idle]
    /\ UNCHANGED <<stripe, sent, answered, ledger, org, venue, applied, disturbed, calm>>

\* The process dies, or a failure cannot be recorded.
Die(w) ==
    /\ writer[w].at # "idle" /\ Fault
    /\ writer' = [writer EXCEPT ![w] = Idle]
    /\ disturbed' = IF writer[w].kind = "event" THEN disturbed \cup {writer[w].event} ELSE disturbed
    /\ UNCHANGED <<stripe, sent, answered, ledger, org, venue, applied, calm>>

Step(w) ==
    \/ Read(w) \/ Save(w) \/ Project(w) \/ MarkProcessed(w) \/ MarkFailed(w)
    \/ ChangeAtStripe(w) \/ Restore(w) \/ Return(w)

Next ==
    \/ StripeChanges
    \/ \E e \in Events : LeaseRunsOut(e)
    \/ \E w \in Writers :
          \/ \E e \in Events : Deliver(w, e)
          \/ ExpireTrial(w) \/ \E t \in Tiers : ReadForSwitch(w, t)
          \/ Step(w) \/ Throw(w) \/ Die(w)

Spec == Init /\ [][Next]_vars

-----------------------------------------------------------------------------
(* Properties.                                                             *)

Rows == [tier : Tiers \cup {None}, status : Statuses, linked : BOOLEAN]
Requests == [at : {"idle", "read", "save", "sync", "failed", "change", "undo", "unsync", "last"},
             kind : {"none", "event", "expire", "switch"}, event : 0..MaxEvents, row : Rows,
             old : Tiers \cup {None}, left : Seq(Venues)]
Notices == [kind : {"updated", "paid", "deleted"}, tier : Tiers \cup {None}, status : Statuses]

\* Everything has its type, and only what Stripe sent is in the ledger.
TypeOK ==
    /\ stripe \in Rows /\ org \in Rows /\ venue \in [Venues -> Rows]
    /\ sent \in Seq(Notices) /\ answered \subseteq DOMAIN sent
    /\ ledger \in [Events -> [status : {"none", "processing", "processed", "failed"}, stale : BOOLEAN]]
    /\ \A e \in Events : ledger[e].status # "none" => e \in DOMAIN sent
    /\ \A e \in Events : ledger[e].stale => ledger[e].status = "processing"
    /\ writer \in [Writers -> Requests]
    /\ calm \in BOOLEAN /\ faults \in 0..MaxFaults /\ applied \subseteq Events /\ disturbed \subseteq Events

Inbox == INSTANCE DurableWork WITH
    Items <- Events, Hopeless <- {},
    accepted <- {e \in Events : ledger[e].status # "none"},
    worked <- applied,
    done <- {e \in Events : ledger[e].status = "processed"}

\* An event counts as processed only once it was applied, and is then never
\* claimed, failed or applied again by the ledger's leave.
KeepsWork == Inbox!Spec

\* However often an event is delivered, the row is written for it once, unless an
\* attempt at it failed, died, or was overtaken when its lease ran out.
AppliedOnce ==
    [][\A w \in Writers :
          Save(w) /\ writer[w].kind = "event" /\ writer[w].event \in applied
            => writer[w].event \in disturbed]_vars

\* When deliveries come in order and writers do not overlap, then once everything
\* Stripe sent is processed, the organization and every venue have the subscription
\* that Stripe has: redelivery repairs whatever a failure, a dead process or a tier
\* switch that was half undone has left behind.
FollowsStripe ==
    calm /\ sent # << >> /\ (\A e \in DOMAIN sent : Processed(e)) /\ (\A w \in Writers : writer[w].at = "idle")
        => org = stripe /\ \A v \in Venues : venue[v] = org
=============================================================================
