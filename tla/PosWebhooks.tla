----------------------------- MODULE PosWebhooks -----------------------------
(***************************************************************************)
(* The inbox of point-of-sale webhooks: PosWebhookEvents, the controller   *)
(* that stores what providers deliver, and the workers (one per API        *)
(* process) that claim, dispatch and settle events.                        *)
(*                                                                         *)
(* Event n tells of the n-th change at the provider.  Providers deliver an *)
(* event any number of times, in any order, until it was accepted once.    *)
(***************************************************************************)
EXTENDS Integers, Sequences, FiniteSets

CONSTANTS
    MaxChanges,   \* changes at the provider (a bound)
    Workers,
    Poison,       \* events whose handler always fails
    MaxFaults,    \* failed handlers and dead workers (a bound)
    None

Events == 1..MaxChanges
ASSUME QueueConstants ==
    /\ MaxChanges \in Nat /\ MaxFaults \in Nat
    /\ Poison \subseteq Events /\ None \notin Events

VARIABLES
    stock,        \* changes made at the provider so far
    events,       \* the rows of PosWebhookEvents
    queue,        \* their order by ReceivedUtc
    worker,       \* what each worker is doing, and for which event
    handled,      \* events a dispatch of which completed
    overrun,      \* events claimed anew because a lease ran out
    faults

queueVars == <<stock, events, queue, worker, handled, overrun, faults>>

Statuses == {"none", "queued", "processing", "processed", "failed"}

\* A row: its status, and whether its time has come: NextAttemptUtc is past, or
\* StartedUtc is older than the lease.
Row(status, ready) == [status |-> status, ready |-> ready]
Idle == [at |-> "idle", event |-> None]

QueueInit ==
    /\ stock = 0
    /\ events = [e \in Events |-> Row("none", FALSE)]
    /\ queue = << >>
    /\ worker = [w \in Workers |-> Idle]
    /\ handled = {} /\ overrun = {} /\ faults = 0

Fault == faults < MaxFaults /\ faults' = faults + 1

-----------------------------------------------------------------------------
Change ==
    /\ stock < MaxChanges /\ stock' = stock + 1
    /\ UNCHANGED <<events, queue, worker, handled, overrun, faults>>

\* Mutant: a repeated delivery queues its event again.
ReceiveAgain(e) ==
    /\ e <= stock
    /\ events' = [events EXCEPT ![e] = Row("queued", TRUE)]
    /\ queue' = IF events[e].status = "none" THEN Append(queue, e) ELSE queue
    /\ UNCHANGED <<stock, worker, handled, overrun, faults>>

\* EnqueueAsync: the row is inserted unless the provider's event is there already.
Receive(e) ==
    /\ e <= stock /\ events[e].status = "none"
    /\ events' = [events EXCEPT ![e] = Row("queued", TRUE)]
    /\ queue' = Append(queue, e)
    /\ UNCHANGED <<stock, worker, handled, overrun, faults>>

\* Mutant: the claim does not look for events whose lease ran out.
EligibleUnlessClaimed(e) == events[e].status \in {"queued", "failed"} /\ events[e].ready

Eligible(e) == events[e].status \in {"queued", "failed", "processing"} /\ events[e].ready

Put(w, at, e) == worker' = [worker EXCEPT ![w] = [at |-> at, event |-> e]]

\* TryClaimNextAsync takes the oldest event whose time has come.
Claim(w, n) ==
    LET e == queue[n] IN
    /\ worker[w].at = "idle"
    /\ Eligible(e) /\ \A k \in 1..(n - 1) : ~Eligible(queue[k])
    /\ events' = [events EXCEPT ![e] = Row("processing", FALSE)]
    /\ Put(w, "working", e)
    /\ overrun' = IF events[e].status = "processing" THEN overrun \cup {e} ELSE overrun
    /\ UNCHANGED <<stock, queue, handled, faults>>

\* The backoff of a failed event ends, or the lease of a claimed one runs out.
TimePasses(e) ==
    /\ events[e].status \in {"failed", "processing"} /\ ~events[e].ready
    /\ events' = [events EXCEPT ![e].ready = TRUE]
    /\ UNCHANGED <<stock, queue, worker, handled, overrun, faults>>

\* Every handler of the event returned.
Handled(w) ==
    /\ worker[w].at = "working" /\ worker[w].event \notin Poison
    /\ Put(w, "handled", worker[w].event)
    /\ handled' = handled \cup {worker[w].event}
    /\ UNCHANGED <<stock, events, queue, overrun, faults>>

\* A handler threw.
HandlerFails(w) ==
    /\ worker[w].at = "working"
    /\ IF worker[w].event \in Poison THEN faults' = faults ELSE Fault
    /\ Put(w, "failed", worker[w].event)
    /\ UNCHANGED <<stock, events, queue, handled, overrun>>

\* MarkProcessedAsync writes a row that is being processed, whoever holds it now;
\* finding none, it throws, and the attempt is marked failed.
MarkProcessed(w) ==
    LET e == worker[w].event IN
    /\ worker[w].at = "handled"
    /\ IF events[e].status = "processing"
         THEN /\ events' = [events EXCEPT ![e] = Row("processed", FALSE)]
              /\ Put(w, "idle", None)
         ELSE Put(w, "failed", e) /\ UNCHANGED events
    /\ UNCHANGED <<stock, queue, handled, overrun, faults>>

\* MarkFailedAsync likewise; the next attempt waits between 1 and 15 minutes.
MarkFailed(w) ==
    LET e == worker[w].event IN
    /\ worker[w].at = "failed"
    /\ events' = IF events[e].status = "processing"
                   THEN [events EXCEPT ![e] = Row("failed", FALSE)] ELSE events
    /\ Put(w, "idle", None)
    /\ UNCHANGED <<stock, queue, handled, overrun, faults>>

\* A process dies or shuts down, or the database refuses to settle the event: the
\* row keeps its status, and a worker starts over.
Crash(w) ==
    /\ worker[w].at # "idle" /\ Fault
    /\ Put(w, "idle", None)
    /\ UNCHANGED <<stock, events, queue, handled, overrun>>

Settle(w) == MarkProcessed(w) \/ MarkFailed(w)

-----------------------------------------------------------------------------
QueueNext ==
    \/ Change
    \/ \E e \in Events : Receive(e) \/ TimePasses(e)
    \/ \E w \in Workers :
          \/ \E n \in DOMAIN queue : Claim(w, n)
          \/ Handled(w) \/ HandlerFails(w) \/ Settle(w) \/ Crash(w)

QueueSpec == QueueInit /\ [][QueueNext]_queueVars

\* Providers redeliver until they are answered; clocks advance; handlers return or
\* throw.  An event's turn comes although older ones fail again and again: their
\* backoff is at least a minute, and a worker claims the next event at once.
QueueFairSpec ==
    /\ QueueSpec
    /\ \A e \in Events :
          /\ WF_queueVars(Receive(e)) /\ WF_queueVars(TimePasses(e))
          /\ SF_queueVars(\E w \in Workers, n \in DOMAIN queue : queue[n] = e /\ Claim(w, n))
    /\ \A w \in Workers : WF_queueVars(Handled(w) \/ HandlerFails(w) \/ Settle(w))

-----------------------------------------------------------------------------
(* Properties.                                                             *)

Attempts == [at : {"idle", "working", "handled", "failed"}, event : Events \cup {None}]

\* Every row, place in the queue and attempt has its type, and the queue holds
\* exactly the rows there are, once each.
QueueTypeOK ==
    /\ stock \in 0..MaxChanges /\ faults \in 0..MaxFaults
    /\ events \in [Events -> [status : Statuses, ready : BOOLEAN]]
    /\ queue \in Seq(Events)
    /\ \A e \in Events : (events[e].status # "none") <=> \E n \in DOMAIN queue : queue[n] = e
    /\ \A m, n \in DOMAIN queue : queue[m] = queue[n] => m = n
    /\ worker \in [Workers -> Attempts]
    /\ \A w \in Workers : worker[w].at = "idle" <=> worker[w].event = None
    /\ handled \subseteq Events /\ overrun \subseteq Events

Overlap(v, w) == v # w /\ worker[v].at # "idle" /\ worker[v].event = worker[w].event

\* Two workers are on one event only if a lease of it ran out: neither a repeated
\* delivery nor a failure nor a crash makes two attempts overlap.
ExclusiveUnlessOverrun ==
    \A v, w \in Workers : Overlap(v, w) => worker[v].event \in overrun

Inbox == INSTANCE DurableWork WITH
    Items <- Events, Hopeless <- Poison,
    accepted <- {e \in Events : events[e].status # "none"},
    worked <- handled,
    done <- {e \in Events : events[e].status = "processed"}

\* Nothing accepted is lost or done without having been worked off, and what is done
\* is never taken up again.
KeepsWork == Inbox!Spec

\* Every event but the hopeless is worked off, whatever is delivered twice, fails or
\* dies, and whatever fails forever next to it; provided that attempts at the same
\* event do not overlap forever, for they undo each other's claims.
WorksItOff == <>[](\A v, w \in Workers : ~Overlap(v, w)) => Inbox!AllDone
=============================================================================
