-------------------------- MODULE PosWebhooksProofs --------------------------
(***************************************************************************)
(* The webhook inbox keeps what it accepts, and lets two workers at one    *)
(* event only when a lease ran out: for any number of events and workers,  *)
(* and also when its workers run the handlers of PosSync.                  *)
(*                                                                         *)
(* Neither is inductive as it stands.  That the row of an attempt is still *)
(* "processing" unless a lease of it ran out (Held) keeps a second claim   *)
(* away; that an attempt is at a stored row, and past its handlers only    *)
(* when they returned (Backed), is what makes settling it right.           *)
(***************************************************************************)
EXTENDS PosSync, SequenceTheorems, TLAPS

Is(w, where) == worker[w].at = where

Held ==
    \A w \in Workers :
        ~Is(w, "idle") /\ worker[w].event \notin overrun
            => events[worker[w].event].status = "processing"

Backed ==
    \A w \in Workers :
        /\ ~Is(w, "idle") => events[worker[w].event].status # "none"
        /\ Is(w, "handled") => worker[w].event \in handled

QueueInv == QueueTypeOK /\ Held /\ Backed /\ ExclusiveUnlessOverrun

-----------------------------------------------------------------------------
(* The types.                                                              *)

LEMMA NoneIsNoEvent == None \notin Events /\ MaxChanges \in Nat /\ MaxFaults \in Nat
BY QueueConstants DEF Events

LEMMA TypesInit == QueueInit => QueueInv
<1> SUFFICES ASSUME QueueInit PROVE QueueInv
  OBVIOUS
<1>1. QueueTypeOK
  BY NoneIsNoEvent DEF QueueInit, QueueTypeOK, Events, Row, Idle, Statuses, Attempts
<1>2. \A w \in Workers : worker[w].at = "idle"
  BY DEF QueueInit, Idle
<1> QED
  BY <1>1, <1>2 DEF QueueInv, Held, Backed, Is, ExclusiveUnlessOverrun, Overlap

\* What a step does to the rows, the queue and the attempts, for the lemmas below.
RowsKept == \A e \in Events : (events'[e].status # "none") <=> (events[e].status # "none")

LEMMA RowTypes ==
    ASSUME events \in [Events -> [status : Statuses, ready : BOOLEAN]],
           NEW e \in Events, NEW s \in Statuses, NEW b \in BOOLEAN
    PROVE  /\ [events EXCEPT ![e] = Row(s, b)] \in [Events -> [status : Statuses, ready : BOOLEAN]]
           /\ \A d \in Events : [events EXCEPT ![e] = Row(s, b)][d].status
                                  = IF d = e THEN s ELSE events[d].status
BY DEF Row

LEMMA AttemptTypes ==
    ASSUME worker \in [Workers -> Attempts], NEW w \in Workers, NEW a, NEW e,
           [at |-> a, event |-> e] \in Attempts, Put(w, a, e)
    PROVE  /\ worker' \in [Workers -> Attempts]
           /\ worker'[w] = [at |-> a, event |-> e]
           /\ \A v \in Workers \ {w} : worker'[v] = worker[v]
BY DEF Put

LEMMA ReceiveKeeps ==
    ASSUME QueueInv, NEW e \in Events, Receive(e)
    PROVE  QueueInv'
<1> USE DEF QueueInv
<1>1. "queued" \in Statuses /\ "none" \in Statuses
  BY DEF Statuses
<1>2. /\ events' \in [Events -> [status : Statuses, ready : BOOLEAN]]
      /\ \A d \in Events : events'[d].status = IF d = e THEN "queued" ELSE events[d].status
  BY <1>1, RowTypes DEF QueueTypeOK, Receive
<1>3. /\ queue' \in Seq(Events) /\ Len(queue) \in Nat /\ Len(queue') = Len(queue) + 1
      /\ DOMAIN queue' = 1..(Len(queue) + 1) /\ DOMAIN queue = 1..Len(queue)
      /\ queue'[Len(queue) + 1] = e
      /\ \A n \in DOMAIN queue : queue'[n] = queue[n]
  BY DEF QueueTypeOK, Receive
<1>4. \A n \in DOMAIN queue : queue[n] # e
  BY DEF QueueTypeOK, Receive
<1>5. \A d \in Events : (events'[d].status # "none") <=> \E n \in DOMAIN queue' : queue'[n] = d
  <2> SUFFICES ASSUME NEW d \in Events
               PROVE  (events'[d].status # "none") <=> \E n \in DOMAIN queue' : queue'[n] = d
    OBVIOUS
  <2>1. CASE d = e
    BY <1>2, <1>3, <2>1
  <2>2. CASE d # e
    <3>1. (events[d].status # "none") <=> \E n \in DOMAIN queue : queue[n] = d
      BY DEF QueueTypeOK
    <3>2. (\E n \in DOMAIN queue : queue[n] = d) <=> \E n \in DOMAIN queue' : queue'[n] = d
      BY <1>3, <2>2
    <3> QED
      BY <1>2, <2>2, <3>1, <3>2
  <2> QED
    BY <2>1, <2>2
<1>6. \A m, n \in DOMAIN queue' : queue'[m] = queue'[n] => m = n
  BY <1>3, <1>4 DEF QueueTypeOK
<1>7. QueueTypeOK'
  BY <1>2, <1>3, <1>5, <1>6 DEF QueueTypeOK, Receive
<1>8. \A w \in Workers : ~Is(w, "idle") => worker[w].event \in Events
  BY DEF QueueTypeOK, Attempts, Is
<1>9. Held' /\ Backed'
  BY <1>2, <1>8 DEF Held, Backed, Is, Receive
<1>10. ExclusiveUnlessOverrun'
  BY DEF ExclusiveUnlessOverrun, Overlap, Receive
<1> QED
  BY <1>7, <1>9, <1>10

\* Types when no row is added: the queue stays, and so do the rows it holds.
LEMMA TypesKept ==
    ASSUME QueueTypeOK, RowsKept, UNCHANGED <<stock, queue>>,
           events' \in [Events -> [status : Statuses, ready : BOOLEAN]],
           worker' \in [Workers -> Attempts],
           \A w \in Workers : worker'[w].at = "idle" <=> worker'[w].event = None,
           handled' \subseteq Events, overrun' \subseteq Events, faults' \in 0..MaxFaults
    PROVE  QueueTypeOK'
BY DEF QueueTypeOK, RowsKept

LEMMA FaultTypes == faults \in 0..MaxFaults /\ Fault => faults' \in 0..MaxFaults
BY NoneIsNoEvent DEF Fault

LEMMA AttemptEvents ==
    ASSUME QueueTypeOK, NEW w \in Workers, ~Is(w, "idle")
    PROVE  worker[w].event \in Events
BY DEF QueueTypeOK, Attempts, Is

LEMMA OthersKeep ==
    ASSUME QueueInv, UNCHANGED <<stock, events, queue, worker, handled, overrun>>,
           faults' \in 0..MaxFaults
    PROVE  QueueInv'
BY DEF QueueInv, QueueTypeOK, Held, Backed, Is, ExclusiveUnlessOverrun, Overlap

\* A claim takes a row no attempt is at, unless the lease of that attempt ran out.
LEMMA ClaimKeeps ==
    ASSUME QueueInv, NEW w \in Workers, NEW n \in DOMAIN queue, Claim(w, n)
    PROVE  QueueInv'
<1> USE DEF QueueInv
<1> DEFINE e == queue[n]
<1>1. e \in Events
  BY DEF QueueTypeOK
<1>2. "processing" \in Statuses
  BY DEF Statuses
<1>3. /\ events' = [events EXCEPT ![e] = Row("processing", FALSE)]
      /\ Put(w, "working", e)
      /\ overrun' = IF events[e].status = "processing" THEN overrun \cup {e} ELSE overrun
      /\ UNCHANGED <<stock, queue, handled, faults>>
      /\ Is(w, "idle") /\ Eligible(e)
  BY DEF Claim, Is
<1> HIDE DEF e
<1>4. /\ events' \in [Events -> [status : Statuses, ready : BOOLEAN]]
      /\ \A d \in Events : events'[d].status = IF d = e THEN "processing" ELSE events[d].status
  BY <1>1, <1>2, <1>3, RowTypes DEF QueueTypeOK
<1>5. [at |-> "working", event |-> e] \in Attempts
  BY <1>1 DEF Attempts
<1>6. /\ worker' \in [Workers -> Attempts]
      /\ worker'[w] = [at |-> "working", event |-> e]
      /\ \A v \in Workers \ {w} : worker'[v] = worker[v]
  BY <1>3, <1>5, AttemptTypes DEF QueueTypeOK
<1>7. events[e].status \notin {"none", "processed"}
  BY <1>3 DEF Eligible
<1>8. QueueTypeOK'
  <2>1. RowsKept
    BY <1>4, <1>7 DEF RowsKept
  <2>2. \A v \in Workers : worker'[v].at = "idle" <=> worker'[v].event = None
    BY <1>1, <1>6, NoneIsNoEvent DEF QueueTypeOK
  <2> QED
    BY <1>1, <1>3, <1>4, <1>6, <2>1, <2>2, TypesKept DEF QueueTypeOK
<1>9. Held' /\ Backed'
  <2> SUFFICES ASSUME NEW v \in Workers
               PROVE  /\ ~Is(v, "idle")' /\ worker'[v].event \notin overrun'
                            => events'[worker'[v].event].status = "processing"
                      /\ ~Is(v, "idle")' => events'[worker'[v].event].status # "none"
                      /\ Is(v, "handled")' => worker'[v].event \in handled'
    BY DEF Held, Backed
  <2>1. CASE v = w
    BY <1>1, <1>4, <1>6, <2>1 DEF Is
  <2>2. CASE v # w
    <3>1. worker'[v] = worker[v] /\ overrun \subseteq overrun' /\ handled' = handled
      BY <1>3, <1>6, <2>2
    <3>2. Is(v, "idle") \/ worker[v].event \in Events
      BY AttemptEvents
    <3> QED
      BY <1>4, <3>1, <3>2 DEF Held, Backed, Is
  <2> QED
    BY <2>1, <2>2
<1>10. ExclusiveUnlessOverrun'
  <2> SUFFICES ASSUME NEW u \in Workers, NEW v \in Workers, Overlap(u, v)'
               PROVE  worker'[u].event \in overrun'
    BY DEF ExclusiveUnlessOverrun
  <2>1. CASE u # w /\ v # w
    BY <1>3, <1>6, <2>1 DEF ExclusiveUnlessOverrun, Overlap
  <2>2. CASE u = w \/ v = w
    <3>1. PICK x \in Workers \ {w} : x = u \/ x = v
      BY <2>2 DEF Overlap
    <3>2. worker'[x].event = e /\ worker'[u].event = e
      BY <1>6, <2>2, <3>1 DEF Overlap
    <3>3. ~Is(x, "idle") /\ worker[x].event = e
      BY <1>1, <1>6, <3>1, <3>2, NoneIsNoEvent DEF QueueTypeOK, Is
    <3>4. e \in overrun \/ events[e].status = "processing"
      BY <3>3 DEF Held
    <3> QED
      BY <1>3, <3>2, <3>4
  <2> QED
    BY <2>1, <2>2
<1> QED
  BY <1>8, <1>9, <1>10

LEMMA TimeReadies ==
    ASSUME QueueTypeOK, NEW e \in Events, TimePasses(e)
    PROVE  /\ events' \in [Events -> [status : Statuses, ready : BOOLEAN]]
           /\ \A d \in Events : events'[d].status = events[d].status
<1> DEFINE row == [events[e] EXCEPT !.ready = TRUE]
<1>1. events \in [Events -> [status : Statuses, ready : BOOLEAN]]
  BY DEF QueueTypeOK
<1>2. row \in [status : Statuses, ready : BOOLEAN] /\ row.status = events[e].status
  BY <1>1
<1>3. events' = [events EXCEPT ![e] = row]
  BY <1>1 DEF TimePasses
<1> HIDE DEF row
<1> QED
  BY <1>1, <1>2, <1>3

LEMMA TimeKeeps ==
    ASSUME QueueInv, NEW e \in Events, TimePasses(e)
    PROVE  QueueInv'
<1> USE DEF QueueInv
<1>1. /\ events' \in [Events -> [status : Statuses, ready : BOOLEAN]]
      /\ \A d \in Events : events'[d].status = events[d].status
  BY TimeReadies
<1>2. UNCHANGED <<stock, queue, worker, handled, overrun, faults>>
  BY DEF TimePasses
<1>3. RowsKept
  BY <1>1 DEF RowsKept
<1>4. QueueTypeOK'
  BY <1>1, <1>2, <1>3 DEF QueueTypeOK, RowsKept
<1>5. Held' /\ Backed'
  BY <1>1, <1>2, AttemptEvents DEF Held, Backed, Is
<1> QED
  BY <1>2, <1>4, <1>5 DEF ExclusiveUnlessOverrun, Overlap

\* An attempt that moves on at its event, or lets go of it, disturbs no other.
LEMMA MoveKeeps ==
    ASSUME QueueInv, NEW w \in Workers, ~Is(w, "idle"),
           NEW a \in {"handled", "failed"}, Put(w, a, worker[w].event),
           a = "handled" => worker[w].event \in handled',
           handled \subseteq handled', handled' \subseteq Events,
           UNCHANGED <<stock, events, queue, overrun>>, faults' \in 0..MaxFaults
    PROVE  QueueInv'
<1> USE DEF QueueInv
<1> DEFINE e == worker[w].event
<1>1. e \in Events
  BY AttemptEvents
<1> HIDE DEF e
<1>2. [at |-> a, event |-> e] \in Attempts /\ Put(w, a, e)
  BY <1>1 DEF Attempts, e
<1>3. /\ worker' \in [Workers -> Attempts]
      /\ worker'[w] = [at |-> a, event |-> e]
      /\ \A v \in Workers \ {w} : worker'[v] = worker[v]
  BY <1>2, AttemptTypes DEF QueueTypeOK
<1>4. \A v \in Workers : worker'[v].event = worker[v].event
  BY <1>3 DEF e
<1>5. \A v \in Workers : worker'[v].at = "idle" <=> worker[v].at = "idle"
  BY <1>3 DEF Is
<1>6. QueueTypeOK'
  BY <1>3, <1>4, <1>5 DEF QueueTypeOK
<1>7. Held' /\ Backed'
  <2>1. Held'
    BY <1>4, <1>5 DEF Held, Is
  <2>2. Backed'
    BY <1>3, <1>4, <1>5 DEF Backed, Is, e
  <2> QED
    BY <2>1, <2>2
<1>8. ExclusiveUnlessOverrun'
  BY <1>4, <1>5 DEF ExclusiveUnlessOverrun, Overlap
<1> QED
  BY <1>6, <1>7, <1>8

\* A worker that lets go leaves its row as it is, or settles it: to another attempt
\* at it, a lease must have run out.
LEMMA LetGoKeeps ==
    ASSUME QueueInv, NEW w \in Workers, ~Is(w, "idle"), Put(w, "idle", None),
           NEW s \in {"processed", "failed"},
           \/ events' = events
           \/ /\ events[worker[w].event].status = "processing"
              /\ events' = [events EXCEPT ![worker[w].event] = Row(s, FALSE)],
           UNCHANGED <<stock, queue, handled, overrun>>, faults' \in 0..MaxFaults
    PROVE  QueueInv'
<1> USE DEF QueueInv
<1> DEFINE e == worker[w].event
<1>1. e \in Events
  BY AttemptEvents
<1> HIDE DEF e
<1>2. [at |-> "idle", event |-> None] \in Attempts
  BY DEF Attempts
<1>3. /\ worker' \in [Workers -> Attempts]
      /\ worker'[w] = [at |-> "idle", event |-> None]
      /\ \A v \in Workers \ {w} : worker'[v] = worker[v]
  BY <1>2, AttemptTypes DEF QueueTypeOK
<1>4. /\ events' \in [Events -> [status : Statuses, ready : BOOLEAN]]
      /\ \A d \in Events : d # e => events'[d].status = events[d].status
      /\ RowsKept
  <2>1. CASE events' = events
    BY <2>1 DEF QueueTypeOK, RowsKept
  <2>2. CASE /\ events[e].status = "processing"
             /\ events' = [events EXCEPT ![e] = Row(s, FALSE)]
    <3>1. s \in Statuses
      BY DEF Statuses
    <3>2. /\ events' \in [Events -> [status : Statuses, ready : BOOLEAN]]
          /\ \A d \in Events : events'[d].status = IF d = e THEN s ELSE events[d].status
      BY <1>1, <2>2, <3>1, RowTypes DEF QueueTypeOK
    <3> QED
      BY <2>2, <3>2 DEF RowsKept
  <2> QED
    BY <2>1, <2>2 DEF e
<1>5. QueueTypeOK'
  <2>1. \A v \in Workers : worker'[v].at = "idle" <=> worker'[v].event = None
    BY <1>3 DEF QueueTypeOK
  <2> QED
    BY <1>3, <1>4, <2>1, TypesKept DEF QueueTypeOK
<1>6. \A v \in Workers : ~Is(v, "idle")' =>
         /\ v # w /\ worker'[v] = worker[v] /\ worker[v].event \in Events /\ ~Is(v, "idle")
         /\ worker[v].event \in overrun \/ worker[v].event # e
  <2> SUFFICES ASSUME NEW v \in Workers, ~Is(v, "idle")'
               PROVE  /\ v # w /\ worker'[v] = worker[v] /\ worker[v].event \in Events
                      /\ ~Is(v, "idle")
                      /\ worker[v].event \in overrun \/ worker[v].event # e
    OBVIOUS
  <2>1. v # w /\ worker'[v] = worker[v] /\ ~Is(v, "idle")
    BY <1>3 DEF Is
  <2>2. worker[v].event = e => Overlap(v, w)
    BY <2>1 DEF Overlap, Is, e
  <2> QED
    BY <2>1, <2>2, AttemptEvents DEF ExclusiveUnlessOverrun
<1>7. Held'
  BY <1>4, <1>6 DEF Held, Is
<1>8. Backed'
  BY <1>3, <1>4, <1>6 DEF Backed, Is, RowsKept
<1>9. ExclusiveUnlessOverrun'
  <2> SUFFICES ASSUME NEW u \in Workers, NEW v \in Workers, Overlap(u, v)'
               PROVE  worker'[u].event \in overrun'
    BY DEF ExclusiveUnlessOverrun
  <2>1. worker'[v].at # "idle"
    BY <1>5 DEF Overlap, QueueTypeOK
  <2> QED
    BY <1>6, <2>1 DEF ExclusiveUnlessOverrun, Overlap, Is
<1> QED
  BY <1>5, <1>7, <1>8, <1>9

-----------------------------------------------------------------------------
LEMMA WorkersKeep ==
    ASSUME QueueInv, NEW w \in Workers,
           Handled(w) \/ HandlerFails(w) \/ Settle(w) \/ Crash(w)
    PROVE  QueueInv'
<1>1. worker[w].event \in Events \/ worker[w].at = "idle"
  BY AttemptEvents DEF QueueInv, Is
<1>2. faults \in 0..MaxFaults /\ handled \subseteq Events
  BY DEF QueueInv, QueueTypeOK
<1>3. CASE Handled(w)
  BY <1>1, <1>2, <1>3, MoveKeeps DEF Handled, Is
<1>4. CASE HandlerFails(w)
  BY <1>1, <1>2, <1>4, MoveKeeps, FaultTypes DEF HandlerFails, Is
<1>5. CASE MarkProcessed(w)
  <2>1. ~Is(w, "idle") /\ UNCHANGED <<stock, queue, handled, overrun, faults>>
    BY <1>5 DEF MarkProcessed, Is
  <2>2. CASE events[worker[w].event].status = "processing"
    BY <1>2, <1>5, <2>1, <2>2, LetGoKeeps DEF MarkProcessed
  <2>3. CASE events[worker[w].event].status # "processing"
    BY <1>2, <1>5, <2>1, <2>3, MoveKeeps DEF MarkProcessed
  <2> QED
    BY <2>2, <2>3
<1>6. CASE MarkFailed(w)
  <2>1. ~Is(w, "idle") /\ UNCHANGED <<stock, queue, handled, overrun, faults>>
    BY <1>6 DEF MarkFailed, Is
  <2> QED
    BY <1>2, <1>6, <2>1, LetGoKeeps DEF MarkFailed
<1>7. CASE Crash(w)
  BY <1>2, <1>7, LetGoKeeps, FaultTypes DEF Crash, Is
<1> QED
  BY <1>3, <1>4, <1>5, <1>6, <1>7 DEF Settle

LEMMA ChangeKeeps == QueueInv /\ Change => QueueInv'
BY NoneIsNoEvent
   DEF QueueInv, Change, QueueTypeOK, Held, Backed, Is, ExclusiveUnlessOverrun, Overlap

LEMMA QueueStep == QueueInv /\ [QueueNext]_queueVars => QueueInv'
<1> SUFFICES ASSUME QueueInv, [QueueNext]_queueVars PROVE QueueInv'
  OBVIOUS
<1>1. CASE UNCHANGED queueVars
  BY <1>1, OthersKeep DEF queueVars, QueueInv, QueueTypeOK
<1>2. CASE QueueNext
  BY <1>2, ChangeKeeps, ReceiveKeeps, TimeKeeps, ClaimKeeps, WorkersKeep DEF QueueNext
<1> QED
  BY <1>1, <1>2

\* Every row of PosWebhookEvents has its place in the order of receipt, once.
THEOREM QueueTypes == QueueSpec => []QueueTypeOK
BY TypesInit, QueueStep, PTL DEF QueueSpec, QueueInv

\* Repeated deliveries, failures and dead workers never put two workers at one
\* event; only a lease that ran out does (TryClaimNextAsync).
THEOREM AttemptsExclude == QueueSpec => []ExclusiveUnlessOverrun
BY TypesInit, QueueStep, PTL DEF QueueSpec, QueueInv

-----------------------------------------------------------------------------
(* The inbox implements DurableWork.                                       *)

Accepted == {e \in Events : events[e].status # "none"}
Done     == {e \in Events : events[e].status = "processed"}

LEMMA InboxInit == QueueInit => Inbox!Init
BY DEF QueueInit, Inbox!Init, Row

LEMMA InboxStutters ==
    ASSUME Accepted' = Accepted, handled' = handled, Done' = Done
    PROVE  UNCHANGED Inbox!vars
BY DEF Accepted, Done, Inbox!vars

\* Only a first receipt accepts, only handlers that return work an event off, and
\* only MarkProcessedAsync makes it done.
LEMMA InboxStep == QueueInv /\ [QueueNext]_queueVars => [Inbox!Next]_(Inbox!vars)
<1> SUFFICES ASSUME QueueInv, [QueueNext]_queueVars
             PROVE  Inbox!Next \/ UNCHANGED Inbox!vars
  OBVIOUS
<1> USE DEF QueueInv
<1>0. \A w \in Workers : ~Is(w, "idle") => worker[w].event \in Events
  BY AttemptEvents
<1>1. CASE UNCHANGED <<events, handled>>
  BY <1>1, InboxStutters DEF Accepted, Done
<1>2. ASSUME NEW e \in Events, Receive(e) PROVE Inbox!Next
  <2>1. \A d \in Events : events'[d].status = IF d = e THEN "queued" ELSE events[d].status
    BY <1>2, RowTypes DEF QueueTypeOK, Receive, Statuses
  <2>2. events[e].status = "none" /\ handled' = handled
    BY <1>2 DEF Receive
  <2>3. Accepted' = Accepted \cup {e}
    BY <2>1 DEF Accepted
  <2>4. Done' = Done
    BY <2>1, <2>2 DEF Done
  <2> QED
    BY <2>2, <2>3, <2>4 DEF Inbox!Next, Inbox!Accept, Accepted, Done
<1>3. ASSUME NEW e \in Events, NEW s \in Statuses \ {"none", "processed"}, NEW b \in BOOLEAN,
             events[e].status \notin {"none", "processed"},
             events' = [events EXCEPT ![e] = Row(s, b)], handled' = handled
      PROVE  UNCHANGED Inbox!vars
  <2>1. \A d \in Events : events'[d].status = IF d = e THEN s ELSE events[d].status
    BY <1>3, RowTypes DEF QueueTypeOK
  <2> QED
    BY <1>3, <2>1, InboxStutters DEF Accepted, Done
<1>4. ASSUME NEW e \in Events, TimePasses(e) PROVE UNCHANGED Inbox!vars
  <2>1. \A d \in Events : events'[d].status = events[d].status
    BY <1>4, TimeReadies
  <2> QED
    BY <1>4, <2>1, InboxStutters DEF Accepted, Done, TimePasses
<1>5. ASSUME NEW w \in Workers, NEW n \in DOMAIN queue, Claim(w, n) PROVE UNCHANGED Inbox!vars
  <2>1. queue[n] \in Events
    BY DEF QueueTypeOK
  <2> QED
    BY <1>3, <1>5, <2>1 DEF Claim, Eligible, Statuses
<1>6. ASSUME NEW w \in Workers, Handled(w) PROVE Inbox!Next
  <2> DEFINE e == worker[w].event
  <2>1. e \in Accepted \ Poison
    BY <1>0, <1>6 DEF Handled, Backed, Is, Accepted
  <2>2. handled' = handled \cup {e} /\ Accepted' = Accepted /\ Done' = Done
    BY <1>6 DEF Handled, Accepted, Done
  <2> HIDE DEF e
  <2> QED
    BY <2>1, <2>2 DEF Inbox!Next, Inbox!Work, Accepted, Done
<1>7. ASSUME NEW w \in Workers, MarkProcessed(w), events[worker[w].event].status = "processing"
      PROVE  Inbox!Next
  <2> DEFINE e == worker[w].event
  <2>1. e \in Events /\ e \in handled
    BY <1>0, <1>7 DEF MarkProcessed, Backed, Is
  <2>2. events' = [events EXCEPT ![e] = Row("processed", FALSE)] /\ handled' = handled
    BY <1>7 DEF MarkProcessed
  <2>3. events[e].status = "processing"
    BY <1>7
  <2> HIDE DEF e
  <2>4. \A d \in Events : events'[d].status = IF d = e THEN "processed" ELSE events[d].status
    BY <2>1, <2>2, RowTypes DEF QueueTypeOK, Statuses
  <2>5. Done' = Done \cup {e} /\ Accepted' = Accepted /\ e \notin Done
    BY <2>1, <2>3, <2>4 DEF Accepted, Done
  <2> QED
    BY <2>1, <2>2, <2>5 DEF Inbox!Next, Inbox!Finish, Accepted, Done
<1>8. ASSUME NEW w \in Workers, MarkFailed(w), events[worker[w].event].status = "processing"
      PROVE  UNCHANGED Inbox!vars
  <2>1. worker[w].event \in Events
    BY <1>0, <1>8 DEF MarkFailed, Is
  <2> QED
    BY <1>3, <1>8, <2>1 DEF MarkFailed, Statuses
<1>9. CASE \E w \in Workers : HandlerFails(w) \/ Settle(w) \/ Crash(w)
  <2> PICK w \in Workers : HandlerFails(w) \/ Settle(w) \/ Crash(w)
    BY <1>9
  <2>1. CASE events[worker[w].event].status = "processing" /\ Settle(w)
    BY <1>7, <1>8, <2>1 DEF Settle
  <2>2. CASE ~(events[worker[w].event].status = "processing" /\ Settle(w))
    BY <1>1, <2>2 DEF HandlerFails, Crash, Settle, MarkProcessed, MarkFailed
  <2> QED
    BY <2>1, <2>2
<1>10. CASE Change \/ UNCHANGED queueVars
  BY <1>1, <1>10 DEF Change, queueVars
<1> QED
  BY <1>2, <1>4, <1>5, <1>6, <1>9, <1>10 DEF QueueNext

\* The webhook inbox loses nothing it accepted, counts nothing as done that was not
\* worked off, and takes up nothing that is done.
THEOREM InboxKeepsWork == QueueSpec => KeepsWork
<1>1. QueueSpec => []QueueInv
  BY TypesInit, QueueStep, PTL DEF QueueSpec
<1> QED
  BY <1>1, InboxInit, InboxStep, PTL DEF QueueSpec, KeepsWork, Inbox!Spec

-----------------------------------------------------------------------------
(* The handlers and the poll (PosSync) on top of the inbox.                *)

SyncInv == QueueInv /\ TypeOK

LEMMA SyncInit == Init => SyncInv
<1> SUFFICES ASSUME Init PROVE SyncInv
  OBVIOUS
<1>1. QueueInv /\ MaxChanges \in Nat
  BY TypesInit, NoneIsNoEvent DEF Init
<1>2. 0 \in 0..MaxChanges /\ NoStep \in Steps
  BY <1>1 DEF NoStep, Steps, Connections
<1>3. \A w \in Workers : step[w].at = "none" /\ worker[w].at # "working"
  BY DEF Init, NoStep, QueueInit, Idle
<1> QED
  BY <1>1, <1>2, <1>3 DEF SyncInv, TypeOK, QueueInv, Init, Connections

\* The queue takes a step of its own, or a failed poll is counted.
LEMMA SyncRunsTheQueue ==
    ASSUME SyncInv, [Next]_vars
    PROVE  \/ [QueueNext]_queueVars
           \/ /\ UNCHANGED <<stock, events, queue, worker, handled, overrun>>
              /\ faults' \in 0..MaxFaults
<1>1. CASE UNCHANGED vars
  BY <1>1 DEF vars
<1>2. CASE PollFails
  BY <1>2, FaultTypes DEF PollFails, SyncInv, QueueInv, QueueTypeOK
<1>3. CASE Next /\ ~PollFails
  <2>1. ASSUME NEW w \in Workers, HandlerStep(w) \/ Die(w) \/ \E n \in DOMAIN queue : Begin(w, n)
        PROVE  [QueueNext]_queueVars
    BY <2>1
       DEF HandlerStep, Look, Fetch, Apply, SaveHealth, Return, Throw, Die, Begin, QueueNext
  <2>2. CASE Change \/ \E e \in Events : Receive(e) \/ TimePasses(e)
    BY <2>2 DEF QueueNext
  <2>3. CASE PollLooks \/ PollFetches \/ PollApplies \/ PollSaves \/ Connect \/ Disconnect
    BY <2>3 DEF PollLooks, PollFetches, PollApplies, PollSaves, Connect, Disconnect
  <2> QED
    BY <1>3, <2>1, <2>2, <2>3 DEF Next, PollStep
<1> QED
  BY <1>1, <1>2, <1>3

LEMMA SyncKeepsTheQueue == SyncInv /\ [Next]_vars => QueueInv'
BY SyncRunsTheQueue, QueueStep, OthersKeep DEF SyncInv

LEMMA StepTypes ==
    ASSUME step \in [Workers -> Steps], NEW w \in Workers, NEW s \in Steps,
           step' = [step EXCEPT ![w] = s]
    PROVE  /\ step' \in [Workers -> Steps]
           /\ step'[w] = s
           /\ \A v \in Workers \ {w} : step'[v] = step[v]
OBVIOUS

\* A worker and its handler move together.
LEMMA PairKeeps ==
    ASSUME SyncInv, NEW w \in Workers, NEW a, NEW e, NEW s \in Steps,
           Put(w, a, e), step' = [step EXCEPT ![w] = s],
           s.at = "none" <=> a # "working"
    PROVE  /\ step' \in [Workers -> Steps]
           /\ \A v \in Workers : step'[v].at = "none" <=> worker'[v].at # "working"
<1>1. worker \in [Workers -> Attempts] /\ step \in [Workers -> Steps]
  BY DEF SyncInv, QueueInv, QueueTypeOK, TypeOK
<1>2. worker'[w].at = a /\ \A v \in Workers \ {w} : worker'[v] = worker[v]
  BY <1>1 DEF Put
<1>3. /\ step' \in [Workers -> Steps] /\ step'[w] = s
      /\ \A v \in Workers \ {w} : step'[v] = step[v]
  BY <1>1, StepTypes
<1> QED
  BY <1>2, <1>3 DEF SyncInv, TypeOK

\* A handler that goes on, while its worker works.
LEMMA HandlerKeeps ==
    ASSUME SyncInv, NEW w \in Workers, NEW s \in Steps,
           UNCHANGED worker, step' = [step EXCEPT ![w] = s],
           step[w].at # "none", s.at # "none"
    PROVE  /\ step' \in [Workers -> Steps]
           /\ \A v \in Workers : step'[v].at = "none" <=> worker'[v].at # "working"
BY StepTypes DEF SyncInv, TypeOK

LEMMA SyncTypesStep == SyncInv /\ [Next]_vars => TypeOK'
<1> SUFFICES ASSUME SyncInv, [Next]_vars PROVE TypeOK'
  OBVIOUS
<1> DEFINE Rest == provider' \in Providers /\ item' \in 0..MaxChanges
                   /\ conn' \in Connections /\ poll' \in Steps
           Pair == /\ step' \in [Workers -> Steps]
                   /\ \A v \in Workers : step'[v].at = "none" <=> worker'[v].at # "working"
<1>0. /\ provider \in Providers /\ item \in 0..MaxChanges /\ conn \in Connections
      /\ step \in [Workers -> Steps] /\ poll \in Steps
      /\ stock \in 0..MaxChanges /\ worker \in [Workers -> Attempts]
      /\ \A v \in Workers : step[v].at = "none" <=> worker[v].at # "working"
  BY DEF SyncInv, TypeOK, QueueInv, QueueTypeOK
<1>n. MaxChanges \in Nat /\ 0 \in 0..MaxChanges /\ NoStep \in Steps /\ None \in Connections
      /\ "Connected" \in Connections /\ "ReauthorizationRequired" \in Connections
  BY NoneIsNoEvent DEF NoStep, Steps, Connections
<1>s. \A a \in {"none", "begun", "looked", "fetched", "applied", "done"}, c \in Connections,
         v \in 0..MaxChanges : [at |-> a, conn |-> c, value |-> v] \in Steps
  BY DEF Steps
<1>f. \A v \in Workers : step[v].conn \in Connections /\ step[v].value \in 0..MaxChanges
  BY <1>0 DEF Steps
<1>p. poll.conn \in Connections /\ poll.value \in 0..MaxChanges
  BY <1>0 DEF Steps
<1>1. Rest /\ Pair
  <2>1. CASE UNCHANGED <<worker, syncVars>>
    BY <1>0, <2>1 DEF syncVars
  <2>2. CASE PollStep \/ Connect \/ Disconnect
    <3>1. UNCHANGED <<worker, step, provider>>
      BY <2>2 DEF PollStep, PollLooks, PollFetches, PollApplies, PollSaves, PollFails,
                  Connect, Disconnect, queueVars
    <3>2. item' \in 0..MaxChanges /\ conn' \in Connections /\ poll' \in Steps
      BY <1>0, <1>n, <1>s, <1>p, <2>2
         DEF PollStep, PollLooks, PollFetches, PollApplies, PollSaves, PollFails, PollAt,
             Connect, Disconnect
    <3> QED
      BY <1>0, <3>1, <3>2
  <2>3. ASSUME NEW w \in Workers, NEW n \in DOMAIN queue, Begin(w, n) PROVE Rest /\ Pair
    <3>1. Rest
      BY <1>0, <2>3 DEF Begin
    <3> DEFINE s == [at |-> "begun", conn |-> None, value |-> 0]
    <3>2. s \in Steps /\ s.at # "none" /\ step' = [step EXCEPT ![w] = s]
      BY <1>n, <1>s, <2>3 DEF Begin, At
    <3>3. Put(w, "working", queue[n])
      BY <2>3 DEF Begin, Claim
    <3> HIDE DEF s
    <3> QED
      BY <3>1, <3>2, <3>3, PairKeeps
  <2>4. ASSUME NEW w \in Workers, Return(w) \/ Throw(w) \/ Die(w) PROVE Rest /\ Pair
    <3>1. Rest
      BY <1>0, <1>f, <2>4 DEF Return, Throw, Die
    <3>2. NoStep \in Steps /\ NoStep.at = "none" /\ step' = [step EXCEPT ![w] = NoStep]
      BY <1>n, <2>4 DEF Return, Throw, Die, NoStep
    <3>3. PICK a \in {"handled", "failed", "idle"}, e \in {worker[w].event, None} : Put(w, a, e)
      BY <2>4 DEF Return, Throw, Die, Handled, HandlerFails, Crash
    <3> QED
      BY <3>1, <3>2, <3>3, PairKeeps
  <2>5. ASSUME NEW w \in Workers, Look(w) \/ Fetch(w) \/ Apply(w) \/ SaveHealth(w)
        PROVE  Rest /\ Pair
    <3>1. worker' = worker /\ step[w].at # "none"
      BY <2>5 DEF Look, Fetch, Apply, SaveHealth, queueVars
    <3>2. worker[w].at = "working"
      BY <1>0, <3>1
    <3>3. worker[w].event \in 0..MaxChanges
      <4>1. worker[w].event \in Events
        BY <3>2, AttemptEvents DEF SyncInv, QueueInv, Is
      <4> QED
        BY <1>n, <4>1 DEF Events
    <3>4. Rest
      BY <1>0, <1>f, <2>5 DEF Look, Fetch, Apply, SaveHealth
    <3>5. PICK s \in Steps : s.at # "none" /\ step' = [step EXCEPT ![w] = s]
      <4>1. PICK a \in {"looked", "fetched", "applied", "done"}, c \in Connections,
                 v \in 0..MaxChanges : At(w, a, c, v)
        BY <1>0, <1>f, <1>n, <2>5, <3>3 DEF Look, Fetch, Apply, SaveHealth
      <4> DEFINE s == [at |-> a, conn |-> c, value |-> v]
      <4>2. s \in Steps /\ s.at # "none" /\ step' = [step EXCEPT ![w] = s]
        BY <1>s, <4>1 DEF At
      <4> HIDE DEF s
      <4> QED
        BY <4>2
    <3> QED
      BY <3>1, <3>4, <3>5, HandlerKeeps
  <2>6. ASSUME NEW w \in Workers, Settle(w), UNCHANGED syncVars PROVE Rest /\ Pair
    <3>1. PICK a \in {"failed", "idle"}, e \in {worker[w].event, None} : Put(w, a, e)
      BY <2>6 DEF Settle, MarkProcessed, MarkFailed
    <3>2. worker[w].at # "working"
      BY <2>6 DEF Settle, MarkProcessed, MarkFailed
    <3>3. \A v \in Workers : worker'[v].at # "working" <=> worker[v].at # "working"
      BY <1>0, <3>1, <3>2 DEF Put
    <3> QED
      BY <1>0, <2>6, <3>3 DEF syncVars
  <2>7. CASE \/ UNCHANGED vars
             \/ Change /\ UNCHANGED syncVars
             \/ \E e \in Events : (Receive(e) \/ TimePasses(e)) /\ UNCHANGED syncVars
    BY <2>1, <2>7 DEF vars, queueVars, Change, Receive, TimePasses
  <2> QED
    BY <2>2, <2>3, <2>4, <2>5, <2>6, <2>7 DEF Next, HandlerStep
<1>2. QueueTypeOK'
  BY SyncKeepsTheQueue DEF QueueInv
<1> QED
  BY <1>1, <1>2 DEF TypeOK

LEMMA SyncStep == SyncInv /\ [Next]_vars => SyncInv'
BY SyncKeepsTheQueue, SyncTypesStep DEF SyncInv

\* The item, the connection, the handlers and the poll have their types, and a
\* handler is somewhere exactly while a worker works.
THEOREM SyncTypes == Spec => []TypeOK
BY SyncInit, SyncStep, PTL DEF Spec, SyncInv

LEMMA SyncInboxStep == SyncInv /\ [Next]_vars => [Inbox!Next]_(Inbox!vars)
<1> SUFFICES ASSUME SyncInv, [Next]_vars PROVE Inbox!Next \/ UNCHANGED Inbox!vars
  OBVIOUS
<1>1. CASE [QueueNext]_queueVars
  BY <1>1, InboxStep DEF SyncInv
<1>2. CASE UNCHANGED <<events, handled>>
  BY <1>2, InboxStutters DEF Accepted, Done
<1> QED
  BY <1>1, <1>2, SyncRunsTheQueue

\* With its handlers, the poll and a connection that comes and goes, the inbox still
\* loses nothing it accepted and excludes attempts at one event.
THEOREM SyncKeepsWork == Spec => KeepsWork /\ []ExclusiveUnlessOverrun
<1>1. Spec => []SyncInv
  BY SyncInit, SyncStep, PTL DEF Spec
<1>2. Init => Inbox!Init
  BY InboxInit DEF Init
<1>3. SyncInv => ExclusiveUnlessOverrun
  BY DEF SyncInv, QueueInv
<1> QED
  BY <1>1, <1>2, <1>3, SyncInboxStep, PTL DEF Spec, KeepsWork, Inbox!Spec
=============================================================================
