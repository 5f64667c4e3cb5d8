------------------------- MODULE StripeEventsProofs -------------------------
(***************************************************************************)
(* The ledger of processed Stripe events, for any number of writers,       *)
(* events and venues: it loses and repeats nothing, the organization's row *)
(* is written once for an event that nothing went wrong with, and when     *)
(* writers do not overlap the row and its projections follow Stripe.       *)
(*                                                                         *)
(* BillingInv says of every attempt at an event (Attempt) where its event  *)
(* is in the ledger and whether the row was written for it; that attempts  *)
(* meet only over a disturbed event (Apart); and what the ledger remembers *)
(* of attempts that are over (Remembered).  CalmInv adds, while writers do *)
(* not overlap, how far the row has followed (Settled), and what the       *)
(* writer in hand has read and still has to write (InHand).                *)
(***************************************************************************)
EXTENDS StripeEvents, SequenceTheorems, FiniteSetTheorems, TLAPS

Kind(w) ==
    /\ writer[w].at = "idle" <=> writer[w].kind = "none"
    /\ writer[w].at \in {"read", "failed"} => writer[w].kind = "event"
    /\ writer[w].at \in {"change", "undo", "unsync", "last"} => writer[w].kind = "switch"

Attempt(w) ==
    LET e == writer[w].event
    IN  writer[w].kind = "event" =>
            /\ e \in Events \cap DOMAIN sent
            /\ ledger[e].status # "none"
            /\ e \notin disturbed => ledger[e].status = "processing"
            /\ e \notin disturbed /\ writer[w].at \in {"read", "save"} => e \notin applied
            /\ writer[w].at = "sync" => e \in applied

Apart ==
    \A v, w \in Writers :
        /\ v # w /\ writer[v].kind = "event" /\ writer[w].kind = "event"
        /\ writer[v].event = writer[w].event
        => writer[v].event \in disturbed

Remembered ==
    \A e \in Events :
        /\ e \in applied => ledger[e].status # "none"
        /\ ledger[e].status = "failed" => e \in disturbed

BillingInv ==
    /\ TypeOK /\ Apart /\ Remembered
    /\ \A w \in Writers : Kind(w) /\ Attempt(w)

-----------------------------------------------------------------------------
(* Rows, notices and requests.                                             *)

LEMMA BillingSizes == MaxEvents \in Nat /\ MaxFaults \in Nat /\ VenueOrder \in Seq(Venues)
BY BillingConstants

LEMMA SubIsRow ==
    ASSUME NEW t \in Tiers \cup {None}, NEW s \in Statuses, NEW l \in BOOLEAN
    PROVE  Sub(t, s, l) \in Rows
BY DEF Sub, Rows

LEMMA EffectIsRow ==
    ASSUME NEW ev \in Notices, NEW row \in Rows
    PROVE  Effect(ev, row) \in Rows
<1>1. CASE ev.kind = "updated"
  BY <1>1 DEF Notices, Rows, Effect, Sub
<1>2. CASE ev.kind = "paid"
  BY <1>2 DEF Notices, Rows, Effect, Statuses
<1>3. CASE ev.kind = "deleted"
  BY <1>3 DEF Notices, Rows, Effect, Statuses
<1> QED
  BY <1>1, <1>2, <1>3 DEF Notices

LEMMA IdleIsRequest == Idle \in Requests /\ NoRow \in Rows
BY BillingSizes DEF Idle, Requests, NoRow, Sub, Rows, Statuses

LEMMA ClaimIsRequest ==
    ASSUME NEW i \in Requests, NEW e \in Events
    PROVE  LET q == [i EXCEPT !.at = "read", !.kind = "event", !.event = e]
           IN  q \in Requests /\ q.at = "read" /\ q.kind = "event" /\ q.event = e
<1>1. e \in 0..MaxEvents
  BY BillingSizes DEF Events
<1> QED
  BY <1>1 DEF Requests

LEMMA Fields ==
    ASSUME TypeOK, NEW w \in Writers
    PROVE  /\ writer[w] \in Requests
           /\ writer[w].row \in Rows /\ writer[w].row.tier \in Tiers \cup {None}
           /\ writer[w].old \in Tiers \cup {None}
           /\ writer[w].left \in Seq(Venues)
           /\ writer[w].event \in 0..MaxEvents
BY DEF TypeOK, Requests, Rows

\* One writer moves, the others stay.
LEMMA OneMoves ==
    ASSUME TypeOK, NEW w \in Writers, NEW q \in Requests, writer' = [writer EXCEPT ![w] = q]
    PROVE  /\ writer' \in [Writers -> Requests] /\ writer'[w] = q
           /\ \A v \in Writers \ {w} : writer'[v] = writer[v]
BY DEF TypeOK

Ats == {"idle", "read", "save", "sync", "failed", "change", "undo", "unsync", "last"}

LEMMA GotoMoves ==
    ASSUME TypeOK, NEW w \in Writers, NEW at \in Ats, Goto(w, at)
    PROVE  /\ [writer[w] EXCEPT !.at = at] \in Requests
           /\ writer' = [writer EXCEPT ![w] = [writer[w] EXCEPT !.at = at]]
<1>1. writer[w] \in Requests
  BY DEF TypeOK
<1>2. [writer[w] EXCEPT !.at = at] \in Requests
  BY <1>1 DEF Requests, Ats
<1> QED
  BY <1>2 DEF Goto

LEMMA SendIsTyped ==
    ASSUME TypeOK, NEW ev \in Notices, Send(ev)
    PROVE  /\ sent' \in Seq(Notices) /\ stripe' \in Rows
           /\ DOMAIN sent \subseteq DOMAIN sent'
<1>1. sent \in Seq(Notices) /\ sent' = Append(sent, ev)
  BY DEF TypeOK, Send
<1>2. sent' \in Seq(Notices) /\ DOMAIN sent \subseteq DOMAIN sent'
  BY <1>1
<1> QED
  BY <1>2, EffectIsRow DEF Send, TypeOK

LEMMA LedgerTypes ==
    ASSUME TypeOK, NEW e \in Events, NEW s \in {"none", "processing", "processed", "failed"},
           ledger' = [ledger EXCEPT ![e] = [status |-> s, stale |-> FALSE]]
    PROVE  /\ ledger' \in [Events -> [status : {"none", "processing", "processed", "failed"},
                                      stale : BOOLEAN]]
           /\ ledger'[e].status = s
           /\ \A d \in Events \ {e} : ledger'[d] = ledger[d]
           /\ (s # "none" => e \in DOMAIN sent) =>
                \A d \in Events : ledger'[d].status # "none" => d \in DOMAIN sent
           /\ \A d \in Events : ledger'[d].stale => ledger'[d].status = "processing"
BY DEF TypeOK

-----------------------------------------------------------------------------
(* What a step of one writer leaves true of the others.                    *)

LEMMA OthersKeep ==
    ASSUME BillingInv, NEW w \in Writers, NEW D \in SUBSET Events,
           \A v \in Writers \ {w} : writer'[v] = writer[v],
           DOMAIN sent \subseteq DOMAIN sent', disturbed \subseteq disturbed', applied \subseteq applied',
           \A d \in Events \ D : ledger'[d].status = ledger[d].status /\ (d \in applied' => d \in applied),
           \A d \in D : ledger'[d].status # "none",
           \A v \in Writers \ {w} :
              writer[v].kind = "event" /\ writer[v].event \in D => writer[v].event \in disturbed'
    PROVE  \A v \in Writers \ {w} : Kind(v)' /\ Attempt(v)'
<1> SUFFICES ASSUME NEW v \in Writers \ {w} PROVE Kind(v)' /\ Attempt(v)'
  OBVIOUS
<1>1. Kind(v) /\ Attempt(v) /\ writer'[v] = writer[v]
  BY DEF BillingInv
<1>2. Kind(v)'
  BY <1>1 DEF Kind
<1>3. ASSUME writer[v].kind = "event" PROVE Attempt(v)'
  <2> DEFINE e == writer[v].event
  <2>1. e \in Events \cap DOMAIN sent'
    BY <1>1, <1>3 DEF Attempt
  <2>2. CASE e \in D
    BY <1>1, <1>3, <2>1, <2>2 DEF Attempt
  <2>3. CASE e \notin D
    BY <1>1, <1>3, <2>1, <2>3 DEF Attempt
  <2> QED
    BY <2>2, <2>3
<1>4. writer[v].kind # "event" => Attempt(v)'
  BY <1>1 DEF Attempt
<1> QED
  BY <1>2, <1>3, <1>4

\* A writer that is at no event, or stays at its own, brings no attempts together.
LEMMA StaysApart ==
    ASSUME BillingInv, NEW w \in Writers, \A v \in Writers \ {w} : writer'[v] = writer[v],
           disturbed \subseteq disturbed',
           writer'[w].kind = "event" => writer[w].kind = "event" /\ writer'[w].event = writer[w].event
    PROVE  Apart'
BY DEF BillingInv, Apart

\* A writer that moves on within its request, with no word to the ledger.
LEMMA MoveKeeps ==
    ASSUME BillingInv, NEW w \in Writers, NEW q \in Requests, writer' = [writer EXCEPT ![w] = q],
           UNCHANGED <<ledger, applied>>,
           disturbed \subseteq disturbed', disturbed' \subseteq Events,
           DOMAIN sent \subseteq DOMAIN sent',
           sent' \in Seq(Notices), stripe' \in Rows, org' \in Rows, venue' \in [Venues -> Rows],
           answered' = answered, calm' \in BOOLEAN, faults' \in 0..MaxFaults,
           q.at = "idle" <=> q.kind = "none",
           q.at \in {"read", "failed"} => q.kind = "event",
           q.at \in {"change", "undo", "unsync", "last"} => q.kind = "switch",
           q.kind = "event" =>
              /\ writer[w].kind = "event" /\ q.event = writer[w].event
              /\ q.at \in {"read", "save"} => writer[w].at \in {"read", "save"}
              /\ q.at = "sync" => writer[w].at = "sync"
    PROVE  BillingInv'
<1>0. TypeOK
  BY DEF BillingInv
<1>1. /\ writer' \in [Writers -> Requests] /\ writer'[w] = q
      /\ \A v \in Writers \ {w} : writer'[v] = writer[v]
  BY <1>0, OneMoves
<1>2. TypeOK'
  BY <1>0, <1>1 DEF TypeOK
<1>3. \A v \in Writers \ {w} : Kind(v)' /\ Attempt(v)'
  <2>1. {} \in SUBSET Events /\ \A d \in {} : ledger'[d].status # "none"
    OBVIOUS
  <2> QED
    BY <1>1, <2>1, OthersKeep
<1>4. Kind(w)'
  BY <1>1 DEF Kind
<1>5. Attempt(w)'
  <2>1. Attempt(w)
    BY DEF BillingInv
  <2> QED
    BY <1>1, <2>1 DEF Attempt
<1>6. Apart'
  BY <1>1, StaysApart
<1>7. Remembered'
  BY DEF BillingInv, Remembered
<1> QED
  BY <1>2, <1>3, <1>4, <1>5, <1>6, <1>7 DEF BillingInv

\* A request that ends leaves what it did not finish.
LEMMA EndKeeps ==
    ASSUME BillingInv, NEW w \in Writers, writer' = [writer EXCEPT ![w] = Idle],
           UNCHANGED <<ledger, applied, calm, answered, org>>,
           disturbed \subseteq disturbed', disturbed' \subseteq Events,
           DOMAIN sent \subseteq DOMAIN sent', sent' \in Seq(Notices), stripe' \in Rows,
           venue' \in [Venues -> Rows], faults' \in 0..MaxFaults
    PROVE  BillingInv'
<1>1. TypeOK
  BY DEF BillingInv
<1>2. Idle.at = "idle" /\ Idle.kind = "none"
  BY DEF Idle
<1>3. org' \in Rows /\ calm' \in BOOLEAN
  BY <1>1 DEF TypeOK
<1> QED
  BY <1>2, <1>3, IdleIsRequest, MoveKeeps

LEMMA FaultIsTyped == TypeOK /\ Fault => faults' \in 0..MaxFaults
BY BillingSizes DEF TypeOK, Fault

-----------------------------------------------------------------------------
(* Stripe and time.                                                        *)

LEMMA ChangesAreNotices == TypeOK => Changes \subseteq Notices
BY DEF Changes, Event, Notices, Statuses

LEMMA StripeKeeps == BillingInv /\ StripeChanges => BillingInv'
<1> SUFFICES ASSUME BillingInv, StripeChanges PROVE BillingInv'
  OBVIOUS
<1>1. TypeOK
  BY DEF BillingInv
<1>2. /\ sent' \in Seq(Notices) /\ stripe' \in Rows /\ DOMAIN sent \subseteq DOMAIN sent'
      /\ UNCHANGED <<answered, ledger, org, venue, writer, applied, disturbed, calm, faults>>
  BY <1>1, ChangesAreNotices, SendIsTyped DEF StripeChanges
<1>3. TypeOK'
  BY <1>1, <1>2 DEF TypeOK
<1>4. Apart' /\ Remembered' /\ \A w \in Writers : Kind(w)'
  BY <1>2 DEF BillingInv, Apart, Remembered, Kind
<1>5. \A w \in Writers : Attempt(w)'
  BY <1>2 DEF BillingInv, Attempt
<1> QED
  BY <1>3, <1>4, <1>5 DEF BillingInv

LEMMA LeaseKeeps ==
    ASSUME BillingInv, NEW e \in Events, LeaseRunsOut(e)
    PROVE  BillingInv'
<1>1. TypeOK
  BY DEF BillingInv
<1>2. UNCHANGED <<stripe, sent, answered, org, venue, writer, applied, disturbed, calm, faults>>
  BY DEF LeaseRunsOut
<1> DEFINE row == [ledger[e] EXCEPT !.stale = TRUE]
<1>3. /\ row \in [status : {"none", "processing", "processed", "failed"}, stale : BOOLEAN]
      /\ row.status = "processing" /\ ledger[e].status = "processing"
  BY <1>1 DEF TypeOK, LeaseRunsOut
<1>4. ledger' = [ledger EXCEPT ![e] = row]
  BY DEF LeaseRunsOut
<1> HIDE DEF row
<1>5. /\ ledger' \in [Events -> [status : {"none", "processing", "processed", "failed"}, stale : BOOLEAN]]
      /\ \A d \in Events : ledger'[d].status = ledger[d].status
      /\ \A d \in Events \ {e} : ledger'[d] = ledger[d]
  BY <1>1, <1>3, <1>4 DEF TypeOK
<1>6. \A d \in Events : ledger'[d].stale => ledger'[d].status = "processing"
  BY <1>1, <1>3, <1>5 DEF TypeOK
<1>7. TypeOK'
  BY <1>1, <1>2, <1>5, <1>6 DEF TypeOK
<1>8. Apart' /\ Remembered' /\ \A w \in Writers : Kind(w)'
  BY <1>2, <1>5 DEF BillingInv, Apart, Remembered, Kind
<1>9. \A w \in Writers : Attempt(w)'
  BY <1>2, <1>5 DEF BillingInv, Attempt
<1> QED
  BY <1>7, <1>8, <1>9 DEF BillingInv

-----------------------------------------------------------------------------
(* Deliveries.                                                             *)

\* TryClaimAsync takes an event no attempt is at, or one whose lease ran out.
LEMMA DeliverKeeps ==
    ASSUME BillingInv, NEW w \in Writers, NEW e \in Events, Deliver(w, e)
    PROVE  BillingInv'
<1>1. TypeOK
  BY DEF BillingInv
<1>2. e \in DOMAIN sent /\ writer[w].at = "idle" /\ UNCHANGED <<stripe, sent, org, venue, applied, faults>>
  BY DEF Deliver
<1>3. CASE ~Claimable(e)
  <2>1. answered' = answered \cup {e} /\ UNCHANGED <<ledger, writer, disturbed, calm>>
    BY <1>3 DEF Deliver
  <2>2. TypeOK'
    BY <1>1, <1>2, <2>1 DEF TypeOK
  <2>3. Apart' /\ Remembered' /\ \A v \in Writers : Kind(v)'
    BY <1>2, <2>1 DEF BillingInv, Apart, Remembered, Kind
  <2>4. \A v \in Writers : Attempt(v)'
    BY <1>2, <2>1 DEF BillingInv, Attempt
  <2> QED
    BY <2>2, <2>3, <2>4 DEF BillingInv
<1>4. CASE Claimable(e)
  <2> DEFINE q == [Idle EXCEPT !.at = "read", !.kind = "event", !.event = e]
  <2>1. /\ ledger' = [ledger EXCEPT ![e] = [status |-> "processing", stale |-> FALSE]]
        /\ writer' = [writer EXCEPT ![w] = q]
        /\ disturbed' = IF ledger[e].stale THEN disturbed \cup {e} ELSE disturbed
        /\ calm' \in BOOLEAN /\ answered' = answered
    BY <1>1, <1>4 DEF Deliver, TypeOK
  <2>2. q \in Requests /\ q.at = "read" /\ q.kind = "event" /\ q.event = e
    BY IdleIsRequest, ClaimIsRequest
  <2> HIDE DEF q
  <2>3. /\ writer' \in [Writers -> Requests] /\ writer'[w] = q
        /\ \A v \in Writers \ {w} : writer'[v] = writer[v]
    BY <1>1, <2>1, <2>2, OneMoves
  <2>4. /\ ledger' \in [Events -> [status : {"none", "processing", "processed", "failed"},
                                   stale : BOOLEAN]]
        /\ ledger'[e].status = "processing"
        /\ \A d \in Events \ {e} : ledger'[d] = ledger[d]
        /\ \A d \in Events : ledger'[d].status # "none" => d \in DOMAIN sent
        /\ \A d \in Events : ledger'[d].stale => ledger'[d].status = "processing"
    BY <1>1, <1>2, <2>1, LedgerTypes
  <2>5. TypeOK'
    BY <1>1, <1>2, <2>1, <2>3, <2>4 DEF TypeOK
  <2>6. \A v \in Writers \ {w} :
           writer[v].kind = "event" /\ writer[v].event = e => e \in disturbed'
    <3> SUFFICES ASSUME NEW v \in Writers \ {w}, writer[v].kind = "event", writer[v].event = e
                 PROVE  e \in disturbed'
      OBVIOUS
    <3>1. ledger[e].status # "none" /\ (e \notin disturbed => ledger[e].status = "processing")
      BY DEF BillingInv, Attempt
    <3> QED
      BY <1>4, <2>1, <3>1 DEF Claimable
  <2>7. \A v \in Writers \ {w} : Kind(v)' /\ Attempt(v)'
    <3>1. /\ {e} \in SUBSET Events /\ disturbed \subseteq disturbed'
          /\ DOMAIN sent \subseteq DOMAIN sent' /\ applied \subseteq applied'
      BY <1>2, <2>1
    <3>2. /\ \A d \in Events \ {e} : ledger'[d].status = ledger[d].status
                                     /\ (d \in applied' => d \in applied)
          /\ \A d \in {e} : ledger'[d].status # "none"
      BY <1>2, <2>4
    <3>3. \A v \in Writers \ {w} :
             writer[v].kind = "event" /\ writer[v].event \in {e} => writer[v].event \in disturbed'
      BY <2>6
    <3> QED
      BY <2>3, <3>1, <3>2, <3>3, OthersKeep
  <2>8. Kind(w)'
    BY <2>2, <2>3 DEF Kind
  <2>9. e \in applied => e \in disturbed'
    BY <1>4, <2>1 DEF Claimable, BillingInv, Remembered
  <2>10. Attempt(w)'
    BY <1>2, <2>2, <2>3, <2>4, <2>9 DEF Attempt
  <2>11. Apart'
    <3> SUFFICES ASSUME NEW u \in Writers, NEW v \in Writers, u # v,
                        writer'[u].kind = "event", writer'[v].kind = "event",
                        writer'[u].event = writer'[v].event
                 PROVE  writer'[u].event \in disturbed'
      BY DEF Apart
    <3>1. CASE u # w /\ v # w
      BY <2>1, <2>3, <3>1 DEF BillingInv, Apart
    <3>2. CASE u = w \/ v = w
      BY <2>2, <2>3, <2>6, <3>2
    <3> QED
      BY <3>1, <3>2
  <2>12. Remembered'
    BY <1>2, <2>1, <2>4 DEF BillingInv, Remembered
  <2> QED
    BY <2>5, <2>7, <2>8, <2>10, <2>11, <2>12 DEF BillingInv
<1> QED
  BY <1>3, <1>4

LEMMA ReadKeeps ==
    ASSUME BillingInv, NEW w \in Writers, Read(w)
    PROVE  BillingInv'
<1>1. TypeOK /\ Kind(w) /\ Attempt(w)
  BY DEF BillingInv
<1>2. /\ writer[w].at = "read" /\ writer[w].kind = "event" /\ writer[w].event \in DOMAIN sent
      /\ UNCHANGED <<stripe, sent, answered, ledger, org, venue, applied, disturbed, calm, faults>>
  BY <1>1 DEF Read, Kind, Attempt
<1>3. /\ sent \in Seq(Notices) /\ stripe \in Rows /\ org \in Rows /\ venue \in [Venues -> Rows]
      /\ calm \in BOOLEAN /\ faults \in 0..MaxFaults /\ disturbed \subseteq Events
      /\ writer[w] \in Requests
  BY <1>1, Fields DEF TypeOK
<1>4. CASE Goto(w, "failed")
  <2> DEFINE q == [writer[w] EXCEPT !.at = "failed"]
  <2>1. q \in Requests /\ writer' = [writer EXCEPT ![w] = q]
    BY <1>1, <1>4, GotoMoves DEF Ats
  <2>2. q.at = "failed" /\ q.kind = "event" /\ q.event = writer[w].event
    BY <1>2, <1>3 DEF Requests
  <2> HIDE DEF q
  <2> QED
    BY <1>2, <1>3, <2>1, <2>2, MoveKeeps
<1>5. CASE ~Goto(w, "failed")
  <2> DEFINE row == Effect(sent[writer[w].event], org)
             q == [writer[w] EXCEPT !.at = "save", !.row = row]
  <2>1. row \in Rows
    BY <1>2, <1>3, EffectIsRow
  <2>2. writer' = [writer EXCEPT ![w] = q]
    BY <1>5 DEF Read
  <2> HIDE DEF row
  <2>3. q \in Requests /\ q.at = "save" /\ q.kind = "event" /\ q.event = writer[w].event
    BY <1>2, <1>3, <2>1 DEF Requests
  <2> HIDE DEF q
  <2> QED
    BY <1>2, <1>3, <2>2, <2>3, MoveKeeps
<1> QED
  BY <1>4, <1>5

\* Every step of the handlers after the read keeps the event that is in hand.
LEMMA SaveKeeps ==
    ASSUME BillingInv, NEW w \in Writers, Save(w)
    PROVE  BillingInv'
<1>1. TypeOK /\ Kind(w) /\ Attempt(w)
  BY DEF BillingInv
<1> DEFINE at == IF writer[w].at = "save" THEN "sync" ELSE "unsync"
           q  == [writer[w] EXCEPT !.at = at, !.left = VenueOrder]
           e  == writer[w].event
<1>2. /\ writer[w].at \in {"save", "undo"} /\ org' = writer[w].row
      /\ applied' = applied \cup IF writer[w].kind = "event" THEN {e} ELSE {}
      /\ UNCHANGED <<stripe, sent, answered, ledger, venue, disturbed, calm, faults>>
  BY DEF Save
<1>3. writer' = [writer EXCEPT ![w] = q]
  BY <1>1 DEF Save, TypeOK
<1>4. at \in {"sync", "unsync"} /\ (at = "unsync" => writer[w].at = "undo")
  BY <1>2
<1> HIDE DEF at
<1>5. /\ q \in Requests /\ q.at = at /\ q.kind = writer[w].kind /\ q.event = e
  BY <1>1, <1>4, Fields, BillingSizes DEF Requests
<1> HIDE DEF q
<1>6. /\ writer' \in [Writers -> Requests] /\ writer'[w] = q
      /\ \A v \in Writers \ {w} : writer'[v] = writer[v]
  BY <1>1, <1>3, <1>5, OneMoves
<1>7. writer[w].kind = "event" => e \in Events
  BY <1>1 DEF Attempt
<1>8. TypeOK'
  <2>1. applied' \subseteq Events /\ org' \in Rows
    BY <1>1, <1>2, <1>7, Fields DEF TypeOK
  <2> QED
    BY <1>1, <1>2, <1>6, <2>1 DEF TypeOK
<1>9. \A v \in Writers \ {w} : Kind(v)' /\ Attempt(v)'
  <2> DEFINE D == IF writer[w].kind = "event" THEN {e} ELSE {}
  <2>1. D \in SUBSET Events /\ applied' = applied \cup D
    BY <1>2, <1>7
  <2>2. \A d \in D : d = e /\ writer[w].kind = "event" /\ ledger'[d].status # "none"
    BY <1>1, <1>2 DEF Attempt
  <2>3. \A v \in Writers \ {w} :
           writer[v].kind = "event" /\ writer[v].event \in D => writer[v].event \in disturbed'
    BY <1>2, <2>2 DEF BillingInv, Apart
  <2> HIDE DEF D
  <2>4. \A d \in Events \ D : ledger'[d].status = ledger[d].status /\ (d \in applied' => d \in applied)
    BY <1>2, <2>1
  <2>5. applied \subseteq applied' /\ disturbed \subseteq disturbed' /\ DOMAIN sent \subseteq DOMAIN sent'
    BY <1>2
  <2> QED
    BY <1>6, <2>1, <2>2, <2>3, <2>4, <2>5, OthersKeep
<1>10. Kind(w)'
  BY <1>1, <1>2, <1>4, <1>5, <1>6 DEF Kind
<1>11. Attempt(w)'
  BY <1>1, <1>2, <1>4, <1>5, <1>6 DEF Attempt
<1>12. Apart'
  BY <1>2, <1>5, <1>6, StaysApart
<1>13. Remembered'
  BY <1>1, <1>2 DEF BillingInv, Remembered, Attempt
<1> QED
  BY <1>8, <1>9, <1>10, <1>11, <1>12, <1>13 DEF BillingInv

\* The types MoveKeeps asks of what a step leaves alone.
LEMMA Typed ==
    ASSUME BillingInv
    PROVE  /\ TypeOK /\ sent \in Seq(Notices) /\ stripe \in Rows /\ org \in Rows
           /\ venue \in [Venues -> Rows] /\ calm \in BOOLEAN /\ faults \in 0..MaxFaults
           /\ disturbed \subseteq Events /\ answered \subseteq DOMAIN sent
BY DEF BillingInv, TypeOK

LEMMA ProjectKeeps ==
    ASSUME BillingInv, NEW w \in Writers, Project(w)
    PROVE  BillingInv'
<1> DEFINE q == [writer[w] EXCEPT !.left = Tail(@)]
<1>1. Kind(w)
  BY DEF BillingInv
<1>2. /\ writer[w].at \in {"sync", "unsync"}
      /\ UNCHANGED <<stripe, sent, answered, ledger, org, applied, disturbed, calm, faults>>
  BY DEF Project
<1>3. writer' = [writer EXCEPT ![w] = q]
  BY Typed DEF Project, TypeOK
<1>4. writer[w].left \in Seq(Venues) /\ writer[w].left # << >>
  BY Typed, Fields DEF Project
<1>5. Tail(writer[w].left) \in Seq(Venues) /\ Head(writer[w].left) \in Venues
  BY <1>4
<1>6. q \in Requests /\ q.at = writer[w].at /\ q.kind = writer[w].kind /\ q.event = writer[w].event
  BY <1>5, Typed, Fields DEF Requests
<1>7. venue' \in [Venues -> Rows]
  BY <1>5, Typed, Fields DEF Project
<1> HIDE DEF q
<1> QED
  BY <1>1, <1>2, <1>3, <1>6, <1>7, Typed, MoveKeeps DEF Kind

\* An attempt that settles its event is over; whoever else is at it was disturbed.
LEMMA SettleKeeps ==
    ASSUME BillingInv, NEW w \in Writers, writer[w].kind = "event", NEW s \in {"processed", "failed"},
           ledger' = [ledger EXCEPT ![writer[w].event] = [status |-> s, stale |-> FALSE]],
           writer' = [writer EXCEPT ![w] = Idle],
           disturbed \subseteq disturbed', disturbed' \subseteq Events,
           s = "failed" => writer[w].event \in disturbed',
           answered' \subseteq DOMAIN sent,
           UNCHANGED <<stripe, sent, org, venue, applied, calm, faults>>
    PROVE  BillingInv'
<1> DEFINE e == writer[w].event
<1>1. TypeOK /\ Attempt(w)
  BY DEF BillingInv
<1>2. e \in Events /\ e \in DOMAIN sent
  BY <1>1 DEF Attempt
<1>3. /\ writer' \in [Writers -> Requests] /\ writer'[w] = Idle
      /\ \A v \in Writers \ {w} : writer'[v] = writer[v]
  BY <1>1, IdleIsRequest, OneMoves
<1> HIDE DEF e
<1>4. ledger' = [ledger EXCEPT ![e] = [status |-> s, stale |-> FALSE]]
  BY DEF e
<1>5. /\ ledger' \in [Events -> [status : {"none", "processing", "processed", "failed"},
                                 stale : BOOLEAN]]
      /\ ledger'[e].status = s
      /\ \A d \in Events \ {e} : ledger'[d] = ledger[d]
      /\ \A d \in Events : ledger'[d].status # "none" => d \in DOMAIN sent
      /\ \A d \in Events : ledger'[d].stale => ledger'[d].status = "processing"
  BY <1>1, <1>2, <1>4, LedgerTypes
<1>6. TypeOK'
  BY <1>1, <1>3, <1>5 DEF TypeOK
<1>7. \A v \in Writers \ {w} : Kind(v)' /\ Attempt(v)'
  <2>1. /\ {e} \in SUBSET Events
        /\ DOMAIN sent \subseteq DOMAIN sent' /\ applied \subseteq applied'
    BY <1>2
  <2>2. /\ \A d \in Events \ {e} : ledger'[d].status = ledger[d].status
                                   /\ (d \in applied' => d \in applied)
        /\ \A d \in {e} : ledger'[d].status # "none"
    BY <1>5
  <2>3. \A v \in Writers \ {w} :
           writer[v].kind = "event" /\ writer[v].event \in {e} => writer[v].event \in disturbed'
    BY DEF BillingInv, Apart, e
  <2> QED
    BY <1>3, <2>1, <2>2, <2>3, OthersKeep
<1>8. Kind(w)' /\ Attempt(w)'
  BY <1>3 DEF Kind, Attempt, Idle
<1>9. Apart'
  BY <1>3, StaysApart DEF Idle
<1>10. Remembered'
  BY <1>2, <1>5 DEF BillingInv, Remembered, e
<1> QED
  BY <1>6, <1>7, <1>8, <1>9, <1>10 DEF BillingInv

LEMMA MarkProcessedKeeps ==
    ASSUME BillingInv, NEW w \in Writers, MarkProcessed(w)
    PROVE  BillingInv'
<1>1. Attempt(w)
  BY DEF BillingInv
<1>2. /\ writer[w].kind = "event" /\ writer[w].event \in DOMAIN sent
      /\ UNCHANGED <<stripe, sent, org, venue, applied, disturbed, calm, faults>>
  BY <1>1 DEF MarkProcessed, Attempt
<1>3. CASE ledger[writer[w].event].status = "processing"
  <2>1. /\ ledger' = [ledger EXCEPT ![writer[w].event] = [status |-> "processed", stale |-> FALSE]]
        /\ writer' = [writer EXCEPT ![w] = Idle]
        /\ answered' \subseteq DOMAIN sent
    BY <1>2, <1>3, Typed DEF MarkProcessed
  <2> QED
    BY <1>2, <2>1, Typed, SettleKeeps
<1>4. CASE ledger[writer[w].event].status # "processing"
  <2> DEFINE q == [writer[w] EXCEPT !.at = "failed"]
  <2>1. Goto(w, "failed") /\ UNCHANGED <<ledger, answered>>
    BY <1>4 DEF MarkProcessed
  <2>2. q \in Requests /\ writer' = [writer EXCEPT ![w] = q]
    BY <2>1, Typed, GotoMoves DEF Ats
  <2>3. q.at = "failed" /\ q.kind = "event" /\ q.event = writer[w].event
    BY <1>2, Typed, Fields DEF Requests
  <2> HIDE DEF q
  <2> QED
    BY <1>2, <2>1, <2>2, <2>3, Typed, MoveKeeps
<1> QED
  BY <1>3, <1>4

LEMMA MarkFailedKeeps ==
    ASSUME BillingInv, NEW w \in Writers, MarkFailed(w)
    PROVE  BillingInv'
<1>1. Kind(w) /\ Attempt(w)
  BY DEF BillingInv
<1>2. /\ writer[w].kind = "event" /\ writer[w].event \in Events
      /\ writer' = [writer EXCEPT ![w] = Idle]
      /\ disturbed' = disturbed \cup {writer[w].event}
      /\ UNCHANGED <<stripe, sent, answered, org, venue, applied, calm, faults>>
  BY <1>1 DEF MarkFailed, Kind, Attempt
<1>3. disturbed' \subseteq Events
  BY <1>2, Typed
<1>4. CASE ledger[writer[w].event].status = "processing"
  <2>1. ledger' = [ledger EXCEPT ![writer[w].event] = [status |-> "failed", stale |-> FALSE]]
    BY <1>4 DEF MarkFailed
  <2> QED
    BY <1>2, <1>3, <2>1, Typed, SettleKeeps
<1>5. CASE ledger[writer[w].event].status # "processing"
  <2>1. ledger' = ledger
    BY <1>5 DEF MarkFailed
  <2> QED
    BY <1>2, <1>3, <2>1, Typed, EndKeeps
<1> QED
  BY <1>4, <1>5

-----------------------------------------------------------------------------
(* The local operations, failures and dead processes.                      *)

LEMMA ExpireKeeps ==
    ASSUME BillingInv, NEW w \in Writers, ExpireTrial(w)
    PROVE  BillingInv'
<1> DEFINE row == [org EXCEPT !.status = "canceled"]
           q   == [Idle EXCEPT !.at = "save", !.kind = "expire", !.row = row]
<1>1. row \in Rows
  BY Typed DEF Rows, Statuses
<1>2. /\ writer' = [writer EXCEPT ![w] = q] /\ calm' \in BOOLEAN
      /\ UNCHANGED <<stripe, sent, answered, ledger, org, venue, applied, disturbed, faults>>
  BY Typed DEF ExpireTrial
<1> HIDE DEF row
<1>3. q \in Requests /\ q.at = "save" /\ q.kind = "expire"
  BY <1>1, IdleIsRequest DEF Requests
<1> HIDE DEF q
<1> QED
  BY <1>2, <1>3, Typed, MoveKeeps

LEMMA SwitchKeeps ==
    ASSUME BillingInv, NEW w \in Writers, NEW t \in Tiers, ReadForSwitch(w, t)
    PROVE  BillingInv'
<1> DEFINE row == [org EXCEPT !.tier = t]
           at  == IF org.tier = t THEN "last" ELSE "change"
           q   == [Idle EXCEPT !.at = at, !.kind = "switch", !.row = row, !.old = org.tier]
<1>1. row \in Rows /\ org.tier \in Tiers \cup {None} /\ at \in {"last", "change"}
  BY Typed DEF Rows
<1>2. /\ writer' = [writer EXCEPT ![w] = q] /\ calm' \in BOOLEAN
      /\ UNCHANGED <<stripe, sent, answered, ledger, org, venue, applied, disturbed, faults>>
  BY Typed DEF ReadForSwitch
<1> HIDE DEF row, at
<1>3. q \in Requests /\ q.at = at /\ q.kind = "switch"
  BY <1>1, IdleIsRequest DEF Requests
<1> HIDE DEF q
<1> QED
  BY <1>1, <1>2, <1>3, Typed, MoveKeeps

LEMMA PriceIsNotice ==
    ASSUME BillingInv, NEW t \in Tiers \cup {None}
    PROVE  Event("updated", t, stripe.status) \in Notices
BY Typed DEF Event, Notices, Rows

LEMMA ChangeAtStripeKeeps ==
    ASSUME BillingInv, NEW w \in Writers, ChangeAtStripe(w)
    PROVE  BillingInv'
<1>1. /\ writer[w].kind = "switch"
      /\ UNCHANGED <<answered, ledger, org, venue, applied, disturbed, calm, faults>>
  BY DEF ChangeAtStripe, BillingInv, Kind
<1>2. CASE stripe.status = "canceled"
  <2>1. writer' = [writer EXCEPT ![w] = Idle] /\ UNCHANGED <<stripe, sent>>
    BY <1>2 DEF ChangeAtStripe
  <2> QED
    BY <1>1, <2>1, Typed, EndKeeps
<1>3. CASE stripe.status # "canceled"
  <2> DEFINE q == [writer[w] EXCEPT !.at = "save"]
  <2>1. Send(Event("updated", writer[w].row.tier, stripe.status)) /\ Goto(w, "save")
    BY <1>3 DEF ChangeAtStripe
  <2>2. sent' \in Seq(Notices) /\ stripe' \in Rows /\ DOMAIN sent \subseteq DOMAIN sent'
    BY <2>1, Typed, Fields, PriceIsNotice, SendIsTyped
  <2>3. q \in Requests /\ writer' = [writer EXCEPT ![w] = q]
    BY <2>1, Typed, GotoMoves DEF Ats
  <2>4. q.at = "save" /\ q.kind = "switch"
    BY <1>1, Typed, Fields DEF Requests
  <2> HIDE DEF q
  <2> QED
    BY <1>1, <2>2, <2>3, <2>4, Typed, MoveKeeps
<1> QED
  BY <1>2, <1>3

LEMMA RestoreKeeps ==
    ASSUME BillingInv, NEW w \in Writers, Restore(w)
    PROVE  BillingInv'
<1>1. /\ writer' = [writer EXCEPT ![w] = Idle]
      /\ UNCHANGED <<answered, ledger, org, venue, applied, disturbed, calm, faults>>
  BY DEF Restore
<1>2. sent' \in Seq(Notices) /\ stripe' \in Rows /\ DOMAIN sent \subseteq DOMAIN sent'
  <2>1. CASE stripe.status = "canceled"
    BY <2>1, Typed DEF Restore
  <2>2. CASE stripe.status # "canceled"
    BY <2>2, Typed, Fields, PriceIsNotice, SendIsTyped DEF Restore
  <2> QED
    BY <2>1, <2>2
<1> QED
  BY <1>1, <1>2, Typed, EndKeeps

LEMMA ReturnKeeps ==
    ASSUME BillingInv, NEW w \in Writers, Return(w)
    PROVE  BillingInv'
<1>1. UNCHANGED <<stripe, sent, answered, ledger, org, applied, disturbed, calm, faults>>
  BY DEF Return
<1>2. CASE writer[w].kind = "switch" /\ Goto(w, "last") /\ UNCHANGED venue
  <2> DEFINE q == [writer[w] EXCEPT !.at = "last"]
  <2>1. q \in Requests /\ writer' = [writer EXCEPT ![w] = q]
    BY <1>2, Typed, GotoMoves DEF Ats
  <2>2. q.at = "last" /\ q.kind = "switch"
    BY <1>2, Typed, Fields DEF Requests
  <2> HIDE DEF q
  <2> QED
    BY <1>1, <1>2, <2>1, <2>2, Typed, MoveKeeps
<1>3. CASE /\ writer' = [writer EXCEPT ![w] = Idle]
           /\ \E v \in Venues : venue' = [venue EXCEPT ![v] = writer[w].row]
  <2>1. venue' \in [Venues -> Rows]
    BY <1>3, Typed, Fields
  <2> QED
    BY <1>1, <1>3, <2>1, Typed, EndKeeps
<1>4. CASE writer' = [writer EXCEPT ![w] = Idle] /\ UNCHANGED venue
  BY <1>1, <1>4, Typed, EndKeeps
<1> QED
  BY <1>2, <1>3, <1>4 DEF Return

LEMMA ThrowKeeps ==
    ASSUME BillingInv, NEW w \in Writers, Throw(w)
    PROVE  BillingInv'
<1>1. /\ UNCHANGED <<stripe, sent, answered, ledger, org, venue, applied, disturbed, calm>>
      /\ faults' \in 0..MaxFaults
  BY Typed, FaultIsTyped DEF Throw
<1>2. CASE writer[w].kind = "event"
  <2> DEFINE q == [writer[w] EXCEPT !.at = "failed"]
  <2>1. Goto(w, "failed")
    BY <1>2 DEF Throw
  <2>2. q \in Requests /\ writer' = [writer EXCEPT ![w] = q]
    BY <2>1, Typed, GotoMoves DEF Ats
  <2>3. q.at = "failed" /\ q.kind = "event" /\ q.event = writer[w].event
    BY <1>2, Typed, Fields DEF Requests
  <2> HIDE DEF q
  <2> QED
    BY <1>1, <1>2, <2>2, <2>3, Typed, MoveKeeps
<1>3. CASE writer[w].kind = "switch" /\ writer[w].at \in {"save", "sync"}
  <2> DEFINE row == [writer[w].row EXCEPT !.tier = writer[w].old]
             q   == [writer[w] EXCEPT !.at = "undo", !.row = row]
  <2>1. row \in Rows
    BY Typed, Fields DEF Rows
  <2>2. writer' = [writer EXCEPT ![w].at = "undo", ![w].row.tier = writer[w].old]
    BY <1>3 DEF Throw
  <2>3. writer' = [writer EXCEPT ![w] = q]
    BY <2>2, Typed DEF TypeOK
  <2> HIDE DEF row
  <2>4. q \in Requests /\ q.at = "undo" /\ q.kind = "switch"
    BY <1>3, <2>1, Typed, Fields DEF Requests
  <2> HIDE DEF q
  <2> QED
    BY <1>1, <2>3, <2>4, Typed, MoveKeeps
<1>4. CASE writer[w].kind # "event" /\ ~(writer[w].kind = "switch" /\ writer[w].at \in {"save", "sync"})
  <2>1. writer' = [writer EXCEPT ![w] = Idle]
    BY <1>4 DEF Throw
  <2> QED
    BY <1>1, <2>1, Typed, EndKeeps
<1> QED
  BY <1>2, <1>3, <1>4

LEMMA DieKeeps ==
    ASSUME BillingInv, NEW w \in Writers, Die(w)
    PROVE  BillingInv'
<1>1. Attempt(w)
  BY DEF BillingInv
<1>2. /\ writer' = [writer EXCEPT ![w] = Idle]
      /\ disturbed' = IF writer[w].kind = "event" THEN disturbed \cup {writer[w].event} ELSE disturbed
      /\ UNCHANGED <<stripe, sent, answered, ledger, org, venue, applied, calm>>
      /\ faults' \in 0..MaxFaults
  BY Typed, FaultIsTyped DEF Die
<1>3. disturbed \subseteq disturbed' /\ disturbed' \subseteq Events
  BY <1>1, <1>2, Typed DEF Attempt
<1> QED
  BY <1>2, <1>3, Typed, EndKeeps

-----------------------------------------------------------------------------
LEMMA BillingInit == Init => BillingInv
<1> SUFFICES ASSUME Init PROVE BillingInv
  OBVIOUS
<1>1. stripe \in Rows /\ org \in Rows
  <2> PICK t \in Tiers : \/ stripe = NoRow /\ org \in {NoRow, Sub(t, "trialing", FALSE)}
                         \/ stripe = Sub(t, "active", TRUE) /\ org = stripe
    BY DEF Init
  <2>1. Sub(t, "trialing", FALSE) \in Rows /\ Sub(t, "active", TRUE) \in Rows /\ NoRow \in Rows
    BY SubIsRow, IdleIsRequest DEF Statuses
  <2> QED
    BY <2>1
<1>2. \A w \in Writers : writer[w] = Idle
  BY DEF Init
<1>3. TypeOK
  <2>1. writer \in [Writers -> Requests] /\ venue \in [Venues -> Rows]
    BY <1>1, IdleIsRequest DEF Init
  <2>2. ledger \in [Events -> [status : {"none", "processing", "processed", "failed"}, stale : BOOLEAN]]
    BY DEF Init
  <2>3. \A e \in Events : ledger[e].status = "none" /\ ledger[e].stale = FALSE
    BY DEF Init
  <2>4. sent \in Seq(Notices) /\ faults \in 0..MaxFaults
    BY BillingSizes DEF Init
  <2> QED
    BY <1>1, <2>1, <2>2, <2>3, <2>4 DEF Init, TypeOK
<1>4. \A w \in Writers : Kind(w) /\ Attempt(w)
  BY <1>2 DEF Kind, Attempt, Idle
<1>5. Apart
  BY <1>2 DEF Apart, Idle
<1>6. Remembered
  BY DEF Init, Remembered
<1> QED
  BY <1>3, <1>4, <1>5, <1>6 DEF BillingInv

LEMMA BillingStep == BillingInv /\ [Next]_vars => BillingInv'
<1> SUFFICES ASSUME BillingInv, [Next]_vars PROVE BillingInv'
  OBVIOUS
<1>1. CASE UNCHANGED vars
  BY <1>1 DEF vars, BillingInv, TypeOK, Apart, Remembered, Kind, Attempt
<1>2. ASSUME NEW w \in Writers, Step(w) PROVE BillingInv'
  BY <1>2, ReadKeeps, SaveKeeps, ProjectKeeps, MarkProcessedKeeps, MarkFailedKeeps,
     ChangeAtStripeKeeps, RestoreKeeps, ReturnKeeps DEF Step
<1>3. CASE Next
  BY <1>2, <1>3, StripeKeeps, LeaseKeeps, DeliverKeeps, ExpireKeeps, SwitchKeeps, ThrowKeeps, DieKeeps
     DEF Next
<1> QED
  BY <1>1, <1>3

\* Every row, request and ledger entry keeps its type, and only what Stripe sent is in
\* ProcessedStripeEvents.
THEOREM BillingTypes == Spec => []TypeOK
BY BillingInit, BillingStep, PTL DEF Spec, BillingInv

\* SaveAsync writes the row a second time for an event only when an attempt at it
\* failed, died, or was overtaken after its lease ran out.
THEOREM EventsApplyOnce == Spec => AppliedOnce
<1>1. BillingInv /\ [Next]_vars
        => [\A w \in Writers :
                Save(w) /\ writer[w].kind = "event" /\ writer[w].event \in applied
                  => writer[w].event \in disturbed]_vars
  <2> SUFFICES ASSUME BillingInv, NEW w \in Writers, Save(w), writer[w].kind = "event",
                      writer[w].event \in applied
               PROVE  writer[w].event \in disturbed
    OBVIOUS
  <2>1. Attempt(w) /\ Kind(w) /\ TypeOK
    BY DEF BillingInv
  <2> QED
    BY <2>1 DEF Save, Attempt, Kind
<1> QED
  BY <1>1, BillingInit, BillingStep, PTL DEF Spec, AppliedOnce

-----------------------------------------------------------------------------
(* The ledger implements DurableWork.                                      *)

Accepted == {e \in Events : ledger[e].status # "none"}
Done     == {e \in Events : ledger[e].status = "processed"}

LEMMA LedgerInit == Init => Inbox!Init
BY DEF Init, Inbox!Init

LEMMA LedgerStutters ==
    ASSUME Accepted' = Accepted, applied' = applied, Done' = Done
    PROVE  UNCHANGED Inbox!vars
BY DEF Accepted, Done, Inbox!vars

\* A claim accepts an event, or takes up one that is not processed.
LEMMA DeliverAccepts ==
    ASSUME BillingInv, NEW w \in Writers, NEW e \in Events, Deliver(w, e)
    PROVE  Inbox!Next \/ UNCHANGED Inbox!vars
<1>1. CASE ~Claimable(e)
  BY <1>1, LedgerStutters DEF Deliver, Accepted, Done
<1>2. CASE Claimable(e)
  <2>1. /\ ledger' = [ledger EXCEPT ![e] = [status |-> "processing", stale |-> FALSE]]
        /\ applied' = applied
    BY <1>2 DEF Deliver
  <2>2. /\ ledger'[e].status = "processing"
        /\ \A d \in Events \ {e} : ledger'[d] = ledger[d]
    BY <2>1, Typed, LedgerTypes
  <2>3. ledger[e].status # "processed"
    BY <1>2, Typed DEF Claimable, TypeOK
  <2>4. Accepted' = Accepted \cup {e}
    BY <2>2 DEF Accepted
  <2>5. Done' = Done
    BY <2>2, <2>3 DEF Done
  <2> QED
    BY <2>1, <2>4, <2>5 DEF Inbox!Next, Inbox!Accept, Accepted, Done
<1> QED
  BY <1>1, <1>2

\* The row is written for an event that was claimed.
LEMMA SaveWorks ==
    ASSUME BillingInv, NEW w \in Writers, Save(w)
    PROVE  Inbox!Next \/ UNCHANGED Inbox!vars
<1>1. ledger' = ledger /\ Attempt(w)
  BY DEF Save, BillingInv
<1>2. Accepted' = Accepted /\ Done' = Done
  BY <1>1 DEF Accepted, Done
<1>3. CASE writer[w].kind = "event"
  <2> DEFINE e == writer[w].event
  <2>1. applied' = applied \cup {e} /\ e \in Accepted
    BY <1>1, <1>3 DEF Save, Attempt, Accepted
  <2> HIDE DEF e
  <2>2. e \in Events
    BY <2>1 DEF Accepted
  <2> QED
    BY <1>2, <2>1, <2>2 DEF Inbox!Next, Inbox!Work, Accepted, Done
<1>4. CASE writer[w].kind # "event"
  BY <1>2, <1>4, LedgerStutters DEF Save
<1> QED
  BY <1>3, <1>4

\* MarkProcessedAsync settles what is in processing, after the row was written.
LEMMA MarkProcessedFinishes ==
    ASSUME BillingInv, NEW w \in Writers, MarkProcessed(w)
    PROVE  Inbox!Next \/ UNCHANGED Inbox!vars
<1> DEFINE e == writer[w].event
<1>1. e \in Events /\ e \in applied /\ applied' = applied
  BY DEF MarkProcessed, BillingInv, Attempt
<1>2. CASE ledger[e].status # "processing"
  BY <1>1, <1>2, LedgerStutters DEF MarkProcessed, Accepted, Done
<1>3. CASE ledger[e].status = "processing"
  <2>1. ledger' = [ledger EXCEPT ![e] = [status |-> "processed", stale |-> FALSE]]
    BY <1>3 DEF MarkProcessed
  <2> HIDE DEF e
  <2>2. /\ ledger'[e].status = "processed"
        /\ \A d \in Events \ {e} : ledger'[d] = ledger[d]
    BY <1>1, <2>1, Typed, LedgerTypes
  <2>3. Done' = Done \cup {e} /\ e \notin Done
    BY <1>1, <1>3, <2>2 DEF Done
  <2>4. Accepted' = Accepted
    BY <1>3, <2>2 DEF Accepted
  <2> QED
    BY <1>1, <2>3, <2>4 DEF Inbox!Next, Inbox!Finish, Accepted, Done
<1> QED
  BY <1>2, <1>3

LEMMA MarkFailedIsInvisible ==
    ASSUME BillingInv, NEW w \in Writers, MarkFailed(w)
    PROVE  UNCHANGED Inbox!vars
<1> DEFINE e == writer[w].event
<1>1. e \in Events /\ applied' = applied
  BY DEF MarkFailed, BillingInv, Kind, Attempt
<1>2. CASE ledger[e].status # "processing"
  BY <1>1, <1>2, LedgerStutters DEF MarkFailed, Accepted, Done
<1>3. CASE ledger[e].status = "processing"
  <2>1. ledger' = [ledger EXCEPT ![e] = [status |-> "failed", stale |-> FALSE]]
    BY <1>3 DEF MarkFailed
  <2> HIDE DEF e
  <2>2. /\ ledger'[e].status = "failed"
        /\ \A d \in Events \ {e} : ledger'[d] = ledger[d]
    BY <1>1, <2>1, Typed, LedgerTypes
  <2>3. Accepted' = Accepted /\ Done' = Done
    BY <1>3, <2>2 DEF Accepted, Done
  <2> QED
    BY <1>1, <2>3, LedgerStutters
<1> QED
  BY <1>2, <1>3

LEMMA LeaseIsInvisible ==
    ASSUME BillingInv, NEW e \in Events, LeaseRunsOut(e)
    PROVE  UNCHANGED Inbox!vars
<1>1. \A d \in Events : ledger'[d].status = ledger[d].status
  BY Typed DEF LeaseRunsOut, TypeOK
<1> QED
  BY <1>1, LedgerStutters DEF LeaseRunsOut, Accepted, Done

LEMMA LedgerStep == BillingInv /\ [Next]_vars => [Inbox!Next]_(Inbox!vars)
<1> SUFFICES ASSUME BillingInv, [Next]_vars PROVE Inbox!Next \/ UNCHANGED Inbox!vars
  OBVIOUS
<1>1. CASE UNCHANGED <<ledger, applied>>
  BY <1>1, LedgerStutters DEF Accepted, Done
<1>2. CASE UNCHANGED vars \/ StripeChanges
  BY <1>1, <1>2 DEF vars, StripeChanges
<1>3. ASSUME NEW w \in Writers, Step(w) \/ Throw(w) \/ Die(w) \/ ExpireTrial(w)
      PROVE  Inbox!Next \/ UNCHANGED Inbox!vars
  <2>1. CASE Read(w) \/ Project(w) \/ ChangeAtStripe(w) \/ Restore(w) \/ Return(w)
    BY <1>1, <2>1 DEF Read, Project, ChangeAtStripe, Restore, Return
  <2>2. CASE Throw(w) \/ Die(w) \/ ExpireTrial(w)
    BY <1>1, <2>2 DEF Throw, Die, ExpireTrial
  <2> QED
    BY <1>3, <2>1, <2>2, SaveWorks, MarkProcessedFinishes, MarkFailedIsInvisible DEF Step
<1>4. ASSUME NEW w \in Writers, NEW t \in Tiers, ReadForSwitch(w, t)
      PROVE  UNCHANGED <<ledger, applied>>
  BY <1>4 DEF ReadForSwitch
<1>5. CASE Next
  BY <1>1, <1>2, <1>3, <1>4, <1>5, DeliverAccepts, LeaseIsInvisible DEF Next
<1> QED
  BY <1>2, <1>5

\* ProcessedStripeEvents loses nothing that was claimed, and an event it counts as
\* processed was applied, and is not claimed or failed again.
THEOREM LedgerKeepsWork == Spec => KeepsWork
<1>1. Spec => []BillingInv
  BY BillingInit, BillingStep, PTL DEF Spec
<1> QED
  BY <1>1, LedgerInit, LedgerStep, PTL DEF Spec, KeepsWork, Inbox!Spec

-----------------------------------------------------------------------------
(* The organization follows Stripe.                                        *)

\* The status that an event leaves, whatever the row was.
Told(ev) == CASE ev.kind = "updated" -> ev.status
              [] ev.kind = "paid" -> "active"
              [] ev.kind = "deleted" -> "canceled"

\* The subscription is what the last events say.
SaysAll ==
    /\ stripe.status # "trialing" /\ (stripe # NoRow => stripe.linked)
    /\ \A i \in DOMAIN sent : Told(sent[i]) # "trialing"
    /\ sent # << >> => stripe.linked /\ stripe.status = Told(sent[Len(sent)])
    /\ \A i \in DOMAIN sent :
          sent[i].kind = "updated" /\ (\A j \in DOMAIN sent : j > i => sent[j].kind # "updated")
            => stripe.tier = sent[i].tier

UpdatePending == \E i \in DOMAIN sent : sent[i].kind = "updated" /\ ~Processed(i)
AllDone == sent # << >> /\ Processed(Len(sent))

\* The row is Stripe's up to the events that are not processed.
Settled ==
    /\ Len(sent) <= MaxEvents
    /\ \A e \in Events : Processed(e) => org.status # "trialing" /\ \A d \in 1..(e - 1) : Processed(d)
    /\ stripe.linked /\ ~UpdatePending => org.tier = stripe.tier /\ org.linked
    /\ AllDone => org.status = stripe.status /\ \A v \in Venues : venue[v] = org

EventInHand(w) ==
    LET e == writer[w].event IN
    /\ ledger[e].status = "processing" /\ \A d \in 1..(e - 1) : Processed(d)
    /\ writer[w].at = "save" => writer[w].row = Effect(sent[e], org)
    /\ writer[w].at = "sync" =>
          /\ writer[w].row = org /\ org.status = Told(sent[e])
          /\ sent[e].kind = "updated" => org.tier = sent[e].tier /\ org.linked
          /\ \A v \in Venues :
                venue[v] = org \/ \E n \in DOMAIN writer[w].left : writer[w].left[n] = v

SwitchInHand(w) ==
    /\ writer[w].row.status = org.status /\ writer[w].row.linked = org.linked
    /\ writer[w].at = "change" => Len(sent) + 2 <= MaxEvents
    /\ writer[w].at \in {"save", "sync", "undo", "unsync"} => UpdatePending /\ Len(sent) + 1 <= MaxEvents
    /\ writer[w].at = "last" => UpdatePending \/ writer[w].row = org

ExpiryInHand(w) ==
    /\ \A e \in Events : ~Processed(e)
    /\ writer[w].row.tier = org.tier /\ writer[w].row.linked = org.linked

InHand(w) ==
    /\ writer[w].kind = "event" => EventInHand(w)
    /\ writer[w].kind = "switch" => SwitchInHand(w)
    /\ writer[w].kind = "expire" => ExpiryInHand(w)

OneAtATime == \A v, w \in Writers : v = w \/ writer[v].at = "idle" \/ writer[w].at = "idle"

CalmInv ==
    /\ SaysAll
    /\ calm => OneAtATime /\ Settled /\ \A w \in Writers : InHand(w)

\* A notice sets the status, and an update the rest of the row as well.
LEMMA EffectTells ==
    ASSUME NEW ev \in Notices, NEW row \in Rows
    PROVE  /\ Effect(ev, row).status = Told(ev)
           /\ ev.kind = "updated" => Effect(ev, row).tier = ev.tier /\ Effect(ev, row).linked
           /\ ev.kind # "updated" =>
                Effect(ev, row).tier = row.tier /\ Effect(ev, row).linked = row.linked
<1>1. CASE ev.kind = "updated"
  BY <1>1 DEF Effect, Sub, Told
<1>2. CASE ev.kind = "paid"
  BY <1>2 DEF Rows, Effect, Told
<1>3. CASE ev.kind = "deleted"
  BY <1>3 DEF Rows, Effect, Told
<1> QED
  BY <1>1, <1>2, <1>3 DEF Notices

\* What Stripe sends comes last.
LEMMA SentLast ==
    ASSUME BillingInv, NEW ev \in Notices, Send(ev)
    PROVE  /\ sent \in Seq(Notices) /\ sent' \in Seq(Notices)
           /\ Len(sent) \in Nat /\ Len(sent') = Len(sent) + 1
           /\ DOMAIN sent = 1..Len(sent) /\ DOMAIN sent' = 1..(Len(sent) + 1)
           /\ \A i \in DOMAIN sent : sent'[i] = sent[i]
           /\ sent'[Len(sent) + 1] = ev
           /\ stripe'.status = Told(ev)
           /\ ev.kind = "updated" => stripe'.tier = ev.tier /\ stripe'.linked
           /\ ev.kind # "updated" => stripe'.tier = stripe.tier /\ stripe'.linked = stripe.linked
<1>1. sent \in Seq(Notices) /\ stripe \in Rows
  BY Typed
<1>2. sent' = Append(sent, ev) /\ stripe' = Effect(ev, stripe)
  BY DEF Send
<1> QED
  BY <1>1, <1>2, EffectTells

LEMMA OneMore == ASSUME NEW n \in Nat PROVE 1..(n + 1) = 1..n \cup {n + 1}
OBVIOUS

LEMMA SendSays ==
    ASSUME BillingInv, SaysAll, NEW ev \in Notices, Send(ev), Told(ev) # "trialing",
           ev.kind = "updated" \/ stripe.linked
    PROVE  SaysAll'
<1> PICK n : n = Len(sent) + 1
  OBVIOUS
<1>0. n \in DOMAIN sent' /\ sent'[n] = ev /\ n = Len(sent') /\ DOMAIN sent' = DOMAIN sent \cup {n}
  BY SentLast, OneMore
<1>1. stripe'.linked /\ stripe'.status = Told(sent'[Len(sent')])
  BY <1>0, SentLast
<1>2. \A i \in DOMAIN sent' : Told(sent'[i]) # "trialing"
  BY <1>0, SentLast DEF SaysAll
<1>3. ASSUME NEW i \in DOMAIN sent', sent'[i].kind = "updated",
             \A j \in DOMAIN sent' : j > i => sent'[j].kind # "updated"
      PROVE  stripe'.tier = sent'[i].tier
  <2>1. CASE i = n
    BY <1>0, <2>1, <1>3, SentLast
  <2>2. CASE i # n
    <3>1. i \in DOMAIN sent /\ n > i /\ sent'[i] = sent[i]
      BY <1>0, <2>2, SentLast
    <3>2. ev.kind # "updated"
      BY <1>0, <1>3, <3>1
    <3>3. \A j \in DOMAIN sent : j > i => sent[j].kind # "updated"
      BY <1>0, <1>3, SentLast
    <3> QED
      BY <1>3, <3>1, <3>2, <3>3, SentLast DEF SaysAll
  <2> QED
    BY <2>1, <2>2
<1>4. stripe'.status # "trialing"
  BY SentLast
<1> QED
  BY <1>1, <1>2, <1>3, <1>4 DEF SaysAll

\* An event that was not sent is not processed; one that was is in the ledger.
LEMMA Ledgered ==
    ASSUME BillingInv, Settled
    PROVE  /\ DOMAIN sent = 1..Len(sent) /\ Len(sent) \in Nat /\ DOMAIN sent \subseteq Events
           /\ MaxEvents \in Nat /\ Events = 1..MaxEvents
           /\ \A e \in Events \ DOMAIN sent : ~Processed(e)
           /\ sent # << >> => Len(sent) \in DOMAIN sent
<1>1. sent \in Seq(Notices) /\ Len(sent) <= MaxEvents /\ TypeOK
  BY Typed DEF Settled
<1>2. DOMAIN sent = 1..Len(sent) /\ Len(sent) \in Nat /\ (sent # << >> => Len(sent) \in DOMAIN sent)
  BY <1>1
<1>3. \A e \in Events \ DOMAIN sent : ~Processed(e)
  BY <1>1 DEF TypeOK, Processed
<1> QED
  BY <1>1, <1>2, <1>3, BillingSizes DEF Events

\* Events are processed in order: with the last, all are.
LEMMA LastIsAll ==
    ASSUME BillingInv, Settled, AllDone
    PROVE  (\A e \in DOMAIN sent : Processed(e)) /\ ~UpdatePending
<1>1. Len(sent) \in DOMAIN sent /\ Processed(Len(sent)) /\ Len(sent) \in Events
  BY Ledgered DEF AllDone
<1>2. \A e \in DOMAIN sent : Processed(e)
  <2> TAKE e \in DOMAIN sent
  <2>1. e = Len(sent) \/ e \in 1..(Len(sent) - 1)
    BY Ledgered
  <2> QED
    BY <1>1, <2>1 DEF Settled
<1> QED
  BY <1>2 DEF UpdatePending

LEMMA SendSettles ==
    ASSUME BillingInv, SaysAll, Settled, NEW ev \in Notices, Send(ev), Len(sent) + 1 <= MaxEvents,
           ev.kind = "updated" \/ stripe.linked,
           UNCHANGED <<ledger, org, venue>>
    PROVE  /\ Settled' /\ (UpdatePending => UpdatePending')
           /\ ev.kind = "updated" => UpdatePending'
<1> PICK n : n = Len(sent) + 1
  OBVIOUS
<1>0. n \in DOMAIN sent' /\ sent'[n] = ev /\ n = Len(sent') /\ DOMAIN sent' = DOMAIN sent \cup {n}
  BY SentLast, OneMore
<1>1. n \in Events \ DOMAIN sent
  BY Ledgered
<1>2. \A e \in Events : Processed(e)' <=> Processed(e)
  BY DEF Processed
<1>3. ~Processed(n)'
  BY <1>1, <1>2, Ledgered
<1>4. UpdatePending => UpdatePending'
  BY <1>0, <1>2, SentLast, Ledgered DEF UpdatePending
<1>5. ev.kind = "updated" => UpdatePending'
  BY <1>0, <1>3 DEF UpdatePending
<1>6. ~AllDone'
  BY <1>0, <1>3 DEF AllDone, Processed
<1>7. stripe'.linked /\ ~UpdatePending' => org'.tier = stripe'.tier /\ org'.linked
  BY <1>4, <1>5, SentLast DEF Settled
<1>8. Len(sent') <= MaxEvents
  BY <1>0
<1>9. \A e \in Events : Processed(e)' => org'.status # "trialing" /\ \A d \in 1..(e - 1) : Processed(d)'
  BY DEF Settled, Processed
<1> QED
  BY <1>4, <1>5, <1>6, <1>7, <1>8, <1>9 DEF Settled

\* Settled asks nothing of the ledger but which events are processed.
LEMMA SettledStays ==
    ASSUME BillingInv, Settled, UNCHANGED <<stripe, sent, org>>,
           \A e \in Events : Processed(e)' <=> Processed(e),
           venue' = venue \/ ~AllDone
    PROVE  Settled' /\ (UpdatePending => UpdatePending')
<1>1. UpdatePending <=> UpdatePending'
  BY Ledgered DEF UpdatePending
<1>2. AllDone' => AllDone /\ venue' = venue
  BY Ledgered DEF AllDone
<1>3. \A e \in Events : \A d \in 1..(e - 1) : d \in Events
  BY Ledgered
<1>4. \A e \in Events : Processed(e)' => org'.status # "trialing" /\ \A d \in 1..(e - 1) : Processed(d)'
  BY <1>3 DEF Settled
<1> QED
  BY <1>1, <1>2, <1>4 DEF Settled

\* What a writer in hand leaves undone.
LEMMA HandOpen ==
    ASSUME BillingInv, Settled, NEW w \in Writers, InHand(w)
    PROVE  /\ writer[w].kind = "event" =>
                /\ writer[w].event \in Events /\ writer[w].event \in DOMAIN sent
                /\ \A e \in Events : e >= writer[w].event => ~Processed(e)
                /\ ~AllDone
           /\ writer[w].kind = "expire" => ~AllDone
           /\ UpdatePending => ~AllDone
<1>1. ASSUME writer[w].kind = "event"
      PROVE  /\ writer[w].event \in Events /\ writer[w].event \in DOMAIN sent
             /\ \A e \in Events : e >= writer[w].event => ~Processed(e)
             /\ ~AllDone
  <2> PICK e : e = writer[w].event
    OBVIOUS
  <2>1. e \in Events /\ e \in DOMAIN sent /\ ~Processed(e)
    BY <1>1 DEF BillingInv, Attempt, InHand, EventInHand, Processed
  <2>2. ASSUME NEW d \in Events, d >= e, Processed(d) PROVE FALSE
    <3>1. d = e \/ e \in 1..(d - 1)
      BY <2>1, <2>2, Ledgered
    <3> QED
      BY <2>1, <2>2, <3>1 DEF Settled
  <2>3. ~AllDone
    BY <2>1, LastIsAll
  <2> QED
    BY <2>1, <2>2, <2>3
<1>2. writer[w].kind = "expire" => ~AllDone
  BY Ledgered DEF InHand, ExpiryInHand, AllDone
<1>3. UpdatePending => ~AllDone
  BY LastIsAll
<1> QED
  BY <1>1, <1>2, <1>3

\* The writer that a step moves is the only one in hand, and stays it.
LEMMA InHandAlone ==
    ASSUME BillingInv, CalmInv, calm, NEW w \in Writers, writer[w].at # "idle"
    PROVE  Alone(w) /\ Settled /\ InHand(w)
BY DEF CalmInv, OneAtATime, Alone

LEMMA CalmKeeps ==
    ASSUME BillingInv', NEW w \in Writers, \A v \in Writers \ {w} : writer'[v] = writer[v],
           SaysAll', calm' => Alone(w) /\ Settled' /\ InHand(w)'
    PROVE  CalmInv'
<1> SUFFICES ASSUME calm' PROVE (OneAtATime /\ Settled /\ \A v \in Writers : InHand(v))'
  BY DEF CalmInv
<1>1. \A v \in Writers \ {w} : writer'[v].at = "idle" /\ writer'[v].kind = "none"
  BY DEF Alone, BillingInv, Kind
<1>2. OneAtATime'
  BY <1>1 DEF OneAtATime
<1>3. \A v \in Writers : InHand(v)'
  BY <1>1 DEF InHand
<1> QED
  BY <1>2, <1>3

LEMMA SaysStays == SaysAll /\ UNCHANGED <<stripe, sent>> => SaysAll'
BY DEF SaysAll

\* A request that is over holds nothing.
LEMMA Over ==
    ASSUME BillingInv, NEW w \in Writers, writer' = [writer EXCEPT ![w] = Idle]
    PROVE  /\ writer'[w] = Idle /\ \A v \in Writers \ {w} : writer'[v] = writer[v]
           /\ InHand(w)'
<1>1. writer'[w] = Idle /\ \A v \in Writers \ {w} : writer'[v] = writer[v]
  BY Typed, IdleIsRequest, OneMoves
<1> QED
  BY <1>1 DEF Idle, InHand

\* A request that ends with nothing but its writer changed.
LEMMA EndsCalm ==
    ASSUME BillingInv, BillingInv', CalmInv, NEW w \in Writers, writer[w].at # "idle",
           writer' = [writer EXCEPT ![w] = Idle],
           UNCHANGED <<stripe, sent, org, calm>>,
           \A e \in Events : Processed(e)' <=> Processed(e),
           calm => venue' = venue \/ ~AllDone
    PROVE  CalmInv'
<1>1. SaysAll'
  BY SaysStays DEF CalmInv
<1>2. calm' => Alone(w) /\ Settled'
  BY InHandAlone, SettledStays
<1> QED
  BY <1>1, <1>2, Over, CalmKeeps

\* Nothing but the answers and the leases changed.
LEMMA IdleCalm ==
    ASSUME BillingInv, BillingInv', CalmInv,
           UNCHANGED <<stripe, sent, org, venue, writer, calm>>,
           \A e \in Events : ledger'[e].status = ledger[e].status
    PROVE  CalmInv'
<1>1. SaysAll'
  BY SaysStays DEF CalmInv
<1>2. ASSUME calm PROVE (OneAtATime /\ Settled /\ \A w \in Writers : InHand(w))'
  <2>1. OneAtATime /\ Settled /\ \A w \in Writers : InHand(w)
    BY <1>2 DEF CalmInv
  <2>2. \A e \in Events : Processed(e)' <=> Processed(e)
    BY DEF Processed
  <2>3. Settled' /\ (UpdatePending => UpdatePending')
    BY <2>1, <2>2, SettledStays
  <2>4. ASSUME NEW w \in Writers PROVE InHand(w)'
    <3>1. ASSUME writer[w].kind = "event" PROVE EventInHand(w)'
      <4>1. writer[w].event \in Events /\ \A d \in 1..(writer[w].event - 1) : d \in Events
        BY <2>1, <3>1, HandOpen, Ledgered
      <4> QED
        BY <2>1, <2>2, <3>1, <4>1 DEF InHand, EventInHand
    <3>2. writer[w].kind = "switch" => SwitchInHand(w)'
      BY <2>1, <2>3 DEF InHand, SwitchInHand
    <3>3. writer[w].kind = "expire" => ExpiryInHand(w)'
      BY <2>1, <2>2 DEF InHand, ExpiryInHand
    <3> QED
      BY <3>1, <3>2, <3>3 DEF InHand
  <2> QED
    BY <2>1, <2>3, <2>4 DEF OneAtATime
<1> QED
  BY <1>1, <1>2 DEF CalmInv

-----------------------------------------------------------------------------
(* Deliveries keep the organization in step.                               *)

LEMMA DeliverCalm ==
    ASSUME BillingInv, BillingInv', CalmInv, NEW w \in Writers, NEW e \in Events, Deliver(w, e)
    PROVE  CalmInv'
<1>1. CASE ~Claimable(e)
  BY <1>1, IdleCalm DEF Deliver
<1>2. CASE Claimable(e)
  <2> DEFINE q == [Idle EXCEPT !.at = "read", !.kind = "event", !.event = e]
  <2>1. /\ ledger' = [ledger EXCEPT ![e] = [status |-> "processing", stale |-> FALSE]]
        /\ writer' = [writer EXCEPT ![w] = q]
        /\ calm' = (calm /\ Alone(w) /\ \A d \in 1..(e - 1) : Processed(d))
        /\ UNCHANGED <<stripe, sent, org, venue>>
    BY <1>2 DEF Deliver
  <2>2. q \in Requests /\ q.at = "read" /\ q.kind = "event" /\ q.event = e
    BY IdleIsRequest, ClaimIsRequest
  <2> HIDE DEF q
  <2>3. writer'[w] = q /\ \A v \in Writers \ {w} : writer'[v] = writer[v]
    BY <2>1, <2>2, Typed, OneMoves
  <2>4. /\ ledger'[e].status = "processing"
        /\ \A d \in Events \ {e} : ledger'[d] = ledger[d]
    BY <2>1, Typed, LedgerTypes
  <2>5. ledger[e].status # "processed"
    BY <1>2, Typed DEF Claimable, TypeOK
  <2>6. \A d \in Events : Processed(d)' <=> Processed(d)
    BY <2>4, <2>5 DEF Processed
  <2>7. SaysAll'
    BY <2>1, SaysStays DEF CalmInv
  <2>8. ASSUME calm' PROVE Alone(w) /\ Settled' /\ InHand(w)'
    <3>1. calm /\ Alone(w) /\ Settled /\ \A d \in 1..(e - 1) : Processed(d)
      BY <2>1, <2>8 DEF CalmInv
    <3>2. Settled' /\ \A d \in 1..(e - 1) : d \in Events
      BY <2>1, <2>6, <3>1, SettledStays, Ledgered
    <3>3. EventInHand(w)'
      BY <2>2, <2>3, <2>4, <2>6, <3>1, <3>2 DEF EventInHand
    <3> QED
      BY <2>2, <2>3, <3>1, <3>2, <3>3 DEF InHand
  <2> QED
    BY <2>3, <2>7, <2>8, CalmKeeps
<1> QED
  BY <1>1, <1>2

\* A writer that moves on within its request, and writes nothing yet.
LEMMA GoesOnCalm ==
    ASSUME BillingInv, BillingInv', CalmInv, NEW w \in Writers, NEW q \in Requests,
           writer[w].at # "idle", writer' = [writer EXCEPT ![w] = q],
           UNCHANGED <<stripe, sent, ledger, org, calm>>,
           calm => venue' = venue \/ ~AllDone,
           calm /\ Settled /\ InHand(w) => InHand(w)'
    PROVE  CalmInv'
<1>1. writer'[w] = q /\ \A v \in Writers \ {w} : writer'[v] = writer[v]
  BY Typed, OneMoves
<1>2. SaysAll'
  BY SaysStays DEF CalmInv
<1>3. \A e \in Events : Processed(e)' <=> Processed(e)
  BY DEF Processed
<1>4. calm' => Alone(w) /\ Settled' /\ InHand(w)'
  BY <1>3, InHandAlone, SettledStays
<1> QED
  BY <1>1, <1>2, <1>4, CalmKeeps

\* An attempt that fails holds its event, and no more.
LEMMA FailsCalm ==
    ASSUME BillingInv, BillingInv', CalmInv, NEW w \in Writers, writer[w].kind = "event",
           Goto(w, "failed"), UNCHANGED <<stripe, sent, ledger, org, venue, calm>>
    PROVE  CalmInv'
<1> DEFINE q == [writer[w] EXCEPT !.at = "failed"]
<1>1. q \in Requests /\ writer' = [writer EXCEPT ![w] = q] /\ writer[w].at # "idle"
  BY Typed, GotoMoves DEF Ats, BillingInv, Kind
<1>2. q.at = "failed" /\ q.kind = "event" /\ q.event = writer[w].event
  BY Typed, Fields DEF Requests
<1> HIDE DEF q
<1>3. writer'[w] = q
  BY <1>1, Typed, OneMoves
<1>4. ASSUME Settled, InHand(w) PROVE InHand(w)'
  <2>1. EventInHand(w)'
    BY <1>2, <1>3, <1>4 DEF InHand, EventInHand, Processed
  <2> QED
    BY <1>2, <1>3, <2>1 DEF InHand
<1> QED
  BY <1>1, <1>4, GoesOnCalm

LEMMA ReadCalm ==
    ASSUME BillingInv, BillingInv', CalmInv, NEW w \in Writers, Read(w)
    PROVE  CalmInv'
<1>1. Kind(w) /\ Attempt(w)
  BY DEF BillingInv
<1>2. /\ writer[w].at = "read" /\ writer[w].kind = "event" /\ writer[w].event \in DOMAIN sent
      /\ UNCHANGED <<stripe, sent, ledger, org, venue, calm>>
  BY <1>1 DEF Read, Kind, Attempt
<1>3. CASE Goto(w, "failed")
  BY <1>2, <1>3, FailsCalm
<1>4. CASE ~Goto(w, "failed")
  <2> DEFINE row == Effect(sent[writer[w].event], org)
             q == [writer[w] EXCEPT !.at = "save", !.row = row]
  <2>1. row \in Rows
    BY <1>2, Typed, EffectIsRow
  <2>2. writer' = [writer EXCEPT ![w] = q]
    BY <1>4 DEF Read
  <2> HIDE DEF row
  <2>3. q \in Requests /\ q.at = "save" /\ q.kind = "event" /\ q.event = writer[w].event /\ q.row = row
    BY <1>2, <2>1, Typed, Fields DEF Requests
  <2> HIDE DEF q
  <2>4. writer'[w] = q
    BY <2>2, <2>3, Typed, OneMoves
  <2>5. ASSUME Settled, InHand(w) PROVE InHand(w)'
    <3>1. q.row = Effect(sent[writer[w].event], org)
      BY <2>3 DEF row
    <3>2. writer'[w].row = Effect(sent'[writer'[w].event], org')
      BY <1>2, <2>3, <2>4, <3>1 DEF Effect
    <3>3. EventInHand(w)'
      BY <1>2, <2>3, <2>4, <2>5, <3>2 DEF InHand, EventInHand, Processed
    <3> QED
      BY <2>3, <2>4, <3>3 DEF InHand
  <2> QED
    BY <1>2, <2>2, <2>3, <2>5, GoesOnCalm
<1> QED
  BY <1>3, <1>4

\* SaveAsync writes the row of the event in hand: its status, and for an update its tier.
LEMMA SaveEventSettles ==
    ASSUME BillingInv, SaysAll, Settled, NEW w \in Writers, InHand(w), Save(w), writer[w].kind = "event"
    PROVE  Settled' /\ EventInHand(w)'
<1> PICK e : e = writer[w].event
  OBVIOUS
<1>1. /\ e \in Events /\ e \in DOMAIN sent /\ ~Processed(e) /\ ~AllDone /\ sent[e] \in Notices
      /\ \A d \in 1..(e - 1) : Processed(d)
  <2>1. e \in Events /\ e \in DOMAIN sent /\ ~AllDone /\ \A d \in 1..(e - 1) : Processed(d)
    BY HandOpen DEF InHand, EventInHand
  <2>2. ~Processed(e)
    BY HandOpen DEF InHand, EventInHand, Processed
  <2> QED
    BY <2>1, <2>2, Typed
<1>2. /\ writer[w].at = "save" /\ writer[w].row = Effect(sent[e], org)
      /\ org' = Effect(sent[e], org)
      /\ UNCHANGED <<stripe, sent, ledger, venue>>
  BY DEF Save, BillingInv, Kind, InHand, EventInHand
<1>3. /\ org'.status = Told(sent[e])
      /\ sent[e].kind = "updated" => org'.tier = sent[e].tier /\ org'.linked
      /\ sent[e].kind # "updated" => org'.tier = org.tier /\ org'.linked = org.linked
  BY <1>1, <1>2, Typed, EffectTells
<1>4. Settled'
  <2>1. (UpdatePending <=> UpdatePending') /\ (AllDone <=> AllDone')
    BY <1>2 DEF UpdatePending, AllDone, Processed
  <2>2. org'.status # "trialing"
    BY <1>1, <1>3 DEF SaysAll
  <2>3. \A d \in Events : Processed(d)' => org'.status # "trialing" /\ \A c \in 1..(d - 1) : Processed(c)'
    BY <1>2, <2>2 DEF Settled, Processed
  <2>4. ~UpdatePending => sent[e].kind # "updated"
    BY <1>1 DEF UpdatePending
  <2>5. stripe'.linked /\ ~UpdatePending' => org'.tier = stripe'.tier /\ org'.linked
    BY <1>2, <1>3, <2>1, <2>4 DEF Settled
  <2> QED
    BY <1>1, <1>2, <2>1, <2>3, <2>5 DEF Settled
<1>5. EventInHand(w)'
  <2> DEFINE q == [writer[w] EXCEPT !.at = "sync", !.left = VenueOrder]
  <2>1. writer' = [writer EXCEPT ![w] = q]
    BY <1>2, Typed DEF Save, TypeOK
  <2>2. /\ q \in Requests /\ q.at = "sync" /\ q.event = e /\ q.row = writer[w].row
        /\ q.left = VenueOrder
    BY Typed, Fields, BillingSizes DEF Requests
  <2> HIDE DEF q
  <2>3. writer'[w] = q
    BY <2>1, <2>2, Typed, OneMoves
  <2>4. \A v \in Venues : \E n \in DOMAIN VenueOrder : VenueOrder[n] = v
    BY DEF Venues
  <2>5. ledger'[e].status = "processing"
    BY <1>2 DEF InHand, EventInHand
  <2> QED
    BY <1>1, <1>2, <1>3, <2>2, <2>3, <2>4, <2>5 DEF EventInHand, Processed, Told
<1> QED
  BY <1>4, <1>5

\* What Save and its successors make of a request.
LEMMA SaveMoves ==
    ASSUME BillingInv, NEW w \in Writers, Save(w)
    PROVE  /\ \A v \in Writers \ {w} : writer'[v] = writer[v]
           /\ writer'[w].kind = writer[w].kind /\ writer'[w].row = writer[w].row
           /\ writer'[w].at \in {"sync", "unsync"} /\ org' = writer[w].row
           /\ UNCHANGED <<stripe, sent, ledger, venue, calm>>
<1> DEFINE at == IF writer[w].at = "save" THEN "sync" ELSE "unsync"
           q  == [writer[w] EXCEPT !.at = at, !.left = VenueOrder]
<1>1. writer' = [writer EXCEPT ![w] = q]
  BY Typed DEF Save, TypeOK
<1>2. at \in {"sync", "unsync"}
  OBVIOUS
<1> HIDE DEF at
<1>3. q \in Requests /\ q.at = at /\ q.kind = writer[w].kind /\ q.row = writer[w].row
  BY <1>2, Typed, Fields, BillingSizes DEF Requests
<1> HIDE DEF q
<1>4. writer'[w] = q /\ \A v \in Writers \ {w} : writer'[v] = writer[v]
  BY <1>1, <1>3, Typed, OneMoves
<1> QED
  BY <1>2, <1>3, <1>4 DEF Save

LEMMA SaveCalm ==
    ASSUME BillingInv, BillingInv', CalmInv, NEW w \in Writers, Save(w)
    PROVE  CalmInv'
<1>1. SaysAll'
  BY SaveMoves, SaysStays DEF CalmInv
<1>2. ASSUME calm PROVE Alone(w) /\ Settled' /\ InHand(w)'
  <2>0. Alone(w) /\ Settled /\ InHand(w) /\ SaysAll
    BY <1>2, InHandAlone DEF Save, CalmInv
  <2>1. CASE writer[w].kind = "event"
    BY <2>0, <2>1, SaveEventSettles, SaveMoves DEF InHand
  <2>2. (UpdatePending <=> UpdatePending') /\ (AllDone <=> AllDone')
    BY SaveMoves DEF UpdatePending, AllDone, Processed
  <2>3. CASE writer[w].kind = "switch"
    <3>1. UpdatePending /\ ~AllDone /\ org'.status = org.status /\ org' = writer'[w].row
          /\ Len(sent) + 1 <= MaxEvents
      BY <2>0, <2>3, HandOpen, SaveMoves DEF Save, InHand, SwitchInHand
    <3>2. \A e \in Events : Processed(e)' => org'.status # "trialing" /\ \A d \in 1..(e - 1) : Processed(d)'
      BY <2>0, <3>1, SaveMoves DEF Settled, Processed
    <3>3. Settled'
      BY <2>0, <2>2, <3>1, <3>2, SaveMoves DEF Settled
    <3>4. SwitchInHand(w)'
      BY <2>2, <3>1, SaveMoves DEF SwitchInHand
    <3> QED
      BY <2>0, <2>3, <3>3, <3>4, SaveMoves DEF InHand
  <2>4. CASE writer[w].kind = "expire"
    <3>1. ~AllDone /\ (\A e \in Events : ~Processed(e)') /\ org' = writer'[w].row
          /\ org'.tier = org.tier /\ org'.linked = org.linked
      BY <2>0, <2>4, HandOpen, SaveMoves DEF InHand, ExpiryInHand, Processed
    <3>2. Settled'
      BY <2>0, <2>2, <3>1, SaveMoves DEF Settled
    <3>3. ExpiryInHand(w)'
      BY <3>1, SaveMoves DEF ExpiryInHand
    <3> QED
      BY <2>0, <2>4, <3>2, <3>3, SaveMoves DEF InHand
  <2>5. writer[w].kind \in {"event", "switch", "expire"}
    BY Typed, Fields DEF Save, BillingInv, Kind, Requests
  <2> QED
    BY <2>1, <2>3, <2>4, <2>5
<1> QED
  BY <1>1, <1>2, SaveMoves, CalmKeeps

\* SyncAsync: a venue that is not projected yet is still in the list.
LEMMA ProjectCalm ==
    ASSUME BillingInv, BillingInv', CalmInv, NEW w \in Writers, Project(w)
    PROVE  CalmInv'
<1> DEFINE q == [writer[w] EXCEPT !.left = Tail(@)]
<1>1. /\ writer[w].at \in {"sync", "unsync"}
      /\ UNCHANGED <<stripe, sent, ledger, org, calm>>
  BY DEF Project
<1>2. writer' = [writer EXCEPT ![w] = q]
  BY Typed DEF Project, TypeOK
<1> PICK left \in Seq(Venues) : left = writer[w].left /\ left # << >>
  BY Typed, Fields DEF Project
<1>3. Tail(left) \in Seq(Venues) /\ Head(left) \in Venues
  OBVIOUS
<1>4. /\ q \in Requests /\ q.at = writer[w].at /\ q.kind = writer[w].kind /\ q.event = writer[w].event
      /\ q.row = writer[w].row /\ q.left = Tail(left)
  BY <1>3, Typed, Fields DEF Requests
<1> HIDE DEF q
<1>5. writer'[w] = q
  BY <1>2, <1>4, Typed, OneMoves
<1>6. ASSUME Settled, InHand(w) PROVE ~AllDone /\ InHand(w)'
  <2>1. CASE writer[w].kind = "event"
    <3>1. ~AllDone /\ EventInHand(w) /\ writer[w].at = "sync"
      BY <1>1, <1>6, <2>1, HandOpen DEF InHand, BillingInv, Kind
    <3>2. \A v \in Venues : venue'[v] = org' \/ \E n \in DOMAIN Tail(left) : Tail(left)[n] = v
      <4> TAKE v \in Venues
      <4>1. venue' = [venue EXCEPT ![Head(left)] = org] /\ venue \in [Venues -> Rows] /\ org' = org
        BY <1>1, <3>1, Typed DEF Project, EventInHand
      <4>2. CASE v = Head(left) \/ venue[v] = org
        BY <1>3, <4>1, <4>2
      <4>3. CASE v # Head(left) /\ venue[v] # org
        <5>1. PICK n \in DOMAIN left : left[n] = v
          BY <3>1, <4>3 DEF EventInHand
        <5>2. n # 1
          BY <4>3, <5>1
        <5>3. n - 1 \in 1..(Len(left) - 1) /\ (n - 1) + 1 = n
          BY <5>1, <5>2
        <5>4. n - 1 \in DOMAIN Tail(left) /\ Tail(left)[n - 1] = left[n]
          BY <5>3, HeadTailProperties
        <5> QED
          BY <5>1, <5>4
      <4> QED
        BY <4>2, <4>3
    <3>3. \A v \in Venues : venue'[v] = org' \/ \E n \in DOMAIN writer'[w].left : writer'[w].left[n] = v
      BY <1>4, <1>5, <3>2
    <3>4. EventInHand(w)'
      BY <1>1, <1>4, <1>5, <3>1, <3>3 DEF EventInHand, Processed, Told
    <3> QED
      BY <1>4, <1>5, <2>1, <3>1, <3>4 DEF InHand
  <2>2. CASE writer[w].kind = "switch"
    <3>1. SwitchInHand(w) /\ UpdatePending /\ ~AllDone
      BY <1>1, <1>6, <2>2, HandOpen DEF InHand, SwitchInHand
    <3>2. UpdatePending'
      BY <1>1, <3>1 DEF UpdatePending, Processed
    <3>3. SwitchInHand(w)'
      BY <1>1, <1>4, <1>5, <3>1, <3>2 DEF SwitchInHand
    <3> QED
      BY <1>4, <1>5, <2>2, <3>1, <3>3 DEF InHand
  <2>3. CASE writer[w].kind = "expire"
    <3>1. ~AllDone /\ ExpiryInHand(w)
      BY <1>6, <2>3, HandOpen DEF InHand
    <3>2. ExpiryInHand(w)'
      BY <1>1, <1>4, <1>5, <3>1 DEF ExpiryInHand, Processed
    <3> QED
      BY <1>4, <1>5, <2>3, <3>1, <3>2 DEF InHand
  <2>4. writer[w].kind \in {"event", "switch", "expire"}
    BY <1>1, Typed, Fields DEF BillingInv, Kind, Requests
  <2> QED
    BY <2>1, <2>2, <2>3, <2>4
<1>7. writer[w].at # "idle" /\ (calm => ~AllDone)
  BY <1>1, <1>6, InHandAlone
<1> QED
  BY <1>1, <1>2, <1>4, <1>6, <1>7, GoesOnCalm

\* MarkProcessedAsync: the last notice that is now processed is the one the row and every
\* venue carry.
LEMMA MarkProcessedSettles ==
    ASSUME BillingInv, SaysAll, Settled, NEW w \in Writers, InHand(w), NEW e \in Events,
           e = writer[w].event, writer[w].kind = "event", writer[w].at = "sync", writer[w].left = << >>,
           UNCHANGED <<stripe, sent, org, venue>>,
           \A d \in Events : Processed(d)' <=> Processed(d) \/ d = e
    PROVE  Settled'
<1>1. /\ e \in DOMAIN sent /\ \A d \in 1..(e - 1) : Processed(d) /\ d \in Events
      /\ \A d \in Events : d >= e => ~Processed(d)
  BY HandOpen, Ledgered DEF InHand, EventInHand
<1>2. /\ writer[w].row = org /\ org.status = Told(sent[e]) /\ Told(sent[e]) # "trialing"
      /\ sent[e].kind = "updated" => org.tier = sent[e].tier /\ org.linked
      /\ \A v \in Venues : venue[v] = org
  BY <1>1 DEF InHand, EventInHand, SaysAll
<1>3. ASSUME NEW d \in Events, Processed(d)'
      PROVE  org'.status # "trialing" /\ \A c \in 1..(d - 1) : Processed(c)'
  <2>1. CASE d = e
    BY <1>1, <1>2, <2>1
  <2>2. CASE d # e
    <3>1. \A c \in 1..(d - 1) : c \in Events /\ Processed(c)
      BY <1>3, <2>2, Ledgered DEF Settled
    <3> QED
      BY <1>2, <3>1
  <2> QED
    BY <2>1, <2>2
<1>4. ASSUME stripe.linked, ~UpdatePending' PROVE org.tier = stripe.tier /\ org.linked
  <2>1. \A i \in DOMAIN sent : sent[i].kind = "updated" => Processed(i) \/ i = e
    BY <1>4, Ledgered DEF UpdatePending
  <2>2. CASE sent[e].kind = "updated"
    <3>1. \A j \in DOMAIN sent : j > e => sent[j].kind # "updated"
      BY <1>1, <2>1, Ledgered
    <3> QED
      BY <1>1, <1>2, <2>2, <3>1 DEF SaysAll
  <2>3. CASE sent[e].kind # "updated"
    BY <1>4, <2>1, <2>3 DEF UpdatePending, Settled
  <2> QED
    BY <2>2, <2>3
<1>5. ASSUME AllDone' PROVE org.status = stripe.status
  <2>1. Len(sent) \in Events /\ Len(sent) \in DOMAIN sent /\ (Processed(Len(sent)) \/ Len(sent) = e)
    BY <1>5, Ledgered DEF AllDone
  <2>2. Len(sent) = e
    BY <1>1, <2>1, Ledgered
  <2> QED
    BY <1>1, <1>2, <2>2 DEF SaysAll
<1> QED
  BY <1>2, <1>3, <1>4, <1>5 DEF Settled

LEMMA MarkProcessedCalm ==
    ASSUME BillingInv, BillingInv', CalmInv, NEW w \in Writers, MarkProcessed(w)
    PROVE  CalmInv'
<1> PICK e : e = writer[w].event
  OBVIOUS
<1>1. /\ writer[w].kind = "event" /\ writer[w].at = "sync" /\ writer[w].left = << >>
      /\ e \in Events /\ UNCHANGED <<stripe, sent, org, venue, calm>>
  BY DEF MarkProcessed, BillingInv, Attempt
<1>2. CASE ledger[e].status # "processing"
  <2>1. Goto(w, "failed") /\ UNCHANGED ledger
    BY <1>2 DEF MarkProcessed
  <2> QED
    BY <1>1, <2>1, FailsCalm
<1>3. CASE ledger[e].status = "processing"
  <2>1. /\ ledger' = [ledger EXCEPT ![e] = [status |-> "processed", stale |-> FALSE]]
        /\ writer' = [writer EXCEPT ![w] = Idle]
    BY <1>3 DEF MarkProcessed
  <2>2. ledger'[e].status = "processed" /\ \A d \in Events \ {e} : ledger'[d] = ledger[d]
    BY <1>1, <2>1, Typed, LedgerTypes
  <2>3. \A d \in Events : Processed(d)' <=> Processed(d) \/ d = e
    BY <2>2 DEF Processed
  <2>4. SaysAll'
    BY <1>1, SaysStays DEF CalmInv
  <2>5. calm' => Alone(w) /\ Settled'
    BY <1>1, <2>3, InHandAlone, MarkProcessedSettles DEF CalmInv
  <2> QED
    BY <2>1, <2>4, <2>5, Over, CalmKeeps
<1> QED
  BY <1>2, <1>3

LEMMA MarkFailedCalm ==
    ASSUME BillingInv, BillingInv', CalmInv, NEW w \in Writers, MarkFailed(w)
    PROVE  CalmInv'
<1> PICK e : e = writer[w].event
  OBVIOUS
<1>1. /\ writer[w].at = "failed" /\ e \in Events /\ writer' = [writer EXCEPT ![w] = Idle]
      /\ UNCHANGED <<stripe, sent, org, venue, calm>>
  BY DEF MarkFailed, BillingInv, Kind, Attempt
<1>2. \A d \in Events : Processed(d)' <=> Processed(d)
  <2>1. CASE ledger[e].status # "processing"
    BY <2>1 DEF MarkFailed, Processed
  <2>2. CASE ledger[e].status = "processing"
    <3>1. ledger' = [ledger EXCEPT ![e] = [status |-> "failed", stale |-> FALSE]]
      BY <2>2 DEF MarkFailed
    <3>2. ledger'[e].status = "failed" /\ \A d \in Events \ {e} : ledger'[d] = ledger[d]
      BY <1>1, <3>1, Typed, LedgerTypes
    <3> QED
      BY <2>2, <3>2 DEF Processed
  <2> QED
    BY <2>1, <2>2
<1> QED
  BY <1>1, <1>2, EndsCalm

-----------------------------------------------------------------------------
(* Stripe, the local operations and failures keep it in step.              *)

\* A change of the price is a notice that says the status as it is.
LEMMA PriceTells ==
    ASSUME BillingInv, NEW t \in Tiers \cup {None}, NEW ev, ev = Event("updated", t, stripe.status)
    PROVE  ev \in Notices /\ ev.kind = "updated" /\ Told(ev) = stripe.status
BY PriceIsNotice DEF Event, Told

LEMMA ChangeAtStripeCalm ==
    ASSUME BillingInv, BillingInv', CalmInv, NEW w \in Writers, ChangeAtStripe(w)
    PROVE  CalmInv'
<1>1. /\ writer[w].at = "change" /\ writer[w].kind = "switch"
      /\ UNCHANGED <<ledger, org, venue, calm>>
  BY DEF ChangeAtStripe, BillingInv, Kind
<1>2. CASE stripe.status = "canceled"
  <2>1. writer' = [writer EXCEPT ![w] = Idle] /\ UNCHANGED <<stripe, sent>>
    BY <1>2 DEF ChangeAtStripe
  <2> QED
    BY <1>1, <2>1, EndsCalm DEF Processed
<1>3. CASE stripe.status # "canceled"
  <2> DEFINE q == [writer[w] EXCEPT !.at = "save"]
  <2> PICK ev : ev = Event("updated", writer[w].row.tier, stripe.status)
    OBVIOUS
  <2>1. Send(ev) /\ Goto(w, "save")
    BY <1>3 DEF ChangeAtStripe
  <2>2. ev \in Notices /\ ev.kind = "updated" /\ Told(ev) # "trialing"
    BY Typed, Fields, PriceTells DEF CalmInv, SaysAll
  <2>3. q \in Requests /\ writer' = [writer EXCEPT ![w] = q]
    BY <2>1, Typed, GotoMoves DEF Ats
  <2>4. q.at = "save" /\ q.kind = "switch" /\ q.row = writer[w].row
    BY <1>1, Typed, Fields DEF Requests
  <2> HIDE DEF q
  <2>5. writer'[w] = q /\ \A v \in Writers \ {w} : writer'[v] = writer[v]
    BY <2>3, Typed, OneMoves
  <2>6. SaysAll'
    BY <2>1, <2>2, SendSays DEF CalmInv
  <2>7. ASSUME calm PROVE Alone(w) /\ Settled' /\ InHand(w)'
    <3>1. Alone(w) /\ Settled /\ SwitchInHand(w)
      BY <1>1, <2>7, InHandAlone DEF InHand
    <3>2. Len(sent) \in Nat /\ MaxEvents \in Nat /\ Len(sent) + 2 <= MaxEvents /\ Len(sent') = Len(sent) + 1
      BY <1>1, <2>1, <2>2, <3>1, Ledgered, SentLast DEF SwitchInHand
    <3>3. Len(sent) + 1 <= MaxEvents /\ Len(sent') + 1 <= MaxEvents
      BY <3>2
    <3>4. Settled' /\ UpdatePending'
      BY <1>1, <2>1, <2>2, <3>1, <3>3, SendSettles DEF CalmInv
    <3>5. SwitchInHand(w)'
      BY <1>1, <2>4, <2>5, <3>1, <3>3, <3>4 DEF SwitchInHand
    <3> QED
      BY <2>4, <2>5, <3>1, <3>4, <3>5 DEF InHand
  <2> QED
    BY <1>1, <2>5, <2>6, <2>7, CalmKeeps
<1> QED
  BY <1>2, <1>3

LEMMA RestoreCalm ==
    ASSUME BillingInv, BillingInv', CalmInv, NEW w \in Writers, Restore(w)
    PROVE  CalmInv'
<1>1. /\ writer[w].at = "unsync" /\ writer[w].kind = "switch"
      /\ writer' = [writer EXCEPT ![w] = Idle]
      /\ UNCHANGED <<ledger, org, venue, calm>>
  BY DEF Restore, BillingInv, Kind
<1>2. CASE stripe.status = "canceled"
  BY <1>1, <1>2, EndsCalm DEF Restore, Processed
<1>3. CASE stripe.status # "canceled"
  <2> PICK ev : ev = Event("updated", writer[w].old, stripe.status)
    OBVIOUS
  <2>1. Send(ev)
    BY <1>3 DEF Restore
  <2>2. ev \in Notices /\ ev.kind = "updated" /\ Told(ev) # "trialing"
    BY Typed, Fields, PriceTells DEF CalmInv, SaysAll
  <2>3. SaysAll'
    BY <2>1, <2>2, SendSays DEF CalmInv
  <2>4. ASSUME calm PROVE Alone(w) /\ Settled'
    <3>1. Alone(w) /\ Settled /\ SwitchInHand(w)
      BY <1>1, <2>4, InHandAlone DEF InHand
    <3> QED
      BY <1>1, <2>1, <2>2, <3>1, SendSettles DEF CalmInv, SwitchInHand
  <2> QED
    BY <1>1, <2>3, <2>4, Over, CalmKeeps
<1> QED
  BY <1>2, <1>3

\* The venue that is projected once more gets the row it has.
LEMMA ReturnCalm ==
    ASSUME BillingInv, BillingInv', CalmInv, NEW w \in Writers, Return(w)
    PROVE  CalmInv'
<1>1. UNCHANGED <<stripe, sent, ledger, org, calm>> /\ \A e \in Events : Processed(e)' <=> Processed(e)
  BY DEF Return, Processed
<1>2. CASE writer[w].kind = "switch" /\ writer[w].at = "sync" /\ Goto(w, "last") /\ UNCHANGED venue
  <2> DEFINE q == [writer[w] EXCEPT !.at = "last"]
  <2>1. q \in Requests /\ writer' = [writer EXCEPT ![w] = q]
    BY <1>2, Typed, GotoMoves DEF Ats
  <2>2. q.at = "last" /\ q.kind = "switch" /\ q.row = writer[w].row
    BY <1>2, Typed, Fields DEF Requests
  <2> HIDE DEF q
  <2>3. writer'[w] = q
    BY <2>1, Typed, OneMoves
  <2>4. ASSUME Settled, InHand(w) PROVE InHand(w)'
    <3>1. SwitchInHand(w) /\ UpdatePending'
      BY <1>1, <1>2, <2>4, SettledStays DEF InHand, SwitchInHand
    <3> QED
      BY <1>1, <2>2, <2>3, <3>1 DEF InHand, SwitchInHand
  <2> QED
    BY <1>1, <1>2, <2>1, <2>4, GoesOnCalm
<1>3. CASE /\ writer[w].at = "last" /\ writer' = [writer EXCEPT ![w] = Idle]
           /\ \E v \in Venues : venue' = [venue EXCEPT ![v] = writer[w].row]
  <2>1. ASSUME calm, AllDone PROVE venue' = venue
    <3>1. Settled /\ InHand(w) /\ writer[w].kind = "switch"
      BY <1>3, <2>1, InHandAlone DEF BillingInv, Kind
    <3>2. writer[w].row = org /\ \A v \in Venues : venue[v] = org
      BY <1>3, <2>1, <3>1, HandOpen DEF InHand, SwitchInHand, Settled
    <3> QED
      BY <1>3, <3>2, Typed
  <2> QED
    BY <1>1, <1>3, <2>1, EndsCalm
<1>4. CASE writer[w].kind = "expire" /\ writer[w].at = "sync" /\ writer' = [writer EXCEPT ![w] = Idle] /\ UNCHANGED venue
  BY <1>1, <1>4, EndsCalm
<1> QED
  BY <1>2, <1>3, <1>4 DEF Return

\* A trial that ends was never paid for: no event of Stripe's is processed.
LEMMA ExpireCalm ==
    ASSUME BillingInv, BillingInv', CalmInv, NEW w \in Writers, ExpireTrial(w)
    PROVE  CalmInv'
<1> DEFINE row == [org EXCEPT !.status = "canceled"]
           q   == [Idle EXCEPT !.at = "save", !.kind = "expire", !.row = row]
<1>1. row \in Rows /\ row.tier = org.tier /\ row.linked = org.linked
  BY Typed DEF Rows, Statuses
<1>2. /\ writer' = [writer EXCEPT ![w] = q] /\ calm' = (calm /\ Alone(w))
      /\ UNCHANGED <<stripe, sent, ledger, org, venue>> /\ org.status = "trialing"
  BY DEF ExpireTrial
<1> HIDE DEF row
<1>3. q \in Requests /\ q.at = "save" /\ q.kind = "expire" /\ q.row = row
  BY <1>1, IdleIsRequest DEF Requests
<1> HIDE DEF q
<1>4. writer'[w] = q /\ \A v \in Writers \ {w} : writer'[v] = writer[v]
  BY <1>2, <1>3, Typed, OneMoves
<1>5. SaysAll'
  BY <1>2, SaysStays DEF CalmInv
<1>6. ASSUME calm' PROVE Alone(w) /\ Settled' /\ InHand(w)'
  <2>1. Alone(w) /\ Settled
    BY <1>2, <1>6 DEF CalmInv
  <2>2. \A e \in Events : ~Processed(e) /\ ~Processed(e)'
    BY <1>2, <2>1 DEF Settled, Processed
  <2>3. Settled'
    BY <1>2, <2>1, <2>2, SettledStays
  <2>4. ExpiryInHand(w)'
    BY <1>1, <1>2, <1>3, <1>4, <2>2 DEF ExpiryInHand
  <2> QED
    BY <1>3, <1>4, <2>1, <2>3, <2>4 DEF InHand
<1> QED
  BY <1>4, <1>5, <1>6, CalmKeeps

\* The writers that hold a switch, when at most one writer is in hand.
Switches == {w \in Writers : writer[w].kind = "switch"}

LEMMA SwitchesInHand ==
    ASSUME BillingInv, OneAtATime
    PROVE  /\ Room = MaxEvents - Len(sent) - 2 * Cardinality(Switches)
           /\ \/ Switches = {} /\ Cardinality(Switches) = 0
              \/ Switches # {} /\ Cardinality(Switches) = 1
<1>1. Room = MaxEvents - Len(sent) - 2 * Cardinality(Switches)
  BY DEF Room, Switches
<1>2. CASE Switches = {}
  BY <1>1, <1>2, FS_EmptySet
<1>3. CASE Switches # {}
  <2> PICK w \in Switches : TRUE
    BY <1>3
  <2>1. \A v \in Switches : v = w
    BY DEF OneAtATime, BillingInv, Kind, Switches
  <2>2. Switches = {w}
    BY <2>1
  <2>3. Cardinality({w}) = 1
    BY FS_Singleton
  <2> QED
    BY <1>1, <1>3, <2>2, <2>3
<1> QED
  BY <1>2, <1>3

LEMMA SwitchCalm ==
    ASSUME BillingInv, BillingInv', CalmInv, NEW w \in Writers, NEW t \in Tiers, ReadForSwitch(w, t)
    PROVE  CalmInv'
<1> DEFINE row == [org EXCEPT !.tier = t]
           at  == IF org.tier = t THEN "last" ELSE "change"
           q   == [Idle EXCEPT !.at = at, !.kind = "switch", !.row = row, !.old = org.tier]
<1>1. /\ row \in Rows /\ row.status = org.status /\ row.linked = org.linked
      /\ org.tier \in Tiers \cup {None} /\ at \in {"last", "change"}
      /\ at = "last" => row = org
  BY Typed DEF Rows
<1>2. /\ writer' = [writer EXCEPT ![w] = q] /\ calm' = (calm /\ Alone(w))
      /\ UNCHANGED <<stripe, sent, ledger, org, venue>> /\ Room > 1 /\ writer[w].at = "idle"
  BY DEF ReadForSwitch
<1> HIDE DEF row, at
<1>3. q \in Requests /\ q.at = at /\ q.kind = "switch" /\ q.row = row
  BY <1>1, IdleIsRequest DEF Requests
<1> HIDE DEF q
<1>4. writer'[w] = q /\ \A v \in Writers \ {w} : writer'[v] = writer[v]
  BY <1>2, <1>3, Typed, OneMoves
<1>5. SaysAll'
  BY <1>2, SaysStays DEF CalmInv
<1>6. ASSUME calm' PROVE Alone(w) /\ Settled' /\ InHand(w)'
  <2>1. Alone(w) /\ Settled /\ OneAtATime
    BY <1>2, <1>6 DEF CalmInv
  <2>2. Switches = {}
    BY <1>2, <2>1 DEF Alone, BillingInv, Kind, Switches
  <2>3. Len(sent) + 2 <= MaxEvents
    BY <1>2, <2>1, <2>2, SwitchesInHand, Ledgered
  <2>4. Settled'
    BY <1>2, <2>1, SettledStays DEF Processed
  <2>5. SwitchInHand(w)'
    BY <1>1, <1>2, <1>3, <1>4, <2>3 DEF SwitchInHand
  <2> QED
    BY <1>3, <1>4, <2>1, <2>4, <2>5 DEF InHand
<1> QED
  BY <1>4, <1>5, <1>6, CalmKeeps

LEMMA ThrowCalm ==
    ASSUME BillingInv, BillingInv', CalmInv, NEW w \in Writers, Throw(w)
    PROVE  CalmInv'
<1>1. /\ UNCHANGED <<stripe, sent, ledger, org, venue, calm>> /\ writer[w].at # "idle"
      /\ \A e \in Events : Processed(e)' <=> Processed(e)
  BY DEF Throw, Processed
<1>2. CASE writer[w].kind = "event"
  BY <1>1, <1>2, FailsCalm DEF Throw
<1>3. CASE writer[w].kind = "switch" /\ writer[w].at \in {"save", "sync"}
  <2> DEFINE row == [writer[w].row EXCEPT !.tier = writer[w].old]
             q   == [writer[w] EXCEPT !.at = "undo", !.row = row]
  <2>1. row \in Rows /\ row.status = writer[w].row.status /\ row.linked = writer[w].row.linked
    BY Typed, Fields DEF Rows
  <2>2. writer' = [writer EXCEPT ![w].at = "undo", ![w].row.tier = writer[w].old]
    BY <1>3 DEF Throw
  <2>3. writer' = [writer EXCEPT ![w] = q]
    BY <2>2, Typed DEF TypeOK
  <2> HIDE DEF row
  <2>4. q \in Requests /\ q.at = "undo" /\ q.kind = "switch" /\ q.row = row
    BY <1>3, <2>1, Typed, Fields DEF Requests
  <2> HIDE DEF q
  <2>5. writer'[w] = q
    BY <2>3, <2>4, Typed, OneMoves
  <2>6. ASSUME Settled, InHand(w) PROVE InHand(w)'
    <3>1. SwitchInHand(w) /\ UpdatePending'
      BY <1>1, <1>3, <2>6, SettledStays DEF InHand, SwitchInHand
    <3> QED
      BY <1>1, <1>3, <2>1, <2>4, <2>5, <3>1 DEF InHand, SwitchInHand
  <2> QED
    BY <1>1, <2>3, <2>4, <2>6, GoesOnCalm
<1>4. CASE writer[w].kind # "event" /\ ~(writer[w].kind = "switch" /\ writer[w].at \in {"save", "sync"})
  <2>1. writer' = [writer EXCEPT ![w] = Idle]
    BY <1>4 DEF Throw
  <2> QED
    BY <1>1, <2>1, EndsCalm
<1> QED
  BY <1>2, <1>3, <1>4

LEMMA DieCalm ==
    ASSUME BillingInv, BillingInv', CalmInv, NEW w \in Writers, Die(w)
    PROVE  CalmInv'
BY EndsCalm DEF Die, Processed

\* Stripe's changes reach the ledger later, whatever is in hand.
LEMMA StripeCalm ==
    ASSUME BillingInv, BillingInv', CalmInv, StripeChanges
    PROVE  CalmInv'
<1> PICK ev \in Changes : Send(ev)
  BY DEF StripeChanges
<1>1. UNCHANGED <<ledger, org, venue, writer, calm>> /\ Room > 0
  BY DEF StripeChanges
<1>2. /\ ev \in Notices /\ Told(ev) # "trialing"
      /\ ev.kind = "updated" \/ stripe.linked
  <2>1. ev \in Notices
    BY Typed, ChangesAreNotices
  <2>2. CASE ev \in {Event("updated", t, s) : t \in Tiers, s \in {"active", "past_due"}}
    BY <2>1, <2>2 DEF Event, Told
  <2>3. CASE stripe # NoRow /\ ev \in {Event("paid", None, "none"), Event("deleted", None, "none")}
    BY <2>1, <2>3 DEF Event, Told, CalmInv, SaysAll
  <2> QED
    BY <2>1, <2>2, <2>3 DEF Changes
<1>3. SaysAll'
  BY <1>2, SendSays DEF CalmInv
<1>4. ASSUME calm PROVE (OneAtATime /\ Settled /\ \A w \in Writers : InHand(w))'
  <2>1. OneAtATime /\ Settled /\ \A w \in Writers : InHand(w)
    BY <1>4 DEF CalmInv
  <2>2. Len(sent) \in Nat /\ MaxEvents \in Nat /\ Len(sent') = Len(sent) + 1
    BY <1>2, <2>1, Ledgered, SentLast
  <2>3. Len(sent) + 1 <= MaxEvents
    BY <1>1, <2>1, <2>2, SwitchesInHand
  <2>4. Settled' /\ (UpdatePending => UpdatePending')
    BY <1>1, <1>2, <2>1, <2>3, SendSettles DEF CalmInv
  <2>5. ASSUME NEW w \in Writers PROVE InHand(w)'
    <3>1. ASSUME writer[w].kind = "event" PROVE EventInHand(w)'
      <4> PICK e : e = writer[w].event
        OBVIOUS
      <4>1. sent'[e] = sent[e] /\ EventInHand(w) /\ e = writer'[w].event
        BY <1>1, <1>2, <2>1, <3>1, HandOpen, SentLast DEF InHand
      <4>2. writer[w].at = "save" => writer'[w].row = Effect(sent'[e], org')
        BY <1>1, <4>1 DEF EventInHand, Effect
      <4>3. writer[w].at = "sync" => org'.status = Told(sent'[e])
        BY <1>1, <4>1 DEF EventInHand, Told
      <4> QED
        BY <1>1, <4>1, <4>2, <4>3 DEF EventInHand, Processed
    <3>2. ASSUME writer[w].kind = "switch" PROVE SwitchInHand(w)'
      <4>1. Len(sent) + 1 + 2 <= MaxEvents
        <5>1. Switches # {}
          BY <3>2 DEF Switches
        <5> QED
          BY <1>1, <2>1, <2>2, <5>1, SwitchesInHand
      <4>2. Len(sent') + 2 <= MaxEvents /\ Len(sent') + 1 <= MaxEvents
        BY <2>2, <4>1
      <4> QED
        BY <1>1, <2>1, <2>4, <3>2, <4>2 DEF InHand, SwitchInHand
    <3>3. writer[w].kind = "expire" => ExpiryInHand(w)'
      BY <1>1, <2>1 DEF InHand, ExpiryInHand, Processed
    <3> QED
      BY <1>1, <3>1, <3>2, <3>3 DEF InHand
  <2> QED
    BY <1>1, <2>1, <2>4, <2>5 DEF OneAtATime
<1> QED
  BY <1>1, <1>3, <1>4 DEF CalmInv

-----------------------------------------------------------------------------
LEMMA CalmInit == Init => CalmInv
<1> SUFFICES ASSUME Init PROVE CalmInv
  OBVIOUS
<1>1. sent = << >> /\ DOMAIN sent = {} /\ Len(sent) = 0 /\ MaxEvents \in Nat
  BY BillingSizes DEF Init
<1>2. \A w \in Writers : writer[w] = Idle
  BY DEF Init
<1>3. stripe.status # "trialing" /\ (stripe # NoRow => stripe.linked)
      /\ (stripe.linked => org = stripe)
  BY DEF Init, NoRow, Sub
<1>4. \A e \in Events : ~Processed(e)
  BY DEF Init, Processed
<1>5. SaysAll
  BY <1>1, <1>3 DEF SaysAll
<1>6. Settled
  BY <1>1, <1>3, <1>4 DEF Settled, AllDone
<1>7. OneAtATime /\ \A w \in Writers : InHand(w)
  BY <1>2 DEF OneAtATime, InHand, Idle
<1> QED
  BY <1>5, <1>6, <1>7 DEF CalmInv

LEMMA CalmStep == BillingInv /\ CalmInv /\ [Next]_vars => CalmInv'
<1> SUFFICES ASSUME BillingInv, CalmInv, [Next]_vars PROVE CalmInv'
  OBVIOUS
<1>1. BillingInv'
  BY BillingStep
<1>2. CASE UNCHANGED vars
  BY <1>1, <1>2, IdleCalm DEF vars
<1>3. ASSUME NEW w \in Writers, Step(w) PROVE CalmInv'
  BY <1>1, <1>3, ReadCalm, SaveCalm, ProjectCalm, MarkProcessedCalm, MarkFailedCalm,
     ChangeAtStripeCalm, RestoreCalm, ReturnCalm DEF Step
<1>4. ASSUME NEW e \in Events, LeaseRunsOut(e) PROVE CalmInv'
  <2>1. \A d \in Events : ledger'[d].status = ledger[d].status
    BY <1>4, Typed DEF LeaseRunsOut, TypeOK
  <2> QED
    BY <1>1, <1>4, <2>1, IdleCalm DEF LeaseRunsOut
<1>5. CASE Next
  BY <1>1, <1>3, <1>4, <1>5, StripeCalm, DeliverCalm, ExpireCalm, SwitchCalm, ThrowCalm, DieCalm DEF Next
<1> QED
  BY <1>2, <1>5

\* Deliveries in order, and writers that do not overlap: once every event is processed,
\* the row of the organization and those of all its venues are the subscription as Stripe
\* has it, whatever failed, died or was half undone on the way.
THEOREM OrganizationFollows == Spec => []FollowsStripe
<1>1. BillingInv /\ CalmInv => FollowsStripe
  <2> SUFFICES ASSUME BillingInv, CalmInv, calm, sent # << >>, \A e \in DOMAIN sent : Processed(e)
               PROVE  org = stripe /\ \A v \in Venues : venue[v] = org
    BY DEF FollowsStripe
  <2>1. Settled /\ SaysAll
    BY DEF CalmInv
  <2>2. AllDone /\ ~UpdatePending
    BY <2>1, Ledgered DEF AllDone, UpdatePending
  <2>3. /\ org.status = stripe.status /\ org.tier = stripe.tier /\ org.linked /\ stripe.linked
        /\ \A v \in Venues : venue[v] = org
    BY <2>1, <2>2 DEF Settled, SaysAll
  <2>4. org = stripe
    BY <2>3, Typed DEF Rows
  <2> QED
    BY <2>3, <2>4
<1> QED
  BY <1>1, BillingInit, BillingStep, CalmInit, CalmStep, PTL DEF Spec
=============================================================================
