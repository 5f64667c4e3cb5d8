------------------------- MODULE ScreenDeliveryProofs -------------------------
(***************************************************************************)
(* Proofs about the delivery ledger and the player that runs against it,   *)
(* for any number of revisions, keys, loads in flight, versions and faults. *)
(***************************************************************************)
EXTENDS DisplayPlayer, WellFoundedInduction, TLAPS

\* The rows of the ledger: consecutive revisions from oldest to latest.
Ledger(rows, oldest, latest) ==
    /\ oldest \in 1..(MaxRevision + 1)
    /\ latest \in 0..MaxRevision
    /\ rows \in [oldest..latest -> States]

LEMMA LatestOfLedger ==
    ASSUME NEW rows, NEW oldest, NEW latest, Ledger(rows, oldest, latest)
    PROVE  LatestRevision(rows) = IF oldest <= latest THEN latest ELSE 0
<1> USE DeliveryConstants
<1>1. DOMAIN rows \cup {0} = (oldest..latest) \cup {0} /\ oldest \in Nat /\ latest \in Nat
  BY DEF Ledger
<1> DEFINE S == (oldest..latest) \cup {0}
           top == IF oldest <= latest THEN latest ELSE 0
<1>2. top \in S /\ \A y \in S : top >= y
  BY <1>1
<1>3. \A x \in S : (\A y \in S : x >= y) => x = top
  BY <1>1
<1>4. Max(S) = top
  <2> HIDE DEF S, top
  <2>1. (CHOOSE x \in S : \A y \in S : x >= y) = top
    BY <1>2, <1>3
  <2> QED
    BY <2>1 DEF Max
<1> QED
  BY <1>1, <1>4 DEF LatestRevision

\* A nonempty set of naturals below a bound has its Max.
LEMMA MaxOfBounded ==
    ASSUME NEW n \in Nat, NEW S \in SUBSET (0..n), S # {}
    PROVE  Max(S) \in S /\ \A y \in S : Max(S) >= y
<1> DEFINE D == {n - x : x \in S}
           R == OpToRel(<, Nat)
<1>1. D \subseteq Nat /\ D # {}
  <2>1. \A x \in S : n - x \in Nat
    OBVIOUS
  <2> QED
    BY <2>1
<1>2. \E d \in D : \A y \in D : ~(<<y, d>> \in R)
  <2> HIDE DEF D, R
  <2>1. IsWellFoundedOn(R, Nat)
    BY NatLessThanWellFounded DEF R
  <2> QED
    BY <1>1, <2>1, WFMin
<1>3. PICK d \in D : \A y \in D : ~(<<y, d>> \in R)
  BY <1>2
<1>4. PICK top \in S : d = n - top
  BY <1>3
<1>5. \A y \in D : ~(y < d)
  BY <1>1, <1>3 DEF OpToRel
<1>6. \A x \in S : ~(n - x < n - top)
  BY <1>4, <1>5
<1>7. \A x \in S : top >= x
  <2> HIDE DEF D, R
  <2> QED
    BY <1>4, <1>6
<1> QED
  BY <1>4, <1>7 DEF Max

LEMMA AppliedWithinLedger ==
    ASSUME NEW rows, NEW oldest, NEW latest, Ledger(rows, oldest, latest)
    PROVE  AppliedRevision(rows) \in 0..latest
<1> DEFINE S == {r \in DOMAIN rows : rows[r] \in Applied} \cup {0}
<1>1. S \subseteq 0..latest /\ 0 \in S /\ latest \in Nat
  BY DeliveryConstants DEF Ledger
<1>2. Max(S) \in S
  <2> HIDE DEF S
  <2> QED
    BY <1>1, MaxOfBounded
<1> QED
  BY <1>1, <1>2 DEF AppliedRevision

\* Only the latest revision can be open, and the latest is never superseded: a
\* receipt for it is not stale, so nothing decides against it.
LatestStands ==
    LatestRevision(deliveries) \in DOMAIN deliveries =>
        deliveries[LatestRevision(deliveries)] # "Superseded"

IInv == LedgerTypeOK /\ OutstandingIsLatest /\ LatestStands

LEMMA InitIInv == LedgerInit => IInv
<1> SUFFICES ASSUME LedgerInit PROVE IInv
  OBVIOUS
<1>1. deliveries \in [1..0 -> States]
  BY DEF LedgerInit
<1>2. 1 \in 1..(MaxRevision + 1) /\ 0 \in 0..MaxRevision
  BY DeliveryConstants
<1>3. status \in {"Paired", "Unpaired", "Archived"} /\ key \in 1..MaxKey
  BY DeliveryConstants DEF LedgerInit
<1>4. DOMAIN deliveries = {}
  BY DEF LedgerInit
<1> QED
  BY <1>1, <1>2, <1>3, <1>4 DEF IInv, LedgerTypeOK, OutstandingIsLatest, LatestStands

\* What a receipt can make of a row.
LEMMA AnsweredCases ==
    ASSUME NEW was \in States, NEW receipt \in Receipts, NEW stale \in BOOLEAN
    PROVE  /\ Answered(was, receipt, stale) \in States
           /\ was \in Applied \cup {"Superseded"} /\ stale => Answered(was, receipt, stale) = was
           /\ was \in Applied => Answered(was, receipt, stale) = was
           /\ was = "Failed" => Answered(was, receipt, stale) \in Applied \cup {"Failed"}
           /\ stale => Answered(was, receipt, stale) \notin Open
           /\ ~stale /\ was # "Superseded" => Answered(was, receipt, stale) # "Superseded"
           /\ stale /\ was \notin Applied => Answered(was, receipt, stale) \notin Applied
  BY DEF Answered, States, Open, Applied, Receipts

\* What a step may do to a ledger: keep every decision, open or apply only the
\* latest revision.
Advances(rows, next) ==
    /\ \A r \in DOMAIN rows \cap DOMAIN next :
          /\ rows[r] \in Applied \cup {"Superseded"} => next[r] = rows[r]
          /\ rows[r] = "Failed" => next[r] \in Applied \cup {"Failed"}
    /\ \A r \in DOMAIN next :
          /\ next[r] \in Open => r = LatestRevision(next)
          /\ r = LatestRevision(next) => next[r] # "Superseded"
          /\ next[r] \in Applied /\ (r \in DOMAIN rows => rows[r] \notin Applied)
                => r = LatestRevision(rows)
    /\ LatestRevision(next) >= LatestRevision(rows)

LEMMA ReceiptAdvances ==
    ASSUME NEW rows, NEW oldest, NEW latest, Ledger(rows, oldest, latest),
           \A r \in DOMAIN rows : rows[r] \in Open => r = LatestRevision(rows),
           \A r \in DOMAIN rows : rows[r] = "Superseded" => r # LatestRevision(rows),
           NEW receipt \in Receipts
    PROVE  /\ Ledger(AfterReceipt(rows, receipt), oldest, latest)
           /\ Advances(rows, AfterReceipt(rows, receipt))
<1> DEFINE next == AfterReceipt(rows, receipt)
           stale == Stale(rows, receipt)
<1>1. DOMAIN next = DOMAIN rows /\ DOMAIN rows = oldest..latest
  BY DEF AfterReceipt, Ledger
<1>2. stale \in BOOLEAN
  BY DEF Stale
<1>3. ASSUME NEW r \in DOMAIN rows
      PROVE  \/ next[r] = rows[r]
             \/ /\ next[r] = "Superseded" /\ rows[r] \in Open
                /\ receipt.revision \in DOMAIN rows /\ r < receipt.revision
             \/ /\ r = receipt.revision
                /\ next[r] = Answered(rows[r], receipt, stale)
  BY <1>3 DEF AfterReceipt
<1>4. ASSUME NEW r \in DOMAIN rows
      PROVE  rows[r] \in States
  BY <1>4 DEF Ledger
<1>5. ASSUME NEW r \in DOMAIN rows
      PROVE  next[r] \in States
  <2> HIDE DEF next, stale
  <2> QED
    BY <1>2, <1>3, <1>4, <1>5, AnsweredCases DEF States
<1>6. Ledger(next, oldest, latest)
  <2>1. next = [r \in oldest..latest |-> next[r]]
    BY <1>1 DEF AfterReceipt
  <2> HIDE DEF next
  <2>2. next \in [oldest..latest -> States]
    BY <2>1, <1>1, <1>5
  <2> QED
    BY <2>2 DEF Ledger
<1>7. LatestRevision(next) = LatestRevision(rows) /\ LatestRevision(rows) \in Nat
  <2> HIDE DEF next
  <2>1. /\ LatestRevision(next) = IF oldest <= latest THEN latest ELSE 0
        /\ LatestRevision(rows) = IF oldest <= latest THEN latest ELSE 0
    BY <1>6, LatestOfLedger
  <2> QED
    BY <2>1, DeliveryConstants DEF Ledger
<1>8. ASSUME NEW r \in DOMAIN rows, r = receipt.revision
      PROVE  stale <=> r # LatestRevision(rows)
  <2>1. r \in Nat /\ oldest <= r /\ r <= latest /\ oldest <= latest /\ latest \in Nat
    BY <1>1, <1>8, DeliveryConstants DEF Ledger
  <2>2. LatestRevision(rows) = latest
    BY <2>1, LatestOfLedger
  <2>3. AppliedRevision(rows) \in 0..latest
    BY AppliedWithinLedger
  <2> QED
    BY <1>8, <2>1, <2>2, <2>3 DEF Stale
<1>9. ASSUME NEW r \in DOMAIN rows
      PROVE  /\ rows[r] \in Applied \cup {"Superseded"} => next[r] = rows[r]
             /\ rows[r] = "Failed" => next[r] \in Applied \cup {"Failed"}
             /\ next[r] \in Open => r = LatestRevision(rows)
             /\ r = LatestRevision(rows) => next[r] # "Superseded"
             /\ next[r] \in Applied /\ rows[r] \notin Applied => r = LatestRevision(rows)
  <2>1. CASE next[r] = rows[r]
    <3> HIDE DEF next, stale
    <3> QED
      BY <2>1 DEF Applied, Open
  <2>2. CASE /\ next[r] = "Superseded" /\ rows[r] \in Open
             /\ receipt.revision \in DOMAIN rows /\ r < receipt.revision
    <3>1. r \in Nat /\ oldest <= r /\ r < latest
      BY <2>2, <1>1, <1>9, DeliveryConstants DEF Ledger
    <3>2. LatestRevision(rows) = IF oldest <= latest THEN latest ELSE 0
      BY LatestOfLedger
    <3>3. oldest \in Nat /\ latest \in Nat
      BY DeliveryConstants DEF Ledger
    <3>4. LatestRevision(rows) # r
      <4> HIDE DEF next, stale
      <4> QED
        BY <3>1, <3>2, <3>3
    <3> HIDE DEF next, stale
    <3> QED
      BY <2>2, <3>4 DEF Applied, Open
  <2>3. CASE r = receipt.revision /\ next[r] = Answered(rows[r], receipt, stale)
    <3>1. rows[r] \in States
      BY <1>4
    <3>2. stale <=> r # LatestRevision(rows)
      BY <1>8, <2>3
    <3>3. rows[r] = "Superseded" => r # LatestRevision(rows)
      OBVIOUS
    <3> HIDE DEF next, stale
    <3> QED
      BY <2>3, <3>1, <3>2, <3>3, <1>2, AnsweredCases DEF Open, Applied
  <2> QED
    BY <1>3, <2>1, <2>2, <2>3
<1> QED
  <2> HIDE DEF next
  <2>1. LatestRevision(next) >= LatestRevision(rows)
    BY <1>7
  <2>2. \A r \in DOMAIN rows \cap DOMAIN next :
           /\ rows[r] \in Applied \cup {"Superseded"} => next[r] = rows[r]
           /\ rows[r] = "Failed" => next[r] \in Applied \cup {"Failed"}
    BY <1>9
  <2>3. \A r \in DOMAIN next :
           /\ next[r] \in Open => r = LatestRevision(next)
           /\ r = LatestRevision(next) => next[r] # "Superseded"
           /\ next[r] \in Applied /\ (r \in DOMAIN rows => rows[r] \notin Applied)
                 => r = LatestRevision(rows)
    BY <1>1, <1>7, <1>9
  <2>4. Advances(rows, next)
    BY <2>1, <2>2, <2>3 DEF Advances
  <2> QED
    BY <1>6, <2>4 DEF next

LEMMA IssueAdvances ==
    ASSUME NEW rows, NEW oldest, NEW latest, Ledger(rows, oldest, latest),
           LatestRevision(rows) < MaxRevision,
           NEW cut \in 1..(LatestRevision(rows) + 1)
    PROVE  /\ \E o, l : Ledger(AfterIssue(rows, cut), o, l)
           /\ Advances(rows, AfterIssue(rows, cut))
<1> DEFINE next == AfterIssue(rows, cut)
           top == LatestRevision(rows)
           first == IF oldest <= latest /\ cut < oldest THEN oldest ELSE cut
<1>1. /\ oldest \in Nat \ {0} /\ latest \in Nat /\ DOMAIN rows = oldest..latest
      /\ top = IF oldest <= latest THEN latest ELSE 0
      /\ top \in Nat /\ top + 1 \in 1..MaxRevision /\ cut \in Nat \ {0} /\ cut <= top + 1
  <2>1. oldest \in Nat \ {0} /\ latest \in Nat /\ DOMAIN rows = oldest..latest
    BY DeliveryConstants DEF Ledger
  <2>2. top = IF oldest <= latest THEN latest ELSE 0
    BY LatestOfLedger
  <2> HIDE DEF top
  <2> QED
    BY <2>1, <2>2, DeliveryConstants DEF top
<1>2. {q \in DOMAIN rows : q >= cut} \cup {top + 1} = first..(top + 1)
  <2> HIDE DEF top
  <2> QED
    BY <1>1
<1>3. DOMAIN next = first..(top + 1)
  BY <1>2 DEF AfterIssue
<1>4. ASSUME NEW r \in first..(top + 1)
      PROVE  next[r] = IF r = top + 1 THEN "Requested"
                       ELSE IF rows[r] \in Open THEN "Superseded" ELSE rows[r]
  BY <1>2 DEF AfterIssue
<1>5. ASSUME NEW r \in first..(top + 1), r # top + 1
      PROVE  r \in DOMAIN rows /\ rows[r] \in States
  <2>1. r \in DOMAIN rows
    BY <1>2, <1>5
  <2> QED
    BY <2>1 DEF Ledger
<1>6. next = [r \in first..(top + 1) |-> next[r]]
  BY <1>2 DEF AfterIssue
<1> HIDE DEF next
<1>7. \A r \in first..(top + 1) : next[r] \in States
  <2> HIDE DEF top, first
  <2> QED
    BY <1>4, <1>5 DEF States, Open
<1>8. Ledger(next, first, top + 1)
  <2>1. first \in 1..(MaxRevision + 1) /\ top + 1 \in 0..MaxRevision
    <3> HIDE DEF top
    <3> QED
      BY <1>1, DeliveryConstants
  <2>2. next \in [first..(top + 1) -> States]
    <3> HIDE DEF top, first
    <3> QED
      BY <1>6, <1>7
  <2> QED
    BY <2>1, <2>2 DEF Ledger
<1>9. LatestRevision(next) = top + 1
  <2>1. LatestRevision(next) = IF first <= top + 1 THEN top + 1 ELSE 0
    BY <1>8, LatestOfLedger
  <2>2. first <= top + 1
    <3> HIDE DEF top
    <3> QED
      BY <1>1
  <2> QED
    BY <2>1, <2>2
<1>10. top + 1 \notin DOMAIN rows
  <2> HIDE DEF top
  <2> QED
    BY <1>1
<1>11. \A r \in DOMAIN rows \cap DOMAIN next :
          /\ rows[r] \in Applied \cup {"Superseded"} => next[r] = rows[r]
          /\ rows[r] = "Failed" => next[r] \in Applied \cup {"Failed"}
  <2> HIDE DEF top, first
  <2> QED
    BY <1>3, <1>4, <1>10 DEF Applied, Open
<1>12. \A r \in DOMAIN next :
          /\ next[r] \in Open => r = LatestRevision(next)
          /\ r = LatestRevision(next) => next[r] # "Superseded"
          /\ next[r] \in Applied /\ (r \in DOMAIN rows => rows[r] \notin Applied) => r = top
  <2> HIDE DEF top, first
  <2> QED
    BY <1>3, <1>4, <1>5, <1>9 DEF Applied, Open
<1>13. LatestRevision(next) >= top
  <2> HIDE DEF top
  <2> QED
    BY <1>1, <1>9
<1>14. Advances(rows, next)
  BY <1>11, <1>12, <1>13 DEF Advances
<1> QED
  BY <1>8, <1>14 DEF next

LEMMA Invariance == IInv /\ [LedgerNext]_ledger => IInv' /\ Advances(deliveries, deliveries')
<1> SUFFICES ASSUME IInv, [LedgerNext]_ledger
             PROVE  IInv' /\ Advances(deliveries, deliveries')
  OBVIOUS
<1>1. PICK oldest, latest : Ledger(deliveries, oldest, latest)
  BY DEF IInv, LedgerTypeOK, Ledger
<1>2. /\ \A r \in DOMAIN deliveries : deliveries[r] \in Open => r = LatestRevision(deliveries)
      /\ \A r \in DOMAIN deliveries : deliveries[r] = "Superseded" => r # LatestRevision(deliveries)
  BY DEF IInv, OutstandingIsLatest, LatestStands
<1>3. ASSUME \E o, l : Ledger(deliveries', o, l), Advances(deliveries, deliveries'),
             status' \in {"Paired", "Unpaired", "Archived"}, key' \in 1..MaxKey
      PROVE  IInv'
  <2>1. LedgerTypeOK'
    BY <1>3 DEF LedgerTypeOK, Ledger
  <2>2. OutstandingIsLatest' /\ LatestStands'
    BY <1>3 DEF Advances, OutstandingIsLatest, LatestStands
  <2> QED
    BY <2>1, <2>2 DEF IInv
<1>4. ASSUME deliveries' = deliveries PROVE Advances(deliveries, deliveries')
  <2>1. LatestRevision(deliveries) \in Nat
    <3>1. LatestRevision(deliveries) = IF oldest <= latest THEN latest ELSE 0
      BY <1>1, LatestOfLedger
    <3> QED
      BY <1>1, <3>1, DeliveryConstants DEF Ledger
  <2>2. LatestRevision(deliveries') = LatestRevision(deliveries)
    BY <1>4
  <2>3. LatestRevision(deliveries') >= LatestRevision(deliveries)
    BY <2>1, <2>2
  <2> QED
    BY <1>2, <1>4, <2>2, <2>3 DEF Advances
<1>5. status \in {"Paired", "Unpaired", "Archived"} /\ key \in 1..MaxKey
  BY DEF IInv, LedgerTypeOK
<1>6. CASE Issue
  <2>1. PICK cut \in 1..(LatestRevision(deliveries) + 1) : deliveries' = AfterIssue(deliveries, cut)
    BY <1>6 DEF Issue
  <2>2. LatestRevision(deliveries) < MaxRevision /\ status' = status /\ key' = key
    BY <1>6 DEF Issue
  <2>3. (\E o, l : Ledger(deliveries', o, l)) /\ Advances(deliveries, deliveries')
    BY <1>1, <2>1, <2>2, IssueAdvances
  <2> QED
    BY <1>3, <1>5, <2>2, <2>3
<1>7. ASSUME NEW receipt \in Receipts, Acknowledge(receipt)
      PROVE  IInv' /\ Advances(deliveries, deliveries')
  <2>1. deliveries' = AfterReceipt(deliveries, receipt) /\ status' = status /\ key' = key
    BY <1>7 DEF Acknowledge
  <2>2. (\E o, l : Ledger(deliveries', o, l)) /\ Advances(deliveries, deliveries')
    BY <1>1, <1>2, <2>1, ReceiptAdvances
  <2> QED
    BY <1>3, <1>5, <2>1, <2>2
<1>8. ASSUME deliveries' = deliveries, status' \in {"Paired", "Unpaired", "Archived"},
             key' \in 1..MaxKey
      PROVE  IInv' /\ Advances(deliveries, deliveries')
  BY <1>1, <1>3, <1>4, <1>8
<1>9. CASE \E archived \in BOOLEAN : SetArchived(archived)
  BY <1>5, <1>8, <1>9 DEF SetArchived
<1>10. CASE Unpair \/ Pair
  BY <1>5, <1>8, <1>10 DEF Unpair, Pair
<1>11. CASE Replace
  <2>1. key' \in 1..MaxKey
    BY <1>5, <1>11, DeliveryConstants DEF Replace
  <2> QED
    BY <1>5, <1>8, <1>11, <2>1 DEF Replace
<1>12. CASE UNCHANGED ledger
  BY <1>5, <1>8, <1>12 DEF ledger
<1> QED
  BY <1>6, <1>7, <1>9, <1>10, <1>11, <1>12 DEF LedgerNext

\* In such a ledger a receipt decides about the latest revision or nothing.
LEMMA ReceiptEffect ==
    ASSUME NEW rows, NEW oldest, NEW latest, Ledger(rows, oldest, latest),
           \A r \in DOMAIN rows : rows[r] \in Open => r = LatestRevision(rows),
           NEW receipt \in Receipts, NEW r \in DOMAIN rows
    PROVE  AfterReceipt(rows, receipt)[r] =
              IF r = receipt.revision /\ r = LatestRevision(rows)
              THEN Answered(rows[r], receipt, FALSE) ELSE rows[r]
<1> DEFINE stale == Stale(rows, receipt)
<1>1. /\ DOMAIN rows = oldest..latest /\ oldest \in Nat /\ latest \in Nat
      /\ r \in Nat /\ oldest <= r /\ r <= latest
  BY DeliveryConstants DEF Ledger
<1>2. LatestRevision(rows) = latest
  BY <1>1, LatestOfLedger
<1>3. AppliedRevision(rows) \in 0..latest
  BY AppliedWithinLedger
<1>4. r = receipt.revision => (stale <=> r # latest)
  BY <1>1, <1>2, <1>3 DEF Stale
<1>5. stale \in BOOLEAN
  BY DEF Stale
<1>6. r # latest => rows[r] \notin Open
  BY <1>2
<1>7. receipt.revision \in DOMAIN rows => ~(r < receipt.revision) \/ r # latest
  BY <1>1
<1>8. AfterReceipt(rows, receipt)[r] =
        IF receipt.revision \notin DOMAIN rows THEN rows[r]
        ELSE IF r = receipt.revision THEN Answered(rows[r], receipt, stale)
        ELSE IF /\ r < receipt.revision /\ rows[r] \in Open
                /\ receipt.state = "Applied" /\ ~stale
             THEN "Superseded"
        ELSE rows[r]
  BY DEF AfterReceipt
<1> HIDE DEF stale
<1>9. CASE r = receipt.revision
  <2>1. CASE r = latest
    <3>1. stale = FALSE
      BY <1>4, <1>5, <1>9, <2>1
    <3> QED
      BY <1>2, <1>8, <1>9, <2>1, <3>1
  <2>2. CASE r # latest
    <3>1. stale = TRUE
      BY <1>4, <1>5, <1>9, <2>2
    <3>2. Answered(rows[r], receipt, TRUE) = rows[r]
      BY <1>6, <2>2 DEF Answered
    <3> QED
      BY <1>2, <1>8, <1>9, <2>2, <3>1, <3>2
  <2> QED
    BY <2>1, <2>2
<1>10. CASE r # receipt.revision
  <2>1. ~(receipt.revision \in DOMAIN rows /\ r < receipt.revision /\ rows[r] \in Open)
    BY <1>6, <1>7
  <2> QED
    BY <1>8, <1>10, <2>1
<1> QED
  BY <1>9, <1>10

LEMMA AnswersCommute ==
    ASSUME NEW was \in States, NEW a \in Receipts, NEW b \in Receipts,
           a.recovered = b.recovered
    PROVE  Answered(Answered(was, a, FALSE), b, FALSE)
             = Answered(Answered(was, b, FALSE), a, FALSE)
<1>1. a.state \in {"Received", "Applied", "Failed"} /\ b.state \in {"Received", "Applied", "Failed"}
  BY DEF Receipts
<1> QED
  BY <1>1 DEF Answered, States, Open, Applied

LEMMA ReceiptsOfALedgerCommute == IInv => ReceiptsCommute
<1> SUFFICES ASSUME IInv, NEW a \in Receipts, NEW b \in Receipts, a.recovered = b.recovered
             PROVE  AfterReceipt(AfterReceipt(deliveries, a), b)
                      = AfterReceipt(AfterReceipt(deliveries, b), a)
  BY DEF ReceiptsCommute
<1>1. PICK oldest, latest : Ledger(deliveries, oldest, latest)
  BY DEF IInv, LedgerTypeOK, Ledger
<1>2. /\ \A r \in DOMAIN deliveries : deliveries[r] \in Open => r = LatestRevision(deliveries)
      /\ \A r \in DOMAIN deliveries : deliveries[r] = "Superseded" => r # LatestRevision(deliveries)
  BY DEF IInv, OutstandingIsLatest, LatestStands
<1> DEFINE After(x) == AfterReceipt(deliveries, x)
<1>3. ASSUME NEW x \in Receipts
      PROVE  /\ DOMAIN After(x) = DOMAIN deliveries
             /\ Ledger(After(x), oldest, latest)
             /\ LatestRevision(After(x)) = LatestRevision(deliveries)
             /\ \A r \in DOMAIN After(x) : After(x)[r] \in Open => r = LatestRevision(After(x))
  <2>1. Ledger(After(x), oldest, latest) /\ Advances(deliveries, After(x))
    BY <1>1, <1>2, ReceiptAdvances
  <2>2. DOMAIN After(x) = DOMAIN deliveries
    BY DEF AfterReceipt
  <2>3. LatestRevision(After(x)) = LatestRevision(deliveries)
    <3>1. LatestRevision(After(x)) = IF oldest <= latest THEN latest ELSE 0
      BY <2>1, LatestOfLedger
    <3>2. LatestRevision(deliveries) = IF oldest <= latest THEN latest ELSE 0
      BY <1>1, LatestOfLedger
    <3> QED
      BY <3>1, <3>2
  <2> QED
    BY <2>1, <2>2, <2>3 DEF Advances
<1>4. ASSUME NEW x \in Receipts, NEW y \in Receipts, NEW r \in DOMAIN deliveries
      PROVE  AfterReceipt(After(x), y)[r] =
               IF r = LatestRevision(deliveries)
               THEN IF r = x.revision
                    THEN IF r = y.revision THEN Answered(Answered(deliveries[r], x, FALSE), y, FALSE)
                         ELSE Answered(deliveries[r], x, FALSE)
                    ELSE IF r = y.revision THEN Answered(deliveries[r], y, FALSE)
                    ELSE deliveries[r]
               ELSE deliveries[r]
  <2>1. After(x)[r] = IF r = x.revision /\ r = LatestRevision(deliveries)
                      THEN Answered(deliveries[r], x, FALSE) ELSE deliveries[r]
    BY <1>1, <1>2, ReceiptEffect
  <2>2. AfterReceipt(After(x), y)[r] =
          IF r = y.revision /\ r = LatestRevision(After(x))
          THEN Answered(After(x)[r], y, FALSE) ELSE After(x)[r]
    <3> DEFINE rows == After(x)
    <3>1. /\ Ledger(rows, oldest, latest) /\ r \in DOMAIN rows
          /\ \A q \in DOMAIN rows : rows[q] \in Open => q = LatestRevision(rows)
      BY <1>3
    <3> HIDE DEF rows
    <3>2. AfterReceipt(rows, y)[r] =
            IF r = y.revision /\ r = LatestRevision(rows)
            THEN Answered(rows[r], y, FALSE) ELSE rows[r]
      BY <3>1, ReceiptEffect
    <3> QED
      BY <3>2 DEF rows
  <2>3. LatestRevision(After(x)) = LatestRevision(deliveries)
    BY <1>3
  <2> HIDE DEF After
  <2> QED
    BY <2>1, <2>2, <2>3
<1>5. ASSUME NEW r \in DOMAIN deliveries
      PROVE  AfterReceipt(After(a), b)[r] = AfterReceipt(After(b), a)[r]
  <2>1. deliveries[r] \in States
    BY <1>1 DEF Ledger
  <2>2. Answered(Answered(deliveries[r], a, FALSE), b, FALSE)
          = Answered(Answered(deliveries[r], b, FALSE), a, FALSE)
    BY <2>1, AnswersCommute
  <2> DEFINE A == AfterReceipt(After(a), b)
             B == AfterReceipt(After(b), a)
  <2>3. A[r] =
          IF r = LatestRevision(deliveries)
          THEN IF r = a.revision
               THEN IF r = b.revision THEN Answered(Answered(deliveries[r], a, FALSE), b, FALSE)
                    ELSE Answered(deliveries[r], a, FALSE)
               ELSE IF r = b.revision THEN Answered(deliveries[r], b, FALSE)
               ELSE deliveries[r]
          ELSE deliveries[r]
    BY <1>4
  <2>4. B[r] =
          IF r = LatestRevision(deliveries)
          THEN IF r = b.revision
               THEN IF r = a.revision THEN Answered(Answered(deliveries[r], b, FALSE), a, FALSE)
                    ELSE Answered(deliveries[r], b, FALSE)
               ELSE IF r = a.revision THEN Answered(deliveries[r], a, FALSE)
               ELSE deliveries[r]
          ELSE deliveries[r]
    BY <1>4
  <2>5. A[r] = B[r]
    <3> HIDE DEF A, B
    <3> QED
      BY <2>2, <2>3, <2>4
  <2> QED
    BY <2>5
<1>6. \A x, y \in Receipts :
         /\ DOMAIN AfterReceipt(After(x), y) = DOMAIN deliveries
         /\ AfterReceipt(After(x), y) = [r \in DOMAIN deliveries |-> AfterReceipt(After(x), y)[r]]
  <2> TAKE x, y \in Receipts
  <2>1. DOMAIN After(x) = DOMAIN deliveries
    BY <1>3
  <2> HIDE DEF After
  <2> QED
    BY <2>1 DEF AfterReceipt
<1> QED
  <2> DEFINE A == AfterReceipt(After(a), b)
             B == AfterReceipt(After(b), a)
  <2>1. A = [r \in DOMAIN deliveries |-> A[r]] /\ B = [r \in DOMAIN deliveries |-> B[r]]
    BY <1>6
  <2>2. \A r \in DOMAIN deliveries : A[r] = B[r]
    BY <1>5
  <2>3. A = B
    <3> HIDE DEF A, B
    <3> QED
      BY <2>1, <2>2
  <2> QED
    BY <2>3

LEMMA LedgerInvariant == LedgerSpec => []IInv
  BY InitIInv, Invariance, PTL DEF LedgerSpec

-----------------------------------------------------------------------------

\* Whatever is pushed, answered and deleted in whatever order, the ledger stays a
\* run of consecutive revisions in states the database allows.
THEOREM LedgerTypeCorrect == LedgerSpec => []LedgerTypeOK
<1>1. IInv => LedgerTypeOK
  BY DEF IInv
<1> QED
  BY <1>1, LedgerInvariant, PTL

\* No push but the latest is ever awaited (IssueAsync supersedes the others).
THEOREM LatestIsOutstanding == LedgerSpec => []OutstandingIsLatest
<1>1. IInv => OutstandingIsLatest
  BY DEF IInv
<1> QED
  BY <1>1, LedgerInvariant, PTL

\* Two receipts of the current player have one effect, whichever comes first.
THEOREM ReceiptOrderIsImmaterial == LedgerSpec => []ReceiptsCommute
  BY LedgerInvariant, ReceiptsOfALedgerCommute, PTL

\* Late, duplicate and reordered receipts of AcknowledgeAsync do not regress a
\* decided row.
THEOREM ReceiptsNeverRegress == LedgerSpec => DecisionsStand
<1>1. IInv /\ [LedgerNext]_ledger =>
        [\A r \in DOMAIN deliveries \cap DOMAIN deliveries' :
          /\ deliveries[r] \in Applied \cup {"Superseded"} => deliveries'[r] = deliveries[r]
          /\ deliveries[r] = "Failed" => deliveries'[r] \in Applied \cup {"Failed"}]_ledger
  BY Invariance DEF Advances
<1> QED
  BY <1>1, LedgerInvariant, PTL DEF LedgerSpec, DecisionsStand

\* Only the authoritative revision becomes applied.
THEOREM AppliedMeansAuthoritative == LedgerSpec => OnlyTheLatestIsApplied
<1>1. IInv /\ [LedgerNext]_ledger =>
        [\A r \in DOMAIN deliveries' :
          deliveries'[r] \in Applied /\ (r \in DOMAIN deliveries => deliveries[r] \notin Applied)
             => r = LatestRevision(deliveries)]_ledger
  BY Invariance DEF Advances
<1> QED
  BY <1>1, LedgerInvariant, PTL DEF LedgerSpec, OnlyTheLatestIsApplied

\* Revision numbers are never reused downwards, although IssueAsync deletes rows.
THEOREM RevisionsOnlyGrow == LedgerSpec => RevisionsGrow
<1>1. IInv /\ [LedgerNext]_ledger =>
        [LatestRevision(deliveries') >= LatestRevision(deliveries)]_ledger
  BY Invariance DEF Advances
<1> QED
  BY <1>1, LedgerInvariant, PTL DEF LedgerSpec, RevisionsGrow

-----------------------------------------------------------------------------
(* The player and the ledger.                                              *)

\* What is known of a revision was known when it was issued.
RevisionsAreOld ==
    /\ \A r \in 1..MaxRevision : asOf[r] <= version
    /\ \A l \in Loads :
          /\ load[l].revision <= LatestRevision(deliveries)
          /\ load[l].step = "received" => load[l].revision > 0
          /\ load[l].step \in {"answered", "received"} /\ load[l].revision > 0 =>
                asOf[load[l].revision] <= load[l].version
    /\ \A r \in receipts :
          /\ r.revision <= LatestRevision(deliveries)
          /\ r.state = "Applied" => asOf[r.revision] <= rendered

PlayerInv == TypeOK /\ IInv /\ RevisionsAreOld /\ AppliedWasRendered /\ NeverFalselyLive

LEMMA LatestInRange ==
    ASSUME NEW rows, NEW oldest, NEW latest, Ledger(rows, oldest, latest)
    PROVE  LatestRevision(rows) \in 0..MaxRevision
<1>1. LatestRevision(rows) = IF oldest <= latest THEN latest ELSE 0
  BY LatestOfLedger
<1> QED
  BY <1>1, DeliveryConstants DEF Ledger

LEMMA LatestOfTyped == LedgerTypeOK => LatestRevision(deliveries) \in 0..MaxRevision
<1> SUFFICES ASSUME LedgerTypeOK PROVE LatestRevision(deliveries) \in 0..MaxRevision
  OBVIOUS
<1>1. \E oldest, latest : Ledger(deliveries, oldest, latest)
  BY DEF LedgerTypeOK, Ledger
<1> QED
  BY <1>1, LatestInRange

LEMMA MaxIsTop ==
    ASSUME NEW n \in Nat, NEW S \in SUBSET (0..n), n \in S
    PROVE  Max(S) = n
<1>1. Max(S) \in S /\ \A y \in S : Max(S) >= y
  BY MaxOfBounded
<1>2. \A m \in 0..n : m >= n => m = n
  OBVIOUS
<1>3. Max(S) \in 0..n /\ Max(S) >= n
  BY <1>1
<1> QED
  BY <1>2, <1>3

LEMMA NewerOfTwo ==
    ASSUME NEW a \in 0..MaxVersion, NEW b \in 0..MaxVersion
    PROVE  Max({a, b}) \in 0..MaxVersion /\ Max({a, b}) >= a /\ Max({a, b}) >= b
<1>1. {a, b} \in SUBSET (0..MaxVersion) /\ {a, b} # {} /\ MaxVersion \in Nat
  BY PlayerConstants
<1> QED
  BY <1>1, MaxOfBounded

\* Every step of the player is a step of the ledger, or leaves it alone.
LEMMA LedgerStep ==
    ASSUME TypeOK, [Next]_vars
    PROVE  [LedgerNext]_ledger
<1>1. \A r \in receipts : r \in Receipts
  BY DEF TypeOK
<1>2. CASE \E tell \in BOOLEAN : Push(tell)
  BY <1>2 DEF Push, LedgerNext
<1>3. CASE \E r \in receipts : ContentReceipt(r) \/ LoseReceipt(r)
  BY <1>1, <1>3 DEF ContentReceipt, LoseReceipt, LedgerNext
<1>4. CASE UNCHANGED vars
  BY <1>4 DEF vars, ledger
<1>5. CASE ChangeContent
  BY <1>5 DEF ChangeContent
<1>6. CASE \E l \in Loads : GetContent(l) \/ Receive(l) \/ Activate(l) \/ FailLoad(l) \/ Poll(l)
  BY <1>6 DEF GetContent, Receive, Activate, FailLoad, Poll
<1>7. CASE Connect \/ Disconnect \/ Reconnect \/ Notified \/ ApplyRealtimeEvent
  BY <1>7 DEF Connect, Disconnect, Reconnect, Notified, ApplyRealtimeEvent
<1>8. CASE GoDown \/ ApiUp \/ LinkUp \/ Restart \/ CacheExpires
  BY <1>8 DEF GoDown, ApiUp, LinkUp, Restart, CacheExpires
<1> QED
  BY <1>2, <1>3, <1>4, <1>5, <1>6, <1>7, <1>8 DEF Next

LoadTypes == [step : {"idle", "asked", "revision", "answered", "received"},
              revision : 0..MaxRevision, version : 0..MaxVersion, recovered : BOOLEAN]

LEMMA NewLoads ==
    /\ Idle \in LoadTypes /\ Idle.step = "idle" /\ Idle.revision = 0
    /\ Asked \in LoadTypes /\ Asked.step = "asked" /\ Asked.revision = 0
<1>1. Idle \in LoadTypes /\ Idle.step = "idle" /\ Idle.revision = 0
  BY PlayerConstants, DeliveryConstants DEF Idle, None, LoadTypes
<1>2. \A r \in LoadTypes : LET a == [r EXCEPT !.step = "asked"] IN
        a \in LoadTypes /\ a.step = "asked" /\ a.revision = r.revision
  BY DEF LoadTypes
<1> QED
  BY <1>1, <1>2 DEF Asked

LEMMA InitPlayerInv == Init => PlayerInv
<1> SUFFICES ASSUME Init PROVE PlayerInv
  OBVIOUS
<1>1. IInv /\ LedgerTypeOK /\ deliveries = [r \in {} |-> "Requested"] /\ key = 1
  BY InitIInv DEF Init, LedgerInit, IInv
<1>2. LatestRevision(deliveries) \in 0..MaxRevision
  BY <1>1, LatestOfTyped
<1>3. PICK first \in Loads : load = [l \in Loads |-> IF l = first THEN Asked ELSE Idle]
  BY DEF Init
<1>5. TypeOK
  <2>1. 0 \in 0..MaxVersion /\ 1 \in 1..MaxVersion /\ 0 \in 0..MaxFaults
    BY PlayerConstants
  <2>2. load \in [Loads -> LoadTypes] /\ asOf \in [1..MaxRevision -> 0..MaxVersion]
    BY <1>3, <2>1, NewLoads DEF Init, None
  <2> QED
    BY <1>1, <2>1, <2>2 DEF Init, TypeOK, None, LoadTypes
<1>6. RevisionsAreOld
  BY <1>2, <1>3, NewLoads, PlayerConstants DEF Init, RevisionsAreOld, None
<1>7. AppliedWasRendered /\ NeverFalselyLive
  BY <1>1 DEF Init, AppliedWasRendered, NeverFalselyLive
<1> QED
  BY <1>1, <1>5, <1>6, <1>7 DEF PlayerInv

-----------------------------------------------------------------------------
(* Types.                                                                  *)

LEMMA ReceiptTypes ==
    ASSUME TypeOK, NEW l \in Loads, load[l].revision > 0,
           NEW state \in {"Received", "Applied"}, NEW flag \in BOOLEAN
    PROVE  /\ Receipt(l, state) \in Receipts
           /\ [Receipt(l, state) EXCEPT !.recovered = flag] \in Receipts
           /\ [Receipt(l, state) EXCEPT !.recovered = flag].state = state
           /\ [Receipt(l, state) EXCEPT !.recovered = flag].revision = load[l].revision
           /\ Receipt(l, state).state = state
           /\ Receipt(l, state).revision = load[l].revision
<1>1. load[l] \in LoadTypes /\ key \in 1..MaxKey
  BY DEF TypeOK, LoadTypes, LedgerTypeOK
<1>2. load[l].revision \in 1..MaxRevision /\ load[l].recovered \in BOOLEAN
  BY <1>1, DeliveryConstants DEF LoadTypes
<1> QED
  BY <1>1, <1>2 DEF Receipt, Receipts

\* What the steps of a load make of its record.
LEMMA LoadTypesKept ==
    ASSUME TypeOK
    PROVE  /\ load \in [Loads -> LoadTypes]
           /\ \A l \in Loads : [load EXCEPT ![l] = Idle] \in [Loads -> LoadTypes]
           /\ \A l \in Loads : StartLoad(l) => load' \in [Loads -> LoadTypes]
<1>1. load \in [Loads -> LoadTypes]
  BY DEF TypeOK, LoadTypes
<1> QED
  BY <1>1, NewLoads DEF StartLoad

LEMMA LoadStepTypes ==
    ASSUME PlayerInv, NEW l \in Loads, GetContent(l) \/ Receive(l) \/ Activate(l) \/ FailLoad(l)
    PROVE  /\ load' \in [Loads -> LoadTypes]
           /\ receipts' \subseteq Receipts
           /\ cached' \in 0..MaxVersion /\ shown' \in 0..MaxVersion /\ rendered' \in 0..MaxVersion
           /\ source' \in {"loading", "error", "network", "cache"}
           /\ live' \in BOOLEAN
           /\ conn' \in {"none", "connecting", "connected", "unjoined", "reconnecting", "stopped"}
           /\ banner' \in {"connecting", "connected", "reconnecting", "degraded"}
           /\ recovering' \in BOOLEAN
           /\ UNCHANGED <<status, key, version, asOf, online, api, note>>
           /\ faults' \in 0..MaxFaults
<1>1. /\ TypeOK /\ load \in [Loads -> LoadTypes]
      /\ [load EXCEPT ![l] = Idle] \in [Loads -> LoadTypes]
  BY LoadTypesKept DEF PlayerInv
<1>2. load[l].revision \in 0..MaxRevision /\ load[l].version \in 0..MaxVersion /\ load[l] \in LoadTypes
  BY <1>1 DEF LoadTypes
<1>3. CASE GetContent(l)
  <2>1. LatestRevision(deliveries) \in 0..MaxRevision /\ version \in 0..MaxVersion
    BY <1>1, LatestOfTyped, PlayerConstants DEF TypeOK
  <2>2. load' \in [Loads -> LoadTypes]
    BY <1>1, <1>2, <1>3, <2>1 DEF GetContent, LoadTypes
  <2> QED
    BY <1>1, <1>3, <2>2
    DEF GetContent, TypeOK, ledger, world, network, wall, realtime
<1>4. CASE Receive(l)
  <2>1. load[l].revision > 0 /\ recovering \in BOOLEAN
    BY <1>1, <1>4 DEF Receive, TypeOK
  <2>2. receipts' \subseteq Receipts
    BY <1>1, <1>4, <2>1, ReceiptTypes DEF Receive, TypeOK
  <2>3. load' \in [Loads -> LoadTypes]
    BY <1>1, <1>2, <1>4, <2>1 DEF Receive, LoadTypes
  <2> QED
    BY <1>1, <1>2, <1>4, <2>2, <2>3 DEF Receive, TypeOK, ledger, world, network, wall, realtime
<1>5. CASE Activate(l)
  <2>1. receipts' \subseteq Receipts
    <3>1. CASE load[l].step = "received"
      <4>1. load[l].revision > 0
        BY <3>1 DEF PlayerInv, RevisionsAreOld
      <4>2. Receipt(l, "Applied") \in Receipts
        BY <1>1, <4>1, ReceiptTypes
      <4> QED
        BY <1>1, <1>5, <3>1, <4>2 DEF Activate, TypeOK
    <3>2. CASE load[l].step # "received"
      BY <1>1, <1>5, <3>2 DEF Activate, TypeOK
    <3> QED
      BY <3>1, <3>2
  <2>2. rendered' \in 0..MaxVersion
    BY <1>1, <1>2, <1>5, NewerOfTwo DEF Activate, TypeOK
  <2> QED
    BY <1>1, <1>2, <1>5, <2>1, <2>2
    DEF Activate, StartLiveServices, TypeOK, ledger, world, network
<1>6. CASE FailLoad(l)
  <2>1. faults' \in 0..MaxFaults
    BY <1>1, <1>6, PlayerConstants DEF FailLoad, Fault, TypeOK, network
  <2> QED
    BY <1>1, <1>6, <2>1 DEF FailLoad, TypeOK, ledger, world, network
<1> QED
  BY <1>3, <1>4, <1>5, <1>6

LEMMA TypeStep == PlayerInv /\ [Next]_vars => TypeOK'
<1> SUFFICES ASSUME PlayerInv, [Next]_vars PROVE TypeOK'
  OBVIOUS
<1>1. TypeOK /\ load \in [Loads -> LoadTypes] /\ LedgerTypeOK
  BY LoadTypesKept DEF PlayerInv, TypeOK
<1>2. LedgerTypeOK'
  BY LedgerStep, Invariance DEF PlayerInv, IInv
<1>3. ASSUME load' \in [Loads -> LoadTypes], UNCHANGED <<version, asOf, cached, wall, realtime, recovering>>,
             receipts' \subseteq receipts, note' \in BOOLEAN,
             online' \in BOOLEAN, api' \in BOOLEAN, faults' \in 0..MaxFaults
      PROVE  TypeOK'
  BY <1>1, <1>2, <1>3 DEF TypeOK, LoadTypes, wall, realtime
<1>4. Fault => faults' \in 0..MaxFaults
  BY <1>1, PlayerConstants DEF Fault, TypeOK
<1>5. /\ online \in BOOLEAN /\ api \in BOOLEAN /\ faults \in 0..MaxFaults /\ note \in BOOLEAN
      /\ version \in 1..MaxVersion /\ MaxVersion \in Nat
  BY <1>1, PlayerConstants DEF TypeOK
<1>6. CASE ChangeContent
  <2>1. version' \in 1..MaxVersion
    BY <1>5, <1>6 DEF ChangeContent
  <2>2. note' \in BOOLEAN
    BY <1>5, <1>6 DEF ChangeContent
  <2> QED
    BY <1>1, <1>2, <1>6, <2>1, <2>2
    DEF ChangeContent, TypeOK, LoadTypes, wall, realtime, network
<1>7. CASE \E tell \in BOOLEAN : Push(tell)
  <2>1. PICK tell \in BOOLEAN : Push(tell)
    BY <1>7
  <2>2. asOf' \in [1..MaxRevision -> 0..MaxVersion]
    <3>1. version \in 0..MaxVersion /\ asOf \in [1..MaxRevision -> 0..MaxVersion]
      BY <1>1, <1>5 DEF TypeOK
    <3>2. \A r : [asOf EXCEPT ![r] = version] \in [1..MaxRevision -> 0..MaxVersion]
      BY <3>1
    <3> QED
      BY <2>1, <3>2 DEF Push
  <2>3. note' \in BOOLEAN
    BY <1>5, <2>1 DEF Push
  <2> QED
    BY <1>1, <1>2, <2>1, <2>2, <2>3 DEF Push, TypeOK, LoadTypes, wall, realtime, network
<1>8. CASE \E r \in receipts : ContentReceipt(r) \/ LoseReceipt(r)
  <2>1. PICK r \in receipts : ContentReceipt(r) \/ LoseReceipt(r)
    BY <1>8
  <2>2. CASE ContentReceipt(r)
    BY <1>1, <1>3, <1>5, <2>2 DEF ContentReceipt, world, network
  <2>3. CASE LoseReceipt(r)
    BY <1>1, <1>3, <1>4, <1>5, <2>3 DEF LoseReceipt, world
  <2> QED
    BY <2>1, <2>2, <2>3
<1>9. ASSUME NEW l \in Loads, GetContent(l) \/ Receive(l) \/ Activate(l) \/ FailLoad(l)
      PROVE  TypeOK'
  BY <1>1, <1>2, <1>5, <1>9, LoadStepTypes DEF TypeOK, LoadTypes
<1>10. CASE \E l \in Loads : Poll(l)
  BY <1>1, <1>3, <1>5, <1>10, LoadTypesKept DEF Poll, world, network
<1>11. CASE Notified \/ LinkUp
  BY <1>1, <1>3, <1>5, <1>11, LoadTypesKept DEF Notified, LinkUp, world, network
<1>12. CASE ApiUp \/ GoDown
  BY <1>1, <1>3, <1>4, <1>5, <1>12 DEF ApiUp, GoDown, world
<1>13. CASE Connect
  BY <1>1, <1>2, <1>4, <1>5, <1>13 DEF Connect, TypeOK, LoadTypes, world, wall
<1>14. CASE Disconnect
  BY <1>1, <1>2, <1>4, <1>5, <1>14 DEF Disconnect, TypeOK, LoadTypes, world, wall
<1>15. CASE Reconnect
  BY <1>1, <1>2, <1>4, <1>5, <1>15 DEF Reconnect, TypeOK, LoadTypes, world, wall
<1>16. CASE ApplyRealtimeEvent
  BY <1>1, <1>2, <1>5, <1>16
  DEF ApplyRealtimeEvent, TypeOK, LoadTypes, world, network, realtime
<1>17. CASE CacheExpires
  BY <1>1, <1>2, <1>4, <1>5, <1>17
  DEF CacheExpires, None, TypeOK, LoadTypes, world, wall, realtime
<1>18. CASE Restart
  <2>1. load' \in [Loads -> LoadTypes]
    BY <1>18, NewLoads DEF Restart
  <2>2. 0 \in 0..MaxVersion
    BY <1>5
  <2> QED
    BY <1>1, <1>2, <1>4, <1>5, <1>18, <2>1, <2>2 DEF Restart, None, TypeOK, LoadTypes, world
<1>19. CASE UNCHANGED vars
  BY <1>1, <1>2, <1>5, <1>19 DEF vars, TypeOK, LoadTypes, world, network, wall, realtime
<1> QED
  BY <1>6, <1>7, <1>8, <1>9, <1>10, <1>11, <1>12, <1>13, <1>14, <1>15, <1>16, <1>17, <1>18, <1>19
  DEF Next

-----------------------------------------------------------------------------
(* What is on the glass.                                                   *)

\* Which rows a ledger step makes applied.
LEMMA AppliedByReceipt ==
    ASSUME NEW receipt \in Receipts, Acknowledge(receipt), NEW r \in DOMAIN deliveries',
           deliveries'[r] \in Applied
    PROVE  /\ r \in DOMAIN deliveries
           /\ deliveries[r] \in Applied \/ (r = receipt.revision /\ receipt.state = "Applied")
<1>1. r \in DOMAIN deliveries /\ deliveries' = AfterReceipt(deliveries, receipt)
  BY DEF Acknowledge, AfterReceipt
<1>2. \A was, stale : Answered(was, receipt, stale) \in Applied =>
         was \in Applied \/ receipt.state = "Applied"
  BY DEF Answered, Applied
<1>3. "Superseded" \notin Applied
  BY DEF Applied
<1> QED
  BY <1>1, <1>2, <1>3 DEF AfterReceipt

LEMMA AppliedByIssue ==
    ASSUME IInv, Issue
    PROVE  /\ LatestRevision(deliveries') = LatestRevision(deliveries) + 1
           /\ LatestRevision(deliveries') \in 1..MaxRevision
           /\ \A r \in DOMAIN deliveries' : deliveries'[r] \in Applied =>
                r \in DOMAIN deliveries /\ r <= LatestRevision(deliveries) /\ deliveries[r] \in Applied
<1>1. PICK cut \in 1..(LatestRevision(deliveries) + 1) : deliveries' = AfterIssue(deliveries, cut)
  BY DEF Issue
<1>2. PICK oldest, latest : Ledger(deliveries, oldest, latest)
  BY DEF IInv, LedgerTypeOK, Ledger
<1> DEFINE top == LatestRevision(deliveries)
<1>3. top = (IF oldest <= latest THEN latest ELSE 0) /\ top \in 0..MaxRevision /\ top < MaxRevision
  BY <1>2, LatestOfLedger, LatestOfTyped DEF IInv, Issue
<1>4. oldest \in Nat /\ latest \in Nat /\ DOMAIN deliveries = oldest..latest
  BY <1>2, DeliveryConstants DEF Ledger
<1>5. \A r \in DOMAIN deliveries : r \in Nat /\ r <= top
  BY <1>3, <1>4
<1>6. DOMAIN deliveries' = {q \in DOMAIN deliveries : q >= cut} \cup {top + 1}
  BY <1>1 DEF AfterIssue
<1>7. LatestRevision(deliveries') = top + 1
  <2> DEFINE S == DOMAIN deliveries' \cup {0}
  <2>1. top + 1 \in S /\ S \in SUBSET (0..(top + 1)) /\ top + 1 \in Nat
    BY <1>3, <1>5, <1>6
  <2>2. Max(S) = top + 1
    <3> HIDE DEF S, top
    <3> QED
      BY <2>1, MaxIsTop
  <2> QED
    BY <2>2 DEF LatestRevision
<1>8. \A r \in DOMAIN deliveries' : deliveries'[r] \in Applied =>
         r \in DOMAIN deliveries /\ deliveries[r] \in Applied
  <2> TAKE r \in DOMAIN deliveries'
  <2>1. deliveries'[r] = IF r = top + 1 THEN "Requested"
                         ELSE IF deliveries[r] \in Open THEN "Superseded"
                         ELSE deliveries[r]
    BY <1>1 DEF AfterIssue
  <2>2. "Requested" \notin Applied /\ "Superseded" \notin Applied
    BY DEF Applied
  <2> QED
    BY <1>6, <2>1, <2>2
<1> QED
  BY <1>3, <1>5, <1>7, <1>8, DeliveryConstants

\* A player step that issues nothing and shows nothing older keeps what holds.
LEMMA NothingNewIssued ==
    ASSUME PlayerInv, [Next]_vars, UNCHANGED asOf,
           LatestRevision(deliveries') >= LatestRevision(deliveries),
           rendered' >= rendered, version' >= version,
           \A r \in DOMAIN deliveries' : deliveries'[r] \in Applied =>
              \/ r \in DOMAIN deliveries /\ deliveries[r] \in Applied
              \/ asOf[r] <= rendered,
           \A l \in Loads :
              \/ load'[l] = load[l]
              \/ load'[l].step \in {"idle", "asked"} /\ load'[l].revision = 0
              \/ /\ load'[l].step = "revision"
                 /\ load'[l].revision <= LatestRevision(deliveries)
              \/ /\ load[l].step = "revision" /\ load'[l].step = "answered"
                 /\ load'[l].revision = load[l].revision /\ load'[l].version = version
              \/ /\ load[l].step = "answered" /\ load[l].revision > 0
                 /\ load'[l].step = "received"
                 /\ load'[l].revision = load[l].revision /\ load'[l].version = load[l].version,
           \A r \in receipts' :
              \/ r \in receipts
              \/ r.revision <= LatestRevision(deliveries) /\ r.state = "Received"
              \/ r.revision <= LatestRevision(deliveries) /\ asOf[r.revision] <= rendered'
    PROVE  RevisionsAreOld' /\ AppliedWasRendered'
<1>1. TypeOK /\ TypeOK' /\ RevisionsAreOld /\ AppliedWasRendered
  BY TypeStep DEF PlayerInv
<1>2. /\ LatestRevision(deliveries) \in 0..MaxRevision /\ LatestRevision(deliveries') \in 0..MaxRevision
      /\ MaxRevision \in Nat /\ MaxVersion \in Nat
  <2>1. \E o, l : Ledger(deliveries, o, l)
    BY <1>1 DEF TypeOK, LedgerTypeOK, Ledger
  <2>2. \E o, l : Ledger(deliveries', o, l)
    BY <1>1 DEF TypeOK, LedgerTypeOK, Ledger
  <2> QED
    BY <2>1, <2>2, LatestInRange, DeliveryConstants, PlayerConstants
<1>3. /\ asOf \in [1..MaxRevision -> 0..MaxVersion]
      /\ version \in 0..MaxVersion /\ version' \in 0..MaxVersion
      /\ rendered \in 0..MaxVersion /\ rendered' \in 0..MaxVersion
  BY <1>1, <1>2 DEF TypeOK
<1>4. \A l \in Loads :
        /\ load[l].revision \in 0..MaxRevision /\ load[l].version \in 0..MaxVersion
        /\ load'[l].revision \in 0..MaxRevision /\ load'[l].version \in 0..MaxVersion
  BY <1>1 DEF TypeOK
<1>5. \A r \in receipts \cup receipts' : r.revision \in 1..MaxRevision
  BY <1>1 DEF TypeOK, Receipts
<1>6. \A r \in DOMAIN deliveries' : r \in 1..MaxRevision
  <2>1. PICK oldest, latest : /\ oldest \in 1..(MaxRevision + 1) /\ latest \in 0..MaxRevision
                              /\ DOMAIN deliveries' = oldest..latest
    BY <1>1 DEF TypeOK, LedgerTypeOK
  <2> QED
    BY <1>2, <2>1
<1>7. \A r \in 1..MaxRevision : asOf'[r] <= version'
  BY <1>1, <1>2, <1>3 DEF RevisionsAreOld
<1>8. ASSUME NEW l \in Loads
      PROVE  /\ load'[l].revision <= LatestRevision(deliveries')
             /\ load'[l].step = "received" => load'[l].revision > 0
             /\ load'[l].step \in {"answered", "received"} /\ load'[l].revision > 0 =>
                   asOf'[load'[l].revision] <= load'[l].version
  <2>1. /\ load[l].revision <= LatestRevision(deliveries)
        /\ load[l].step = "received" => load[l].revision > 0
        /\ load[l].step \in {"answered", "received"} /\ load[l].revision > 0 =>
              asOf[load[l].revision] <= load[l].version
    BY <1>1, <1>8 DEF RevisionsAreOld
  <2>2. load[l].revision > 0 => asOf[load[l].revision] <= version
    BY <1>1, <1>2, <1>4, <1>8 DEF RevisionsAreOld
  <2>3. CASE load'[l] = load[l]
    BY <1>2, <1>4, <2>1, <2>3
  <2>4. CASE load'[l].step \in {"idle", "asked"} /\ load'[l].revision = 0
    BY <1>2, <2>4
  <2>5. CASE load'[l].step = "revision" /\ load'[l].revision <= LatestRevision(deliveries)
    BY <1>2, <1>4, <2>5
  <2>6. CASE /\ load[l].step = "revision" /\ load'[l].step = "answered"
             /\ load'[l].revision = load[l].revision /\ load'[l].version = version
    BY <1>2, <1>4, <2>1, <2>2, <2>6
  <2>7. CASE /\ load[l].step = "answered" /\ load[l].revision > 0
             /\ load'[l].step = "received"
             /\ load'[l].revision = load[l].revision /\ load'[l].version = load[l].version
    BY <1>2, <1>4, <2>1, <2>7
  <2> QED
    BY <1>8, <2>3, <2>4, <2>5, <2>6, <2>7
<1>9. ASSUME NEW r \in receipts'
      PROVE  /\ r.revision <= LatestRevision(deliveries')
             /\ r.state = "Applied" => asOf'[r.revision] <= rendered'
  <2>1. r.revision \in 1..MaxRevision /\ asOf[r.revision] \in 0..MaxVersion
    BY <1>3, <1>5, <1>9
  <2>2. r \in receipts => /\ r.revision <= LatestRevision(deliveries)
                          /\ r.state = "Applied" => asOf[r.revision] <= rendered
    BY <1>1 DEF RevisionsAreOld
  <2> QED
    BY <1>2, <1>3, <1>9, <2>1, <2>2
<1>10. RevisionsAreOld'
  BY <1>7, <1>8, <1>9 DEF RevisionsAreOld
<1>11. AppliedWasRendered'
  <2> SUFFICES ASSUME NEW r \in DOMAIN deliveries', deliveries'[r] \in Applied
               PROVE  asOf'[r] <= rendered'
    BY DEF AppliedWasRendered
  <2>1. asOf[r] <= rendered
    BY <1>1 DEF AppliedWasRendered
  <2>2. asOf[r] \in 0..MaxVersion
    BY <1>3, <1>6
  <2> QED
    BY <1>2, <1>3, <2>1, <2>2
<1> QED
  BY <1>10, <1>11

LEMMA PushKeeps ==
    ASSUME PlayerInv, NEW tell \in BOOLEAN, Push(tell)
    PROVE  RevisionsAreOld' /\ AppliedWasRendered'
<1> DEFINE top == LatestRevision(deliveries)
<1>1. TypeOK /\ RevisionsAreOld /\ AppliedWasRendered /\ IInv /\ Issue
  BY DEF PlayerInv, Push
<1>2. /\ LatestRevision(deliveries') = top + 1 /\ top + 1 \in 1..MaxRevision
      /\ \A r \in DOMAIN deliveries' : deliveries'[r] \in Applied =>
            r \in DOMAIN deliveries /\ r <= top /\ deliveries[r] \in Applied
  <2>1. LatestRevision(deliveries') \in 1..MaxRevision
    BY <1>1, AppliedByIssue
  <2> QED
    BY <1>1, <2>1, AppliedByIssue
<1>3. top \in 0..MaxRevision /\ MaxRevision \in Nat
  BY <1>1, LatestOfTyped, DeliveryConstants DEF TypeOK
<1> HIDE DEF top
<1>4. /\ UNCHANGED <<version, load, rendered, receipts>>
      /\ asOf' = [asOf EXCEPT ![top + 1] = version]
  BY <1>2 DEF Push, wall
<1>5. /\ asOf \in [1..MaxRevision -> 0..MaxVersion] /\ version \in 0..MaxVersion
      /\ MaxVersion \in Nat
  BY <1>1, PlayerConstants DEF TypeOK
<1>6. \A r \in 1..MaxRevision : asOf'[r] = IF r = top + 1 THEN version ELSE asOf[r]
  BY <1>4, <1>5
<1>7. \A r \in 1..MaxRevision : asOf'[r] <= version'
  BY <1>1, <1>4, <1>5, <1>6 DEF RevisionsAreOld
<1>8. ASSUME NEW l \in Loads
      PROVE  /\ load'[l].revision <= LatestRevision(deliveries')
             /\ load'[l].step = "received" => load'[l].revision > 0
             /\ load'[l].step \in {"answered", "received"} /\ load'[l].revision > 0 =>
                   asOf'[load'[l].revision] <= load'[l].version
  <2>1. /\ load[l].revision <= top
        /\ load[l].step = "received" => load[l].revision > 0
        /\ load[l].step \in {"answered", "received"} /\ load[l].revision > 0 =>
              asOf[load[l].revision] <= load[l].version
    BY <1>1, <1>8 DEF RevisionsAreOld, top
  <2>2. load[l].revision \in 0..MaxRevision
    BY <1>1, <1>8 DEF TypeOK
  <2>3. load[l].revision > 0 => asOf'[load[l].revision] = asOf[load[l].revision]
    BY <1>3, <1>6, <2>1, <2>2
  <2> QED
    BY <1>2, <1>3, <1>4, <2>1, <2>2, <2>3
<1>9. ASSUME NEW r \in receipts
      PROVE  /\ r.revision <= LatestRevision(deliveries')
             /\ r.state = "Applied" => asOf'[r.revision] <= rendered'
  <2>1. r.revision \in 1..MaxRevision
    BY <1>1, <1>9 DEF TypeOK, Receipts
  <2>2. r.revision <= top /\ (r.state = "Applied" => asOf[r.revision] <= rendered)
    BY <1>1, <1>9 DEF RevisionsAreOld, top
  <2>3. asOf'[r.revision] = asOf[r.revision]
    BY <1>3, <1>6, <2>1, <2>2
  <2> QED
    BY <1>2, <1>3, <1>4, <2>1, <2>2, <2>3
<1>10. RevisionsAreOld'
  BY <1>4, <1>7, <1>8, <1>9 DEF RevisionsAreOld
<1>11. AppliedWasRendered'
  <2> SUFFICES ASSUME NEW r \in DOMAIN deliveries', deliveries'[r] \in Applied
               PROVE  asOf'[r] <= rendered'
    BY DEF AppliedWasRendered
  <2>1. r \in DOMAIN deliveries /\ r <= top /\ deliveries[r] \in Applied
    BY <1>2
  <2>2. asOf[r] <= rendered
    BY <1>1, <2>1 DEF AppliedWasRendered
  <2>3. r \in 1..MaxRevision
    <3>1. PICK oldest, latest : /\ oldest \in 1..(MaxRevision + 1) /\ latest \in 0..MaxRevision
                                /\ DOMAIN deliveries = oldest..latest
      BY <1>1 DEF TypeOK, LedgerTypeOK
    <3> QED
      BY <1>3, <2>1, <3>1
  <2>4. asOf'[r] = asOf[r]
    BY <1>3, <1>6, <2>1, <2>3
  <2> QED
    BY <1>4, <2>2, <2>4
<1> QED
  BY <1>10, <1>11

LEMMA RenderedStep == PlayerInv /\ [Next]_vars => RevisionsAreOld' /\ AppliedWasRendered'
<1> SUFFICES ASSUME PlayerInv, [Next]_vars PROVE RevisionsAreOld' /\ AppliedWasRendered'
  OBVIOUS
<1>1. TypeOK /\ RevisionsAreOld /\ AppliedWasRendered
  BY DEF PlayerInv
<1>2. /\ LatestRevision(deliveries) \in 0..MaxRevision /\ version \in 0..MaxVersion
      /\ rendered \in 0..MaxVersion /\ MaxVersion \in Nat
      /\ load \in [Loads -> LoadTypes]
  BY <1>1, LatestOfTyped, LoadTypesKept, PlayerConstants DEF TypeOK
<1>3. ASSUME UNCHANGED <<deliveries, asOf>>, rendered' >= rendered, version' >= version,
             \A l \in Loads :
              \/ load'[l] = load[l]
              \/ load'[l].step \in {"idle", "asked"} /\ load'[l].revision = 0
              \/ /\ load'[l].step = "revision"
                 /\ load'[l].revision <= LatestRevision(deliveries)
              \/ /\ load[l].step = "revision" /\ load'[l].step = "answered"
                 /\ load'[l].revision = load[l].revision /\ load'[l].version = version
              \/ /\ load[l].step = "answered" /\ load[l].revision > 0
                 /\ load'[l].step = "received"
                 /\ load'[l].revision = load[l].revision /\ load'[l].version = load[l].version,
             \A r \in receipts' :
              \/ r \in receipts
              \/ r.revision <= LatestRevision(deliveries) /\ r.state = "Received"
              \/ r.revision <= LatestRevision(deliveries) /\ asOf[r.revision] <= rendered'
      PROVE  RevisionsAreOld' /\ AppliedWasRendered'
  <2>1. LatestRevision(deliveries') >= LatestRevision(deliveries)
    BY <1>2, <1>3
  <2>2. \A r \in DOMAIN deliveries' : deliveries'[r] \in Applied =>
           r \in DOMAIN deliveries /\ deliveries[r] \in Applied
    BY <1>3
  <2> QED
    BY <1>3, <2>1, <2>2, NothingNewIssued
<1>4. rendered >= rendered /\ version >= version
  BY <1>2
<1>5. \A l \in Loads : StartLoad(l) =>
         \A k \in Loads : load'[k] = load[k] \/ (load'[k].step = "asked" /\ load'[k].revision = 0)
  BY <1>2, NewLoads DEF StartLoad
<1>6. CASE ChangeContent
  BY <1>2, <1>3, <1>4, <1>6 DEF ChangeContent, ledger, wall
<1>7. CASE \E tell \in BOOLEAN : Push(tell)
  BY <1>7, PushKeeps
<1>8. ASSUME NEW r \in receipts, ContentReceipt(r)
      PROVE  RevisionsAreOld' /\ AppliedWasRendered'
  <2>1. r \in Receipts /\ Acknowledge(r) /\ UNCHANGED <<asOf, version, rendered, load>>
    BY <1>1, <1>8 DEF TypeOK, ContentReceipt, world, wall
  <2>2. LatestRevision(deliveries') >= LatestRevision(deliveries)
    <3>1. [LedgerNext]_ledger
      BY LedgerStep DEF PlayerInv
    <3> QED
      BY <3>1, Invariance DEF PlayerInv, Advances
  <2>3. \A q \in DOMAIN deliveries' : deliveries'[q] \in Applied =>
           \/ q \in DOMAIN deliveries /\ deliveries[q] \in Applied
           \/ asOf[q] <= rendered
    BY <1>1, <1>8, <2>1, AppliedByReceipt DEF RevisionsAreOld
  <2>4. receipts' \subseteq receipts
    BY <1>8 DEF ContentReceipt
  <2> QED
    BY <1>4, <2>1, <2>2, <2>3, <2>4, NothingNewIssued
<1>9. ASSUME NEW r \in receipts, LoseReceipt(r)
      PROVE  RevisionsAreOld' /\ AppliedWasRendered'
  BY <1>3, <1>4, <1>9 DEF LoseReceipt, ledger, world, wall
<1>10. ASSUME NEW l \in Loads, GetContent(l)
       PROVE  RevisionsAreOld' /\ AppliedWasRendered'
  <2>1. UNCHANGED <<deliveries, asOf, version, rendered, receipts>>
    BY <1>10 DEF GetContent, ledger, world, wall
  <2>2. \A k \in Loads \ {l} : load'[k] = load[k]
    BY <1>2, <1>10 DEF GetContent
  <2>3. \/ load'[l].step = "revision" /\ load'[l].revision = LatestRevision(deliveries)
        \/ /\ load[l].step = "revision" /\ load'[l].step = "answered"
           /\ load'[l].revision = load[l].revision /\ load'[l].version = version
    BY <1>2, <1>10 DEF GetContent, LoadTypes
  <2>4. LatestRevision(deliveries) <= LatestRevision(deliveries)
    BY <1>2
  <2> QED
    BY <1>3, <1>4, <2>1, <2>2, <2>3, <2>4
<1>11. ASSUME NEW l \in Loads, Receive(l)
       PROVE  RevisionsAreOld' /\ AppliedWasRendered'
  <2>1. UNCHANGED <<deliveries, asOf, version, rendered>>
    BY <1>11 DEF Receive, ledger, world, wall
  <2>2. \A k \in Loads \ {l} : load'[k] = load[k]
    BY <1>2, <1>11 DEF Receive
  <2>3. /\ load[l].step = "answered" /\ load[l].revision > 0
        /\ load'[l].step = "received"
        /\ load'[l].revision = load[l].revision /\ load'[l].version = load[l].version
    BY <1>2, <1>11 DEF Receive, LoadTypes
  <2>4. load[l].revision <= LatestRevision(deliveries) /\ recovering \in BOOLEAN
    BY <1>1 DEF RevisionsAreOld, TypeOK
  <2>5. \A r \in receipts' : r \in receipts \/ (r.revision = load[l].revision /\ r.state = "Received")
    <3> DEFINE new == [Receipt(l, "Received") EXCEPT !.recovered = recovering]
    <3>1. receipts' = receipts \cup {new}
      BY <1>11 DEF Receive
    <3>2. "Received" \in {"Received", "Applied"}
      OBVIOUS
    <3>3. new.state = "Received" /\ new.revision = load[l].revision
      BY <1>1, <2>3, <2>4, <3>2, ReceiptTypes
    <3> QED
      BY <3>1, <3>3
  <2> QED
    BY <1>3, <1>4, <2>1, <2>2, <2>3, <2>4, <2>5
<1>12. ASSUME NEW l \in Loads, Activate(l)
       PROVE  RevisionsAreOld' /\ AppliedWasRendered'
  <2>1. UNCHANGED <<deliveries, asOf, version>>
    BY <1>12 DEF Activate, ledger, world
  <2>2. \A k \in Loads : load'[k] = load[k] \/ (load'[k].step = "idle" /\ load'[k].revision = 0)
    BY <1>2, <1>12, NewLoads DEF Activate
  <2>3. load[l].version \in 0..MaxVersion /\ load[l].revision \in 0..MaxRevision
    BY <1>2 DEF LoadTypes
  <2>4. rendered' >= rendered /\ rendered' >= load[l].version /\ rendered' \in 0..MaxVersion
    BY <1>2, <1>12, <2>3, NewerOfTwo DEF Activate
  <2>5. \A r \in receipts' : \/ r \in receipts
                             \/ /\ r.revision <= LatestRevision(deliveries)
                                /\ asOf[r.revision] <= rendered'
    <3>1. CASE load[l].step = "received"
      <4>1. /\ load[l].revision > 0 /\ load[l].revision <= LatestRevision(deliveries)
            /\ asOf[load[l].revision] <= load[l].version
        BY <1>1, <3>1 DEF RevisionsAreOld
      <4>2. asOf[load[l].revision] \in 0..MaxVersion
        BY <1>1, <2>3, <4>1 DEF TypeOK
      <4>3. asOf[load[l].revision] <= rendered'
        BY <1>2, <2>3, <2>4, <4>1, <4>2
      <4>4. Receipt(l, "Applied").revision = load[l].revision
        BY DEF Receipt
      <4> QED
        BY <1>12, <3>1, <4>1, <4>3, <4>4 DEF Activate
    <3>2. CASE load[l].step # "received"
      BY <1>12, <3>2 DEF Activate
    <3> QED
      BY <3>1, <3>2
  <2> QED
    BY <1>3, <1>4, <2>1, <2>2, <2>4, <2>5
<1>13. ASSUME NEW l \in Loads, FailLoad(l)
       PROVE  RevisionsAreOld' /\ AppliedWasRendered'
  <2>1. \A k \in Loads : load'[k] = load[k] \/ (load'[k].step = "idle" /\ load'[k].revision = 0)
    BY <1>2, <1>13, NewLoads DEF FailLoad
  <2> QED
    BY <1>3, <1>4, <1>13, <2>1 DEF FailLoad, ledger, world
<1>14. CASE (\E l \in Loads : Poll(l)) \/ Notified \/ LinkUp
  BY <1>3, <1>4, <1>5, <1>14 DEF Poll, Notified, LinkUp, ledger, world, wall
<1>15. CASE Connect \/ Disconnect \/ Reconnect
  BY <1>3, <1>4, <1>15 DEF Connect, Disconnect, Reconnect, ledger, world, wall
<1>16. CASE ApplyRealtimeEvent \/ CacheExpires
  BY <1>3, <1>4, <1>16 DEF ApplyRealtimeEvent, CacheExpires, ledger, world, wall
<1>17. CASE ApiUp \/ GoDown
  BY <1>3, <1>4, <1>17 DEF ApiUp, GoDown, ledger, world, wall
<1>18. CASE Restart
  <2>1. \A k \in Loads : load'[k].step \in {"idle", "asked"} /\ load'[k].revision = 0
    BY <1>18, NewLoads DEF Restart
  <2> QED
    BY <1>3, <1>4, <1>18, <2>1 DEF Restart, ledger, world
<1>19. CASE UNCHANGED vars
  BY <1>3, <1>4, <1>19 DEF vars, ledger, world, wall
<1> QED
  BY <1>6, <1>7, <1>8, <1>9, <1>10, <1>11, <1>12, <1>13, <1>14, <1>15, <1>16, <1>17, <1>18, <1>19
  DEF Next

-----------------------------------------------------------------------------
(* What the viewer is told.                                                *)

LEMMA BannerStep == PlayerInv /\ [Next]_vars => NeverFalselyLive'
<1> SUFFICES ASSUME NeverFalselyLive, [Next]_vars, banner' = "connected" PROVE conn' = "connected"
  BY DEF PlayerInv, NeverFalselyLive
<1> USE DEF NeverFalselyLive
<1>1. ASSUME UNCHANGED realtime PROVE conn' = "connected"
  BY <1>1 DEF realtime
<1>2. CASE Connect \/ Disconnect \/ Reconnect \/ Restart
  BY <1>2 DEF Connect, Disconnect, Reconnect, Restart
<1>3. CASE \E l \in Loads : Activate(l)
  BY <1>3 DEF Activate, StartLiveServices
<1>4. CASE \E l \in Loads : FailLoad(l)
  BY <1>4 DEF FailLoad
<1>5. CASE ChangeContent \/ \E tell \in BOOLEAN : Push(tell)
  BY <1>1, <1>5 DEF ChangeContent, Push
<1>6. CASE \E r \in receipts : ContentReceipt(r) \/ LoseReceipt(r)
  BY <1>1, <1>6 DEF ContentReceipt, LoseReceipt
<1>7. CASE \E l \in Loads : GetContent(l) \/ Receive(l) \/ Poll(l)
  BY <1>1, <1>7 DEF GetContent, Receive, Poll
<1>8. CASE Notified \/ ApplyRealtimeEvent \/ GoDown \/ ApiUp \/ LinkUp \/ CacheExpires
  BY <1>1, <1>8 DEF Notified, ApplyRealtimeEvent, GoDown, ApiUp, LinkUp, CacheExpires
<1>9. CASE UNCHANGED vars
  BY <1>1, <1>9 DEF vars
<1> QED
  BY <1>2, <1>3, <1>4, <1>5, <1>6, <1>7, <1>8, <1>9 DEF Next

LEMMA PlayerInvariant == Spec => []PlayerInv
<1>1. PlayerInv /\ [Next]_vars => PlayerInv'
  <2> SUFFICES ASSUME PlayerInv, [Next]_vars PROVE PlayerInv'
    OBVIOUS
  <2>1. IInv'
    BY LedgerStep, Invariance DEF PlayerInv
  <2> QED
    BY <2>1, TypeStep, RenderedStep, BannerStep DEF PlayerInv
<1> QED
  BY <1>1, InitPlayerInv, PTL DEF Spec

-----------------------------------------------------------------------------

\* The ledger and the player have their types in every state the player reaches.
THEOREM PlayerTypes == Spec => []TypeOK
<1>1. PlayerInv => TypeOK
  BY DEF PlayerInv
<1> QED
  BY <1>1, PlayerInvariant, PTL

\* The player drives the ledger as ScreenDelivery allows, so everything proved of
\* the ledger holds of a screen with its player.
THEOREM PlayerRunsTheLedger == Spec => LedgerSpec
<1>1. Init => LedgerInit
  BY DEF Init
<1>2. PlayerInv /\ [Next]_vars => [LedgerNext]_ledger
  BY LedgerStep DEF PlayerInv
<1> QED
  BY <1>1, <1>2, PlayerInvariant, PTL DEF Spec, LedgerSpec

\* GetContent reads the revision before it composes the content, and the receipt
\* leaves after the rendering: what is recorded as applied was on the glass.
THEOREM AppliedWasOnTheGlass == Spec => []AppliedWasRendered
<1>1. PlayerInv => AppliedWasRendered
  BY DEF PlayerInv
<1> QED
  BY <1>1, PlayerInvariant, PTL

\* No order of loads, outages, reconnections and restarts announces live updates
\* that do not arrive (setConnectionState in DisplayPage).
THEOREM BannerIsHonest == Spec => []NeverFalselyLive
<1>1. PlayerInv => NeverFalselyLive
  BY DEF PlayerInv
<1> QED
  BY <1>1, PlayerInvariant, PTL
=============================================================================
