---------------------------- MODULE ScreenDelivery ----------------------------
(***************************************************************************)
(* The delivery ledger of one screen: the content revisions pushed to it   *)
(* and the receipts its player sends back.  IssueAsync and                 *)
(* AcknowledgeAsync are one serializable transaction each, so each is one  *)
(* action; receipts come late, twice, out of order, from a player that was *)
(* replaced, or never.                                                     *)
(***************************************************************************)
EXTENDS Integers, FiniteSets, FiniteSetsExt

CONSTANTS
    MaxRevision,    \* pushes to the screen (a bound)
    MaxKey          \* screen keys in turn, one per replacement (a bound)

ASSUME DeliveryConstants == MaxRevision \in Nat /\ MaxKey \in Nat \ {0}

Open    == {"Requested", "Received"}
Applied == {"Applied", "Recovered"}
States  == Open \cup Applied \cup {"Failed", "Superseded"}

Receipts == [revision : 1..MaxRevision, state : {"Received", "Applied", "Failed"},
             key : 1..MaxKey, recovered : BOOLEAN]

VARIABLES
    deliveries,     \* ScreenContentDeliveries of the screen: revision -> State
    status,         \* "Paired" (Online or Offline), "Unpaired", "Archived"
    key             \* the screen's current ScreenKey

ledger == <<deliveries, status, key>>

LatestRevision(rows)  == Max(DOMAIN rows \cup {0})
AppliedRevision(rows) == Max({r \in DOMAIN rows : rows[r] \in Applied} \cup {0})

LedgerInit ==
    /\ deliveries = [r \in {} |-> "Requested"]
    /\ status = "Paired"
    /\ key = 1

\* Mutant: The supersession of the open rows left out of the push.
IssueLeavingOpenRows(rows, oldest) ==
    LET next == LatestRevision(rows) + 1
    IN  [r \in {q \in DOMAIN rows : q >= oldest} \cup {next} |->
            IF r = next THEN "Requested" ELSE rows[r]]

\* Mutant: The next revision taken from the number of rows that are left.
IssueCounting(rows, oldest) ==
    LET kept == {q \in DOMAIN rows : q >= oldest}
        next == Cardinality(kept) + 1
    IN  [r \in kept \cup {next} |->
            IF r = next THEN "Requested"
            ELSE IF rows[r] \in Open THEN "Superseded"
            ELSE rows[r]]

\* The row of the next revision, everything open superseded by it, and the
\* rows requested more than 90 days ago, a prefix of the ledger, deleted.
AfterIssue(rows, oldest) ==
    LET next == LatestRevision(rows) + 1
    IN  [r \in {q \in DOMAIN rows : q >= oldest} \cup {next} |->
            IF r = next THEN "Requested"
            ELSE IF rows[r] \in Open THEN "Superseded"
            ELSE rows[r]]

Issue ==
    /\ status = "Paired"
    /\ LatestRevision(deliveries) < MaxRevision
    /\ \E oldest \in 1..(LatestRevision(deliveries) + 1) :
          deliveries' = AfterIssue(deliveries, oldest)
    /\ UNCHANGED <<status, key>>

\* Mutant: A receipt compared with what was applied only.
StaleIfBelowApplied(rows, receipt) == receipt.revision < AppliedRevision(rows)

Stale(rows, receipt) ==
    \/ receipt.revision < LatestRevision(rows)
    \/ receipt.revision < AppliedRevision(rows)

\* Mutant: A failure accepted whatever the row's state.
FailureAlwaysCounts(was, receipt, stale) ==
    CASE stale /\ was \in Open -> "Superseded"
      [] ~stale /\ receipt.state = "Received" /\ was = "Requested" -> "Received"
      [] ~stale /\ receipt.state = "Applied" /\ was \notin Applied -> "Applied"
      [] ~stale /\ receipt.state = "Failed" -> "Failed"
      [] OTHER -> was

\* Mutant: A late 'received' accepted after a failure.
ReceivedAfterFailure(was, receipt, stale) ==
    CASE stale /\ was \in Open -> "Superseded"
      [] ~stale /\ receipt.state = "Received" /\ was \notin Applied -> "Received"
      [] ~stale /\ receipt.state = "Applied" /\ was \notin Applied -> "Applied"
      [] ~stale /\ receipt.state = "Failed" /\ was \in Open -> "Failed"
      [] OTHER -> was

\* What the receipt makes of the row it names.
Answered(was, receipt, stale) ==
    CASE stale /\ was \in Open -> "Superseded"
      [] ~stale /\ receipt.state = "Received" /\ was = "Requested" -> "Received"
      [] ~stale /\ receipt.state = "Applied" /\ was \notin Applied ->
            IF receipt.recovered THEN "Recovered" ELSE "Applied"
      [] ~stale /\ receipt.state = "Failed" /\ was \in Open -> "Failed"
      [] OTHER -> was

AfterReceipt(rows, receipt) ==
    [r \in DOMAIN rows |->
        IF receipt.revision \notin DOMAIN rows THEN rows[r]
        ELSE IF r = receipt.revision THEN Answered(rows[r], receipt, Stale(rows, receipt))
        ELSE IF /\ r < receipt.revision /\ rows[r] \in Open
                /\ receipt.state = "Applied" /\ ~Stale(rows, receipt)
             THEN "Superseded"
        ELSE rows[r]]

\* A receipt with another key than the screen's, or of an archived screen, is 404.
Acknowledge(receipt) ==
    /\ status # "Archived" /\ receipt.key = key
    /\ deliveries' = AfterReceipt(deliveries, receipt)
    /\ UNCHANGED <<status, key>>

SetArchived(archived) ==
    /\ status # "Unpaired"
    /\ status' = IF archived THEN "Archived" ELSE "Paired"
    /\ UNCHANGED <<deliveries, key>>

Unpair ==
    /\ status # "Unpaired"
    /\ status' = "Unpaired"
    /\ UNCHANGED <<deliveries, key>>

\* A pairing code of the screen is claimed for the venue again.
Pair ==
    /\ status = "Unpaired"
    /\ status' = "Paired"
    /\ UNCHANGED <<deliveries, key>>

\* A new player takes the screen over with the key it registered with.
Replace ==
    /\ status = "Paired" /\ key < MaxKey
    /\ key' = key + 1
    /\ UNCHANGED <<deliveries, status>>

LedgerNext ==
    \/ Issue
    \/ \E receipt \in Receipts : Acknowledge(receipt)
    \/ \E archived \in BOOLEAN : SetArchived(archived)
    \/ Unpair
    \/ Pair
    \/ Replace

LedgerSpec == LedgerInit /\ [][LedgerNext]_ledger

-----------------------------------------------------------------------------
(* Properties.                                                             *)

\* The ledger is a run of consecutive revisions, each in a state the CHECK
\* constraint allows.
LedgerTypeOK ==
    /\ \E oldest \in 1..(MaxRevision + 1), latest \in 0..MaxRevision :
          deliveries \in [oldest..latest -> States]
    /\ status \in {"Paired", "Unpaired", "Archived"}
    /\ key \in 1..MaxKey

\* Only the latest revision can still be awaited: whatever order pushes and
\* receipts come in, an older row is never left open for a player to answer.
OutstandingIsLatest ==
    \A r \in DOMAIN deliveries :
        deliveries[r] \in Open => r = LatestRevision(deliveries)

\* Any two receipts of the current player have the same effect in either
\* order, so a late, duplicated or reordered receipt cannot undo what the
\* other one recorded.  (A player does not change its mind about recovered.)
ReceiptsCommute ==
    \A a, b \in {r \in Receipts : r.key = key} :
        a.recovered = b.recovered =>
            AfterReceipt(AfterReceipt(deliveries, a), b)
                = AfterReceipt(AfterReceipt(deliveries, b), a)

\* What is decided stays decided: an applied or superseded row keeps its state
\* as long as it is there, and a failed one can only turn out applied.
DecisionsStand ==
    [][\A r \in DOMAIN deliveries \cap DOMAIN deliveries' :
          /\ deliveries[r] \in Applied \cup {"Superseded"} => deliveries'[r] = deliveries[r]
          /\ deliveries[r] = "Failed" => deliveries'[r] \in Applied \cup {"Failed"}]_ledger

\* A revision becomes applied only while it is the authoritative one: a late
\* receipt never claims an obsolete push.
OnlyTheLatestIsApplied ==
    [][\A r \in DOMAIN deliveries' :
          deliveries'[r] \in Applied /\ (r \in DOMAIN deliveries => deliveries[r] \notin Applied)
             => r = LatestRevision(deliveries)]_ledger

\* The revision numbers a screen is given only grow, whatever is deleted.
RevisionsGrow == [][LatestRevision(deliveries') >= LatestRevision(deliveries)]_ledger
=============================================================================
