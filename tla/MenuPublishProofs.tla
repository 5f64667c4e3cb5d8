-------------------------- MODULE MenuPublishProofs --------------------------
(***************************************************************************)
(* Proofs about the publish core, for any set of menus, screens, requests  *)
(* and values and any bound: the requests and the log of published boards  *)
(* first, then the shelf, the pages and the screens a menu is assigned to  *)
(* or published on, and last that the core implements VenueWall.           *)
(***************************************************************************)
EXTENDS MenuPublish, FiniteSetTheorems, WellFoundedInduction, TLAPS

-----------------------------------------------------------------------------
(* Types.  A discard restores the board it read, so that one is not Null.  *)

RequestOK ==
    \A c \in Clients :
        /\ pc[c] # "idle" => req[c].menu \in Menus
        /\ pc[c] \in {"discardCount", "discardRestore"} => req[c].base \in Boards

TypeInv == TypeOK /\ RequestOK

LEMMA WorkingBoardType ==
    ASSUME TypeOK, NEW m \in Menus
    PROVE  WorkingBoard(m) \in Boards
  BY DEF TypeOK, WorkingBoard, Boards, OwnAssigned

LEMMA LatestBoardType ==
    ASSUME TypeOK, NEW m \in Menus
    PROVE  /\ LatestBoard(m) \in MaybeBoards
           /\ log[m] # << >> => LatestBoard(m) \in Boards
           /\ LatestVersion(m) \in Nat
<1>1. log[m] \in Seq(Events)
  BY DEF TypeOK
<1>2. LatestVersion(m) \in Nat
  BY <1>1 DEF LatestVersion
<1>3. ASSUME log[m] # << >> PROVE log[m][Len(log[m])] \in Events
  BY <1>1, <1>3
<1>4. log[m] # << >> => LatestBoard(m) \in Boards
  BY <1>3 DEF LatestBoard, Events
<1> QED
  BY <1>2, <1>4 DEF LatestBoard, MaybeBoards

LEMMA ScreensOfBoards ==
    ASSUME NEW b \in MaybeBoards
    PROVE  BoardScreens(b) \subseteq Screens
  BY NullIsNull DEF BoardScreens, MaybeBoards, Boards

LEMMA TargetsType ==
    ASSUME TypeOK, NEW m \in Menus
    PROVE  Targets(m) \subseteq Screens
<1>1. BoardScreens(LatestBoard(m)) \subseteq Screens
  BY LatestBoardType, ScreensOfBoards
<1>2. OwnScreens(m) \subseteq Screens
  BY DEF TypeOK, OwnScreens, OwnAssigned
<1> QED
  BY <1>1, <1>2 DEF Targets

LEMMA SupersededType ==
    ASSUME NEW events \in Seq(Events), NEW version \in Nat
    PROVE  /\ Superseded(events, version) \in Seq(Events)
           /\ Len(Superseded(events, version)) = Len(events)
           /\ \A v \in 1..Len(events) :
                /\ Superseded(events, version)[v] \in Events
                /\ Superseded(events, version)[v].board = events[v].board
                /\ Superseded(events, version)[v].shipped = events[v].shipped
                /\ Superseded(events, version)[v].stamp = events[v].stamp
                /\ Superseded(events, version)[v].targets = events[v].targets
                /\ Superseded(events, version)[v].replacedBy =
                     IF events[v].replacedBy = 0 THEN version ELSE events[v].replacedBy
<1> DEFINE new == Superseded(events, version)
<1>1. DOMAIN events = 1..Len(events) /\ Len(events) \in Nat
  OBVIOUS
<1>2. \A v \in 1..Len(events) : events[v] \in Events
  OBVIOUS
<1>3. \A v \in 1..Len(events) :
        new[v] = IF events[v].replacedBy = 0
                 THEN [events[v] EXCEPT !.replacedBy = version] ELSE events[v]
  BY <1>1 DEF Superseded
<1>4. \A v \in 1..Len(events) :
        /\ new[v] \in Events
        /\ new[v].board = events[v].board
        /\ new[v].shipped = events[v].shipped
        /\ new[v].stamp = events[v].stamp
        /\ new[v].targets = events[v].targets
        /\ new[v].replacedBy =
             IF events[v].replacedBy = 0 THEN version ELSE events[v].replacedBy
  BY <1>2, <1>3 DEF Events
<1>5. new \in Seq(Events) /\ Len(new) = Len(events)
  <2>1. new = [v \in 1..Len(events) |-> new[v]]
    BY <1>1 DEF Superseded
  <2> QED
    BY <2>1, <1>1, <1>4
<1> HIDE DEF new
<1> QED
  BY <1>4, <1>5 DEF new

\* A restore writes a board's pages, value and screens.
LEMMA RestoreType ==
    ASSUME TypeOK, NEW m \in Menus, NEW b \in Boards, RestoreSnapshot(m, b)
    PROVE  /\ pages' \subseteq Pages
           /\ library' \in Values
           /\ assigned' \subseteq Screens \X Pages
           /\ shelf' = shelf /\ log' = log /\ publishedVersion' = publishedVersion
  BY DEF TypeOK, RestoreSnapshot, Boards, published

LEMMA NewEventType ==
    ASSUME TypeOK, NEW c \in Clients, req[c].menu \in Menus
    PROVE  NewEvent(c) \in Events
<1>1. WorkingBoard(req[c].menu) \in Boards
  BY WorkingBoardType
<1>2. Targets(req[c].menu) \subseteq Screens
  BY TargetsType
<1>3. req[c].base \in MaybeBoards /\ req[c].work \in MaybeBoards /\ req[c].stamp \in Nat
  BY DEF TypeOK, Requests
<1> QED
  BY <1>1, <1>2, <1>3 DEF NewEvent, Events

\* What every published menu's next log looks like.
LEMMA CommitLog ==
    ASSUME TypeInv, NEW c \in Clients, CommitPublish(c)
    PROVE  LET m == req[c].menu
               n == Len(log[m]) IN
           /\ m \in Menus /\ n \in Nat
           /\ log' = [log EXCEPT ![m] = Append(Superseded(log[m], n + 1), NewEvent(c))]
           /\ log'[m] \in Seq(Events)
           /\ Len(log'[m]) = n + 1
           /\ log'[m][n + 1] = NewEvent(c)
           /\ \A v \in 1..n : log'[m][v] = Superseded(log[m], n + 1)[v]
           /\ \A k \in Menus \ {m} : log'[k] = log[k]
<1> DEFINE m == req[c].menu
           n == Len(log[m])
           old == Superseded(log[m], n + 1)
<1>1. m \in Menus
  BY DEF TypeInv, RequestOK, CommitPublish
<1>2. log[m] \in Seq(Events) /\ n \in Nat /\ log \in [Menus -> Seq(Events)]
  BY <1>1 DEF TypeInv, TypeOK
<1>3. old \in Seq(Events) /\ Len(old) = n
  BY <1>2, SupersededType
<1>4. NewEvent(c) \in Events
  BY <1>1, NewEventType DEF TypeInv
<1>5. log' = [log EXCEPT ![m] = Append(old, NewEvent(c))]
  BY DEF CommitPublish, LatestVersion
<1>6. log'[m] = Append(old, NewEvent(c)) /\ \A k \in Menus \ {m} : log'[k] = log[k]
  BY <1>1, <1>2, <1>5
<1> HIDE DEF old, n, m
<1>7. /\ Append(old, NewEvent(c)) \in Seq(Events)
      /\ Len(Append(old, NewEvent(c))) = n + 1
      /\ Append(old, NewEvent(c))[n + 1] = NewEvent(c)
      /\ \A v \in 1..n : Append(old, NewEvent(c))[v] = old[v]
  BY <1>2, <1>3, <1>4
<1> QED
  BY <1>1, <1>2, <1>5, <1>6, <1>7 DEF old, n, m

-----------------------------------------------------------------------------
(* Type correctness.                                                       *)

LEMMA FinishType ==
    ASSUME TypeInv, NEW c \in Clients, Finish(c)
    PROVE  /\ pc' \in [Clients -> Steps] /\ req' \in [Clients -> Requests]
           /\ clock' = clock /\ started' = started
           /\ RequestOK'
<1>1. NoRequest \in Requests
  BY DEF NoRequest, Request, Requests, MaybeBoards
<1> QED
  BY <1>1 DEF TypeInv, TypeOK, RequestOK, Finish, Goto, Steps

LEMMA TypeInit == Init => TypeInv
<1>1. NoRequest \in Requests
  BY DEF NoRequest, Request, Requests, MaybeBoards
<1>2. << >> \in Seq(Events)
  OBVIOUS
<1> QED
  BY <1>1, <1>2 DEF Init, TypeInv, TypeOK, RequestOK, Steps

LEMMA EditMenusType == TypeInv /\ EditMenus => TypeInv'
<1> SUFFICES ASSUME TypeInv, EditMenus PROVE TypeInv'
  OBVIOUS
<1> USE DEF TypeInv, TypeOK
<1>1. ASSUME NEW m \in Menus, CreateMenu(m) \/ PutAway(m) \/ PutBack(m) \/ TakeOffScreens(m)
      PROVE  TypeInv'
  <2>1. CASE CreateMenu(m)
    <3>1. <<m, 1>> \in Pages
      BY PublishConstants DEF Pages
    <3> QED
      BY <2>1, <3>1 DEF CreateMenu, published, requests, RequestOK
  <2>2. CASE PutAway(m)
    BY <2>2 DEF PutAway, published, requests, RequestOK
  <2>3. CASE PutBack(m)
    BY <2>3 DEF PutBack, published, requests, RequestOK
  <2>4. CASE TakeOffScreens(m)
    BY <2>4 DEF TakeOffScreens, OwnAssigned, published, requests, RequestOK
  <2> QED
    BY <1>1, <2>1, <2>2, <2>3, <2>4
<1>2. ASSUME NEW src \in Menus, NEW m \in Menus, DuplicateMenu(src, m)
      PROVE  TypeInv'
  <2>1. {<<m, i>> : i \in {j \in 1..PagesPerMenu : <<src, j>> \in pages}} \subseteq Pages
    <3>1. \A i \in 1..PagesPerMenu : <<m, i>> \in Pages
      BY DEF Pages
    <3> QED
      BY <3>1
  <2> QED
    BY <1>2, <2>1 DEF DuplicateMenu, published, requests, RequestOK
<1>3. ASSUME NEW p \in Pages, CreatePage(p) \/ DeletePage(p)
      PROVE  TypeInv'
  BY <1>3 DEF CreatePage, DeletePage, published, requests, RequestOK
<1>4. ASSUME NEW value \in Values, EditItem(value)
      PROVE  TypeInv'
  BY <1>4 DEF EditItem, published, requests, RequestOK
<1>5. ASSUME NEW m \in Menus, NEW v \in 1..MaxRequests, GoBackTo(m, v)
      PROVE  TypeInv'
  <2>1. log[m][v].board \in Boards
    <3>1. log[m] \in Seq(Events) /\ v \in 1..Len(log[m])
      BY <1>5 DEF GoBackTo
    <3>2. log[m][v] \in Events
      BY <3>1
    <3> QED
      BY <3>2 DEF Events
  <2>2. RestoreSnapshot(m, log[m][v].board) /\ UNCHANGED requests
    BY <1>5 DEF GoBackTo
  <2>3. /\ pages' \subseteq Pages
        /\ library' \in Values
        /\ assigned' \subseteq Screens \X Pages
        /\ shelf' = shelf /\ log' = log /\ publishedVersion' = publishedVersion
    BY <2>1, <2>2, RestoreType
  <2> QED
    BY <2>2, <2>3 DEF requests, RequestOK
<1> QED
  BY <1>1, <1>2, <1>3, <1>4, <1>5 DEF EditMenus

LEMMA AssignType == TypeInv /\ Assign => TypeInv'
<1> SUFFICES ASSUME TypeInv, Assign PROVE TypeInv'
  OBVIOUS
<1> USE DEF TypeInv, TypeOK
<1>1. ASSUME NEW s \in Screens, NEW p \in Pages, NEW rotate \in BOOLEAN,
             AssignScreen(s, p, rotate)
      PROVE  TypeInv'
  BY <1>1 DEF AssignScreen, published, requests, RequestOK
<1>2. ASSUME NEW s \in Screens, NEW p \in Pages, ClearPageScreenAssignment(s, p)
      PROVE  TypeInv'
  BY <1>2 DEF ClearPageScreenAssignment, published, requests, RequestOK
<1>3. ASSUME NEW m \in Menus, NEW remove, NEW replace \in SUBSET (Screens \X PagesOf(m)),
             NEW rotate \in SUBSET (Screens \X PagesOf(m)),
             ApplyPageScreenAssignments(m, remove, replace, rotate)
      PROVE  TypeInv'
  <2>1. replace \subseteq Screens \X Pages /\ rotate \subseteq Screens \X Pages
    BY DEF PagesOf, Pages
  <2> QED
    BY <1>3, <2>1 DEF ApplyPageScreenAssignments, published, requests, RequestOK
<1> QED
  BY <1>1, <1>2, <1>3 DEF Assign

LEMMA RequestType ==
    ASSUME TypeInv, NEW c \in Clients,
           \/ \E m \in Menus : StartPublish(c, m) \/ StartDiscard(c, m)
           \/ Continue(c) \/ Abandon(c)
    PROVE  TypeInv'
<1> USE DEF TypeInv, TypeOK
<1>1. ASSUME NEW m \in Menus, StartPublish(c, m) PROVE TypeInv'
  <2>1. Request(m, 1, Null) \in Requests /\ Request(m, 1, Null).menu = m
    BY DEF Request, Requests, MaybeBoards
  <2> QED
    BY <1>1, <2>1 DEF StartPublish, Goto, Steps, draft, published, RequestOK
<1>2. ASSUME NEW m \in Menus, StartDiscard(c, m) PROVE TypeInv'
  <2>1. LatestBoard(m) \in Boards
    BY <1>2, LatestBoardType DEF StartDiscard
  <2> DEFINE r == Request(m, 1, LatestBoard(m))
  <2>2. r \in Requests /\ r.menu = m /\ r.base \in Boards
    BY <2>1 DEF Request, Requests, MaybeBoards
  <2>3. req' = [req EXCEPT ![c] = r]
    BY <1>2 DEF StartDiscard
  <2> HIDE DEF r
  <2> QED
    BY <1>2, <2>2, <2>3 DEF StartDiscard, Goto, Steps, draft, published, RequestOK
<1>3. CASE ReadDraft(c)
  <2> DEFINE m == req[c].menu
             r == [menu |-> m, attempt |-> req[c].attempt, base |-> LatestBoard(m),
                  version |-> LatestVersion(m), work |-> WorkingBoard(m), stamp |-> clock + 1]
  <2>1. m \in Menus
    BY <1>3 DEF RequestOK, ReadDraft
  <2>2. LatestBoard(m) \in MaybeBoards /\ LatestVersion(m) \in Nat
        /\ WorkingBoard(m) \in MaybeBoards
    BY <2>1, LatestBoardType, WorkingBoardType DEF MaybeBoards
  <2>3. req[c] \in Requests
    OBVIOUS
  <2>4. r \in Requests /\ r.menu = m
    BY <2>2, <2>3 DEF Requests
  <2>5. req' = [req EXCEPT ![c] = r]
    BY <1>3 DEF ReadDraft
  <2> HIDE DEF r
  <2> QED
    BY <1>3, <2>1, <2>4, <2>5 DEF ReadDraft, Goto, Steps, draft, published, RequestOK
<1>4. CASE RefusePublish(c) \/ RefuseDiscard(c) \/ Abandon(c)
  BY <1>4, FinishType
     DEF RefusePublish, RefuseDiscard, Abandon, draft, published
<1>5. CASE RetryPublish(c)
  <2>1. CASE Finish(c)
    BY <1>5, <2>1, FinishType DEF RetryPublish, draft, published
  <2>2. CASE ~Finish(c)
    <3> DEFINE r == Request(req[c].menu, req[c].attempt + 1, Null)
    <3>1. req[c].menu \in Menus /\ req[c].attempt \in Nat
      BY <1>5 DEF RequestOK, RetryPublish, Requests
    <3>2. r \in Requests /\ r.menu = req[c].menu
      BY <3>1 DEF Request, Requests, MaybeBoards
    <3>3. req' = [req EXCEPT ![c] = r]
      BY <1>5, <2>2 DEF RetryPublish
    <3> HIDE DEF r
    <3> QED
      BY <1>5, <2>2, <3>1, <3>2, <3>3
         DEF RetryPublish, Goto, Steps, draft, published, RequestOK
  <2> QED
    BY <2>1, <2>2
<1>6. CASE CommitPublish(c)
  <2> DEFINE m == req[c].menu
  <2>1. /\ m \in Menus /\ log'[m] \in Seq(Events)
        /\ \A k \in Menus \ {m} : log'[k] = log[k]
        /\ log' = [log EXCEPT ![m] = log'[m]]
    BY <1>6, CommitLog
  <2>2. log' \in [Menus -> Seq(Events)]
    BY <2>1
  <2>3. publishedVersion' \in [Menus -> Nat]
    BY <1>6, <2>1, LatestBoardType DEF CommitPublish
  <2> QED
    BY <1>6, <2>2, <2>3, FinishType DEF CommitPublish, draft
<1>7. CASE CountDiscard(c)
  <2>1. CASE Finish(c)
    BY <1>7, <2>1, FinishType DEF CountDiscard, draft, published
  <2>2. CASE ~Finish(c)
    BY <1>7, <2>2 DEF CountDiscard, Goto, Steps, draft, published, RequestOK
  <2> QED
    BY <2>1, <2>2
<1>8. CASE ApplyDiscard(c)
  <2>1. req[c].menu \in Menus /\ req[c].base \in Boards
    BY <1>8 DEF RequestOK, ApplyDiscard
  <2> QED
    BY <1>8, <2>1, RestoreType, FinishType DEF ApplyDiscard
<1> QED
  BY <1>1, <1>2, <1>3, <1>4, <1>5, <1>6, <1>7, <1>8 DEF Continue

LEMMA TypeStep == TypeInv /\ [Next]_vars => TypeInv'
<1> SUFFICES ASSUME TypeInv, [Next]_vars PROVE TypeInv'
  OBVIOUS
<1>1. CASE UNCHANGED vars
  BY <1>1 DEF vars, draft, published, requests, TypeInv, TypeOK, RequestOK
<1>2. CASE EditMenus
  BY <1>2, EditMenusType
<1>3. CASE Assign
  BY <1>3, AssignType
<1>4. ASSUME NEW c \in Clients,
             \/ \E m \in Menus : StartPublish(c, m) \/ StartDiscard(c, m)
             \/ Continue(c) \/ Abandon(c)
      PROVE  TypeInv'
  BY <1>4, RequestType
<1> QED
  BY <1>1, <1>2, <1>3, <1>4 DEF Next

THEOREM TypeCorrect == Spec => []TypeInv
  BY TypeInit, TypeStep, PTL DEF Spec

-----------------------------------------------------------------------------
(* Only the commit of a publish writes history.                            *)

LEMMA OnlyCommitWritesHistory ==
    ASSUME TypeInv, [Next]_vars
    PROVE  \/ UNCHANGED published
           \/ \E c \in Clients : CommitPublish(c)
<1>1. CASE UNCHANGED vars
  BY <1>1 DEF vars
<1>2. CASE EditMenus
  BY <1>2 DEF EditMenus, CreateMenu, PutAway, PutBack, TakeOffScreens, DuplicateMenu,
              CreatePage, DeletePage, EditItem, GoBackTo, RestoreSnapshot
<1>3. CASE Assign
  BY <1>3 DEF Assign, AssignScreen, ClearPageScreenAssignment, ApplyPageScreenAssignments
<1>4. ASSUME NEW c \in Clients,
             \/ \E m \in Menus : StartPublish(c, m) \/ StartDiscard(c, m)
             \/ Continue(c) \/ Abandon(c)
      PROVE  UNCHANGED published \/ CommitPublish(c)
  BY <1>4 DEF StartPublish, StartDiscard, Continue, Abandon, ReadDraft, RefusePublish,
              RetryPublish, CountDiscard, ApplyDiscard, RestoreSnapshot, RefuseDiscard
<1> QED
  BY <1>1, <1>2, <1>3, <1>4 DEF Next

\* The entry a commit appends.
LEMMA CommittedEntry ==
    ASSUME TypeInv, NEW c \in Clients, CommitPublish(c)
    PROVE  LET m == req[c].menu
               n == Len(log[m])
               e == log'[m][n + 1] IN
           /\ e.board = WorkingBoard(m)
           /\ e.shipped = <<LatestBoard(m), WorkingBoard(m)>>
           /\ e.stamp = req[c].stamp
           /\ e.targets = Targets(m) /\ Targets(m) # {}
           /\ e.replacedBy = 0
           /\ req[c].version = n
<1>1. req[c].base = LatestBoard(req[c].menu) /\ req[c].work = WorkingBoard(req[c].menu)
      /\ req[c].version = Len(log[req[c].menu]) /\ Targets(req[c].menu) # {}
  BY DEF CommitPublish, PublishRefused, PublishedMoved, DraftMoved, LatestVersion
<1>2. log'[req[c].menu][Len(log[req[c].menu]) + 1] = NewEvent(c)
  BY CommitLog
<1> QED
  BY <1>1, <1>2 DEF NewEvent

\* The entries a commit leaves in place keep all but their replacedBy.
LEMMA KeptEntries ==
    ASSUME TypeInv, NEW c \in Clients, CommitPublish(c)
    PROVE  LET m == req[c].menu
               n == Len(log[m]) IN
           \A v \in 1..n :
             /\ log'[m][v].board = log[m][v].board
             /\ log'[m][v].shipped = log[m][v].shipped
             /\ log'[m][v].stamp = log[m][v].stamp
             /\ log'[m][v].targets = log[m][v].targets
             /\ log'[m][v].replacedBy =
                  IF log[m][v].replacedBy = 0 THEN n + 1 ELSE log[m][v].replacedBy
<1> DEFINE m == req[c].menu
           n == Len(log[m])
<1>1. m \in Menus /\ n \in Nat /\ \A v \in 1..n : log'[m][v] = Superseded(log[m], n + 1)[v]
  BY CommitLog
<1>2. log[m] \in Seq(Events) /\ n + 1 \in Nat
  BY <1>1 DEF TypeInv, TypeOK
<1>3. \A v \in 1..n :
        /\ Superseded(log[m], n + 1)[v].board = log[m][v].board
        /\ Superseded(log[m], n + 1)[v].shipped = log[m][v].shipped
        /\ Superseded(log[m], n + 1)[v].stamp = log[m][v].stamp
        /\ Superseded(log[m], n + 1)[v].targets = log[m][v].targets
        /\ Superseded(log[m], n + 1)[v].replacedBy =
             IF log[m][v].replacedBy = 0 THEN n + 1 ELSE log[m][v].replacedBy
  BY <1>2, SupersededType
<1> HIDE DEF n, m
<1>4. \A v \in 1..n :
        /\ log'[m][v].board = log[m][v].board
        /\ log'[m][v].shipped = log[m][v].shipped
        /\ log'[m][v].stamp = log[m][v].stamp
        /\ log'[m][v].targets = log[m][v].targets
        /\ log'[m][v].replacedBy =
             IF log[m][v].replacedBy = 0 THEN n + 1 ELSE log[m][v].replacedBy
  BY <1>1, <1>3
<1> QED
  BY <1>4 DEF n, m

-----------------------------------------------------------------------------
(* History describes what shipped.                                         *)

LEMMA ShippedStep ==
    ASSUME TypeInv, ShippedIsTheDifference, [Next]_vars
    PROVE  ShippedIsTheDifference'
<1>1. CASE UNCHANGED published
  BY <1>1 DEF published, ShippedIsTheDifference
<1>2. ASSUME NEW c \in Clients, CommitPublish(c)
      PROVE  ShippedIsTheDifference'
  <2> DEFINE m == req[c].menu
             n == Len(log[m])
  <2>1. /\ m \in Menus /\ n \in Nat /\ Len(log'[m]) = n + 1
        /\ \A k \in Menus \ {m} : log'[k] = log[k]
    BY <1>2, CommitLog
  <2>2. \A v \in 1..n : /\ log'[m][v].board = log[m][v].board
                        /\ log'[m][v].shipped = log[m][v].shipped
    BY <1>2, KeptEntries
  <2>3. log'[m][n + 1].shipped = <<LatestBoard(m), log'[m][n + 1].board>>
    BY <1>2, CommittedEntry
  <2>4. LatestBoard(m) = IF n + 1 = 1 THEN Null ELSE log'[m][n].board
    <3>1. log[m] = << >> <=> n = 0
      BY <2>1 DEF TypeInv, TypeOK
    <3>2. n # 0 => n \in 1..n
      BY <2>1
    <3>3. LatestBoard(m) = IF n = 0 THEN Null ELSE log[m][n].board
      BY <3>1 DEF LatestBoard
    <3> HIDE DEF n, m
    <3> QED
      BY <2>1, <2>2, <3>2, <3>3
  <2> HIDE DEF n, m
  <2>5. \A v \in 1..(n + 1) :
          log'[m][v].shipped = << IF v = 1 THEN Null ELSE log'[m][v - 1].board,
                                  log'[m][v].board >>
    <3> TAKE v \in 1..(n + 1)
    <3>1. CASE v = n + 1
      <4>1. (n + 1) - 1 = n
        BY <2>1
      <4> QED
        BY <2>3, <2>4, <3>1, <4>1
    <3>2. CASE v # n + 1
      <4>1. v \in 1..n /\ (v # 1 => v - 1 \in 1..n)
        BY <2>1, <3>2
      <4>2. log[m][v].shipped = << IF v = 1 THEN Null ELSE log[m][v - 1].board,
                                   log[m][v].board >>
        BY <2>1, <4>1 DEF ShippedIsTheDifference, n
      <4> QED
        BY <2>2, <4>1, <4>2
    <3> QED
      BY <3>1, <3>2
  <2>6. \A k \in Menus \ {m} : \A v \in 1..Len(log'[k]) :
          log'[k][v].shipped = << IF v = 1 THEN Null ELSE log'[k][v - 1].board,
                                  log'[k][v].board >>
    BY <2>1 DEF ShippedIsTheDifference
  <2> QED
    BY <2>1, <2>5, <2>6 DEF ShippedIsTheDifference
<1> QED
  BY <1>1, <1>2, OnlyCommitWritesHistory

\* Whoever edited, published or discarded in between, the diff kept with every
\* version of every menu is the difference between the board that version put
\* out and the one before it (PublishTailSql's version, board and draft checks).
THEOREM HistoryDescribesWhatShipped == Spec => []ShippedIsTheDifference
<1>1. Init => ShippedIsTheDifference
  BY DEF Init, ShippedIsTheDifference
<1>2. TypeInv /\ ShippedIsTheDifference /\ [Next]_vars => ShippedIsTheDifference'
  BY ShippedStep
<1> QED
  BY <1>1, <1>2, TypeCorrect, PTL DEF Spec

-----------------------------------------------------------------------------
(* Supersession.                                                           *)

LEMMA ChainStep ==
    ASSUME TypeInv, SupersessionIsAChain, [Next]_vars
    PROVE  SupersessionIsAChain'
<1>1. CASE UNCHANGED published
  BY <1>1 DEF published, SupersessionIsAChain
<1>2. ASSUME NEW c \in Clients, CommitPublish(c)
      PROVE  SupersessionIsAChain'
  <2> DEFINE m == req[c].menu
             n == Len(log[m])
  <2>1. /\ m \in Menus /\ n \in Nat /\ Len(log'[m]) = n + 1
        /\ \A k \in Menus \ {m} : log'[k] = log[k]
    BY <1>2, CommitLog
  <2>2. \A v \in 1..n : log'[m][v].replacedBy =
                          IF log[m][v].replacedBy = 0 THEN n + 1 ELSE log[m][v].replacedBy
    BY <1>2, KeptEntries
  <2>3. log'[m][n + 1].replacedBy = 0
    BY <1>2, CommittedEntry
  <2>4. \A v \in 1..n : log[m][v].replacedBy = IF v = n THEN 0 ELSE v + 1
    BY <2>1 DEF SupersessionIsAChain
  <2>5. publishedVersion'[m] = n + 1
        /\ \A k \in Menus \ {m} : publishedVersion'[k] = publishedVersion[k]
    BY <1>2, <2>1 DEF CommitPublish, LatestVersion, TypeInv, TypeOK
  <2> HIDE DEF n, m
  <2>6. \A v \in 1..(n + 1) : log'[m][v].replacedBy = IF v = n + 1 THEN 0 ELSE v + 1
    <3> TAKE v \in 1..(n + 1)
    <3>1. CASE v = n + 1
      BY <2>3, <3>1
    <3>2. CASE v # n + 1
      <4>1. v \in 1..n
        BY <2>1, <3>2
      <4> QED
        BY <2>1, <2>2, <2>4, <3>2, <4>1
    <3> QED
      BY <3>1, <3>2
  <2> QED
    BY <2>1, <2>5, <2>6 DEF SupersessionIsAChain
<1> QED
  BY <1>1, <1>2, OnlyCommitWritesHistory

\* Each version of a menu is superseded by the next one and by no other, and the
\* menu's PublishedVersion is the last version of its history.
THEOREM HistoryIsAChain == Spec => []SupersessionIsAChain
<1>1. Init => SupersessionIsAChain
  BY DEF Init, SupersessionIsAChain
<1>2. TypeInv /\ SupersessionIsAChain /\ [Next]_vars => SupersessionIsAChain'
  BY ChainStep
<1> QED
  BY <1>1, <1>2, TypeCorrect, PTL DEF Spec

-----------------------------------------------------------------------------
(* Publish times.  They are handed out before the lock is taken, so what    *)
(* orders them is the version check: a request whose version is still the   *)
(* latest took its time after every version already there.                  *)

ReadyToCommit(c) ==
    /\ req[c].stamp <= clock
    /\ req[c].version <= Len(log[req[c].menu])
    /\ req[c].version = Len(log[req[c].menu]) =>
         \A v \in 1..Len(log[req[c].menu]) : log[req[c].menu][v].stamp < req[c].stamp

StampsInv ==
    /\ StampsFollowVersions
    /\ \A m \in Menus : \A v \in 1..Len(log[m]) : log[m][v].stamp <= clock
    /\ \A c \in Clients : pc[c] = "publishCommit" => ReadyToCommit(c)

CommittersLeftAlone ==
    /\ UNCHANGED <<log, clock>>
    /\ \A d \in Clients : pc'[d] = "publishCommit" =>
         pc[d] = "publishCommit" /\ req'[d] = req[d]

\* Everything but a commit and a read leaves history, the clock and the requests
\* that are about to commit alone.
LEMMA OthersLeaveCommittersAlone ==
    ASSUME TypeInv, [Next]_vars
    PROVE  \/ \E c \in Clients : CommitPublish(c)
           \/ \E c \in Clients : ReadDraft(c)
           \/ CommittersLeftAlone
<1> USE DEF TypeInv, TypeOK, CommittersLeftAlone
<1>1. CASE UNCHANGED vars
  BY <1>1 DEF vars, published, requests
<1>2. CASE EditMenus
  BY <1>2 DEF EditMenus, CreateMenu, PutAway, PutBack, TakeOffScreens, DuplicateMenu,
              CreatePage, DeletePage, EditItem, GoBackTo, RestoreSnapshot, published, requests
<1>3. CASE Assign
  BY <1>3 DEF Assign, AssignScreen, ClearPageScreenAssignment, ApplyPageScreenAssignments,
              published, requests
<1>4. ASSUME NEW c \in Clients,
             \/ \E m \in Menus : StartPublish(c, m) \/ StartDiscard(c, m)
             \/ Continue(c) \/ Abandon(c)
      PROVE  CommitPublish(c) \/ ReadDraft(c) \/ CommittersLeftAlone
  <2>1. ASSUME NEW m \in Menus, StartPublish(c, m) \/ StartDiscard(c, m)
        PROVE  CommittersLeftAlone
    BY <2>1 DEF StartPublish, StartDiscard, Goto, published
  <2>2. CASE RefusePublish(c) \/ RefuseDiscard(c) \/ ApplyDiscard(c) \/ Abandon(c)
    BY <2>2 DEF RefusePublish, RefuseDiscard, ApplyDiscard, RestoreSnapshot, Abandon,
                Finish, Goto, published
  <2>3. CASE RetryPublish(c) \/ CountDiscard(c)
    BY <2>3 DEF RetryPublish, CountDiscard, Finish, Goto, published
  <2> QED
    BY <1>4, <2>1, <2>2, <2>3 DEF Continue
<1> QED
  BY <1>1, <1>2, <1>3, <1>4 DEF Next

LEMMA StampsStep ==
    ASSUME TypeInv, StampsInv, [Next]_vars
    PROVE  StampsInv'
<1>1. ASSUME NEW c \in Clients, CommitPublish(c)
      PROVE  StampsInv'
  <2> DEFINE m == req[c].menu
             n == Len(log[m])
  <2>1. /\ m \in Menus /\ n \in Nat /\ Len(log'[m]) = n + 1
        /\ \A k \in Menus \ {m} : log'[k] = log[k]
    BY <1>1, CommitLog
  <2>2. \A v \in 1..n : log'[m][v].stamp = log[m][v].stamp
    BY <1>1, KeptEntries
  <2>3. log'[m][n + 1].stamp = req[c].stamp /\ req[c].version = n
    BY <1>1, CommittedEntry
  <2>4. req[c].stamp <= clock /\ \A v \in 1..n : log[m][v].stamp < req[c].stamp
    BY <1>1, <2>3 DEF StampsInv, ReadyToCommit, CommitPublish
  <2>5. clock' = clock /\ \A d \in Clients : pc'[d] = "publishCommit" =>
          pc[d] = "publishCommit" /\ req'[d] = req[d]
    BY <1>1 DEF CommitPublish, Finish, Goto, TypeInv, TypeOK
  <2> HIDE DEF n
  <2>6. \A k \in Menus : \A u, v \in 1..Len(log'[k]) :
          u < v => log'[k][u].stamp < log'[k][v].stamp
    <3> TAKE k \in Menus
    <3>1. CASE k # m
      BY <2>1, <3>1 DEF StampsInv, StampsFollowVersions
    <3>2. ASSUME k = m, NEW u \in 1..(n + 1), NEW v \in 1..(n + 1), u < v
          PROVE  log'[m][u].stamp < log'[m][v].stamp
      <4>1. u \in 1..n
        BY <2>1, <3>2
      <4>2. CASE v = n + 1
        BY <2>2, <2>3, <2>4, <4>1, <4>2
      <4>3. CASE v # n + 1
        <5>1. v \in 1..n
          BY <2>1, <4>3
        <5>2. log[m][u].stamp < log[m][v].stamp
          BY <2>1, <3>2, <4>1, <5>1 DEF StampsInv, StampsFollowVersions, n
        <5> QED
          BY <2>2, <4>1, <5>1, <5>2
      <4> QED
        BY <4>2, <4>3
    <3> QED
      BY <2>1, <3>1, <3>2
  <2>7. \A k \in Menus : \A v \in 1..Len(log'[k]) : log'[k][v].stamp <= clock'
    <3> TAKE k \in Menus
    <3>1. CASE k # m
      BY <2>1, <2>5, <3>1 DEF StampsInv
    <3>2. ASSUME k = m, NEW v \in 1..(n + 1)
          PROVE  log'[m][v].stamp <= clock'
      <4>1. CASE v = n + 1
        BY <2>3, <2>4, <2>5, <4>1
      <4>2. CASE v # n + 1
        <5>1. v \in 1..n
          BY <2>1, <4>2
        <5>2. log[m][v].stamp <= clock
          BY <2>1, <5>1 DEF StampsInv, n
        <5> QED
          BY <2>2, <2>5, <5>1, <5>2
      <4> QED
        BY <4>1, <4>2
    <3> QED
      BY <2>1, <3>1, <3>2
  <2>8. ASSUME NEW d \in Clients, pc'[d] = "publishCommit"
        PROVE  ReadyToCommit(d)'
    <3>1. pc[d] = "publishCommit" /\ req'[d] = req[d] /\ ReadyToCommit(d)
      BY <2>5, <2>8 DEF StampsInv
    <3>2. req[d].menu \in Menus /\ req[d].version \in Nat
      BY <3>1 DEF TypeInv, TypeOK, RequestOK, Requests
    <3>3. CASE req[d].menu # m
      BY <2>1, <2>5, <3>1, <3>2, <3>3 DEF ReadyToCommit
    <3>4. CASE req[d].menu = m
      <4>1. req[d].version <= n
        BY <3>1, <3>4 DEF ReadyToCommit, n
      <4> QED
        BY <2>1, <2>5, <3>1, <3>2, <3>4, <4>1 DEF ReadyToCommit
    <3> QED
      BY <3>3, <3>4
  <2> QED
    BY <2>6, <2>7, <2>8 DEF StampsInv, StampsFollowVersions
<1>2. ASSUME NEW c \in Clients, ReadDraft(c)
      PROVE  StampsInv'
  <2> DEFINE m == req[c].menu
  <2>1. log' = log /\ clock' = clock + 1 /\ clock \in Nat
    BY <1>2 DEF ReadDraft, published, TypeInv, TypeOK
  <2>2. m \in Menus
    BY <1>2 DEF ReadDraft, TypeInv, RequestOK
  <2>3. log[m] \in Seq(Events) /\ \A k \in Menus : \A v \in 1..Len(log[k]) : log[k][v].stamp \in Nat
    <3>1. \A k \in Menus : log[k] \in Seq(Events)
      BY DEF TypeInv, TypeOK
    <3>2. \A k \in Menus : \A v \in 1..Len(log[k]) : log[k][v] \in Events
      BY <3>1
    <3> QED
      BY <2>2, <3>1, <3>2 DEF Events
  <2>4. ReadyToCommit(c)'
    <3>1. req'[c].stamp = clock + 1 /\ req'[c].version = Len(log[m]) /\ req'[c].menu = m
      BY <1>2 DEF ReadDraft, LatestVersion, TypeInv, TypeOK
    <3>2. \A v \in 1..Len(log[m]) : log[m][v].stamp < clock + 1
      BY <2>1, <2>2, <2>3 DEF StampsInv
    <3>3. Len(log[m]) \in Nat
      BY <2>3
    <3> HIDE DEF m
    <3> QED
      BY <2>1, <3>1, <3>2, <3>3 DEF ReadyToCommit
  <2>5. ASSUME NEW d \in Clients \ {c}, pc'[d] = "publishCommit"
        PROVE  ReadyToCommit(d)'
    <3>1. pc[d] = "publishCommit" /\ req'[d] = req[d]
      BY <1>2, <2>5 DEF ReadDraft, Goto, TypeInv, TypeOK
    <3>2. ReadyToCommit(d) /\ req[d].stamp \in Nat
      BY <3>1 DEF StampsInv, TypeInv, TypeOK, Requests
    <3> QED
      BY <2>1, <3>1, <3>2 DEF ReadyToCommit
  <2>6. \A k \in Menus : \A v \in 1..Len(log[k]) : log[k][v].stamp <= clock + 1
    BY <2>1, <2>3 DEF StampsInv
  <2> QED
    BY <2>1, <2>4, <2>5, <2>6 DEF StampsInv, StampsFollowVersions
<1>3. CASE CommittersLeftAlone
  BY <1>3 DEF CommittersLeftAlone, StampsInv, StampsFollowVersions, ReadyToCommit
<1> QED
  BY <1>1, <1>2, <1>3, OthersLeaveCommittersAlone

LEMMA StampsInit == Init => StampsInv
  BY DEF Init, StampsInv, StampsFollowVersions

\* The times recorded with a menu's versions increase with the version, although
\* each is taken before the lock that orders the commits.
THEOREM PublishTimesFollowVersions == Spec => []StampsFollowVersions
<1>1. TypeInv /\ StampsInv /\ [Next]_vars => StampsInv'
  BY StampsStep
<1>2. StampsInv => StampsFollowVersions
  BY DEF StampsInv
<1> QED
  BY <1>1, <1>2, StampsInit, TypeCorrect, PTL DEF Spec

-----------------------------------------------------------------------------
(* What a screen shows.                                                    *)

LEMMA LargestExists ==
    ASSUME NEW T, T # {}, NEW n \in Nat, NEW f \in [T -> 0..n]
    PROVE  \E e \in T : \A x \in T : f[x] <= f[e]
<1> DEFINE D == {n - f[x] : x \in T}
           R == OpToRel(<, Nat)
<1>1. D \subseteq Nat /\ D # {}
  <2>1. \A x \in T : n - f[x] \in Nat
    OBVIOUS
  <2> QED
    BY <2>1
<1>2. \E d \in D : \A y \in D : ~(<<y, d>> \in R)
  <2> HIDE DEF D, R
  <2>1. IsWellFoundedOn(R, Nat)
    BY NatLessThanWellFounded DEF R
  <2> QED
    BY <1>1, <2>1, WFMin
<1>3. PICK d \in D : \A y \in D : ~(<<y, d>> \in R)
  BY <1>2
<1>4. PICK e \in T : d = n - f[e]
  BY <1>3
<1>5. \A y \in D : ~(y < d)
  BY <1>1, <1>3 DEF OpToRel
<1>6. \A x \in T : ~(n - f[x] < n - f[e])
  BY <1>4, <1>5
<1>7. \A x \in T : f[x] \in 0..n
  OBVIOUS
<1> QED
  BY <1>4, <1>6, <1>7

ShowsTheLatest ==
    \A s \in Screens : Showing(s) # Nothing =>
        /\ Showing(s) \in Told(s)
        /\ \A e \in Told(s) :
             log[e[1]][e[2]].stamp <= log[Showing(s)[1]][Showing(s)[2]].stamp

LEMMA ToldMembers ==
    ASSUME NEW s
    PROVE  Told(s) = {e \in Menus \X Int :
                        e[2] \in 1..Len(log[e[1]]) /\ s \in log[e[1]][e[2]].targets}
  BY DEF Told

LEMMA ShowsTheLatestTold == TypeInv /\ StampsInv => ShowsTheLatest
<1> SUFFICES ASSUME TypeInv, StampsInv, NEW s \in Screens, Showing(s) # Nothing
             PROVE  /\ Showing(s) \in Told(s)
                    /\ \A e \in Told(s) :
                         log[e[1]][e[2]].stamp <= log[Showing(s)[1]][Showing(s)[2]].stamp
  BY DEF ShowsTheLatest
<1> DEFINE told == Told(s)
           stamps == [e \in told |-> log[e[1]][e[2]].stamp]
           last == CHOOSE e \in told :
                     \A f \in told : log[f[1]][f[2]].stamp <= log[e[1]][e[2]].stamp
<1>1. told # {} /\ Showing(s) = last
  BY DEF Showing
<1>2. stamps \in [told -> 0..clock] /\ clock \in Nat
  <2>1. \A m \in Menus : log[m] \in Seq(Events)
    BY DEF TypeInv, TypeOK
  <2>2. \A m \in Menus : \A v \in 1..Len(log[m]) : log[m][v] \in Events
    BY <2>1
  <2>3. \A m \in Menus : \A v \in 1..Len(log[m]) : log[m][v].stamp \in 0..clock
    BY <2>2 DEF Events, StampsInv, TypeInv, TypeOK
  <2>4. \A e \in told : log[e[1]][e[2]].stamp \in 0..clock
    BY <2>3, ToldMembers
  <2> HIDE DEF told
  <2> QED
    BY <2>4 DEF TypeInv, TypeOK
<1>3. PICK e \in told : \A x \in told : stamps[x] <= stamps[e]
  <2> HIDE DEF told, stamps
  <2> QED
    BY <1>1, <1>2, LargestExists
<1>4. \A x \in told : log[x[1]][x[2]].stamp <= log[e[1]][e[2]].stamp
  BY <1>3
<1>5. /\ last \in told
      /\ \A f \in told : log[f[1]][f[2]].stamp <= log[last[1]][last[2]].stamp
  <2> HIDE DEF told
  <2> QED
    BY <1>3, <1>4
<1> QED
  BY <1>1, <1>5

\* The step of ShownVersionNeverGoesBack, for one screen.
LEMMA ShownStep ==
    ASSUME TypeInv, [Next]_vars, ShowsTheLatest, ShowsTheLatest', TypeInv', StampsInv',
           NEW s \in Screens,
           Showing(s) # Nothing, Showing(s)' # Nothing,
           Showing(s)[1] = Showing(s)'[1]
    PROVE  Showing(s)[2] <= Showing(s)'[2]
<1> DEFINE old == Showing(s)
           new == Showing(s)'
           m == old[1]
<1>1. /\ old \in Told(s)
      /\ new \in Told(s)'
      /\ \A e \in Told(s)' : log'[e[1]][e[2]].stamp <= log'[new[1]][new[2]].stamp
  BY DEF ShowsTheLatest
<1>2. /\ m \in Menus /\ old[2] \in 1..Len(log[m]) /\ s \in log[m][old[2]].targets
      /\ old \in Menus \X Int
  BY <1>1, ToldMembers
<1>3. Told(s)' = {e \in Menus \X Int :
                    e[2] \in 1..Len(log'[e[1]]) /\ s \in log'[e[1]][e[2]].targets}
  BY DEF Told
<1>4. new[2] \in 1..Len(log'[m]) /\ new[1] = m
  BY <1>1, <1>3
<1>5. /\ old[2] \in 1..Len(log'[m])
      /\ log'[m][old[2]].targets = log[m][old[2]].targets
  <2>1. CASE UNCHANGED published
    BY <1>2, <2>1 DEF published
  <2>2. ASSUME NEW c \in Clients, CommitPublish(c)
        PROVE  <1>5
    <3> HIDE DEF m, old
    <3>1. CASE m = req[c].menu
      <4>1. Len(log'[m]) = Len(log[m]) + 1 /\ Len(log[m]) \in Nat
        BY <2>2, <3>1, CommitLog
      <4>2. \A v \in 1..Len(log[m]) : log'[m][v].targets = log[m][v].targets
        BY <2>2, <3>1, KeptEntries
      <4> QED
        BY <1>2, <4>1, <4>2
    <3>2. CASE m # req[c].menu
      <4>1. \A k \in Menus \ {req[c].menu} : log'[k] = log[k]
        BY <2>2, CommitLog
      <4> QED
        BY <1>2, <3>2, <4>1
    <3> QED
      BY <3>1, <3>2
  <2> QED
    BY <2>1, <2>2, OnlyCommitWritesHistory
<1>6. old \in Told(s)'
  BY <1>2, <1>3, <1>5
<1>7. log'[m][old[2]].stamp <= log'[m][new[2]].stamp
  BY <1>1, <1>4, <1>6
<1>8. \A u, v \in 1..Len(log'[m]) : u < v => log'[m][u].stamp < log'[m][v].stamp
  BY <1>2 DEF StampsInv, StampsFollowVersions
<1>9. \A v \in 1..Len(log'[m]) : log'[m][v].stamp \in Nat
  <2>1. log'[m] \in Seq(Events)
    BY <1>2 DEF TypeInv, TypeOK
  <2>2. \A v \in 1..Len(log'[m]) : log'[m][v] \in Events
    BY <2>1
  <2> QED
    BY <2>2 DEF Events
<1> HIDE DEF old, new, m
<1>10. old[2] <= new[2]
  <2>1. ~(new[2] < old[2])
    BY <1>4, <1>5, <1>7, <1>8, <1>9
  <2> QED
    BY <1>4, <1>5, <2>1
<1> QED
  BY <1>10 DEF old, new

\* However publishes, retries and discards overlap, a screen that keeps showing
\* a menu never goes back to an older version of it.
THEOREM ScreensNeverGoBack == Spec => ShownVersionNeverGoesBack
<1> DEFINE Forward == log' # log => \A s \in Screens :
             LET old == Showing(s)
                 new == Showing(s)'
             IN  old # Nothing /\ new # Nothing /\ old[1] = new[1] => old[2] <= new[2]
<1>1. /\ TypeInv /\ StampsInv /\ ShowsTheLatest /\ [Next]_vars
      /\ TypeInv' /\ StampsInv' /\ ShowsTheLatest'
      => [Forward]_log
  BY ShownStep
<1>2. TypeInv /\ StampsInv /\ [Next]_vars => StampsInv'
  BY StampsStep
<1>3. Spec => [][Forward]_log
  <2> HIDE DEF Forward
  <2> QED
    BY <1>1, <1>2, StampsInit, ShowsTheLatestTold, TypeCorrect, PTL DEF Spec
<1> QED
  BY <1>3 DEF ShownVersionNeverGoesBack

\* Going back, discarding, editing the shared item and republishing never change
\* the board, the diff or the targets of a version already published.
THEOREM HistoryIsImmutable == Spec => PublishedIsImmutable
<1> DEFINE Kept == \A m \in Menus :
             /\ Len(log[m]) <= Len(log'[m])
             /\ \A v \in 1..Len(log[m]) :
                  /\ log'[m][v].board = log[m][v].board
                  /\ log'[m][v].shipped = log[m][v].shipped
                  /\ log'[m][v].targets = log[m][v].targets
<1>1. TypeInv /\ [Next]_vars => [Kept]_log
  <2> SUFFICES ASSUME TypeInv, [Next]_vars, log' # log PROVE Kept
    OBVIOUS
  <2>1. PICK c \in Clients : CommitPublish(c)
    BY OnlyCommitWritesHistory DEF published
  <2> DEFINE m == req[c].menu
  <2>2. /\ Len(log[m]) \in Nat /\ Len(log'[m]) = Len(log[m]) + 1
        /\ \A k \in Menus \ {m} : log'[k] = log[k]
    BY <2>1, CommitLog
  <2>3. \A v \in 1..Len(log[m]) :
          /\ log'[m][v].board = log[m][v].board
          /\ log'[m][v].shipped = log[m][v].shipped
          /\ log'[m][v].targets = log[m][v].targets
    BY <2>1, KeptEntries
  <2>4. \A k \in Menus : Len(log[k]) \in Nat
    BY DEF TypeInv, TypeOK
  <2> HIDE DEF m
  <2> QED
    BY <2>2, <2>3, <2>4
<1>2. Spec => [][Kept]_log
  <2> HIDE DEF Kept
  <2> QED
    BY <1>1, TypeCorrect, PTL DEF Spec
<1> QED
  BY <1>2 DEF PublishedIsImmutable

-----------------------------------------------------------------------------
(* The ceiling.                                                            *)

LEMMA CeilingStep ==
    ASSUME TypeInv, CeilingHolds, [Next]_vars
    PROVE  CeilingHolds'
<1>1. IsFiniteSet(OnShelf) /\ Cardinality(OnShelf) \in Nat
  BY PublishConstants, FS_Subset, FS_CardinalityType DEF OnShelf
<1>2. ASSUME NEW m \in Menus, WithinCeiling, shelf' = [shelf EXCEPT ![m] = "shelf"]
      PROVE  CeilingHolds'
  <2>1. OnShelf' = OnShelf \cup {m}
    BY <1>2 DEF OnShelf, TypeInv, TypeOK
  <2>2. Cardinality(OnShelf \cup {m}) <= Cardinality(OnShelf) + 1
    <3>1. Cardinality(OnShelf \cup {m}) =
            IF m \in OnShelf THEN Cardinality(OnShelf) ELSE Cardinality(OnShelf) + 1
      BY <1>1, FS_AddElement
    <3> QED
      BY <1>1, <3>1
  <2>3. Cardinality(OnShelf \cup {m}) \in Nat
    BY <1>1, FS_AddElement, FS_CardinalityType
  <2>4. Cardinality(OnShelf) + 1 <= MenuLimit /\ MenuLimit \in Nat
    BY <1>2, PublishConstants DEF WithinCeiling
  <2>5. Cardinality(OnShelf \cup {m}) <= MenuLimit
    BY <1>1, <2>2, <2>3, <2>4
  <2> QED
    BY <2>1, <2>5, Zenon DEF CeilingHolds
<1>3. ASSUME NEW m \in Menus, PutAway(m)
      PROVE  CeilingHolds'
  <2>1. OnShelf' \subseteq OnShelf
    BY <1>3 DEF OnShelf, PutAway, TypeInv, TypeOK
  <2>2. Cardinality(OnShelf') <= Cardinality(OnShelf) /\ Cardinality(OnShelf') \in Nat
    BY <1>1, <2>1, FS_Subset, FS_CardinalityType
  <2> QED
    BY <1>1, <2>2, PublishConstants DEF CeilingHolds
<1>4. CASE UNCHANGED shelf
  BY <1>4 DEF CeilingHolds, OnShelf
<1>5. CASE EditMenus
  BY <1>2, <1>3, <1>4, <1>5 DEF EditMenus, CreateMenu, PutBack, TakeOffScreens, DuplicateMenu,
     CreatePage, DeletePage, EditItem, GoBackTo, RestoreSnapshot
<1>6. CASE Assign
  BY <1>4, <1>6
     DEF Assign, AssignScreen, ClearPageScreenAssignment, ApplyPageScreenAssignments
<1>7. ASSUME NEW c \in Clients,
             \/ \E m \in Menus : StartPublish(c, m) \/ StartDiscard(c, m)
             \/ Continue(c) \/ Abandon(c)
      PROVE  UNCHANGED shelf
  BY <1>7 DEF StartPublish, StartDiscard, Continue, Abandon, ReadDraft, RefusePublish,
              RetryPublish, CommitPublish, CountDiscard, ApplyDiscard, RestoreSnapshot,
              RefuseDiscard, draft
<1>8. CASE UNCHANGED vars
  BY <1>4, <1>8 DEF vars, draft
<1> QED
  BY <1>4, <1>5, <1>6, <1>7, <1>8 DEF Next

\* However many menus are created, duplicated, put away and put back, the shelf
\* never holds more than the venue's resolved ceiling.
THEOREM ShelfWithinCeiling == Spec => []CeilingHolds
<1>1. Init => CeilingHolds
  <2> SUFFICES ASSUME Init PROVE CeilingHolds
    OBVIOUS
  <2>1. OnShelf = {}
    BY DEF Init, OnShelf
  <2> QED
    BY <2>1, FS_EmptySet, PublishConstants DEF CeilingHolds
<1>2. TypeInv /\ CeilingHolds /\ [Next]_vars => CeilingHolds'
  BY CeilingStep
<1> QED
  BY <1>1, <1>2, TypeCorrect, PTL DEF Spec

-----------------------------------------------------------------------------
(* Pages and assignments.  A restore brings back whatever a published board *)
(* holds, so a published board must be one of its own menu's pages.         *)

BoardOf(b, m) ==
    /\ b.pages \subseteq PagesOf(m) /\ b.pages # {}
    /\ b.screens \subseteq Screens \X b.pages

BoardsInv ==
    /\ \A m \in Menus : log[m] # << >> => Exists(m)
    /\ \A m \in Menus : \A v \in 1..Len(log[m]) : BoardOf(log[m][v].board, m)
    /\ \A c \in Clients : pc[c] # "idle" => Exists(req[c].menu)
    /\ \A c \in Clients :
         pc[c] \in {"discardCount", "discardRestore"} => BoardOf(req[c].base, req[c].menu)

PagesInv == PutAwayHasNoAssignment /\ AssignmentsNamePages

LEMMA MenusOwnTheirPages ==
    /\ \A m \in Menus : \A p \in Pages : p[1] = m <=> p \in PagesOf(m)
    /\ \A m, k \in Menus : m # k => PagesOf(m) \cap PagesOf(k) = {}
    /\ \A m \in Menus : PagesOf(m) \subseteq Pages
  BY DEF Pages, PagesOf

LEMMA WorkingBoardIsItsMenus ==
    ASSUME TypeInv, PagesInv, NEW m \in Menus, Exists(m)
    PROVE  BoardOf(WorkingBoard(m), m)
<1>1. {p \in pages : p[1] = m} = pages \cap PagesOf(m)
  BY MenusOwnTheirPages DEF TypeInv, TypeOK
<1>2. pages \cap PagesOf(m) # {}
  BY DEF PagesInv, AssignmentsNamePages
<1>3. OwnAssigned(m) \subseteq Screens \X {p \in pages : p[1] = m}
  BY DEF OwnAssigned, TypeInv, TypeOK, PagesInv, AssignmentsNamePages
<1> QED
  BY <1>1, <1>2, <1>3 DEF BoardOf, WorkingBoard

\* A restore that is not refused keeps assignments on pages that exist, off menus
\* put away, and leaves the other menus' alone.
LEMMA RestoreKeepsPages ==
    ASSUME TypeInv, PagesInv, NEW m \in Menus, NEW b \in Boards, BoardOf(b, m),
           RestoreSnapshot(m, b)
    PROVE  PagesInv'
<1>1. shelf' = shelf /\ pages' = (pages \ PagesOf(m)) \cup b.pages
      /\ assigned' = (assigned \ OwnAssigned(m)) \cup b.screens
  BY DEF RestoreSnapshot
<1>2. \A k \in Menus \ {m} : OwnAssigned(k)' = OwnAssigned(k)
  <2> TAKE k \in Menus \ {m}
  <2>1. \A a \in b.screens : a[2][1] = m
    BY DEF BoardOf, PagesOf
  <2> QED
    BY <1>1, <2>1 DEF OwnAssigned
<1>3. shelf[m] = "away" => OwnAssigned(m)' = {}
  BY <1>1 DEF RestoreSnapshot, RestoreRefused, OwnAssigned
<1>4. PutAwayHasNoAssignment'
  BY <1>1, <1>2, <1>3 DEF PagesInv, PutAwayHasNoAssignment
<1>5. \A a \in assigned' : a[2] \in pages'
  <2>1. \A a \in b.screens : a[2] \in b.pages
    BY DEF BoardOf
  <2>2. \A a \in assigned \ OwnAssigned(m) : a[2] \in pages \ PagesOf(m)
    BY DEF OwnAssigned, PagesOf, PagesInv, AssignmentsNamePages
  <2> QED
    BY <1>1, <2>1, <2>2
<1>6. \A k \in Menus : Exists(k)' => pages' \cap PagesOf(k) # {}
  <2> SUFFICES ASSUME NEW k \in Menus, Exists(k)'
               PROVE  pages' \cap PagesOf(k) # {}
    OBVIOUS
  <2>1. Exists(k)
    BY <1>1 DEF Exists
  <2>2. CASE k = m
    BY <1>1, <2>2 DEF BoardOf
  <2>3. CASE k # m
    <3>1. pages \cap PagesOf(k) # {}
      BY <2>1 DEF PagesInv, AssignmentsNamePages
    <3> QED
      BY <1>1, <2>3, <3>1, MenusOwnTheirPages
  <2> QED
    BY <2>2, <2>3
<1> QED
  BY <1>4, <1>5, <1>6 DEF PagesInv, AssignmentsNamePages

LEMMA PagesStep ==
    ASSUME TypeInv, PagesInv, BoardsInv, [Next]_vars
    PROVE  PagesInv'
<1>1. CASE UNCHANGED <<shelf, pages, assigned>>
  BY <1>1 DEF PagesInv, PutAwayHasNoAssignment, AssignmentsNamePages, OwnAssigned, Exists
<1>2. ASSUME NEW m \in Menus, CreateMenu(m)
      PROVE  PagesInv'
  <2>1. <<m, 1>> \in PagesOf(m)
    BY PublishConstants DEF PagesOf
  <2> QED
    BY <1>2, <2>1 DEF CreateMenu, PagesInv, PutAwayHasNoAssignment, AssignmentsNamePages,
                      OwnAssigned, Exists, TypeInv, TypeOK
<1>3. ASSUME NEW src \in Menus, NEW m \in Menus, DuplicateMenu(src, m)
      PROVE  PagesInv'
  <2>1. PICK p \in pages : p \in PagesOf(src)
    BY <1>3 DEF DuplicateMenu, PagesInv, AssignmentsNamePages
  <2>2. p[2] \in 1..PagesPerMenu /\ p = <<src, p[2]>>
    BY <2>1 DEF PagesOf
  <2>3. <<m, p[2]>> \in pages' /\ <<m, p[2]>> \in PagesOf(m) /\ pages \subseteq pages'
    BY <1>3, <2>1, <2>2 DEF DuplicateMenu, PagesOf
  <2>4. /\ assigned' = assigned
        /\ \A k \in Menus \ {m} : shelf'[k] = shelf[k]
        /\ shelf'[m] = "shelf"
    BY <1>3 DEF DuplicateMenu, TypeInv, TypeOK
  <2> QED
    BY <2>3, <2>4 DEF PagesInv, PutAwayHasNoAssignment, AssignmentsNamePages,
                      OwnAssigned, Exists
<1>4. ASSUME NEW m \in Menus, PutAway(m)
      PROVE  PagesInv'
  BY <1>4 DEF PutAway, StillOnScreens, PagesInv, PutAwayHasNoAssignment,
              AssignmentsNamePages, OwnAssigned, Exists, TypeInv, TypeOK
<1>5. ASSUME NEW m \in Menus, PutBack(m)
      PROVE  PagesInv'
  BY <1>5 DEF PutBack, PagesInv, PutAwayHasNoAssignment,
              AssignmentsNamePages, OwnAssigned, Exists, TypeInv, TypeOK
<1>6. ASSUME NEW m \in Menus, TakeOffScreens(m)
      PROVE  PagesInv'
  BY <1>6 DEF TakeOffScreens, PagesInv, PutAwayHasNoAssignment,
              AssignmentsNamePages, OwnAssigned, Exists
<1>7. ASSUME NEW p \in Pages, CreatePage(p)
      PROVE  PagesInv'
  BY <1>7 DEF CreatePage, PagesInv, PutAwayHasNoAssignment,
              AssignmentsNamePages, OwnAssigned, Exists
<1>8. ASSUME NEW p \in Pages, DeletePage(p)
      PROVE  PagesInv'
  <2>1. pages' = pages \ {p} /\ assigned' = {a \in assigned : a[2] # p} /\ shelf' = shelf
    BY <1>8 DEF DeletePage
  <2>2. (pages \ {p}) \cap PagesOf(p[1]) # {}
    <3>1. SUFFICES ASSUME (pages \ {p}) \cap PagesOf(p[1]) = {} PROVE FALSE
      OBVIOUS
    <3>2. pages \cap PagesOf(p[1]) \subseteq {p}
      BY <3>1
    <3>3. Cardinality(pages \cap PagesOf(p[1])) <= Cardinality({p})
          /\ Cardinality(pages \cap PagesOf(p[1])) \in Nat
      <4> DEFINE own == pages \cap PagesOf(p[1])
      <4>1. IsFiniteSet({p}) /\ own \in SUBSET {p}
        BY <3>2, FS_Singleton
      <4>2. IsFiniteSet(own) /\ Cardinality(own) <= Cardinality({p})
        <5> HIDE DEF own
        <5> QED
          BY <4>1, FS_Subset
      <4> QED
        BY <4>2, FS_CardinalityType
    <3>4. Cardinality({p}) = 1
      BY FS_Singleton
    <3>5. Cardinality(pages \cap PagesOf(p[1])) > 1
      BY <1>8 DEF DeletePage
    <3> QED
      BY <3>3, <3>4, <3>5
  <2>3. \A k \in Menus : k # p[1] => (pages \ {p}) \cap PagesOf(k) = pages \cap PagesOf(k)
    BY MenusOwnTheirPages
  <2> QED
    BY <2>1, <2>2, <2>3 DEF PagesInv, PutAwayHasNoAssignment, AssignmentsNamePages,
                            OwnAssigned, Exists
<1>9. ASSUME NEW m \in Menus, NEW v \in 1..MaxRequests, GoBackTo(m, v)
      PROVE  PagesInv'
  <2>1. log[m] \in Seq(Events) /\ v \in 1..Len(log[m])
    BY <1>9 DEF GoBackTo, TypeInv, TypeOK
  <2>2. log[m][v] \in Events
    BY <2>1
  <2>3. log[m][v].board \in Boards /\ BoardOf(log[m][v].board, m)
    BY <2>1, <2>2 DEF Events, BoardsInv
  <2> QED
    BY <1>9, <2>3, RestoreKeepsPages DEF GoBackTo
<1>10. ASSUME NEW c \in Clients, ApplyDiscard(c)
       PROVE  PagesInv'
  <2>1. /\ req[c].menu \in Menus /\ req[c].base \in Boards
        /\ BoardOf(req[c].base, req[c].menu)
    BY <1>10 DEF ApplyDiscard, TypeInv, RequestOK, BoardsInv
  <2> QED
    BY <1>10, <2>1, RestoreKeepsPages DEF ApplyDiscard
<1>11. ASSUME NEW s \in Screens, NEW p \in Pages, NEW rotate \in BOOLEAN,
              AssignScreen(s, p, rotate)
       PROVE  PagesInv'
  <2>1. /\ shelf' = shelf /\ pages' = pages /\ shelf[p[1]] # "away"
        /\ assigned' \subseteq assigned \cup {<<s, p>>}
        /\ <<s, p>> \in assigned' => p \in pages \/ <<s, p>> \in assigned
    BY <1>11 DEF AssignScreen
  <2> QED
    BY <2>1 DEF PagesInv, PutAwayHasNoAssignment, AssignmentsNamePages, OwnAssigned, Exists
<1>12. ASSUME NEW s \in Screens, NEW p \in Pages, ClearPageScreenAssignment(s, p)
       PROVE  PagesInv'
  BY <1>12 DEF ClearPageScreenAssignment, PagesInv, PutAwayHasNoAssignment,
               AssignmentsNamePages, OwnAssigned, Exists
<1>13. ASSUME NEW m \in Menus, NEW remove,
              NEW replace \in SUBSET (Screens \X PagesOf(m)),
              NEW rotate \in SUBSET (Screens \X PagesOf(m)),
              ApplyPageScreenAssignments(m, remove, replace, rotate)
       PROVE  PagesInv'
  <2>1. /\ shelf' = shelf /\ pages' = pages /\ shelf[m] # "away"
        /\ assigned' \subseteq assigned \cup replace \cup rotate
        /\ \A a \in replace \cup rotate : a[2] \in pages
    BY <1>13 DEF ApplyPageScreenAssignments
  <2>2. \A a \in replace \cup rotate : a[2][1] = m
    BY DEF PagesOf
  <2> QED
    BY <2>1, <2>2 DEF PagesInv, PutAwayHasNoAssignment, AssignmentsNamePages,
                      OwnAssigned, Exists
<1>14. ASSUME NEW value \in Values, EditItem(value) PROVE UNCHANGED <<shelf, pages, assigned>>
  BY <1>14 DEF EditItem
<1>15. ASSUME NEW c \in Clients,
              \/ \E m \in Menus : StartPublish(c, m) \/ StartDiscard(c, m)
              \/ Continue(c) \/ Abandon(c)
       PROVE  UNCHANGED <<shelf, pages, assigned>> \/ ApplyDiscard(c)
  BY <1>15 DEF StartPublish, StartDiscard, Continue, Abandon, ReadDraft, RefusePublish,
               RetryPublish, CommitPublish, CountDiscard, RefuseDiscard, draft
<1>16. CASE UNCHANGED vars
  BY <1>1, <1>16 DEF vars, draft
<1>17. CASE EditMenus
  BY <1>1, <1>2, <1>3, <1>4, <1>5, <1>6, <1>7, <1>8, <1>9, <1>14, <1>17 DEF EditMenus
<1>18. CASE Assign
  BY <1>11, <1>12, <1>13, <1>18 DEF Assign
<1> QED
  BY <1>1, <1>10, <1>15, <1>16, <1>17, <1>18 DEF Next

LEMMA BoardsStep ==
    ASSUME TypeInv, PagesInv, BoardsInv, [Next]_vars
    PROVE  BoardsInv'
<1>1. \A m \in Menus : Exists(m) => Exists(m)'
  <2>1. CASE EditMenus
    BY <2>1 DEF EditMenus, CreateMenu, PutAway, PutBack, TakeOffScreens, DuplicateMenu,
       CreatePage, DeletePage, EditItem, GoBackTo, RestoreSnapshot, Exists, TypeInv, TypeOK
  <2>2. CASE Assign
    BY <2>2 DEF Assign, AssignScreen, ClearPageScreenAssignment, ApplyPageScreenAssignments,
                Exists
  <2>3. ASSUME NEW c \in Clients,
               \/ \E m \in Menus : StartPublish(c, m) \/ StartDiscard(c, m)
               \/ Continue(c) \/ Abandon(c)
        PROVE  UNCHANGED shelf
    BY <2>3 DEF StartPublish, StartDiscard, Continue, Abandon, ReadDraft, RefusePublish,
                RetryPublish, CommitPublish, CountDiscard, ApplyDiscard, RestoreSnapshot,
                RefuseDiscard, draft
  <2>4. CASE UNCHANGED vars
    BY <2>4 DEF vars, draft, Exists
  <2> QED
    BY <2>1, <2>2, <2>3, <2>4 DEF Next, Exists
<1>2. /\ \A m \in Menus : log'[m] # << >> => Exists(m)
      /\ \A m \in Menus : \A v \in 1..Len(log'[m]) : BoardOf(log'[m][v].board, m)
  <2>1. CASE UNCHANGED published
    BY <2>1 DEF published, BoardsInv
  <2>2. ASSUME NEW c \in Clients, CommitPublish(c)
        PROVE  <1>2
    <3> DEFINE m == req[c].menu
               n == Len(log[m])
    <3>1. /\ m \in Menus /\ n \in Nat /\ Len(log'[m]) = n + 1
          /\ \A k \in Menus \ {m} : log'[k] = log[k]
      BY <2>2, CommitLog
    <3>2. Exists(m)
      BY <2>2 DEF CommitPublish, BoardsInv
    <3>3. \A v \in 1..n : log'[m][v].board = log[m][v].board
      BY <2>2, KeptEntries
    <3>4. log'[m][n + 1].board = WorkingBoard(m)
      BY <2>2, CommittedEntry
    <3>5. BoardOf(WorkingBoard(m), m)
      BY <3>1, <3>2, WorkingBoardIsItsMenus
    <3>6. \A v \in 1..n : BoardOf(log[m][v].board, m)
      BY <3>1 DEF BoardsInv
    <3> HIDE DEF m, n
    <3>7. \A v \in 1..(n + 1) : BoardOf(log'[m][v].board, m)
      <4> TAKE v \in 1..(n + 1)
      <4>1. CASE v = n + 1
        BY <3>4, <3>5, <4>1
      <4>2. CASE v # n + 1
        <5>1. v \in 1..n
          BY <3>1, <4>2
        <5> QED
          BY <3>3, <3>6, <5>1
      <4> QED
        BY <4>1, <4>2
    <3> QED
      BY <3>1, <3>2, <3>7 DEF BoardsInv
  <2> QED
    BY <2>1, <2>2, OnlyCommitWritesHistory
<1>3. ASSUME NEW c \in Clients
      PROVE  /\ pc'[c] # "idle" => Exists(req'[c].menu)
             /\ pc'[c] \in {"discardCount", "discardRestore"} =>
                  BoardOf(req'[c].base, req'[c].menu)
  <2>1. CASE UNCHANGED <<pc, req>>
    BY <2>1 DEF BoardsInv
  <2>2. ASSUME NEW m \in Menus, StartPublish(c, m)
        PROVE  <1>3!2
    BY <2>2 DEF StartPublish, Goto, Request, TypeInv, TypeOK
  <2>3. ASSUME NEW m \in Menus, StartDiscard(c, m)
        PROVE  <1>3!2
    <3>1. pc'[c] = "discardCount" /\ req'[c].menu = m /\ req'[c].base = LatestBoard(m)
      BY <2>3 DEF StartDiscard, Goto, Request, TypeInv, TypeOK
    <3>2. Exists(m)
      BY <2>3 DEF StartDiscard, BoardsInv
    <3>3. Len(log[m]) \in 1..Len(log[m])
      BY <2>3 DEF StartDiscard, TypeInv, TypeOK
    <3>4. BoardOf(LatestBoard(m), m)
      BY <2>3, <3>3 DEF StartDiscard, LatestBoard, BoardsInv
    <3> QED
      BY <3>1, <3>2, <3>4
  <2>4. CASE ReadDraft(c)
    BY <2>4 DEF ReadDraft, Goto, BoardsInv, TypeInv, TypeOK
  <2>5. CASE Finish(c)
    BY <2>5 DEF Finish, Goto, TypeInv, TypeOK
  <2>6. CASE RetryPublish(c) \/ CountDiscard(c)
    BY <2>5, <2>6 DEF RetryPublish, CountDiscard, Goto, Request, BoardsInv, TypeInv, TypeOK
  <2>7. CASE RefusePublish(c) \/ CommitPublish(c) \/ ApplyDiscard(c) \/ RefuseDiscard(c)
             \/ Abandon(c)
    BY <2>5, <2>7 DEF RefusePublish, CommitPublish, ApplyDiscard, RefuseDiscard, Abandon
  <2>8. ASSUME NEW d \in Clients \ {c},
               \/ \E m \in Menus : StartPublish(d, m) \/ StartDiscard(d, m)
               \/ Continue(d) \/ Abandon(d)
        PROVE  pc'[c] = pc[c] /\ req'[c] = req[c]
    BY <2>8 DEF StartPublish, StartDiscard, Continue, Abandon, ReadDraft, RefusePublish,
                RetryPublish, CommitPublish, CountDiscard, ApplyDiscard, RefuseDiscard,
                Finish, Goto, TypeInv, TypeOK
  <2>9. CASE EditMenus \/ Assign \/ UNCHANGED vars
    BY <2>1, <2>9 DEF EditMenus, CreateMenu, PutAway, PutBack, TakeOffScreens,
       DuplicateMenu, CreatePage, DeletePage, EditItem, GoBackTo, Assign, AssignScreen,
       ClearPageScreenAssignment, ApplyPageScreenAssignments, vars, requests
  <2>10. CASE \E d \in Clients \ {c} :
                \/ \E m \in Menus : StartPublish(d, m) \/ StartDiscard(d, m)
                \/ Continue(d) \/ Abandon(d)
    BY <2>8, <2>10 DEF BoardsInv
  <2>11. CASE \/ \E m \in Menus : StartPublish(c, m) \/ StartDiscard(c, m)
              \/ Continue(c) \/ Abandon(c)
    BY <2>2, <2>3, <2>4, <2>6, <2>7, <2>11 DEF Continue
  <2> QED
    BY <2>9, <2>10, <2>11 DEF Next
<1>4. ASSUME NEW c \in Clients, pc'[c] # "idle" PROVE req'[c].menu \in Menus
  BY <1>4, TypeStep DEF TypeInv, RequestOK
<1>5. \A m \in Menus : log'[m] # << >> => Exists(m)'
  BY <1>1, <1>2
<1>6. \A c \in Clients : pc'[c] # "idle" => shelf'[req'[c].menu] # "absent"
  BY <1>1, <1>3, <1>4 DEF Exists
<1> QED
  BY <1>2, <1>3, <1>5, <1>6 DEF BoardsInv, Exists

LEMMA PlacementInit == Init => PagesInv /\ BoardsInv
  BY DEF Init, PagesInv, BoardsInv, PutAwayHasNoAssignment, AssignmentsNamePages,
         OwnAssigned, Exists

LEMMA PlacementInvariant == Spec => [](PagesInv /\ BoardsInv)
<1>1. TypeInv /\ PagesInv /\ BoardsInv /\ [Next]_vars => PagesInv' /\ BoardsInv'
  BY PagesStep, BoardsStep
<1> QED
  BY <1>1, PlacementInit, TypeCorrect, PTL DEF Spec

\* Assigning a screen, saving a menu's screens and restoring an old version are the
\* three ways back onto a screen, and none of them gives a screen to a menu that was
\* put away.
THEOREM PutAwayStaysOff == Spec => []PutAwayHasNoAssignment
<1>1. PagesInv => PutAwayHasNoAssignment
  BY DEF PagesInv
<1> QED
  BY <1>1, PlacementInvariant, PTL

\* Deleting a page, or restoring a version that never had it, leaves no assignment
\* naming it, and a menu never loses its last page.
THEOREM AssignmentsStayOnPages == Spec => []AssignmentsNamePages
<1>1. PagesInv => AssignmentsNamePages
  BY DEF PagesInv
<1> QED
  BY <1>1, PlacementInvariant, PTL

-----------------------------------------------------------------------------
(* What a publish tells, and whom.                                         *)

LEMMA TargetsStep ==
    ASSUME TypeInv, TargetsAreAccountedFor, [Next]_vars
    PROVE  TargetsAreAccountedFor'
<1>1. CASE UNCHANGED published
  BY <1>1 DEF published, TargetsAreAccountedFor, BoardScreens
<1>2. ASSUME NEW c \in Clients, CommitPublish(c)
      PROVE  TargetsAreAccountedFor'
  <2> DEFINE m == req[c].menu
             n == Len(log[m])
             Accounted(e, before) == /\ BoardScreens(e.board) \subseteq e.targets
                                     /\ e.targets \subseteq BoardScreens(e.board) \cup before
                                     /\ e.targets # {}
  <2>1. /\ m \in Menus /\ n \in Nat /\ Len(log'[m]) = n + 1
        /\ \A k \in Menus \ {m} : log'[k] = log[k]
    BY <1>2, CommitLog
  <2>2. \A v \in 1..n : /\ log'[m][v].board = log[m][v].board
                        /\ log'[m][v].targets = log[m][v].targets
    BY <1>2, KeptEntries
  <2>3. LET e == log'[m][n + 1] IN
        e.board = WorkingBoard(m) /\ e.targets = Targets(m) /\ e.targets # {}
    BY <1>2, CommittedEntry
  <2>4. BoardScreens(WorkingBoard(m)) = OwnScreens(m)
    <3>1. WorkingBoard(m) # Null
      BY <2>1, WorkingBoardType, NullIsNull DEF TypeInv
    <3> QED
      BY <3>1 DEF BoardScreens, WorkingBoard, OwnScreens
  <2>5. BoardScreens(LatestBoard(m)) = IF n = 0 THEN {} ELSE BoardScreens(log[m][n].board)
    <3>1. log[m] = << >> <=> n = 0
      BY <2>1 DEF TypeInv, TypeOK
    <3> QED
      BY <3>1 DEF LatestBoard, BoardScreens
  <2>6. Accounted(log'[m][n + 1], BoardScreens(LatestBoard(m)))
    BY <2>3, <2>4 DEF Targets
  <2> HIDE DEF m, n
  <2>7. \A v \in 1..(n + 1) :
          Accounted(log'[m][v], IF v = 1 THEN {} ELSE BoardScreens(log'[m][v - 1].board))
    <3> TAKE v \in 1..(n + 1)
    <3>1. CASE v = n + 1
      <4>1. (n + 1) - 1 = n /\ (v = 1 <=> n = 0) /\ (n # 0 => n \in 1..n)
        BY <2>1, <3>1
      <4> HIDE DEF Accounted
      <4> QED
        BY <2>2, <2>5, <2>6, <3>1, <4>1
    <3>2. CASE v # n + 1
      <4>1. v \in 1..n /\ (v # 1 => v - 1 \in 1..n)
        BY <2>1, <3>2
      <4>2. Accounted(log[m][v], IF v = 1 THEN {} ELSE BoardScreens(log[m][v - 1].board))
        BY <2>1, <4>1 DEF TargetsAreAccountedFor, n
      <4> QED
        BY <2>2, <4>1, <4>2
    <3> QED
      BY <3>1, <3>2
  <2>8. \A k \in Menus : \A v \in 1..Len(log'[k]) :
          Accounted(log'[k][v], IF v = 1 THEN {} ELSE BoardScreens(log'[k][v - 1].board))
    <3> TAKE k \in Menus
    <3>1. CASE k = m
      <4> HIDE DEF Accounted
      <4> QED
        BY <2>1, <2>7, <3>1
    <3>2. CASE k # m
      BY <2>1, <3>2 DEF TargetsAreAccountedFor
    <3> QED
      BY <3>1, <3>2
  <2> QED
    BY <2>8 DEF TargetsAreAccountedFor, BoardScreens
<1> QED
  BY <1>1, <1>2, OnlyCommitWritesHistory

\* A publish speaks to every screen its board is on, and otherwise only to screens
\* the menu's previous version was on.
THEOREM PublishesKeepToTheirScreens == Spec => []TargetsAreAccountedFor
<1>1. Init => TargetsAreAccountedFor
  BY DEF Init, TargetsAreAccountedFor
<1>2. TypeInv /\ TargetsAreAccountedFor /\ [Next]_vars => TargetsAreAccountedFor'
  BY TargetsStep
<1> QED
  BY <1>1, <1>2, TypeCorrect, PTL DEF Spec

-----------------------------------------------------------------------------
(* The publish core implements VenueWall: what a screen shows changes only *)
(* when a publish commits, and then only to the version just published, to *)
(* nothing, or not at all.  The times of the published versions decide     *)
(* what a screen shows, so the argument rests on no two being equal.       *)

Entries  == {e \in Menus \X Int : e[2] \in 1..Len(log[e[1]])}
Stamp(e) == log[e[1]][e[2]].stamp
Board(e) == log[e[1]][e[2]].board
Goals(e) == log[e[1]][e[2]].targets

UniqueInv ==
    /\ \A e, f \in Entries : Stamp(e) = Stamp(f) => e = f
    /\ \A c \in Clients : pc[c] = "publishCommit" => \A e \in Entries : Stamp(e) # req[c].stamp
    /\ \A c, d \in Clients :
         pc[c] = "publishCommit" /\ pc[d] = "publishCommit" /\ c # d =>
            req[c].stamp # req[d].stamp

LEMMA CommitEntries ==
    ASSUME TypeInv, NEW c \in Clients, CommitPublish(c)
    PROVE  \E new \in Menus \X Int :
           /\ new = <<req[c].menu, Len(log[req[c].menu]) + 1>>
           /\ Entries' = Entries \cup {new} /\ new \notin Entries
           /\ Stamp(new)' = req[c].stamp
           /\ \A e \in Entries :
                Stamp(e)' = Stamp(e) /\ Board(e)' = Board(e) /\ Goals(e)' = Goals(e)
<1> DEFINE m == req[c].menu
           n == Len(log[m])
<1>1. /\ m \in Menus /\ n \in Nat /\ Len(log'[m]) = n + 1
      /\ \A k \in Menus \ {m} : log'[k] = log[k]
  BY CommitLog
<1>2. \A v \in 1..n : /\ log'[m][v].board = log[m][v].board
                      /\ log'[m][v].stamp = log[m][v].stamp
                      /\ log'[m][v].targets = log[m][v].targets
  BY KeptEntries
<1>3. log'[m][n + 1].stamp = req[c].stamp
  BY CommittedEntry
<1>4. \A k \in Menus : Len(log[k]) \in Nat
  BY DEF TypeInv, TypeOK
<1> HIDE DEF m, n
<1>a. PICK new \in Menus \X Int : new = <<m, n + 1>>
  <2>1. n + 1 \in Int
    BY <1>1
  <2> QED
    BY <1>1, <2>1
<1>5. Entries' = Entries \cup {new} /\ new \notin Entries
  <2>1. \A e \in Menus \X Int :
          e[2] \in 1..Len(log'[e[1]]) <=> e[2] \in 1..Len(log[e[1]]) \/ e = new
    <3> TAKE e \in Menus \X Int
    <3>1. CASE e[1] = m
      BY <1>1, <1>a, <3>1 DEF n
    <3>2. CASE e[1] # m
      BY <1>1, <1>a, <3>2
    <3> QED
      BY <3>1, <3>2
  <2>2. new \in Menus \X Int /\ new \notin Entries
    BY <1>1, <1>a DEF Entries, n
  <2> QED
    BY <2>1, <2>2 DEF Entries
<1>6. Stamp(new)' = req[c].stamp
  BY <1>3, <1>a DEF Stamp
<1>7. \A e \in Entries : Stamp(e)' = Stamp(e) /\ Board(e)' = Board(e) /\ Goals(e)' = Goals(e)
  <2> TAKE e \in Entries
  <2>1. CASE e[1] = m
    BY <1>2, <2>1 DEF Entries, Stamp, Board, Goals, n
  <2>2. CASE e[1] # m
    BY <1>1, <2>2 DEF Entries, Stamp, Board, Goals
  <2> QED
    BY <2>1, <2>2
<1> QED
  BY <1>5, <1>6, <1>7, <1>a DEF m, n

LEMMA StampsBelowClock ==
    ASSUME TypeInv, StampsInv
    PROVE  \A e \in Entries : Stamp(e) \in Nat /\ Stamp(e) <= clock
<1>1. \A m \in Menus : log[m] \in Seq(Events)
  BY DEF TypeInv, TypeOK
<1>2. \A m \in Menus : \A v \in 1..Len(log[m]) : log[m][v] \in Events
  BY <1>1
<1> QED
  BY <1>2 DEF Entries, Stamp, Events, StampsInv

LEMMA UniqueStep ==
    ASSUME TypeInv, StampsInv, UniqueInv, [Next]_vars
    PROVE  UniqueInv'
<1>1. ASSUME NEW c \in Clients, CommitPublish(c)
      PROVE  UniqueInv'
  <2>1. PICK new \in Menus \X Int :
           /\ Entries' = Entries \cup {new}
           /\ Stamp(new)' = req[c].stamp
           /\ \A e \in Entries : Stamp(e)' = Stamp(e)
    BY <1>1, CommitEntries
  <2>2. pc[c] = "publishCommit" /\ pc'[c] = "idle"
    BY <1>1 DEF CommitPublish, Finish, Goto, TypeInv, TypeOK
  <2>3. \A d \in Clients : pc'[d] = "publishCommit" =>
          pc[d] = "publishCommit" /\ req'[d] = req[d] /\ d # c
    BY <1>1, <2>2 DEF CommitPublish, Finish, Goto, TypeInv, TypeOK
  <2>4. \A e \in Entries : Stamp(e) # req[c].stamp
    BY <2>2 DEF UniqueInv
  <2>5. \A e, f \in Entries' : Stamp(e)' = Stamp(f)' => e = f
    BY <2>1, <2>4 DEF UniqueInv
  <2>6. ASSUME NEW d \in Clients, pc'[d] = "publishCommit", NEW e \in Entries'
        PROVE  Stamp(e)' # req'[d].stamp
    BY <2>1, <2>2, <2>3, <2>6 DEF UniqueInv
  <2>7. ASSUME NEW d \in Clients, NEW b \in Clients, d # b,
               pc'[d] = "publishCommit", pc'[b] = "publishCommit"
        PROVE  req'[d].stamp # req'[b].stamp
    BY <2>3, <2>7 DEF UniqueInv
  <2> QED
    BY <2>5, <2>6, <2>7 DEF UniqueInv
<1>2. ASSUME NEW c \in Clients, ReadDraft(c)
      PROVE  UniqueInv'
  <2>1. log' = log /\ clock \in Nat
    BY <1>2 DEF ReadDraft, published, TypeInv, TypeOK
  <2>2. Entries' = Entries /\ \A e : Stamp(e)' = Stamp(e)
    BY <2>1 DEF Entries, Stamp
  <2>3. /\ req'[c].stamp = clock + 1
        /\ \A d \in Clients \ {c} : pc'[d] = pc[d] /\ req'[d] = req[d]
    BY <1>2 DEF ReadDraft, Goto, TypeInv, TypeOK
  <2>4. \A d \in Clients \ {c} : pc[d] = "publishCommit" =>
          req[d].stamp <= clock /\ req[d].stamp \in Nat
    BY DEF StampsInv, ReadyToCommit, TypeInv, TypeOK, Requests
  <2>5. \A e \in Entries : Stamp(e) # clock + 1
    BY <2>1, StampsBelowClock
  <2>6. \A d \in Clients \ {c} : pc[d] = "publishCommit" => req[d].stamp # clock + 1
    BY <2>1, <2>4
  <2> QED
    BY <2>2, <2>3, <2>5, <2>6 DEF UniqueInv
<1>3. CASE CommittersLeftAlone
  <2>1. Entries' = Entries /\ \A e : Stamp(e)' = Stamp(e)
    BY <1>3 DEF CommittersLeftAlone, Entries, Stamp
  <2> QED
    BY <1>3, <2>1 DEF CommittersLeftAlone, UniqueInv
<1> QED
  BY <1>1, <1>2, <1>3, OthersLeaveCommittersAlone

LEMMA UniqueInit == Init => UniqueInv
  BY DEF Init, UniqueInv, Entries

-----------------------------------------------------------------------------
(* A screen shows a version exactly when that version is the latest that     *)
(* spoke to it and names it.                                                 *)

IsShown(s, e) ==
    /\ e \in Entries /\ s \in Goals(e)
    /\ \A f \in Entries : s \in Goals(f) => Stamp(f) <= Stamp(e)
    /\ s \in BoardScreens(Board(e))

ShowsExactly ==
    \A s \in Screens :
        /\ Showing(s) # Nothing => IsShown(s, Showing(s))
        /\ \A e \in Entries : IsShown(s, e) => Showing(s) = e

LEMMA ShowingIsExact == TypeInv /\ StampsInv /\ UniqueInv => ShowsExactly
<1> SUFFICES ASSUME TypeInv, StampsInv, UniqueInv, NEW s \in Screens
             PROVE  /\ Showing(s) # Nothing => IsShown(s, Showing(s))
                    /\ \A e \in Entries : IsShown(s, e) => Showing(s) = e
  BY DEF ShowsExactly
<1> DEFINE told == Told(s)
           last == CHOOSE e \in told :
                     \A f \in told : log[f[1]][f[2]].stamp <= log[e[1]][e[2]].stamp
<1>1. told = {e \in Entries : s \in Goals(e)}
  BY ToldMembers DEF Entries, Goals
<1>2. Showing(s) # Nothing => IsShown(s, Showing(s))
  <2> SUFFICES ASSUME Showing(s) # Nothing PROVE IsShown(s, Showing(s))
    OBVIOUS
  <2>1. s \in BoardScreens(Board(Showing(s)))
    <3>1. Showing(s) = last /\ s \in BoardScreens(log[last[1]][last[2]].board)
      BY DEF Showing
    <3> HIDE DEF last
    <3> QED
      BY <3>1 DEF Board
  <2>2. /\ Showing(s) \in told
        /\ \A e \in told : Stamp(e) <= Stamp(Showing(s))
    BY ShowsTheLatestTold DEF ShowsTheLatest, Stamp
  <2> HIDE DEF told
  <2> QED
    BY <1>1, <2>1, <2>2 DEF IsShown
<1>3. ASSUME NEW e \in Entries, IsShown(s, e)
      PROVE  Showing(s) = e
  <2>1. e \in told /\ \A f \in told : log[f[1]][f[2]].stamp <= log[e[1]][e[2]].stamp
    BY <1>1, <1>3 DEF IsShown, Stamp
  <2>2. /\ last \in told
        /\ \A f \in told : log[f[1]][f[2]].stamp <= log[last[1]][last[2]].stamp
    <3> HIDE DEF told
    <3> QED
      BY <2>1
  <2>3. Stamp(last) <= Stamp(e) /\ Stamp(e) <= Stamp(last) /\ last \in Entries
    <3> HIDE DEF told, last
    <3> QED
      BY <1>1, <2>1, <2>2 DEF Stamp
  <2>4. Stamp(last) = Stamp(e)
    <3> HIDE DEF last
    <3> QED
      BY <2>3, StampsBelowClock
  <2>5. last = e
    <3> HIDE DEF last
    <3> QED
      BY <2>3, <2>4 DEF UniqueInv
  <2> QED
    BY <1>3, <2>1, <2>5 DEF Showing, IsShown, Board
<1> QED
  BY <1>2, <1>3

-----------------------------------------------------------------------------
(* Every step maps to a step of VenueWall or to a stutter.                 *)

LEMMA OneScreen ==
    ASSUME ShowsExactly, ShowsExactly', NEW s \in Screens, NEW new,
           Entries' = Entries \cup {new},
           \A e \in Entries :
             Stamp(e)' = Stamp(e) /\ Board(e)' = Board(e) /\ Goals(e)' = Goals(e)
    PROVE  Showing(s)' \in {Showing(s), Nothing, new}
<1> SUFFICES ASSUME Showing(s)' # Nothing, Showing(s)' # new
             PROVE  Showing(s)' = Showing(s)
  OBVIOUS
<1>1. PICK e : e = Showing(s)'
  OBVIOUS
<1>2. IsShown(s, e)'
  BY <1>1 DEF ShowsExactly
<1>3. e \in Entries
  BY <1>1, <1>2 DEF IsShown
<1>4. IsShown(s, e)
  <2>1. s \in Goals(e) /\ s \in BoardScreens(Board(e))
    BY <1>2, <1>3 DEF IsShown
  <2>2. \A f \in Entries : s \in Goals(f) => Stamp(f) <= Stamp(e)
    BY <1>2, <1>3 DEF IsShown
  <2> QED
    BY <1>3, <2>1, <2>2 DEF IsShown
<1> QED
  BY <1>1, <1>3, <1>4 DEF ShowsExactly

LEMMA NothingPublishedNothingMoves ==
    ASSUME ShowsExactly, ShowsExactly', NEW s \in Screens, UNCHANGED published
    PROVE  Showing(s)' = Showing(s)
<1>1. \A e : IsShown(s, e)' <=> IsShown(s, e)
  BY DEF IsShown, Entries, Goals, Stamp, Board, published
<1>2. Entries' = Entries
  BY DEF Entries, published
<1>3. PICK old, new : old = Showing(s) /\ new = Showing(s)'
  OBVIOUS
<1>4. CASE new # Nothing
  <2>1. IsShown(s, new)'
    BY <1>3, <1>4 DEF ShowsExactly
  <2>2. IsShown(s, new)
    BY <1>1, <2>1
  <2> QED
    BY <1>3, <2>2 DEF ShowsExactly, IsShown
<1>5. CASE old # Nothing
  <2>1. IsShown(s, old)
    BY <1>3, <1>5 DEF ShowsExactly
  <2>2. IsShown(s, old)' /\ old \in Entries'
    BY <1>1, <1>2, <2>1 DEF IsShown
  <2> QED
    BY <1>3, <2>2 DEF ShowsExactly
<1> QED
  BY <1>3, <1>4, <1>5

LEMMA WallInit == Init => Wall!Init
<1> SUFFICES ASSUME Init PROVE Wall!Init
  OBVIOUS
<1>1. \A s \in Screens : Told(s) = {}
  BY ToldMembers DEF Init
<1>2. \A s \in Screens : Showing(s) = << >>
  BY <1>1 DEF Showing, Nothing
<1> QED
  BY <1>2 DEF Init, Wall!Init, Wall!Nothing

LEMMA WallStep ==
    ASSUME TypeInv, SupersessionIsAChain, ShowsExactly, ShowsExactly', [Next]_vars
    PROVE  [Wall!Next]_<<[s \in Screens |-> Showing(s)], publishedVersion>>
<1> DEFINE shown == [s \in Screens |-> Showing(s)]
<1>1. CASE UNCHANGED published
  BY <1>1, NothingPublishedNothingMoves DEF published
<1>2. ASSUME NEW c \in Clients, CommitPublish(c)
      PROVE  Wall!Next
  <2> DEFINE m == req[c].menu
             n == Len(log[m])
  <2>1. PICK new \in Menus \X Int :
          /\ new = <<m, n + 1>>
          /\ Entries' = Entries \cup {new}
          /\ \A e \in Entries :
               Stamp(e)' = Stamp(e) /\ Board(e)' = Board(e) /\ Goals(e)' = Goals(e)
    BY <1>2, CommitEntries
  <2>2. \A s \in Screens : Showing(s)' \in {Showing(s), << >>, new}
    BY <2>1, OneScreen DEF Nothing
  <2>3. m \in Menus /\ n = publishedVersion[m]
    BY <1>2, CommitLog DEF SupersessionIsAChain
  <2>4. publishedVersion' = [publishedVersion EXCEPT ![m] = @ + 1]
    BY <1>2, <2>3 DEF CommitPublish, LatestVersion
  <2>5. PICK reached \in SUBSET Screens : reached = {s \in Screens : Showing(s)' = new}
    OBVIOUS
  <2>6. PICK dark \in SUBSET Screens : dark = {s \in Screens : Showing(s)' = << >>}
    OBVIOUS
  <2>7. shown' = [s \in Screens |-> IF s \in reached THEN <<m, publishedVersion[m] + 1>>
                                    ELSE IF s \in dark THEN << >> ELSE shown[s]]
    <3> HIDE DEF m, n
    <3> QED
      BY <2>1, <2>2, <2>3, <2>5, <2>6
  <2>8. Wall!Publish(m, reached, dark)
    <3> HIDE DEF m, n
    <3> QED
      BY <2>4, <2>7 DEF Wall!Publish, Wall!Nothing
  <2> HIDE DEF m
  <2> QED
    BY <2>3, <2>8 DEF Wall!Next
<1> QED
  BY <1>1, <1>2, OnlyCommitWritesHistory

\* Drafts, restores, discards, retries and abandoned requests are invisible: what the
\* screens show changes only when a menu's next version is published, and a screen
\* then shows that version, nothing, or what it showed.
THEOREM PublishingKeepsItsPromise == Spec => ImplementsWall
<1>1. TypeInv /\ StampsInv /\ UniqueInv /\ [Next]_vars => StampsInv' /\ UniqueInv'
  BY StampsStep, UniqueStep
<1>2. /\ TypeInv /\ SupersessionIsAChain /\ ShowsExactly /\ ShowsExactly' /\ [Next]_vars
      => [Wall!Next]_<<[s \in Screens |-> Showing(s)], publishedVersion>>
  BY WallStep
<1> QED
  BY <1>1, <1>2, StampsInit, UniqueInit, ShowingIsExact, WallInit, TypeCorrect,
     HistoryIsAChain, PTL DEF Spec, ImplementsWall, Wall!Spec

=============================================================================
