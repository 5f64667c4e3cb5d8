----------------------------- MODULE MenuPublish -----------------------------
(***************************************************************************)
(* The publish core of a venue: its menus on and off the shelf, the pages  *)
(* of each menu, which page is assigned to which screen (the draft of the  *)
(* wall), the append-only log of publishes that reached the screens, and   *)
(* the requests that work in several round trips (publish, discard).       *)
(*                                                                         *)
(* Every statement of ContentRepository opens a transaction and takes the  *)
(* menu's row (UPDLOCK, HOLDLOCK) first, so each one is one action.  What  *)
(* ContentService reads before such a statement is an action of its own:   *)
(* anything may happen between the two.                                    *)
(***************************************************************************)
EXTENDS Integers, Sequences, FiniteSets

CONSTANTS
    Menus,           \* identities menus of the venue may have
    Screens,         \* screens paired to the venue
    PagesPerMenu,    \* how many page identities a menu may use (a bound)
    Values,          \* values of the library item that every menu places
    MenuLimit,       \* the resolved ceiling content.menus.per_venue
    PublishAttempts, \* how often a publish re-reads a menu that moved
    Clients,         \* requests in flight at the API at the same time
    MaxRequests,     \* how many publishes and discards are started (a bound)
    MaxChanges,      \* changes one save of a menu's screens carries (a bound)
    Null             \* no snapshot (never published), no menu

ASSUME PublishConstants ==
    /\ IsFiniteSet(Menus)
    /\ PagesPerMenu \in Nat \ {0}
    /\ MenuLimit \in Nat
    /\ PublishAttempts \in Nat \ {0}
    /\ MaxRequests \in Nat
    /\ MaxChanges \in Nat

\* A page belongs to one menu for good: UQ_MenuPages_Id_Menu_Venue.
Pages      == Menus \X (1..PagesPerMenu)
PagesOf(m) == {m} \X (1..PagesPerMenu)

\* What a publish records: the pages, the item's value and the screens.
Boards == [pages : SUBSET Pages, value : Values, screens : SUBSET (Screens \X Pages)]
MaybeBoards == Boards \cup {Null}

ASSUME NullIsNull == Null \notin Boards \cup Menus

\* One row of MenuPublishEvents with its MenuPublishTargets; a menu's version v
\* is the v-th event of its log.  shipped stands for the diff the caller computed.
Events == [board : Boards, shipped : MaybeBoards \X MaybeBoards, stamp : Nat,
           targets : SUBSET Screens, replacedBy : Nat]

\* What a request holds between two round trips.
Requests == [menu : Menus \cup {Null}, attempt : Nat, base : MaybeBoards, version : Nat,
             work : MaybeBoards, stamp : Nat]
Request(m, attempt, base) == [menu |-> m, attempt |-> attempt, base |-> base, version |-> 0,
                              work |-> Null, stamp |-> 0]
NoRequest == Request(Null, 0, Null)
Steps == {"idle", "publishRead", "publishCommit", "discardCount", "discardRestore"}

VARIABLES
    shelf,            \* [Menus -> {"absent", "shelf", "away"}]
    pages,            \* the pages that exist
    library,          \* the shared item's value
    assigned,         \* MenuScreenAssignments: <<screen, page>> pairs
    log,              \* [Menus -> Seq(Events)]
    publishedVersion, \* Menus.PublishedVersion (0: null)
    pc,               \* [Clients -> Steps]
    req,              \* [Clients -> Requests]
    clock,            \* the time of the last PublishedUtc handed out
    started           \* requests started so far

draft == <<shelf, pages, library, assigned>>
published == <<log, publishedVersion>>
requests == <<pc, req, clock, started>>
vars == <<draft, published, requests>>

-----------------------------------------------------------------------------
(* Reading the database.                                                   *)

OnShelf == {m \in Menus : shelf[m] = "shelf"}
Exists(m) == shelf[m] # "absent"

OwnAssigned(m)   == {a \in assigned : a[2][1] = m}
OwnScreens(m)    == {a[1] : a \in OwnAssigned(m)}
TakenByOther(m)  == {a[1] : a \in assigned \ OwnAssigned(m)}

\* WorkingSnapshotProjection: the menu as it stands.
WorkingBoard(m) == [pages   |-> {p \in pages : p[1] = m},
                    value   |-> library,
                    screens |-> OwnAssigned(m)]

BoardScreens(b) == IF b = Null THEN {} ELSE {a[1] : a \in b.screens}

LatestVersion(m) == Len(log[m])
LatestBoard(m)   == IF log[m] = << >> THEN Null ELSE log[m][Len(log[m])].board

\* ScreensShowingSql: the last publish that spoke to a screen, by PublishedUtc,
\* is what it shows, unless that publish did not name the screen.
Nothing == << >>
Told(s) == UNION {{<<m, v>> : v \in {w \in 1..Len(log[m]) : s \in log[m][w].targets}}
                  : m \in Menus}
Showing(s) ==
    LET told == Told(s)
        last == CHOOSE e \in told :
                  \A f \in told : log[f[1]][f[2]].stamp <= log[e[1]][e[2]].stamp
    IN  IF told # {} /\ s \in BoardScreens(log[last[1]][last[2]].board)
        THEN last ELSE Nothing

-----------------------------------------------------------------------------
(* Menus and their pages.                                                  *)

Init ==
    /\ shelf = [m \in Menus |-> "absent"]
    /\ pages = {}
    /\ library \in Values
    /\ assigned = {}
    /\ log = [m \in Menus |-> << >>]
    /\ publishedVersion = [m \in Menus |-> 0]
    /\ pc = [c \in Clients |-> "idle"]
    /\ req = [c \in Clients |-> NoRequest]
    /\ clock = 0
    /\ started = 0

\* Mutant: the ceiling is off by one.
CeilingOffByOne == Cardinality(OnShelf) <= MenuLimit

\* The count and the insert hold the same lock.
WithinCeiling == Cardinality(OnShelf) + 1 <= MenuLimit

CreateMenu(m) ==
    /\ ~Exists(m)
    /\ WithinCeiling
    /\ shelf' = [shelf EXCEPT ![m] = "shelf"]
    /\ pages' = pages \cup {<<m, 1>>}
    /\ UNCHANGED <<library, assigned, published, requests>>

\* The copy places the same library item, is unpublished and on no screen.
DuplicateMenu(src, m) ==
    /\ Exists(src) /\ ~Exists(m)
    /\ WithinCeiling
    /\ shelf' = [shelf EXCEPT ![m] = "shelf"]
    /\ pages' = pages \cup {<<m, i>> : i \in {j \in 1..PagesPerMenu : <<src, j>> \in pages}}
    /\ UNCHANGED <<library, assigned, published, requests>>

\* A fresh identity: no snapshot anyone can restore names it.
FreshPage(p) ==
    /\ p \notin pages
    /\ \A v \in 1..Len(log[p[1]]) : p \notin log[p[1]][v].board.pages

CreatePage(p) ==
    /\ Exists(p[1]) /\ FreshPage(p)
    /\ pages' = pages \cup {p}
    /\ UNCHANGED <<shelf, library, assigned, published, requests>>

\* The last page stays; the page's assignments go with it.
DeletePage(p) ==
    /\ p \in pages
    /\ Cardinality(pages \cap PagesOf(p[1])) > 1
    /\ pages' = pages \ {p}
    /\ assigned' = {a \in assigned : a[2] # p}
    /\ UNCHANGED <<shelf, library, published, requests>>

EditItem(value) ==
    /\ library # value
    /\ library' = value
    /\ UNCHANGED <<shelf, pages, assigned, published, requests>>

-----------------------------------------------------------------------------
(* Which page is on which screen: unpublished intent.                      *)

\* The MERGE needs the page to exist; the DELETE before it does not, and both
\* commit.  The caller is told "not found" when nothing came out of the MERGE.
AssignScreen(s, p, rotate) ==
    /\ shelf[p[1]] # "away"
    /\ LET kept == IF rotate THEN assigned ELSE {a \in assigned : a[1] = s => a[2] = p}
       IN  assigned' = kept \cup (IF p \in pages THEN {<<s, p>>} ELSE {})
    /\ UNCHANGED <<shelf, pages, library, published, requests>>

\* One save of a menu's staged changes: removals, then replacements, then inserts.
ApplyPageScreenAssignments(m, remove, replace, rotate) ==
    /\ shelf[m] # "away"
    /\ \A c \in remove \cup replace \cup rotate : c[2] \in pages
    /\ \A c, d \in replace : c[1] = d[1] => c = d
    /\ assigned' = {a \in assigned \ remove :
                      \A c \in replace : a[1] = c[1] => a[2] = c[2]}
                   \cup replace \cup rotate
    /\ UNCHANGED <<shelf, pages, library, published, requests>>

ClearPageScreenAssignment(s, p) ==
    /\ assigned' = assigned \ {<<s, p>>}
    /\ UNCHANGED <<shelf, pages, library, published, requests>>

TakeOffScreens(m) ==
    /\ Exists(m)
    /\ assigned' = assigned \ OwnAssigned(m)
    /\ UNCHANGED <<shelf, pages, library, published, requests>>

-----------------------------------------------------------------------------
(* On and off the shelf.                                                   *)

\* On a screen: an assignment, or a published screen no other menu was given.
StillOnScreens(m) ==
    \/ OwnAssigned(m) # {}
    \/ BoardScreens(LatestBoard(m)) \ TakenByOther(m) # {}

PutAway(m) ==
    /\ shelf[m] = "shelf"
    /\ ~StillOnScreens(m)
    /\ shelf' = [shelf EXCEPT ![m] = "away"]
    /\ UNCHANGED <<pages, library, assigned, published, requests>>

PutBack(m) ==
    /\ shelf[m] = "away"
    /\ WithinCeiling
    /\ shelf' = [shelf EXCEPT ![m] = "shelf"]
    /\ UNCHANGED <<pages, library, assigned, published, requests>>

-----------------------------------------------------------------------------
(* Restoring a snapshot: what "go back to" and discard share.              *)

\* Mutant: only another menu's screens are respected, not the shelf.
RestoreIgnoresShelf(m, b) ==
    \E a \in b.screens \ OwnAssigned(m) : a[1] \in TakenByOther(m)

RestoreRefused(m, b) ==
    \/ shelf[m] = "away" /\ b.screens # {}
    \/ \E a \in b.screens \ OwnAssigned(m) : a[1] \in TakenByOther(m)

\* The working rows return to the snapshot, screens and shared item included.
RestoreSnapshot(m, b) ==
    /\ ~RestoreRefused(m, b)
    /\ pages' = (pages \ PagesOf(m)) \cup b.pages
    /\ library' = b.value
    /\ assigned' = (assigned \ OwnAssigned(m)) \cup b.screens
    /\ UNCHANGED <<shelf, published>>

\* Mutant: going back points the menu at the old version again.
GoBackToVersion(m, v) ==
    /\ v \in 1..Len(log[m])
    /\ ~RestoreRefused(m, log[m][v].board)
    /\ publishedVersion' = [publishedVersion EXCEPT ![m] = v]
    /\ UNCHANGED <<draft, log, requests>>

\* Mutant: going back sends the old event to its screens again.
GoBackByResending(m, v) ==
    /\ v \in 1..Len(log[m])
    /\ clock' = clock + 1
    /\ log' = [log EXCEPT ![m][v].stamp = clock + 1]
    /\ UNCHANGED <<draft, publishedVersion, pc, req, started>>

\* An event never changes once written, so reading it first opens no window.
GoBackTo(m, v) ==
    /\ v \in 1..Len(log[m])
    /\ RestoreSnapshot(m, log[m][v].board)
    /\ UNCHANGED requests

-----------------------------------------------------------------------------
(* Publishing: read the draft, then commit it if nothing moved.            *)

Goto(c, step) == pc' = [pc EXCEPT ![c] = step]
Finish(c)     == /\ Goto(c, "idle")
                 /\ req' = [req EXCEPT ![c] = NoRequest]
                 /\ UNCHANGED <<clock, started>>

StartPublish(c, m) ==
    /\ pc[c] = "idle" /\ Exists(m)
    /\ started < MaxRequests
    /\ started' = started + 1
    /\ Goto(c, "publishRead")
    /\ req' = [req EXCEPT ![c] = Request(m, 1, Null)]
    /\ UNCHANGED <<draft, published, clock>>

\* Both halves of the draft and the version come from one statement; the event's
\* time is taken right after it.
ReadDraft(c) ==
    LET m == req[c].menu IN
    /\ pc[c] = "publishRead"
    /\ Goto(c, "publishCommit")
    /\ clock' = clock + 1
    /\ req' = [req EXCEPT ![c] =
                 [menu |-> m, attempt |-> @.attempt, base |-> LatestBoard(m),
                  version |-> LatestVersion(m), work |-> WorkingBoard(m), stamp |-> clock + 1]]
    /\ UNCHANGED <<draft, published, started>>

\* Screens it was on and another menu has since been given are not its to touch.
Conflicts(m) ==
    (BoardScreens(LatestBoard(m)) \ OwnScreens(m)) \cap TakenByOther(m)
\* Mutant: a later publish tells only the screens of the one before.
TargetsOfLastTime(m) ==
    IF LatestBoard(m) = Null THEN OwnScreens(m)
    ELSE BoardScreens(LatestBoard(m)) \ Conflicts(m)

Targets(m) ==
    OwnScreens(m) \cup (BoardScreens(LatestBoard(m)) \ Conflicts(m))

\* Mutants: the optimistic checks dropped.
PublishedUnchecked(c) == FALSE
DraftUnchecked(c) == FALSE

PublishedMoved(c) ==
    \/ req[c].version # LatestVersion(req[c].menu)
    \/ req[c].base # LatestBoard(req[c].menu)
PublishRefused(c) ==
    \/ shelf[req[c].menu] = "away"
    \/ ~PublishedMoved(c) /\ Targets(req[c].menu) = {}
DraftMoved(c) == req[c].work # WorkingBoard(req[c].menu)

RefusePublish(c) ==
    /\ pc[c] = "publishCommit"
    /\ PublishRefused(c)
    /\ Finish(c)
    /\ UNCHANGED <<draft, published>>

\* Mutant: the last attempt is never answered.
RetryWithoutGivingUp(c) ==
    /\ pc[c] = "publishCommit"
    /\ ~PublishRefused(c)
    /\ PublishedMoved(c) \/ DraftMoved(c)
    /\ req[c].attempt < PublishAttempts
    /\ Goto(c, "publishRead")
    /\ req' = [req EXCEPT ![c] = Request(@.menu, @.attempt + 1, Null)]
    /\ UNCHANGED <<draft, published, clock, started>>

\* MenuMovedWhilePublishingException: read again, or give up after the last attempt.
RetryPublish(c) ==
    /\ pc[c] = "publishCommit"
    /\ ~PublishRefused(c)
    /\ PublishedMoved(c) \/ DraftMoved(c)
    /\ IF req[c].attempt < PublishAttempts
       THEN /\ Goto(c, "publishRead")
            /\ req' = [req EXCEPT ![c] = Request(@.menu, @.attempt + 1, Null)]
            /\ UNCHANGED <<clock, started>>
       ELSE Finish(c)
    /\ UNCHANGED <<draft, published>>

NewEvent(c) ==
    [board |-> WorkingBoard(req[c].menu), shipped |-> <<req[c].base, req[c].work>>,
     stamp |-> req[c].stamp, targets |-> Targets(req[c].menu), replacedBy |-> 0]

\* Mutants: every older entry is stamped again; the superseded lose their targets.
SupersedeAll(events, version) ==
    [v \in DOMAIN events |-> [events[v] EXCEPT !.replacedBy = version]]

\* The entries a new version supersedes carry its number, once.
Superseded(events, version) ==
    [v \in DOMAIN events |->
        IF events[v].replacedBy = 0 THEN [events[v] EXCEPT !.replacedBy = version] ELSE events[v]]

CommitPublish(c) ==
    LET m == req[c].menu IN
    /\ pc[c] = "publishCommit"
    /\ ~PublishRefused(c) /\ ~PublishedMoved(c) /\ ~DraftMoved(c)
    /\ log' = [log EXCEPT ![m] = Append(Superseded(log[m], LatestVersion(m) + 1), NewEvent(c))]
    /\ publishedVersion' = [publishedVersion EXCEPT ![m] = LatestVersion(m) + 1]
    /\ Finish(c)
    /\ UNCHANGED draft

-----------------------------------------------------------------------------
(* Discarding the draft: three round trips.                                *)

\* Reads the published snapshot; a menu never published has nothing to return to.
StartDiscard(c, m) ==
    /\ pc[c] = "idle" /\ log[m] # << >>
    /\ started < MaxRequests
    /\ started' = started + 1
    /\ Goto(c, "discardCount")
    /\ req' = [req EXCEPT ![c] = Request(m, 1, LatestBoard(m))]
    /\ UNCHANGED <<draft, published, clock>>

\* Counts the unpublished changes: nothing to discard ends the request.
CountDiscard(c) ==
    /\ pc[c] = "discardCount"
    /\ IF LatestBoard(req[c].menu) = WorkingBoard(req[c].menu)
       THEN Finish(c)
       ELSE Goto(c, "discardRestore") /\ UNCHANGED <<req, clock, started>>
    /\ UNCHANGED <<draft, published>>

ApplyDiscard(c) ==
    /\ pc[c] = "discardRestore"
    /\ RestoreSnapshot(req[c].menu, req[c].base)
    /\ Finish(c)

RefuseDiscard(c) ==
    /\ pc[c] = "discardRestore"
    /\ RestoreRefused(req[c].menu, req[c].base)
    /\ Finish(c)
    /\ UNCHANGED <<draft, published>>

\* The connection drops or the process dies between two round trips.
Abandon(c) ==
    /\ pc[c] # "idle"
    /\ Finish(c)
    /\ UNCHANGED <<draft, published>>

-----------------------------------------------------------------------------

Continue(c) ==
    \/ ReadDraft(c) \/ RefusePublish(c) \/ RetryPublish(c) \/ CommitPublish(c)
    \/ CountDiscard(c) \/ ApplyDiscard(c) \/ RefuseDiscard(c)

EditMenus ==
    \/ \E m \in Menus : CreateMenu(m) \/ PutAway(m) \/ PutBack(m) \/ TakeOffScreens(m)
    \/ \E src, m \in Menus : DuplicateMenu(src, m)
    \/ \E p \in Pages : CreatePage(p) \/ DeletePage(p)
    \/ \E value \in Values : EditItem(value)
    \/ \E m \in Menus, v \in 1..MaxRequests : GoBackTo(m, v)

Assign ==
    \/ \E s \in Screens, p \in Pages :
         \/ \E rotate \in BOOLEAN : AssignScreen(s, p, rotate)
         \/ ClearPageScreenAssignment(s, p)
    \/ \E m \in Menus : \E changed \in SUBSET (Screens \X PagesOf(m)) :
         /\ Cardinality(changed) <= MaxChanges
         /\ \E remove \in SUBSET changed : \E replace \in SUBSET (changed \ remove) :
              ApplyPageScreenAssignments(m, remove, replace, changed \ (remove \cup replace))

Next ==
    \/ EditMenus
    \/ Assign
    \/ \E c \in Clients :
         \/ \E m \in Menus : StartPublish(c, m) \/ StartDiscard(c, m)
         \/ Continue(c)
         \/ Abandon(c)

Spec == Init /\ [][Next]_vars

\* A request the API has accepted runs to its answer.
FairSpec == Spec /\ \A c \in Clients : WF_vars(Continue(c))

-----------------------------------------------------------------------------
(* Properties.                                                             *)

TypeOK ==
    /\ shelf \in [Menus -> {"absent", "shelf", "away"}]
    /\ pages \subseteq Pages
    /\ library \in Values
    /\ assigned \subseteq Screens \X Pages
    /\ log \in [Menus -> Seq(Events)]
    /\ publishedVersion \in [Menus -> Nat]
    /\ pc \in [Clients -> Steps]
    /\ req \in [Clients -> Requests]
    /\ clock \in Nat
    /\ started \in Nat

\* The diff recorded with version v compares exactly the board of version v-1
\* with the board that went out as v, whoever edited or published in between:
\* history never describes content that did not ship (PublishTailSql, Q182).
ShippedIsTheDifference ==
    \A m \in Menus : \A v \in 1..Len(log[m]) :
        log[m][v].shipped = << IF v = 1 THEN Null ELSE log[m][v - 1].board,
                               log[m][v].board >>

\* Every version but the last is superseded by the very next one, and the menu's
\* PublishedVersion is the last one (ModelInvariants, MenuHistoryEntries).
SupersessionIsAChain ==
    \A m \in Menus :
        /\ publishedVersion[m] = Len(log[m])
        /\ \A v \in 1..Len(log[m]) :
             log[m][v].replacedBy = IF v = Len(log[m]) THEN 0 ELSE v + 1

\* PublishedUtc, taken before the lock, still orders a menu's versions the way
\* they committed: ScreensShowingSql picks the last publish by that time.
StampsFollowVersions ==
    \A m \in Menus : \A u, v \in 1..Len(log[m]) :
        u < v => log[m][u].stamp < log[m][v].stamp

\* A put-away menu is assigned to no screen: assigning, saving assignments and
\* restoring an old version are each a way back that has to be refused.
PutAwayHasNoAssignment ==
    \A m \in Menus : shelf[m] = "away" => OwnAssigned(m) = {}

\* Creating, duplicating and putting back never exceed the venue's ceiling.
CeilingHolds == Cardinality(OnShelf) <= MenuLimit

\* An assignment names a page that exists (the page may be deleted or restored
\* away at any time), and a menu on record has a page.
AssignmentsNamePages ==
    /\ \A a \in assigned : a[2] \in pages
    /\ \A m \in Menus : Exists(m) => pages \cap PagesOf(m) # {}

\* A publish lands on every screen its board names, and beyond those only on
\* screens the previous version named: nobody else's screen is told anything.
TargetsAreAccountedFor ==
    \A m \in Menus : \A v \in 1..Len(log[m]) :
        LET e == log[m][v]
            before == IF v = 1 THEN {} ELSE BoardScreens(log[m][v - 1].board)
        IN  /\ BoardScreens(e.board) \subseteq e.targets
            /\ e.targets \subseteq BoardScreens(e.board) \cup before
            /\ e.targets # {}

\* A screen never goes back to an older version of the menu it shows, in whatever
\* order overlapping publishes commit.
ShownVersionNeverGoesBack ==
    [][log' # log => \A s \in Screens :
         LET old == Showing(s)
             new == Showing(s)'
         IN  old # Nothing /\ new # Nothing /\ old[1] = new[1] => old[2] <= new[2]]_log

\* A version, once published, keeps its board, its diff and its targets: going
\* back, discarding and editing the shared item never rewrite history.
PublishedIsImmutable ==
    [][\A m \in Menus :
         /\ Len(log[m]) <= Len(log'[m])
         /\ \A v \in 1..Len(log[m]) :
              /\ log'[m][v].board = log[m][v].board
              /\ log'[m][v].shipped = log[m][v].shipped
              /\ log'[m][v].targets = log[m][v].targets]_log

\* Every publish or discard a person asked for is answered, however often the
\* menu moves underneath it.
RequestsEnd == \A c \in Clients : pc[c] # "idle" ~> pc[c] = "idle"

\* The wall a person sees: whatever happens to drafts and requests, screens move
\* only when a menu's next version is published, and only to that version.
Wall == INSTANCE VenueWall WITH shown <- [s \in Screens |-> Showing(s)],
                                version <- publishedVersion
ImplementsWall == Wall!Spec

-----------------------------------------------------------------------------
(* What a test of the repository says of the program and the model refutes. *)

\* ModelInvariants.cs: "A put-away menu is on no screen".
PutAwayIsOnNoScreen ==
    \A m \in Menus : shelf[m] = "away" =>
        BoardScreens(LatestBoard(m)) \subseteq TakenByOther(m)
=============================================================================
