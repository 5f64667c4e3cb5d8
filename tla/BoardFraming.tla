---------------------------- MODULE BoardFraming ----------------------------
(***************************************************************************)
(* What the screens of a venue draw of a published menu. The display       *)
(* endpoint cuts every page a screen holds into frames that fit its video  *)
(* wall and slices out of each frame the part that is this screen's; the   *)
(* player turns the frames one after the other.                            *)
(*                                                                         *)
(* A board is the sequence of its sections in printing order, each with    *)
(* its page and the number of its items. Item <<p, n>> is the n-th item of *)
(* page p.                                                                 *)
(***************************************************************************)
EXTENDS FrameCuts

CONSTANTS
    Pages,       \* the menu's pages, numbered in the order it prints them
    Boards,      \* the boards that get published
    Capacities,  \* what a photo grid holds, for each density
    Wall,        \* the venue's screens, by their position on the wall
    MaxChanges   \* bound: changes an operator makes

Sections(pages) == [page : pages, items : Nat]

(* A section's page is one of its menu's. Two to four screens, no one      *)
(* twice, make a wall.                                                     *)
ASSUME PagesAssumption == Pages \subseteq Nat \ {0} /\ IsFiniteSet(Pages)
ASSUME BoardsAssumption ==
    \A b \in Boards : b.pages \subseteq Pages /\ b.sections \in Seq(Sections(b.pages))
ASSUME CapacitiesAssumption ==
    Capacities \subseteq Nat \ {0} /\ IsFiniteSet(Capacities) /\ Capacities # {}
ASSUME WallAssumption == Wall \in Seq(ToSet(Wall)) /\ Len(Wall) > 1 /\ IsInjective(Wall)

Screens == ToSet(Wall)
NoPage == 0
NoBoard == <<>>

VARIABLES
    board,    \* the published snapshot
    held,     \* [Screens -> SUBSET Pages], the pages assigned to a screen
    grid,     \* [Screens -> Capacities], a screen's density
    walled,   \* whether the screens are grouped into a video wall
    changes,  \* changes made so far
    req,      \* the content request being answered, or Idle
    content,  \* [Screens -> what its player was sent last, or NoContent]
    index     \* [Screens -> Nat], the player's place in its cycle

venue == <<board, held, grid, walled, changes>>
vars == <<venue, req, content, index>>

Smaller(a, b) == IF a < b THEN a ELSE b
InOrder(S) ==
    [i \in 1 .. Cardinality(S) |-> CHOOSE n \in S : Cardinality({m \in S : m < n}) = i - 1]

(***************************************************************************)
(* Pages and their items. A section of another page counts as empty.       *)
(***************************************************************************)
SizesOf(b, p) ==
    [i \in DOMAIN b.sections |->
        IF p \in {NoPage, b.sections[i].page} THEN b.sections[i].items ELSE 0]
ItemsOf(b, p) == Total(SizesOf(b, p))

(* ComputeFrameStarts: where a page is cut on a wall that holds c items. *)
Layout ==
    [b \in Boards |-> [p \in Pages \cup {NoPage} |-> [c \in 1 .. Len(Wall) * Max(Capacities) |->
        InOrder(Cuts(SizesOf(b, p), c))]]]

(* SliceSections: the items of a page after the first so many, at most so  *)
(* many.                                                                   *)
Slice(total, p, from, most) == {p} \X ((from + 1) .. Smaller(from + most, total))

(* The page a screen holds first; one that holds none draws all sections.  *)
FirstOf(ps) == IF ps = {} THEN NoPage ELSE Min(ps)

RealPages(b, ps) ==
    IF Cardinality(ps) > 1 /\ ps \cap b.pages # {} THEN InOrder(ps \cap b.pages) ELSE <<FirstOf(ps)>>

(***************************************************************************)
(* A request r that has read everything, on a wall of rows.                *)
(***************************************************************************)
Sum(rows) == Total([i \in DOMAIN rows |-> rows[i].cap])
Position(rows, s) == CHOOSE i \in DOMAIN rows : rows[i].screen = s

Offset(rows, s) == Sum(SubSeq(rows, 1, Position(rows, s) - 1))

(* Mutant: a frame that closed early is filled up all the same. *)
PartFull(r, p, from, to) == Slice(ItemsOf(r.board, p), p, r.offset + from, r.cap)

(* Mutant: every screen of the wall shows the first part of a frame. *)
PartFirst(r, p, from, to) == Slice(ItemsOf(r.board, p), p, from, Smaller(r.cap, to - from))

Part(r, p, from, to) == Slice(ItemsOf(r.board, p), p, r.offset + from, Smaller(r.cap, to - from))

(* ExpandVirtualPages: this screen's part of every frame of a page. *)
Expand(r, p) ==
    LET cuts == Layout[r.board][p][r.capacity]
        end(i) == IF i < Len(cuts) THEN cuts[i + 1] ELSE ItemsOf(r.board, p)
    IN  [i \in DOMAIN cuts |-> [page |-> p, items |-> Part(r, p, cuts[i], end(i))]]

Answer(r) ==
    [board |-> r.board, held |-> r.held, cap |-> r.cap, rows |-> r.rows,
     pages |-> IF Len(r.frames) > 1 THEN r.frames ELSE <<>>,
     single |-> Slice(ItemsOf(r.board, FirstOf(r.held)), FirstOf(r.held), r.offset, r.cap)]

Idle == [at |-> "idle"]
NoContent == [pages |-> <<>>, single |-> {}]

(***************************************************************************)
(* The venue.                                                              *)
(***************************************************************************)
Init ==
    /\ \E ps \in SUBSET Pages : held = [s \in Screens |-> ps]
    /\ board \in Boards
    /\ \E c \in Capacities : grid = [s \in Screens |-> c]
    /\ walled \in BOOLEAN
    /\ changes = 0
    /\ req = Idle
    /\ content = [s \in Screens |-> NoContent]
    /\ index = [s \in Screens |-> 0]

Change ==
    /\ changes < MaxChanges
    /\ changes' = changes + 1
    /\ UNCHANGED <<req, content, index>>

Publish ==
    /\ Change
    /\ board' \in Boards
    /\ UNCHANGED <<held, grid, walled>>

(* Give a screen pages, take some or all of them off it. *)
Assign(s) ==
    /\ Change
    /\ \E ps \in SUBSET Pages : held' = [held EXCEPT ![s] = ps]
    /\ UNCHANGED <<board, grid, walled>>

SetGrid(s) ==
    /\ Change
    /\ \E c \in Capacities : grid' = [grid EXCEPT ![s] = c]
    /\ UNCHANGED <<board, held, walled>>

(* A wall is made of all the screens, or unmade. *)
GroupWall ==
    /\ Change
    /\ walled' = ~walled
    /\ UNCHANGED <<board, held, grid>>

(***************************************************************************)
(* GetContent reads the screen and its pages, the snapshot, and the wall.  *)
(***************************************************************************)
ReadScreen(s) ==
    /\ req = Idle
    /\ req' = [at |-> "board", screen |-> s, cap |-> grid[s], inWall |-> walled, held |-> held[s],
               board |-> NoBoard]
    /\ UNCHANGED <<venue, content, index>>

ReadBoard ==
    /\ req.at = "board"
    /\ req' = [req EXCEPT !.at = "wall", !.board = board]
    /\ UNCHANGED <<venue, content, index>>

(* ResolveWallScreens: the wall's rows, or the screen alone as first read. *)
WallOf(r) ==
    IF r.inWall /\ walled
    THEN [i \in DOMAIN Wall |-> [screen |-> Wall[i], cap |-> grid[Wall[i]]]]
    ELSE <<[screen |-> r.screen, cap |-> r.cap]>>

ReadWall ==
    /\ req.at = "wall"
    /\ LET rows == WallOf(req)
       IN  req' = [at |-> "pages", screen |-> req.screen, cap |-> req.cap, held |-> req.held,
                   board |-> req.board, rows |-> rows,
                   capacity |-> Sum(rows), offset |-> Offset(rows, req.screen),
                   todo |-> RealPages(req.board, req.held), frames |-> <<>>]
    /\ UNCHANGED <<venue, content, index>>

AddPage ==
    /\ req.at = "pages"
    /\ req.todo # <<>>
    /\ req' = [req EXCEPT !.frames = @ \o Expand(req, Head(req.todo)), !.todo = Tail(@)]
    /\ UNCHANGED <<venue, content, index>>

(***************************************************************************)
(* The player.                                                             *)
(***************************************************************************)
KeyOf(c) == [i \in DOMAIN c.pages |-> c.pages[i].page]

(* Mutant: every answer starts the cycle over. *)
PlaceOver(s, c) == 0

(* The cycle starts over when its pages are others. *)
Place(s, c) == IF KeyOf(content[s]) = KeyOf(c) THEN index[s] ELSE 0

Receive ==
    /\ req.at = "pages"
    /\ req.todo = <<>>
    /\ LET c == Answer(req)
       IN  /\ content' = [content EXCEPT ![req.screen] = c]
           /\ index' = [index EXCEPT ![req.screen] = Place(req.screen, c)]
    /\ req' = Idle
    /\ UNCHANGED venue

Rotating(c) == Len(c.pages) > 1

(* advance, when the dwell time is over. *)
Turn(s) ==
    /\ Rotating(content[s])
    /\ index' = [index EXCEPT ![s] = (@ + 1) % Len(content[s].pages)]
    /\ UNCHANGED <<venue, req, content>>

(* contentForPage: the items on the screen. *)
Drawn(s) ==
    LET c == content[s]
    IN  IF Rotating(c) THEN c.pages[(index[s] % Len(c.pages)) + 1].items ELSE c.single

Serve == ReadBoard \/ ReadWall \/ AddPage \/ Receive

Next ==
    \/ Publish \/ GroupWall \/ Serve
    \/ \E s \in Screens : Assign(s) \/ SetGrid(s) \/ ReadScreen(s) \/ Turn(s)

Spec == Init /\ [][Next]_vars

(* A player asks again every minute, a request is answered, and the timer  *)
(* of a frame fires: an answer with the same pages does not restart it.    *)
(* Screens ask independently. That one request is answered at a time is a  *)
(* bound of the model, hence the strong fairness.                          *)
FairSpec ==
    /\ Spec
    /\ WF_vars(Serve)
    /\ \A s \in Screens : SF_vars(ReadScreen(s)) /\ WF_vars(Turn(s))
-----------------------------------------------------------------------------
AllItems(b, p) == {p} \X (1 .. ItemsOf(b, p))
LastFrame(c) == c.pages[Len(c.pages)]

(* What a screen draws in a turn of all its frames. *)
Everything(s) ==
    LET c == content[s]
    IN  IF Rotating(c) THEN UNION {c.pages[i].items : i \in DOMAIN c.pages} ELSE c.single

(* A screen draws the board, the pages and the wall as they are. *)
Current(s) ==
    /\ content[s] # NoContent
    /\ content[s].board = board
    /\ content[s].held = held[s]
    /\ content[s].cap = grid[s]
    /\ content[s].rows = WallOf([screen |-> s, cap |-> grid[s], inWall |-> walled])

(* A screen of its own is sent every item of every page it draws on        *)
(* exactly one of that page's frames, though frames close early and the    *)
(* screen slices them once more.                                           *)
EachItemOnce ==
    \A s \in Screens :
        LET c == content[s]
            of(p) == {i \in DOMAIN c.pages : c.pages[i].page = p}
        IN  c # NoContent /\ Len(c.rows) = 1 =>
                IF c.pages = <<>> THEN c.single = AllItems(c.board, FirstOf(c.held))
                ELSE \A p \in ToSet(KeyOf(c)) :
                        /\ UNION {c.pages[i].items : i \in of(p)} = AllItems(c.board, p)
                        /\ \A i, j \in of(p) : i # j => c.pages[i].items \cap c.pages[j].items = {}

(* A wall whose screens hold the same pages shows every item of each       *)
(* between them, once every screen draws the board, the pages and the wall *)
(* as they are. The first page a screen holds must be published: a screen  *)
(* that holds two of which only the later is published, in one frame, is   *)
(* sent no pages and the sections of the first.                            *)
WallShowsAll ==
    walled /\ (\A s \in Screens : Current(s) /\ held[s] = held[Wall[1]]) =>
        \A p \in held[Wall[1]] \cap board.pages :
            FirstOf(held[Wall[1]]) \in board.pages
                => AllItems(board, p) \subseteq UNION {Everything(t) : t \in Screens}

(* When the operator is done, a screen draws what is published, and gets   *)
(* to the last of its frames again and again, however often it asks.       *)
EveryFrameComesUp ==
    \A s \in Screens :
        []<>(Current(s) /\ (Rotating(content[s]) => Drawn(s) = LastFrame(content[s]).items))
=============================================================================
