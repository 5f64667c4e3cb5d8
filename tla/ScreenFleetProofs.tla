-------------------------- MODULE ScreenFleetProofs --------------------------
(***************************************************************************)
(* Type correctness, coherence of the rows and the single use of codes in  *)
(* replacements, for any number of screens, requests and venues.           *)
(*                                                                         *)
(* Coherence of the table alone is not inductive: a request may write the  *)
(* row it read at any later time.  FleetInv therefore says it of every row *)
(* there is, stored or in flight.                                          *)
(***************************************************************************)
EXTENDS ScreenFleet, TLAPS

GoodRows == {row \in Rows : Coherent(row)}
Flights  == UNION {[S -> GoodRows] : S \in SUBSET Screens}
Requested == [kind : Kinds, todo : Flights, code : Codes \cup {Null},
              screen : Screens \cup {Null}, venue : Venues \cup {Null}]

\* A claim knows its screen, code and venue.
Linked(q) == q.kind \in {"claim", "link"} =>
                q.screen \in Known /\ q.venue \in Venues /\ q.code \in Codes

TableInv  == screens \in [Screens -> GoodRows \cup {Null}]
CodesInv  == /\ codes \in [Codes -> [state : {"none", "open", "expired", "claimed"},
                                     screen : Screens \cup {Null}, venue : Venues \cup {Null}]]
             /\ \A c \in Codes : codes[c].state = "open" => codes[c].screen \in Known
AuditsInv == /\ audits \subseteq [code : Codes, target : Screens, source : Screens]
             /\ CodesReplaceOnce
CountsInv == keys \in 0..MaxKeys /\ started \in 0..MaxRequests
FlightInv == /\ req \in [Slots -> Requested]
             /\ \A r \in Slots : Linked(req[r])
             /\ sweep \in Flights

FleetInv == TableInv /\ CodesInv /\ AuditsInv /\ CountsInv /\ FlightInv

-----------------------------------------------------------------------------
(* Rows.                                                                   *)

LEMMA NullIsNotGood == Null \notin GoodRows
BY NullIsNoRow DEF GoodRows

\* What the handlers make of a coherent row is a coherent row.
LEMMA RowIsGood ==
    ASSUME NEW v \in Venues \cup {Null}, NEW k \in 1..MaxKeys, NEW st \in Statuses,
           NEW se \in Seen, NEW w \in (Groups \X (1..2)) \cup {Null},
           v = Null \/ st = "Archived" => w = Null
    PROVE  Row(v, k, st, se, w) \in GoodRows
BY DEF GoodRows, Rows, Row, Coherent

LEMMA GoodRowParts ==
    ASSUME NEW row \in GoodRows
    PROVE  /\ row.venue \in Venues \cup {Null} /\ row.key \in 1..MaxKeys
           /\ row.status \in Statuses /\ row.seen \in Seen
           /\ row.wall \in (Groups \X (1..2)) \cup {Null}
           /\ row.venue = Null \/ row.status = "Archived" => row.wall = Null
BY DEF GoodRows, Rows, Coherent

LEMMA Constants == /\ {"Online", "Unpaired", "Archived", "Offline", "Replaced"} \subseteq Statuses
                   /\ {"recent", "never", "stale"} \subseteq Seen
BY DEF Statuses, Seen

LEMMA RowChanges ==
    ASSUME NEW row \in GoodRows
    PROVE  /\ HeartbeatRow(row) \in GoodRows
           /\ UnpairedRow(row) \in GoodRows
           /\ ArchivedRow(row) \in GoodRows
           /\ row.status # "Archived" => ResetRow(row) \in GoodRows
BY RowIsGood, GoodRowParts, Constants DEF HeartbeatRow, UnpairedRow, ArchivedRow, ResetRow

\* The same of the changes to a single column.
LEMMA ColumnChanges ==
    ASSUME NEW row \in GoodRows
    PROVE  /\ OfflineRow(row) \in GoodRows
           /\ [row EXCEPT !.seen = "stale"] \in GoodRows
           /\ [row EXCEPT !.wall = Null] \in GoodRows
           /\ \A w \in Groups \X (1..2) : row.venue # Null /\ row.status # "Archived" =>
                 [row EXCEPT !.wall = w] \in GoodRows
           /\ \A v \in Venues : [row EXCEPT !.venue = v] \in GoodRows
<1> DEFINE Places == (Groups \X (1..2)) \cup {Null}
<1>1. row \in [venue : Venues \cup {Null}, key : 1..MaxKeys, status : Statuses, seen : Seen,
               wall : Places]
  BY DEF GoodRows, Rows
<1> HIDE DEF Places
<1>2. [row EXCEPT !.status = "Offline"] = Row(row.venue, row.key, "Offline", row.seen, row.wall)
  BY <1>1 DEF Row
<1>3. [row EXCEPT !.seen = "stale"] = Row(row.venue, row.key, row.status, "stale", row.wall)
  BY <1>1 DEF Row
<1>4. \A w : [row EXCEPT !.wall = w] = Row(row.venue, row.key, row.status, row.seen, w)
  BY <1>1 DEF Row
<1>5. \A v : [row EXCEPT !.venue = v] = Row(v, row.key, row.status, row.seen, row.wall)
  BY <1>1 DEF Row
<1>6. OfflineRow(row) \in GoodRows
  <2>1. Row(row.venue, row.key, "Offline", row.seen, row.wall) \in GoodRows
    BY RowIsGood, GoodRowParts, Constants
  <2> QED  BY <1>2, <2>1, Zenon DEF OfflineRow
<1>7. [row EXCEPT !.seen = "stale"] \in GoodRows
  <2>1. Row(row.venue, row.key, row.status, "stale", row.wall) \in GoodRows
    BY RowIsGood, GoodRowParts, Constants
  <2> QED  BY <1>3, <2>1, Zenon
<1>8. [row EXCEPT !.wall = Null] \in GoodRows
  <2>1. Row(row.venue, row.key, row.status, row.seen, Null) \in GoodRows
    BY RowIsGood, GoodRowParts
  <2> QED  BY <1>4, <2>1, Zenon
<1>9. ASSUME NEW w \in Groups \X (1..2), row.venue # Null, row.status # "Archived"
      PROVE  [row EXCEPT !.wall = w] \in GoodRows
  <2>1. Row(row.venue, row.key, row.status, row.seen, w) \in GoodRows
    BY <1>9, RowIsGood, GoodRowParts
  <2> QED  BY <1>4, <2>1, Zenon
<1>10. ASSUME NEW v \in Venues
       PROVE  [row EXCEPT !.venue = v] \in GoodRows
  <2>1. v # Null
    BY FleetConstants
  <2>2. Row(v, row.key, row.status, row.seen, row.wall) \in GoodRows
    BY <2>1, RowIsGood, GoodRowParts
  <2> QED  BY <1>5, <2>2, Zenon
<1> QED
  BY <1>6, <1>7, <1>8, <1>9, <1>10, Zenon

-----------------------------------------------------------------------------
(* Rows in flight.                                                         *)

LEMMA FlightIsGood ==
    ASSUME NEW S \in SUBSET Screens, NEW rows \in [S -> GoodRows]
    PROVE  rows \in Flights
BY DEF Flights

LEMMA FlightParts ==
    ASSUME NEW rows \in Flights
    PROVE  /\ DOMAIN rows \subseteq Screens
           /\ \A s \in DOMAIN rows : rows[s] \in GoodRows
           /\ \A s : Without(rows, s) \in Flights
<1>1. PICK S \in SUBSET Screens : rows \in [S -> GoodRows]
  BY DEF Flights
<1>2. DOMAIN rows = S /\ \A s \in S : rows[s] \in GoodRows
  BY <1>1
<1>3. ASSUME NEW s
      PROVE  Without(rows, s) \in Flights
  <2>1. Without(rows, s) \in [S \ {s} -> GoodRows]
    BY <1>2 DEF Without
  <2> QED  BY <2>1, FlightIsGood
<1> QED  BY <1>2, <1>3

LEMMA SmallFlights ==
    /\ NoRows \in Flights
    /\ \A s \in Screens, row \in GoodRows : One(s, row) \in Flights
<1>1. NoRows \in Flights
  <2>1. NoRows \in [{} -> GoodRows]
    BY DEF NoRows
  <2> QED  BY <2>1, FlightIsGood
<1>2. ASSUME NEW s \in Screens, NEW row \in GoodRows
      PROVE  One(s, row) \in Flights
  <2>1. One(s, row) \in [{s} -> GoodRows]
    BY DEF One
  <2> QED  BY <2>1, FlightIsGood
<1> QED  BY <1>1, <1>2

LEMMA RequestIsGood ==
    ASSUME NEW kind \in Kinds, NEW todo \in Flights, NEW code \in Codes \cup {Null},
           NEW screen \in Screens \cup {Null}, NEW venue \in Venues \cup {Null}
    PROVE  Request(kind, todo, code, screen, venue) \in Requested
BY DEF Requested, Request

LEMMA WritingIsGood ==
    ASSUME NEW rows \in Flights
    PROVE  Writing(rows) \in Requested /\ Linked(Writing(rows))
BY RequestIsGood DEF Writing, Kinds, Linked, Request

LEMMA IdleIsGood == Idle \in Requested /\ Linked(Idle)
BY SmallFlights DEF Idle, Kinds, Linked, Requested

-----------------------------------------------------------------------------
(* What the actions share.                                                 *)

LEMMA KnownRowsAreGood ==
    ASSUME TableInv, NEW s \in Known
    PROVE  s \in Screens /\ screens[s] \in GoodRows
BY DEF TableInv, Known

LEMMA StoredRowKeeps ==
    ASSUME TableInv, NEW s \in Screens, NEW row \in GoodRows,
           screens' = [screens EXCEPT ![s] = row]
    PROVE  TableInv' /\ Known \subseteq Known'
BY NullIsNotGood DEF TableInv, Known

\* More screens are no harm to codes and claims.
LEMMA GrowthKeeps ==
    ASSUME Known \subseteq Known'
    PROVE  /\ CodesInv /\ UNCHANGED codes => CodesInv'
           /\ FlightInv /\ UNCHANGED <<req, sweep>> => FlightInv'
           /\ \A q : Linked(q) => Linked(q)'
BY DEF CodesInv, FlightInv, Linked

LEMMA StartKeeps ==
    ASSUME FleetInv, NEW r \in Slots, NEW q \in Requested, Linked(q), Start(r, q)
    PROVE  FleetInv'
<1> USE DEF Start
<1>1. TableInv' /\ CodesInv' /\ AuditsInv'
  BY DEF FleetInv, TableInv, CodesInv, AuditsInv, CodesReplaceOnce, Known
<1>2. CountsInv'
  BY FleetConstants DEF FleetInv, CountsInv
<1>3. FlightInv'
  BY DEF FleetInv, FlightInv, Linked, Known
<1> QED  BY <1>1, <1>2, <1>3 DEF FleetInv

-----------------------------------------------------------------------------
(* The invariant.                                                          *)

LEMMA InitKeeps ==
    ASSUME Init
    PROVE  FleetInv
<1> USE DEF Init
<1>1. TableInv /\ CodesInv
  BY DEF TableInv, CodesInv
<1>2. AuditsInv
  BY DEF AuditsInv, CodesReplaceOnce
<1>3. CountsInv
  BY FleetConstants DEF CountsInv
<1>4. FlightInv
  BY IdleIsGood, SmallFlights, Zenon DEF FlightInv
<1> QED  BY <1>1, <1>2, <1>3, <1>4 DEF FleetInv

LEMMA RequestsKeep ==
    ASSUME FleetInv, NEW r \in Slots, Requests(r)
    PROVE  FleetInv'
<1> USE DEF FleetInv
<1>1. ASSUME NEW rows \in Flights, Start(r, Writing(rows))
      PROVE  FleetInv'
  BY <1>1, WritingIsGood, StartKeeps
<1>2. ASSUME NEW s \in Known, NEW row \in GoodRows, Start(r, Writing(One(s, row)))
      PROVE  FleetInv'
  BY <1>1, <1>2, SmallFlights, KnownRowsAreGood
<1>3. ASSUME NEW s \in Screens, Heartbeat(r, s)
      PROVE  FleetInv'
  BY <1>2, <1>3, KnownRowsAreGood, RowChanges DEF Heartbeat
<1>4. ASSUME NEW s \in Screens, Configure(r, s)
      PROVE  FleetInv'
  BY <1>2, <1>4, KnownRowsAreGood DEF Configure, Owned
<1>5. ASSUME NEW s \in Screens, Reset(r, s)
      PROVE  FleetInv'
  BY <1>2, <1>5, KnownRowsAreGood, RowChanges DEF Reset, Owned, Active
<1>6. ASSUME NEW s \in Screens, Unpair(r, s)
      PROVE  FleetInv'
  BY <1>2, <1>6, KnownRowsAreGood, RowChanges DEF Unpair, Owned
<1>7. ASSUME NEW s \in Screens, NEW archived \in BOOLEAN, SetArchived(r, s, archived)
      PROVE  FleetInv'
  <2>1. s \in Known /\ ArchivedRow(screens[s]) \in GoodRows /\ OfflineRow(screens[s]) \in GoodRows
    BY <1>7, KnownRowsAreGood, RowChanges, ColumnChanges DEF SetArchived, Owned
  <2>2. CASE archived
    BY <1>2, <1>7, <2>1, <2>2 DEF SetArchived
  <2>3. CASE ~archived
    BY <1>2, <1>7, <2>1, <2>3 DEF SetArchived
  <2> QED  BY <2>2, <2>3
<1>8. ASSUME NEW v \in Venues, NEW g \in Groups, NEW a \in Screens, NEW b \in Screens,
             SaveWall(r, v, g, <<a, b>>)
      PROVE  FleetInv'
  <2> DEFINE places    == {a, b}
             displaced == {screens[s].wall[1] : s \in {t \in places : screens[t].wall # Null}}
                              \cup {g}
             Placed(s) == [screens[s] EXCEPT !.wall = IF s = a THEN <<g, 1>>
                                                      ELSE IF s = b THEN <<g, 2>> ELSE Null]
             rows      == [s \in places \cup OnWall(v, displaced) |-> Placed(s)]
  <2>1. Start(r, Writing(rows)) /\ \A s \in places : s \in InVenue(v) /\ Active(s)
    BY <1>8 DEF SaveWall
  <2>2. v # Null
    BY FleetConstants
  <2>3. ASSUME NEW s \in places
        PROVE  s \in Screens /\ Placed(s) \in GoodRows
    <3>1. /\ s \in Known /\ screens[s] \in GoodRows
          /\ screens[s].venue # Null /\ screens[s].status # "Archived"
      BY <2>1, <2>2, KnownRowsAreGood DEF InVenue, Active
    <3>2. \A w \in Groups \X (1..2) : [screens[s] EXCEPT !.wall = w] \in GoodRows
      BY <3>1, ColumnChanges
    <3>3. <<g, 1>> \in Groups \X (1..2) /\ <<g, 2>> \in Groups \X (1..2)
      OBVIOUS
    <3>4. CASE s = a
      BY <3>2, <3>3, <3>4
    <3>5. CASE s # a /\ s = b
      BY <3>2, <3>3, <3>5
    <3> QED  BY <3>4, <3>5
  <2>4. ASSUME NEW s \in OnWall(v, displaced), s \notin places
        PROVE  s \in Screens /\ Placed(s) \in GoodRows
    <3>1. s \in Known /\ screens[s] \in GoodRows
      BY KnownRowsAreGood DEF OnWall, InVenue
    <3>2. [screens[s] EXCEPT !.wall = Null] \in GoodRows
      BY <3>1, ColumnChanges
    <3>3. s # a /\ s # b
      BY <2>4
    <3>4. Placed(s) = [screens[s] EXCEPT !.wall = Null]
      BY <3>3
    <3> QED  BY <3>1, <3>2, <3>4, KnownRowsAreGood
  <2> HIDE DEF places, Placed, displaced
  <2>5. places \cup OnWall(v, displaced) \in SUBSET Screens
    BY <2>3, <2>4
  <2>6. rows \in [places \cup OnWall(v, displaced) -> GoodRows]
    BY <2>3, <2>4
  <2> HIDE DEF rows
  <2>7. rows \in Flights
    BY <2>5, <2>6, FlightIsGood
  <2> QED  BY <1>1, <2>1, <2>7
<1>9. ASSUME NEW v \in Venues, NEW g \in Groups, RemoveWall(r, v, g)
      PROVE  FleetInv'
  <2> DEFINE rows == [s \in OnWall(v, {g}) |-> [screens[s] EXCEPT !.wall = Null]]
  <2>1. \A s \in OnWall(v, {g}) : s \in Screens /\ [screens[s] EXCEPT !.wall = Null] \in GoodRows
    <3>1. \A s \in OnWall(v, {g}) : s \in Known
      BY DEF OnWall, InVenue
    <3> QED  BY <3>1, KnownRowsAreGood, ColumnChanges
  <2>2. rows \in [OnWall(v, {g}) -> GoodRows] /\ OnWall(v, {g}) \in SUBSET Screens
    BY <2>1
  <2>3. Start(r, Writing(rows))
    BY <1>9 DEF RemoveWall
  <2> HIDE DEF rows
  <2>4. rows \in Flights
    BY <2>2, FlightIsGood
  <2> QED  BY <1>1, <2>3, <2>4
<1>10. ASSUME NEW v \in Venues, NEW c \in Codes, Claim(r, c, v)
       PROVE  FleetInv'
  <2> DEFINE q == Request("claim", NoRows, c, codes[c].screen, v)
  <2>1. Start(r, q) /\ codes[c].screen \in Known
    BY <1>10 DEF Claim, CodesInv
  <2>2. q \in Requested
    BY <2>1, KnownRowsAreGood, RequestIsGood, SmallFlights DEF Kinds
  <2>3. Linked(q)
    BY <2>1 DEF Linked, Request
  <2> HIDE DEF q
  <2> QED  BY <2>1, <2>2, <2>3, StartKeeps
<1> QED
  BY <1>3, <1>4, <1>5, <1>6, <1>7, <1>8, <1>9, <1>10 DEF Requests

LEMMA ContinueKeeps ==
    ASSUME FleetInv, NEW r \in Slots, Continue(r)
    PROVE  FleetInv'
<1> USE DEF FleetInv
\* A request takes its next state, and nothing else moves but the table or a code.
<1>1. ASSUME NEW q \in Requested, Linked(q), Known \subseteq Known',
             req' = [req EXCEPT ![r] = q], UNCHANGED sweep
      PROVE  FlightInv'
  <2>1. /\ req' \in [Slots -> Requested] /\ sweep' \in Flights
        /\ \A t \in Slots : Linked(req'[t])
    BY <1>1 DEF FlightInv
  <2>2. \A t \in Slots : Linked(req[t])'
    BY <1>1, <2>1 DEF Linked
  <2> QED  BY <2>1, <2>2 DEF FlightInv
<1>2. ASSUME ClaimCode(r)
      PROVE  FleetInv'
  <2> DEFINE q == [req[r] EXCEPT !.kind = "link"]
             claimed == [state |-> "claimed", screen |-> req[r].screen, venue |-> req[r].venue]
  <2>1. /\ req[r] \in Requested /\ req[r].screen \in Known /\ req[r].screen \in Screens
        /\ req[r].venue \in Venues /\ req[r].code \in Codes
    BY <1>2 DEF ClaimCode, FlightInv, Linked, Known
  <2>2. q \in Requested /\ Linked(q)
    BY <2>1 DEF Requested, Linked, Kinds
  <2>3. /\ codes' = [codes EXCEPT ![req[r].code] = claimed] /\ req' = [req EXCEPT ![r] = q]
        /\ UNCHANGED <<screens, audits, keys, sweep, started>>
    BY <1>2 DEF ClaimCode
  <2>4. Known' = Known
    BY <2>3 DEF Known
  <2>5. CodesInv'
    BY <2>1, <2>3, <2>4 DEF CodesInv
  <2>6. AuditsInv'
    BY <2>1, <2>3 DEF AuditsInv, CodesReplaceOnce, CodesInv
  <2> HIDE DEF q
  <2>7. FlightInv'
    BY <1>1, <2>2, <2>3, <2>4
  <2> QED  BY <2>3, <2>5, <2>6, <2>7 DEF TableInv, CountsInv
<1>3. ASSUME AssignVenue(r)
      PROVE  FleetInv'
  <2> DEFINE s == req[r].screen
             row == [screens[s] EXCEPT !.venue = req[r].venue]
             q == Writing(One(s, row))
  <2>1. s \in Known /\ req[r].venue \in Venues
    BY <1>3 DEF AssignVenue, FlightInv, Linked
  <2>2. s \in Screens /\ row \in GoodRows
    BY <2>1, KnownRowsAreGood, ColumnChanges
  <2>3. req' = [req EXCEPT ![r] = q] /\ UNCHANGED <<screens, codes, audits, keys, sweep, started>>
    BY <1>3 DEF AssignVenue
  <2> HIDE DEF s, row
  <2>4. q \in Requested /\ Linked(q)
    BY <2>2, SmallFlights, WritingIsGood
  <2> HIDE DEF q
  <2>5. Known' = Known
    BY <2>3 DEF Known
  <2>6. FlightInv' /\ CodesInv'
    BY <1>1, <2>3, <2>4, <2>5, GrowthKeeps
  <2> QED  BY <2>3, <2>6 DEF TableInv, AuditsInv, CodesReplaceOnce, CountsInv
<1>4. ASSUME NEW s \in Screens, Write(r, s)
      PROVE  FleetInv'
  <2> DEFINE rows == req[r].todo
             rest == [req[r] EXCEPT !.todo = Without(rows, s)]
             q == IF DOMAIN rows = {s} THEN Idle ELSE rest
  <2>1. /\ req[r] \in Requested /\ Linked(req[r]) /\ rows \in Flights
    BY DEF FlightInv, Requested
  <2>2. /\ s \in DOMAIN rows /\ req' = [req EXCEPT ![r] = q]
        /\ UNCHANGED <<codes, audits, keys, sweep, started>>
        /\ \E row \in Aged(rows[s]) : screens' = [screens EXCEPT ![s] = row]
    BY <1>4 DEF Write
  <2>3. \A row \in Aged(rows[s]) : row \in GoodRows
    <3>1. rows[s] \in GoodRows
      BY <2>1, <2>2, FlightParts
    <3> QED  BY <3>1, ColumnChanges, Zenon DEF Aged
  <2>4. TableInv' /\ Known \subseteq Known'
    BY <2>2, <2>3, StoredRowKeeps
  <2>5. rest \in Requested /\ Linked(rest)
    <3>1. Without(rows, s) \in Flights
      BY <2>1, FlightParts
    <3> QED  BY <2>1, <3>1 DEF Requested, Linked
  <2>6. q \in Requested /\ Linked(q)
    BY <2>5, IdleIsGood
  <2> HIDE DEF q
  <2>7. FlightInv' /\ CodesInv'
    BY <1>1, <2>2, <2>4, <2>6, GrowthKeeps
  <2> QED  BY <2>2, <2>4, <2>7 DEF AuditsInv, CodesReplaceOnce, CountsInv
<1>5. ASSUME Abort(r)
      PROVE  FleetInv'
  <2>1. req' = [req EXCEPT ![r] = Idle]
        /\ UNCHANGED <<screens, codes, audits, keys, sweep, started>>
    BY <1>5 DEF Abort
  <2>2. Known' = Known
    BY <2>1 DEF Known
  <2>3. FlightInv' /\ CodesInv'
    BY <1>1, <2>1, <2>2, IdleIsGood, GrowthKeeps
  <2> QED  BY <2>1, <2>3 DEF TableInv, AuditsInv, CodesReplaceOnce, CountsInv
<1> QED
  BY <1>2, <1>3, <1>4, <1>5 DEF Continue

LEMMA CodesKeep ==
    ASSUME FleetInv, NEW c \in Codes,
           Expire(c) \/ \E s \in Screens : CreatePairingCode(c, s) \/ Replace(c, s)
    PROVE  FleetInv'
<1> USE DEF FleetInv
<1>1. ASSUME Expire(c)
      PROVE  FleetInv'
  <2> USE DEF Expire
  <2>1. CodesInv'
    BY <1>1 DEF CodesInv, Known
  <2>2. AuditsInv'
    BY <1>1 DEF AuditsInv, CodesReplaceOnce, CodesInv
  <2>3. FlightInv'
    BY <1>1 DEF FlightInv, Linked, Known
  <2> QED  BY <1>1, <2>1, <2>2, <2>3 DEF TableInv, CountsInv
<1>2. ASSUME NEW s \in Screens, CreatePairingCode(c, s)
      PROVE  FleetInv'
  <2> USE DEF CreatePairingCode
  <2>1. CodesInv'
    BY <1>2 DEF CodesInv, Known
  <2>2. AuditsInv'
    BY <1>2 DEF AuditsInv, CodesReplaceOnce, CodesInv
  <2>3. FlightInv'
    BY <1>2 DEF FlightInv, Linked, Known
  <2> QED  BY <1>2, <2>1, <2>2, <2>3 DEF TableInv, CountsInv
<1>3. ASSUME NEW s \in Screens, Replace(c, s)
      PROVE  FleetInv'
  <2> DEFINE source == codes[c].screen
             retired == Row(Null, keys', "Replaced", "never", Null)
             swapped == Row(screens[s].venue, screens[source].key, "Offline", "never",
                            screens[s].wall)
             claimed == [state |-> "claimed", screen |-> s, venue |-> screens[s].venue]
             entry   == [code |-> c, target |-> s, source |-> source]
  <2>1. /\ codes[c].state = "open" /\ source # s /\ s \in Known /\ source \in Known
        /\ screens[s].venue # Null /\ keys' = keys + 1 /\ keys < MaxKeys
        /\ screens' = [screens EXCEPT ![source] = retired, ![s] = swapped]
        /\ codes' = [codes EXCEPT ![c] = claimed]
        /\ audits' = audits \cup {entry}
        /\ UNCHANGED <<req, sweep, started>>
    BY <1>3 DEF Replace, Owned
  <2>2. /\ screens[s] \in GoodRows /\ screens[source] \in GoodRows /\ source \in Screens
    BY <2>1, KnownRowsAreGood
  <2>3. keys' \in 1..MaxKeys /\ CountsInv'
    BY <2>1, FleetConstants DEF CountsInv
  <2>4. retired \in GoodRows
    BY <2>3, RowIsGood, Constants
  <2>5. swapped \in GoodRows
    BY <2>1, <2>2, RowIsGood, GoodRowParts, Constants
  <2>6. claimed \in [state : {"none", "open", "expired", "claimed"},
                     screen : Screens \cup {Null}, venue : Venues \cup {Null}]
    BY <2>2, GoodRowParts
  <2> HIDE DEF source, retired, swapped
  <2>7. TableInv' /\ Known \subseteq Known'
    BY <2>1, <2>2, <2>4, <2>5, NullIsNotGood DEF TableInv, Known
  <2>8. CodesInv'
    BY <2>1, <2>6, <2>7 DEF CodesInv
  <2>9. AuditsInv'
    BY <2>1, <2>2 DEF AuditsInv, CodesReplaceOnce, CodesInv
  <2>10. FlightInv'
    BY <2>1, <2>7, GrowthKeeps
  <2> QED  BY <2>3, <2>7, <2>8, <2>9, <2>10
<1> QED
  BY <1>1, <1>2, <1>3

LEMMA ScreensKeep ==
    ASSUME FleetInv, NEW s \in Screens,
           Age(s) \/ Sweep(s) \/ (\E v \in Venues \cup {Null} : Register(s, v))
    PROVE  FleetInv'
<1> USE DEF FleetInv
<1>1. ASSUME NEW row \in GoodRows, screens' = [screens EXCEPT ![s] = row],
             UNCHANGED <<codes, audits>>, CountsInv',
             UNCHANGED req, sweep' \in Flights
      PROVE  FleetInv'
  <2>1. TableInv' /\ Known \subseteq Known'
    BY <1>1, StoredRowKeeps
  <2>2. CodesInv' /\ AuditsInv'
    BY <1>1, <2>1, GrowthKeeps DEF AuditsInv, CodesReplaceOnce
  <2>3. FlightInv'
    BY <1>1, <2>1 DEF FlightInv, Linked
  <2> QED  BY <1>1, <2>1, <2>2, <2>3
<1>2. ASSUME Age(s)
      PROVE  FleetInv'
  <2> DEFINE row == [screens[s] EXCEPT !.seen = "stale"]
  <2>1. screens' = [screens EXCEPT ![s] = row] /\ s \in Known
        /\ UNCHANGED <<codes, audits, keys, req, sweep, started>>
    BY <1>2 DEF Age
  <2>2. row \in GoodRows
    BY <2>1, KnownRowsAreGood, ColumnChanges
  <2> HIDE DEF row
  <2> QED  BY <1>1, <2>1, <2>2 DEF CountsInv, FlightInv
<1>3. ASSUME Sweep(s)
      PROVE  FleetInv'
  <2>1. s \in DOMAIN sweep /\ UNCHANGED <<codes, audits, keys, req, started>>
    BY <1>3 DEF Sweep
  <2>2. sweep[s] \in GoodRows /\ Without(sweep, s) \in Flights /\ NoRows \in Flights
    BY <2>1, FlightParts, SmallFlights DEF FlightInv
  <2>3. CASE KeyFree(s, sweep[s])
    BY <1>1, <1>3, <2>1, <2>2, <2>3 DEF Sweep, CountsInv
  <2>4. CASE ~KeyFree(s, sweep[s])
    <3>1. UNCHANGED screens /\ sweep' = NoRows
      BY <1>3, <2>4 DEF Sweep
    <3>2. TableInv' /\ CodesInv' /\ FlightInv'
      BY <2>1, <2>2, <3>1 DEF TableInv, CodesInv, FlightInv, Linked, Known
    <3> QED  BY <2>1, <3>2 DEF AuditsInv, CodesReplaceOnce, CountsInv
  <2> QED  BY <2>3, <2>4
<1>4. ASSUME NEW v \in Venues \cup {Null}, Register(s, v)
      PROVE  FleetInv'
  <2> DEFINE row == Row(v, keys', "Offline", "never", Null)
  <2>1. /\ keys < MaxKeys /\ keys' = keys + 1 /\ screens' = [screens EXCEPT ![s] = row]
        /\ UNCHANGED <<codes, audits, req, sweep, started>>
    BY <1>4 DEF Register
  <2>2. keys' \in 1..MaxKeys /\ CountsInv'
    BY <2>1, FleetConstants DEF CountsInv
  <2>3. row \in GoodRows
    BY <2>2, RowIsGood, Constants
  <2> HIDE DEF row
  <2> QED  BY <1>1, <2>1, <2>2, <2>3 DEF FlightInv
<1> QED
  BY <1>2, <1>3, <1>4

LEMMA MonitorKeeps ==
    ASSUME FleetInv, MarkStale
    PROVE  FleetInv'
<1> USE DEF FleetInv
<1>1. /\ sweep' = [s \in StaleOnline |-> OfflineRow(screens[s])]
      /\ UNCHANGED <<screens, codes, audits, keys, req, started>>
  BY DEF MarkStale
<1>2. \A s \in StaleOnline : s \in Screens /\ OfflineRow(screens[s]) \in GoodRows
  BY KnownRowsAreGood, ColumnChanges DEF StaleOnline
<1>3. sweep' \in [StaleOnline -> GoodRows] /\ StaleOnline \in SUBSET Screens
  BY <1>1, <1>2
<1>4. sweep' \in Flights
  BY <1>3, FlightIsGood
<1> QED
  BY <1>1, <1>4
     DEF TableInv, CodesInv, AuditsInv, CodesReplaceOnce, CountsInv, FlightInv, Linked, Known

LEMMA FleetStep ==
    ASSUME FleetInv, [Next]_vars
    PROVE  FleetInv'
<1>1. CASE UNCHANGED vars
  BY <1>1 DEF vars, FleetInv, TableInv, CodesInv, AuditsInv, CodesReplaceOnce, CountsInv,
              FlightInv, Linked, Known
<1>2. CASE Next
  BY <1>2, RequestsKeep, ContinueKeeps, CodesKeep, ScreensKeep, MonitorKeeps DEF Next
<1> QED  BY <1>1, <1>2

LEMMA FleetIsCoherent ==
    ASSUME FleetInv
    PROVE  TypeOK /\ RowsAreCoherent /\ CodesReplaceOnce
<1> USE DEF FleetInv
<1>1. GoodRows \subseteq Rows /\ \A row \in GoodRows : Coherent(row)
  BY DEF GoodRows
<1>2. \A rows \in Flights : RowsInFlight(rows)
  BY <1>1, FlightParts DEF RowsInFlight
<1>3. \A r \in Slots : /\ req[r].kind \in Kinds /\ req[r].todo \in Flights
                       /\ req[r].code \in Codes \cup {Null}
                       /\ req[r].screen \in Screens \cup {Null}
                       /\ req[r].venue \in Venues \cup {Null}
  BY DEF FlightInv, Requested
<1>4. screens \in [Screens -> Rows \cup {Null}]
  BY <1>1 DEF TableInv
<1>5. TypeOK
  BY <1>2, <1>3, <1>4 DEF TypeOK, CodesInv, AuditsInv, CountsInv, FlightInv
<1>6. RowsAreCoherent
  BY <1>1, KnownRowsAreGood DEF RowsAreCoherent
<1> QED  BY <1>5, <1>6 DEF AuditsInv

\* Whatever requests overlap, the table and every row in flight keep their types.
THEOREM FleetTypes == Spec => []TypeOK
<1>1. Spec => []FleetInv
  BY InitKeeps, FleetStep, PTL DEF Spec
<1> QED  BY <1>1, FleetIsCoherent, PTL

\* No screen without a venue and no archived screen has a place in a wall.
THEOREM FleetRowsAreCoherent == Spec => []RowsAreCoherent
<1>1. Spec => []FleetInv
  BY InitKeeps, FleetStep, PTL DEF Spec
<1> QED  BY <1>1, FleetIsCoherent, PTL

\* A pairing code replaces at most one player, and is spent from then on.
THEOREM FleetCodesReplaceOnce == Spec => []CodesReplaceOnce
<1>1. Spec => []FleetInv
  BY InitKeeps, FleetStep, PTL DEF Spec
<1> QED  BY <1>1, FleetIsCoherent, PTL
=============================================================================
