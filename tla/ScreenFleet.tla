----------------------------- MODULE ScreenFleet -----------------------------
(***************************************************************************)
(* The screens of the platform: registration, pairing codes, heartbeats    *)
(* and the monitor that notices their absence, archiving, unpairing, video *)
(* walls and the replacement of a broken player.                           *)
(*                                                                         *)
(* Only a replacement is a transaction.  Everything else reads a Screens   *)
(* row, changes the object and writes every column back (RepoDb            *)
(* UpdateAsync), some of it row after row: a request in flight holds the   *)
(* rows it is about to write.                                              *)
(***************************************************************************)
EXTENDS Integers, FiniteSets

CONSTANTS
    Screens,      \* identities of screens
    Venues, Codes, Groups,
    Slots,        \* requests in flight at the same time (a bound)
    MaxRequests,  \* requests that are started (a bound)
    MaxKeys,      \* screen keys that are generated (a bound)
    Null

ASSUME FleetConstants ==
    /\ MaxRequests \in Nat /\ MaxKeys \in Nat
    /\ Null \notin Venues

Statuses == {"Offline", "Online", "Archived", "Unpaired", "Replaced"}

\* LastSeen against the cutoff of the monitor.
Seen == {"never", "recent", "stale"}

\* A wall place is a group and a position; the smallest layout, 2x1, has two.
Rows == [venue : Venues \cup {Null}, key : 1..MaxKeys, status : Statuses, seen : Seen,
         wall : (Groups \X (1..2)) \cup {Null}]
ASSUME NullIsNoRow == Null \notin Rows

Row(v, k, st, se, w) == [venue |-> v, key |-> k, status |-> st, seen |-> se, wall |-> w]

NoRows == [s \in {} |-> Null]
Kinds  == {"idle", "claim", "link", "write"}
Idle   == [kind |-> "idle", todo |-> NoRows, code |-> Null, screen |-> Null, venue |-> Null]

VARIABLES
    screens,      \* [Screens -> Rows or Null]
    codes,        \* [Codes -> [state, screen, venue]]
    audits,       \* ScreenReplacementAudits
    keys,         \* keys generated so far
    req,          \* [Slots -> request in flight]
    sweep,        \* rows the monitor is about to mark offline
    started       \* requests started so far

vars == <<screens, codes, audits, keys, req, sweep, started>>

Known == {s \in Screens : screens[s] # Null}
Owned == {s \in Known : screens[s].venue # Null}
Active(s) == screens[s].status # "Archived"

Init ==
    /\ screens = [s \in Screens |-> Null]
    /\ codes = [c \in Codes |-> [state |-> "none", screen |-> Null, venue |-> Null]]
    /\ audits = {}
    /\ keys = 0
    /\ req = [r \in Slots |-> Idle]
    /\ sweep = NoRows
    /\ started = 0

-----------------------------------------------------------------------------
(* Single statements.                                                      *)

\* RegisterScreen (no venue), CreateAsync of a venue's screens.
Register(s, venue) ==
    /\ screens[s] = Null /\ keys < MaxKeys
    /\ keys' = keys + 1
    /\ screens' = [screens EXCEPT ![s] = Row(venue, keys', "Offline", "never", Null)]
    /\ UNCHANGED <<codes, audits, req, sweep, started>>

\* For any screen, paired or not; codes are unique.
CreatePairingCode(c, s) ==
    /\ s \in Known /\ codes[c].state = "none"
    /\ codes' = [codes EXCEPT ![c] = [state |-> "open", screen |-> s, venue |-> Null]]
    /\ UNCHANGED <<screens, audits, keys, req, sweep, started>>

\* Ten minutes pass.
Expire(c) ==
    /\ codes[c].state = "open"
    /\ codes' = [codes EXCEPT ![c] = [@ EXCEPT !.state = "expired"]]
    /\ UNCHANGED <<screens, audits, keys, req, sweep, started>>

\* The monitor's threshold passes.
Age(s) ==
    /\ s \in Known /\ screens[s].seen = "recent"
    /\ screens' = [screens EXCEPT ![s] = [@ EXCEPT !.seen = "stale"]]
    /\ UNCHANGED <<codes, audits, keys, req, sweep, started>>

\* Mutant: the code is left open.
ReplaceLeavingCode(c, target) ==
    LET source == codes[c].screen
    IN  /\ codes[c].state = "open" /\ source # target
        /\ target \in Owned /\ Active(target) /\ source \in Known \ Owned
        /\ keys < MaxKeys /\ keys' = keys + 1
        /\ screens' = [screens EXCEPT
              ![source] = Row(Null, keys', "Replaced", "never", Null),
              ![target] = Row(@.venue, screens[source].key, "Offline", "never", @.wall)]
        /\ audits' = audits \cup {[code |-> c, target |-> target, source |-> source]}
        /\ UNCHANGED <<codes, req, sweep, started>>

\* One transaction: the target takes over the key of the screen that shows the
\* code, and that screen is retired.  (The preview the caller confirms may have
\* been taken just before, so its timestamp rules nothing out.)
Replace(c, target) ==
    LET source == codes[c].screen
    IN  /\ codes[c].state = "open" /\ source # target
        /\ target \in Owned /\ Active(target) /\ source \in Known \ Owned
        /\ keys < MaxKeys /\ keys' = keys + 1
        /\ screens' = [screens EXCEPT
              ![source] = Row(Null, keys', "Replaced", "never", Null),
              ![target] = Row(@.venue, screens[source].key, "Offline", "never", @.wall)]
        /\ codes' = [codes EXCEPT ![c] = [state |-> "claimed", screen |-> target,
                                          venue |-> screens[target].venue]]
        /\ audits' = audits \cup {[code |-> c, target |-> target, source |-> source]}
        /\ UNCHANGED <<req, sweep, started>>

-----------------------------------------------------------------------------
(* Requests that read, then write whole rows.                              *)

Start(r, request) ==
    /\ req[r] = Idle /\ started < MaxRequests
    /\ started' = started + 1
    /\ req' = [req EXCEPT ![r] = request]
    /\ UNCHANGED <<screens, codes, audits, keys, sweep>>

Request(kind, todo, code, screen, venue) ==
    [kind |-> kind, todo |-> todo, code |-> code, screen |-> screen, venue |-> venue]
Writing(rows) == Request("write", rows, Null, Null, Null)
One(s, row)   == [t \in {s} |-> row]

HeartbeatRow(row) == Row(row.venue, row.key, "Online", "recent", row.wall)

Heartbeat(r, s) ==
    /\ s \in Known /\ Active(s)
    /\ Start(r, Writing(One(s, HeartbeatRow(screens[s]))))

\* Name, location, layout and density: columns of no interest here.
Configure(r, s) ==
    /\ s \in Owned /\ Active(s)
    /\ Start(r, Writing(One(s, screens[s])))

ArchivedRow(row) == Row(row.venue, row.key, "Archived", row.seen, Null)
OfflineRow(row)  == [row EXCEPT !.status = "Offline"]
ResetRow(row)    == Row(row.venue, row.key, "Offline", "never", row.wall)

SetArchived(r, s, archived) ==
    /\ s \in Owned
    /\ Start(r, Writing(One(s, IF archived THEN ArchivedRow(screens[s])
                                           ELSE OfflineRow(screens[s]))))

Reset(r, s) ==
    /\ s \in Owned /\ Active(s)
    /\ Start(r, Writing(One(s, ResetRow(screens[s]))))

\* Mutant: the wall place is kept.
UnpairedOnWall(row) == Row(Null, row.key, "Unpaired", "never", row.wall)

UnpairedRow(row) == Row(Null, row.key, "Unpaired", "never", Null)

Unpair(r, s) ==
    /\ s \in Owned
    /\ Start(r, Writing(One(s, UnpairedRow(screens[s]))))

InVenue(v) == {s \in Known : screens[s].venue = v}
OnWall(v, groups) == {s \in InVenue(v) : screens[s].wall # Null /\ screens[s].wall[1] \in groups}

\* The chosen screens take their places; whoever shared a group with one of
\* them, or was on this wall, leaves it.
SaveWall(r, v, g, chosen) ==
    LET places    == {chosen[1], chosen[2]}
        displaced == {screens[s].wall[1] : s \in {t \in places : screens[t].wall # Null}} \cup {g}
        rows == [s \in places \cup OnWall(v, displaced) |->
                    [screens[s] EXCEPT !.wall = IF s = chosen[1] THEN <<g, 1>>
                                                ELSE IF s = chosen[2] THEN <<g, 2>>
                                                ELSE Null]]
    IN  /\ chosen[1] # chosen[2]
        /\ \A s \in places : s \in InVenue(v) /\ Active(s)
        /\ Start(r, Writing(rows))

RemoveWall(r, v, g) ==
    /\ OnWall(v, {g}) # {}
    /\ Start(r, Writing([s \in OnWall(v, {g}) |-> [screens[s] EXCEPT !.wall = Null]]))

\* ClaimPairingCode reads the code (ClaimAsync once more: nothing else may have
\* changed it but a claim) and writes it, then reads the screen and writes it.
Claim(r, c, v) ==
    /\ codes[c].state = "open"
    /\ Start(r, Request("claim", NoRows, c, codes[c].screen, v))

ClaimCode(r) ==
    /\ req[r].kind = "claim"
    /\ codes' = [codes EXCEPT ![req[r].code] =
                    [state |-> "claimed", screen |-> req[r].screen, venue |-> req[r].venue]]
    /\ req' = [req EXCEPT ![r] = [@ EXCEPT !.kind = "link"]]
    /\ UNCHANGED <<screens, audits, keys, sweep, started>>

AssignVenue(r) ==
    LET s == req[r].screen
    IN  /\ req[r].kind = "link"
        /\ req' = [req EXCEPT ![r] =
                      Writing(One(s, [screens[s] EXCEPT !.venue = req[r].venue]))]
        /\ UNCHANGED <<screens, codes, audits, keys, sweep, started>>

\* UX_Screens_ScreenKey.
KeyFree(s, row) == \A t \in Known \ {s} : screens[t].key # row.key

\* A "recent" heartbeat may have grown stale by the time its row is written.
Aged(row) == {row} \cup {[row EXCEPT !.seen = "stale"] : q \in {"recent"} \cap {row.seen}}

Without(rows, s) == [t \in DOMAIN rows \ {s} |-> rows[t]]

Write(r, s) ==
    LET rows == req[r].todo
    IN  /\ s \in DOMAIN rows /\ KeyFree(s, rows[s])
        /\ \E row \in Aged(rows[s]) : screens' = [screens EXCEPT ![s] = row]
        /\ req' = [req EXCEPT ![r] = IF DOMAIN rows = {s} THEN Idle
                                     ELSE [@ EXCEPT !.todo = Without(rows, s)]]
        /\ UNCHANGED <<codes, audits, keys, sweep, started>>

\* The duplicate key is refused, the connection drops, the process dies.
Abort(r) ==
    /\ req[r] # Idle
    /\ req' = [req EXCEPT ![r] = Idle]
    /\ UNCHANGED <<screens, codes, audits, keys, sweep, started>>

-----------------------------------------------------------------------------
(* The heartbeat monitor.                                                  *)

\* Mutant: only screens that were never seen.
NeverSeen == {s \in Known : screens[s].status = "Online" /\ screens[s].seen = "never"}

StaleOnline == {s \in Known : screens[s].status = "Online" /\ screens[s].seen # "recent"}

MarkStale ==
    /\ sweep = NoRows /\ StaleOnline # {}
    /\ sweep' = [s \in StaleOnline |-> OfflineRow(screens[s])]
    /\ UNCHANGED <<screens, codes, audits, keys, req, started>>

\* UpdateAllAsync, row after row; a duplicate key ends it.
Sweep(s) ==
    /\ s \in DOMAIN sweep
    /\ IF KeyFree(s, sweep[s])
       THEN /\ screens' = [screens EXCEPT ![s] = sweep[s]]
            /\ sweep' = Without(sweep, s)
       ELSE /\ sweep' = NoRows
            /\ UNCHANGED screens
    /\ UNCHANGED <<codes, audits, keys, req, started>>

-----------------------------------------------------------------------------

Requests(r) ==
    \/ \E s \in Screens :
         \/ Heartbeat(r, s) \/ Configure(r, s) \/ Reset(r, s) \/ Unpair(r, s)
         \/ \E archived \in BOOLEAN : SetArchived(r, s, archived)
    \/ \E v \in Venues, g \in Groups :
         \/ \E a, b \in Screens : SaveWall(r, v, g, <<a, b>>)
         \/ RemoveWall(r, v, g)
    \/ \E v \in Venues, c \in Codes : Claim(r, c, v)

Continue(r) == ClaimCode(r) \/ AssignVenue(r) \/ (\E s \in Screens : Write(r, s)) \/ Abort(r)

Next ==
    \/ \E s \in Screens : \E v \in Venues \cup {Null} : Register(s, v)
    \/ \E c \in Codes : Expire(c) \/ \E s \in Screens : CreatePairingCode(c, s) \/ Replace(c, s)
    \/ \E r \in Slots : Requests(r) \/ Continue(r)
    \/ \E s \in Screens : Age(s) \/ Sweep(s)
    \/ MarkStale

Spec == Init /\ [][Next]_vars

\* Requests end one way or another, and the monitor's timer keeps firing.
FairSpec ==
    /\ Spec
    /\ \A r \in Slots : WF_vars(Continue(r))
    /\ WF_vars(MarkStale)
    /\ WF_vars(\E s \in Screens : Sweep(s))

-----------------------------------------------------------------------------
(* Properties.                                                             *)

RowsInFlight(rows) == /\ DOMAIN rows \subseteq Screens
                      /\ \A s \in DOMAIN rows : rows[s] \in Rows

TypeOK ==
    /\ screens \in [Screens -> Rows \cup {Null}]
    /\ codes \in [Codes -> [state : {"none", "open", "expired", "claimed"},
                            screen : Screens \cup {Null}, venue : Venues \cup {Null}]]
    /\ audits \subseteq [code : Codes, target : Screens, source : Screens]
    /\ keys \in 0..MaxKeys /\ started \in 0..MaxRequests
    /\ \A r \in Slots : /\ req[r].kind \in Kinds
                        /\ RowsInFlight(req[r].todo)
                        /\ req[r].code \in Codes \cup {Null}
                        /\ req[r].screen \in Screens \cup {Null}
                        /\ req[r].venue \in Venues \cup {Null}
    /\ RowsInFlight(sweep)

\* However whole-row writes overtake each other, and although a replacement
\* writes single columns, no screen without a venue and no archived screen keeps
\* a place in a video wall.
Coherent(row) == row.venue = Null \/ row.status = "Archived" => row.wall = Null
RowsAreCoherent == \A s \in Known : Coherent(screens[s])

\* One code replaces one player, once, and stays spent, whatever claims of it
\* are in flight.
CodesReplaceOnce ==
    \A a, b \in audits : /\ a.code = b.code => a = b
                         /\ codes[a.code].state = "claimed"

\* A screen whose player has fallen silent, and that nobody keeps editing, ends
\* up offline, although requests that read it while it was online wrote that back
\* and replacements swapped keys under the monitor.
Silent(s) == /\ s \in Known /\ screens[s].seen # "recent"
             /\ \A r \in Slots : s \notin DOMAIN req[r].todo
SilentScreensGoOffline ==
    \A s \in Screens : <>[]Silent(s) => <>[](screens[s] # Null /\ screens[s].status # "Online")

=============================================================================
