---------------------------- MODULE DisplayPlayer ----------------------------
(***************************************************************************)
(* The browser player of one screen and the API it talks to.  The player   *)
(* loads content over HTTP (a load is in flight while others start and     *)
(* finish), keeps the last answer in local storage, is told over SignalR   *)
(* that something changed, polls once a minute while its live services     *)
(* run, and sends a receipt for each revision it shows.  The link, the API *)
(* and single calls fail; the player is restarted.                         *)
(***************************************************************************)
EXTENDS ScreenDelivery

CONSTANTS
    MaxVersion,     \* changes of what the API answers for the screen (a bound)
    MaxFaults,      \* outages, failed calls and restarts (a bound)
    Loads           \* loads that may be in flight at the same time (a bound)

ASSUME PlayerConstants == MaxVersion \in Nat \ {0} /\ MaxFaults \in Nat

\* Content is its version number: what GetContent answers at that time.  0: none.
None == 0

VARIABLES
    version,        \* what GetContent would answer now
    asOf,           \* the version there was when each revision was issued
    online, api,    \* the device's network is up; the API answers
    faults,         \* outages, failed calls and restarts so far
    load,           \* [Loads -> what each load in flight knows]
    cached,         \* the content in local storage
    shown, source,  \* DisplayState: the content rendered and where it came from
    live,           \* liveServicesStarted
    conn,           \* the SignalR connection
    banner,         \* connectionState, what the viewer is told about it
    recovering,     \* recoveringFromCache
    note,           \* a ContentUpdated for screen:{id} is on its way
    receipts,       \* receipts on their way
    rendered        \* the newest version ever rendered (what happened)

world    == <<version, asOf>>
network  == <<online, api, faults>>
wall     == <<shown, source, rendered>>
realtime == <<live, conn, banner>>
vars == <<ledger, world, network, load, cached, wall, realtime, recovering, note, receipts>>

Idle == [step |-> "idle", revision |-> 0, version |-> None, recovered |-> FALSE]
Asked == [Idle EXCEPT !.step = "asked"]

Reach == online /\ api
Fault == faults < MaxFaults /\ faults' = faults + 1

Receipt(l, state) == [revision |-> load[l].revision, state |-> state, key |-> key,
                      recovered |-> load[l].recovered]

Init ==
    /\ LedgerInit
    /\ version = 1 /\ asOf = [r \in 1..MaxRevision |-> None]
    /\ online = TRUE /\ api = TRUE /\ faults = 0
    /\ \E first \in Loads : load = [l \in Loads |-> IF l = first THEN Asked ELSE Idle]
    /\ cached = None /\ shown = None /\ source = "loading" /\ rendered = None
    /\ live = FALSE /\ conn = "none" /\ banner = "connecting"
    /\ recovering = FALSE /\ note = FALSE /\ receipts = {}

-----------------------------------------------------------------------------
(* The server.                                                             *)

\* A publish, an edit of a theme, a schedule: some tell the screen, some do not.
ChangeContent ==
    /\ version < MaxVersion
    /\ version' = version + 1
    /\ note' \in {note, TRUE}
    /\ UNCHANGED <<ledger, asOf, network, load, cached, wall, realtime, recovering, receipts>>

\* PushAsync tells the screen; PushAllAsync tells the venue's group, which no
\* player joins.
Push(tell) ==
    /\ Issue
    /\ asOf' = [asOf EXCEPT ![LatestRevision(deliveries')] = version]
    /\ note' = (note \/ tell)
    /\ UNCHANGED <<version, network, load, cached, wall, realtime, recovering, receipts>>

\* Mutant: GetContent composing the content before it reads the revision.
ContentBeforeRevision(l) ==
    /\ Reach
    /\ \/ /\ load[l].step = "asked"
          /\ load' = [load EXCEPT ![l].step = "revision", ![l].version = version]
       \/ /\ load[l].step = "revision"
          /\ load' = [load EXCEPT ![l].step = "answered",
                                  ![l].revision = LatestRevision(deliveries)]
    /\ UNCHANGED <<ledger, world, network, cached, wall, realtime, recovering, note, receipts>>

\* GetContent reads the latest revision, then composes the content.
GetContent(l) ==
    /\ Reach
    /\ \/ /\ load[l].step = "asked"
          /\ load' = [load EXCEPT ![l].step = "revision",
                                  ![l].revision = LatestRevision(deliveries)]
       \/ /\ load[l].step = "revision"
          /\ load' = [load EXCEPT ![l].step = "answered", ![l].version = version]
    /\ UNCHANGED <<ledger, world, network, cached, wall, realtime, recovering, note, receipts>>

ContentReceipt(r) ==
    /\ r \in receipts /\ Reach
    /\ Acknowledge(r)
    /\ receipts' = receipts \ {r}
    /\ UNCHANGED <<world, network, load, cached, wall, realtime, recovering, note>>

-----------------------------------------------------------------------------
(* The player: loadAndActivate.                                            *)

\* A network answer is cached; one that carries a revision is receipted as
\* received, and the player waits for that call before it renders.
Receive(l) ==
    /\ load[l].step = "answered" /\ load[l].revision > 0 /\ Reach
    /\ cached' = load[l].version
    /\ load' = [load EXCEPT ![l].step = "received", ![l].recovered = recovering]
    /\ receipts' = receipts \cup {[Receipt(l, "Received") EXCEPT !.recovered = recovering]}
    /\ UNCHANGED <<ledger, world, network, wall, realtime, recovering, note>>

StartLiveServices ==
    /\ live' = TRUE
    /\ conn' = IF live THEN conn ELSE "connecting"
    /\ banner' = IF live THEN banner ELSE "connecting"

\* Rendering; the applied receipt goes out with the frame that shows it.
Activate(l) ==
    /\ \/ /\ load[l].step = "received" /\ Receipt(l, "Received") \notin receipts
          /\ receipts' = receipts \cup {Receipt(l, "Applied")}
          /\ UNCHANGED cached
       \/ /\ load[l].step = "answered" /\ load[l].revision = 0 /\ Reach
          /\ cached' = load[l].version
          /\ UNCHANGED receipts
    /\ shown' = load[l].version /\ source' = "network"
    /\ rendered' = Max({rendered, load[l].version})
    /\ StartLiveServices
    /\ load' = [load EXCEPT ![l] = Idle]
    /\ UNCHANGED <<ledger, world, network, recovering, note>>

\* The call fails: the cached content is shown, if there is any.
FailLoad(l) ==
    /\ load[l].step \in {"asked", "revision", "answered"}
    /\ \/ ~Reach /\ UNCHANGED faults
       \/ Fault
    /\ load' = [load EXCEPT ![l] = Idle]
    /\ IF cached = None
       THEN /\ \/ source = "loading" /\ source' = "error" /\ UNCHANGED banner  \* first load
               \/ UNCHANGED source /\ banner' = "degraded"                     \* LinkUp
               \/ UNCHANGED <<source, banner>>                                 \* any other
            /\ UNCHANGED <<shown, recovering>>
       ELSE /\ shown' = cached /\ source' = "cache"
            /\ banner' = "degraded" /\ recovering' = TRUE
    /\ UNCHANGED <<ledger, world, online, api, cached, rendered, live, conn, note, receipts>>

\* The local entry is over seven days old and dropped.
CacheExpires ==
    /\ cached # None /\ cached' = None
    /\ Fault
    /\ UNCHANGED <<ledger, world, online, api, load, wall, realtime, recovering, note, receipts>>

StartLoad(l) ==
    /\ load[l].step = "idle"
    /\ load' = [load EXCEPT ![l] = Asked]

\* Mutant: the recovery poll only while the connection is down.
PollWhenDisconnected(l) ==
    /\ live /\ conn = "reconnecting"
    /\ StartLoad(l)
    /\ UNCHANGED <<ledger, world, network, cached, wall, realtime, recovering, note, receipts>>

\* The recovery timer, started once the first connection attempt has ended.
Poll(l) ==
    /\ live /\ conn # "connecting"
    /\ StartLoad(l)
    /\ UNCHANGED <<ledger, world, network, cached, wall, realtime, recovering, note, receipts>>

-----------------------------------------------------------------------------
(* The player: its realtime connection.                                    *)

\* start() and JoinScreen; withAutomaticReconnect does not cover this attempt.
Connect ==
    /\ conn = "connecting"
    /\ \/ Reach /\ conn' = "connected" /\ banner' = "connected" /\ UNCHANGED faults
       \/ ~Reach /\ conn' = "stopped" /\ banner' = "degraded" /\ UNCHANGED faults
       \/ Fault /\ conn' = "stopped" /\ banner' = "degraded"
    /\ UNCHANGED <<ledger, world, online, api, load, cached, wall, live, recovering, note, receipts>>

\* Mutant: the outage is not announced.
DisconnectSilently ==
    /\ conn \in {"connected", "unjoined"}
    /\ \/ ~Reach /\ UNCHANGED faults
       \/ Fault
    /\ conn' = "reconnecting"
    /\ UNCHANGED <<ledger, world, online, api, load, cached, wall, live, banner, recovering, note, receipts>>

Disconnect ==
    /\ conn \in {"connected", "unjoined"}
    /\ \/ ~Reach /\ UNCHANGED faults
       \/ Fault
    /\ conn' = "reconnecting" /\ banner' = "reconnecting"
    /\ UNCHANGED <<ledger, world, online, api, load, cached, wall, live, recovering, note, receipts>>

\* Retried without end; a JoinScreen that fails leaves the connection open.
Reconnect ==
    /\ conn = "reconnecting" /\ Reach
    /\ \/ conn' = "connected" /\ banner' = "connected" /\ UNCHANGED faults
       \/ conn' = "unjoined" /\ banner' = "degraded" /\ Fault
    /\ UNCHANGED <<ledger, world, online, api, load, cached, wall, live, recovering, note, receipts>>

\* ContentUpdated reaches the members of screen:{id} and nobody else.
Notified ==
    /\ note
    /\ \/ conn = "connected" /\ \E l \in Loads : StartLoad(l)
       \/ conn # "connected" /\ UNCHANGED load
    /\ note' = FALSE
    /\ UNCHANGED <<ledger, world, network, cached, wall, realtime, recovering, receipts>>

\* An event that is applied in place (availability, theme, broadcast): what is
\* shown is patched, cached and taken for content from the network.
ApplyRealtimeEvent ==
    /\ conn = "connected" /\ source \in {"network", "cache"}
    /\ source' = "network" /\ cached' = shown
    /\ UNCHANGED <<ledger, world, network, load, shown, rendered, realtime, recovering, note, receipts>>

-----------------------------------------------------------------------------
(* The surroundings.                                                       *)

GoDown ==
    /\ Fault
    /\ \/ online /\ online' = FALSE /\ UNCHANGED api
       \/ api /\ api' = FALSE /\ UNCHANGED online
    /\ UNCHANGED <<ledger, world, load, cached, wall, realtime, recovering, note, receipts>>

ApiUp ==
    /\ ~api /\ api' = TRUE
    /\ UNCHANGED <<ledger, world, online, faults, load, cached, wall, realtime, recovering, note, receipts>>

\* The browser's 'online' event loads the content again.
LinkUp ==
    /\ ~online /\ online' = TRUE
    /\ \/ \E l \in Loads : StartLoad(l)
       \/ (\A l \in Loads : load[l].step # "idle") /\ UNCHANGED load
    /\ UNCHANGED <<ledger, world, api, faults, cached, wall, realtime, recovering, note, receipts>>

LoseReceipt(r) ==
    /\ r \in receipts
    /\ \/ ~Reach /\ UNCHANGED faults
       \/ Fault
    /\ receipts' = receipts \ {r}
    /\ UNCHANGED <<ledger, world, online, api, load, cached, wall, realtime, recovering, note>>

\* Power loss or a reload of the page: only local storage survives.
Restart ==
    /\ Fault
    /\ \E first \in Loads : load' = [l \in Loads |-> IF l = first THEN Asked ELSE Idle]
    /\ shown' = None /\ source' = "loading"
    /\ live' = FALSE /\ conn' = "none" /\ banner' = "connecting"
    /\ recovering' = FALSE
    /\ UNCHANGED <<ledger, world, online, api, cached, rendered, note, receipts>>

Step(l) == GetContent(l) \/ Receive(l) \/ Activate(l) \/ (~Reach /\ FailLoad(l))

Next ==
    \/ ChangeContent
    \/ \E tell \in BOOLEAN : Push(tell)
    \/ \E r \in receipts : ContentReceipt(r) \/ LoseReceipt(r)
    \/ \E l \in Loads : GetContent(l) \/ Receive(l) \/ Activate(l) \/ FailLoad(l) \/ Poll(l)
    \/ Connect \/ Disconnect \/ Reconnect \/ Notified \/ ApplyRealtimeEvent
    \/ GoDown \/ ApiUp \/ LinkUp \/ Restart \/ CacheExpires

Spec == Init /\ [][Next]_vars

\* Calls end, timers fire, the transport notices and retries.  Nothing is assumed
\* of outages, of people, or of the order of answers.
Fairness ==
    /\ \A l \in Loads : WF_vars(Step(l))
    /\ WF_vars(\E l \in Loads : Poll(l))
    /\ WF_vars(Connect) /\ WF_vars(Disconnect) /\ WF_vars(Reconnect) /\ WF_vars(Notified)
    /\ \A r \in Receipts : WF_vars(ContentReceipt(r) \/ (~Reach /\ LoseReceipt(r)))

FairSpec == Spec /\ Fairness

-----------------------------------------------------------------------------
(* Properties.                                                             *)

TypeOK ==
    /\ LedgerTypeOK
    /\ version \in 1..MaxVersion /\ asOf \in [1..MaxRevision -> 0..MaxVersion]
    /\ online \in BOOLEAN /\ api \in BOOLEAN /\ faults \in 0..MaxFaults
    /\ load \in [Loads -> [step : {"idle", "asked", "revision", "answered", "received"},
                           revision : 0..MaxRevision, version : 0..MaxVersion,
                           recovered : BOOLEAN]]
    /\ cached \in 0..MaxVersion /\ shown \in 0..MaxVersion /\ rendered \in 0..MaxVersion
    /\ source \in {"loading", "error", "network", "cache"}
    /\ live \in BOOLEAN
    /\ conn \in {"none", "connecting", "connected", "unjoined", "reconnecting", "stopped"}
    /\ banner \in {"connecting", "connected", "reconnecting", "degraded"}
    /\ recovering \in BOOLEAN /\ note \in BOOLEAN
    /\ receipts \subseteq Receipts

\* A revision recorded as applied was on the glass: the player has rendered
\* content at least as new as the one that was pushed.
AppliedWasRendered ==
    \A r \in DOMAIN deliveries : deliveries[r] \in Applied => asOf[r] <= rendered

\* The viewer is never told that live updates arrive while they do not: in every
\* order of outages, reconnections, polls and restarts the error is on the safe side.
NeverFalselyLive == banner = "connected" => conn = "connected"

\* A player whose live services run catches up with whatever it missed, and its
\* last revision is applied, once outages stop.
LiveScreensCatchUp ==
    <>[](Reach /\ live) =>
        <>[](shown = version /\ AppliedRevision(deliveries) = LatestRevision(deliveries))
=============================================================================
