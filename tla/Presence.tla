------------------------------ MODULE Presence ------------------------------
(***************************************************************************)
(* Who is online: the roster thread of bigpaw-core/src/core.rs and the      *)
(* actors around it.                                                        *)
(*                                                                         *)
(*   discovery   mDNS, UDP announcements and IPMsg push sightings and       *)
(*               goodbyes into one unbounded channel;                       *)
(*   roster      one thread takes the events off the channel, keeps the     *)
(*   thread      contact list, the last-seen table and the database rows,   *)
(*               publishes snapshots, starts dial-backs (probes) and, when  *)
(*               no event came for a poll interval, marks the peers not     *)
(*               seen for PEER_TIMEOUT as offline;                          *)
(*   probes      one thread per peer being dialled back, which reports      *)
(*               through the same channel;                                  *)
(*   settings    the settings command, which stores a new network range,    *)
(*               publishes it and tells the roster thread to evict.         *)
(*                                                                         *)
(* Taking an event and handling it are two steps: the thread reads the      *)
(* network range once, when it takes the event, and the settings command    *)
(* may publish another one before the event is applied.                     *)
(***************************************************************************)
EXTENDS Roster, Integers, Sequences, FiniteSets

CONSTANTS
    Scopes,        \* the network ranges the user can choose: sets of addresses
    Timeout,       \* PEER_TIMEOUT, in ticks
    QueueCap,      \* bound: discovery sends only while fewer events are queued
    NotifyCap      \* bound: unhandled scope changes

ASSUME ScopesAssumption == Scopes \subseteq SUBSET Addr /\ Scopes # {}
ASSUME TimeoutAssumption == Timeout \in Nat \ {0}
ASSUME CapAssumption == QueueCap \in Nat \ {0} /\ NotifyCap \in Nat \ {0}

VARIABLES
    alive,       \* environment: the peers that are switched on
    roster,      \* the contact list
    watch,       \* the last snapshot published to the UI
    age,         \* last_seen: ticks since the last sighting, or NoEntry
    chan,        \* the discovery channel
    ev,          \* roster thread: the event taken, or NoEvent while it waits
    evScope,     \* the network range read when the event was taken
    silent,      \* roster thread: a poll interval has passed without an event
    outlasted,   \* history: peers the scan timed out during their dial-back
    probe,       \* in_flight and the dial-back thread of each peer
    probeAddrs,  \* the addresses the dial-back tries
    scope,       \* the published network range (InterfaceRegistry)
    saved,       \* the network range in settings.json
    settingsPc,  \* progress of the settings command
    known        \* the peers table of the database

threadVars   == <<ev, evScope, silent>>
timerVars    == <<age, outlasted>>
probeVars    == <<probe, probeAddrs>>
settingsVars == <<scope, saved, settingsPc>>
vars == <<alive, roster, watch, timerVars, chan, threadVars, probeVars, settingsVars, known>>

NoEntry == -1

NoEvent == [type |-> "None", fp |-> NoPeer, addrs |-> {}]

Online(p) == roster[p].state \in {"discovered", "reachable", "unreachable"}

\* A dial-back that may still change the state of p: the thread is running, or
\* its answer is queued or in the hands of the roster thread.
IsVerdict(e, p) == e.type \in {"Registered", "Unreachable"} /\ e.fp = p

VerdictPending(p) ==
    \/ probe[p] = "dialing"
    \/ \E i \in DOMAIN chan : IsVerdict(chan[i], p)
    \/ IsVerdict(ev, p)

ScopeChangeQueued == \E i \in DOMAIN chan : chan[i] = ScopeChanged

\* The settings command has published a range the roster was not purged with.
EvictionPending ==
    \/ settingsPc = "notify"
    \/ ScopeChangeQueued
    \/ ev = ScopeChanged

-----------------------------------------------------------------------------
Fresh(rows, s) ==
    /\ roster' = Seeded(rows, s)
    /\ watch' = Seeded(rows, s)
    /\ age' = [p \in Peer |-> NoEntry]
    /\ chan' = <<>>
    /\ outlasted' = {}
    /\ ev' = NoEvent /\ evScope' = s /\ silent' = FALSE
    /\ probe' = [p \in Peer |-> "none"]
    /\ probeAddrs' = [p \in Peer |-> {}]
    /\ scope' = s /\ settingsPc' = "idle"

\* First start: no settings, hence no limit; an empty database.
Init ==
    /\ alive = Peer
    /\ known = [p \in Peer |-> NoRow]
    /\ saved \in Scopes
    /\ roster = [p \in Peer |-> Absent] /\ watch = [p \in Peer |-> Absent]
    /\ age = [p \in Peer |-> NoEntry]
    /\ chan = <<>>
    /\ outlasted = {}
    /\ ev = NoEvent /\ evScope = saved /\ silent = FALSE
    /\ probe = [p \in Peer |-> "none"]
    /\ probeAddrs = [p \in Peer |-> {}]
    /\ scope = saved /\ settingsPc = "idle"

-----------------------------------------------------------------------------
(* Discovery. *)

\* A sighting of p at the addresses A, by whichever channel: an mDNS service
\* resolution, a UDP announcement, an IPMsg entry or answer.
Announce(p, A) ==
    /\ p \in alive /\ Len(chan) < QueueCap
    /\ chan' = Append(chan, Seen(p, A))
    /\ UNCHANGED <<alive, roster, watch, timerVars, threadVars, probeVars, settingsVars, known>>

\* An mDNS goodbye or expired record, or an IPMsg exit.  Datagrams can be lost
\* and records can expire under a live peer, so it says nothing about alive.
Goodbye(p) ==
    /\ Len(chan) < QueueCap
    /\ chan' = Append(chan, Lost(p))
    /\ UNCHANGED <<alive, roster, watch, timerVars, threadVars, probeVars, settingsVars, known>>

\* A peer vanishes without a goodbye, or comes back.
Die(p) ==
    /\ p \in alive /\ alive' = alive \ {p}
    /\ UNCHANGED <<roster, watch, timerVars, chan, threadVars, probeVars, settingsVars, known>>

Revive(p) ==
    /\ p \notin alive /\ alive' = alive \cup {p}
    /\ UNCHANGED <<roster, watch, timerVars, chan, threadVars, probeVars, settingsVars, known>>

-----------------------------------------------------------------------------
(* The roster thread. *)

Recv ==
    /\ ev = NoEvent /\ chan # <<>> /\ ~silent
    /\ ev' = Head(chan) /\ chan' = Tail(chan)
    /\ evScope' = scope /\ silent' = FALSE
    /\ UNCHANGED <<alive, roster, watch, timerVars, probeVars, settingsVars, known>>

Publish(changed) == watch' = IF changed THEN roster' ELSE watch

\* (mutation) The last-seen table is not purged.
HandleScopeChangedKeepTimers ==
    /\ ev.type = "ScopeChanged"
    /\ roster' = RetainInScope(roster, evScope)
    /\ Publish(RetainChanged(roster, evScope))
    /\ ev' = NoEvent
    /\ UNCHANGED <<alive, timerVars, chan, evScope, silent, probeVars, settingsVars, known>>

HandleScopeChanged ==
    /\ ev.type = "ScopeChanged"
    /\ roster' = RetainInScope(roster, evScope)
    /\ age' = [p \in Peer |-> IF roster'[p] = Absent THEN NoEntry ELSE age[p]]
    /\ outlasted' = {p \in outlasted : roster'[p] # Absent}
    /\ Publish(RetainChanged(roster, evScope))
    /\ ev' = NoEvent
    /\ UNCHANGED <<alive, chan, evScope, silent, probeVars, settingsVars, known>>

\* scope_filter_event: a sighting without an allowed address never happened.
DropSeen ==
    /\ ev.type = "Seen" /\ ev.addrs \cap evScope = {}
    /\ ev' = NoEvent
    /\ UNCHANGED <<alive, roster, watch, timerVars, chan, evScope, silent, probeVars, settingsVars, known>>

\* The row keeps the first allowed address; a failing write is only logged.
StoreSighting(p, A) ==
    \/ known' = known
    \/ \E a \in A : known' = [known EXCEPT ![p] = [stored |-> TRUE, addrs |-> {a}]]

\* Only native peers are dialled back, unless they are confirmed or one
\* dial-back of theirs is still in flight.
MustProbe(p, r) ==
    p \in NativePeer /\ r[p].state # "reachable" /\ probe[p] = "none"

HandleSeen ==
    /\ ev.type = "Seen" /\ ev.addrs \cap evScope # {}
    /\ LET p == ev.fp
           filtered == Seen(p, ev.addrs \cap evScope)
       IN /\ age' = [age EXCEPT ![p] = 0]
          /\ outlasted' = outlasted \ {p}
          /\ StoreSighting(p, filtered.addrs)
          /\ roster' = Apply(roster, filtered)
          /\ Publish(ApplyChanged(roster[p], filtered))
          /\ IF MustProbe(p, roster')
             THEN /\ probe' = [probe EXCEPT ![p] = "dialing"]
                  /\ probeAddrs' = [probeAddrs EXCEPT ![p] = filtered.addrs]
             ELSE UNCHANGED probeVars
    /\ ev' = NoEvent
    /\ UNCHANGED <<alive, chan, evScope, silent, settingsVars>>

HandleVerdict ==
    /\ ev.type \in {"Lost", "Registered", "Unreachable"}
    /\ roster' = Apply(roster, ev)
    /\ Publish(ApplyChanged(roster[ev.fp], ev))
    /\ ev' = NoEvent
    /\ UNCHANGED <<alive, timerVars, chan, evScope, silent, probeVars, settingsVars, known>>

\* The poll times out: for a whole interval there was no event to take, and the
\* previous scan is ROSTER_TICK ago.  Events that come faster than the interval
\* keep the thread from ever getting here.
PollTimeout ==
    /\ ev = NoEvent /\ chan = <<>> /\ ~silent
    /\ silent' = TRUE
    /\ UNCHANGED <<alive, roster, watch, timerVars, chan, ev, evScope, probeVars, settingsVars, known>>

\* The expiry scan, in the branch the time-out leads to.
Stale == {p \in Peer : age[p] > Timeout}

ScanStale ==
    /\ silent /\ silent' = FALSE
    /\ roster' = [p \in Peer |-> IF p \in Stale THEN AfterLost(roster[p]) ELSE roster[p]]
    /\ age' = [p \in Peer |-> IF p \in Stale THEN NoEntry ELSE age[p]]
    /\ outlasted' = outlasted \cup {p \in Stale : VerdictPending(p)}
    /\ Publish(\E p \in Stale : ApplyChanged(roster[p], Lost(p)))
    /\ UNCHANGED <<alive, chan, ev, evScope, probeVars, settingsVars, known>>

\* Time passes.  An age above Timeout is not told apart from a greater one.
Tick ==
    /\ age' = [p \in Peer |-> IF age[p] \in 0 .. Timeout THEN age[p] + 1 ELSE age[p]]
    /\ UNCHANGED <<alive, roster, watch, outlasted, chan, threadVars, probeVars, settingsVars, known>>

-----------------------------------------------------------------------------
(* Dial-back threads. *)

\* The thread sends its verdict first ...
ProbeFinish(p, ok) ==
    /\ probe[p] = "dialing"
    /\ ok => p \in alive /\ probeAddrs[p] \cap scope # {}
    /\ chan' = Append(chan, IF ok THEN Registered(p) ELSE UnreachableEv(p))
    /\ probe' = [probe EXCEPT ![p] = "reported"]
    /\ probeAddrs' = [probeAddrs EXCEPT ![p] = {}]
    /\ UNCHANGED <<alive, roster, watch, timerVars, threadVars, settingsVars, known>>

\* ... and leaves in_flight afterwards: a sighting handled in between starts
\* no dial-back.
ProbeExit(p) ==
    /\ probe[p] = "reported"
    /\ probe' = [probe EXCEPT ![p] = "none"]
    /\ UNCHANGED <<alive, roster, watch, timerVars, chan, threadVars, probeAddrs, settingsVars, known>>

-----------------------------------------------------------------------------
(* The settings command (commands run one at a time) and restarts. *)

SaveSettings(s) ==
    /\ settingsPc = "idle"
    /\ Cardinality({i \in DOMAIN chan : chan[i] = ScopeChanged}) < NotifyCap
    /\ saved' = s /\ settingsPc' = "saved"
    /\ UNCHANGED <<alive, roster, watch, timerVars, chan, threadVars, probeVars, scope, known>>

\* (mutation) The comparison reads the range that was just overwritten.
PublishScopeSilently ==
    /\ settingsPc = "saved"
    /\ scope' = saved
    /\ settingsPc' = "idle"
    /\ UNCHANGED <<alive, roster, watch, timerVars, chan, threadVars, probeVars, saved, known>>

PublishScope ==
    /\ settingsPc = "saved"
    /\ scope' = saved
    /\ settingsPc' = IF saved # scope THEN "notify" ELSE "idle"
    /\ UNCHANGED <<alive, roster, watch, timerVars, chan, threadVars, probeVars, saved, known>>

NotifyScope ==
    /\ settingsPc = "notify" /\ settingsPc' = "idle"
    /\ chan' = Append(chan, ScopeChanged)
    /\ UNCHANGED <<alive, roster, watch, timerVars, threadVars, probeVars, scope, saved, known>>

\* The process ends at any point, by shutdown or by a crash, and starts again:
\* what is left is the database and settings.json.
Restart ==
    /\ Fresh(known, saved)
    /\ UNCHANGED <<alive, saved, known>>

-----------------------------------------------------------------------------
Discovery == \E p \in Peer : (\E A \in SUBSET Addr \ {{}} : Announce(p, A)) \/ Goodbye(p)
Power     == \E p \in Peer : Die(p) \/ Revive(p)
Handle    == HandleScopeChanged \/ DropSeen \/ HandleSeen \/ HandleVerdict
Probing   == \E p \in Peer : (\E ok \in BOOLEAN : ProbeFinish(p, ok)) \/ ProbeExit(p)
Command   == (\E s \in Scopes : SaveSettings(s)) \/ PublishScope \/ NotifyScope

Next == Discovery \/ Power \/ Recv \/ Handle \/ PollTimeout \/ ScanStale \/ Tick \/ Probing \/ Command \/ Restart

Spec == Init /\ [][Next]_vars

\* Threads that can run do run, and time passes.  Nothing makes a poll time out:
\* that is up to whoever sends events.
Progress ==
    /\ WF_vars(Recv) /\ WF_vars(Handle) /\ WF_vars(ScanStale) /\ WF_vars(Tick)
    /\ \A p \in Peer : WF_vars(ProbeFinish(p, TRUE) \/ ProbeFinish(p, FALSE)) /\ WF_vars(ProbeExit(p))
    /\ WF_vars(PublishScope) /\ WF_vars(NotifyScope)

LiveSpec == Spec /\ Progress

-----------------------------------------------------------------------------
(* Properties. *)

\* The state has the shape the code gives it.
TypeOK ==
    /\ alive \in SUBSET Peer
    /\ roster \in Rosters /\ watch \in Rosters
    /\ age \in [Peer -> NoEntry .. Timeout + 1]
    /\ chan \in Seq(Event)
    /\ ev \in Event \cup {NoEvent} /\ evScope \in Scopes /\ silent \in BOOLEAN
    /\ outlasted \in SUBSET Peer
    /\ probe \in [Peer -> {"none", "dialing", "reported"}]
    /\ probeAddrs \in [Peer -> SUBSET Addr]
    /\ scope \in Scopes /\ saved \in Scopes
    /\ settingsPc \in {"idle", "saved", "notify"}
    /\ known \in [Peer -> Row]

\* Unless an eviction is on its way, no peer outside the published network
\* range is listed: a sighting that passed the filter under the previous range
\* is purged by the scope change queued behind it (core.rs:581-599, 1245-1249).
ScopeRespected ==
    ~EvictionPending => \A p \in Peer : PeerInScope(roster[p], scope)

\* The UI's snapshot never differs from the list: the boolean each mutation of
\* the list returns tells exactly whether something changed (roster.rs:91-166).
WatchInSync == watch = roster

\* A peer shown as online can still time out, because its last sighting is
\* remembered, with one exception: its dial-back was still under way when the
\* scan timed it out, and the verdict put it online again.  Only listed peers are
\* remembered.  PEER_TIMEOUT's comment (core.rs:62-67) knows no exception.
OnlineIsTimed ==
    \A p \in Peer : /\ Online(p) => age[p] # NoEntry \/ p \in outlasted
                    /\ age[p] # NoEntry => Listed(roster, p)

\* If polls keep timing out, a peer that has gone for good without a goodbye is
\* shown as offline at last, unless its dial-back outlasted its time-out
\* (core.rs:62-67, 700-748).
DeadGoesOffline ==
    []<>silent => \A p \in Peer : <>[](p \notin alive) => <>[](Online(p) => p \in outlasted)

\* A listed peer outside the published range disappears, or the range changes
\* again in its favour (core.rs:1245-1249).
OutOfScopeIsEvicted ==
    \A p \in Peer : ~PeerInScope(roster[p], scope) ~> PeerInScope(roster[p], scope)

-----------------------------------------------------------------------------
(* What makes the invariants inductive. *)

\* A sighting or a purge that goes by an outdated range is followed by a purge.
OutdatedIsFollowed ==
    ev.type \in {"Seen", "ScopeChanged"} /\ evScope # scope =>
        settingsPc = "notify" \/ ScopeChangeQueued

\* A listed peer with a verdict on its way has a last sighting, or is one that the
\* scan timed out in the meantime.
LateIsKnown ==
    \A p \in Peer : VerdictPending(p) /\ Listed(roster, p) => age[p] # NoEntry \/ p \in outlasted
=============================================================================
