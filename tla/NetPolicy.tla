----------------------------- MODULE NetPolicy -----------------------------
(***************************************************************************)
(* The interface registry and those who write what they derive from it      *)
(* (net_ifaces.rs, core.rs:116-256 and 684-717, mdns.rs:192-220): the       *)
(* settings command changes the policy, the roster thread looks at the      *)
(* system's interfaces every 30 s, and both hand a new snapshot first to    *)
(* the IPMsg target table, which compares generations, and then to mDNS,    *)
(* which does not.                                                          *)
(***************************************************************************)
EXTENDS SendPlans

CONSTANTS
    OsStates,    \* sets of interfaces the system may report
    SavedLines,  \* lists of lines settings.json may hold at the start
    NewLines,    \* lists of lines the user may enter
    Excludable,  \* names the user may exclude
    Samples,     \* further ranges the plans are looked at for
    MaxGen       \* bound: snapshots published

ASSUME OsAssumption == \A o \in OsStates : o \in SUBSET Entry /\ IsFiniteSet(o)
ASSUME LinesAssumption ==
    /\ \A lines \in SavedLines \cup NewLines : lines \in Seq(Range2 \cup {BadLine})
    /\ \A scope \in Samples : scope \in Seq(Range2)

VARIABLES
    os,        \* the interfaces of the system
    policy,    \* [excluded, scope]
    snap,      \* the published snapshot [generation, entries, scope]
    settings,  \* the settings command [pc, snap, changed, desired]
    roster,    \* the refresh of the roster thread, likewise
    bcast,     \* IpmsgBcastGuard [targets, applied]
    disabled,  \* applied_disabled: the interfaces mDNS leaves alone
    excused    \* history: the last publication did not reach mDNS undisturbed

vars == <<os, policy, snap, settings, roster, bcast, disabled, excused>>

NoSnap == [generation |-> 0, entries |-> {}, scope |-> <<>>]
Idle   == [pc |-> "idle", snap |-> NoSnap, changed |-> FALSE, desired |-> {}]

\* build_entries.
BuildEntries(o, excluded) == {e \in o : e.name \notin excluded}

Targets(s) == IpmsgTargets(s.entries, s.scope)

Desired(s) == DesiredDisabled(policy.excluded, s.entries, s.scope)

Init ==
    /\ os \in OsStates
    /\ \E lines \in SavedLines, excluded \in SUBSET Excludable :
          /\ policy = [excluded |-> excluded, scope |-> Lenient(lines)]
          /\ snap = [generation |-> 1, entries |-> BuildEntries(os, excluded), scope |-> Lenient(lines)]
    /\ settings = Idle /\ roster = Idle
    /\ bcast = [targets |-> Targets(snap), applied |-> 1]
    /\ disabled = Desired(snap)
    /\ excused = FALSE

-----------------------------------------------------------------------------
(* The registry. *)

Looked(o, p) ==
    [generation |-> snap.generation + 1, entries |-> BuildEntries(o, p.excluded), scope |-> p.scope]

IsNews(s) == s.entries # snap.entries \/ s.scope # snap.scope

\* refresh_locked: the policy lock is held from the look at the policy to
\* the publication.
Publish(p) == snap' = IF IsNews(Looked(os, p)) THEN Looked(os, p) ELSE snap

News(p) == IF IsNews(Looked(os, p)) THEN Looked(os, p) ELSE NoSnap

\* The system's interfaces change: cables, DHCP, virtual machines.
OsChange(o) ==
    /\ o # os /\ snap.generation < MaxGen
    /\ os' = o
    /\ UNCHANGED <<policy, snap, settings, roster, bcast, disabled, excused>>

-----------------------------------------------------------------------------
(* Subscribers that are written to. *)

\* (mutation) The last one to come wins.
ApplyIfNewerAlways(s) == bcast' = [targets |-> Targets(s), applied |-> s.generation]

\* apply_if_newer: one lock around comparison and write.
ApplyIfNewer(s) ==
    bcast' = IF s.generation > bcast.applied
             THEN [targets |-> Targets(s), applied |-> s.generation]
             ELSE bcast

\* set_disabled_interfaces: the difference to what is applied goes to the
\* daemon.
SetDisabled(names) == disabled' = names

-----------------------------------------------------------------------------
(* The settings command: set_settings, apply_network_policy. *)

\* (mutation) mDNS hears of it only when the snapshot changed.
ChangedSnapshot(excluded, lines) == IsNews(Looked(os, [excluded |-> excluded, scope |-> lines]))

\* The policy itself is compared, not the snapshot.
ChangedPolicy(excluded, lines) == excluded # policy.excluded \/ lines # policy.scope

SetPolicy(excluded, lines) ==
    LET new == [excluded |-> excluded, scope |-> lines]
    IN /\ settings.pc = "idle" /\ snap.generation < MaxGen /\ Valid(lines)
       /\ policy' = new /\ Publish(new)
       /\ settings' = [Idle EXCEPT !.pc = "bcast", !.snap = News(new),
                                   !.changed = ChangedPolicy(excluded, lines)]
       /\ excused' = IF settings'.changed THEN roster.pc # "idle"
                     ELSE excused \/ settings'.snap # NoSnap
       /\ UNCHANGED <<os, roster, bcast, disabled>>

SettingsBcast ==
    /\ settings.pc = "bcast"
    /\ IF settings.snap = NoSnap THEN UNCHANGED bcast ELSE ApplyIfNewer(settings.snap)
    /\ settings' = IF settings.changed THEN [settings EXCEPT !.pc = "read"] ELSE Idle
    /\ UNCHANGED <<os, policy, snap, roster, disabled, excused>>

\* The registry is asked again: its snapshot may be newer by now.
SettingsRead ==
    /\ settings.pc = "read"
    /\ settings' = [settings EXCEPT !.pc = "submit", !.desired = Desired(snap)]
    /\ UNCHANGED <<os, policy, snap, roster, bcast, disabled, excused>>

SettingsSubmit ==
    /\ settings.pc = "submit"
    /\ SetDisabled(settings.desired)
    /\ settings' = Idle
    /\ UNCHANGED <<os, policy, snap, roster, bcast, excused>>

-----------------------------------------------------------------------------
(* The roster thread, every IFACE_REFRESH_INTERVAL. *)

\* refresh; without news nothing follows.
Refresh ==
    /\ roster.pc = "idle" /\ snap.generation < MaxGen /\ IsNews(Looked(os, policy))
    /\ Publish(policy)
    /\ roster' = [Idle EXCEPT !.pc = "bcast", !.snap = News(policy)]
    /\ excused' = settings.changed
    /\ UNCHANGED <<os, policy, settings, bcast, disabled>>

RosterBcast ==
    /\ roster.pc = "bcast"
    /\ ApplyIfNewer(roster.snap)
    /\ roster' = [roster EXCEPT !.pc = "read"]
    /\ UNCHANGED <<os, policy, snap, settings, disabled, excused>>

\* sync_mdns_disabled: the exclusions of now, the snapshot of then.
RosterRead ==
    /\ roster.pc = "read"
    /\ roster' = [roster EXCEPT !.pc = "submit", !.desired = Desired(roster.snap)]
    /\ UNCHANGED <<os, policy, snap, settings, bcast, disabled, excused>>

RosterSubmit ==
    /\ roster.pc = "submit"
    /\ SetDisabled(roster.desired)
    /\ roster' = Idle
    /\ UNCHANGED <<os, policy, snap, settings, bcast, excused>>

-----------------------------------------------------------------------------

SettingsStep == SettingsBcast \/ SettingsRead \/ SettingsSubmit
RosterStep   == Refresh \/ RosterBcast \/ RosterRead \/ RosterSubmit

Next ==
    \/ \E o \in OsStates : OsChange(o)
    \/ \E excluded \in SUBSET Excludable, lines \in NewLines : SetPolicy(excluded, lines)
    \/ SettingsStep
    \/ RosterStep

Spec == Init /\ [][Next]_vars

-----------------------------------------------------------------------------
(* Properties. *)

\* When both threads have delivered their snapshots, IPMsg sends to the
\* targets of the published one, whoever came last.
BcastFollows ==
    settings.pc # "bcast" /\ roster.pc # "bcast" =>
       bcast = [targets |-> Targets(snap), applied |-> snap.generation]

\* What the device sends to is right for every snapshot the threads publish, and for
\* further ranges on the interfaces the process starts with: it is enough to look at
\* those once, where nothing is restricted yet.
Bare == snap.generation = 1 /\ os = snap.entries /\ policy = [excluded |-> {}, scope |-> <<>>]

Scopes == {snap.scope} \cup IF Bare THEN Samples ELSE {}

\* Strict stealth (send_plans, ipmsg_targets): nobody out of range hears an announcement.
Stealth == \A scope \in Scopes : Stealthy(snap.entries, scope)

\* Everybody in range who can be enumerated hears it (hosts_within, hosts_outside).
Reach == \A scope \in Scopes : Reaching(snap.entries, scope)

\* A batch of unicasts, for one subnet or for the range off the subnets, has no address
\* twice, and none the device itself has on that subnet (send_plans). An address the device
\* has on another, overlapping subnet may be in it, and two batches may share one.
BatchesAreRight == \A scope \in Scopes : BatchRight(snap.entries, scope)

BothIdle == settings.pc = "idle" /\ roster.pc = "idle"

\* mDNS leaves alone exactly the excluded and the hidden interfaces (those
\* of absent interfaces too, which no snapshot shows), if the last thread to
\* publish went on to tell it without meeting the other one.
MdnsFollowsAlone == BothIdle /\ ~excused => disabled = Desired(snap)

\* The same without exception.  Two things are against it: a settings command
\* that leaves the policy as it was publishes what it finds and tells only
\* IPMsg, and the roster thread's next look is no news; and what the roster
\* thread derived from an older snapshot may overwrite the newer set.
MdnsFollows == BothIdle => disabled = Desired(snap)

=============================================================================
