------------------------------- MODULE Roster -------------------------------
(***************************************************************************)
(* The contact list of bigpaw-core/src/roster.rs: a pure state machine fed  *)
(* with discovery events.  A list is a function from fingerprints to        *)
(* entries; a fingerprint the HashMap does not hold maps to Absent.         *)
(*                                                                         *)
(* An entry keeps what the rest of the core decides on: the addresses and   *)
(* the state.  Nickname, port and workgroup name ride along with the        *)
(* addresses in the code (one Seen replaces them all) and are left out.     *)
(* The protocol is fixed by the kind of fingerprint (the compatibility      *)
(* layer uses "ipmsg:<key>"), so it is the constant set NativePeer.         *)
(***************************************************************************)
CONSTANTS
    Peer,        \* fingerprints of other devices
    NativePeer,  \* those speaking the native (TLS) protocol; the rest is IPMsg
    Addr,        \* IP addresses
    NoPeer       \* the fingerprint of an event that concerns no peer

ASSUME NativeAssumption == NativePeer \subseteq Peer

ASSUME NoPeerAssumption == NoPeer \notin Peer

PeerState == {"discovered", "offline", "reachable", "unreachable"}

Absent == [state |-> "absent", addrs |-> {}]

Entry == {Absent} \cup [state : PeerState, addrs : SUBSET Addr]

Rosters == [Peer -> Entry]

Listed(r, p) == r[p].state # "absent"

-----------------------------------------------------------------------------
(* Discovery events, all of one shape so that a channel is homogeneous. *)

PeerEventType == {"Seen", "Lost", "Registered", "Unreachable"}

PeerEvent == [type : PeerEventType, fp : Peer, addrs : SUBSET Addr]

Seen(p, A)        == [type |-> "Seen", fp |-> p, addrs |-> A]
Lost(p)           == [type |-> "Lost", fp |-> p, addrs |-> {}]
Registered(p)     == [type |-> "Registered", fp |-> p, addrs |-> {}]
UnreachableEv(p)  == [type |-> "Unreachable", fp |-> p, addrs |-> {}]
ScopeChanged      == [type |-> "ScopeChanged", fp |-> NoPeer, addrs |-> {}]

Event == PeerEvent \cup {ScopeChanged}

-----------------------------------------------------------------------------
(* The entry Roster::apply leaves for an event's fingerprint. *)

\* A sighting refreshes the addresses.  It keeps the verdict of an earlier
\* dial-back, except that a peer marked offline starts afresh.
AfterSeen(e, A) ==
    [state |-> IF e.state \in {"absent", "offline"} THEN "discovered" ELSE e.state,
     addrs |-> A]

\* (mutation) An unreachable peer stays so, as the comment on PeerState has it.
AfterLostSparing(e) ==
    IF e.state \in {"discovered", "reachable"} THEN [e EXCEPT !.state = "offline"] ELSE e

AfterLost(e) ==
    IF e.state \notin {"absent", "offline"} THEN [e EXCEPT !.state = "offline"] ELSE e

AfterRegistered(e) ==
    IF e.state \notin {"absent", "reachable"} THEN [e EXCEPT !.state = "reachable"] ELSE e

\* One failed dial-back does not take a confirmed peer down.
AfterUnreachable(e) ==
    IF e.state \in {"discovered", "offline"} THEN [e EXCEPT !.state = "unreachable"] ELSE e

AfterEvent(e, ev) ==
    CASE ev.type = "Seen"        -> AfterSeen(e, ev.addrs)
      [] ev.type = "Lost"        -> AfterLost(e)
      [] ev.type = "Registered"  -> AfterRegistered(e)
      [] ev.type = "Unreachable" -> AfterUnreachable(e)

\* (mutation) Only a new state counts as a change.
ApplyChangedStateOnly(e, ev) == AfterEvent(e, ev).state # e.state

\* The boolean Roster::apply returns: the caller publishes a snapshot only
\* when it is TRUE.
ApplyChanged(e, ev) ==
    CASE ev.type = "Seen"        -> AfterSeen(e, ev.addrs) # e
      [] ev.type = "Lost"        -> e.state \notin {"absent", "offline"}
      [] ev.type = "Registered"  -> e.state \notin {"absent", "reachable"}
      [] ev.type = "Unreachable" -> e.state \in {"discovered", "offline"}

Apply(r, ev) == [r EXCEPT ![ev.fp] = AfterEvent(@, ev)]

-----------------------------------------------------------------------------
(* Network range (NetScope): a set of allowed peer addresses. *)

\* A peer without a known address (an offline contact warmed up from the
\* database) is kept; otherwise one allowed address is enough.
PeerInScope(e, scope) == e.addrs = {} \/ e.addrs \cap scope # {}

RetainInScope(r, scope) ==
    [p \in Peer |-> IF PeerInScope(r[p], scope) THEN r[p] ELSE Absent]

RetainChanged(r, scope) == \E p \in Peer : Listed(r, p) /\ ~PeerInScope(r[p], scope)

\* Contacts remembered by the database enter the fresh list as offline.
\* A row has no address, or the one last seen; without a row a peer is unknown.
Row == [stored : BOOLEAN, addrs : SUBSET Addr]

NoRow == [stored |-> FALSE, addrs |-> {}]

\* (mutation) The row goes in as it is.
SeedEntryRaw(row) == [state |-> "absent", addrs |-> row.addrs]

SeedEntry(row) == [state |-> "offline", addrs |-> row.addrs]

Seeded(known, scope) ==
    [p \in Peer |->
        IF known[p].stored /\ PeerInScope(SeedEntry(known[p]), scope)
        THEN SeedEntry(known[p]) ELSE Absent]
=============================================================================
