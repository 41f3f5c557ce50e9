--------------------------- MODULE Presence_proofs ---------------------------
(***************************************************************************)
(* Machine-checked proofs about Presence, for every value of its constants. *)
(***************************************************************************)
EXTENDS Presence, TLAPS

-----------------------------------------------------------------------------
(* Sequences: what the channel holds after an append or a removal. *)

\* Appending adds one element and keeps the others.
LEMMA AppendHolds ==
    ASSUME NEW S, NEW s \in Seq(S), NEW e \in S, NEW x
    PROVE  /\ Append(s, e) \in Seq(S)
           /\ (\E i \in DOMAIN Append(s, e) : Append(s, e)[i] = x)
                <=> (x = e \/ \E i \in DOMAIN s : s[i] = x)
<1>1. Append(s, e) \in Seq(S)
  OBVIOUS
<1>2. Len(Append(s, e)) = Len(s) + 1 /\ Append(s, e)[Len(s) + 1] = e
  OBVIOUS
<1>3. \A i \in 1 .. Len(s) : Append(s, e)[i] = s[i]
  OBVIOUS
<1>4. DOMAIN s = 1 .. Len(s) /\ DOMAIN Append(s, e) = 1 .. (Len(s) + 1) /\ Len(s) \in Nat
  BY <1>1, <1>2
<1> QED
  BY <1>1, <1>2, <1>3, <1>4

\* Removing the head removes nothing but that element.
LEMMA TailHolds ==
    ASSUME NEW S, NEW s \in Seq(S), s # <<>>, NEW x
    PROVE  /\ Head(s) \in S /\ Tail(s) \in Seq(S)
           /\ (\E i \in DOMAIN s : s[i] = x)
                <=> (x = Head(s) \/ \E i \in DOMAIN Tail(s) : Tail(s)[i] = x)
<1>1. Head(s) \in S /\ Tail(s) \in Seq(S) /\ Head(s) = s[1]
  OBVIOUS
<1>2. Len(s) \in Nat \ {0} /\ DOMAIN s = 1 .. Len(s)
  OBVIOUS
<1>3. Len(Tail(s)) = Len(s) - 1 /\ DOMAIN Tail(s) = 1 .. (Len(s) - 1)
  BY <1>1, <1>2
<1>4. \A i \in 1 .. (Len(s) - 1) : Tail(s)[i] = s[i + 1]
  BY <1>2
<1>5. ASSUME NEW i \in DOMAIN s, s[i] = x, x # Head(s)
      PROVE  \E j \in DOMAIN Tail(s) : Tail(s)[j] = x
  <2>1. i - 1 \in 1 .. (Len(s) - 1)
    BY <1>1, <1>2, <1>5
  <2>2. Tail(s)[i - 1] = s[i]
    BY <2>1, <1>4, <1>2
  <2> QED
    BY <2>1, <2>2, <1>3, <1>5
<1>6. ASSUME NEW j \in DOMAIN Tail(s), Tail(s)[j] = x
      PROVE  \E i \in DOMAIN s : s[i] = x
  <2>1. j + 1 \in DOMAIN s /\ s[j + 1] = x
    BY <1>2, <1>3, <1>4, <1>6
  <2> QED
    BY <2>1
<1> QED
  BY <1>1, <1>2, <1>5, <1>6

-----------------------------------------------------------------------------
(* The contact list. *)

\* One event leaves an entry of the right shape, and the boolean apply returns
\* is exact: FALSE only if the entry did not change.
LEMMA EntryStep ==
    ASSUME NEW e \in Entry, NEW ev_ \in PeerEvent
    PROVE  /\ AfterEvent(e, ev_) \in Entry
           /\ ~ApplyChanged(e, ev_) => AfterEvent(e, ev_) = e
<1>1. /\ ev_.addrs \in SUBSET Addr
      /\ ev_.type = "Seen" \/ ev_.type = "Lost" \/ ev_.type = "Registered" \/ ev_.type = "Unreachable"
  BY DEF PeerEvent, PeerEventType
<1>2. CASE e = Absent
  BY <1>1, <1>2 DEF AfterEvent, ApplyChanged, AfterSeen, AfterLost, AfterRegistered,
                    AfterUnreachable, Absent, Entry, PeerState
<1>3. CASE e \in [state : PeerState, addrs : SUBSET Addr]
  BY <1>1, <1>3 DEF AfterEvent, ApplyChanged, AfterSeen, AfterLost, AfterRegistered,
                    AfterUnreachable, Entry, PeerState
<1> QED
  BY <1>2, <1>3 DEF Entry

\* The same of the whole list.
LEMMA ApplyStep ==
    ASSUME NEW r \in Rosters, NEW ev_ \in PeerEvent
    PROVE  /\ Apply(r, ev_) \in Rosters
           /\ ev_.fp \in Peer
           /\ \A p \in Peer : Apply(r, ev_)[p] = IF p = ev_.fp THEN AfterEvent(r[p], ev_) ELSE r[p]
           /\ ~ApplyChanged(r[ev_.fp], ev_) => Apply(r, ev_) = r
<1>1. ev_.fp \in Peer
  BY DEF PeerEvent
<1>2. r \in [Peer -> Entry] /\ r[ev_.fp] \in Entry
  BY <1>1 DEF Rosters
<1>3. Apply(r, ev_) = [r EXCEPT ![ev_.fp] = AfterEvent(r[ev_.fp], ev_)]
  BY DEF Apply
<1> QED
  BY <1>1, <1>2, <1>3, EntryStep DEF Rosters

\* Purging keeps the shape, leaves only peers in range, and reports a change
\* whenever it removed somebody.
LEMMA RetainStep ==
    ASSUME NEW r \in Rosters, NEW s \in SUBSET Addr
    PROVE  /\ RetainInScope(r, s) \in Rosters
           /\ \A p \in Peer : PeerInScope(RetainInScope(r, s)[p], s)
           /\ ~RetainChanged(r, s) => RetainInScope(r, s) = r
<1>1. Absent \in Entry /\ PeerInScope(Absent, s)
  BY DEF Entry, Absent, PeerInScope
<1>2. \A p \in Peer : RetainInScope(r, s)[p] = IF PeerInScope(r[p], s) THEN r[p] ELSE Absent
  BY DEF RetainInScope
<1>3. RetainInScope(r, s) \in Rosters
  BY <1>1 DEF Rosters, RetainInScope
<1>4. ASSUME ~RetainChanged(r, s)
      PROVE  \A p \in Peer : RetainInScope(r, s)[p] = r[p]
  <2> TAKE p \in Peer
  <2>1. CASE PeerInScope(r[p], s)
    BY <2>1, <1>2
  <2>2. CASE ~PeerInScope(r[p], s)
    <3>1. r[p].state = "absent" /\ r[p] \in Entry
      BY <1>4, <2>2 DEF RetainChanged, Listed, Rosters
    <3>2. r[p] = Absent
      BY <3>1 DEF Entry, PeerState
    <3> QED
      BY <3>2, <1>1, <2>2
  <2> QED
    BY <2>1, <2>2
<1> QED
  BY <1>1, <1>2, <1>3, <1>4 DEF Rosters

\* A list seeded from the database has the right shape, is all offline and is
\* within range.
LEMMA SeededStep ==
    ASSUME NEW rows \in [Peer -> Row], NEW s \in SUBSET Addr
    PROVE  /\ Seeded(rows, s) \in Rosters
           /\ \A p \in Peer : /\ PeerInScope(Seeded(rows, s)[p], s)
                              /\ Seeded(rows, s)[p].state \in {"absent", "offline"}
<1>1. Absent \in Entry /\ PeerInScope(Absent, s) /\ Absent.state = "absent"
  BY DEF Entry, Absent, PeerInScope
<1>2. \A p \in Peer : SeedEntry(rows[p]) \in Entry /\ SeedEntry(rows[p]).state = "offline"
  BY DEF Row, SeedEntry, Entry, PeerState
<1> QED
  BY <1>1, <1>2 DEF Seeded, Rosters

-----------------------------------------------------------------------------
(* Type correctness. *)

\* What the constants and the constructors of events amount to.
LEMMA Constants ==
    /\ \A s \in Scopes : s \in SUBSET Addr
    /\ Timeout \in Nat /\ Timeout # 0
    /\ ScopeChanged \in Event
    /\ \A p \in Peer : \A A \in SUBSET Addr : Seen(p, A) \in PeerEvent
    /\ \A p \in Peer : Lost(p) \in PeerEvent /\ Registered(p) \in PeerEvent /\ UnreachableEv(p) \in PeerEvent
    /\ \A e \in Event : e.type # "ScopeChanged" => e \in PeerEvent
BY ScopesAssumption, TimeoutAssumption
   DEF Event, PeerEvent, PeerEventType, Seen, Lost, Registered, UnreachableEv, ScopeChanged

LEMMA InitType == Init => TypeOK
<1> SUFFICES ASSUME Init PROVE TypeOK
  OBVIOUS
<1>1. /\ Absent \in Entry /\ NoRow \in Row /\ NoEntry \in NoEntry .. Timeout + 1
      /\ <<>> \in Seq(Event) /\ {} \in SUBSET Peer /\ {} \in SUBSET Addr /\ FALSE \in BOOLEAN
  BY Constants DEF Entry, Absent, NoRow, Row, NoEntry
<1>2. roster \in Rosters /\ watch \in Rosters
  BY <1>1 DEF Init, Rosters
<1> QED
  BY <1>1, <1>2 DEF Init, TypeOK

LEMMA NextType == TypeOK /\ [Next]_vars => TypeOK'
<1> SUFFICES ASSUME TypeOK, [Next]_vars PROVE TypeOK'
  OBVIOUS
<1> USE Constants DEF TypeOK, timerVars
<1>1. ASSUME NEW p \in Peer, NEW A \in SUBSET Addr, Announce(p, A) PROVE TypeOK'
  BY <1>1 DEF Announce, Event, threadVars, probeVars, settingsVars
<1>2. ASSUME NEW p \in Peer, Goodbye(p) PROVE TypeOK'
  BY <1>2 DEF Goodbye, Event, threadVars, probeVars, settingsVars
<1>3. ASSUME NEW p \in Peer, Die(p) \/ Revive(p) PROVE TypeOK'
  BY <1>3 DEF Die, Revive, threadVars, probeVars, settingsVars
<1>4. CASE Recv
  <2>1. Head(chan) \in Event /\ Tail(chan) \in Seq(Event)
    BY <1>4, TailHolds DEF Recv
  <2> QED
    BY <1>4, <2>1 DEF Recv, probeVars, settingsVars
<1>5. CASE HandleScopeChanged
  <2>1. roster' \in Rosters
    BY <1>5, RetainStep DEF HandleScopeChanged
  <2> QED
    BY <1>5, <2>1 DEF HandleScopeChanged, Publish, probeVars, settingsVars, NoEntry
<1>6. CASE DropSeen
  BY <1>6 DEF DropSeen, probeVars, settingsVars
<1>7. CASE HandleSeen
  <2> DEFINE p == ev.fp
             filtered == Seen(p, ev.addrs \cap evScope)
  <2>1. p \in Peer /\ ev.addrs \in SUBSET Addr
    BY <1>7 DEF HandleSeen, PeerEvent, NoEvent
  <2>2. filtered \in PeerEvent /\ filtered.addrs \in SUBSET Addr
    BY <2>1 DEF PeerEvent, PeerEventType, Seen
  <2>3. roster' \in Rosters
    BY <1>7, <2>2, ApplyStep DEF HandleSeen
  <2>4. watch' \in Rosters
    BY <1>7, <2>3 DEF HandleSeen, Publish
  <2>5. known' \in [Peer -> Row]
    <3>1. StoreSighting(p, filtered.addrs)
      BY <1>7 DEF HandleSeen
    <3>2. \A a \in filtered.addrs : [stored |-> TRUE, addrs |-> {a}] \in Row
      BY <2>2 DEF Row
    <3> QED
      BY <2>1, <3>1, <3>2 DEF StoreSighting
  <2>6. age' \in [Peer -> NoEntry .. Timeout + 1]
    BY <1>7, <2>1 DEF HandleSeen, NoEntry
  <2>7. /\ probe' \in [Peer -> {"none", "dialing", "reported"}]
        /\ probeAddrs' \in [Peer -> SUBSET Addr]
    BY <1>7, <2>1, <2>2 DEF HandleSeen, probeVars
  <2> QED
    BY <1>7, <2>3, <2>4, <2>5, <2>6, <2>7 DEF HandleSeen, settingsVars
<1>8. CASE HandleVerdict
  <2>1. ev \in PeerEvent
    BY <1>8 DEF HandleVerdict, NoEvent
  <2>2. roster' \in Rosters
    BY <1>8, <2>1, ApplyStep DEF HandleVerdict
  <2> QED
    BY <1>8, <2>2 DEF HandleVerdict, Publish, probeVars, settingsVars
<1>9. CASE ScanStale
  <2>1. \A p \in Peer : AfterLost(roster[p]) \in Entry
    <3> TAKE p \in Peer
    <3>1. AfterEvent(roster[p], Lost(p)) = AfterLost(roster[p])
      BY DEF AfterEvent, Lost
    <3> QED
      BY <3>1, EntryStep DEF Rosters
  <2>2. roster' \in Rosters
    BY <1>9, <2>1 DEF ScanStale, Rosters
  <2>3. outlasted' \in SUBSET Peer
    BY <1>9 DEF ScanStale, Stale
  <2>4. age' \in [Peer -> NoEntry .. Timeout + 1] /\ watch' \in Rosters
    BY <1>9, <2>2 DEF ScanStale, Publish, NoEntry
  <2> QED
    BY <1>9, <2>2, <2>3, <2>4 DEF ScanStale, probeVars, settingsVars
<1>18. CASE PollTimeout
  BY <1>18 DEF PollTimeout, probeVars, settingsVars
<1>10. CASE Tick
  BY <1>10 DEF Tick, threadVars, probeVars, settingsVars, NoEntry
<1>11. ASSUME NEW p \in Peer, NEW ok \in BOOLEAN, ProbeFinish(p, ok) PROVE TypeOK'
  BY <1>11 DEF ProbeFinish, Event, threadVars, settingsVars
<1>12. ASSUME NEW p \in Peer, ProbeExit(p) PROVE TypeOK'
  BY <1>12 DEF ProbeExit, threadVars, settingsVars
<1>13. ASSUME NEW s \in Scopes, SaveSettings(s) PROVE TypeOK'
  BY <1>13 DEF SaveSettings, threadVars, probeVars
<1>14. CASE PublishScope
  BY <1>14 DEF PublishScope, threadVars, probeVars
<1>15. CASE NotifyScope
  BY <1>15 DEF NotifyScope, threadVars, probeVars
<1>16. CASE Restart
  <2>1. roster' \in Rosters /\ watch' \in Rosters
    BY <1>16, SeededStep DEF Restart, Fresh
  <2>2. /\ NoEntry \in NoEntry .. Timeout + 1 /\ <<>> \in Seq(Event) /\ {} \in SUBSET Peer
        /\ {} \in SUBSET Addr /\ FALSE \in BOOLEAN
    BY DEF NoEntry
  <2> QED
    BY <1>16, <2>1, <2>2 DEF Restart, Fresh
<1>17. CASE UNCHANGED vars
  BY <1>17 DEF vars, threadVars, probeVars, settingsVars
<1> QED
  BY <1>1, <1>2, <1>3, <1>4, <1>5, <1>6, <1>7, <1>8, <1>9, <1>10, <1>11, <1>12, <1>13,
     <1>14, <1>15, <1>16, <1>17, <1>18 DEF Next, Discovery, Power, Handle, Probing, Command

\* The state always has the shape TypeOK gives it.
THEOREM TypeCorrect == Spec => []TypeOK
<1> QED
  BY InitType, NextType, PTL DEF Spec

-----------------------------------------------------------------------------
(* The UI's snapshot. *)

LEMMA NextWatch == TypeOK /\ WatchInSync /\ [Next]_vars => WatchInSync'
<1> SUFFICES ASSUME TypeOK, WatchInSync, [Next]_vars PROVE watch' = roster'
  BY DEF WatchInSync
<1> USE DEF TypeOK, WatchInSync
<1>1. CASE HandleScopeChanged
  BY <1>1, Constants, RetainStep DEF HandleScopeChanged, Publish
<1>2. CASE HandleSeen
  <2>1. Seen(ev.fp, ev.addrs \cap evScope) \in PeerEvent
    BY <1>2, Constants DEF HandleSeen, PeerEvent, NoEvent
  <2>2. Seen(ev.fp, ev.addrs \cap evScope).fp = ev.fp
    BY DEF Seen
  <2> QED
    BY <1>2, <2>1, <2>2, ApplyStep DEF HandleSeen, Publish
<1>3. CASE HandleVerdict
  <2>1. ev \in PeerEvent
    BY <1>3, Constants DEF HandleVerdict, NoEvent
  <2> QED
    BY <1>3, <2>1, ApplyStep DEF HandleVerdict, Publish
<1>4. CASE ScanStale
  <2>1. ASSUME ~\E p \in Stale : ApplyChanged(roster[p], Lost(p))
        PROVE  \A p \in Stale : AfterLost(roster[p]) = roster[p]
    <3> TAKE p \in Stale
    <3>1. p \in Peer /\ roster[p] \in Entry
      BY DEF Stale, Rosters
    <3>2. AfterEvent(roster[p], Lost(p)) = AfterLost(roster[p])
      BY DEF AfterEvent, Lost
    <3> QED
      BY <2>1, <3>1, <3>2, EntryStep, Constants
  <2>2. ASSUME \A p \in Stale : AfterLost(roster[p]) = roster[p]
        PROVE  roster' = roster
    BY <1>4, <2>2 DEF ScanStale, Rosters
  <2> QED
    BY <1>4, <2>1, <2>2 DEF ScanStale, Publish
<1>5. CASE Restart
  BY <1>5 DEF Restart, Fresh
<1>6. CASE UNCHANGED <<roster, watch>>
  BY <1>6
<1>7. \/ HandleScopeChanged \/ HandleSeen \/ HandleVerdict \/ ScanStale \/ Restart
      \/ UNCHANGED <<roster, watch>>
  BY DEF Next, vars, Discovery, Announce, Goodbye, Power, Die, Revive, Recv, Handle, DropSeen,
         Tick, PollTimeout, Probing, ProbeFinish, ProbeExit, Command, SaveSettings, PublishScope, NotifyScope
<1> QED
  BY <1>1, <1>2, <1>3, <1>4, <1>5, <1>6, <1>7

\* The UI's snapshot equals the list after every step.
THEOREM WatchCorrect == Spec => []WatchInSync
<1>1. Init => WatchInSync
  BY DEF Init, WatchInSync
<1> QED
  BY <1>1, NextWatch, TypeCorrect, PTL DEF Spec

-----------------------------------------------------------------------------
(* The network range. *)

\* How the steps change what is queued.
LEMMA AppendQueue ==
    ASSUME TypeOK, NEW e \in Event, chan' = Append(chan, e)
    PROVE  /\ ScopeChangeQueued' <=> (ScopeChangeQueued \/ e = ScopeChanged)
           /\ \A p \in Peer : (\E i \in DOMAIN chan' : IsVerdict(chan'[i], p))
                => IsVerdict(e, p) \/ \E i \in DOMAIN chan : IsVerdict(chan[i], p)
<1>1. chan \in Seq(Event)
  BY DEF TypeOK
<1>2. ScopeChangeQueued' <=> (ScopeChangeQueued \/ e = ScopeChanged)
  BY <1>1, AppendHolds DEF ScopeChangeQueued
<1>3. ASSUME NEW p \in Peer, NEW i \in DOMAIN chan', IsVerdict(chan'[i], p)
      PROVE  IsVerdict(e, p) \/ \E j \in DOMAIN chan : IsVerdict(chan[j], p)
  <2>1. chan'[i] = e \/ \E j \in DOMAIN chan : chan[j] = chan'[i]
    BY <1>1, AppendHolds
  <2> QED
    BY <1>3, <2>1
<1> QED
  BY <1>2, <1>3

LEMMA RecvQueue ==
    ASSUME TypeOK, Recv
    PROVE  /\ ScopeChangeQueued <=> (ev' = ScopeChanged \/ ScopeChangeQueued')
           /\ \A p \in Peer : (\E i \in DOMAIN chan' : IsVerdict(chan'[i], p))
                => \E i \in DOMAIN chan : IsVerdict(chan[i], p)
           /\ \A p \in Peer : IsVerdict(ev', p) => \E i \in DOMAIN chan : IsVerdict(chan[i], p)
<1>1. chan \in Seq(Event) /\ chan # <<>> /\ ev' = Head(chan) /\ chan' = Tail(chan)
  BY DEF TypeOK, Recv
<1>2. ScopeChangeQueued <=> (ev' = ScopeChanged \/ ScopeChangeQueued')
  <2>1. (\E i \in DOMAIN chan : chan[i] = ScopeChanged)
          <=> (ScopeChanged = ev' \/ \E i \in DOMAIN chan' : chan'[i] = ScopeChanged)
    BY <1>1, TailHolds
  <2> QED
    BY <2>1 DEF ScopeChangeQueued
<1>3. ASSUME NEW p \in Peer, NEW i \in DOMAIN chan', IsVerdict(chan'[i], p)
      PROVE  \E j \in DOMAIN chan : IsVerdict(chan[j], p)
  <2>1. \E j \in DOMAIN chan : chan[j] = chan'[i]
    BY <1>1, TailHolds
  <2> QED
    BY <1>3, <2>1
<1>4. ASSUME NEW p \in Peer, IsVerdict(ev', p)
      PROVE  \E j \in DOMAIN chan : IsVerdict(chan[j], p)
  <2>1. \E j \in DOMAIN chan : chan[j] = ev'
    BY <1>1, TailHolds
  <2> QED
    BY <1>4, <2>1
<1> QED
  BY <1>2, <1>3, <1>4

\* The steps that leave the list, the range and the event in hand alone, and at
\* most add to the channel.
LEMMA QuietScope ==
    ASSUME TypeOK, OutdatedIsFollowed, ScopeRespected,
           UNCHANGED <<roster, ev, evScope, scope, settingsPc>>,
           NEW e \in Event, chan' = chan \/ chan' = Append(chan, e)
    PROVE  OutdatedIsFollowed' /\ ScopeRespected'
<1>1. ScopeChangeQueued => ScopeChangeQueued'
  BY AppendQueue DEF ScopeChangeQueued
<1> QED
  BY <1>1 DEF OutdatedIsFollowed, ScopeRespected, EvictionPending

\* A sighting is applied with addresses of the range in hand.
LEMMA SeenScope ==
    ASSUME TypeOK, HandleSeen
    PROVE  /\ \A p \in Peer : p # ev.fp => roster'[p] = roster[p]
           /\ PeerInScope(roster'[ev.fp], evScope)
<1> DEFINE filtered == Seen(ev.fp, ev.addrs \cap evScope)
<1>1. filtered \in PeerEvent /\ filtered.fp = ev.fp /\ filtered.type = "Seen"
      /\ filtered.addrs = ev.addrs \cap evScope
  BY Constants DEF TypeOK, HandleSeen, PeerEvent, NoEvent, Seen
<1>2. roster' = Apply(roster, filtered)
  BY DEF HandleSeen
<1>3. AfterEvent(roster[ev.fp], filtered).addrs = ev.addrs \cap evScope
  BY <1>1 DEF AfterEvent, AfterSeen
<1>4. /\ \A p \in Peer : p # ev.fp => roster'[p] = roster[p]
      /\ roster'[ev.fp].addrs = ev.addrs \cap evScope
  <2> HIDE DEF filtered
  <2>1. roster \in Rosters /\ filtered.fp \in Peer
    BY <1>1, ApplyStep DEF TypeOK
  <2>2. \A p \in Peer :
          roster'[p] = IF p = ev.fp THEN AfterEvent(roster[p], filtered) ELSE roster[p]
    BY <1>1, <1>2, <2>1, ApplyStep
  <2> QED
    BY <1>1, <1>3, <2>1, <2>2
<1>5. roster'[ev.fp].addrs \cap evScope # {}
  BY <1>4 DEF HandleSeen
<1> QED
  BY <1>4, <1>5 DEF PeerInScope

\* Every other event leaves the addresses alone.
LEMMA SameAddrs ==
    ASSUME NEW e \in Entry, NEW s
    PROVE  /\ AfterLost(e) \in Entry
           /\ PeerInScope(AfterLost(e), s) <=> PeerInScope(e, s)
           /\ PeerInScope(AfterRegistered(e), s) <=> PeerInScope(e, s)
           /\ PeerInScope(AfterUnreachable(e), s) <=> PeerInScope(e, s)
BY DEF PeerInScope, AfterLost, AfterRegistered, AfterUnreachable, Entry, Absent, PeerState

LEMMA VerdictScope ==
    ASSUME TypeOK, HandleVerdict, NEW p \in Peer, NEW s
    PROVE  PeerInScope(roster'[p], s) <=> PeerInScope(roster[p], s)
<1>1. ev \in PeerEvent /\ roster[p] \in Entry
  BY Constants DEF TypeOK, HandleVerdict, NoEvent, Rosters
<1>2. roster'[p] = IF p = ev.fp THEN AfterEvent(roster[p], ev) ELSE roster[p]
  BY <1>1, ApplyStep DEF TypeOK, HandleVerdict
<1>3. AfterEvent(roster[p], ev) \in {AfterLost(roster[p]), AfterRegistered(roster[p]), AfterUnreachable(roster[p])}
  BY DEF AfterEvent, HandleVerdict
<1> QED
  BY <1>1, <1>2, <1>3, SameAddrs

LEMMA NextScope ==
    TypeOK /\ OutdatedIsFollowed /\ ScopeRespected /\ [Next]_vars
        => OutdatedIsFollowed' /\ ScopeRespected'
<1> SUFFICES ASSUME TypeOK, OutdatedIsFollowed, ScopeRespected, [Next]_vars
             PROVE  OutdatedIsFollowed' /\ ScopeRespected'
  OBVIOUS
<1>1. ASSUME NEW p \in Peer, NEW A \in SUBSET Addr, Announce(p, A)
      PROVE  OutdatedIsFollowed' /\ ScopeRespected'
  BY <1>1, Constants, QuietScope DEF Announce, Event, threadVars, settingsVars
<1>2. ASSUME NEW p \in Peer, Goodbye(p)
      PROVE  OutdatedIsFollowed' /\ ScopeRespected'
  BY <1>2, Constants, QuietScope DEF Goodbye, Event, threadVars, settingsVars
<1>3. ASSUME NEW p \in Peer, Die(p) \/ Revive(p) \/ ProbeExit(p)
      PROVE  OutdatedIsFollowed' /\ ScopeRespected'
  BY <1>3, Constants, QuietScope DEF Die, Revive, ProbeExit, threadVars, settingsVars
<1>4. ASSUME NEW p \in Peer, NEW ok \in BOOLEAN, ProbeFinish(p, ok)
      PROVE  OutdatedIsFollowed' /\ ScopeRespected'
  BY <1>4, Constants, QuietScope DEF ProbeFinish, Event, threadVars, settingsVars
<1>5. CASE Tick \/ PollTimeout \/ UNCHANGED vars
  BY <1>5, Constants, QuietScope DEF Tick, PollTimeout, vars, threadVars, settingsVars
<1>6. CASE Recv
  BY <1>6, RecvQueue
     DEF Recv, settingsVars, OutdatedIsFollowed, ScopeRespected, EvictionPending, NoEvent, ScopeChanged
<1>7. CASE HandleScopeChanged
  <2>1. \A p \in Peer : PeerInScope(roster'[p], evScope)
    BY <1>7, RetainStep, Constants DEF TypeOK, HandleScopeChanged
  <2>2. ScopeChangeQueued' <=> ScopeChangeQueued
    BY <1>7 DEF HandleScopeChanged, ScopeChangeQueued
  <2> QED
    BY <1>7, <2>1, <2>2
       DEF HandleScopeChanged, settingsVars, OutdatedIsFollowed, ScopeRespected, EvictionPending, NoEvent
<1>8. CASE DropSeen
  <2>1. ScopeChangeQueued' <=> ScopeChangeQueued
    BY <1>8 DEF DropSeen, ScopeChangeQueued
  <2> QED
    BY <1>8, <2>1
       DEF DropSeen, settingsVars, OutdatedIsFollowed, ScopeRespected, EvictionPending, NoEvent, ScopeChanged
<1>9. CASE HandleSeen
  <2>1. ScopeChangeQueued' <=> ScopeChangeQueued
    BY <1>9 DEF HandleSeen, ScopeChangeQueued
  <2>2. ev.type = "Seen" /\ ev # ScopeChanged /\ ev' = NoEvent /\ UNCHANGED settingsVars
    BY <1>9 DEF HandleSeen, ScopeChanged
  <2>3. OutdatedIsFollowed'
    BY <2>2 DEF OutdatedIsFollowed, NoEvent
  <2>4. ASSUME ~EvictionPending', NEW p \in Peer
        PROVE  PeerInScope(roster'[p], scope')
    <3>1. ~EvictionPending /\ evScope = scope
      BY <2>1, <2>2, <2>4 DEF EvictionPending, OutdatedIsFollowed, settingsVars, NoEvent, ScopeChanged
    <3>2. CASE p = ev.fp
      BY <1>9, <2>2, <3>1, <3>2, SeenScope DEF settingsVars
    <3>3. CASE p # ev.fp
      BY <1>9, <2>2, <3>1, <3>3, SeenScope DEF settingsVars, ScopeRespected
    <3> QED
      BY <3>2, <3>3
  <2> QED
    BY <2>3, <2>4 DEF ScopeRespected
<1>10. CASE HandleVerdict
  <2>1. ScopeChangeQueued' <=> ScopeChangeQueued
    BY <1>10 DEF HandleVerdict, ScopeChangeQueued
  <2> QED
    BY <1>10, <2>1, VerdictScope
       DEF HandleVerdict, settingsVars, OutdatedIsFollowed, ScopeRespected, EvictionPending, NoEvent, ScopeChanged
<1>11. CASE ScanStale
  <2>1. \A p \in Peer : PeerInScope(roster'[p], scope) <=> PeerInScope(roster[p], scope)
    BY <1>11, SameAddrs DEF TypeOK, ScanStale, Rosters
  <2>2. ScopeChangeQueued' <=> ScopeChangeQueued
    BY <1>11 DEF ScanStale, ScopeChangeQueued
  <2> QED
    BY <1>11, <2>1, <2>2
       DEF ScanStale, threadVars, settingsVars, OutdatedIsFollowed, ScopeRespected, EvictionPending
<1>12. ASSUME NEW s \in Scopes, SaveSettings(s)
       PROVE  OutdatedIsFollowed' /\ ScopeRespected'
  <2>1. ScopeChangeQueued' <=> ScopeChangeQueued
    BY <1>12 DEF SaveSettings, ScopeChangeQueued
  <2> QED
    BY <1>12, <2>1
       DEF SaveSettings, threadVars, OutdatedIsFollowed, ScopeRespected, EvictionPending
<1>13. CASE PublishScope
  <2>1. ScopeChangeQueued' <=> ScopeChangeQueued
    BY <1>13 DEF PublishScope, ScopeChangeQueued
  <2> QED
    BY <1>13, <2>1
       DEF PublishScope, threadVars, OutdatedIsFollowed, ScopeRespected, EvictionPending
<1>14. CASE NotifyScope
  <2>1. ScopeChangeQueued'
    BY <1>14, AppendQueue, Constants DEF NotifyScope
  <2> QED
    BY <2>1 DEF OutdatedIsFollowed, ScopeRespected, EvictionPending
<1>15. CASE Restart
  BY <1>15, SeededStep, Constants
     DEF Restart, Fresh, TypeOK, OutdatedIsFollowed, ScopeRespected, NoEvent
<1> QED
  BY <1>1, <1>2, <1>3, <1>4, <1>5, <1>6, <1>7, <1>8, <1>9, <1>10, <1>11, <1>12, <1>13,
     <1>14, <1>15 DEF Next, Discovery, Power, Handle, Probing, Command

\* Unless an eviction is on its way, no peer outside the range is listed.
THEOREM ScopeCorrect == Spec => []ScopeRespected
<1>1. Init => OutdatedIsFollowed /\ ScopeRespected
  BY DEF Init, OutdatedIsFollowed, ScopeRespected, NoEvent, PeerInScope, Absent
<1> QED
  BY <1>1, NextScope, TypeCorrect, PTL DEF Spec

-----------------------------------------------------------------------------
(* Timers. *)

\* What an event does to whether its peer is listed and online.
LEMMA EntryStates ==
    ASSUME NEW e \in Entry, NEW A \in SUBSET Addr
    PROVE  /\ AfterSeen(e, A).state # "absent"
           /\ AfterLost(e).state \in {"absent", "offline"}
           /\ AfterLost(e).state = "absent" <=> e.state = "absent"
           /\ AfterRegistered(e).state = "absent" <=> e.state = "absent"
           /\ AfterUnreachable(e).state = "absent" <=> e.state = "absent"
           /\ e = Absent <=> e.state = "absent"
BY DEF Entry, Absent, PeerState, AfterSeen, AfterLost, AfterRegistered, AfterUnreachable

\* Steps that leave list and timers alone and announce no new verdict.
LEMMA QuietTimers ==
    ASSUME OnlineIsTimed, LateIsKnown, UNCHANGED <<roster, age, outlasted>>,
           \A p \in Peer : VerdictPending(p)' => VerdictPending(p)
    PROVE  OnlineIsTimed' /\ LateIsKnown'
BY DEF OnlineIsTimed, LateIsKnown, Online, Listed

LEMMA NextTimers ==
    ASSUME TypeOK, OnlineIsTimed, LateIsKnown, [Next]_vars
    PROVE  OnlineIsTimed' /\ LateIsKnown'
<1> USE DEF NoEntry
<1>0. /\ \A p \in Peer : roster[p] \in Entry /\ age[p] \in NoEntry .. Timeout + 1
      /\ Timeout \in Nat /\ chan \in Seq(Event)
  BY Constants DEF TypeOK, Rosters
<1>1. ASSUME NEW p \in Peer, NEW A \in SUBSET Addr, Announce(p, A)
      PROVE  OnlineIsTimed' /\ LateIsKnown'
  <2>1. \A q \in Peer : VerdictPending(q)' => VerdictPending(q)
    BY <1>1, AppendQueue, Constants
       DEF Announce, Event, VerdictPending, IsVerdict, Seen, threadVars, probeVars
  <2> QED
    BY <1>1, <2>1, QuietTimers DEF Announce, timerVars
<1>2. ASSUME NEW p \in Peer, Goodbye(p)
      PROVE  OnlineIsTimed' /\ LateIsKnown'
  <2>1. \A q \in Peer : VerdictPending(q)' => VerdictPending(q)
    BY <1>2, AppendQueue, Constants
       DEF Goodbye, Event, VerdictPending, IsVerdict, Lost, threadVars, probeVars
  <2> QED
    BY <1>2, <2>1, QuietTimers DEF Goodbye, timerVars
<1>3. CASE NotifyScope
  <2>1. \A q \in Peer : VerdictPending(q)' => VerdictPending(q)
    BY <1>3, AppendQueue, Constants
       DEF NotifyScope, VerdictPending, IsVerdict, ScopeChanged, threadVars, probeVars
  <2> QED
    BY <1>3, <2>1, QuietTimers DEF NotifyScope, timerVars
<1>4. ASSUME NEW p \in Peer, NEW ok \in BOOLEAN, ProbeFinish(p, ok)
      PROVE  OnlineIsTimed' /\ LateIsKnown'
  <2> DEFINE e == IF ok THEN Registered(p) ELSE UnreachableEv(p)
  <2>1. e \in Event /\ e.fp = p /\ chan' = Append(chan, e)
    BY <1>4, Constants DEF ProbeFinish, Event, Registered, UnreachableEv
  <2>2. ASSUME NEW q \in Peer, VerdictPending(q)'
        PROVE  VerdictPending(q)
    <3> HIDE DEF e
    <3>1. CASE q = p
      BY <1>4, <3>1 DEF ProbeFinish, VerdictPending
    <3>2. CASE q # p
      <4>1. probe'[q] = probe[q] /\ ev' = ev /\ ~IsVerdict(e, q)
        BY <1>4, <2>1, <3>2 DEF ProbeFinish, IsVerdict, threadVars, TypeOK
      <4> QED
        BY <2>1, <2>2, <4>1, AppendQueue DEF VerdictPending
    <3> QED
      BY <3>1, <3>2
  <2> QED
    BY <1>4, <2>2, QuietTimers DEF ProbeFinish, timerVars
<1>5. ASSUME NEW p \in Peer, ProbeExit(p)
      PROVE  OnlineIsTimed' /\ LateIsKnown'
  <2>1. \A q \in Peer : VerdictPending(q)' => VerdictPending(q)
    BY <1>5 DEF ProbeExit, VerdictPending, threadVars, TypeOK
  <2> QED
    BY <1>5, <2>1, QuietTimers DEF ProbeExit, timerVars
<1>6. CASE UNCHANGED <<roster, age, outlasted, chan, ev, probe>>
  BY <1>6, QuietTimers DEF VerdictPending
<1>7. CASE Recv
  <2>1. \A q \in Peer : VerdictPending(q)' => VerdictPending(q)
    BY <1>7, RecvQueue DEF Recv, VerdictPending, probeVars
  <2> QED
    BY <1>7, <2>1, QuietTimers DEF Recv, timerVars
<1>8. CASE DropSeen
  <2>1. \A q \in Peer : VerdictPending(q)' => VerdictPending(q)
    BY <1>8 DEF DropSeen, VerdictPending, IsVerdict, NoEvent, probeVars
  <2> QED
    BY <1>8, <2>1, QuietTimers DEF DropSeen, timerVars
<1>9. CASE HandleScopeChanged
  <2> SUFFICES ASSUME NEW p \in Peer
               PROVE  /\ Online(p)' => age'[p] # NoEntry \/ p \in outlasted'
                      /\ age'[p] # NoEntry => Listed(roster, p)'
                      /\ VerdictPending(p)' /\ Listed(roster, p)' => age'[p] # NoEntry \/ p \in outlasted'
    BY DEF OnlineIsTimed, LateIsKnown
  <2>1. /\ roster'[p] = IF PeerInScope(roster[p], evScope) THEN roster[p] ELSE Absent
        /\ age'[p] = IF roster'[p] = Absent THEN NoEntry ELSE age[p]
        /\ outlasted' = {q \in outlasted : roster'[q] # Absent}
        /\ VerdictPending(p)' => VerdictPending(p)
    BY <1>9 DEF HandleScopeChanged, RetainInScope, VerdictPending, IsVerdict, NoEvent, probeVars
  <2>2. CASE roster'[p] = Absent
    BY <2>1, <2>2 DEF Online, Listed, Absent
  <2>3. CASE roster'[p] = roster[p] /\ roster'[p] # Absent
    BY <1>0, <2>1, <2>3, EntryStates DEF Online, Listed, OnlineIsTimed, LateIsKnown
  <2> QED
    BY <2>1, <2>2, <2>3
<1>10. CASE HandleSeen
  <2> DEFINE filtered == Seen(ev.fp, ev.addrs \cap evScope)
  <2>1. /\ filtered \in PeerEvent /\ filtered.fp = ev.fp /\ filtered.type = "Seen"
        /\ filtered.addrs \in SUBSET Addr /\ ev.fp \in Peer
        /\ roster' = Apply(roster, filtered)
    BY <1>10, Constants DEF TypeOK, HandleSeen, PeerEvent, NoEvent, Seen
  <2>2. \A p \in Peer : probe'[p] = probe[p] \/ p = ev.fp
    BY <1>10 DEF HandleSeen, probeVars, TypeOK
  <2>3. /\ age'[ev.fp] = 0 /\ \A p \in Peer : p # ev.fp => age'[p] = age[p]
      /\ outlasted' = outlasted \ {ev.fp}
    BY <1>10, <2>1 DEF HandleSeen, TypeOK
  <2> HIDE DEF filtered
  <2>4. \A p \in Peer : roster'[p] = IF p = ev.fp THEN AfterEvent(roster[p], filtered) ELSE roster[p]
    BY <2>1, ApplyStep DEF TypeOK
  <2>5. ASSUME NEW p \in Peer
        PROVE  /\ Online(p)' => age'[p] # NoEntry \/ p \in outlasted'
               /\ age'[p] # NoEntry => Listed(roster, p)'
               /\ VerdictPending(p)' /\ Listed(roster, p)' => age'[p] # NoEntry \/ p \in outlasted'
    <3>1. CASE p = ev.fp
      <4>1. AfterEvent(roster[p], filtered) = AfterSeen(roster[p], filtered.addrs)
        BY <2>1 DEF AfterEvent
      <4> QED
        BY <1>0, <2>1, <2>3, <2>4, <3>1, <4>1, EntryStates DEF Listed
    <3>2. CASE p # ev.fp
      <4>1. VerdictPending(p)' => VerdictPending(p)
        BY <1>10, <2>2, <3>2 DEF HandleSeen, VerdictPending, IsVerdict, NoEvent
      <4> QED
        BY <2>3, <2>4, <3>2, <4>1 DEF Online, Listed, OnlineIsTimed, LateIsKnown
    <3> QED
      BY <3>1, <3>2
  <2> QED
    BY <2>5 DEF OnlineIsTimed, LateIsKnown
<1>11. CASE HandleVerdict
  <2>1. ev \in PeerEvent /\ ev.type \in {"Lost", "Registered", "Unreachable"}
    BY <1>11, Constants DEF TypeOK, HandleVerdict, NoEvent
  <2>2. \A p \in Peer : roster'[p] = IF p = ev.fp THEN AfterEvent(roster[p], ev) ELSE roster[p]
    BY <1>11, <2>1, ApplyStep DEF TypeOK, HandleVerdict
  <2>3. ASSUME NEW p \in Peer
        PROVE  /\ Online(p)' => age'[p] # NoEntry \/ p \in outlasted'
               /\ age'[p] # NoEntry => Listed(roster, p)'
               /\ VerdictPending(p)' /\ Listed(roster, p)' => age'[p] # NoEntry \/ p \in outlasted'
    <3>1. age'[p] = age[p] /\ outlasted' = outlasted /\ (VerdictPending(p)' => VerdictPending(p))
      BY <1>11 DEF HandleVerdict, timerVars, VerdictPending, IsVerdict, NoEvent, probeVars
    <3>2. CASE p = ev.fp /\ ev.type = "Lost"
      <4>1. roster'[p] = AfterLost(roster[p])
        BY <2>2, <3>2 DEF AfterEvent
      <4> QED
        BY <1>0, <3>1, <4>1, EntryStates DEF Online, Listed, OnlineIsTimed, LateIsKnown
    <3>3. CASE p = ev.fp /\ ev.type # "Lost"
      <4>1. roster'[p] \in {AfterRegistered(roster[p]), AfterUnreachable(roster[p])}
        BY <2>1, <2>2, <3>3 DEF AfterEvent
      <4>2. VerdictPending(p)
        BY <2>1, <3>3 DEF VerdictPending, IsVerdict
      <4>3. Listed(roster, p)' <=> Listed(roster, p)
        BY <1>0, <4>1, EntryStates DEF Listed
      <4>4. Online(p)' => Listed(roster, p)'
        BY DEF Online, Listed
      <4> QED
        BY <1>0, <3>1, <4>2, <4>3, <4>4 DEF OnlineIsTimed, LateIsKnown
    <3>4. CASE p # ev.fp
      BY <2>2, <3>1, <3>4 DEF Online, Listed, OnlineIsTimed, LateIsKnown
    <3> QED
      BY <3>2, <3>3, <3>4
  <2> QED
    BY <2>3 DEF OnlineIsTimed, LateIsKnown
<1>12. CASE ScanStale
  <2>1. ASSUME NEW p \in Peer
        PROVE  /\ Online(p)' => age'[p] # NoEntry \/ p \in outlasted'
               /\ age'[p] # NoEntry => Listed(roster, p)'
               /\ VerdictPending(p)' /\ Listed(roster, p)' => age'[p] # NoEntry \/ p \in outlasted'
    <3>1. /\ roster'[p] = IF p \in Stale THEN AfterLost(roster[p]) ELSE roster[p]
          /\ age'[p] = IF p \in Stale THEN NoEntry ELSE age[p]
          /\ outlasted' = outlasted \cup {q \in Stale : VerdictPending(q)}
          /\ VerdictPending(p)' <=> VerdictPending(p)
      BY <1>12 DEF ScanStale, VerdictPending, threadVars, probeVars
    <3>2. CASE p \in Stale
      <4>1. VerdictPending(p) => p \in outlasted'
        BY <3>1, <3>2
      <4>2. ~Online(p)' /\ age'[p] = NoEntry
        BY <1>0, <3>1, <3>2, EntryStates DEF Online
      <4> QED
        BY <3>1, <4>1, <4>2
    <3>3. CASE p \notin Stale
      BY <3>1, <3>3 DEF Online, Listed, OnlineIsTimed, LateIsKnown
    <3> QED
      BY <3>2, <3>3
  <2> QED
    BY <2>1 DEF OnlineIsTimed, LateIsKnown
<1>13. CASE Tick
  <2>1. ASSUME NEW p \in Peer
        PROVE  /\ Online(p)' => age'[p] # NoEntry \/ p \in outlasted'
               /\ age'[p] # NoEntry => Listed(roster, p)'
               /\ VerdictPending(p)' /\ Listed(roster, p)' => age'[p] # NoEntry \/ p \in outlasted'
    <3>1. /\ age'[p] = IF age[p] \in 0 .. Timeout THEN age[p] + 1 ELSE age[p]
          /\ outlasted' = outlasted
          /\ VerdictPending(p)' <=> VerdictPending(p)
          /\ Listed(roster, p)' <=> Listed(roster, p)
          /\ Online(p)' <=> Online(p)
      BY <1>13 DEF Tick, VerdictPending, threadVars, probeVars, Online, Listed
    <3>2. age'[p] # NoEntry <=> age[p] # NoEntry
      BY <1>0, <3>1
    <3> QED
      BY <3>1, <3>2 DEF OnlineIsTimed, LateIsKnown
  <2> QED
    BY <2>1 DEF OnlineIsTimed, LateIsKnown
<1>14. CASE Restart
  <2>1. ASSUME NEW p \in Peer
        PROVE  ~Online(p)' /\ age'[p] = NoEntry /\ ~VerdictPending(p)'
    <3>1. roster'[p].state \in {"absent", "offline"}
      BY <1>14, SeededStep, Constants DEF Restart, Fresh, TypeOK
    <3>2. probe'[p] = "none" /\ DOMAIN chan' = {} /\ ev' = NoEvent /\ age'[p] = NoEntry
      BY <1>14 DEF Restart, Fresh
    <3> QED
      BY <3>1, <3>2 DEF Online, VerdictPending, IsVerdict, NoEvent
  <2> QED
    BY <2>1 DEF OnlineIsTimed, LateIsKnown
<1>15. CASE PublishScope \/ PollTimeout \/ (\E s \in Scopes : SaveSettings(s)) \/ UNCHANGED vars
            \/ \E p \in Peer : Die(p) \/ Revive(p)
  BY <1>6, <1>15 DEF PublishScope, SaveSettings, Die, Revive, PollTimeout, vars, timerVars, threadVars, probeVars
<1> QED
  BY <1>1, <1>2, <1>3, <1>4, <1>5, <1>7, <1>8, <1>9, <1>10, <1>11, <1>12, <1>13, <1>14, <1>15
     DEF Next, Discovery, Power, Handle, Probing, Command

\* Every peer shown as online can still time out, or the scan timed it out while
\* its dial-back was under way.
THEOREM TimersCorrect == Spec => []OnlineIsTimed
<1>1. Init => OnlineIsTimed /\ LateIsKnown
  BY DEF Init, OnlineIsTimed, LateIsKnown, Online, Listed, Absent, NoEntry
<1>2. TypeOK /\ OnlineIsTimed /\ LateIsKnown /\ [Next]_vars => OnlineIsTimed' /\ LateIsKnown'
  BY NextTimers
<1> QED
  BY <1>1, <1>2, TypeCorrect, PTL DEF Spec
=============================================================================
