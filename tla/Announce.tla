------------------------------ MODULE Announce ------------------------------
(***************************************************************************)
(* UDP announcements (bigpaw-core/src/discovery/announce.rs) and those who  *)
(* call them (core.rs): every device announces itself in growing intervals  *)
(* and whenever its interfaces or its network range change, answers the     *)
(* announcements of others at a limited rate, and wakes the devices it      *)
(* remembers when it starts.                                                *)
(*                                                                         *)
(* Time is counted in steps of the send loop (SLEEP_STEP).  The loops of    *)
(* all devices take their step in each, in any order; a datagram arrives,   *)
(* or is lost, within the step it was sent in.                              *)
(***************************************************************************)
EXTENDS Integers, SequencesExt, FiniteSets

CONSTANTS
    Device,
    Nobody,      \* every address no device has
    Iface,
    Subnet,      \* the addresses behind each interface
    Snapshots,   \* what a registry may publish: [ifs, scope]
    Saved,       \* what it may publish at the start
    Windows,     \* STARTUP_BACKOFF and then PERIODIC_INTERVAL, in steps
    MinSteps,    \* MIN_SEND_BATCH_INTERVAL
    ReplySteps,  \* REPLY_RATE_LIMIT
    MaxHistory,  \* MAX_HISTORY
    Restless,    \* bound: the devices that change their settings or stop
    MaxChanges,  \* bound: snapshots published, names and groups set, devices shut down
    MaxFaults    \* bound: datagrams lost and joins that fail

Address == Device \cup {Nobody}

ASSUME SubnetAssumption == Subnet \in [Iface -> SUBSET Address]
ASSUME SnapshotAssumption == Saved \subseteq Snapshots /\ Snapshots \subseteq [ifs: SUBSET Iface, scope: SUBSET Address]
ASSUME TimeAssumption ==
    /\ MinSteps \in Nat \ {0} /\ ReplySteps \in Nat \ {0} /\ Windows \in Seq(Nat)
    /\ Windows # <<>>
    /\ \A r \in DOMAIN Windows : Windows[r] \in MinSteps .. Windows[Len(Windows)]
ASSUME BoundAssumption == Restless \subseteq Device

VARIABLES
    snap,     \* the snapshot each registry has published
    loop,     \* the send loop: [at, round, left, since, pending, seen, joined]
    phase,    \* the service: on, stopping (its stop flag is set), off
    name,     \* [nick, group] as the settings give them
    buf,      \* announce_buf: the encoded announcement
    quiet,    \* last_reply: steps until d answers e again
    todo,     \* the devices the history thread has still to wake
    net,      \* datagrams on their way
    heard,    \* what each device was told last of each other
    history,  \* history_ips.json, the latest address first
    lag,      \* history of the batches: [steps] since a snapshot none has followed,
              \* [missed] a window ended too early for it, [early] one was sent too early
    budget    \* what is left of each bound

vars == <<snap, loop, phase, name, buf, quiet, todo, net, heard, history, lag, budget>>

Names  == [nick: Nat, group: Nat]
NoName == [nick |-> 0, group |-> 0]
First  == [nick |-> 1, group |-> 1]
NoLag  == [steps |-> 0, missed |-> FALSE, early |-> FALSE]

Less(b) == [budget EXCEPT ![b] = @ - 1]

Others(d) == Device \ {d}

\* record, of HistoryStore: no address twice, the latest first, the oldest out.
Record(ips, ip) ==
    LET moved == <<ip>> \o Remove(ips, ip)
    IN SubSeq(moved, 1, IF Len(moved) > MaxHistory THEN MaxHistory ELSE Len(moved))

-----------------------------------------------------------------------------
(* Who is sent to: send_plans, in sets of addresses. *)

Limited(s)   == s.scope # Address
Covers(s, i) == Subnet[i] \subseteq s.scope

\* The interfaces a batch leaves by as multicast and broadcast.
Dual(s) == {i \in s.ifs : Covers(s, i)}

\* The addresses a batch is sent to one by one.
OneByOne(s) ==
    UNION {Subnet[i] \cap s.scope : i \in s.ifs \ Dual(s)}
    \cup (IF Limited(s) THEN s.scope \ UNION {Subnet[i] : i \in s.ifs} ELSE {})

\* Who hears a batch: a multicast is heard by those who joined.
Batch(d) ==
    LET copy(e, via) == [from |-> d, to |-> e, via |-> via, name |-> buf[d], hop |-> 0]
        near         == {e \in Others(d) : \E i \in Dual(snap[d]) : e \in Subnet[i]}
    IN {copy(e, "broadcast") : e \in near}
       \cup {copy(e, "multicast") :
                e \in {f \in near : \E i \in Dual(snap[d]) : f \in Subnet[i] /\ i \in loop[f].joined}}
       \cup {copy(e, "unicast") : e \in OneByOne(snap[d]) \cap Others(d)}

-----------------------------------------------------------------------------
StartedLoop(joined) ==
    [at |-> "wake", round |-> 1, left |-> Windows[1], since |-> MinSteps,
     pending |-> FALSE, seen |-> TRUE, joined |-> joined]

Init ==
    /\ snap \in [Device -> Saved]
    /\ \E failed \in SUBSET Iface :
          /\ loop = [d \in Device |-> StartedLoop(snap[d].ifs \ failed)]
          /\ budget = [changes |-> MaxChanges, faults |-> MaxFaults - Cardinality(failed)]
          /\ Cardinality(failed) <= MaxFaults
    /\ phase = [d \in Device |-> "on"]
    /\ name = [d \in Device |-> First] /\ buf = name
    /\ quiet = [d \in Device |-> [e \in Device |-> 0]]
    /\ todo = [d \in Device |-> {}]
    /\ net = {}
    /\ heard = [d \in Device |-> [e \in Device |-> NoName]]
    /\ history = [d \in Device |-> <<>>]
    /\ lag = [d \in Device |-> NoLag]

-----------------------------------------------------------------------------
(* The send loop. *)

SendAllowed(d) == loop[d].since >= MinSteps

\* sync_multicast: an interface that fails to join is left out.
Synced(d, failed) ==
    /\ failed \subseteq snap[d].ifs \ loop[d].joined
    /\ Cardinality(failed) <= budget.faults
    /\ budget' = [budget EXCEPT !.faults = @ - Cardinality(failed)]

Joined(d, failed) == snap[d].ifs \ failed

Send(d) == net' = net \cup Batch(d) /\ lag' = [lag EXCEPT ![d] = [NoLag EXCEPT !.early = lag[d].early \/ loop[d].since < MinSteps]]
Hold    == UNCHANGED <<net, lag>>
Miss(d) == net' = net /\ lag' = [lag EXCEPT ![d].missed = lag[d].steps > 0]

Awake(d) == loop[d].at = "wake" /\ phase[d] = "on"

\* A new snapshot, and the last batch is long enough ago.
NoticeSend(d) ==
    /\ Awake(d) /\ ~loop[d].seen /\ SendAllowed(d)
    /\ \E failed \in SUBSET Iface :
          /\ Synced(d, failed)
          /\ loop' = [loop EXCEPT ![d].joined = Joined(d, failed), ![d].seen = TRUE,
                                  ![d].since = 0, ![d].pending = FALSE, ![d].at = "asleep"]
    /\ Send(d)
    /\ UNCHANGED <<snap, phase, name, buf, quiet, todo, heard, history>>

\* (mutation) A batch that comes too early is forgotten.
NoticeForget(d) ==
    /\ Awake(d) /\ ~loop[d].seen /\ ~SendAllowed(d)
    /\ \E failed \in SUBSET Iface :
          /\ Synced(d, failed)
          /\ loop' = [loop EXCEPT ![d].joined = Joined(d, failed), ![d].seen = TRUE, ![d].at = "asleep"]
    /\ Hold
    /\ UNCHANGED <<snap, phase, name, buf, quiet, todo, heard, history>>

\* A new snapshot too early for a batch.
NoticeHold(d) ==
    /\ Awake(d) /\ ~loop[d].seen /\ ~SendAllowed(d)
    /\ \E failed \in SUBSET Iface :
          /\ Synced(d, failed)
          /\ loop' = [loop EXCEPT ![d].joined = Joined(d, failed), ![d].seen = TRUE,
                                  ![d].pending = TRUE, ![d].at = "asleep"]
    /\ Hold
    /\ UNCHANGED <<snap, phase, name, buf, quiet, todo, heard, history>>

\* The batch that had to wait.
SendPending(d) ==
    /\ Awake(d) /\ loop[d].seen /\ loop[d].pending /\ SendAllowed(d)
    /\ loop' = [loop EXCEPT ![d].since = 0, ![d].pending = FALSE, ![d].at = "asleep"]
    /\ Send(d)
    /\ UNCHANGED <<snap, phase, name, buf, quiet, todo, heard, history, budget>>

\* Nothing to do but to sleep; a loop that is asleep already has done it.
Idle(d) == Awake(d) /\ loop[d].seen /\ ~(loop[d].pending /\ SendAllowed(d))

NextRound(d) == IF loop[d].round < Len(Windows) THEN loop[d].round + 1 ELSE loop[d].round

\* The loop at the end of a window: `pending' was a variable of the window.
Turned(d, joined, since) ==
    loop' = [loop EXCEPT ![d].joined = joined, ![d].since = since, ![d].pending = FALSE,
                         ![d].round = NextRound(d), ![d].left = Windows[NextRound(d)], ![d].at = "wake"]

\* (mutation) Nothing is joined again at the end of a window.
EdgeUnsynced(d) ==
    /\ loop[d].at = "edge"
    /\ IF SendAllowed(d) THEN Turned(d, loop[d].joined, 0) /\ Send(d)
                         ELSE Turned(d, loop[d].joined, loop[d].since) /\ Miss(d)
    /\ UNCHANGED <<snap, phase, name, buf, quiet, todo, heard, history, budget>>

\* resync_and_maybe_send; the change mark stays as it is.
Edge(d) ==
    /\ loop[d].at = "edge"
    /\ \E failed \in SUBSET Iface :
          /\ Synced(d, failed)
          /\ IF SendAllowed(d) THEN Turned(d, Joined(d, failed), 0) /\ Send(d)
                               ELSE Turned(d, Joined(d, failed), loop[d].since) /\ Miss(d)
    /\ UNCHANGED <<snap, phase, name, buf, quiet, todo, heard, history>>

\* The stop flag is looked at before each step of a window only.
LoopStops(d) ==
    /\ phase[d] = "stopping" /\ loop[d].at = "wake"
    /\ loop' = [loop EXCEPT ![d].at = "stopped"]
    /\ UNCHANGED <<snap, phase, name, buf, quiet, todo, net, heard, history, lag, budget>>

Sooner(n) == IF n = 0 THEN 0 ELSE n - 1

\* Bound of the history variable: one above the longest wait.
LongestWait == Windows[Len(Windows)] + MinSteps + 2

\* One step of time: every loop has done what this step asked of it.
Tick ==
    /\ \A d \in Device : loop[d].at \in {"asleep", "stopped"} \/ Idle(d)
    /\ net = {}
    /\ loop' = [d \in Device |->
                  IF loop[d].at = "stopped" THEN loop[d]
                  ELSE [loop[d] EXCEPT !.left = @ - 1, !.at = IF loop[d].left = 1 THEN "edge" ELSE "wake",
                                       !.since = IF @ < MinSteps THEN @ + 1 ELSE @]]
    /\ quiet' = [d \in Device |-> [e \in Device |-> Sooner(quiet[d][e])]]
    /\ lag' = [d \in Device |-> IF lag[d].steps \in 1 .. LongestWait - 1
                                THEN [lag[d] EXCEPT !.steps = @ + 1] ELSE lag[d]]
    /\ UNCHANGED <<snap, phase, name, buf, todo, net, heard, history, budget>>

-----------------------------------------------------------------------------
(* The receive loop. *)

\* (mutation) The time of an answer is not written down.
AnswerUnlimited(p) ==
    LET d == p.to e == p.from
    IN /\ p \in net /\ phase[d] # "off" /\ e \in snap[d].scope
       /\ heard' = [heard EXCEPT ![d][e] = p.name]
       /\ quiet[d][e] = 0 /\ snap[d].ifs # {}
       /\ net' = (net \ {p}) \cup {[from |-> d, to |-> e, via |-> "unicast", name |-> buf[d], hop |-> p.hop + 1]}
       /\ UNCHANGED <<snap, loop, phase, name, buf, quiet, todo, history, lag, budget>>

\* An announcement that is answered.
Answer(p) ==
    LET d == p.to e == p.from
    IN /\ p \in net /\ phase[d] # "off" /\ e \in snap[d].scope
       /\ heard' = [heard EXCEPT ![d][e] = p.name]
       /\ quiet[d][e] = 0 /\ snap[d].ifs # {}
       /\ quiet' = [quiet EXCEPT ![d][e] = ReplySteps]
       /\ net' = (net \ {p}) \cup {[from |-> d, to |-> e, via |-> "unicast", name |-> buf[d], hop |-> p.hop + 1]}
       /\ UNCHANGED <<snap, loop, phase, name, buf, todo, history, lag, budget>>

\* One that is not: too soon after the last answer, or every interface is excluded.
Hear(p) ==
    LET d == p.to e == p.from
    IN /\ p \in net /\ phase[d] # "off" /\ e \in snap[d].scope
       /\ heard' = [heard EXCEPT ![d][e] = p.name]
       /\ quiet[d][e] > 0 \/ snap[d].ifs = {}
       /\ net' = net \ {p}
       /\ UNCHANGED <<snap, loop, phase, name, buf, quiet, todo, history, lag, budget>>

\* From outside the range, or nobody listens any more.
Ignore(p) ==
    /\ p \in net /\ (phase[p.to] # "on" \/ p.from \notin snap[p.to].scope)
    /\ net' = net \ {p}
    /\ UNCHANGED <<snap, loop, phase, name, buf, quiet, todo, heard, history, lag, budget>>

Lose(p) ==
    /\ p \in net /\ budget.faults > 0
    /\ net' = net \ {p} /\ budget' = Less("faults")
    /\ UNCHANGED <<snap, loop, phase, name, buf, quiet, todo, heard, history, lag>>

-----------------------------------------------------------------------------
(* The callers. *)

\* The history thread: poke looks at the range only.
Poke(d, e) ==
    /\ phase[d] = "on" /\ e \in todo[d]
    /\ todo' = [todo EXCEPT ![d] = @ \ {e}]
    /\ net' = IF e \in snap[d].scope
              THEN net \cup {[from |-> d, to |-> e, via |-> "unicast", name |-> buf[d], hop |-> 0]}
              ELSE net
    /\ UNCHANGED <<snap, loop, phase, name, buf, quiet, heard, history, lag, budget>>

\* The registry publishes another snapshot.
Publish(d) ==
    /\ phase[d] = "on" /\ budget.changes > 0
    /\ \E s \in Snapshots \ {snap[d]} : snap' = [snap EXCEPT ![d] = s]
    /\ loop' = [loop EXCEPT ![d].seen = FALSE]
    /\ lag' = [lag EXCEPT ![d].steps = IF @ = 0 THEN 1 ELSE @]
    /\ budget' = Less("changes")
    /\ UNCHANGED <<phase, name, buf, quiet, todo, net, heard, history>>

\* A device that was heard has been dialled back: its address is remembered
\* (spawn_probe).
Remember(d, e) ==
    /\ phase[d] = "on" /\ heard[d][e] # NoName /\ ~Contains(history[d], e)
    /\ history' = [history EXCEPT ![d] = Record(@, e)]
    /\ UNCHANGED <<snap, loop, phase, name, buf, quiet, todo, net, heard, lag, budget>>

\* set_nick, called by apply_settings for a changed nickname.
SetNick(d) ==
    /\ phase[d] = "on" /\ budget.changes > 0
    /\ name' = [name EXCEPT ![d].nick = @ + 1]
    /\ buf' = [buf EXCEPT ![d] = name'[d]]
    /\ budget' = Less("changes")
    /\ UNCHANGED <<snap, loop, phase, quiet, todo, net, heard, history, lag>>

\* (mutation) The announcement is not encoded again.
SetGroupOnly(d) ==
    /\ phase[d] = "on" /\ budget.changes > 0
    /\ name' = [name EXCEPT ![d].group = @ + 1]
    /\ budget' = Less("changes")
    /\ UNCHANGED <<snap, loop, phase, buf, quiet, todo, net, heard, history, lag>>

\* set_group.
SetGroup(d) ==
    /\ phase[d] = "on" /\ budget.changes > 0
    /\ name' = [name EXCEPT ![d].group = @ + 1]
    /\ buf' = [buf EXCEPT ![d] = name'[d]]
    /\ budget' = Less("changes")
    /\ UNCHANGED <<snap, loop, phase, quiet, todo, net, heard, history, lag>>

\* shutdown: the service is taken out of the core, and its threads are joined.
Stop(d) ==
    /\ phase[d] = "on" /\ budget.changes > 0
    /\ phase' = [phase EXCEPT ![d] = "stopping"]
    /\ todo' = [todo EXCEPT ![d] = {}]
    /\ lag' = [lag EXCEPT ![d].steps = 0, ![d].missed = FALSE]
    /\ budget' = Less("changes")
    /\ UNCHANGED <<snap, loop, name, buf, quiet, net, heard, history>>

Off(d) ==
    /\ phase[d] = "stopping" /\ loop[d].at = "stopped"
    /\ phase' = [phase EXCEPT ![d] = "off"]
    /\ loop' = [loop EXCEPT ![d].joined = {}]
    /\ UNCHANGED <<snap, name, buf, quiet, todo, net, heard, history, lag, budget>>

\* The program starts again, which takes longer than a step; those it has
\* heard are in its history.
Start(d) ==
    /\ phase[d] = "off" /\ net = {}
    /\ phase' = [phase EXCEPT ![d] = "on"]
    /\ \E failed \in SUBSET snap[d].ifs :
          /\ Cardinality(failed) <= budget.faults
          /\ budget' = [budget EXCEPT !.faults = @ - Cardinality(failed)]
          /\ loop' = [loop EXCEPT ![d] = StartedLoop(snap[d].ifs \ failed)]
    /\ buf' = [buf EXCEPT ![d] = name[d]]
    /\ quiet' = [quiet EXCEPT ![d] = [e \in Device |-> 0]]
    /\ todo' = [todo EXCEPT ![d] = ToSet(history[d])]
    /\ UNCHANGED <<snap, name, net, heard, history, lag>>

-----------------------------------------------------------------------------
LoopStep(d) ==
    \/ NoticeSend(d) \/ NoticeHold(d) \/ SendPending(d) \/ Edge(d) \/ LoopStops(d)

Receive(p) == Answer(p) \/ Hear(p) \/ Ignore(p)

Runs ==
    \/ Tick
    \/ \E d \in Device : LoopStep(d)
    \/ \E p \in net : Receive(p)

Next ==
    \/ Runs
    \/ \E p \in net : Lose(p)
    \/ \E d, e \in Device : Poke(d, e)
    \/ \E d \in Restless, e \in Device : Remember(d, e)
    \/ \E d \in Restless : Publish(d) \/ SetNick(d) \/ SetGroup(d) \/ Stop(d) \/ Off(d) \/ Start(d)

Spec == Init /\ [][Next]_vars

\* The threads keep running, and a device that can finish stopping does.
Live == Spec /\ WF_vars(Runs) /\ \A d \in Device : WF_vars(Off(d))

-----------------------------------------------------------------------------
(* What must hold. *)

\* Two batches of a device are at least MIN_SEND_BATCH_INTERVAL apart, whatever
\* sends them (announce.rs:230-239: the batch at the end of a window once was
\* not held back); and a change of interfaces or range is announced that fast,
\* unless a window ended in between, and then with the end of the next window
\* at the latest (sleep_and_watch_ifaces, whose `pending_send' ends with it).
Pace ==
    \A d \in Device :
        /\ ~lag[d].early
        /\ lag[d].steps > MinSteps + 1 => lag[d].missed
        /\ lag[d].steps < LongestWait

\* An announcement causes an answer and an answer to that, and nothing more:
\* two devices never keep answering each other (recv_loop, last_reply).
NoReplyStorm == \A p \in net : p.hop <= 2

\* An interface that failed to join the multicast group is joined in the end,
\* also when no snapshot is published any more (resync_and_maybe_send).
MembershipHeals == <>[](\A d \in Device : phase[d] = "on" => loop[d].joined = snap[d].ifs)

\* d listens to e, and e's batches reach d.
Hears(d, e) ==
    /\ phase[d] = "on" /\ phase[e] = "on" /\ e \in snap[d].scope
    /\ \/ \E i \in Dual(snap[e]) : d \in Subnet[i]
       \/ d \in OneByOne(snap[e])

\* Nickname and group of a device in reach are known in the end as its settings
\* have them, whatever was lost, answered late or overtaken (rebuild_announce_buf).
NameSpreads == <>[](\A d \in Device : \A e \in Others(d) : Hears(d, e) => heard[d][e] = name[e])

-----------------------------------------------------------------------------
(* What the comments say. *)

\* announce.rs:250-254: a batch held back by the rate limit is sent at most
\* MIN_SEND_BATCH_INTERVAL later, not at the end of the window.
PromptlyAnnounced == \A d \in Device : lag[d].steps <= MinSteps + 1

\* announce.rs:201-203, 405-410: with every interface excluded the device is
\* silent, it neither announces itself nor answers.
HiddenIsSilent ==
    [][\A d \in Device : snap[d].ifs = {} => \A p \in net' \ net : p.from # d]_vars

=============================================================================
