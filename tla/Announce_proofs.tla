--------------------------- MODULE Announce_proofs ---------------------------
(***************************************************************************)
(* Proofs about the UDP announcements: two devices never keep answering     *)
(* each other, batches are neither too early nor too late, the multicast     *)
(* groups follow the registry, and the names the settings.                  *)
(***************************************************************************)
EXTENDS Announce, TLAPS

-----------------------------------------------------------------------------
(* Answers.  While a datagram that is an answer is on its way, whoever sent it *)
(* has answered within this step, and is quiet; an answer to an answer has two *)
(* such devices behind it, so that neither answers a third time.               *)

QuietTyped == quiet \in [Device -> [Device -> Nat]]

AnswerIsLimited(p) ==
    /\ p.from \in Device /\ p.to \in Device /\ p.hop \in 0 .. 2
    /\ p.hop >= 1 => quiet[p.from][p.to] > 0
    /\ p.hop = 2 => quiet[p.to][p.from] > 0

StormInv == QuietTyped /\ \A p \in net : AnswerIsLimited(p)


\* An announcement that is not an answer.
Unasked(p) == p.from \in Device /\ p.to \in Device /\ p.hop = 0

LEMMA QuietKept ==
    ASSUME StormInv, quiet' = quiet, \A p \in net' : p \in net \/ Unasked(p)
    PROVE  StormInv'
  <1>1. \A p : AnswerIsLimited(p) => AnswerIsLimited(p)'
    BY DEF AnswerIsLimited
  <1>2. \A p : Unasked(p) => AnswerIsLimited(p)'
    BY DEF AnswerIsLimited, Unasked
  <1>. QED  BY <1>1, <1>2 DEF StormInv, QuietTyped

LEMMA BatchIsUnasked == ASSUME NEW d \in Device PROVE \A p \in Batch(d) : Unasked(p)
  BY DEF Batch, Others, Unasked

LEMMA AnswerKeeps == ASSUME StormInv, NEW p \in net, Answer(p) PROVE StormInv'
  <1>. DEFINE d == p.to
              e == p.from
  <1>1. /\ d \in Device /\ e \in Device /\ p.hop \in 0 .. 2
        /\ p.hop >= 1 => quiet[e][d] > 0
        /\ p.hop = 2 => quiet[d][e] > 0
    BY DEF StormInv, AnswerIsLimited
  <1>2. /\ quiet[d][e] = 0 /\ quiet' = [quiet EXCEPT ![d][e] = ReplySteps]
        /\ \E a : a.from = d /\ a.to = e /\ a.hop = p.hop + 1 /\ net' = (net \ {p}) \cup {a}
    BY DEF Answer
  <1>3. ReplySteps \in Nat /\ ReplySteps > 0 /\ quiet \in [Device -> [Device -> Nat]]
    BY TimeAssumption DEF StormInv, QuietTyped
  <1>4. /\ quiet' \in [Device -> [Device -> Nat]]
        /\ quiet'[d][e] = ReplySteps
        /\ \A f, g \in Device : quiet'[f][g] \in {quiet[f][g], ReplySteps}
    BY <1>1, <1>2, <1>3
  <1>5. \A f, g \in Device : quiet[f][g] > 0 => quiet'[f][g] > 0
    BY <1>3, <1>4
  <1>6. p.hop \in {0, 1}
    BY <1>1, <1>2
  <1>7. PICK a : a.from = d /\ a.to = e /\ a.hop = p.hop + 1 /\ net' = (net \ {p}) \cup {a}
    BY <1>2
  <1>8. AnswerIsLimited(a)'
    <2>1. quiet'[d][e] > 0 /\ (p.hop = 1 => quiet'[e][d] > 0)
      BY <1>1, <1>3, <1>4, <1>5
    <2>2. a.hop \in 1 .. 2 /\ (a.hop = 2 => p.hop = 1)
      BY <1>6, <1>7
    <2>. QED  BY <1>1, <1>7, <2>1, <2>2 DEF AnswerIsLimited
  <1>9. \A q \in net : AnswerIsLimited(q)'
    BY <1>5 DEF StormInv, AnswerIsLimited
  <1>. QED  BY <1>4, <1>7, <1>8, <1>9 DEF StormInv, QuietTyped

\* quiet runs out, and is forgotten, only when nothing is on its way.
LEMMA TimeKeepsQuiet ==
    ASSUME StormInv, Tick \/ \E d \in Restless : Start(d)
    PROVE  StormInv'
  <1>1. net' = {}
    BY DEF Tick, Start
  <1>2. QuietTyped'
    <2>1. CASE Tick
      <3>1. \A n \in Nat : Sooner(n) \in Nat
        BY DEF Sooner
      <3>2. quiet' = [d \in Device |-> [e \in Device |-> Sooner(quiet[d][e])]]
        BY <2>1 DEF Tick
      <3>. QED  BY <3>1, <3>2 DEF StormInv, QuietTyped
    <2>2. CASE \E d \in Restless : Start(d)
      BY <2>2, BoundAssumption DEF Start, StormInv, QuietTyped
    <2>. QED  BY <2>1, <2>2
  <1>. QED  BY <1>1, <1>2 DEF StormInv

LEMMA StormStep == ASSUME StormInv, [Next]_vars PROVE StormInv'
  <1>1. CASE Runs
    <2>1. CASE \E d \in Device : LoopStep(d)
      <3>1. PICK d \in Device : LoopStep(d)
        BY <2>1
      <3>2. quiet' = quiet /\ (net' = net \/ net' = net \cup Batch(d))
        BY <3>1 DEF LoopStep, NoticeSend, NoticeHold, SendPending, Edge, LoopStops, Send, Hold, Miss
      <3>. QED  BY <3>2, BatchIsUnasked, QuietKept
    <2>2. CASE \E p \in net : Hear(p) \/ Ignore(p)
      BY <2>2, QuietKept DEF Hear, Ignore
    <2>. QED  BY <1>1, <2>1, <2>2, AnswerKeeps, TimeKeepsQuiet DEF Runs, Receive
  <1>2. CASE \E p \in net : Lose(p)
    BY <1>2, QuietKept DEF Lose
  <1>3. CASE \E d, e \in Device : Poke(d, e)
    BY <1>3, QuietKept DEF Poke, Unasked
  <1>4. CASE \/ \E d \in Restless, e \in Device : Remember(d, e)
             \/ \E d \in Restless : Publish(d) \/ SetNick(d) \/ SetGroup(d) \/ Stop(d) \/ Off(d)
    BY <1>4, QuietKept DEF Remember, Publish, SetNick, SetGroup, Stop, Off
  <1>5. CASE UNCHANGED vars
    BY <1>5, QuietKept DEF vars
  <1>. QED  BY <1>1, <1>2, <1>3, <1>4, <1>5, TimeKeepsQuiet DEF Next

\* An announcement causes an answer and an answer to that, and nothing more (recv_loop,
\* last_reply): for any number of devices, whatever the loops, the users and the losses do.
THEOREM AnswersEnd == Spec => []NoReplyStorm
  <1>1. ASSUME Init PROVE StormInv
    BY <1>1 DEF Init, StormInv, QuietTyped
  <1>2. ASSUME StormInv PROVE NoReplyStorm
    BY <1>2 DEF StormInv, AnswerIsLimited, NoReplyStorm
  <1>. QED  BY <1>1, <1>2, StormStep, PTL DEF Spec

-----------------------------------------------------------------------------
(* The pace of the batches.  l is the loop of a device, g the history of its    *)
(* batches, on whether the service is.                                          *)

LoopType == [at : {"wake", "asleep", "edge", "stopped"}, round : DOMAIN Windows, left : Nat,
             since : 0 .. MinSteps, pending : BOOLEAN, seen : BOOLEAN, joined : SUBSET Iface]
LagType  == [steps : 0 .. LongestWait, missed : BOOLEAN, early : BOOLEAN]

LoopsTyped ==
    /\ loop \in [Device -> LoopType] /\ lag \in [Device -> LagType]
    /\ snap \in [Device -> Snapshots] /\ phase \in [Device -> {"on", "stopping", "off"}]

\* Where the loop is in its window.  It sleeps with the last batch long ago only if it
\* has found nothing to do, and then it counts as awake.
InWindow(l, on) ==
    /\ l.at \in {"wake", "asleep"} => l.left >= 1
    /\ l.at = "edge" => l.left = 0
    /\ l.at = "asleep" => l.since < MinSteps
    /\ l.at = "stopped" => ~on

\* A change that no batch has followed is still to be seen or to be sent, and it is not
\* older than the last batch.
OnItsWay(l, g) ==
    g.steps > 0 /\ ~g.missed =>
        /\ ~l.seen \/ l.pending
        /\ g.steps <= l.since + 1

\* One that a window has ended over goes out when this window ends: by then the last
\* batch is long enough ago.
AtTheNextEdge(l, g) ==
    g.missed =>
        /\ g.steps > 0
        /\ g.steps + l.left <= MinSteps + Windows[l.round]
        /\ l.since + l.left >= MinSteps

InPace(l, g, on) ==
    /\ InWindow(l, on) /\ OnItsWay(l, g) /\ AtTheNextEdge(l, g)
    /\ ~g.early
    /\ ~on => g.steps = 0 /\ ~g.missed

PaceInv == LoopsTyped /\ \A d \in Device : InPace(loop[d], lag[d], phase[d] = "on")

\* Windows are at least as long as batches must be apart, and the last is the longest.
LEMMA WindowsAreLong ==
    /\ MinSteps \in Nat /\ MinSteps >= 1 /\ LongestWait \in Nat
    /\ \A r \in DOMAIN Windows : /\ Windows[r] \in Nat /\ Windows[r] >= MinSteps
                                 /\ Windows[r] + MinSteps + 2 <= LongestWait
  <1>1. DOMAIN Windows = 1 .. Len(Windows) /\ Len(Windows) \in Nat \ {0}
    BY TimeAssumption
  <1>2. \A r \in DOMAIN Windows : Windows[r] \in Nat
    BY TimeAssumption
  <1>. QED  BY <1>1, <1>2, TimeAssumption DEF LongestWait

\* One device has moved on: the others are as they were.
LEMMA OneMoves ==
    ASSUME PaceInv, NEW d \in Device, NEW l \in LoopType, NEW g \in LagType,
           NEW ph \in {"on", "stopping", "off"},
           loop' = [loop EXCEPT ![d] = l], lag' = [lag EXCEPT ![d] = g],
           phase' = [phase EXCEPT ![d] = ph], snap' \in [Device -> Snapshots],
           InPace(l, g, ph = "on")
    PROVE  PaceInv'
  <1>1. LoopsTyped'
    BY DEF PaceInv, LoopsTyped
  <1>2. ASSUME NEW e \in Device PROVE InPace(loop[e], lag[e], phase[e] = "on")'
    <2>1. CASE e = d
      <3>1. loop'[e] = l /\ lag'[e] = g /\ phase'[e] = ph
        BY <2>1 DEF PaceInv, LoopsTyped
      <3>. QED  BY <3>1 DEF InPace, InWindow, OnItsWay, AtTheNextEdge
    <2>2. CASE e # d
      <3>1. loop'[e] = loop[e] /\ lag'[e] = lag[e] /\ phase'[e] = phase[e]
        BY <2>2 DEF PaceInv, LoopsTyped
      <3>2. InPace(loop[e], lag[e], phase[e] = "on")
        BY DEF PaceInv
      <3>. QED  BY <3>1, <3>2 DEF InPace, InWindow, OnItsWay, AtTheNextEdge
    <2>. QED  BY <2>1, <2>2
  <1>. QED  BY <1>1, <1>2 DEF PaceInv

\* Only the loop of a device, or only its history, or neither has moved on.
LEMMA LoopMoves ==
    ASSUME PaceInv, NEW d \in Device, NEW l \in LoopType, NEW g \in LagType,
           loop' = [loop EXCEPT ![d] = l], lag' = [lag EXCEPT ![d] = g],
           UNCHANGED <<snap, phase>>, InPace(l, g, phase[d] = "on")
    PROVE  PaceInv'
  <1>1. phase' = [phase EXCEPT ![d] = phase[d]] /\ phase[d] \in {"on", "stopping", "off"}
    BY DEF PaceInv, LoopsTyped
  <1>2. snap' \in [Device -> Snapshots]
    BY DEF PaceInv, LoopsTyped
  <1>. QED  BY <1>1, <1>2, OneMoves

LEMMA PaceKept == ASSUME PaceInv, UNCHANGED <<loop, lag, phase, snap>> PROVE PaceInv'
  BY DEF PaceInv, LoopsTyped, InPace, InWindow, OnItsWay, AtTheNextEdge

\* A batch is sent when it may be, and follows every change.
Followed(g) == g.steps = 0 /\ ~g.missed /\ ~g.early

LEMMA SendFollows ==
    ASSUME PaceInv, NEW d \in Device, SendAllowed(d), Send(d)
    PROVE  \E g \in LagType : lag' = [lag EXCEPT ![d] = g] /\ Followed(g)
  <1>1. (lag[d].early \/ loop[d].since < MinSteps) = FALSE
    <2>1. loop[d].since \in 0 .. MinSteps /\ MinSteps \in Nat /\ loop[d].since >= MinSteps
      BY WindowsAreLong DEF SendAllowed, PaceInv, LoopsTyped, LoopType
    <2>2. ~lag[d].early
      BY DEF PaceInv, InPace
    <2>. QED  BY <2>1, <2>2
  <1>2. lag' = [lag EXCEPT ![d] = [NoLag EXCEPT !.early = lag[d].early \/ loop[d].since < MinSteps]]
    BY DEF Send
  <1>3. lag' = [lag EXCEPT ![d] = [NoLag EXCEPT !.early = FALSE]]
    BY <1>1, <1>2, Zenon
  <1>4. NoLag \in LagType /\ Followed(NoLag)
    <2>1. 0 \in 0 .. LongestWait
      BY WindowsAreLong
    <2>. QED  BY <2>1 DEF NoLag, LagType, Followed
  <1>5. [NoLag EXCEPT !.early = FALSE] \in LagType /\ Followed([NoLag EXCEPT !.early = FALSE])
    BY <1>4 DEF LagType, Followed
  <1>. QED  BY <1>3, <1>5

\* An interface that is joined is one of the registry's.
LEMMA JoinedTyped ==
    ASSUME PaceInv, NEW d \in Device, NEW failed
    PROVE  Joined(d, failed) \in SUBSET Iface
  <1>1. snap[d].ifs \in SUBSET Iface
    BY SnapshotAssumption DEF PaceInv, LoopsTyped
  <1>. QED  BY <1>1 DEF Joined

-----------------------------------------------------------------------------
LEMMA NoticePace ==
    ASSUME PaceInv, NEW d \in Device, NoticeSend(d) \/ NoticeHold(d)
    PROVE  PaceInv'
  <1>1. PICK failed \in SUBSET Iface :
            \/ /\ NoticeSend(d)
               /\ loop' = [loop EXCEPT ![d].joined = Joined(d, failed), ![d].seen = TRUE,
                                       ![d].since = 0, ![d].pending = FALSE, ![d].at = "asleep"]
            \/ /\ NoticeHold(d)
               /\ loop' = [loop EXCEPT ![d].joined = Joined(d, failed), ![d].seen = TRUE,
                                       ![d].pending = TRUE, ![d].at = "asleep"]
    BY DEF NoticeSend, NoticeHold
  <1>2. /\ loop[d] \in LoopType /\ lag[d] \in LagType /\ loop[d].at = "wake" /\ phase[d] = "on"
        /\ InPace(loop[d], lag[d], TRUE) /\ UNCHANGED <<snap, phase>>
    BY DEF PaceInv, LoopsTyped, NoticeSend, NoticeHold, Awake
  <1>. DEFINE J == Joined(d, failed)
  <1>3. J \in SUBSET Iface
    BY JoinedTyped
  <1>. HIDE DEF J
  <1>4. CASE NoticeSend(d)
    <2>1. PICK g \in LagType : lag' = [lag EXCEPT ![d] = g] /\ Followed(g)
      BY <1>4, SendFollows DEF NoticeSend
    <2>2. PICK l \in LoopType : /\ loop' = [loop EXCEPT ![d] = l]
                                /\ l.at = "asleep" /\ l.since = 0 /\ l.left = loop[d].left
      <3>. DEFINE l == [loop[d] EXCEPT !.joined = J, !.seen = TRUE, !.since = 0,
                                       !.pending = FALSE, !.at = "asleep"]
      <3>1. l \in LoopType /\ l.at = "asleep" /\ l.since = 0 /\ l.left = loop[d].left
        <4>1. 0 \in 0 .. MinSteps
          BY WindowsAreLong
        <4>. QED  BY <1>2, <1>3, <4>1 DEF LoopType
      <3>2. loop' = [loop EXCEPT ![d] = l]
        BY <1>1, <1>4 DEF J, NoticeSend, NoticeHold
      <3>. QED  BY <3>1, <3>2
    <2>3. InPace(l, g, TRUE)
      BY <1>2, <2>1, <2>2, WindowsAreLong
         DEF Followed, InPace, InWindow, OnItsWay, AtTheNextEdge, LoopType
    <2>. QED  BY <1>2, <2>1, <2>2, <2>3, LoopMoves
  <1>5. CASE NoticeHold(d)
    <2>1. lag' = [lag EXCEPT ![d] = lag[d]] /\ loop[d].since < MinSteps
      <3>1. loop[d].since \in 0 .. MinSteps /\ MinSteps \in Nat /\ ~(loop[d].since >= MinSteps)
        BY <1>2, <1>5, WindowsAreLong DEF NoticeHold, SendAllowed, LoopType
      <3>2. lag' = lag
        BY <1>5 DEF NoticeHold, Hold
      <3>. QED  BY <3>1, <3>2 DEF PaceInv, LoopsTyped
    <2>2. PICK l \in LoopType : /\ loop' = [loop EXCEPT ![d] = l] /\ l.at = "asleep" /\ l.pending
                                /\ l.since = loop[d].since /\ l.left = loop[d].left
                                /\ l.round = loop[d].round
      <3>. DEFINE l == [loop[d] EXCEPT !.joined = J, !.seen = TRUE, !.pending = TRUE,
                                       !.at = "asleep"]
      <3>1. /\ l \in LoopType /\ l.at = "asleep" /\ l.pending /\ l.since = loop[d].since
            /\ l.left = loop[d].left /\ l.round = loop[d].round
        BY <1>2, <1>3 DEF LoopType
      <3>2. loop' = [loop EXCEPT ![d] = l]
        BY <1>1, <1>5 DEF J, NoticeSend, NoticeHold
      <3>. QED  BY <3>1, <3>2
    <2>3. InPace(l, lag[d], TRUE)
      BY <1>2, <2>1, <2>2 DEF InPace, InWindow, OnItsWay, AtTheNextEdge
    <2>. QED  BY <1>2, <2>1, <2>2, <2>3, LoopMoves
  <1>. QED  BY <1>4, <1>5

LEMMA PendingPace == ASSUME PaceInv, NEW d \in Device, SendPending(d) PROVE PaceInv'
  <1>1. /\ loop[d] \in LoopType /\ loop[d].at = "wake" /\ phase[d] = "on"
        /\ InPace(loop[d], lag[d], TRUE) /\ UNCHANGED <<snap, phase>>
    BY DEF PaceInv, LoopsTyped, SendPending, Awake
  <1>2. PICK g \in LagType : lag' = [lag EXCEPT ![d] = g] /\ Followed(g)
    BY SendFollows DEF SendPending
  <1>3. PICK l \in LoopType : /\ loop' = [loop EXCEPT ![d] = l]
                              /\ l.at = "asleep" /\ l.since = 0 /\ l.left = loop[d].left
    <2>. DEFINE l == [loop[d] EXCEPT !.since = 0, !.pending = FALSE, !.at = "asleep"]
    <2>1. 0 \in 0 .. MinSteps
      BY WindowsAreLong
    <2>2. l \in LoopType /\ l.at = "asleep" /\ l.since = 0 /\ l.left = loop[d].left
      BY <1>1, <2>1 DEF LoopType
    <2>3. loop' = [loop EXCEPT ![d] = l]
      BY DEF SendPending
    <2>. QED  BY <2>2, <2>3
  <1>4. InPace(l, g, TRUE)
    BY <1>1, <1>2, <1>3, WindowsAreLong
       DEF Followed, InPace, InWindow, OnItsWay, AtTheNextEdge, LoopType
  <1>. QED  BY <1>1, <1>2, <1>3, <1>4, LoopMoves

\* The end of a window.  If the last batch is not long enough ago, then no other window
\* has ended since the change: that one would have been long enough.
LEMMA EdgePace == ASSUME PaceInv, NEW d \in Device, Edge(d) PROVE PaceInv'
  <1>1. /\ loop[d] \in LoopType /\ lag[d] \in LagType /\ loop[d].at = "edge"
        /\ InPace(loop[d], lag[d], phase[d] = "on") /\ UNCHANGED <<snap, phase>>
    BY DEF PaceInv, LoopsTyped, Edge
  <1>2. PICK failed \in SUBSET Iface :
            IF SendAllowed(d) THEN Turned(d, Joined(d, failed), 0) /\ Send(d)
                              ELSE Turned(d, Joined(d, failed), loop[d].since) /\ Miss(d)
    BY DEF Edge
  <1>. DEFINE J == Joined(d, failed)
              n == NextRound(d)
  <1>3. J \in SUBSET Iface
    BY JoinedTyped
  <1>4. n \in DOMAIN Windows /\ Windows[n] \in Nat /\ Windows[n] >= MinSteps /\ Windows[n] >= 1
    <2>1. DOMAIN Windows = 1 .. Len(Windows) /\ Len(Windows) \in Nat
      BY TimeAssumption
    <2>2. loop[d].round \in 1 .. Len(Windows)
      BY <1>1, <2>1 DEF LoopType
    <2>3. n \in 1 .. Len(Windows)
      BY <2>1, <2>2 DEF NextRound
    <2>4. n \in DOMAIN Windows
      BY <2>1, <2>3
    <2>. HIDE DEF n
    <2>. QED  BY <2>4, WindowsAreLong
  <1>5. ASSUME NEW since \in 0 .. MinSteps, Turned(d, J, since)
        PROVE  \E l \in LoopType : /\ loop' = [loop EXCEPT ![d] = l] /\ l.at = "wake"
                                   /\ l.since = since /\ l.round = n /\ l.left = Windows[n]
    <2>. DEFINE l == [loop[d] EXCEPT !.joined = J, !.since = since, !.pending = FALSE,
                                     !.round = n, !.left = Windows[n], !.at = "wake"]
    <2>1. loop' = [loop EXCEPT ![d] = l]
      BY <1>5 DEF Turned
    <2>2. /\ l \in LoopType /\ l.at = "wake" /\ l.since = since
          /\ l.round = n /\ l.left = Windows[n]
      <3>. HIDE DEF J, n
      <3>. QED  BY <1>1, <1>3, <1>4 DEF LoopType
    <2>. HIDE DEF l, n, J
    <2>. QED  BY <2>1, <2>2
  <1>. HIDE DEF J, n
  <1>6. CASE SendAllowed(d)
    <2>1. Turned(d, J, 0) /\ Send(d) /\ 0 \in 0 .. MinSteps
      BY <1>2, <1>6, WindowsAreLong DEF J
    <2>2. PICK l \in LoopType : /\ loop' = [loop EXCEPT ![d] = l] /\ l.at = "wake"
                                /\ l.since = 0 /\ l.round = n /\ l.left = Windows[n]
      BY <2>1, <1>5
    <2>3. PICK g \in LagType : lag' = [lag EXCEPT ![d] = g] /\ Followed(g)
      BY <2>1, <1>6, SendFollows
    <2>4. InPace(l, g, phase[d] = "on")
      BY <1>4, <2>2, <2>3 DEF Followed, InPace, InWindow, OnItsWay, AtTheNextEdge
    <2>. QED  BY <1>1, <2>2, <2>3, <2>4, LoopMoves
  <1>7. CASE ~SendAllowed(d)
    <2>1. Turned(d, J, loop[d].since) /\ Miss(d)
      BY <1>2, <1>7 DEF J
    <2>2. loop[d].since \in 0 .. MinSteps /\ MinSteps \in Nat /\ loop[d].since < MinSteps
      BY <1>1, <1>7, WindowsAreLong DEF SendAllowed, LoopType
    <2>3. PICK l \in LoopType : /\ loop' = [loop EXCEPT ![d] = l] /\ l.at = "wake"
                                /\ l.since = loop[d].since /\ l.round = n /\ l.left = Windows[n]
      BY <2>1, <2>2, <1>5
    <2>4. lag[d].steps \in Nat /\ loop[d].left = 0
      BY <1>1, WindowsAreLong DEF LagType, InPace, InWindow
    <2>5. ~lag[d].missed /\ (lag[d].steps > 0 => lag[d].steps <= MinSteps)
      BY <1>1, <2>2, <2>4 DEF InPace, AtTheNextEdge, OnItsWay
    <2>6. PICK g \in LagType : /\ lag' = [lag EXCEPT ![d] = g] /\ g.steps = lag[d].steps
                               /\ (g.missed <=> lag[d].steps > 0) /\ ~g.early
      <3>. DEFINE m == lag[d].steps > 0
                  g == [lag[d] EXCEPT !.missed = m]
      <3>1. lag' = [lag EXCEPT ![d] = g]
        BY <2>1 DEF Miss
      <3>2. m \in BOOLEAN
        OBVIOUS
      <3>3. g \in LagType /\ g.steps = lag[d].steps /\ g.missed = m /\ g.early = lag[d].early
        <4>. HIDE DEF m
        <4>. QED  BY <1>1, <3>2 DEF LagType
      <3>. HIDE DEF g
      <3>. QED  BY <1>1, <3>1, <3>3 DEF InPace
    <2>7. InPace(l, g, phase[d] = "on")
      <3>1. InWindow(l, phase[d] = "on") /\ OnItsWay(l, g)
        BY <1>4, <2>3, <2>4, <2>6 DEF InWindow, OnItsWay
      <3>2. AtTheNextEdge(l, g)
        BY <1>4, <2>2, <2>3, <2>4, <2>5, <2>6 DEF AtTheNextEdge
      <3>3. phase[d] # "on" => g.steps = 0 /\ ~g.missed
        BY <1>1, <2>6, <2>4 DEF InPace
      <3>. QED  BY <2>6, <3>1, <3>2, <3>3 DEF InPace
    <2>. QED  BY <1>1, <2>3, <2>6, <2>7, LoopMoves
  <1>. QED  BY <1>6, <1>7

-----------------------------------------------------------------------------
\* A step of time.  A loop that a change is waiting for has not come to the end of what
\* the rate allows: it is asleep, or has the change pending.
LEMMA TickPace == ASSUME PaceInv, Tick PROVE PaceInv'
  <1>. DEFINE L(d) == IF loop[d].at = "stopped" THEN loop[d]
                      ELSE [loop[d] EXCEPT !.left = @ - 1, !.at = IF loop[d].left = 1 THEN "edge" ELSE "wake",
                                           !.since = IF @ < MinSteps THEN @ + 1 ELSE @]
              G(d) == IF lag[d].steps \in 1 .. LongestWait - 1
                      THEN [lag[d] EXCEPT !.steps = @ + 1] ELSE lag[d]
  <1>1. /\ loop' = [d \in Device |-> L(d)] /\ lag' = [d \in Device |-> G(d)]
        /\ UNCHANGED <<snap, phase>>
        /\ \A d \in Device : loop[d].at \in {"asleep", "stopped"} \/ Idle(d)
    BY DEF Tick
  <1>2. ASSUME NEW d \in Device
        PROVE  L(d) \in LoopType /\ G(d) \in LagType /\ InPace(L(d), G(d), phase[d] = "on")
    <2>1. loop[d] \in LoopType /\ lag[d] \in LagType /\ InPace(loop[d], lag[d], phase[d] = "on")
      BY DEF PaceInv, LoopsTyped
    <2>2. /\ MinSteps \in Nat /\ LongestWait \in Nat
          /\ loop[d].left \in Nat /\ loop[d].since \in 0 .. MinSteps
          /\ lag[d].steps \in 0 .. LongestWait
      BY <2>1, WindowsAreLong DEF LoopType, LagType
    <2>3. G(d) \in LagType /\ G(d).missed = lag[d].missed /\ G(d).early = lag[d].early
      <3>1. CASE lag[d].steps \in 1 .. LongestWait - 1
        <4>1. lag[d].steps + 1 \in 0 .. LongestWait
          BY <2>2, <3>1
        <4>. QED  BY <2>1, <3>1, <4>1 DEF LagType
      <3>2. CASE lag[d].steps \notin 1 .. LongestWait - 1
        BY <2>1, <3>2
      <3>. QED  BY <3>1, <3>2
    <2>4. /\ G(d).steps = 0 <=> lag[d].steps = 0
          /\ G(d).steps \in Nat /\ G(d).steps <= lag[d].steps + 1
      BY <2>1, <2>2 DEF LagType
    <2>5. CASE loop[d].at = "stopped"
      <3>1. lag[d].steps = 0 /\ ~lag[d].missed /\ phase[d] # "on"
        BY <2>1, <2>5 DEF InPace, InWindow
      <3>2. L(d) = loop[d]
        BY <2>5
      <3>3. G(d).steps = 0 /\ ~G(d).missed /\ ~G(d).early
        BY <2>1, <2>3, <2>4, <3>1 DEF InPace
      <3>. HIDE DEF L, G
      <3>. QED  BY <2>1, <2>3, <3>1, <3>2, <3>3 DEF InPace, InWindow, OnItsWay, AtTheNextEdge
    <2>6. CASE loop[d].at # "stopped"
      <3>1. loop[d].at = "asleep" \/ Idle(d)
        BY <1>1, <2>6
      <3>2. loop[d].at \in {"asleep", "wake"} /\ loop[d].left >= 1
        BY <2>1, <3>1 DEF Idle, Awake, InPace, InWindow
      <3>3. /\ L(d) \in LoopType /\ L(d).left = loop[d].left - 1
            /\ L(d).at = (IF loop[d].left = 1 THEN "edge" ELSE "wake")
            /\ L(d).since = (IF loop[d].since < MinSteps THEN loop[d].since + 1 ELSE loop[d].since)
            /\ L(d).round = loop[d].round /\ L(d).seen = loop[d].seen /\ L(d).pending = loop[d].pending
        <4>. DEFINE at    == IF loop[d].left = 1 THEN "edge" ELSE "wake"
                    since == IF loop[d].since < MinSteps THEN loop[d].since + 1 ELSE loop[d].since
                    left  == loop[d].left - 1
        <4>1. at \in {"edge", "wake"} /\ since \in 0 .. MinSteps /\ left \in Nat
          BY <2>2, <3>2
        <4>2. L(d) = [loop[d] EXCEPT !.left = left, !.at = at, !.since = since]
          BY <2>1, <2>6 DEF LoopType
        <4>. HIDE DEF at, since, left, L
        <4>3. /\ L(d) \in LoopType /\ L(d).left = left /\ L(d).at = at /\ L(d).since = since
              /\ L(d).round = loop[d].round /\ L(d).seen = loop[d].seen
              /\ L(d).pending = loop[d].pending
          BY <2>1, <4>1, <4>2 DEF LoopType
        <4>. QED  BY <4>3 DEF at, since, left
      <3>. HIDE DEF L, G
      <3>4. InWindow(L(d), phase[d] = "on")
        BY <2>2, <3>2, <3>3 DEF InWindow
      <3>5. lag[d].steps > 0 /\ ~lag[d].missed => loop[d].since < MinSteps
        <4>1. CASE loop[d].at = "asleep"
          BY <2>1, <4>1 DEF InPace, InWindow
        <4>2. CASE Idle(d)
          BY <2>1, <2>2, <4>2 DEF InPace, OnItsWay, Idle, SendAllowed
        <4>. QED  BY <3>1, <4>1, <4>2
      <3>6. OnItsWay(L(d), G(d))
        BY <2>1, <2>2, <2>3, <2>4, <3>3, <3>5 DEF InPace, OnItsWay
      <3>7. AtTheNextEdge(L(d), G(d))
        <4>1. Windows[loop[d].round] \in Nat
          BY <2>1, WindowsAreLong DEF LoopType
        <4>. QED  BY <2>1, <2>2, <2>3, <2>4, <3>2, <3>3, <4>1 DEF InPace, AtTheNextEdge
      <3>8. ~G(d).early /\ (phase[d] # "on" => G(d).steps = 0 /\ ~G(d).missed)
        BY <2>1, <2>3, <2>4 DEF InPace
      <3>. QED  BY <2>3, <3>3, <3>4, <3>6, <3>7, <3>8 DEF InPace
    <2>. QED  BY <2>5, <2>6
  <1>. HIDE DEF L, G
  <1>3. LoopsTyped'
    BY <1>1, <1>2 DEF PaceInv, LoopsTyped
  <1>4. ASSUME NEW d \in Device PROVE InPace(loop[d], lag[d], phase[d] = "on")'
    <2>1. loop'[d] = L(d) /\ lag'[d] = G(d) /\ phase'[d] = phase[d]
      BY <1>1
    <2>2. InPace(L(d), G(d), phase[d] = "on")
      BY <1>2
    <2>. QED  BY <2>1, <2>2 DEF InPace, InWindow, OnItsWay, AtTheNextEdge
  <1>. QED  BY <1>3, <1>4 DEF PaceInv

LEMMA PublishPace == ASSUME PaceInv, NEW d \in Device, Publish(d) PROVE PaceInv'
  <1>1. /\ loop[d] \in LoopType /\ lag[d] \in LagType /\ phase[d] = "on" /\ phase' = phase
        /\ InPace(loop[d], lag[d], TRUE)
    BY DEF PaceInv, LoopsTyped, Publish
  <1>2. phase' = [phase EXCEPT ![d] = "on"] /\ snap' \in [Device -> Snapshots]
    BY <1>1 DEF PaceInv, LoopsTyped, Publish
  <1>3. PICK l \in LoopType : /\ loop' = [loop EXCEPT ![d] = l] /\ l.at = loop[d].at
                              /\ l.left = loop[d].left /\ l.since = loop[d].since
                              /\ l.round = loop[d].round /\ l.seen = FALSE
    <2>. DEFINE l == [loop[d] EXCEPT !.seen = FALSE]
    <2>1. loop' = [loop EXCEPT ![d] = l]
      BY DEF Publish
    <2>2. /\ l \in LoopType /\ l.at = loop[d].at
          /\ l.left = loop[d].left /\ l.since = loop[d].since
          /\ l.round = loop[d].round /\ l.seen = FALSE
      BY <1>1 DEF LoopType
    <2>. HIDE DEF l
    <2>. QED  BY <2>1, <2>2
  <1>4. PICK g \in LagType : /\ lag' = [lag EXCEPT ![d] = g]
                             /\ g.steps = (IF lag[d].steps = 0 THEN 1 ELSE lag[d].steps)
                             /\ g.missed = lag[d].missed /\ g.early = lag[d].early
    <2>. DEFINE s == IF lag[d].steps = 0 THEN 1 ELSE lag[d].steps
                g == [lag[d] EXCEPT !.steps = s]
    <2>1. lag' = [lag EXCEPT ![d] = g]
      BY DEF Publish
    <2>2. s \in 0 .. LongestWait
      <3>1. 1 \in 0 .. LongestWait
        <4>1. Len(Windows) \in DOMAIN Windows
          BY TimeAssumption
        <4>. QED  BY <4>1, WindowsAreLong
      <3>. QED  BY <1>1, <3>1 DEF LagType
    <2>3. g \in LagType /\ g.steps = s /\ g.missed = lag[d].missed /\ g.early = lag[d].early
      <3>. HIDE DEF s
      <3>. QED  BY <1>1, <2>2 DEF LagType
    <2>. HIDE DEF g
    <2>. QED  BY <2>1, <2>3
  <1>5. /\ MinSteps \in Nat /\ loop[d].left \in Nat /\ loop[d].since \in Nat /\ lag[d].steps \in Nat
    BY <1>1, WindowsAreLong DEF LoopType, LagType
  <1>6. InPace(l, g, TRUE)
    BY <1>1, <1>3, <1>4, <1>5 DEF InPace, InWindow, OnItsWay, AtTheNextEdge
  <1>. QED  BY <1>2, <1>3, <1>4, <1>6, OneMoves

\* A service that is told to stop, or has stopped, is not waited for.
LEMMA StopPace ==
    ASSUME PaceInv, NEW d \in Device, LoopStops(d) \/ Stop(d) \/ Off(d)
    PROVE  PaceInv'
  <1>1. /\ loop[d] \in LoopType /\ lag[d] \in LagType /\ snap' \in [Device -> Snapshots]
        /\ InPace(loop[d], lag[d], phase[d] = "on") /\ phase[d] \in {"on", "stopping", "off"}
    BY DEF PaceInv, LoopsTyped, LoopStops, Stop, Off
  <1>2. CASE LoopStops(d)
    <2>. DEFINE l == [loop[d] EXCEPT !.at = "stopped"]
    <2>1. /\ l \in LoopType /\ l.at = "stopped" /\ loop' = [loop EXCEPT ![d] = l]
          /\ lag' = [lag EXCEPT ![d] = lag[d]] /\ phase[d] # "on" /\ UNCHANGED <<snap, phase>>
      BY <1>1, <1>2 DEF LoopStops, LoopType, PaceInv, LoopsTyped
    <2>. HIDE DEF l
    <2>2. InPace(l, lag[d], phase[d] = "on")
      BY <1>1, <2>1, WindowsAreLong DEF InPace, InWindow, OnItsWay, AtTheNextEdge, LagType
    <2>. QED  BY <1>1, <2>1, <2>2, LoopMoves
  <1>3. CASE Stop(d)
    <2>. DEFINE g == [lag[d] EXCEPT !.steps = 0, !.missed = FALSE]
    <2>1. g \in LagType /\ g.steps = 0 /\ g.missed = FALSE /\ g.early = lag[d].early
      <3>1. 0 \in 0 .. LongestWait
        BY WindowsAreLong
      <3>. QED  BY <1>1, <3>1 DEF LagType
    <2>2. /\ lag' = [lag EXCEPT ![d] = g] /\ loop' = [loop EXCEPT ![d] = loop[d]]
          /\ phase' = [phase EXCEPT ![d] = "stopping"]
      BY <1>3 DEF Stop, PaceInv, LoopsTyped
    <2>. HIDE DEF g
    <2>3. InPace(loop[d], g, FALSE)
      BY <1>1, <2>1 DEF InPace, InWindow, OnItsWay, AtTheNextEdge
    <2>. QED  BY <1>1, <2>1, <2>2, <2>3, OneMoves
  <1>4. CASE Off(d)
    <2>. DEFINE l == [loop[d] EXCEPT !.joined = {}]
    <2>1. /\ l \in LoopType /\ l.at = "stopped" /\ loop' = [loop EXCEPT ![d] = l]
          /\ lag' = [lag EXCEPT ![d] = lag[d]] /\ phase[d] # "on"
          /\ phase' = [phase EXCEPT ![d] = "off"]
      BY <1>1, <1>4 DEF Off, LoopType, PaceInv, LoopsTyped
    <2>. HIDE DEF l
    <2>2. InPace(l, lag[d], FALSE)
      BY <1>1, <2>1, WindowsAreLong DEF InPace, InWindow, OnItsWay, AtTheNextEdge, LagType
    <2>. QED  BY <1>1, <2>1, <2>2, OneMoves
  <1>. QED  BY <1>2, <1>3, <1>4

\* A loop that starts may send at once, and has its first window before it.
LEMMA FreshLoop ==
    ASSUME NEW joined \in SUBSET Iface
    PROVE  /\ StartedLoop(joined) \in LoopType
           /\ \A g \in LagType, on \in BOOLEAN :
                 g.steps = 0 /\ ~g.missed /\ ~g.early => InPace(StartedLoop(joined), g, on)
  <1>1. 1 \in DOMAIN Windows
    BY TimeAssumption
  <1>2. Windows[1] \in Nat /\ Windows[1] >= 1 /\ MinSteps \in 0 .. MinSteps
    BY <1>1, WindowsAreLong
  <1>. QED
    BY <1>1, <1>2 DEF StartedLoop, LoopType, InPace, InWindow, OnItsWay, AtTheNextEdge

LEMMA StartPace == ASSUME PaceInv, NEW d \in Device, Start(d) PROVE PaceInv'
  <1>1. PICK failed \in SUBSET snap[d].ifs : loop' = [loop EXCEPT ![d] = StartedLoop(snap[d].ifs \ failed)]
    BY DEF Start
  <1>2. (snap[d].ifs \ failed) \in SUBSET Iface
    BY SnapshotAssumption DEF PaceInv, LoopsTyped
  <1>3. /\ lag[d] \in LagType /\ lag[d].steps = 0 /\ ~lag[d].missed /\ ~lag[d].early
    BY DEF Start, PaceInv, LoopsTyped, InPace
  <1>4. /\ phase' = [phase EXCEPT ![d] = "on"] /\ lag' = [lag EXCEPT ![d] = lag[d]]
        /\ snap' \in [Device -> Snapshots]
    BY DEF Start, PaceInv, LoopsTyped
  <1>5. /\ StartedLoop(snap[d].ifs \ failed) \in LoopType
        /\ InPace(StartedLoop(snap[d].ifs \ failed), lag[d], TRUE)
    BY <1>2, <1>3, FreshLoop
  <1>. QED  BY <1>1, <1>3, <1>4, <1>5, OneMoves

LEMMA PaceStarts == ASSUME Init PROVE PaceInv
  <1>1. PICK failed \in SUBSET Iface : loop = [d \in Device |-> StartedLoop(snap[d].ifs \ failed)]
    BY DEF Init
  <1>2. snap \in [Device -> Snapshots] /\ \A d \in Device : (snap[d].ifs \ failed) \in SUBSET Iface
    BY SnapshotAssumption DEF Init
  <1>3. NoLag \in LagType /\ NoLag.steps = 0 /\ ~NoLag.missed /\ ~NoLag.early
    <2>1. 0 \in 0 .. LongestWait
      BY WindowsAreLong
    <2>. QED  BY <2>1 DEF NoLag, LagType
  <1>4. /\ lag = [d \in Device |-> NoLag] /\ phase = [d \in Device |-> "on"]
    BY DEF Init
  <1>5. LoopsTyped
    BY <1>1, <1>2, <1>3, <1>4, FreshLoop DEF LoopsTyped
  <1>6. ASSUME NEW d \in Device PROVE InPace(loop[d], lag[d], phase[d] = "on")
    BY <1>1, <1>2, <1>3, <1>4, FreshLoop
  <1>. QED  BY <1>5, <1>6 DEF PaceInv

LEMMA PaceStep == ASSUME PaceInv, [Next]_vars PROVE PaceInv'
  <1>1. CASE Runs
    <2>1. CASE \E d \in Device : LoopStep(d)
      BY <2>1, NoticePace, PendingPace, EdgePace, StopPace DEF LoopStep
    <2>2. CASE \E p \in net : Receive(p)
      BY <2>2, PaceKept DEF Receive, Answer, Hear, Ignore
    <2>. QED  BY <1>1, <2>1, <2>2, TickPace DEF Runs
  <1>2. CASE \/ \E p \in net : Lose(p)
             \/ \E d, e \in Device : Poke(d, e)
             \/ \E d \in Restless, e \in Device : Remember(d, e)
             \/ \E d \in Restless : SetNick(d) \/ SetGroup(d)
    BY <1>2, PaceKept DEF Lose, Poke, Remember, SetNick, SetGroup
  <1>3. CASE \E d \in Restless : Publish(d) \/ Stop(d) \/ Off(d) \/ Start(d)
    BY <1>3, BoundAssumption, PublishPace, StopPace, StartPace
  <1>4. CASE UNCHANGED vars
    BY <1>4, PaceKept DEF vars
  <1>. QED  BY <1>1, <1>2, <1>3, <1>4 DEF Next

\* Two batches of a device are at least MIN_SEND_BATCH_INTERVAL apart, whatever sends them;
\* and a change of interfaces or range is announced that fast, unless a window ended in
\* between, and then with the end of the next window at the latest
\* (sleep_and_watch_ifaces, resync_and_maybe_send): for any windows and any limit.
THEOREM BatchesKeepPace == Spec => []Pace
  <1>1. ASSUME PaceInv PROVE Pace
    <2>. SUFFICES ASSUME NEW d \in Device
                  PROVE  /\ ~lag[d].early
                         /\ lag[d].steps > MinSteps + 1 => lag[d].missed
                         /\ lag[d].steps < LongestWait
      BY DEF Pace
    <2>1. loop[d] \in LoopType /\ lag[d] \in LagType /\ InPace(loop[d], lag[d], phase[d] = "on")
      BY <1>1 DEF PaceInv, LoopsTyped
    <2>2. /\ MinSteps \in Nat /\ LongestWait \in Nat /\ lag[d].steps \in Nat
          /\ loop[d].left \in Nat /\ loop[d].since \in Nat /\ loop[d].since <= MinSteps
          /\ Windows[loop[d].round] \in Nat
          /\ Windows[loop[d].round] + MinSteps + 2 <= LongestWait
      BY <2>1, WindowsAreLong DEF LoopType, LagType
    <2>. QED  BY <2>1, <2>2 DEF InPace, OnItsWay, AtTheNextEdge
  <1>. QED  BY <1>1, PaceStarts, PaceStep, PTL DEF Spec

-----------------------------------------------------------------------------
(* The multicast groups.  What holds at every moment of the healing: nothing  *)
(* that is gone stays joined once the loop has seen it go, and what is joined *)
(* and still there is not left again, however many joins fail meanwhile.      *)

JoinedIsThere == \A d \in Device : loop[d].seen => loop[d].joined \subseteq snap[d].ifs

NothingIsLeft ==
    \A d \in Device : phase[d] = "on" /\ phase'[d] = "on" =>
        loop[d].joined \cap snap'[d].ifs \subseteq loop'[d].joined

\* What a step may do with the groups of d: nothing, unless a snapshot is new to the loop;
\* bring them up to date, but for joins that fail; or have them all left or joined anew.
Regroups(d) ==
    \/ /\ loop'[d].joined = loop[d].joined
       /\ loop'[d].seen => loop[d].seen /\ snap'[d] = snap[d]
    \/ /\ snap'[d] = snap[d]
       /\ \E failed \in SUBSET (snap[d].ifs \ loop[d].joined) : loop'[d].joined = snap[d].ifs \ failed
    \/ /\ phase[d] # "on"
       /\ loop'[d].joined \subseteq snap'[d].ifs

\* Whatever a loop does, it regroups; so do time and the callers.
LEMMA LoopRegroups ==
    ASSUME PaceInv, NEW d \in Device, LoopStep(d)
    PROVE  \A e \in Device : Regroups(e)
  <1>1. loop \in [Device -> LoopType] /\ loop[d] \in LoopType /\ snap' = snap
    BY DEF PaceInv, LoopsTyped, LoopStep, NoticeSend, NoticeHold, SendPending, Edge, LoopStops
  <1>2. ASSUME NEW l, loop' = [loop EXCEPT ![d] = l],
               \/ l.joined = loop[d].joined /\ l.seen = loop[d].seen
               \/ \E failed \in SUBSET (snap[d].ifs \ loop[d].joined) : l.joined = snap[d].ifs \ failed
        PROVE  \A e \in Device : Regroups(e)
    BY <1>1, <1>2 DEF Regroups
  <1>3. ASSUME NEW failed, Synced(d, failed), NEW l, loop' = [loop EXCEPT ![d] = l],
               l.joined = Joined(d, failed)
        PROVE  \A e \in Device : Regroups(e)
    BY <1>2, <1>3 DEF Synced, Joined
  <1>4. CASE NoticeSend(d)
    <2>1. PICK failed \in SUBSET Iface :
              /\ Synced(d, failed)
              /\ loop' = [loop EXCEPT ![d] = [loop[d] EXCEPT !.joined = Joined(d, failed), !.seen = TRUE,
                                                !.since = 0, !.pending = FALSE, !.at = "asleep"]]
      BY <1>4 DEF NoticeSend
    <2>2. [loop[d] EXCEPT !.joined = Joined(d, failed), !.seen = TRUE,
                          !.since = 0, !.pending = FALSE, !.at = "asleep"].joined = Joined(d, failed)
      BY <1>1 DEF LoopType
    <2>. QED  BY <1>3, <2>1, <2>2
  <1>5. CASE NoticeHold(d)
    <2>1. PICK failed \in SUBSET Iface :
              /\ Synced(d, failed)
              /\ loop' = [loop EXCEPT ![d] = [loop[d] EXCEPT !.joined = Joined(d, failed), !.seen = TRUE,
                                                !.pending = TRUE, !.at = "asleep"]]
      BY <1>5 DEF NoticeHold
    <2>2. [loop[d] EXCEPT !.joined = Joined(d, failed), !.seen = TRUE,
                          !.pending = TRUE, !.at = "asleep"].joined = Joined(d, failed)
      BY <1>1 DEF LoopType
    <2>. QED  BY <1>3, <2>1, <2>2
  <1>6. CASE Edge(d)
    <2>1. PICK failed \in SUBSET Iface :
              /\ Synced(d, failed)
              /\ \E since : Turned(d, Joined(d, failed), since)
      BY <1>6 DEF Edge
    <2>2. PICK since : Turned(d, Joined(d, failed), since)
      BY <2>1
    <2>. DEFINE l == [loop[d] EXCEPT !.joined = Joined(d, failed), !.since = since,
                                     !.pending = FALSE, !.round = NextRound(d),
                                     !.left = Windows[NextRound(d)], !.at = "wake"]
    <2>3. loop' = [loop EXCEPT ![d] = l]
      BY <2>2 DEF Turned
    <2>4. l.joined = Joined(d, failed)
      BY <1>1 DEF LoopType
    <2>. HIDE DEF l
    <2>. QED  BY <1>3, <2>1, <2>3, <2>4
  <1>7. CASE SendPending(d)
    <2>. DEFINE l == [loop[d] EXCEPT !.since = 0, !.pending = FALSE, !.at = "asleep"]
    <2>1. loop' = [loop EXCEPT ![d] = l]
      BY <1>7 DEF SendPending
    <2>2. l.joined = loop[d].joined /\ l.seen = loop[d].seen
      BY <1>1 DEF LoopType
    <2>. HIDE DEF l
    <2>. QED  BY <1>2, <2>1, <2>2
  <1>8. CASE LoopStops(d)
    <2>. DEFINE l == [loop[d] EXCEPT !.at = "stopped"]
    <2>1. loop' = [loop EXCEPT ![d] = l]
      BY <1>8 DEF LoopStops
    <2>2. l.joined = loop[d].joined /\ l.seen = loop[d].seen
      BY <1>1 DEF LoopType
    <2>. HIDE DEF l
    <2>. QED  BY <1>2, <2>1, <2>2
  <1>. QED  BY <1>4, <1>5, <1>6, <1>7, <1>8 DEF LoopStep

LEMMA TickRegroups ==
    ASSUME PaceInv, Tick
    PROVE  \A e \in Device : Regroups(e)
  <1>1. ASSUME NEW e \in Device PROVE Regroups(e)
    <2>1. loop[e] \in LoopType /\ snap' = snap
      BY DEF PaceInv, LoopsTyped, Tick
    <2>2. loop'[e] = IF loop[e].at = "stopped" THEN loop[e]
                     ELSE [loop[e] EXCEPT !.left = @ - 1, !.at = IF loop[e].left = 1 THEN "edge" ELSE "wake",
                                          !.since = IF @ < MinSteps THEN @ + 1 ELSE @]
      BY DEF Tick
    <2>3. loop'[e].joined = loop[e].joined /\ loop'[e].seen = loop[e].seen
      BY <2>1, <2>2 DEF LoopType
    <2>. QED  BY <2>1, <2>3 DEF Regroups
  <1>. QED  BY <1>1

LEMMA CallRegroups ==
    ASSUME PaceInv, NEW d \in Device, Publish(d) \/ Off(d) \/ Start(d)
    PROVE  \A e \in Device : Regroups(e)
  <1>1. /\ loop \in [Device -> LoopType] /\ loop[d] \in LoopType
        /\ snap \in [Device -> Snapshots] /\ phase \in [Device -> {"on", "stopping", "off"}]
    BY DEF PaceInv, LoopsTyped
  <1>2. CASE Publish(d)
    <2>1. PICK s : snap' = [snap EXCEPT ![d] = s]
      BY <1>2 DEF Publish
    <2>. DEFINE l == [loop[d] EXCEPT !.seen = FALSE]
    <2>2. loop' = [loop EXCEPT ![d] = l]
      BY <1>2 DEF Publish
    <2>3. l.joined = loop[d].joined /\ l.seen = FALSE
      BY <1>1 DEF LoopType
    <2>. HIDE DEF l
    <2>. QED  BY <1>1, <2>1, <2>2, <2>3 DEF Regroups
  <1>3. CASE Off(d)
    <2>. DEFINE l == [loop[d] EXCEPT !.joined = {}]
    <2>1. loop' = [loop EXCEPT ![d] = l] /\ snap' = snap /\ phase[d] = "stopping"
      BY <1>3 DEF Off
    <2>2. l.joined = {}
      BY <1>1 DEF LoopType
    <2>. HIDE DEF l
    <2>. QED  BY <1>1, <2>1, <2>2 DEF Regroups
  <1>4. CASE Start(d)
    <2>1. PICK failed : loop' = [loop EXCEPT ![d] = StartedLoop(snap[d].ifs \ failed)]
      BY <1>4 DEF Start
    <2>2. snap' = snap /\ phase[d] = "off"
      BY <1>4 DEF Start
    <2>3. StartedLoop(snap[d].ifs \ failed).joined = snap[d].ifs \ failed
      BY DEF StartedLoop
    <2>. QED  BY <1>1, <2>1, <2>2, <2>3 DEF Regroups
  <1>. QED  BY <1>2, <1>3, <1>4

LEMMA MembershipStep ==
    ASSUME PaceInv, JoinedIsThere, [Next]_vars
    PROVE  JoinedIsThere' /\ NothingIsLeft
  <1>1. \A e \in Device : Regroups(e)
    <2>1. CASE Runs
      <3>1. CASE \E p \in net : Receive(p)
        BY <3>1 DEF Receive, Answer, Hear, Ignore, Regroups
      <3>. QED  BY <2>1, <3>1, LoopRegroups, TickRegroups DEF Runs
    <2>2. CASE \/ \E p \in net : Lose(p)
               \/ \E d, e \in Device : Poke(d, e)
               \/ \E d \in Restless, e \in Device : Remember(d, e)
               \/ \E d \in Restless : SetNick(d) \/ SetGroup(d) \/ Stop(d)
      BY <2>2 DEF Lose, Poke, Remember, SetNick, SetGroup, Stop, Regroups
    <2>3. CASE \E d \in Restless : Publish(d) \/ Off(d) \/ Start(d)
      BY <2>3, CallRegroups, BoundAssumption
    <2>4. CASE UNCHANGED vars
      BY <2>4 DEF vars, Regroups
    <2>. QED  BY <2>1, <2>2, <2>3, <2>4 DEF Next
  <1>2. JoinedIsThere'
    BY <1>1 DEF Regroups, JoinedIsThere
  <1>3. NothingIsLeft
    BY <1>1 DEF Regroups, NothingIsLeft, JoinedIsThere
  <1>. QED  BY <1>2, <1>3

\* Every interface a device is joined on is one its registry allows, but for a snapshot the
\* loop has not noticed; and no step leaves one that is still allowed, so that a join that
\* fails is only a delay (sync_multicast, resync_and_maybe_send).
THEOREM MembershipMends == Spec => []JoinedIsThere /\ [][NothingIsLeft]_vars
  <1>1. ASSUME Init PROVE JoinedIsThere
    BY <1>1 DEF Init, JoinedIsThere, StartedLoop
  <1>. QED  BY <1>1, PaceStarts, PaceStep, MembershipStep, PTL DEF Spec

-----------------------------------------------------------------------------
(* The names.  A device always says what its settings say (buf), so that what *)
(* is under way or was heard is what they said once.                          *)

\* Nickname and group as they are or were.
Said(n, e) == n \in Names /\ n.nick <= name[e].nick /\ n.group <= name[e].group

NamesTyped == name \in [Device -> Names] /\ buf = name /\ heard \in [Device -> [Device -> Names]]

\* The announcement is encoded as the settings are, and nobody is known by, or announces
\* itself with, a nickname or group of versions it has not reached.
NamesAreTheirs ==
    /\ \A d \in Device : buf[d] = name[d]
    /\ \A p \in net : Said(p.name, p.from)
    /\ \A d, e \in Device : Said(heard[d][e], e)

NameInv ==
    /\ NamesTyped /\ NamesAreTheirs
    /\ \A p \in net : p.from \in Device /\ p.to \in Device

\* A datagram that carries the name of the moment.
Fresh(p) == p.from \in Device /\ p.to \in Device /\ p.name = buf[p.from]

\* Steps that change no name.
LEMMA NamesKept ==
    ASSUME NameInv, UNCHANGED <<name, buf>>,
           heard' \in [Device -> [Device -> Names]],
           \A d, e \in Device : Said(heard'[d][e], e),
           \A p \in net' : p \in net \/ Fresh(p)
    PROVE  NameInv'
  <1>1. \A n, e : Said(n, e)' <=> Said(n, e)
    BY DEF Said
  <1>2. ASSUME NEW p \in net' PROVE Said(p.name, p.from) /\ p.from \in Device /\ p.to \in Device
    <2>1. CASE p \in net
      BY <2>1 DEF NameInv, NamesAreTheirs
    <2>2. CASE Fresh(p)
      BY <2>2 DEF Fresh, Said, NameInv, NamesTyped, Names
    <2>. QED  BY <2>1, <2>2
  <1>. QED  BY <1>1, <1>2 DEF NameInv, NamesTyped, NamesAreTheirs, Said

\* A batch says the name of the moment.
LEMMA BatchIsFresh == ASSUME NEW d \in Device PROVE \A p \in Batch(d) : Fresh(p)
  BY DEF Batch, Fresh, Others

\* A datagram that is heard.
LEMMA HeardKept ==
    ASSUME NameInv, NEW p \in net, UNCHANGED <<name, buf>>,
           heard' = [heard EXCEPT ![p.to][p.from] = p.name],
           \A q \in net' : q \in net \/ Fresh(q)
    PROVE  NameInv'
  <1>1. p.from \in Device /\ p.to \in Device /\ Said(p.name, p.from) /\ p.name \in Names
    BY DEF NameInv, NamesAreTheirs, Said
  <1>2. heard' \in [Device -> [Device -> Names]]
    BY <1>1 DEF NameInv, NamesTyped
  <1>3. \A d, e \in Device : heard'[d][e] = heard[d][e] \/ (e = p.from /\ heard'[d][e] = p.name)
    BY <1>1 DEF NameInv, NamesTyped
  <1>4. \A d, e \in Device : Said(heard'[d][e], e)
    BY <1>1, <1>3 DEF NameInv, NamesAreTheirs
  <1>. QED  BY <1>2, <1>4, NamesKept

\* A new nickname or group: what was said before was said.
LEMMA RenameKeeps ==
    ASSUME NameInv, NEW d \in Device, SetNick(d) \/ SetGroup(d)
    PROVE  NameInv'
  <1>1. /\ name' \in [Device -> Names] /\ buf' = name' /\ UNCHANGED <<heard, net>>
        /\ \A e \in Device : name[e].nick <= name'[e].nick /\ name[e].group <= name'[e].group
    <2>. DEFINE nick  == [name[d] EXCEPT !.nick = @ + 1]
                group == [name[d] EXCEPT !.group = @ + 1]
    <2>1. name \in [Device -> Names] /\ name[d] \in Names
      BY DEF NameInv, NamesTyped
    <2>2. \A n \in {nick, group} : n \in Names /\ name[d].nick <= n.nick /\ name[d].group <= n.group
      <3>1. nick \in Names /\ nick.nick = name[d].nick + 1 /\ nick.group = name[d].group
        BY <2>1 DEF Names
      <3>2. group \in Names /\ group.group = name[d].group + 1 /\ group.nick = name[d].nick
        BY <2>1 DEF Names
      <3>3. name[d].nick \in Nat /\ name[d].group \in Nat
        BY <2>1 DEF Names
      <3>. HIDE DEF nick, group
      <3>. QED  BY <3>1, <3>2, <3>3
    <2>3. PICK n \in {nick, group} : name' = [name EXCEPT ![d] = n]
      BY DEF SetNick, SetGroup
    <2>4. n \in Names /\ name[d].nick <= n.nick /\ name[d].group <= n.group
      BY <2>2
    <2>5. name'[d] = n /\ \A e \in Device \ {d} : name'[e] = name[e] /\ name[e] \in Names
      BY <2>1, <2>3
    <2>. HIDE DEF nick, group
    <2>6. name' \in [Device -> Names]
      BY <2>1, <2>3, <2>4
    <2>7. ASSUME NEW e \in Device
          PROVE  name[e].nick <= name'[e].nick /\ name[e].group <= name'[e].group
      <3>1. CASE e = d
        BY <2>4, <2>5, <3>1
      <3>2. CASE e # d
        BY <2>5, <3>2 DEF Names
      <3>. QED  BY <3>1, <3>2
    <2>8. buf' = name'
      <3>1. buf' = [name EXCEPT ![d] = name'[d]]
        BY DEF SetNick, SetGroup, NameInv, NamesTyped
      <3>. QED  BY <2>1, <2>3, <2>5, <3>1
    <2>9. UNCHANGED <<heard, net>>
      BY DEF SetNick, SetGroup
    <2>. QED  BY <2>6, <2>7, <2>8, <2>9
  <1>2. ASSUME NEW n, NEW e \in Device, Said(n, e)
        PROVE  n \in Names /\ n.nick <= name'[e].nick /\ n.group <= name'[e].group
    <2>1. n \in Names /\ name[e] \in Names /\ name'[e] \in Names
      BY <1>1, <1>2 DEF Said, NameInv, NamesTyped
    <2>2. /\ n.nick \in Nat /\ name[e].nick \in Nat /\ name'[e].nick \in Nat
          /\ n.group \in Nat /\ name[e].group \in Nat /\ name'[e].group \in Nat
      BY <2>1 DEF Names
    <2>. QED  BY <1>1, <1>2, <2>1, <2>2 DEF Said
  <1>3. \A p \in net' : Said(p.name, p.from)' /\ p.from \in Device /\ p.to \in Device
    BY <1>1, <1>2 DEF Said, NameInv, NamesAreTheirs
  <1>4. \A c, e \in Device : Said(heard[c][e], e)'
    BY <1>1, <1>2 DEF Said, NameInv, NamesAreTheirs
  <1>. QED  BY <1>1, <1>3, <1>4 DEF NameInv, NamesTyped, NamesAreTheirs

\* Every step keeps it: only the settings name, and they number on.
LEMMA NameStep == ASSUME NameInv, [Next]_vars PROVE NameInv'
  <1>h. heard \in [Device -> [Device -> Names]] /\ \A d, e \in Device : Said(heard[d][e], e)
    BY DEF NameInv, NamesTyped, NamesAreTheirs
  <1>1. ASSUME UNCHANGED <<name, buf, heard>>, \A p \in net' : p \in net \/ Fresh(p) PROVE NameInv'
    BY <1>h, <1>1, NamesKept
  <1>2. ASSUME NEW d \in Device, LoopStep(d) PROVE NameInv'
    <2>1. UNCHANGED <<name, buf, heard>> /\ (net' = net \/ net' = net \cup Batch(d))
      BY <1>2 DEF LoopStep, NoticeSend, NoticeHold, SendPending, Edge, LoopStops, Send, Hold, Miss
    <2>. QED  BY <1>1, <2>1, BatchIsFresh
  <1>3. ASSUME NEW p \in net, Receive(p) PROVE NameInv'
    <2>1. p.from \in Device /\ p.to \in Device
      BY DEF NameInv
    <2>2. CASE Answer(p)
      <3>1. \A q \in net' : q \in net \/ Fresh(q)
        BY <2>1, <2>2 DEF Answer, Fresh
      <3>2. heard' = [heard EXCEPT ![p.to][p.from] = p.name] /\ UNCHANGED <<name, buf>>
        <4>1. CASE buf' = buf
          BY <2>2 DEF Answer
        <4>. QED  BY <2>2, <4>1 DEF Answer
      <3>. QED  BY <3>1, <3>2, HeardKept
    <2>3. CASE Hear(p)
      <3>1. heard' = [heard EXCEPT ![p.to][p.from] = p.name] /\ UNCHANGED <<name, buf>> /\ net' \subseteq net
        BY <2>3 DEF Hear
      <3>. QED  BY <3>1, HeardKept
    <2>4. CASE Ignore(p)
      BY <1>1, <2>4 DEF Ignore
    <2>. QED  BY <1>3, <2>2, <2>3, <2>4 DEF Receive
  <1>4. ASSUME NEW d \in Device, NEW e \in Device, Poke(d, e) PROVE NameInv'
    BY <1>1, <1>4 DEF Poke, Fresh
  <1>5. ASSUME NEW d \in Device, Start(d) PROVE NameInv'
    <2>1. buf' = buf /\ UNCHANGED <<name, heard, net>>
      <3>1. buf' = [buf EXCEPT ![d] = buf[d]] /\ buf \in [Device -> Names]
        BY <1>5 DEF Start, NameInv, NamesTyped
      <3>. QED  BY <1>5, <3>1 DEF Start
    <2>. QED  BY <1>1, <2>1
  <1>6. CASE \/ Tick
             \/ \E p \in net : Lose(p)
             \/ \E d \in Restless, e \in Device : Remember(d, e)
             \/ \E d \in Restless : Publish(d) \/ Stop(d) \/ Off(d)
             \/ UNCHANGED vars
    BY <1>1, <1>6 DEF Tick, Lose, Remember, Publish, Stop, Off, vars
  <1>. QED
    BY <1>2, <1>3, <1>4, <1>5, <1>6, RenameKeeps, BoundAssumption DEF Next, Runs

\* A device announces the nickname and group of its settings, and nothing that is under way or
\* was heard of it is ahead of them (rebuild_announce_buf, recv_loop): also if it answers, pokes
\* or starts again while its settings change, and however late its datagrams are heard.
THEOREM NamesAreNotMadeUp == Spec => []NamesAreTheirs
  <1>1. ASSUME Init PROVE NameInv
    BY <1>1 DEF Init, NameInv, NamesTyped, NamesAreTheirs, Said, Names, First, NoName
  <1>2. ASSUME NameInv PROVE NamesAreTheirs
    BY <1>2 DEF NameInv
  <1>. QED  BY <1>1, <1>2, NameStep, PTL DEF Spec
=============================================================================
