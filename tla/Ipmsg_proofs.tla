---------------------------- MODULE Ipmsg_proofs ----------------------------
(***************************************************************************)
(* Proofs about the IPMsg compatibility layer: the types, on which all else  *)
(* rests (what a datagram may be, and to whom), the goodbye, and what was    *)
(* promised to a peer or the user: texts, offers and accepted files; and     *)
(* folders, which arrive as their stream describes them.                     *)
(***************************************************************************)
EXTENDS MCIpmsg, Integers, TLAPS, WellFoundedInduction, FiniteSetTheorems, SequenceTheorems

Kinds  == {"text", "offered", "done", "failed"}
Budget == [moves : 0 .. MaxMoves, exits : 0 .. MaxExits, lost : 0 .. MaxLost,
           refused : 0 .. MaxRefused]

\* What the variables hold, as far as the service and the user go.
ServiceOK ==
    /\ us \in {"up", "leaving", "left", "orphan", "down"}
    /\ loops \subseteq {"send", "recv"} /\ (us = "up" => loops = {"send", "recv"})
    /\ due \in BOOLEAN /\ name \in Nat /\ range \subseteq Peer

BooksOK ==
    /\ texts \subseteq Number /\ acked \subseteq Number
    /\ kept \in [texts : SUBSET Number, files : SUBSET Number]
    /\ missed \in [texts : SUBSET Number, files : SUBSET Number]
    /\ download \subseteq Number /\ void \subseteq Number
    /\ row \in [Number -> {"none", "offered", "active"} \cup Final]
    /\ offers \subseteq [xfer : Number, peer : Plain]
    /\ pump \in Seq([kind : Kinds, ref : Number])

CommandOK ==
    \/ command = Ready
    \/ command \in [pc : {"texts", "files", "active", "rejected"}, ref : Number]

\* The contact list; no BigPaw peer is in it.
RosterOK ==
    /\ listed \in [Peer -> {"absent", "offline", "online"}] /\ age \in [Peer -> 0 .. Timeout]
    /\ \A k \in Kin : listed[k] = "absent"

\* Each version of our name but the first has cost the user a move.
NamesAreMoves == budget \in Budget /\ name \in 1 .. Fresh

PeersOK == peer \in [Peer -> [up : BOOLEAN, knows : 0 .. name]]

\* A datagram of ours is on its way to a peer of the old protocol that is there,
\* and carries a name that we had.
FromUs(a) ==
    /\ a.from = Us /\ a.to \in Plain /\ peer[a.to].up
    /\ a.kind \in {"entry", "answer", "exit"} /\ a.ref \in 0 .. name

\* One for us is from a peer; a text has a number, and so has an offer, which is of
\* a peer of the old protocol.
ForUs(a) ==
    /\ a.to = Us /\ a.from \in Peer
    /\ a.kind \in {"text", "offer"} => a.ref \in Number
    /\ a.kind = "offer" => a.from \in Plain

NetOK == \A a \in net : FromUs(a) \/ ForUs(a)

TypeInv ==
    /\ ServiceOK /\ BooksOK /\ CommandOK /\ RosterOK /\ NamesAreMoves /\ PeersOK /\ NetOK

-----------------------------------------------------------------------------
(* What a move costs, and which steps leave a part of the invariant alone. *)

\* A move has a number that nothing had before (Fresh).
LEMMA MoveSpent ==
    ASSUME NamesAreMoves, Spend("moves")
    PROVE  /\ Fresh \in Number /\ budget' \in Budget
           /\ Fresh' = Fresh + 1 /\ name \in 1 .. Fresh /\ Fresh \in Nat
  BY BoundAssumption DEF NamesAreMoves, Budget, Spend, Fresh, Number

LEMMA OtherSpent ==
    ASSUME NamesAreMoves, NEW b \in {"exits", "lost", "refused"}, Spend(b) \/ budget' = budget, name' = name
    PROVE  NamesAreMoves'
  <1>1. CASE Spend(b)
    BY <1>1, BoundAssumption DEF NamesAreMoves, Budget, Spend, Fresh
  <1>2. CASE budget' = budget
    BY <1>2 DEF NamesAreMoves, Fresh
  <1>. QED  BY <1>1, <1>2

LEMMA PartsKept ==
    ASSUME TypeInv
    PROVE  /\ UNCHANGED service => ServiceOK'
           /\ UNCHANGED <<pump, texts, acked, ours, files>> => BooksOK'
           /\ UNCHANGED command => CommandOK'
           /\ UNCHANGED roster => RosterOK'
           /\ UNCHANGED <<name, budget>> => NamesAreMoves'
           /\ UNCHANGED <<name, peer>> => PeersOK'
  <1>1. UNCHANGED service => ServiceOK'
    BY DEF TypeInv, ServiceOK, service
  <1>2. UNCHANGED <<pump, texts, acked, ours, files>> => BooksOK'
    BY DEF TypeInv, BooksOK, ours, files
  <1>3. UNCHANGED command => CommandOK'
    BY DEF TypeInv, CommandOK
  <1>4. UNCHANGED roster => RosterOK'
    BY DEF TypeInv, RosterOK, roster
  <1>5. UNCHANGED <<name, budget>> => NamesAreMoves'
    BY DEF TypeInv, NamesAreMoves, Fresh
  <1>6. UNCHANGED <<name, peer>> => PeersOK'
    BY DEF TypeInv, PeersOK
  <1>. QED  BY <1>1, <1>2, <1>3, <1>4, <1>5, <1>6

\* The datagrams are right if those that are added are.
LEMMA NetKept ==
    ASSUME TypeInv, peer' = peer, name' \in Nat, name <= name',
           \A a \in net' : a \in net \/ FromUs(a)' \/ ForUs(a)
    PROVE  NetOK'
  <1>1. \A a : FromUs(a) => FromUs(a)'
    BY DEF FromUs, TypeInv, ServiceOK
  <1>2. \A a : ForUs(a) <=> ForUs(a)'
    BY DEF ForUs
  <1>. QED  BY <1>1, <1>2 DEF TypeInv, NetOK

\* What goes out to all, or to one, goes to peers that are there.
LEMMA OutIsOurs ==
    ASSUME TypeInv, NEW kind \in {"entry", "answer", "exit"}, NEW ref \in Nat,
           NEW P \in SUBSET Peer
    PROVE  \A a \in {Packet(kind, Us, p, ref) : p \in {q \in P : There(q)}} :
              ref <= name => FromUs(a)
  BY DEF Packet, There, FromUs, TypeInv, ServiceOK

\* What a peer sends is for us.
LEMMA FromPeerIsForUs ==
    ASSUME NEW p \in Peer, NEW ref, NEW kinds,
           \A k \in kinds : /\ k \in {"text", "offer"} => ref \in Number
                            /\ k = "offer" => p \in Plain
    PROVE  \A a \in FromPeer(p, kinds, ref) : ForUs(a)
  BY DEF FromPeer, Packet, ForUs

-----------------------------------------------------------------------------
(* What the service receives and sends. *)

LEMMA SendEntryTyped == ASSUME TypeInv, SendEntry PROVE TypeInv'
  <1>1. ServiceOK'
    BY DEF TypeInv, ServiceOK, SendEntry
  <1>2. NetOK'
    <2>1. \A a \in ToAll("entry", name) : FromUs(a)
      BY OutIsOurs DEF ToAll, TypeInv, ServiceOK
    <2>2. \A a : FromUs(a)' <=> FromUs(a)
      BY DEF FromUs, SendEntry
    <2>. QED  BY <2>1, <2>2, NetKept DEF SendEntry, TypeInv, ServiceOK
  <1>. QED  BY <1>1, <1>2, PartsKept DEF TypeInv, SendEntry, ours, files, roster

\* A datagram that is taken from the network, or one more event for the storing
\* thread, breaks nothing.
LEMMA Taken ==
    ASSUME TypeInv, UNCHANGED <<name, peer>>, net' \subseteq net
    PROVE  NetOK'
  <1>1. \A a : FromUs(a)' <=> FromUs(a)
    BY DEF FromUs
  <1>. QED  BY <1>1, NetKept DEF TypeInv, ServiceOK

LEMMA Pumped ==
    ASSUME TypeInv, NEW e \in [kind : Kinds, ref : Number], pump' = Append(pump, e),
           UNCHANGED <<texts, ours, row, void>>, acked' \subseteq Number,
           offers' \subseteq [xfer : Number, peer : Plain], download' \subseteq download
    PROVE  BooksOK'
  BY DEF TypeInv, BooksOK, ours

LEMMA SightingTyped ==
    ASSUME TypeInv, NEW p \in Peer, Sighting(p)
    PROVE  RosterOK'
  <1>1. CASE p \in Plain
    BY <1>1, PeerAssumption, BoundAssumption DEF TypeInv, RosterOK, Sighting, Peer
  <1>2. CASE p \notin Plain
    BY <1>2, PartsKept DEF Sighting
  <1>. QED  BY <1>1, <1>2

LEMMA LostTyped ==
    ASSUME TypeInv, NEW p \in Peer, Lost(p)
    PROVE  RosterOK'
  BY BoundAssumption DEF TypeInv, RosterOK, Lost, Peer

\* Whatever comes in is from a peer.
LEMMA InIsForUs ==
    ASSUME TypeInv, NEW a \in net, a.to = Us
    PROVE  ForUs(a)
  BY PeerAssumption DEF TypeInv, NetOK, FromUs, Peer

LEMMA ReceiveTyped == ASSUME TypeInv, NEW a \in net, Receive(a) PROVE TypeInv'
  <1>1. CASE RecvEntry(a)
    <2>1. ForUs(a)
      BY <1>1, InIsForUs DEF RecvEntry, Incoming
    <2>2. RosterOK'
      BY <1>1, <2>1, SightingTyped DEF RecvEntry, ForUs
    <2>3. NetOK'
      <3>. DEFINE New == {Packet("answer", Us, p, name) : p \in {q \in {a.from} : There(q)}}
      <3>1. \A b \in New : FromUs(b)
        BY <2>1, OutIsOurs DEF TypeInv, ServiceOK, ForUs
      <3>2. \A b : FromUs(b)' <=> FromUs(b)
        BY <1>1 DEF FromUs, RecvEntry, service
      <3>3. net' = (net \ {a}) \cup New
        BY <1>1 DEF RecvEntry
      <3>4. name' = name /\ peer' = peer /\ name \in Nat
        BY <1>1 DEF RecvEntry, service, TypeInv, ServiceOK
      <3>. HIDE DEF New
      <3>. QED  BY <3>1, <3>2, <3>3, <3>4, NetKept
    <2>. QED  BY <1>1, <2>2, <2>3, PartsKept DEF TypeInv, RecvEntry, service
  <1>2. CASE RecvAnswer(a)
    <2>1. RosterOK'
      BY <1>2, InIsForUs, SightingTyped DEF RecvAnswer, Incoming, ForUs
    <2>2. NetOK'
      BY <1>2, Taken DEF RecvAnswer, service
    <2>. QED  BY <1>2, <2>1, <2>2, PartsKept DEF TypeInv, RecvAnswer, service
  <1>3. CASE RecvExit(a)
    <2>1. RosterOK'
      BY <1>3, InIsForUs, LostTyped DEF RecvExit, Incoming, ForUs
    <2>2. NetOK'
      BY <1>3, Taken DEF RecvExit, service
    <2>. QED  BY <1>3, <2>1, <2>2, PartsKept DEF TypeInv, RecvExit, service
  <1>4. CASE RecvText(a)
    <2>1. a.ref \in Number
      BY <1>4, InIsForUs DEF RecvText, Incoming, ForUs
    <2>2. Event("text", a.ref) \in [kind : Kinds, ref : Number]
      BY <2>1 DEF Event, Kinds
    <2>3. BooksOK'
      BY <1>4, <2>1, <2>2, Pumped DEF RecvText, files, ours, TypeInv, BooksOK
    <2>4. NetOK'
      BY <1>4, Taken DEF RecvText, service
    <2>. QED  BY <1>4, <2>3, <2>4, PartsKept DEF TypeInv, RecvText, service
  <1>5. CASE RecvOffer(a)
    <2>1. a.ref \in Number /\ a.from \in Plain
      BY <1>5, InIsForUs DEF RecvOffer, Incoming, ForUs
    <2>2. Event("offered", a.ref) \in [kind : Kinds, ref : Number]
      BY <2>1 DEF Event, Kinds
    <2>3. BooksOK'
      BY <1>5, <2>1, <2>2, Pumped DEF RecvOffer, ours, TypeInv, BooksOK
    <2>4. NetOK'
      BY <1>5, Taken DEF RecvOffer, service
    <2>. QED  BY <1>5, <2>3, <2>4, PartsKept DEF TypeInv, RecvOffer, service
  <1>6. CASE Filtered(a)
    BY <1>6, PartsKept, Taken DEF TypeInv, Filtered, service
  <1>7. CASE PeerAnswers(a)
    <2>1. FromUs(a) /\ a.to \in Peer
      BY <1>7 DEF PeerAnswers, TypeInv, NetOK, FromUs, ForUs, Peer
    <2>2. PeersOK'
      BY <1>7, <2>1 DEF PeerAnswers, TypeInv, PeersOK, FromUs, service
    <2>3. \A b : FromUs(b) => FromUs(b)'
      BY <1>7, <2>1 DEF PeerAnswers, TypeInv, PeersOK, FromUs, service, Peer
    <2>4. \A b \in FromPeer(a.to, {"answer"}, 0) : ForUs(b)
      BY <2>1, FromPeerIsForUs
    <2>5. NetOK'
      BY <1>7, <2>3, <2>4 DEF PeerAnswers, TypeInv, NetOK, ForUs
    <2>. QED  BY <1>7, <2>2, <2>5, PartsKept DEF TypeInv, PeerAnswers, service
  <1>8. CASE PeerHears(a)
    <2>1. FromUs(a) /\ a.to \in Peer
      BY <1>8 DEF PeerHears, TypeInv, NetOK, FromUs, ForUs, Peer
    <2>2. PeersOK'
      BY <1>8, <2>1 DEF PeerHears, TypeInv, PeersOK, FromUs, service, ServiceOK
    <2>3. \A b : FromUs(b) => FromUs(b)'
      BY <1>8, <2>1 DEF PeerHears, TypeInv, PeersOK, FromUs, service, Peer
    <2>4. NetOK'
      BY <1>8, <2>3 DEF PeerHears, TypeInv, NetOK, ForUs
    <2>. QED  BY <1>8, <2>2, <2>4, PartsKept DEF TypeInv, PeerHears, service
  <1>. QED  BY <1>1, <1>2, <1>3, <1>4, <1>5, <1>6, <1>7, <1>8 DEF Receive

LEMMA LoopEndsTyped == ASSUME TypeInv, NEW l \in loops, LoopEnds(l) PROVE TypeInv'
  <1>1. ServiceOK'
    BY DEF TypeInv, ServiceOK, LoopEnds
  <1>. QED  BY <1>1, PartsKept, Taken DEF TypeInv, LoopEnds

-----------------------------------------------------------------------------
(* The contact list, storing, and the commands. *)

LEMMA ListTyped ==
    ASSUME TypeInv, NEW p \in Peer, Expire(p) \/ Evict(p)
    PROVE  TypeInv'
  <1>1. RosterOK'
    <2>1. CASE Expire(p)
      BY <2>1, LostTyped DEF Expire
    <2>2. CASE Evict(p)
      BY <2>2, BoundAssumption DEF Evict, TypeInv, RosterOK, Peer
    <2>. QED  BY <2>1, <2>2
  <1>2. UNCHANGED <<service, peer, net, pump, texts, acked, ours, files, command, budget>>
    BY DEF Expire, Evict
  <1>. QED  BY <1>1, <1>2, PartsKept, Taken DEF TypeInv, service

LEMMA TickTyped == ASSUME TypeInv, Tick PROVE TypeInv'
  <1>1. ServiceOK'
    BY DEF TypeInv, ServiceOK, Tick
  <1>2. RosterOK'
    BY BoundAssumption DEF TypeInv, RosterOK, Tick, Older, Peer
  <1>. QED  BY <1>1, <1>2, PartsKept, Taken DEF TypeInv, Tick

LEMMA UpdatedTyped ==
    ASSUME TypeInv, NEW x \in Number, NEW status \in {"active"} \cup Final
    PROVE  Updated(x, status) \in [Number -> {"none", "offered", "active"} \cup Final]
  BY DEF TypeInv, BooksOK, Updated, Final

\* A write that is accepted or refused.
LEMMA WriteTyped ==
    ASSUME TypeInv, NEW what \in {"texts", "files"}, NEW n \in Number,
           Accepted \/ Refused(what, n), name' = name
    PROVE  NamesAreMoves' /\ missed' \in [texts : SUBSET Number, files : SUBSET Number]
  <1>1. NamesAreMoves'
    BY OtherSpent DEF Accepted, Refused, TypeInv
  <1>2. missed \in [texts : SUBSET Number, files : SUBSET Number]
    BY DEF TypeInv, BooksOK
  <1>3. missed' \in [texts : SUBSET Number, files : SUBSET Number]
    <2>1. CASE Accepted
      BY <1>2, <2>1 DEF Accepted
    <2>2. CASE Refused(what, n) /\ what = "texts"
      BY <1>2, <2>2 DEF Refused
    <2>3. CASE Refused(what, n) /\ what = "files"
      BY <1>2, <2>3 DEF Refused
    <2>. QED  BY <2>1, <2>2, <2>3
  <1>. QED  BY <1>1, <1>3

LEMMA StoreTyped == ASSUME TypeInv, StoreText \/ StoreTransfer PROVE TypeInv'
  <1>1. pump # <<>> /\ pump' = Tail(pump)
    BY DEF StoreText, StoreTransfer, Stored
  <1>2. Head(pump) \in [kind : Kinds, ref : Number] /\ pump' \in Seq([kind : Kinds, ref : Number])
    <2>. DEFINE E == [kind : Kinds, ref : Number]
    <2>1. pump \in Seq(E)
      BY DEF TypeInv, BooksOK
    <2>. HIDE DEF E
    <2>2. Head(pump) \in E /\ Tail(pump) \in Seq(E)
      BY <1>1, <2>1
    <2>. QED  BY <1>1, <2>2 DEF E
  <1>3. Head(pump).ref \in Number /\ name' = name
    BY <1>2 DEF StoreText, StoreTransfer, service
  <1>4. NamesAreMoves' /\ BooksOK'
    <2>1. CASE StoreText
      <3>1. NamesAreMoves' /\ missed' \in [texts : SUBSET Number, files : SUBSET Number]
        BY <1>3, <2>1, WriteTyped DEF StoreText
      <3>2. texts' \subseteq Number
        BY <1>3, <2>1 DEF StoreText, TypeInv, BooksOK
      <3>. QED  BY <1>2, <2>1, <3>1, <3>2 DEF StoreText, TypeInv, BooksOK, files
    <2>2. CASE StoreTransfer
      <3>1. NamesAreMoves' /\ missed' \in [texts : SUBSET Number, files : SUBSET Number]
        BY <1>3, <2>2, WriteTyped DEF StoreTransfer
      <3>2. row' \in [Number -> {"none", "offered", "active"} \cup Final]
        <4>1. CASE row' = row
          BY <4>1 DEF TypeInv, BooksOK
        <4>2. CASE row' # row /\ Head(pump).kind = "offered"
          BY <2>2, <4>2 DEF StoreTransfer, TypeInv, BooksOK
        <4>3. CASE row' # row /\ Head(pump).kind # "offered"
          <5>1. row' = Updated(Head(pump).ref, Head(pump).kind) /\ Head(pump).kind \in Final
            BY <2>2, <4>3 DEF StoreTransfer, Stored, Final
          <5>. QED  BY <1>3, <5>1, UpdatedTyped
        <4>. QED  BY <4>1, <4>2, <4>3
      <3>. QED  BY <1>2, <2>2, <3>1, <3>2 DEF StoreTransfer, TypeInv, BooksOK
    <2>. QED  BY <2>1, <2>2
  <1>5. UNCHANGED <<service, peer, net, roster, command>>
    BY DEF StoreText, StoreTransfer
  <1>. QED  BY <1>4, <1>5, PartsKept, Taken DEF TypeInv, service

\* A command that leaves the service and the network alone.
LEMMA CommandKeeps ==
    ASSUME TypeInv, BooksOK', CommandOK', UNCHANGED <<service, peer, net, roster>>,
           NamesAreMoves'
    PROVE  TypeInv'
  BY PartsKept, Taken DEF TypeInv, service

LEMMA SetTyped ==
    ASSUME TypeInv, SetNick \/ \E r \in Ranges : SetRange(r)
    PROVE  TypeInv'
  <1>1. Spend("moves") /\ name' \in {name, name + 1} /\ name \in Nat
    BY DEF SetNick, SetRange, TypeInv, ServiceOK
  <1>2. NamesAreMoves'
    BY <1>1, MoveSpent DEF TypeInv, NamesAreMoves
  <1>3. ServiceOK'
    <2>1. CASE SetNick
      BY <2>1 DEF SetNick, TypeInv, ServiceOK
    <2>2. CASE \E r \in Ranges : SetRange(r)
      <3>1. range' \subseteq Peer
        BY <2>2, PeerAssumption DEF SetRange
      <3>2. UNCHANGED <<us, loops, due, name>>
        BY <2>2 DEF SetRange
      <3>. QED  BY <3>1, <3>2 DEF TypeInv, ServiceOK
    <2>. QED  BY <2>1, <2>2
  <1>4. UNCHANGED <<peer, pump, roster, texts, acked, ours, files, command>>
    BY DEF SetNick, SetRange
  <1>5. PeersOK'
    BY <1>1, <1>4 DEF TypeInv, PeersOK
  <1>6. NetOK'
    <2>1. CASE SetNick
      <3>1. \A a \in ToAll("entry", name') : FromUs(a)'
        BY <1>1, <2>1 DEF SetNick, ToAll, Packet, There, FromUs, TypeInv, ServiceOK
      <3>. QED  BY <1>1, <2>1, <3>1, NetKept DEF SetNick
    <2>2. CASE \E r \in Ranges : SetRange(r)
      BY <2>2, Taken DEF SetRange
    <2>. QED  BY <2>1, <2>2
  <1>. QED  BY <1>2, <1>3, <1>4, <1>5, <1>6, PartsKept DEF TypeInv

LEMMA SendTyped ==
    ASSUME TypeInv, NEW kind \in {"texts", "files"}, NEW p \in Plain, Send(kind, p)
    PROVE  TypeInv'
  <1>1. Fresh \in Number
    BY MoveSpent DEF Send, TypeInv
  <1>2. NamesAreMoves'
    BY MoveSpent DEF Send, TypeInv, service, NamesAreMoves
  <1>3. BooksOK'
    BY PartsKept DEF Send
  <1>4. CommandOK'
    BY <1>1 DEF Send, CommandOK
  <1>. QED  BY <1>2, <1>3, <1>4, CommandKeeps DEF Send

LEMMA FinishTyped ==
    ASSUME TypeInv, NEW kind \in {"texts", "files"}, Finish(kind)
    PROVE  TypeInv'
  <1>1. command.ref \in Number /\ name' = name
    BY DEF TypeInv, CommandOK, Finish, Ready, service
  <1>2. NamesAreMoves' /\ missed' \in [texts : SUBSET Number, files : SUBSET Number]
    BY <1>1, WriteTyped DEF Finish
  <1>3. kept' \in [texts : SUBSET Number, files : SUBSET Number]
    <2>1. kept \in [texts : SUBSET Number, files : SUBSET Number]
      BY DEF TypeInv, BooksOK
    <2>2. CASE kind = "texts"
      BY <1>1, <2>1, <2>2 DEF Finish
    <2>3. CASE kind = "files"
      BY <1>1, <2>1, <2>3 DEF Finish
    <2>. QED  BY <2>2, <2>3
  <1>4. BooksOK'
    BY <1>2, <1>3 DEF Finish, TypeInv, BooksOK, files
  <1>5. CommandOK'
    BY DEF Finish, CommandOK
  <1>6. UNCHANGED <<service, peer, net, roster>>
    BY DEF Finish
  <1>. QED  BY <1>2, <1>4, <1>5, <1>6, CommandKeeps

LEMMA AnswerTyped ==
    ASSUME TypeInv, NEW x \in Number, Accept(x) \/ Reject(x)
    PROVE  TypeInv'
  <1>1. BooksOK'
    <2>1. offers' \subseteq offers /\ download' \subseteq download \cup {x} /\ void' \subseteq void \cup {x}
      BY DEF Accept, Reject
    <2>2. UNCHANGED <<pump, texts, acked, ours, row>>
      BY DEF Accept, Reject
    <2>. QED  BY <2>1, <2>2 DEF TypeInv, BooksOK, ours
  <1>2. CommandOK'
    BY DEF Accept, Reject, TypeInv, CommandOK
  <1>3. UNCHANGED <<service, peer, net, roster, budget>>
    BY DEF Accept, Reject
  <1>. QED  BY <1>1, <1>2, <1>3, CommandKeeps, PartsKept DEF service

LEMMA RespondFinishTyped == ASSUME TypeInv, RespondFinish PROVE TypeInv'
  <1>1. command.ref \in Number /\ name' = name
    BY DEF TypeInv, CommandOK, RespondFinish, Ready, service
  <1>2. NamesAreMoves' /\ missed' \in [texts : SUBSET Number, files : SUBSET Number]
    BY <1>1, WriteTyped DEF RespondFinish
  <1>3. row' \in [Number -> {"none", "offered", "active"} \cup Final]
    <2>1. row' = row \/ row' = Updated(command.ref, command.pc)
      BY DEF RespondFinish
    <2>2. command.pc \in {"active"} \cup Final
      BY DEF RespondFinish, Final
    <2>3. Updated(command.ref, command.pc) \in [Number -> {"none", "offered", "active"} \cup Final]
      BY <1>1, <2>2, UpdatedTyped
    <2>. QED  BY <2>1, <2>3 DEF TypeInv, BooksOK
  <1>4. BooksOK' /\ CommandOK'
    BY <1>2, <1>3 DEF RespondFinish, TypeInv, BooksOK, CommandOK
  <1>5. UNCHANGED <<service, peer, net, roster>>
    BY DEF RespondFinish
  <1>. QED  BY <1>2, <1>4, <1>5, CommandKeeps

LEMMA DownloadEndsTyped ==
    ASSUME TypeInv, NEW x \in Number, NEW outcome \in {"done", "failed"},
           DownloadEnds(x, outcome)
    PROVE  TypeInv'
  <1>1. Event(outcome, x) \in [kind : Kinds, ref : Number]
    BY DEF Event, Kinds
  <1>2. BooksOK'
    BY <1>1, Pumped DEF DownloadEnds, TypeInv, BooksOK
  <1>3. UNCHANGED <<service, peer, net, roster, command, budget>>
    BY DEF DownloadEnds
  <1>. QED  BY <1>2, <1>3, CommandKeeps, PartsKept DEF service

LEMMA DownloadPanicsTyped == ASSUME TypeInv, NEW x \in Number, DownloadPanics(x) PROVE TypeInv'
  <1>1. BooksOK'
    BY DEF DownloadPanics, TypeInv, BooksOK, ours
  <1>2. UNCHANGED <<service, peer, net, roster, command, budget>>
    BY DEF DownloadPanics
  <1>. QED  BY <1>1, <1>2, CommandKeeps, PartsKept DEF service

-----------------------------------------------------------------------------
(* The end of the process, its start, and the peers. *)

LEMMA ShutdownTyped == ASSUME TypeInv, Goodbye \/ NoGoodbye PROVE TypeInv'
  <1>1. name' = name /\ peer' = peer /\ Spend("exits")
    BY DEF Goodbye, NoGoodbye
  <1>2. ServiceOK' /\ NamesAreMoves'
    BY <1>1, OtherSpent DEF Goodbye, NoGoodbye, TypeInv, ServiceOK
  <1>3. NetOK'
    <2>1. \A a \in ToAll("exit", 0) : FromUs(a)
      BY OutIsOurs DEF ToAll, TypeInv, ServiceOK
    <2>2. \A a : FromUs(a)' <=> FromUs(a)
      BY <1>1 DEF FromUs
    <2>3. net' \subseteq net \cup ToAll("exit", 0)
      BY DEF Goodbye, NoGoodbye
    <2>. QED  BY <1>1, <2>1, <2>2, <2>3, NetKept DEF TypeInv, ServiceOK
  <1>4. UNCHANGED <<pump, roster, texts, acked, ours, files, command>>
    BY DEF Goodbye, NoGoodbye
  <1>. QED  BY <1>1, <1>2, <1>3, <1>4, PartsKept DEF TypeInv

LEMMA ExitTyped == ASSUME TypeInv, Exit PROVE TypeInv'
  <1>1. name' = name /\ peer' = peer /\ net' \subseteq net
    BY DEF Exit
  <1>2. NamesAreMoves'
    BY <1>1, OtherSpent DEF Exit, TypeInv
  <1>3. ServiceOK' /\ CommandOK'
    BY DEF Exit, TypeInv, ServiceOK, CommandOK
  <1>4. BooksOK'
    <2>1. <<>> \in Seq([kind : Kinds, ref : Number])
      OBVIOUS
    <2>2. pump' = <<>> /\ offers' = {} /\ download' = {}
      BY DEF Exit
    <2>3. /\ kept' \in [texts : SUBSET Number, files : SUBSET Number]
          /\ void' \subseteq Number /\ UNCHANGED <<texts, acked, row>>
      BY DEF Exit, TypeInv, BooksOK
    <2>4. {e.ref : e \in {f \in Range(pump) : f.kind = "text"}} \subseteq Number
      <3>. DEFINE E == [kind : Kinds, ref : Number]
      <3>1. pump \in Seq(E)
        BY DEF TypeInv, BooksOK
      <3>2. \A i \in DOMAIN pump : pump[i] \in E
        <4>. HIDE DEF E
        <4>. QED  BY <3>1
      <3>. QED  BY <3>2 DEF Range
    <2>5. {n \in {command.ref} : command.pc = "texts"} \subseteq Number
      BY DEF TypeInv, CommandOK, Ready
    <2>6. missed' \in [texts : SUBSET Number, files : SUBSET Number]
      BY <2>4, <2>5 DEF Exit, TypeInv, BooksOK
    <2>. QED  BY <2>1, <2>2, <2>3, <2>6 DEF TypeInv, BooksOK
  <1>5. RosterOK'
    BY BoundAssumption DEF Exit, TypeInv, RosterOK, Peer
  <1>. QED  BY <1>1, <1>2, <1>3, <1>4, <1>5, PartsKept, Taken DEF TypeInv

LEMMA StartTyped == ASSUME TypeInv, Start PROVE TypeInv'
  <1>1. ServiceOK'
    BY DEF TypeInv, ServiceOK, Start
  <1>2. NamesAreMoves'
    BY MoveSpent DEF Start, TypeInv, NamesAreMoves
  <1>. QED  BY <1>1, <1>2, PartsKept, Taken DEF TypeInv, Start

LEMMA PeerMoves ==
    ASSUME TypeInv, Spend("moves"), PeersOK', NetOK',
           UNCHANGED <<service, pump, roster, texts, acked, ours, files, command>>
    PROVE  TypeInv'
  <1>1. NamesAreMoves'
    BY MoveSpent DEF TypeInv, NamesAreMoves, service
  <1>. QED  BY <1>1, PartsKept DEF TypeInv

LEMMA PeerStartsTyped == ASSUME TypeInv, NEW p \in Peer, PeerStarts(p) PROVE TypeInv'
  <1>1. PeersOK'
    BY DEF PeerStarts, TypeInv, PeersOK, service, ServiceOK
  <1>2. \A a : FromUs(a) => FromUs(a)'
    BY DEF PeerStarts, TypeInv, PeersOK, FromUs, service, Peer
  <1>3. \A a \in FromPeer(p, {"entry"}, 0) : ForUs(a)
    BY FromPeerIsForUs
  <1>4. NetOK'
    BY <1>2, <1>3 DEF PeerStarts, TypeInv, NetOK, ForUs
  <1>. QED  BY <1>1, <1>4, PeerMoves DEF PeerStarts

LEMMA PeerEndsTyped ==
    ASSUME TypeInv, NEW p \in Plain, NEW kinds \in SUBSET {"exit"}, PeerEnds(p, kinds)
    PROVE  TypeInv'
  <1>1. PeersOK'
    BY DEF PeerEnds, TypeInv, PeersOK, service, ServiceOK, Peer
  <1>2. \A a : FromUs(a) /\ a.to # p => FromUs(a)'
    BY DEF PeerEnds, TypeInv, PeersOK, FromUs, service, Peer
  <1>3. \A a \in FromPeer(p, kinds, 0) : ForUs(a)
    BY FromPeerIsForUs DEF Peer
  <1>4. NetOK'
    BY <1>2, <1>3 DEF PeerEnds, TypeInv, NetOK, ForUs
  <1>. QED  BY <1>1, <1>4, PeerMoves DEF PeerEnds

LEMMA PeerSendsTyped ==
    ASSUME TypeInv, NEW p \in Plain, NEW kind \in {"text", "offer"}, PeerSends(p, kind)
    PROVE  TypeInv'
  <1>1. Fresh \in Number
    BY MoveSpent DEF PeerSends, TypeInv
  <1>2. \A a \in FromPeer(p, {kind}, Fresh) : ForUs(a)
    BY <1>1, FromPeerIsForUs DEF Peer
  <1>3. NetOK'
    BY <1>2, NetKept DEF PeerSends, TypeInv, ServiceOK, service
  <1>4. PeersOK'
    BY PartsKept DEF PeerSends, service
  <1>. QED  BY <1>3, <1>4, PeerMoves DEF PeerSends

LEMMA LoseTyped == ASSUME TypeInv, NEW a \in net, Lose(a) PROVE TypeInv'
  <1>1. NamesAreMoves'
    BY OtherSpent DEF Lose, TypeInv, service
  <1>2. NetOK'
    BY Taken DEF Lose, service
  <1>. QED  BY <1>1, <1>2, PartsKept DEF TypeInv, Lose, service

-----------------------------------------------------------------------------
LEMMA InitTyped == ASSUME Init PROVE TypeInv
  <1>1. ServiceOK /\ CommandOK /\ RosterOK /\ PeersOK /\ NetOK
    BY PeerAssumption, BoundAssumption
       DEF Init, ServiceOK, CommandOK, RosterOK, PeersOK, NetOK, Peer
  <1>2. NamesAreMoves
    BY BoundAssumption DEF Init, NamesAreMoves, Budget, Fresh
  <1>3. BooksOK
    <2>1. <<>> \in Seq([kind : Kinds, ref : Number])
      OBVIOUS
    <2>. QED  BY <2>1 DEF Init, BooksOK
  <1>. QED  BY <1>1, <1>2, <1>3 DEF TypeInv

LEMMA StepTyped == ASSUME TypeInv, [Next]_vars PROVE TypeInv'
  <1>1. CASE Runs
    BY <1>1, SendEntryTyped, TickTyped, StoreTyped, RespondFinishTyped, FinishTyped,
       ReceiveTyped, LoopEndsTyped, ListTyped DEF Runs
  <1>2. CASE SetNick \/ \E r \in Ranges : SetRange(r)
    BY <1>2, SetTyped
  <1>3. CASE Goodbye \/ NoGoodbye \/ Exit \/ Start
    BY <1>3, ShutdownTyped, ExitTyped, StartTyped
  <1>4. CASE \E p \in Peer : PeerStarts(p)
    BY <1>4, PeerStartsTyped
  <1>5. CASE \E p \in Plain : PeerEnds(p, {}) \/ PeerEnds(p, {"exit"})
    BY <1>5, PeerEndsTyped
  <1>6. CASE \E p \in Plain, kind \in {"texts", "files"} : Send(kind, p)
    BY <1>6, SendTyped
  <1>7. CASE \E p \in Plain, kind \in {"text", "offer"} : PeerSends(p, kind)
    BY <1>7, PeerSendsTyped
  <1>8. CASE \E x \in Number : Accept(x) \/ Reject(x) \/ DownloadPanics(x)
    BY <1>8, AnswerTyped, DownloadPanicsTyped
  <1>9. CASE \E x \in Number, outcome \in {"done", "failed"} : DownloadEnds(x, outcome)
    BY <1>9, DownloadEndsTyped
  <1>10. CASE \E a \in net : Lose(a)
    BY <1>10, LoseTyped
  <1>11. CASE UNCHANGED vars
    BY <1>11, PartsKept, Taken DEF TypeInv, vars, service
  <1>. QED
    BY <1>1, <1>2, <1>3, <1>4, <1>5, <1>6, <1>7, <1>8, <1>9, <1>10, <1>11 DEF Next

\* The invariant holds in every reachable state (all of the layer).
THEOREM TypeInvariant == Spec => []TypeInv
  BY InitTyped, StepTyped, PTL DEF Spec

\* Types; and a BigPaw peer is never listed as one of the old protocol
\* (forward_ipmsg_event): in every reachable state, for any peers and ranges.
THEOREM TypeCorrect == Spec => []TypeOK
  <1>1. ASSUME TypeInv PROVE TypeOK
    <2>1. name \in 1 .. MaxMoves + 1
      BY <1>1, BoundAssumption DEF TypeInv, NamesAreMoves, Budget, Fresh
    <2>2. \A i \in DOMAIN pump : pump[i].kind \in {"text", "offered", "done", "failed"}
      <3>. DEFINE E == [kind : Kinds, ref : Number]
      <3>1. pump \in Seq(E)
        BY <1>1 DEF TypeInv, BooksOK
      <3>2. \A i \in DOMAIN pump : pump[i] \in E
        <4>. HIDE DEF E
        <4>. QED  BY <3>1
      <3>. QED  BY <3>2 DEF Kinds
    <2>3. command.pc \in {"ready", "texts", "files", "active", "rejected"}
      BY <1>1 DEF TypeInv, CommandOK, Ready
    <2>. QED  BY <1>1, <2>1, <2>2, <2>3 DEF TypeInv, TypeOK, ServiceOK, BooksOK, RosterOK, PeersOK
  <1>. QED  BY <1>1, TypeInvariant, PTL

-----------------------------------------------------------------------------
(* The goodbye.                                                                *)
(*                                                                             *)
(* A peer that is not there knows nothing of us.  While the process runs, nobody*)
(* counts as told.  Someone who is told has nothing of ours on its way but a    *)
(* goodbye, and that, or what it knows, is empty.                               *)

StrangersKnowNothing == \A p \in Peer : p \in Kin \/ ~peer[p].up => peer[p].knows = 0

Greeting(a, p) == a.from = Us /\ a.to = p /\ a.kind # "exit"
Parting(a, p)  == a.from = Us /\ a.to = p /\ a.kind = "exit"

WordStands(p) ==
    /\ \A a \in net : ~Greeting(a, p)
    /\ peer[p].knows = 0 \/ \E a \in net : Parting(a, p)

LastWord ==
    /\ us \in {"up", "orphan"} => told = {}
    /\ told \subseteq Peer
    /\ \A p \in told : WordStands(p)

\* Enough for the last word to stand: what is dropped is for us, what is added too.
LEMMA WordKept ==
    ASSUME TypeInv, LastWord, told' \subseteq told, us' \in {"up", "orphan"} => told' = {},
           \A p \in told' : peer'[p].knows \in {0, peer[p].knows},
           \A a \in net : a.to \in told' => a \in net',
           \A a \in net' : a \in net \/ a.to \notin told'
    PROVE  LastWord'
  <1>1. \A a, p : (Greeting(a, p) <=> Greeting(a, p)') /\ (Parting(a, p) <=> Parting(a, p)')
    BY DEF Greeting, Parting
  <1>2. ASSUME NEW p \in told' PROVE WordStands(p)'
    <2>1. WordStands(p)
      BY <1>2 DEF LastWord
    <2>2. \A a \in net' : ~Greeting(a, p)'
      BY <1>1, <1>2, <2>1 DEF WordStands, Greeting
    <2>3. peer[p].knows = 0 => peer'[p].knows = 0
      BY <1>2
    <2>4. (\E a \in net : Parting(a, p)) => \E a \in net' : Parting(a, p)'
      BY <1>1, <1>2 DEF Parting
    <2>5. peer'[p].knows = 0 \/ \E a \in net' : Parting(a, p)'
      BY <2>1, <2>3, <2>4 DEF WordStands
    <2>. QED  BY <2>2, <2>5 DEF WordStands
  <1>. QED  BY <1>2 DEF LastWord

\* What is said to all is said to peers within the range.
LEMMA SaidInRange ==
    ASSUME NEW kind, NEW ref, NEW a \in ToAll(kind, ref)
    PROVE  a.to \in range /\ a.from = Us /\ a.kind = kind
  BY DEF ToAll, Packet

LEMMA RecvKeepsWord ==
    ASSUME TypeInv, LastWord, NEW a \in net, Receive(a)
    PROVE  LastWord'
  <1>1. CASE RecvEntry(a)
    <2>1. net' = (net \ {a}) \cup {Packet("answer", Us, p, name) : p \in {q \in {a.from} : There(q)}}
      BY <1>1 DEF RecvEntry
    <2>2. ForUs(a) /\ told' = told \ {a.from} /\ UNCHANGED <<us, peer>>
      BY <1>1, InIsForUs DEF RecvEntry, Incoming, service
    <2>3. \A b \in net' : b \in net \/ b.to = a.from
      BY <2>1 DEF Packet
    <2>4. Us \notin told'
      BY <2>2, PeerAssumption DEF LastWord
    <2>5. \A b \in net : b.to \in told' => b \in net'
      BY <2>1, <2>2, <2>4 DEF ForUs
    <2>. QED  BY <2>2, <2>3, <2>5, WordKept DEF LastWord
  <1>2. CASE RecvAnswer(a) \/ RecvExit(a) \/ RecvText(a) \/ RecvOffer(a) \/ Filtered(a)
    <2>1. net' = net \ {a} /\ a.to = Us /\ UNCHANGED <<us, peer, told>>
      BY <1>2 DEF RecvAnswer, RecvExit, RecvText, RecvOffer, Filtered, Incoming, service
    <2>2. Us \notin told
      BY PeerAssumption DEF LastWord
    <2>. QED  BY <2>1, <2>2, WordKept DEF LastWord
  <1>3. CASE PeerAnswers(a)
    <2>1. FromUs(a) /\ a.to \in Peer /\ a.kind = "entry"
      BY <1>3 DEF PeerAnswers, TypeInv, NetOK, FromUs, ForUs, Peer
    <2>2. a.to \notin told
      BY <2>1 DEF LastWord, WordStands, Greeting, FromUs
    <2>3. UNCHANGED <<us, told>> /\ \A p \in told : peer'[p] = peer[p]
      BY <1>3, <2>2 DEF PeerAnswers, service, TypeInv, PeersOK, LastWord
    <2>4. Us \notin told
      BY PeerAssumption DEF LastWord
    <2>5. /\ \A b \in net : b.to \in told' => b \in net'
          /\ \A b \in net' : b \in net \/ b.to \notin told'
      BY <1>3, <2>2, <2>3, <2>4 DEF PeerAnswers, FromPeer, Packet
    <2>. QED  BY <2>3, <2>5, WordKept DEF LastWord
  <1>4. CASE PeerHears(a)
    <2>1. FromUs(a) /\ a.to \in Peer
      BY <1>4 DEF PeerHears, TypeInv, NetOK, FromUs, ForUs, Peer
    <2>2. UNCHANGED <<us, told>> /\ net' = net \ {a}
      BY <1>4 DEF PeerHears, service
    <2>3. CASE a.to \notin told
      <3>1. \A p \in told : peer'[p] = peer[p]
        BY <1>4, <2>3 DEF PeerHears, TypeInv, PeersOK, LastWord
      <3>. QED  BY <2>2, <2>3, <3>1, WordKept DEF LastWord
    <2>4. CASE a.to \in told
      <3>1. a.kind = "exit"
        BY <2>1, <2>4 DEF LastWord, WordStands, Greeting, FromUs
      <3>2. /\ peer'[a.to].knows = 0
            /\ \A p \in told : p # a.to => peer'[p] = peer[p]
        BY <1>4, <2>1, <3>1 DEF PeerHears, TypeInv, PeersOK, LastWord
      <3>3. ASSUME NEW p \in told' PROVE WordStands(p)'
        <4>1. WordStands(p)
          BY <2>2, <3>3 DEF LastWord
        <4>2. \A b \in net' : ~Greeting(b, p)'
          BY <2>2, <4>1 DEF WordStands, Greeting
        <4>3. CASE p = a.to
          BY <3>2, <4>2, <4>3 DEF WordStands
        <4>4. CASE p # a.to
          <5>1. peer'[p] = peer[p]
            BY <2>2, <3>2, <3>3, <4>4
          <5>2. (\E b \in net : Parting(b, p)) => \E b \in net' : Parting(b, p)'
            BY <2>2, <4>4 DEF Parting
          <5>3. peer'[p].knows = 0 \/ \E b \in net' : Parting(b, p)'
            BY <4>1, <5>1, <5>2 DEF WordStands
          <5>. QED  BY <4>2, <5>3 DEF WordStands
        <4>. QED  BY <4>3, <4>4
      <3>. QED  BY <2>2, <3>3 DEF LastWord
    <2>. QED  BY <2>3, <2>4
  <1>. QED  BY <1>1, <1>2, <1>3, <1>4 DEF Receive

LEMMA LoseKeepsWord ==
    ASSUME TypeInv, LastWord, NEW a \in net, Lose(a)
    PROVE  LastWord'
  <1>1. net' = net \ {a} /\ UNCHANGED <<us, peer>> /\ told' \subseteq told
    BY DEF Lose, service
  <1>2. CASE a.to \in told'
    <2>1. ~(a.kind = "exit" /\ a.from = Us)
      BY <1>2 DEF Lose
    <2>2. a.from # Us \/ a.kind # "exit"
      BY <2>1
    <2>3. FromUs(a)
      BY <1>1, <1>2, PeerAssumption DEF LastWord, TypeInv, NetOK, ForUs
    <2>. QED  BY <1>1, <1>2, <2>2, <2>3 DEF LastWord, WordStands, Greeting, FromUs
  <1>3. CASE a.to \notin told'
    BY <1>1, <1>3, WordKept DEF LastWord
  <1>. QED  BY <1>2, <1>3

LEMMA GoodbyeIsTheLastWord ==
    ASSUME TypeInv, StrangersKnowNothing, Goodbye
    PROVE  LastWord'
  <1>1. /\ told' = range \ InFlight /\ us' = "leaving" /\ peer' = peer
        /\ net' = net \cup ToAll("exit", 0)
    BY DEF Goodbye
  <1>2. told' \subseteq Peer
    BY <1>1 DEF TypeInv, ServiceOK
  <1>3. ASSUME NEW p \in told' PROVE WordStands(p)'
    <2>1. \A a \in net : ~Greeting(a, p)
      BY <1>1, <1>2, <1>3, PeerAssumption DEF InFlight, Greeting, TypeInv, NetOK, FromUs, ForUs
    <2>2. \A a \in net' : ~Greeting(a, p)'
      BY <1>1, <2>1, SaidInRange DEF Greeting
    <2>3. CASE There(p)
      <3>1. Packet("exit", Us, p, 0) \in net'
        BY <1>1, <1>3, <2>3 DEF ToAll
      <3>2. Parting(Packet("exit", Us, p, 0), p)'
        BY DEF Parting, Packet
      <3>. QED  BY <2>2, <3>1, <3>2 DEF WordStands
    <2>4. CASE ~There(p)
      <3>1. peer'[p].knows = 0
        BY <1>1, <1>2, <1>3, <2>4 DEF StrangersKnowNothing, There, Peer
      <3>. QED  BY <2>2, <3>1 DEF WordStands
    <2>. QED  BY <2>3, <2>4
  <1>. QED  BY <1>1, <1>2, <1>3 DEF LastWord

LEMMA PeerMovesKeepWord ==
    ASSUME TypeInv, LastWord, NEW p \in Peer,
           \/ PeerStarts(p)
           \/ \E kinds \in SUBSET {"exit"} : PeerEnds(p, kinds)
           \/ \E kind : PeerSends(p, kind)
    PROVE  LastWord'
  <1>1. UNCHANGED <<us, told>> /\ Us \notin told
    BY PeerAssumption DEF PeerStarts, PeerEnds, PeerSends, service, LastWord
  <1>2. \A a \in net' : a \in net \/ a.to = Us
    BY DEF PeerStarts, PeerEnds, PeerSends, FromPeer, Packet
  <1>3. CASE PeerStarts(p) \/ \E kind : PeerSends(p, kind)
    <2>1. \A q \in told : peer'[q].knows \in {0, peer[q].knows}
      <3>1. CASE PeerStarts(p)
        <4>1. /\ peer'[p].knows = 0 /\ \A q \in Peer : q # p => peer'[q] = peer[q]
              /\ told \subseteq Peer
          BY <3>1 DEF PeerStarts, TypeInv, PeersOK, LastWord
        <4>. QED  BY <4>1
      <3>2. CASE \E kind : PeerSends(p, kind)
        BY <3>2 DEF PeerSends
      <3>. QED  BY <1>3, <3>1, <3>2
    <2>2. net \subseteq net'
      BY <1>3 DEF PeerStarts, PeerSends
    <2>. QED  BY <1>1, <1>2, <2>1, <2>2, WordKept DEF LastWord
  <1>4. CASE \E kinds \in SUBSET {"exit"} : PeerEnds(p, kinds)
    <2>1. /\ peer'[p].knows = 0 /\ \A q \in told : q # p => peer'[q] = peer[q]
          /\ \A a \in net : a.to # p => a \in net'
      BY <1>4 DEF PeerEnds, TypeInv, PeersOK, LastWord
    <2>2. ASSUME NEW q \in told' PROVE WordStands(q)'
      <3>1. WordStands(q)
        BY <1>1, <2>2 DEF LastWord
      <3>2. \A a \in net' : ~Greeting(a, q)'
        BY <1>1, <1>2, <2>2, <3>1 DEF WordStands, Greeting
      <3>3. CASE q = p
        BY <2>1, <3>2, <3>3 DEF WordStands
      <3>4. CASE q # p
        <4>1. peer'[q] = peer[q]
          BY <1>1, <2>1, <2>2, <3>4
        <4>2. (\E a \in net : Parting(a, q)) => \E a \in net' : Parting(a, q)'
          BY <2>1, <3>4 DEF Parting
        <4>3. peer'[q].knows = 0 \/ \E a \in net' : Parting(a, q)'
          BY <3>1, <4>1, <4>2 DEF WordStands
        <4>. QED  BY <3>2, <4>3 DEF WordStands
      <3>. QED  BY <3>3, <3>4
    <2>. QED  BY <1>1, <2>2 DEF LastWord
  <1>. QED  BY <1>3, <1>4

\* Only a peer of the old protocol that is there hears from us.
LEMMA StrangersStep ==
    ASSUME TypeInv, StrangersKnowNothing, [Next]_vars
    PROVE  StrangersKnowNothing'
  <1>1. CASE UNCHANGED peer
    BY <1>1 DEF StrangersKnowNothing
  <1>2. ASSUME NEW a \in net, PeerAnswers(a) \/ PeerHears(a) PROVE StrangersKnowNothing'
    <2>1. FromUs(a) /\ a.to \in Peer
      BY <1>2 DEF PeerAnswers, PeerHears, TypeInv, NetOK, FromUs, ForUs, Peer
    <2>2. \A p \in Peer : p # a.to => peer'[p] = peer[p]
      BY <1>2 DEF PeerAnswers, PeerHears, TypeInv, PeersOK
    <2>3. a.to \notin Kin /\ peer'[a.to].up
      BY <1>2, <2>1, PeerAssumption DEF PeerAnswers, PeerHears, TypeInv, PeersOK, FromUs
    <2>. QED  BY <2>2, <2>3 DEF StrangersKnowNothing
  <1>3. ASSUME NEW p \in Peer, NEW kinds, PeerStarts(p) \/ PeerEnds(p, kinds)
        PROVE  StrangersKnowNothing'
    <2>1. peer'[p].knows = 0 /\ \A q \in Peer : q # p => peer'[q] = peer[q]
      BY <1>3 DEF PeerStarts, PeerEnds, TypeInv, PeersOK
    <2>. QED  BY <2>1 DEF StrangersKnowNothing
  <1>4. CASE Runs
    <2>1. CASE \E a \in net : Receive(a)
      BY <2>1, <1>1, <1>2 DEF Receive, RecvEntry, RecvAnswer, RecvExit, RecvText, RecvOffer, Filtered
    <2>2. CASE ~\E a \in net : Receive(a)
      BY <1>4, <2>2, <1>1 DEF Runs, SendEntry, Tick, StoreText, StoreTransfer, RespondFinish,
                              Finish, LoopEnds, Expire, Evict
    <2>. QED  BY <2>1, <2>2
  <1>5. CASE \/ \E p \in Peer : PeerStarts(p)
             \/ \E p \in Plain : PeerEnds(p, {}) \/ PeerEnds(p, {"exit"})
    BY <1>5, <1>3 DEF Peer
  <1>6. CASE \/ SetNick \/ Goodbye \/ NoGoodbye \/ Exit \/ Start
             \/ \E r \in Ranges : SetRange(r)
    BY <1>6, <1>1 DEF SetNick, Goodbye, NoGoodbye, Exit, Start, SetRange
  <1>7. CASE \/ \E p \in Plain, kind \in {"texts", "files"} : Send(kind, p)
             \/ \E p \in Plain, kind \in {"text", "offer"} : PeerSends(p, kind)
             \/ \E x \in Number : Accept(x) \/ Reject(x) \/ DownloadPanics(x)
             \/ \E x \in Number, outcome \in {"done", "failed"} : DownloadEnds(x, outcome)
             \/ \E a \in net : Lose(a)
    BY <1>7, <1>1 DEF Send, PeerSends, Accept, Reject, DownloadPanics, DownloadEnds, Lose
  <1>8. CASE UNCHANGED vars
    BY <1>8, <1>1 DEF vars
  <1>. QED  BY <1>4, <1>5, <1>6, <1>7, <1>8 DEF Next

LEMMA WordStep ==
    ASSUME TypeInv, StrangersKnowNothing, LastWord, [Next]_vars
    PROVE  LastWord'
  <1>1. CASE UNCHANGED <<net, peer, told, us>>
    BY <1>1, WordKept DEF LastWord
  <1>2. CASE SendEntry
    <2>1. UNCHANGED <<us, peer>> /\ told' = told \ range /\ net' = net \cup ToAll("entry", name)
      BY <1>2 DEF SendEntry
    <2>. QED  BY <2>1, SaidInRange, WordKept DEF LastWord
  <1>3. ASSUME NEW l, LoopEnds(l) PROVE LastWord'
    <2>1. UNCHANGED <<peer, told, net>> /\ us = "leaving" /\ us' \in {"leaving", "left"}
      BY <1>3 DEF LoopEnds
    <2>. QED  BY <2>1, WordKept DEF LastWord
  <1>4. CASE SetNick \/ NoGoodbye
    <2>1. told = {} /\ told' = {} /\ us' \in {"up", "orphan"}
      BY <1>4 DEF SetNick, NoGoodbye, Commands, LastWord
    <2>. QED  BY <2>1 DEF LastWord
  <1>5. CASE Exit
    <2>1. /\ UNCHANGED <<peer, told>> /\ us' = "down"
          /\ net' = {a \in net : a.to # Us} /\ Us \notin told
      BY <1>5, PeerAssumption DEF Exit, LastWord
    <2>. QED  BY <2>1, WordKept DEF LastWord
  <1>6. CASE Start
    BY <1>6 DEF Start, LastWord
  <1>7. CASE Runs
    <2>1. CASE \/ Tick \/ StoreText \/ StoreTransfer \/ RespondFinish
               \/ Finish("texts") \/ Finish("files") \/ \E p \in Peer : Expire(p) \/ Evict(p)
      BY <2>1, <1>1 DEF Tick, StoreText, StoreTransfer, RespondFinish, Finish, Expire, Evict,
                        service
    <2>. QED  BY <1>7, <2>1, <1>2, <1>3, RecvKeepsWord DEF Runs
  <1>8. CASE \/ \E p \in Peer : PeerStarts(p)
             \/ \E p \in Plain : PeerEnds(p, {}) \/ PeerEnds(p, {"exit"})
             \/ \E p \in Plain, kind \in {"text", "offer"} : PeerSends(p, kind)
    BY <1>8, PeerMovesKeepWord DEF Peer
  <1>9. CASE \/ \E r \in Ranges : SetRange(r)
             \/ \E p \in Plain, kind \in {"texts", "files"} : Send(kind, p)
             \/ \E x \in Number : Accept(x) \/ Reject(x) \/ DownloadPanics(x)
             \/ \E x \in Number, outcome \in {"done", "failed"} : DownloadEnds(x, outcome)
    BY <1>9, <1>1 DEF SetRange, Send, Accept, Reject, DownloadPanics, DownloadEnds, service
  <1>10. CASE UNCHANGED vars
    BY <1>10, <1>1 DEF vars, service
  <1>. QED
    BY <1>4, <1>5, <1>6, <1>7, <1>8, <1>9, <1>10, GoodbyeIsTheLastWord, LoseKeepsWord DEF Next

\* A peer for whom the goodbye of a graceful end was the last word, and who was not cut
\* off from it, has dropped us (shutdown): however entries, answers and the goodbye
\* overtake one another, and whatever the peers do meanwhile.
THEOREM FarewellIsHeard == Spec => []Farewell
  <1>1. ASSUME Init PROVE StrangersKnowNothing /\ LastWord
    BY <1>1 DEF Init, StrangersKnowNothing, LastWord
  <1>2. ASSUME LastWord PROVE Farewell
    BY <1>2 DEF LastWord, WordStands, Parting, Farewell
  <1>. QED  BY <1>1, <1>2, StrangersStep, WordStep, TypeInvariant, PTL DEF Spec

-----------------------------------------------------------------------------
(* What has been promised is under way: a text that was acknowledged is stored   *)
(* or waits for the storing thread, an offer that is shown can be answered, and  *)
(* an accepted file has a thread that fetches it or an outcome that waits to be  *)
(* stored.  What breaks a promise is recorded: the writes the database refused   *)
(* (missed), and the files that a panic, the end of the process or an address    *)
(* that is not known any more have lost (void).  The last promise rests on an    *)
(* offer being stored once: stored again, it would hide an outcome from the      *)
(* command that answers it (update_transfer).                                    *)

InPump(kind, x) == \E i \in DOMAIN pump : pump[i] = Event(kind, x)

AckedIsUnderWay == \A n \in acked : n \in texts \cup missed.texts \/ InPump("text", n)

InHand(x) == x \in void \cup download \cup missed.files \/ InPump("done", x) \/ InPump("failed", x)

AcceptedIsInHand == \A x \in Number : row[x] = "active" => InHand(x)

\* The storing thread has seen to the offer.
Settled(x) == row[x] # "none" \/ x \in missed.files

\* What an answer is about to be stored for is in hand, or over already.
AnswerIsInHand ==
    command.pc = "active" => row[command.ref] \in Final \/ InHand(command.ref)

Answering == {"active", "rejected"}

\* Nobody answers an offer before that.
AnsweredIsSettled ==
    /\ \A x \in Number : x \in download \/ InPump("done", x) \/ InPump("failed", x) => Settled(x)
    /\ command.pc \in Answering => Settled(command.ref)

OfferIn(x) == \E a \in net : a.kind = "offer" /\ a.ref = x

\* An offer is in one place at a time: on its way, in the channel, or seen to.  It is
\* in the table before it is in the channel.
OneOffer ==
    /\ \A a, b \in net : a.kind = "offer" /\ b.kind = "offer" /\ a.ref = b.ref => a = b
    /\ \A i, j \in DOMAIN pump : pump[i] = pump[j] /\ pump[i].kind = "offered" => i = j
    /\ \A x \in Number :
          /\ OfferIn(x) => ~Settled(x) /\ ~InPump("offered", x)
          /\ InPump("offered", x) => ~Settled(x) /\ Held(x) # {}
          /\ Settled(x) \/ InPump("offered", x) \/ OfferIn(x) => x < Fresh

Promises == AckedIsUnderWay /\ AcceptedIsInHand /\ AnswerIsInHand /\ AnsweredIsSettled /\ OneOffer
            /\ OfferIsHeld

\* One more event in the channel, and one less.
LEMMA PumpAppend ==
    ASSUME TypeInv, NEW e \in [kind : Kinds, ref : Number], pump' = Append(pump, e)
    PROVE  /\ \A i \in DOMAIN pump : i \in DOMAIN pump' /\ pump'[i] = pump[i]
           /\ \A i \in DOMAIN pump' : i \notin DOMAIN pump => i = Len(pump) + 1 /\ pump'[i] = e
           /\ \A kind, x : InPump(kind, x)' <=> InPump(kind, x) \/ e = Event(kind, x)
  <1>. DEFINE E == [kind : Kinds, ref : Number]
  <1>1. pump \in Seq(E) /\ e \in E
    BY DEF TypeInv, BooksOK
  <1>. HIDE DEF E
  <1>2. /\ DOMAIN pump = 1 .. Len(pump) /\ DOMAIN pump' = 1 .. Len(pump) + 1 /\ Len(pump) \in Nat
        /\ \A i \in 1 .. Len(pump) : pump'[i] = pump[i]
        /\ pump'[Len(pump) + 1] = e
    BY <1>1
  <1>3. ASSUME NEW kind, NEW x
        PROVE  InPump(kind, x)' <=> InPump(kind, x) \/ e = Event(kind, x)
    <2>1. InPump(kind, x)' <=> \E i \in DOMAIN pump' : pump'[i] = Event(kind, x)
      BY DEF InPump, Event
    <2>2. InPump(kind, x) <=> \E i \in DOMAIN pump : pump[i] = Event(kind, x)
      BY DEF InPump
    <2>. QED  BY <1>2, <2>1, <2>2
  <1>. QED  BY <1>2, <1>3

LEMMA PumpTail ==
    ASSUME TypeInv, pump # <<>>, pump' = Tail(pump)
    PROVE  /\ Head(pump) \in [kind : Kinds, ref : Number]
           /\ 1 \in DOMAIN pump /\ pump[1] = Head(pump)
           /\ \A i \in DOMAIN pump' : i \in Nat \ {0} /\ i + 1 \in DOMAIN pump /\ pump'[i] = pump[i + 1]
           /\ \A kind, x : InPump(kind, x) <=> InPump(kind, x)' \/ Head(pump) = Event(kind, x)
  <1>. DEFINE E == [kind : Kinds, ref : Number]
  <1>1. pump \in Seq(E)
    BY DEF TypeInv, BooksOK
  <1>. HIDE DEF E
  <1>2. Head(pump) \in E
    BY <1>1
  <1>3. /\ DOMAIN pump = 1 .. Len(pump) /\ DOMAIN pump' = 1 .. Len(pump) - 1
        /\ Len(pump) \in Nat \ {0} /\ pump[1] = Head(pump)
        /\ \A i \in 1 .. Len(pump) - 1 : pump'[i] = pump[i + 1]
    BY <1>1
  <1>4. ASSUME NEW kind, NEW x
        PROVE  InPump(kind, x) <=> InPump(kind, x)' \/ Head(pump) = Event(kind, x)
    <2>1. InPump(kind, x)' <=> \E i \in DOMAIN pump' : pump'[i] = Event(kind, x)
      BY DEF InPump, Event
    <2>2. InPump(kind, x) <=> \E i \in DOMAIN pump : pump[i] = Event(kind, x)
      BY DEF InPump
    <2>3. ASSUME NEW i \in DOMAIN pump, i # 1
          PROVE  i - 1 \in DOMAIN pump' /\ pump'[i - 1] = pump[i]
      BY <1>3, <2>3
    <2>4. ASSUME NEW i \in DOMAIN pump' PROVE i + 1 \in DOMAIN pump /\ pump'[i] = pump[i + 1]
      BY <1>3
    <2>5. 1 \in DOMAIN pump
      BY <1>3
    <2>. QED  BY <1>3, <2>1, <2>2, <2>3, <2>4, <2>5
  <1>. QED  BY <1>2, <1>3, <1>4 DEF E

\* The numbers given out only grow.
LEMMA FreshGrows ==
    ASSUME TypeInv, budget' = budget \/ Spend("moves") \/ \E b \in {"exits", "lost", "refused"} : Spend(b)
    PROVE  Fresh \in Nat /\ Fresh' \in Nat /\ Fresh <= Fresh'
  <1>1. CASE budget' = budget
    BY <1>1, BoundAssumption DEF TypeInv, NamesAreMoves, Budget, Fresh
  <1>2. CASE Spend("moves")
    BY <1>2, MoveSpent DEF TypeInv
  <1>3. CASE \E b \in {"exits", "lost", "refused"} : Spend(b)
    BY <1>3, BoundAssumption DEF TypeInv, NamesAreMoves, Budget, Fresh, Spend
  <1>. QED  BY <1>1, <1>2, <1>3

\* What the two parts about offers need, for a step that takes no offer back.
LEMMA OffersStand ==
    ASSUME TypeInv, OfferIsHeld, offers \subseteq offers', void \subseteq void',
           missed.files \subseteq missed'.files,
           \A x \in Number : row'[x] = "offered" =>
               row[x] = "offered" \/ Held(x)' # {} \/ x \in missed'.files,
           command.pc \in Answering => command' = command
    PROVE  OfferIsHeld'
  <1>1. ASSUME NEW x \in Number, row'[x] = "offered"
        PROVE  \/ Held(x)' # {} \/ x \in void' \cup missed'.files
               \/ command' \in [pc: {"active", "rejected"}, ref: {x}]
    <2>1. Held(x) # {} => Held(x)' # {}
      BY DEF Held
    <2>2. CASE row[x] = "offered"
      BY <2>1, <2>2 DEF OfferIsHeld, Answering
    <2>3. CASE row[x] # "offered"
      BY <1>1, <2>3
    <2>. QED  BY <2>2, <2>3
  <1>. QED  BY <1>1 DEF OfferIsHeld, Number

\* What is seen to stays so.
LEMMA SettledStands ==
    ASSUME TypeInv, Promises, \A x \in Number : Settled(x) => Settled(x)',
           download' \subseteq download, command'.pc \in Answering => command' = command,
           \A x : InPump("done", x)' \/ InPump("failed", x)' =>
                   InPump("done", x) \/ InPump("failed", x) \/ x \in download
    PROVE  AnsweredIsSettled'
  <1>1. ASSUME NEW x \in Number, x \in download' \/ InPump("done", x)' \/ InPump("failed", x)'
        PROVE  Settled(x)'
    BY <1>1 DEF Promises, AnsweredIsSettled
  <1>2. ASSUME command'.pc \in Answering PROVE Settled(command.ref)' /\ command' = command
    <2>1. command.ref \in Number /\ Settled(command.ref)
      BY <1>2 DEF TypeInv, CommandOK, Ready, Answering, Promises, AnsweredIsSettled
    <2>2. Settled(command.ref) => (row'[command.ref] # "none" \/ command.ref \in missed'.files)
      BY <2>1 DEF Settled
    <2>3. command' = command
      BY <1>2
    <2>. QED  BY <2>1, <2>2, <2>3 DEF Settled
  <1>3. command'.pc \in Answering => row'[command'.ref] # "none" \/ command'.ref \in missed'.files
    BY <1>2 DEF Settled
  <1>. QED  BY <1>1, <1>3 DEF AnsweredIsSettled, Answering, Number, Settled

\* Steps that are about other things.
LEMMA PromisesKept ==
    ASSUME TypeInv, Promises, UNCHANGED <<pump, row, acked, texts, download, void, offers>>,
           missed'.files = missed.files, missed.texts \subseteq missed'.texts,
           \A a \in net' : a.kind = "offer" => a \in net,
           command.pc \in Answering => command' = command,
           command'.pc \in Answering => command' = command,
           budget' = budget \/ Spend("moves") \/ \E b \in {"exits", "lost", "refused"} : Spend(b)
    PROVE  Promises'
  <1>1. /\ \A kind, x : InPump(kind, x)' <=> InPump(kind, x)
        /\ \A x : (InHand(x)' <=> InHand(x)) /\ (Settled(x)' <=> Settled(x))
        /\ \A x : Held(x)' = Held(x)
    BY DEF InPump, InHand, Event, Settled, Held
  <1>2. AckedIsUnderWay' /\ AcceptedIsInHand' /\ AnswerIsInHand' /\ AnsweredIsSettled'
    BY <1>1 DEF Promises, AckedIsUnderWay, AcceptedIsInHand, AnswerIsInHand, AnsweredIsSettled,
                Number, Final, Answering
  <1>3. OneOffer'
    <2>1. \A x : OfferIn(x)' => OfferIn(x)
      BY DEF OfferIn
    <2>2. Fresh \in Nat /\ Fresh' \in Nat /\ Fresh <= Fresh'
      BY FreshGrows
    <2>3. ASSUME NEW x \in Number
          PROVE  /\ OfferIn(x)' => ~Settled(x)' /\ ~InPump("offered", x)'
                 /\ InPump("offered", x)' => ~Settled(x)' /\ Held(x)' # {}
                 /\ Settled(x)' \/ InPump("offered", x)' \/ OfferIn(x)' => x < Fresh'
      <3>1. x \in Nat
        BY BoundAssumption DEF Number
      <3>2. /\ OfferIn(x) => ~Settled(x) /\ ~InPump("offered", x)
            /\ InPump("offered", x) => ~Settled(x) /\ Held(x) # {}
            /\ Settled(x) \/ InPump("offered", x) \/ OfferIn(x) => x < Fresh
        BY DEF Promises, OneOffer
      <3>. QED  BY <1>1, <2>1, <2>2, <3>1, <3>2
    <2>4. \A a, b \in net' : a.kind = "offer" /\ b.kind = "offer" /\ a.ref = b.ref => a = b
      BY DEF Promises, OneOffer
    <2>5. \A i, j \in DOMAIN pump' : pump'[i] = pump'[j] /\ pump'[i].kind = "offered" => i = j
      BY DEF Promises, OneOffer
    <2>. QED  BY <2>3, <2>4, <2>5 DEF OneOffer, Number
  <1>4. OfferIsHeld'
    BY OffersStand DEF Promises
  <1>. QED  BY <1>2, <1>3, <1>4 DEF Promises

\* A receipt leaves with the text in the channel behind it.
LEMMA RecvTextPromises ==
    ASSUME TypeInv, Promises, NEW a \in net, RecvText(a)
    PROVE  Promises'
  <1>1. a.ref \in Number
    BY InIsForUs DEF RecvText, Incoming, ForUs
  <1>2. Event("text", a.ref) \in [kind : Kinds, ref : Number]
    BY <1>1 DEF Event, Kinds
  <1>3. /\ pump' = Append(pump, Event("text", a.ref)) /\ acked' = acked \cup {a.ref}
        /\ net' = net \ {a} /\ UNCHANGED <<texts, missed, row, download, void, offers, command, budget>>
    BY DEF RecvText, files, ours
  <1>4. /\ \A i \in DOMAIN pump : i \in DOMAIN pump' /\ pump'[i] = pump[i]
        /\ \A i \in DOMAIN pump' : i \notin DOMAIN pump => pump'[i] = Event("text", a.ref)
        /\ \A kind, x : InPump(kind, x)' <=> InPump(kind, x) \/ Event("text", a.ref) = Event(kind, x)
    BY <1>2, <1>3, PumpAppend
  <1>5. AckedIsUnderWay'
    BY <1>3, <1>4 DEF Promises, AckedIsUnderWay
  <1>6. \A x : (InHand(x) => InHand(x)') /\ (Settled(x)' <=> Settled(x)) /\ Held(x)' = Held(x)
    BY <1>3, <1>4 DEF InHand, Settled, Held
  <1>7. AcceptedIsInHand' /\ AnswerIsInHand'
    BY <1>3, <1>6 DEF Promises, AcceptedIsInHand, AnswerIsInHand, Number, Final
  <1>8. OneOffer'
    <2>1. \A x : (InPump("offered", x)' <=> InPump("offered", x)) /\ (OfferIn(x)' => OfferIn(x))
      <3>1. \A x : InPump("offered", x)' <=> InPump("offered", x)
        <4>1. \A x : Event("text", a.ref) # Event("offered", x)
          BY DEF Event
        <4>. QED  BY <1>4, <4>1
      <3>2. \A x : OfferIn(x)' => OfferIn(x)
        BY <1>3 DEF OfferIn
      <3>. QED  BY <3>1, <3>2
    <2>2. \A i, j \in DOMAIN pump' : pump'[i] = pump'[j] /\ pump'[i].kind = "offered" => i = j
      BY <1>4 DEF Promises, OneOffer, Event
    <2>. QED  BY <1>3, <1>6, <2>1, <2>2 DEF Promises, OneOffer, Number, Fresh
  <1>9. OfferIsHeld'
    BY <1>3, OffersStand DEF Promises
  <1>10. AnsweredIsSettled'
    <2>1. \A x : /\ InPump("done", x)' <=> InPump("done", x)
                 /\ InPump("failed", x)' <=> InPump("failed", x)
      <3>1. \A x : Event("text", a.ref) # Event("done", x) /\ Event("text", a.ref) # Event("failed", x)
        BY DEF Event
      <3>. QED  BY <1>4, <3>1
    <2>. QED  BY <1>3, <1>6, <2>1, SettledStands
  <1>. QED  BY <1>5, <1>7, <1>8, <1>9, <1>10 DEF Promises

\* An offer comes off the network into the channel.
LEMMA RecvOfferPromises ==
    ASSUME TypeInv, Promises, NEW a \in net, RecvOffer(a)
    PROVE  Promises'
  <1> DEFINE e == Event("offered", a.ref)
  <1>1. a.ref \in Number /\ a.kind = "offer"
    BY InIsForUs DEF RecvOffer, Incoming, ForUs
  <1>2. e \in [kind : Kinds, ref : Number]
    BY <1>1 DEF Event, Kinds
  <1>3. /\ pump' = Append(pump, e) /\ net' = net \ {a}
        /\ offers \subseteq offers' /\ [xfer |-> a.ref, peer |-> a.from] \in offers'
        /\ UNCHANGED <<acked, texts, missed, row, download, void, command, budget>>
    BY DEF RecvOffer, ours
  <1>11. Held(a.ref)' # {}
    <2>1. [xfer |-> a.ref, peer |-> a.from] \in Held(a.ref)'
      BY <1>3 DEF Held
    <2>. QED  BY <2>1
  <1>4. /\ \A i \in DOMAIN pump : i \in DOMAIN pump' /\ pump'[i] = pump[i]
        /\ \A i \in DOMAIN pump' : i \notin DOMAIN pump => i = Len(pump) + 1 /\ pump'[i] = e
        /\ \A kind, x : InPump(kind, x)' <=> InPump(kind, x) \/ e = Event(kind, x)
    BY <1>2, <1>3, PumpAppend
  <1>5. AckedIsUnderWay'
    BY <1>3, <1>4 DEF Promises, AckedIsUnderWay
  <1>6. \A x : /\ (InHand(x) => InHand(x)') /\ (Settled(x)' <=> Settled(x))
               /\ Held(x) \subseteq Held(x)'
    BY <1>3, <1>4 DEF InHand, Settled, Held
  <1>7. AcceptedIsInHand' /\ AnswerIsInHand'
    BY <1>3, <1>6 DEF Promises, AcceptedIsInHand, AnswerIsInHand, Number, Final
  <1>8. OneOffer'
    <2>1. /\ \A x : InPump("offered", x)' <=> InPump("offered", x) \/ x = a.ref
          /\ \A x : OfferIn(x)' => OfferIn(x) /\ x # a.ref
      <3>1. \A x : InPump("offered", x)' <=> InPump("offered", x) \/ x = a.ref
        BY <1>4 DEF Event
      <3>2. \A x : OfferIn(x)' <=> \E b \in net' : b.kind = "offer" /\ b.ref = x
        BY DEF OfferIn
      <3>3. \A b \in net' : b.kind = "offer" => b \in net /\ b.ref # a.ref
        BY <1>1, <1>3 DEF Promises, OneOffer
      <3>4. \A x : OfferIn(x)' => OfferIn(x) /\ x # a.ref
        BY <3>2, <3>3 DEF OfferIn
      <3>. QED  BY <3>1, <3>4
    <2>2. OfferIn(a.ref) /\ ~InPump("offered", a.ref)
      BY <1>1 DEF OfferIn, Promises, OneOffer
    <2>3. ASSUME NEW i \in DOMAIN pump', NEW j \in DOMAIN pump',
                 pump'[i] = pump'[j], pump'[i].kind = "offered"
          PROVE  i = j
      <3>1. \A k \in DOMAIN pump : pump[k] # e
        BY <2>2 DEF InPump
      <3>. QED  BY <1>4, <2>3, <3>1 DEF Promises, OneOffer
    <2>4. ASSUME NEW x \in Number
          PROVE  /\ OfferIn(x)' => ~Settled(x)' /\ ~InPump("offered", x)'
                 /\ InPump("offered", x)' => ~Settled(x)' /\ Held(x)' # {}
                 /\ Settled(x)' \/ InPump("offered", x)' \/ OfferIn(x)' => x < Fresh'
      <3>1. /\ OfferIn(x) => ~Settled(x) /\ ~InPump("offered", x)
            /\ InPump("offered", x) => ~Settled(x) /\ Held(x) # {}
            /\ Settled(x) \/ InPump("offered", x) \/ OfferIn(x) => x < Fresh
        BY DEF Promises, OneOffer
      <3>2. Fresh' = Fresh
        BY <1>3 DEF Fresh
      <3>3. InPump("offered", x)' => Held(x)' # {}
        BY <1>6, <1>11, <2>1, <3>1
      <3>. QED  BY <1>6, <2>1, <2>2, <3>1, <3>2, <3>3
    <2>5. \A b, c \in net' : b.kind = "offer" /\ c.kind = "offer" /\ b.ref = c.ref => b = c
      BY <1>3 DEF Promises, OneOffer
    <2>. QED  BY <2>3, <2>4, <2>5 DEF OneOffer, Number
  <1>9. OfferIsHeld'
    BY <1>3, OffersStand DEF Promises
  <1>10. AnsweredIsSettled'
    <2>1. \A x : /\ InPump("done", x)' <=> InPump("done", x)
                 /\ InPump("failed", x)' <=> InPump("failed", x)
      <3>1. \A x : e # Event("done", x) /\ e # Event("failed", x)
        BY DEF Event
      <3>. QED  BY <1>4, <3>1
    <2>. QED  BY <1>3, <1>6, <2>1, SettledStands
  <1>. QED  BY <1>5, <1>7, <1>8, <1>9, <1>10 DEF Promises

LEMMA StoreTextPromises ==
    ASSUME TypeInv, Promises, StoreText
    PROVE  Promises'
  <1>1. /\ pump # <<>> /\ pump' = Tail(pump) /\ Head(pump).kind = "text"
        /\ UNCHANGED <<net, acked, row, download, void, offers, command>>
        /\ budget' = budget \/ Spend("refused")
    BY DEF StoreText, Stored, files, Accepted, Refused
  <1>2. /\ \A i \in DOMAIN pump' : i \in Nat \ {0} /\ i + 1 \in DOMAIN pump /\ pump'[i] = pump[i + 1]
        /\ \A kind, x : InPump(kind, x) <=> InPump(kind, x)' \/ Head(pump) = Event(kind, x)
    BY <1>1, PumpTail
  <1>3. /\ texts \cup missed.texts \cup {Head(pump).ref} \subseteq texts' \cup missed'.texts
        /\ missed'.files = missed.files
    BY DEF StoreText, Accepted, Refused, TypeInv, BooksOK
  <1>8. AckedIsUnderWay'
    BY <1>1, <1>2, <1>3 DEF Promises, AckedIsUnderWay, Event
  <1>4. \A x : /\ InHand(x) => InHand(x)'
               /\ InPump("offered", x)' => InPump("offered", x)
               /\ OfferIn(x)' => OfferIn(x)
               /\ (Settled(x)' <=> Settled(x)) /\ Held(x)' = Held(x)
    BY <1>1, <1>2, <1>3 DEF InHand, Event, OfferIn, Settled, Held
  <1>5. AcceptedIsInHand' /\ AnswerIsInHand'
    BY <1>1, <1>4 DEF Promises, AcceptedIsInHand, AnswerIsInHand, Number, Final
  <1>6. \A i, j \in DOMAIN pump' : pump'[i] = pump'[j] /\ pump'[i].kind = "offered" => i = j
    <2>1. ASSUME NEW i \in DOMAIN pump', NEW j \in DOMAIN pump',
                 pump'[i] = pump'[j], pump'[i].kind = "offered"
          PROVE  i = j
      <3>1. i + 1 = j + 1
        BY <1>2, <2>1 DEF Promises, OneOffer
      <3>. QED  BY <1>2, <3>1
    <2>. QED  BY <2>1
  <1>7. OneOffer'
    <2>1. Fresh \in Nat /\ Fresh' \in Nat /\ Fresh <= Fresh'
      BY <1>1, FreshGrows
    <2>2. ASSUME NEW x \in Number
          PROVE  /\ OfferIn(x)' => ~Settled(x)' /\ ~InPump("offered", x)'
                 /\ InPump("offered", x)' => ~Settled(x)' /\ Held(x)' # {}
                 /\ Settled(x)' \/ InPump("offered", x)' \/ OfferIn(x)' => x < Fresh'
      <3>1. /\ OfferIn(x) => ~Settled(x) /\ ~InPump("offered", x)
            /\ InPump("offered", x) => ~Settled(x) /\ Held(x) # {}
            /\ Settled(x) \/ InPump("offered", x) \/ OfferIn(x) => x < Fresh
        BY DEF Promises, OneOffer
      <3>2. x \in Nat
        BY BoundAssumption DEF Number
      <3>. QED  BY <1>4, <2>1, <3>1, <3>2
    <2>. QED  BY <1>1, <1>6, <2>2 DEF Promises, OneOffer, Number
  <1>9. OfferIsHeld'
    BY <1>1, <1>3, OffersStand DEF Promises
  <1>10. AnsweredIsSettled'
    BY <1>1, <1>2, <1>4, SettledStands
  <1>. QED  BY <1>5, <1>7, <1>8, <1>9, <1>10 DEF Promises

\* An offer gets its row, or an outcome is in it from now on.
LEMMA StoreTransferPromises ==
    ASSUME TypeInv, Promises, StoreTransfer
    PROVE  Promises'
  <1> DEFINE e == Head(pump)
  <1>1. /\ pump # <<>> /\ pump' = Tail(pump) /\ e.kind \in {"offered", "done", "failed"}
        /\ \/ /\ missed' = missed
              /\ row' = IF e.kind = "offered" THEN [row EXCEPT ![e.ref] = "offered"] ELSE Updated(e.ref, e.kind)
           \/ row' = row /\ missed' = [missed EXCEPT !.files = @ \cup {e.ref}]
        /\ UNCHANGED <<net, acked, texts, offers, download, void, command>>
        /\ budget' = budget \/ Spend("refused")
    BY DEF StoreTransfer, Stored, Accepted, Refused
  <1>0. /\ missed'.texts = missed.texts /\ missed.files \subseteq missed'.files
        /\ missed'.files \subseteq missed.files \cup {e.ref}
        /\ \/ row' = row /\ e.ref \in missed'.files
           \/ /\ missed' = missed
              /\ row' = IF e.kind = "offered" THEN [row EXCEPT ![e.ref] = "offered"] ELSE Updated(e.ref, e.kind)
    BY <1>1 DEF TypeInv, BooksOK
  <1>2. /\ e \in [kind : Kinds, ref : Number] /\ 1 \in DOMAIN pump /\ pump[1] = e
        /\ \A i \in DOMAIN pump' : i \in Nat \ {0} /\ i + 1 \in DOMAIN pump /\ pump'[i] = pump[i + 1]
        /\ \A kind, x : InPump(kind, x) <=> InPump(kind, x)' \/ e = Event(kind, x)
    BY <1>1, PumpTail
  <1>3. AckedIsUnderWay'
    BY <1>0, <1>1, <1>2 DEF Promises, AckedIsUnderWay, Event
  <1>4. \A x \in Number : /\ row[x] \in {"none", "offered", "active"} \cup Final
                          /\ x # e.ref => row'[x] = row[x]
    BY <1>1, <1>2 DEF TypeInv, BooksOK, Updated
  <1>5. e.kind = "offered" => /\ ~Settled(e.ref) /\ row'[e.ref] \in {"none", "offered"}
                            /\ Held(e.ref) # {} /\ e.ref < Fresh
    <2>1. e.kind = "offered" => e = Event("offered", e.ref)
      BY <1>2 DEF Event
    <2>2. ASSUME e.kind = "offered"
          PROVE  ~Settled(e.ref) /\ Held(e.ref) # {} /\ e.ref < Fresh
      <3>1. InPump("offered", e.ref) /\ e.ref \in Number
        BY <1>2, <2>1, <2>2
      <3>. QED  BY <3>1 DEF Promises, OneOffer
    <2>3. ~Settled(e.ref) => row[e.ref] = "none"
      BY DEF Settled
    <2>. QED  BY <1>1, <1>2, <2>2, <2>3 DEF TypeInv, BooksOK
  <1>6. \/ row' = row /\ e.ref \in missed'.files
        \/ /\ missed' = missed
           /\ e.kind # "offered" =>
                row'[e.ref] = IF row[e.ref] \in Final \cup {"none"} THEN row[e.ref] ELSE e.kind
    BY <1>0, <1>2 DEF Updated, TypeInv, BooksOK
  <1>7. \A x : x # e.ref \/ e.kind = "offered" \/ x \in missed'.files => (InHand(x) => InHand(x)')
    BY <1>0, <1>1, <1>2 DEF InHand, Event
  <1>13. \A x : Held(x)' = Held(x)
    BY <1>1 DEF Held
  <1>8. AcceptedIsInHand'
    <2>1. ASSUME NEW x \in Number, row'[x] = "active" PROVE InHand(x)'
      <3>1. CASE x # e.ref
        BY <1>4, <1>7, <2>1, <3>1 DEF Promises, AcceptedIsInHand
      <3>2. CASE x = e.ref
        <4>1. e.kind # "offered"
          BY <1>5, <2>1, <3>2
        <4>2. e.ref \in missed'.files
          BY <1>1, <1>4, <1>6, <2>1, <3>2, <4>1 DEF Final
        <4>. QED  BY <3>2, <4>2 DEF InHand
      <3>. QED  BY <3>1, <3>2
    <2>. QED  BY <2>1 DEF AcceptedIsInHand, Number
  <1>9. AnswerIsInHand'
    <2>1. ASSUME command.pc = "active"
          PROVE  row'[command.ref] \in Final \/ InHand(command.ref)'
      <3>1. /\ command.ref \in Number /\ Settled(command.ref)
            /\ row[command.ref] \in Final \/ InHand(command.ref)
        BY <2>1 DEF TypeInv, CommandOK, Ready, Promises, AnswerIsInHand, AnsweredIsSettled, Answering
      <3>2. CASE command.ref # e.ref
        <4>1. row'[command.ref] = row[command.ref]
          BY <1>4, <3>1, <3>2
        <4>2. InHand(command.ref) => InHand(command.ref)'
          BY <1>1, <1>7, <3>2
        <4>. QED  BY <3>1, <4>1, <4>2
      <3>3. CASE command.ref = e.ref
        <4>1. e.kind \in {"done", "failed"}
          BY <1>1, <1>5, <3>1, <3>3
        <4>2. CASE e.ref \notin missed'.files
          <5>1. row[e.ref] # "none"
            BY <1>0, <3>1, <3>3, <4>2 DEF Settled
          <5>. QED  BY <1>6, <3>3, <4>1, <4>2, <5>1 DEF Final
        <4>3. CASE e.ref \in missed'.files
          BY <1>1, <3>3, <4>3 DEF InHand
        <4>. QED  BY <4>2, <4>3
      <3>. QED  BY <3>2, <3>3
    <2>. QED  BY <1>1, <2>1 DEF AnswerIsInHand, Final
  <1>15. \A x \in Number : Settled(x) => Settled(x)'
    BY <1>0, <1>1, <1>4, <1>5, <1>6 DEF Settled, Final
  <1>16. AnsweredIsSettled'
    BY <1>1, <1>2, <1>15, SettledStands
  <1>10. \A i, j \in DOMAIN pump' : pump'[i] = pump'[j] /\ pump'[i].kind = "offered" => i = j
    <2>1. ASSUME NEW i \in DOMAIN pump', NEW j \in DOMAIN pump',
                 pump'[i] = pump'[j], pump'[i].kind = "offered"
          PROVE  i = j
      <3>1. i + 1 = j + 1
        BY <1>2, <2>1 DEF Promises, OneOffer
      <3>. QED  BY <1>2, <3>1
    <2>. QED  BY <2>1
  <1>11. ASSUME e.kind = "offered", NEW x, x = e.ref PROVE ~InPump("offered", x)'
    <2>1. ASSUME NEW i \in DOMAIN pump', pump'[i] = Event("offered", x)
          PROVE  FALSE
      <3>1. pump[1] = pump[i + 1] /\ i + 1 \in DOMAIN pump /\ pump[1].kind = "offered"
        BY <1>2, <1>11, <2>1 DEF Event
      <3>2. 1 = i + 1
        BY <1>2, <3>1 DEF Promises, OneOffer
      <3>. QED  BY <1>2, <3>2
    <2>. QED  BY <2>1 DEF InPump, Event
  <1>12. OneOffer'
    <2>1. ASSUME NEW x \in Number
          PROVE  /\ OfferIn(x)' => ~Settled(x)' /\ ~InPump("offered", x)'
                 /\ InPump("offered", x)' => ~Settled(x)' /\ Held(x)' # {}
                 /\ Settled(x)' \/ InPump("offered", x)' \/ OfferIn(x)' => x < Fresh'
      <3>1. /\ OfferIn(x)' <=> OfferIn(x)
            /\ InPump("offered", x)' => InPump("offered", x)
        BY <1>1, <1>2 DEF OfferIn
      <3>2. Fresh \in Nat /\ Fresh' \in Nat /\ Fresh <= Fresh' /\ x \in Nat
        BY <1>1, FreshGrows, BoundAssumption DEF Number
      <3>3. /\ OfferIn(x) => ~Settled(x) /\ ~InPump("offered", x)
            /\ InPump("offered", x) => ~Settled(x) /\ Held(x) # {}
            /\ Settled(x) \/ InPump("offered", x) \/ OfferIn(x) => x < Fresh
        BY DEF Promises, OneOffer
      <3>4. CASE x # e.ref
        <4>1. Settled(x)' <=> Settled(x)
          BY <1>0, <1>4, <3>4 DEF Settled
        <4>. QED  BY <1>13, <3>1, <3>2, <3>3, <4>1
      <3>5. CASE x = e.ref /\ e.kind = "offered"
        <4>1. InPump("offered", x)
          BY <1>2, <3>5 DEF Event
        <4>2. ~InPump("offered", x)'
          BY <1>11, <3>5
        <4>. QED  BY <3>1, <3>2, <3>3, <4>1, <4>2
      <3>6. CASE x = e.ref /\ e.kind # "offered"
        <4>1. InPump(e.kind, x)
          BY <1>2, <3>6 DEF Event
        <4>2. Settled(x)
          BY <1>1, <3>6, <4>1 DEF Promises, AnsweredIsSettled
        <4>. QED  BY <3>1, <3>2, <3>3, <4>2
      <3>. QED  BY <3>4, <3>5, <3>6
    <2>. QED  BY <1>1, <1>10, <2>1 DEF Promises, OneOffer, Number
  <1>14. OfferIsHeld'
    <2>1. \A x \in Number : row'[x] = "offered" => row[x] = "offered" \/ Held(x)' # {}
      <3>1. ASSUME NEW x \in Number, row'[x] = "offered", row[x] # "offered" PROVE Held(x) # {}
        <4>1. x = e.ref /\ row' # row
          BY <1>4, <3>1
        <4>. QED  BY <1>1, <1>5, <1>6, <3>1, <4>1 DEF Final
      <3>. QED  BY <1>13, <3>1
    <2>. QED  BY <1>0, <1>1, <2>1, OffersStand DEF Promises
  <1>. QED  BY <1>3, <1>8, <1>9, <1>12, <1>14, <1>16 DEF Promises

\* A thread ends and leaves its outcome in the channel.
LEMMA DownloadEndsPromises ==
    ASSUME TypeInv, Promises, NEW x \in Number, NEW outcome \in {"done", "failed"},
           DownloadEnds(x, outcome)
    PROVE  Promises'
  <1> DEFINE e == Event(outcome, x)
  <1>1. /\ pump' = Append(pump, e) /\ download' = download \ {x}
        /\ UNCHANGED <<net, acked, texts, missed, offers, row, void, command, budget>>
        /\ x \in download
    BY DEF DownloadEnds, ours
  <1>2. e \in [kind : Kinds, ref : Number]
    BY DEF Event, Kinds
  <1>3. /\ \A i \in DOMAIN pump : i \in DOMAIN pump' /\ pump'[i] = pump[i]
        /\ \A i \in DOMAIN pump' : i \notin DOMAIN pump => pump'[i] = e
        /\ \A kind, y : InPump(kind, y)' <=> InPump(kind, y) \/ e = Event(kind, y)
    BY <1>1, <1>2, PumpAppend
  <1>4. AckedIsUnderWay'
    BY <1>1, <1>3 DEF Promises, AckedIsUnderWay
  <1>5. \A y : (InHand(y) => InHand(y)') /\ (Settled(y)' <=> Settled(y)) /\ Held(y)' = Held(y)
    BY <1>1, <1>3 DEF InHand, Settled, Held
  <1>6. AcceptedIsInHand' /\ AnswerIsInHand'
    BY <1>1, <1>5 DEF Promises, AcceptedIsInHand, AnswerIsInHand, Number, Final
  <1>7. OneOffer'
    <2>1. \A y : (InPump("offered", y)' <=> InPump("offered", y)) /\ (OfferIn(y)' => OfferIn(y))
      <3>1. \A y : InPump("offered", y)' <=> InPump("offered", y)
        <4>1. \A y : e # Event("offered", y)
          BY DEF Event
        <4>. QED  BY <1>3, <4>1
      <3>2. \A y : OfferIn(y)' => OfferIn(y)
        BY <1>1 DEF OfferIn
      <3>. QED  BY <3>1, <3>2
    <2>2. \A i, j \in DOMAIN pump' : pump'[i] = pump'[j] /\ pump'[i].kind = "offered" => i = j
      BY <1>3 DEF Promises, OneOffer, Event
    <2>. QED  BY <1>1, <1>5, <2>1, <2>2 DEF Promises, OneOffer, Number, Fresh
  <1>8. OfferIsHeld'
    BY <1>1, OffersStand DEF Promises
  <1>9. AnsweredIsSettled'
    <2>1. \A y : InPump("done", y)' \/ InPump("failed", y)' =>
                 InPump("done", y) \/ InPump("failed", y) \/ y \in download
      BY <1>1, <1>3 DEF Event
    <2>. QED  BY <1>1, <1>5, <2>1, SettledStands
  <1>. QED  BY <1>4, <1>6, <1>7, <1>8, <1>9 DEF Promises

\* Or it dies.
LEMMA DownloadPanicsPromises ==
    ASSUME TypeInv, Promises, NEW x \in Number, DownloadPanics(x)
    PROVE  Promises'
  <1>1. /\ download' = download \ {x} /\ void' = void \cup {x}
        /\ UNCHANGED <<net, pump, acked, texts, missed, offers, row, command, budget>>
    BY DEF DownloadPanics, ours
  <1>2. /\ \A kind, y : InPump(kind, y)' <=> InPump(kind, y)
        /\ \A y : (InHand(y) => InHand(y)') /\ (Settled(y)' <=> Settled(y)) /\ Held(y)' = Held(y)
        /\ \A y : OfferIn(y)' => OfferIn(y)
    BY <1>1 DEF InPump, InHand, OfferIn, Event, Settled, Held
  <1>3. AckedIsUnderWay' /\ AcceptedIsInHand' /\ AnswerIsInHand'
    BY <1>1, <1>2 DEF Promises, AckedIsUnderWay, AcceptedIsInHand, AnswerIsInHand, Number, Final
  <1>4. OneOffer'
    BY <1>1, <1>2 DEF Promises, OneOffer, Number, Fresh
  <1>5. OfferIsHeld' /\ AnsweredIsSettled'
    BY <1>1, <1>2, OffersStand, SettledStands DEF Promises
  <1>. QED  BY <1>3, <1>4, <1>5 DEF Promises

\* The user says yes: somebody fetches the file from now on, or nobody ever will.  Or
\* no: in either case the offer leaves the table.
LEMMA AnswerTaken ==
    ASSUME TypeInv, Promises, NEW x \in Number, Accept(x) \/ Reject(x)
    PROVE  Promises'
  <1>1. /\ command = Ready /\ Answerable(x) /\ offers' = offers \ Held(x)
        /\ download \subseteq download' /\ download' \subseteq download \cup {x}
        /\ void \subseteq void'
        /\ UNCHANGED <<net, pump, acked, texts, missed, row, budget>>
    BY DEF Accept, Reject, Commands, ours
  <1>2. \/ command' = command /\ x \in void'
        \/ command' = [pc |-> "active", ref |-> x] /\ x \in download'
        \/ command' = [pc |-> "active", ref |-> x] /\ Held(x) = {}
        \/ command' = [pc |-> "rejected", ref |-> x]
    BY DEF Accept, Reject
  <1>3. Settled(x)
    BY <1>1 DEF Answerable, Settled
  <1>4. Held(x) = {} => x \in void \cup missed.files
    <2>1. command \notin [pc: {"active", "rejected"}, ref: {x}]
      BY <1>1 DEF Ready
    <2>2. Held(x) = {} => row[x] = "offered"
      BY <1>1 DEF Answerable
    <2>. QED  BY <2>1, <2>2 DEF Promises, OfferIsHeld
  <1>5. /\ \A kind, y : InPump(kind, y)' <=> InPump(kind, y)
        /\ \A y : (InHand(y) => InHand(y)') /\ (Settled(y)' <=> Settled(y))
        /\ \A y : OfferIn(y)' => OfferIn(y)
        /\ \A y : y # x => Held(y)' = Held(y)
    BY <1>1 DEF InPump, InHand, OfferIn, Event, Settled, Held
  <1>6. AckedIsUnderWay' /\ AcceptedIsInHand'
    BY <1>1, <1>5 DEF Promises, AckedIsUnderWay, AcceptedIsInHand, Number
  <1>7. AnswerIsInHand'
    <2>1. CASE command'.pc # "active"
      BY <2>1 DEF AnswerIsInHand
    <2>2. CASE command'.pc = "active"
      <3>1. command'.ref = x /\ (x \in download' \/ x \in void' \cup missed'.files)
        BY <1>1, <1>2, <1>4, <2>2 DEF Ready
      <3>. QED  BY <3>1 DEF AnswerIsInHand, InHand
    <2>. QED  BY <2>1, <2>2
  <1>8. AnsweredIsSettled'
    <2>1. \A y \in Number : y \in download' \/ InPump("done", y)' \/ InPump("failed", y)' => Settled(y)'
      BY <1>1, <1>3, <1>5 DEF Promises, AnsweredIsSettled
    <2>2. command'.pc \in Answering => command'.ref = x
      BY <1>1, <1>2 DEF Ready, Answering
    <2>3. row'[x] # "none" \/ x \in missed'.files
      BY <1>1, <1>3 DEF Settled
    <2>. QED  BY <2>1, <2>2, <2>3 DEF AnsweredIsSettled, Answering, Number, Settled
  <1>9. OneOffer'
    <2>1. ASSUME NEW y \in Number
          PROVE  /\ OfferIn(y)' => ~Settled(y)' /\ ~InPump("offered", y)'
                 /\ InPump("offered", y)' => ~Settled(y)' /\ Held(y)' # {}
                 /\ Settled(y)' \/ InPump("offered", y)' \/ OfferIn(y)' => y < Fresh'
      <3>1. /\ OfferIn(y) => ~Settled(y) /\ ~InPump("offered", y)
            /\ InPump("offered", y) => ~Settled(y) /\ Held(y) # {}
            /\ Settled(y) \/ InPump("offered", y) \/ OfferIn(y) => y < Fresh
        BY DEF Promises, OneOffer
      <3>2. Fresh' = Fresh
        BY <1>1 DEF Fresh
      <3>. QED  BY <1>3, <1>5, <3>1, <3>2
    <2>. QED  BY <1>1, <2>1 DEF Promises, OneOffer, Number
  <1>10. OfferIsHeld'
    <2>1. ASSUME NEW y \in Number, row'[y] = "offered"
          PROVE  \/ Held(y)' # {} \/ y \in void' \cup missed'.files
                 \/ command' \in [pc: {"active", "rejected"}, ref: {y}]
      <3>1. CASE y = x
        BY <1>2, <3>1
      <3>2. CASE y # x
        <4>1. command \notin [pc: {"active", "rejected"}, ref: {y}]
          BY <1>1 DEF Ready
        <4>2. Held(y) # {} \/ y \in void \cup missed.files
          BY <1>1, <2>1, <4>1 DEF Promises, OfferIsHeld
        <4>. QED  BY <1>1, <1>5, <3>2, <4>2
      <3>. QED  BY <3>1, <3>2
    <2>. QED  BY <2>1 DEF OfferIsHeld, Number
  <1>. QED  BY <1>6, <1>7, <1>8, <1>9, <1>10 DEF Promises

\* The answer is stored, over an outcome it is not.
LEMMA AnswerPromises ==
    ASSUME TypeInv, Promises, RespondFinish
    PROVE  Promises'
  <1> DEFINE x == command.ref
  <1>1. /\ command.pc \in Answering /\ command'.pc = "ready"
        /\ \/ missed' = missed /\ row' = Updated(x, command.pc)
           \/ row' = row /\ missed' = [missed EXCEPT !.files = @ \cup {x}]
        /\ budget' = budget \/ Spend("refused")
        /\ UNCHANGED <<net, pump, acked, texts, offers, download, void>>
    BY DEF RespondFinish, Ready, Accepted, Refused, Answering
  <1>2. /\ missed'.texts = missed.texts /\ missed.files \subseteq missed'.files
        /\ missed'.files \subseteq missed.files \cup {x}
        /\ missed' = missed \/ (row' = row /\ x \in missed'.files)
    BY <1>1 DEF TypeInv, BooksOK
  <1>3. x \in Number /\ Settled(x)
    BY <1>1 DEF TypeInv, CommandOK, Ready, Promises, AnsweredIsSettled, Answering
  <1>4. /\ \A y \in Number : y # x => row'[y] = row[y]
        /\ row'[x] = row[x] \/ (row[x] \notin Final \cup {"none"} /\ row'[x] = command.pc)
        /\ row'[x] = "offered" => x \in missed'.files
    BY <1>1, <1>2, <1>3 DEF Updated, TypeInv, BooksOK, Answering, Final
  <1>5. /\ \A kind, y : InPump(kind, y)' <=> InPump(kind, y)
        /\ \A y : (InHand(y) => InHand(y)') /\ Held(y)' = Held(y)
        /\ \A y : OfferIn(y)' => OfferIn(y)
    BY <1>1, <1>2 DEF InPump, InHand, OfferIn, Event, Held
  <1>6. \A y \in Number : Settled(y)' <=> Settled(y)
    BY <1>1, <1>2, <1>3, <1>4 DEF Settled, Final, Answering
  <1>7. AcceptedIsInHand'
    <2>1. ASSUME NEW y \in Number, row'[y] = "active" PROVE InHand(y)'
      <3>1. CASE row[y] = "active"
        BY <1>5, <2>1, <3>1 DEF Promises, AcceptedIsInHand
      <3>2. CASE row[y] # "active"
        <4>1. y = x /\ row[x] \notin Final /\ command.pc = "active"
          BY <1>4, <2>1, <3>2
        <4>. QED  BY <1>5, <4>1 DEF Promises, AnswerIsInHand
      <3>. QED  BY <3>1, <3>2
    <2>. QED  BY <2>1 DEF AcceptedIsInHand, Number
  <1>8. OneOffer'
    <2>1. ASSUME NEW y \in Number
          PROVE  /\ OfferIn(y)' => ~Settled(y)' /\ ~InPump("offered", y)'
                 /\ InPump("offered", y)' => ~Settled(y)' /\ Held(y)' # {}
                 /\ Settled(y)' \/ InPump("offered", y)' \/ OfferIn(y)' => y < Fresh'
      <3>1. /\ OfferIn(y) => ~Settled(y) /\ ~InPump("offered", y)
            /\ InPump("offered", y) => ~Settled(y) /\ Held(y) # {}
            /\ Settled(y) \/ InPump("offered", y) \/ OfferIn(y) => y < Fresh
        BY DEF Promises, OneOffer
      <3>2. Fresh \in Nat /\ Fresh' \in Nat /\ Fresh <= Fresh' /\ y \in Nat
        BY <1>1, FreshGrows, BoundAssumption DEF Number
      <3>. QED  BY <1>5, <1>6, <3>1, <3>2
    <2>. QED  BY <1>1, <2>1 DEF Promises, OneOffer, Number
  <1>9. AckedIsUnderWay' /\ AnswerIsInHand'
    BY <1>1, <1>2, <1>5 DEF Promises, AckedIsUnderWay, AnswerIsInHand
  <1>10. AnsweredIsSettled'
    BY <1>1, <1>5, <1>6, SettledStands DEF Answering
  <1>11. OfferIsHeld'
    <2>1. ASSUME NEW y \in Number, row'[y] = "offered"
          PROVE  Held(y)' # {} \/ y \in void' \cup missed'.files
      <3>1. CASE y = x
        BY <1>1, <1>2, <1>4, <2>1, <3>1 DEF Answering
      <3>2. CASE y # x
        <4>1. row[y] = "offered" /\ command \notin [pc: {"active", "rejected"}, ref: {y}]
          BY <1>4, <2>1, <3>2
        <4>2. Held(y) # {} \/ y \in void \cup missed.files
          BY <4>1 DEF Promises, OfferIsHeld
        <4>. QED  BY <1>1, <1>2, <1>5, <4>2
      <3>. QED  BY <3>1, <3>2
    <2>. QED  BY <2>1 DEF OfferIsHeld, Number
  <1>. QED  BY <1>7, <1>8, <1>9, <1>10, <1>11 DEF Promises

\* What a peer offers has a number of its own.
LEMMA PeerSendsPromises ==
    ASSUME TypeInv, Promises, NEW p \in Plain, NEW kind \in {"text", "offer"}, PeerSends(p, kind)
    PROVE  Promises'
  <1>1. /\ net' \subseteq net \cup {Packet(kind, p, Us, Fresh)}
        /\ Spend("moves")
        /\ UNCHANGED <<pump, row, acked, texts, missed, offers, download, void, command>>
    BY DEF PeerSends, FromPeer, files, ours
  <1>2. CASE kind = "text"
    <2>1. \A a \in net' : a.kind = "offer" => a \in net
      BY <1>1, <1>2 DEF Packet
    <2>. QED  BY <1>1, <2>1, PromisesKept
  <1>3. CASE kind = "offer"
    <2>1. Fresh \in Number /\ Fresh' = Fresh + 1 /\ Fresh \in Nat
      BY <1>1, MoveSpent DEF TypeInv
    <2>2. \A a \in net' : a.kind = "offer" => a \in net \/ a = Packet(kind, p, Us, Fresh)
      BY <1>1
    <2>3. ~OfferIn(Fresh) /\ ~InPump("offered", Fresh) /\ ~Settled(Fresh)
      BY <2>1 DEF Promises, OneOffer
    <2>4. /\ \A k, y : InPump(k, y)' <=> InPump(k, y)
          /\ \A y : (InHand(y)' <=> InHand(y)) /\ (Settled(y)' <=> Settled(y)) /\ Held(y)' = Held(y)
      BY <1>1 DEF InPump, InHand, Event, Settled, Held
    <2>5. \A y : OfferIn(y)' => OfferIn(y) \/ y = Fresh
      <3>1. \A y : OfferIn(y)' <=> \E a \in net' : a.kind = "offer" /\ a.ref = y
        BY DEF OfferIn
      <3>2. Packet(kind, p, Us, Fresh).ref = Fresh
        BY DEF Packet
      <3>. QED  BY <2>2, <3>1, <3>2 DEF OfferIn
    <2>6. \A a, b \in net' : a.kind = "offer" /\ b.kind = "offer" /\ a.ref = b.ref => a = b
      <3>1. \A a \in net : a.kind = "offer" => a.ref # Fresh
        BY <2>3 DEF OfferIn
      <3>2. Packet(kind, p, Us, Fresh).ref = Fresh
        BY DEF Packet
      <3>. QED  BY <2>2, <3>1, <3>2 DEF Promises, OneOffer
    <2>7. ASSUME NEW x \in Number
          PROVE  /\ OfferIn(x)' => ~Settled(x)' /\ ~InPump("offered", x)'
                 /\ InPump("offered", x)' => ~Settled(x)' /\ Held(x)' # {}
                 /\ Settled(x)' \/ InPump("offered", x)' \/ OfferIn(x)' => x < Fresh'
      <3>1. /\ OfferIn(x) => ~Settled(x) /\ ~InPump("offered", x)
            /\ InPump("offered", x) => ~Settled(x) /\ Held(x) # {}
            /\ Settled(x) \/ InPump("offered", x) \/ OfferIn(x) => x < Fresh
        BY DEF Promises, OneOffer
      <3>2. x \in Nat
        BY BoundAssumption DEF Number
      <3>. QED  BY <1>1, <2>1, <2>3, <2>4, <2>5, <3>1, <3>2
    <2>8. OneOffer'
      BY <1>1, <2>6, <2>7 DEF Promises, OneOffer, Number
    <2>9. AckedIsUnderWay' /\ AcceptedIsInHand' /\ AnswerIsInHand'
      BY <1>1, <2>4 DEF Promises, AckedIsUnderWay, AcceptedIsInHand, AnswerIsInHand, Number, Final
    <2>10. OfferIsHeld' /\ AnsweredIsSettled'
      BY <1>1, <2>4, OffersStand, SettledStands DEF Promises
    <2>. QED  BY <2>8, <2>9, <2>10 DEF Promises
  <1>. QED  BY <1>2, <1>3

\* The process ends; what it owed is recorded.
LEMMA ExitPromises ==
    ASSUME TypeInv, Promises, Exit
    PROVE  Promises'
  <1>1. /\ pump' = <<>> /\ download' = {} /\ net' \subseteq net /\ command' = Ready
        /\ void' = void \cup {x \in Number : row[x] \in {"offered", "active"}}
        /\ budget' = budget \/ Spend("exits")
        /\ UNCHANGED <<row, acked, texts>>
    BY DEF Exit
  <1>2. Fresh \in Nat /\ Fresh' \in Nat /\ Fresh <= Fresh'
    BY <1>1, FreshGrows
  <1>3. /\ \A kind, x : ~InPump(kind, x)'
        /\ \A x : OfferIn(x)' => OfferIn(x)
    <2>1. DOMAIN pump' = {}
      BY <1>1
    <2>2. \A kind, x : ~InPump(kind, x)'
      BY <2>1 DEF InPump
    <2>3. \A x : OfferIn(x)' => OfferIn(x)
      BY <1>1 DEF OfferIn
    <2>. QED  BY <2>2, <2>3
  <1>4. /\ missed'.files = missed.files /\ missed.texts \subseteq missed'.texts
        /\ {e.ref : e \in {f \in Range(pump) : f.kind = "text"}} \subseteq missed'.texts
    BY DEF Exit, TypeInv, BooksOK
  <1>5. \A x : Settled(x)' <=> Settled(x)
    BY <1>1, <1>4 DEF Settled
  <1>6. OneOffer'
    <2>1. ASSUME NEW x \in Number
          PROVE  /\ OfferIn(x)' => ~Settled(x)' /\ ~InPump("offered", x)'
                 /\ InPump("offered", x)' => ~Settled(x)' /\ Held(x)' # {}
                 /\ Settled(x)' \/ InPump("offered", x)' \/ OfferIn(x)' => x < Fresh'
      <3>1. x \in Nat
        BY BoundAssumption DEF Number
      <3>. QED  BY <1>1, <1>2, <1>3, <1>5, <3>1 DEF Promises, OneOffer
    <2>2. \A a, b \in net' : a.kind = "offer" /\ b.kind = "offer" /\ a.ref = b.ref => a = b
      BY <1>1 DEF Promises, OneOffer
    <2>3. \A i, j \in DOMAIN pump' : pump'[i] = pump'[j] /\ pump'[i].kind = "offered" => i = j
      BY <1>1
    <2>. QED  BY <2>1, <2>2, <2>3 DEF OneOffer, Number
  <1>7. AckedIsUnderWay'
    <2>1. \A n : InPump("text", n) => n \in {e.ref : e \in {f \in Range(pump) : f.kind = "text"}}
      BY DEF InPump, Event, Range
    <2>. QED  BY <1>1, <1>4, <2>1 DEF Promises, AckedIsUnderWay
  <1>8. AcceptedIsInHand' /\ AnswerIsInHand' /\ OfferIsHeld'
    BY <1>1 DEF AcceptedIsInHand, AnswerIsInHand, OfferIsHeld, InHand, Number, Ready
  <1>9. AnsweredIsSettled'
    BY <1>1, <1>3 DEF AnsweredIsSettled, Ready, Answering
  <1>. QED  BY <1>6, <1>7, <1>8, <1>9 DEF Promises

LEMMA PromisesStep == ASSUME TypeInv, Promises, [Next]_vars PROVE Promises'
  <1>1. CASE SendEntry \/ Tick
    BY <1>1, PromisesKept DEF SendEntry, Tick, files, ours, ToAll, Packet
  <1>2. ASSUME NEW a \in net, Receive(a) PROVE Promises'
    <2>1. CASE RecvText(a)
      BY <2>1, RecvTextPromises
    <2>2. CASE RecvOffer(a)
      BY <2>2, RecvOfferPromises
    <2>3. CASE RecvEntry(a) \/ RecvAnswer(a) \/ RecvExit(a)
      <3>1. /\ UNCHANGED <<pump, row, acked, texts, missed, download, void, offers, command, budget>>
            /\ \A b \in net' : b.kind = "offer" => b \in net
        BY <2>3 DEF RecvEntry, RecvAnswer, RecvExit, files, ours, Packet
      <3>. QED  BY <3>1, PromisesKept
    <2>4. CASE Filtered(a) \/ PeerAnswers(a) \/ PeerHears(a)
      <3>1. /\ UNCHANGED <<pump, row, acked, texts, missed, download, void, offers, command, budget>>
            /\ \A b \in net' : b.kind = "offer" => b \in net
        BY <2>4 DEF Filtered, PeerAnswers, PeerHears, files, ours, Packet, FromPeer
      <3>. QED  BY <3>1, PromisesKept
    <2>. QED  BY <1>2, <2>1, <2>2, <2>3, <2>4 DEF Receive
  <1>3. CASE \/ \E l \in loops : LoopEnds(l)
             \/ \E p \in Peer : Expire(p) \/ Evict(p)
    BY <1>3, PromisesKept DEF LoopEnds, Expire, Evict, files, ours
  <1>4. CASE SetNick \/ Goodbye \/ NoGoodbye \/ Start \/ \E r \in Ranges : SetRange(r)
    BY <1>4, PromisesKept DEF SetNick, Goodbye, NoGoodbye, Start, SetRange, files, ours, ToAll, Packet
  <1>5. CASE \/ \E p \in Peer : PeerStarts(p)
             \/ \E p \in Plain : PeerEnds(p, {}) \/ PeerEnds(p, {"exit"})
             \/ \E a \in net : Lose(a)
    <2>1. /\ UNCHANGED <<pump, row, acked, texts, missed, download, void, offers, command>>
          /\ Spend("moves") \/ Spend("lost")
          /\ \A b \in net' : b.kind = "offer" => b \in net
      BY <1>5 DEF PeerStarts, PeerEnds, Lose, files, ours, Packet, FromPeer
    <2>. QED  BY <2>1, PromisesKept
  <1>6. ASSUME NEW p \in Plain, NEW kind \in {"texts", "files"}, Send(kind, p)
        PROVE  Promises'
    <2>1. /\ UNCHANGED <<pump, row, acked, texts, missed, download, void, offers, net>>
          /\ Spend("moves") /\ command.pc \notin Answering /\ command'.pc \notin Answering
      BY <1>6 DEF Send, files, ours, Commands, Ready, Answering
    <2>. QED  BY <2>1, PromisesKept
  <1>7. ASSUME NEW kind \in {"texts", "files"}, Finish(kind) PROVE Promises'
    <2>1. /\ UNCHANGED <<pump, row, acked, texts, download, void, offers, net>>
          /\ budget' = budget \/ Spend("refused")
          /\ command.pc \notin Answering /\ command'.pc \notin Answering
      BY <1>7 DEF Finish, files, Accepted, Refused, Ready, Answering
    <2>2. missed'.files = missed.files /\ missed.texts \subseteq missed'.texts
      BY <1>7 DEF Finish, Accepted, Refused, TypeInv, BooksOK
    <2>. QED  BY <2>1, <2>2, PromisesKept
  <1>8. CASE UNCHANGED vars
    BY <1>8, PromisesKept DEF vars, files, ours
  <1>9. CASE Runs
    BY <1>1, <1>2, <1>3, <1>7, <1>9, StoreTextPromises, StoreTransferPromises, AnswerPromises DEF Runs
  <1>. QED
    BY <1>4, <1>5, <1>6, <1>8, <1>9, ExitPromises, PeerSendsPromises, AnswerTaken,
       DownloadEndsPromises, DownloadPanicsPromises DEF Next

LEMMA PromisesInv == Spec => []Promises
  <1>1. ASSUME Init PROVE Promises
    <2>1. \A kind, x : ~InPump(kind, x)
      BY <1>1 DEF Init, InPump
    <2>. QED  BY <1>1, <2>1 DEF Init, Promises, AckedIsUnderWay, AcceptedIsInHand, AnswerIsInHand,
                               AnsweredIsSettled, OneOffer, OfferIsHeld, OfferIn, Settled, Ready, Answering
  <1>. QED  BY <1>1, PromisesStep, TypeInvariant, PTL DEF Spec

\* A text we gave a receipt for is in the database, or in the channel of the thread that
\* stores it, or among those recorded as missed: refused by the database, or still in the
\* channel of a process that ended (recv_loop, forward_ipmsg_event, persist_event).
THEOREM AckedIsNotLost == Spec => []AckedIsUnderWay
  BY PromisesInv, PTL DEF Promises

\* A file that is shown as offered can be answered: its offer is in the table for as long as
\* no answer took it out and the process lives (forward_ipmsg_event, respond_file,
\* persist_event): however offers, rows, answers and downloads interleave.
THEOREM OfferIsAnswerable == Spec => []OfferIsHeld
  BY PromisesInv, PTL DEF Promises

\* A file whose row is active is being fetched, or its outcome waits to be stored; or its
\* thread has died, the process has ended or the database refused a write, and the model
\* says so (respond_file_ipmsg, update_transfer): no answer is stored over an outcome, and
\* no outcome is hidden by its own offer.
THEOREM AcceptedIsNotForgotten == Spec => []AcceptedIsInHand
  BY PromisesInv, PTL DEF Promises

-----------------------------------------------------------------------------
(***************************************************************************)
(* Folders, as receive_dir_stream takes them from a stream of entries.  The   *)
(* receiver's stack is related to the stream: above the root it holds one     *)
(* frame for every directory that is open, with the path of that directory,   *)
(* and each of them has seen as many returns as directories below it, but for *)
(* those that are open above it (Frames).  By induction over the entries, the *)
(* receiver then holds what the stream describes (Fed).                       *)
(***************************************************************************)

\* The least of a set of numbers.
LEMMA Least ==
    ASSUME NEW T, T \subseteq Nat, T # {}
    PROVE  \E x \in T : \A y \in T : x <= y
  <1> DEFINE R == OpToRel(<, Nat)
  <1>1. \A x, y \in Nat : y < x => <<y, x>> \in R
    BY DEF OpToRel
  <1>2. IsWellFoundedOn(R, Nat)
    BY NatLessThanWellFounded
  <1> HIDE DEF R
  <1>3. PICK x \in T : \A y \in T : ~ (<<y, x>> \in R)
    BY <1>2, WFMin
  <1>4. \A y \in T : ~(y < x)
    BY <1>1, <1>3
  <1>. QED  BY <1>4

\* Induction up to n.
LEMMA UpTo ==
    ASSUME NEW n \in Nat, NEW G, 0 \in G, \A k \in 0 .. n - 1 : k \in G => k + 1 \in G
    PROVE  \A k \in 0 .. n : k \in G
  <1> SUFFICES ASSUME NEW k \in 0 .. n, k \notin G PROVE FALSE
    OBVIOUS
  <1> DEFINE B == {i \in 0 .. n : i \notin G}
  <1>1. PICK i \in B : \A j \in B : i <= j
    <2>1. B \subseteq Nat /\ B # {}
      OBVIOUS
    <2> HIDE DEF B
    <2>. QED  BY <2>1, Least
  <1>2. i # 0 /\ i - 1 \in 0 .. n - 1 /\ i - 1 \notin B
    BY <1>1
  <1>. QED  BY <1>1, <1>2

-----------------------------------------------------------------------------
(* Numbers in their order. *)

Rising(p) == \A k, l \in DOMAIN p : k < l => p[k] < p[l]

LEMMA RisingUnique ==
    ASSUME NEW p \in Seq(Nat), NEW q \in Seq(Nat), Rising(p), Rising(q),
           Len(p) = Len(q), ToSet(p) = ToSet(q)
    PROVE  p = q
  <1> DEFINE n == Len(p)
             B == {k \in 1 .. n : p[k] # q[k]}
  <1>1. /\ n \in Nat /\ DOMAIN p = 1 .. n /\ DOMAIN q = 1 .. n
        /\ \A k \in 1 .. n : p[k] \in Nat /\ q[k] \in Nat
    OBVIOUS
  <1> HIDE DEF n
  <1>2. SUFFICES ASSUME B # {} PROVE FALSE
    BY <1>1 DEF n
  <1>3. PICK k \in B : \A j \in B : k <= j
    <2>1. B \subseteq Nat
      BY <1>1
    <2> HIDE DEF B
    <2>. QED  BY <1>2, <2>1, Least
  <1>4. k \in 1 .. n /\ p[k] # q[k] /\ \A j \in 1 .. n : j < k => p[j] = q[j]
    BY <1>1, <1>3
  <1>5. PICK l \in 1 .. n : q[l] = p[k]
    BY <1>1, <1>4 DEF ToSet
  <1>6. PICK m \in 1 .. n : p[m] = q[k]
    BY <1>1, <1>4 DEF ToSet
  <1>7. k < l
    <2>1. l < k => p[l] = p[k] /\ p[l] < p[k]
      BY <1>1, <1>4, <1>5 DEF Rising
    <2>. QED  BY <1>1, <1>4, <1>5, <2>1
  <1>8. k < m
    <2>1. m < k => q[m] = q[k] /\ q[m] < q[k]
      BY <1>1, <1>4, <1>6 DEF Rising
    <2>. QED  BY <1>1, <1>4, <1>6, <2>1
  <1>9. q[k] < p[k]
    BY <1>1, <1>4, <1>5, <1>7 DEF Rising
  <1>10. p[k] < q[k]
    BY <1>1, <1>4, <1>6, <1>8 DEF Rising
  <1>. QED  BY <1>1, <1>4, <1>9, <1>10

\* A rising sequence is how its elements are in their order.
LEMMA AscendingFact ==
    ASSUME NEW p \in Seq(Nat), Rising(p)
    PROVE  Ascending(ToSet(p)) = p
  <1> DEFINE S == ToSet(p)
             n == Len(p)
             Is(q) == ToSet(q) = S /\ \A k, l \in DOMAIN q : k < l => q[k] < q[l]
  <1>1. n \in Nat /\ DOMAIN p = 1 .. n /\ p \in [1 .. n -> S] /\ \A k \in 1 .. n : p[k] \in Nat
    BY DEF ToSet
  <1>2. IsFiniteSet(1 .. n) /\ Cardinality(1 .. n) = n
    <2> HIDE DEF n
    <2>1. 1 \in Int /\ n \in Int /\ (1 > n => n = 0) /\ n - 1 + 1 = n
      BY <1>1
    <2>. QED  BY <2>1, FS_Interval
  <1>3. p \in Surjection(1 .. n, S) /\ p \in Injection(1 .. n, S)
    <2>1. \A k, l \in 1 .. n : p[k] = p[l] => k = l
      <3>1. ASSUME NEW k \in 1 .. n, NEW l \in 1 .. n, p[k] = p[l] PROVE k = l
        <4>1. ~(k < l) /\ ~(l < k)
          BY <1>1, <3>1 DEF Rising
        <4>. QED  BY <1>1, <4>1
      <3>. QED  BY <3>1
    <2>2. \A x \in S : \E k \in 1 .. n : p[k] = x
      BY <1>1 DEF ToSet
    <2>. QED  BY <1>1, <2>1, <2>2 DEF Surjection, Injection, IsInjective
  <1>4. Cardinality(S) = n
    <2> HIDE DEF S, n
    <2>. QED  BY <1>2, <1>3, FS_Surjection
  <1>5. Is(p)
    BY DEF Rising
  <1>6. Ascending(S) \in [1 .. n -> S] /\ Is(Ascending(S))
    <2>1. Ascending(S) = CHOOSE q \in [1 .. n -> S] : Is(q)
      BY <1>4 DEF Ascending
    <2> HIDE DEF Is, S, n
    <2>. QED  BY <1>1, <1>5, <2>1
  <1>7. \A x \in S : x \in Nat
    BY <1>1 DEF ToSet
  <1> DEFINE q == Ascending(S)
  <1>8. q \in Seq(Nat) /\ Len(q) = n /\ Rising(q) /\ ToSet(q) = S
    <2>1. q \in [1 .. n -> Nat]
      <3> HIDE DEF q, S, n
      <3>. QED  BY <1>6, <1>7 DEF q
    <2>2. q \in Seq(Nat) /\ Len(q) = n
      <3> HIDE DEF q, n
      <3>. QED  BY <1>1, <2>1
    <2>. QED  BY <1>6, <2>2 DEF Rising
  <1> QED
    <2> HIDE DEF q, S, n
    <2>. QED  BY <1>8, RisingUnique DEF q, S, n

-----------------------------------------------------------------------------
(* Counting entries. *)

LEMMA CountFact ==
    ASSUME NEW s, NEW kind, NEW from \in Nat, NEW to \in Nat
    PROVE  /\ Count(s, kind, from, to) \in Nat
           /\ to < from => Count(s, kind, from, to) = 0
           /\ from <= to + 1 =>
                 Count(s, kind, from, to + 1) =
                    Count(s, kind, from, to) + IF s[to + 1].kind = kind THEN 1 ELSE 0
  <1> DEFINE S == {k \in from .. to : s[k].kind = kind}
             T == {k \in from .. to + 1 : s[k].kind = kind}
  <1>1. IsFiniteSet(S)
    <2>1. IsFiniteSet(from .. to) /\ S \subseteq from .. to
      BY FS_Interval
    <2> HIDE DEF S
    <2>. QED  BY <2>1, FS_Subset
  <1>2. Cardinality(S) \in Nat
    <2> HIDE DEF S
    <2>. QED  BY <1>1, FS_CardinalityType
  <1>3. ASSUME to < from PROVE Cardinality(S) = 0
    <2>1. S = {}
      BY <1>3
    <2>. QED  BY <2>1, FS_EmptySet
  <1>4. ASSUME from <= to + 1
        PROVE  Cardinality(T) = Cardinality(S) + IF s[to + 1].kind = kind THEN 1 ELSE 0
    <2>1. from .. to + 1 = (from .. to) \cup {to + 1} /\ to + 1 \notin from .. to
      BY <1>4
    <2>2. CASE s[to + 1].kind = kind
      <3>1. T = S \cup {to + 1} /\ to + 1 \notin S
        BY <2>1, <2>2
      <3> HIDE DEF S, T
      <3>. QED  BY <1>1, <1>2, <2>2, <3>1, FS_AddElement
    <2>3. CASE s[to + 1].kind # kind
      <3>1. T = S
        BY <2>1, <2>3
      <3> HIDE DEF S, T
      <3>. QED  BY <1>2, <2>3, <3>1
    <2>. QED  BY <2>2, <2>3
  <1>. QED  BY <1>2, <1>3, <1>4 DEF Count

-----------------------------------------------------------------------------
(* Directories that are open. *)

Opened(s, n) == {j \in 1 .. n : OpenAt(s, j, n + 1)}

LEMMA OpenedStep ==
    ASSUME NEW s, NEW n \in Nat
    PROVE  /\ \A j \in 1 .. n : j \in Opened(s, n + 1) <=>
                 /\ j \in Opened(s, n)
                 /\ Count(s, "return", j + 1, n + 1) <= Count(s, "dir", j + 1, n + 1)
           /\ n + 1 \in Opened(s, n + 1) <=> s[n + 1].kind = "dir"
  <1>1. ASSUME NEW j \in 1 .. n
        PROVE  j \in Opened(s, n + 1) <=>
                  /\ j \in Opened(s, n)
                  /\ Count(s, "return", j + 1, n + 1) <= Count(s, "dir", j + 1, n + 1)
    <2>1. /\ (n + 1) + 1 - 1 = n + 1 /\ (n + 1) - 1 = n
          /\ j < n + 1 /\ j < (n + 1) + 1 /\ j \in 1 .. n + 1
          /\ j + 1 .. n + 1 = (j + 1 .. n) \cup {n + 1}
      OBVIOUS
    <2> DEFINE Fine(k) == Count(s, "return", j + 1, k) <= Count(s, "dir", j + 1, k)
    <2>2. OpenAt(s, j, n + 1) <=> s[j].kind = "dir" /\ \A k \in j + 1 .. n : Fine(k)
      BY <2>1 DEF OpenAt
    <2>3. OpenAt(s, j, (n + 1) + 1) <=> s[j].kind = "dir" /\ \A k \in j + 1 .. n + 1 : Fine(k)
      BY <2>1 DEF OpenAt
    <2> HIDE DEF Fine
    <2>4. (\A k \in j + 1 .. n + 1 : Fine(k)) <=> (\A k \in j + 1 .. n : Fine(k)) /\ Fine(n + 1)
      BY <2>1
    <2>. QED  BY <2>1, <2>2, <2>3, <2>4 DEF Opened, Fine
  <1>2. n + 1 \in Opened(s, n + 1) <=> s[n + 1].kind = "dir"
    <2>1. /\ n + 1 \in 1 .. n + 1 /\ n + 1 < (n + 1) + 1
          /\ (n + 1) + 1 .. (n + 1) + 1 - 1 = {}
      OBVIOUS
    <2>2. OpenAt(s, n + 1, (n + 1) + 1) <=> s[n + 1].kind = "dir"
      BY <2>1 DEF OpenAt
    <2>. QED  BY <2>1, <2>2 DEF Opened
  <1>. QED  BY <1>1, <1>2

\* w are the directories that are open after n entries, outermost first, and the stack
\* holds, above the root, the path of each.
Frames(s, n, stack, w) ==
    /\ w \in Seq(Nat) /\ Rising(w) /\ ToSet(w) = Opened(s, n)
    /\ \A l \in 1 .. Len(w) :
          Count(s, "dir", w[l] + 1, n) = Count(s, "return", w[l] + 1, n) + (Len(w) - l)
    /\ stack \in Seq(Seq(Nat)) /\ Len(stack) = Len(w) + 1
    /\ \A l \in 1 .. Len(w) + 1 :
          /\ Rising(stack[l])
          /\ ToSet(stack[l]) = {j \in {w[k] : k \in 1 .. l - 1} : s[j].safe}

LEMMA FramesLen ==
    ASSUME NEW s, NEW n \in Nat, NEW stack, NEW w, Frames(s, n, stack, w)
    PROVE  Len(w) \in Nat /\ DOMAIN w = 1 .. Len(w) /\ DOMAIN stack = 1 .. Len(w) + 1
  BY DEF Frames

LEMMA FramesOpen ==
    ASSUME NEW s, NEW n \in Nat, NEW stack, NEW w, Frames(s, n, stack, w)
    PROVE  /\ \A l \in 1 .. Len(w) : w[l] \in 1 .. n /\ w[l] \in Opened(s, n)
           /\ \A j \in Opened(s, n) : \E l \in 1 .. Len(w) : j = w[l]
  <1>1. DOMAIN w = 1 .. Len(w)
    BY FramesLen
  <1>2. \A l \in 1 .. Len(w) : w[l] \in Opened(s, n)
    BY <1>1 DEF Frames, ToSet
  <1>3. \A j \in Opened(s, n) : \E l \in 1 .. Len(w) : j = w[l]
    BY <1>1 DEF Frames, ToSet
  <1>4. \A j \in Opened(s, n) : j \in 1 .. n
    BY DEF Opened
  <1>. QED  BY <1>2, <1>3, <1>4

LEMMA FramesTop ==
    ASSUME NEW s, NEW n \in Nat, NEW stack, NEW w, Frames(s, n, stack, w)
    PROVE  /\ Len(w) + 1 \in 1 .. Len(w) + 1 /\ stack # <<>>
           /\ Last(stack) = stack[Len(w) + 1] /\ Last(stack) \in Seq(Nat)
  BY DEF Frames, Last

LEMMA FramesCount ==
    ASSUME NEW s, NEW n \in Nat, NEW stack, NEW w, Frames(s, n, stack, w),
           NEW l \in 1 .. Len(w), NEW kind
    PROVE  /\ Count(s, kind, w[l] + 1, n) \in Nat
           /\ Count(s, kind, w[l] + 1, n + 1) =
                 Count(s, kind, w[l] + 1, n) + IF s[n + 1].kind = kind THEN 1 ELSE 0
  <1> DEFINE from == w[l] + 1
  <1>1. w[l] \in 1 .. n
    BY FramesOpen
  <1>2. from \in Nat /\ from <= n + 1
    BY <1>1
  <1> HIDE DEF from
  <1>3. /\ Count(s, kind, from, n) \in Nat
        /\ Count(s, kind, from, n + 1) = Count(s, kind, from, n) + IF s[n + 1].kind = kind THEN 1 ELSE 0
    BY <1>2, CountFact
  <1>. QED  BY <1>3 DEF from

LEMMA FramesCounts ==
    ASSUME NEW s, NEW n \in Nat, NEW stack, NEW w, Frames(s, n, stack, w),
           NEW l \in 1 .. Len(w)
    PROVE  /\ Count(s, "dir", w[l] + 1, n) \in Nat /\ Count(s, "return", w[l] + 1, n) \in Nat
           /\ Count(s, "dir", w[l] + 1, n + 1) =
                 IF s[n + 1].kind = "dir" THEN Count(s, "dir", w[l] + 1, n) + 1
                                          ELSE Count(s, "dir", w[l] + 1, n)
           /\ Count(s, "return", w[l] + 1, n + 1) =
                 IF s[n + 1].kind = "return" THEN Count(s, "return", w[l] + 1, n) + 1
                                             ELSE Count(s, "return", w[l] + 1, n)
  <1> DEFINE Now(kind)  == Count(s, kind, w[l] + 1, n)
             Next1(kind) == Count(s, kind, w[l] + 1, n + 1)
  <1>1. ASSUME NEW kind
        PROVE  Now(kind) \in Nat /\ Next1(kind) = Now(kind) + IF s[n + 1].kind = kind THEN 1 ELSE 0
    BY FramesCount
  <1> HIDE DEF Now, Next1
  <1>2. /\ Now("dir") \in Nat
        /\ Next1("dir") = IF s[n + 1].kind = "dir" THEN Now("dir") + 1 ELSE Now("dir")
    BY <1>1
  <1>3. /\ Now("return") \in Nat
        /\ Next1("return") = IF s[n + 1].kind = "return" THEN Now("return") + 1 ELSE Now("return")
    BY <1>1
  <1>. QED  BY <1>2, <1>3 DEF Now, Next1

\* The path of the next entry is on top of the stack.
LEMMA PathFact ==
    ASSUME NEW s, NEW n \in Nat, NEW stack, NEW w, Frames(s, n, stack, w)
    PROVE  PathOf(s, n + 1) = Append(Last(stack), n + 1)
  <1> DEFINE m == Len(w)
             S == {j \in 1 .. n : OpenAt(s, j, n + 1) /\ s[j].safe}
  <1>1. /\ m \in Nat /\ DOMAIN w = 1 .. m
        /\ stack[m + 1] \in Seq(Nat) /\ Last(stack) = stack[m + 1]
    BY FramesLen, FramesTop
  <1>2. Rising(stack[m + 1]) /\ ToSet(stack[m + 1]) = {j \in {w[k] : k \in 1 .. m} : s[j].safe}
    <2>1. m + 1 \in 1 .. m + 1 /\ (m + 1) - 1 = m
      BY <1>1
    <2>. QED  BY <2>1 DEF Frames
  <1>3. ToSet(stack[m + 1]) = S
    <2>1. {w[k] : k \in 1 .. m} = Opened(s, n)
      BY FramesOpen
    <2>. QED  BY <1>2, <2>1 DEF Opened
  <1>4. Ascending(S) = stack[m + 1]
    <2> HIDE DEF S, m
    <2>. QED  BY <1>1, <1>2, <1>3, AscendingFact
  <1>5. PathOf(s, n + 1) = Append(Ascending(S), n + 1)
    <2>1. (n + 1) - 1 = n
      OBVIOUS
    <2>. QED  BY <2>1 DEF PathOf
  <1>. QED  BY <1>1, <1>4, <1>5

LEMMA FramesKept ==
    ASSUME NEW s, NEW n \in Nat, NEW stack, NEW w, Frames(s, n, stack, w),
           s[n + 1].kind \notin {"dir", "return"}
    PROVE  Frames(s, n + 1, stack, w)
  <1>1. Opened(s, n + 1) = Opened(s, n)
    <2>1. ASSUME NEW j \in 1 .. n PROVE j \in Opened(s, n + 1) <=> j \in Opened(s, n)
      <3>1. ASSUME j \in Opened(s, n)
            PROVE  Count(s, "return", j + 1, n + 1) <= Count(s, "dir", j + 1, n + 1)
        <4>1. PICK l \in 1 .. Len(w) : j = w[l]
          BY <3>1, FramesOpen
        <4>2. Count(s, "dir", w[l] + 1, n) = Count(s, "return", w[l] + 1, n) + (Len(w) - l)
          BY DEF Frames
        <4>3. /\ Count(s, "dir", w[l] + 1, n + 1) = Count(s, "dir", w[l] + 1, n)
              /\ Count(s, "return", w[l] + 1, n + 1) = Count(s, "return", w[l] + 1, n)
              /\ Count(s, "return", w[l] + 1, n) \in Nat
          BY FramesCounts
        <4>4. Len(w) \in Nat
          BY FramesLen
        <4>. QED  BY <4>1, <4>2, <4>3, <4>4
      <3>. QED  BY <3>1, OpenedStep
    <2>2. s[n + 1].kind # "dir"
      OBVIOUS
    <2>3. n + 1 \notin Opened(s, n + 1)
      BY <2>2, OpenedStep
    <2>4. Opened(s, n) \subseteq 1 .. n /\ Opened(s, n + 1) \subseteq 1 .. n + 1
      BY DEF Opened
    <2>. HIDE DEF Opened
    <2>. QED  BY <2>1, <2>3, <2>4
  <1>2. ASSUME NEW l \in 1 .. Len(w)
        PROVE  Count(s, "dir", w[l] + 1, n + 1) = Count(s, "return", w[l] + 1, n + 1) + (Len(w) - l)
    <2>1. Count(s, "dir", w[l] + 1, n) = Count(s, "return", w[l] + 1, n) + (Len(w) - l)
      BY DEF Frames
    <2>2. /\ Count(s, "dir", w[l] + 1, n + 1) = Count(s, "dir", w[l] + 1, n)
          /\ Count(s, "return", w[l] + 1, n + 1) = Count(s, "return", w[l] + 1, n)
          /\ Count(s, "dir", w[l] + 1, n) \in Nat /\ Count(s, "return", w[l] + 1, n) \in Nat
      BY FramesCounts
    <2>. QED  BY <2>1, <2>2
  <1>. QED  BY <1>1, <1>2 DEF Frames

LEMMA FramesEnter ==
    ASSUME NEW s, NEW n \in Nat, NEW stack, NEW w, Frames(s, n, stack, w),
           s[n + 1].kind = "dir", s[n + 1].safe \in BOOLEAN
    PROVE  LET top == Last(stack)
               new == IF s[n + 1].safe THEN Append(top, n + 1) ELSE top
           IN Frames(s, n + 1, Append(stack, new), Append(w, n + 1))
  <1> DEFINE m   == Len(w)
             top == stack[m + 1]
             new == IF s[n + 1].safe THEN Append(top, n + 1) ELSE top
             v   == Append(w, n + 1)
             st  == Append(stack, new)
  <1>1. /\ m \in Nat /\ DOMAIN w = 1 .. m /\ Last(stack) = top /\ top \in Seq(Nat)
        /\ \A l \in 1 .. m : w[l] \in 1 .. n
        /\ w \in Seq(Nat) /\ stack \in Seq(Seq(Nat)) /\ Len(stack) = m + 1
    <2>1. m \in Nat /\ DOMAIN w = 1 .. m
      BY FramesLen
    <2>2. Last(stack) = top /\ top \in Seq(Nat)
      BY FramesTop
    <2>3. \A l \in 1 .. m : w[l] \in 1 .. n
      BY FramesOpen
    <2>. QED  BY <2>1, <2>2, <2>3 DEF Frames
  <1>2. /\ v \in Seq(Nat) /\ Len(v) = m + 1 /\ DOMAIN v = 1 .. m + 1
        /\ \A l \in 1 .. m : v[l] = w[l]
        /\ v[m + 1] = n + 1
    BY <1>1
  <1>3. new \in Seq(Nat)
    BY <1>1
  <1>4. /\ st \in Seq(Seq(Nat)) /\ Len(st) = m + 2
        /\ \A l \in 1 .. m + 1 : st[l] = stack[l]
        /\ st[m + 2] = new
    <2> HIDE DEF new
    <2>. QED  BY <1>1, <1>3
  <1> HIDE DEF m, v, st
  <1>5. Rising(v)
    <2>1. ASSUME NEW k \in 1 .. m + 1, NEW l \in 1 .. m + 1, k < l PROVE v[k] < v[l]
      <3>1. k \in 1 .. m /\ v[k] = w[k] /\ w[k] \in 1 .. n
        BY <1>1, <1>2, <2>1
      <3>2. CASE l = m + 1
        BY <1>2, <3>1, <3>2
      <3>3. CASE l # m + 1
        <4>1. l \in 1 .. m /\ v[l] = w[l]
          BY <1>1, <1>2, <3>3
        <4>. QED  BY <1>1, <2>1, <3>1, <4>1 DEF Frames, Rising
      <3>. QED  BY <3>2, <3>3
    <2>. QED  BY <1>2, <2>1 DEF Rising
  <1>6. {v[k] : k \in 1 .. m} = {w[k] : k \in 1 .. m} /\ ToSet(v) = ToSet(w) \cup {n + 1}
    <2>1. 1 .. m + 1 = (1 .. m) \cup {m + 1}
      BY <1>1
    <2>2. {v[k] : k \in 1 .. m} = {w[k] : k \in 1 .. m}
      BY <1>2
    <2>3. ToSet(v) = {v[k] : k \in 1 .. m + 1} /\ ToSet(w) = {w[k] : k \in 1 .. m}
      BY <1>1, <1>2 DEF ToSet
    <2>4. {v[k] : k \in 1 .. m + 1} = {v[k] : k \in 1 .. m} \cup {v[m + 1]}
      BY <2>1
    <2>. QED  BY <1>2, <2>2, <2>3, <2>4
  <1>7. Opened(s, n + 1) = Opened(s, n) \cup {n + 1}
    <2>1. ASSUME NEW j \in 1 .. n PROVE j \in Opened(s, n + 1) <=> j \in Opened(s, n)
      <3>1. ASSUME j \in Opened(s, n)
            PROVE  Count(s, "return", j + 1, n + 1) <= Count(s, "dir", j + 1, n + 1)
        <4>1. PICK l \in 1 .. Len(w) : j = w[l]
          BY <3>1, FramesOpen
        <4>2. Count(s, "dir", w[l] + 1, n) = Count(s, "return", w[l] + 1, n) + (Len(w) - l)
          BY DEF Frames
        <4>3. /\ Count(s, "dir", w[l] + 1, n + 1) = Count(s, "dir", w[l] + 1, n) + 1
              /\ Count(s, "return", w[l] + 1, n + 1) = Count(s, "return", w[l] + 1, n)
              /\ Count(s, "return", w[l] + 1, n) \in Nat
          BY FramesCounts
        <4>4. Len(w) \in Nat
          BY FramesLen
        <4>. QED  BY <4>1, <4>2, <4>3, <4>4
      <3>. QED  BY <3>1, OpenedStep
    <2>2. n + 1 \in Opened(s, n + 1)
      BY OpenedStep
    <2>3. \A j \in Opened(s, n + 1) \cup Opened(s, n) : j \in 1 .. n \/ j = n + 1
      BY DEF Opened
    <2>. QED  BY <2>1, <2>2, <2>3
  <1>8. ASSUME NEW l \in 1 .. m + 1
        PROVE  Count(s, "dir", v[l] + 1, n + 1) = Count(s, "return", v[l] + 1, n + 1) + (m + 1 - l)
    <2>1. CASE l = m + 1
      <3>1. v[l] + 1 \in Nat /\ n + 1 < v[l] + 1 /\ n + 1 \in Nat
        BY <1>2, <2>1
      <3>. QED  BY <1>1, <2>1, <3>1, CountFact
    <2>2. CASE l # m + 1
      <3>0. l \in 1 .. m
        BY <1>1, <2>2
      <3>1. l \in 1 .. m /\ v[l] = w[l]
        BY <1>2, <3>0
      <3>2. Count(s, "dir", w[l] + 1, n) = Count(s, "return", w[l] + 1, n) + (m - l)
        BY <3>1 DEF Frames, m
      <3>3. /\ Count(s, "dir", w[l] + 1, n + 1) = Count(s, "dir", w[l] + 1, n) + 1
            /\ Count(s, "return", w[l] + 1, n + 1) = Count(s, "return", w[l] + 1, n)
            /\ Count(s, "return", w[l] + 1, n) \in Nat
        <4>1. l \in 1 .. Len(w)
          BY <3>1 DEF m
        <4>. QED  BY <4>1, FramesCounts
      <3>. QED  BY <1>1, <3>1, <3>2, <3>3
    <2>. QED  BY <2>1, <2>2
  <1>9. \A l \in 1 .. m + 1 : Rising(stack[l]) /\ ToSet(stack[l]) = {j \in {w[k] : k \in 1 .. l - 1} : s[j].safe}
    BY DEF Frames, m
  <1>10. Rising(new) /\ ToSet(new) = {j \in {v[k] : k \in 1 .. m + 1} : s[j].safe}
    <2> DEFINE d == Len(top)
    <2>1. Rising(top) /\ ToSet(top) = {j \in {w[k] : k \in 1 .. m} : s[j].safe}
      <3>1. m + 1 \in 1 .. m + 1 /\ (m + 1) - 1 = m
        BY <1>1
      <3>. QED  BY <1>9, <3>1
    <2>2. {v[k] : k \in 1 .. m + 1} = {w[k] : k \in 1 .. m} \cup {n + 1}
      <3>1. 1 .. m + 1 = (1 .. m) \cup {m + 1}
        BY <1>1
      <3>. QED  BY <1>2, <3>1
    <2>3. CASE ~s[n + 1].safe
      BY <2>1, <2>2, <2>3
    <2>4. CASE s[n + 1].safe
      <3>1. new = Append(top, n + 1)
        BY <2>4
      <3>2. /\ d \in Nat /\ DOMAIN top = 1 .. d
            /\ Len(new) = d + 1 /\ DOMAIN new = 1 .. d + 1
            /\ \A k \in 1 .. d : new[k] = top[k]
            /\ new[d + 1] = n + 1
        BY <1>1, <3>1
      <3> HIDE DEF new, d, top
      <3>3. 1 .. d + 1 = (1 .. d) \cup {d + 1}
        BY <3>2
      <3>4. ToSet(new) = ToSet(top) \cup {n + 1}
        BY <3>2, <3>3 DEF ToSet
      <3>5. \A k \in 1 .. d : top[k] \in 1 .. n
        <4>1. \A k \in 1 .. d : top[k] \in ToSet(top)
          BY <3>2 DEF ToSet
        <4>2. \A x \in ToSet(top) : \E k \in 1 .. m : x = w[k]
          BY <2>1
        <4>. QED  BY <1>1, <4>1, <4>2
      <3>6. Rising(new)
        <4>1. ASSUME NEW k \in 1 .. d + 1, NEW l \in 1 .. d + 1, k < l PROVE new[k] < new[l]
          <5>1. k \in 1 .. d /\ new[k] = top[k] /\ top[k] \in 1 .. n
            BY <3>2, <3>5, <4>1
          <5>2. CASE l = d + 1
            BY <3>2, <5>1, <5>2
          <5>3. CASE l # d + 1
            <6>1. l \in 1 .. d /\ new[l] = top[l]
              BY <3>2, <5>3
            <6>. QED  BY <2>1, <3>2, <4>1, <5>1, <6>1 DEF Rising
          <5>. QED  BY <5>2, <5>3
        <4>. QED  BY <3>2, <4>1 DEF Rising
      <3>7. ToSet(new) = {j \in {v[k] : k \in 1 .. m + 1} : s[j].safe}
        BY <2>1, <2>2, <2>4, <3>4
      <3>. QED  BY <3>6, <3>7
    <2>. QED  BY <2>3, <2>4
  <1>11. ASSUME NEW l \in 1 .. m + 2
         PROVE  Rising(st[l]) /\ ToSet(st[l]) = {j \in {v[k] : k \in 1 .. l - 1} : s[j].safe}
    <2>1. CASE l = m + 2
      <3>1. l - 1 = m + 1
        BY <1>1, <2>1
      <3>. QED  BY <1>4, <1>10, <2>1, <3>1
    <2>2. CASE l # m + 2
      <3>1. l \in 1 .. m + 1 /\ st[l] = stack[l] /\ \A k \in 1 .. l - 1 : k \in 1 .. m
        BY <1>1, <1>4, <2>2
      <3>2. {v[k] : k \in 1 .. l - 1} = {w[k] : k \in 1 .. l - 1}
        BY <1>2, <3>1
      <3>. QED  BY <1>9, <3>1, <3>2
    <2>. QED  BY <2>1, <2>2
  <1>12. ToSet(v) = Opened(s, n + 1)
    BY <1>6, <1>7 DEF Frames
  <1>13. Len(v) = m + 1 /\ Len(v) + 1 = m + 2
    BY <1>1, <1>2
  <1>14. \A l \in 1 .. Len(v) :
            Count(s, "dir", v[l] + 1, n + 1) = Count(s, "return", v[l] + 1, n + 1) + (Len(v) - l)
    BY <1>1, <1>8, <1>13
  <1>15. \A l \in 1 .. Len(v) + 1 :
            Rising(st[l]) /\ ToSet(st[l]) = {j \in {v[k] : k \in 1 .. l - 1} : s[j].safe}
    BY <1>1, <1>11, <1>13
  <1>16. v \in Seq(Nat) /\ st \in Seq(Seq(Nat)) /\ Len(st) = Len(v) + 1
    BY <1>2, <1>4, <1>13
  <1>17. Frames(s, n + 1, st, v)
    BY <1>5, <1>12, <1>14, <1>15, <1>16 DEF Frames
  <1>. QED  BY <1>1, <1>17 DEF st, v

LEMMA FramesRoot ==
    ASSUME NEW s, NEW n \in Nat, NEW stack, NEW w, Frames(s, n, stack, w),
           w = <<>>, s[n + 1].kind = "return"
    PROVE  Frames(s, n + 1, stack, w)
  <1>1. Opened(s, n) = {}
    BY FramesOpen
  <1>2. Opened(s, n + 1) = {}
    <2>1. n + 1 \notin Opened(s, n + 1) /\ \A j \in 1 .. n : j \notin Opened(s, n + 1)
      BY <1>1, OpenedStep
    <2>2. \A j \in Opened(s, n + 1) : j \in 1 .. n \/ j = n + 1
      BY DEF Opened
    <2>. QED  BY <2>1, <2>2
  <1>3. 1 .. Len(w) = {}
    OBVIOUS
  <1>. QED  BY <1>1, <1>2, <1>3 DEF Frames

LEMMA FramesReturn ==
    ASSUME NEW s, NEW n \in Nat, NEW stack, NEW w, Frames(s, n, stack, w),
           w # <<>>, s[n + 1].kind = "return"
    PROVE  Frames(s, n + 1, Front(stack), Front(w))
  <1> DEFINE m  == Len(w)
             v  == Front(w)
             st == Front(stack)
  <1>1. /\ m \in Nat /\ m >= 1 /\ DOMAIN w = 1 .. m
        /\ \A l \in 1 .. m : w[l] \in 1 .. n
        /\ w \in Seq(Nat) /\ stack \in Seq(Seq(Nat)) /\ Len(stack) = m + 1
    <2>1. w \in Seq(Nat) /\ stack \in Seq(Seq(Nat)) /\ Len(stack) = m + 1
      BY DEF Frames
    <2>2. m # 0
      BY <2>1, EmptySeq
    <2>3. m \in Nat /\ DOMAIN w = 1 .. m /\ \A l \in 1 .. m : w[l] \in 1 .. n
      BY FramesLen, FramesOpen
    <2>. QED  BY <2>1, <2>2, <2>3
  <1>2. /\ v \in Seq(Nat) /\ Len(v) = m - 1 /\ DOMAIN v = 1 .. m - 1
        /\ \A l \in 1 .. m - 1 : v[l] = w[l]
    BY <1>1 DEF Front
  <1>3. /\ st \in Seq(Seq(Nat)) /\ Len(st) = m
        /\ \A l \in 1 .. m : st[l] = stack[l]
    BY <1>1 DEF Front
  <1> HIDE DEF m, v, st
  <1>4. \A k, l \in 1 .. m : k < l => w[k] < w[l]
    BY <1>1 DEF Frames, Rising
  <1>5. Rising(v)
    <2>1. \A l \in 1 .. m - 1 : l \in 1 .. m
      BY <1>1
    <2>. QED  BY <1>2, <1>4, <2>1 DEF Rising
  <1>6. ASSUME NEW l \in 1 .. m
        PROVE  /\ Count(s, "dir", w[l] + 1, n + 1) + 1 = Count(s, "return", w[l] + 1, n + 1) + (m - l)
               /\ Count(s, "return", w[l] + 1, n + 1) \in Nat /\ Count(s, "dir", w[l] + 1, n + 1) \in Nat
    <2>1. Count(s, "dir", w[l] + 1, n) = Count(s, "return", w[l] + 1, n) + (m - l)
      BY DEF Frames, m
    <2>2. /\ Count(s, "dir", w[l] + 1, n + 1) = Count(s, "dir", w[l] + 1, n)
          /\ Count(s, "return", w[l] + 1, n + 1) = Count(s, "return", w[l] + 1, n) + 1
          /\ Count(s, "return", w[l] + 1, n) \in Nat /\ Count(s, "dir", w[l] + 1, n) \in Nat
      BY FramesCounts DEF m
    <2>3. l \in Nat /\ m \in Nat
      BY <1>1
    <2>. QED  BY <2>1, <2>2, <2>3
  <1>7. ASSUME NEW j \in 1 .. n
        PROVE  j \in Opened(s, n + 1) <=> \E l \in 1 .. m - 1 : j = w[l]
    <2>1. ASSUME j \in Opened(s, n + 1) PROVE \E l \in 1 .. m - 1 : j = w[l]
      <3>1. j \in Opened(s, n) /\ Count(s, "return", j + 1, n + 1) <= Count(s, "dir", j + 1, n + 1)
        BY <2>1, OpenedStep
      <3>2. PICK l \in 1 .. m : j = w[l]
        BY <3>1, FramesOpen DEF m
      <3>3. l # m
        <4>1. /\ Count(s, "dir", w[l] + 1, n + 1) + 1 = Count(s, "return", w[l] + 1, n + 1) + (m - l)
              /\ Count(s, "return", w[l] + 1, n + 1) \in Nat /\ Count(s, "dir", w[l] + 1, n + 1) \in Nat
          BY <1>6
        <4>2. l \in Nat /\ m \in Nat
          BY <1>1
        <4>. QED  BY <3>1, <3>2, <4>1, <4>2
      <3>. QED  BY <1>1, <3>2, <3>3
    <2>2. ASSUME NEW l \in 1 .. m - 1, j = w[l] PROVE j \in Opened(s, n + 1)
      <3>1. l \in 1 .. m
        BY <1>1
      <3>2. j \in Opened(s, n)
        BY <2>2, <3>1, FramesOpen DEF m
      <3>3. Count(s, "return", j + 1, n + 1) <= Count(s, "dir", j + 1, n + 1)
        <4>1. /\ Count(s, "dir", w[l] + 1, n + 1) + 1 = Count(s, "return", w[l] + 1, n + 1) + (m - l)
              /\ Count(s, "return", w[l] + 1, n + 1) \in Nat /\ Count(s, "dir", w[l] + 1, n + 1) \in Nat
          BY <1>6, <3>1
        <4>2. l \in Nat /\ m \in Nat /\ l <= m - 1
          BY <1>1
        <4>. QED  BY <2>2, <4>1, <4>2
      <3>. QED  BY <3>2, <3>3, OpenedStep
    <2>. QED  BY <2>1, <2>2
  <1>8. ToSet(v) = Opened(s, n + 1)
    <2>1. n + 1 \notin Opened(s, n + 1) /\ \A j \in Opened(s, n + 1) : j \in 1 .. n \/ j = n + 1
      BY OpenedStep DEF Opened
    <2>2. \A l \in 1 .. m - 1 : l \in 1 .. m
      BY <1>1
    <2>3. ToSet(v) = {w[l] : l \in 1 .. m - 1}
      BY <1>2 DEF ToSet
    <2>4. \A l \in 1 .. m - 1 : w[l] \in 1 .. n
      BY <1>1, <2>2
    <2>5. \A j \in Opened(s, n + 1) : j \in 1 .. n
      BY <2>1
    <2> HIDE DEF v
    <2>. QED  BY <1>7, <2>3, <2>4, <2>5
  <1>9. ASSUME NEW l \in 1 .. m - 1
        PROVE  Count(s, "dir", v[l] + 1, n + 1) = Count(s, "return", v[l] + 1, n + 1) + (m - 1 - l)
    <2>1. l \in 1 .. m /\ l \in Nat /\ m \in Nat
      BY <1>1
    <2>2. v[l] = w[l]
      BY <1>2
    <2>3. /\ Count(s, "dir", w[l] + 1, n + 1) + 1 = Count(s, "return", w[l] + 1, n + 1) + (m - l)
          /\ Count(s, "return", w[l] + 1, n + 1) \in Nat /\ Count(s, "dir", w[l] + 1, n + 1) \in Nat
      BY <1>6, <2>1
    <2>. QED  BY <2>1, <2>2, <2>3
  <1>10. ASSUME NEW l \in 1 .. m
         PROVE  Rising(st[l]) /\ ToSet(st[l]) = {j \in {v[k] : k \in 1 .. l - 1} : s[j].safe}
    <2>1. l \in 1 .. m + 1 /\ \A k \in 1 .. l - 1 : k \in 1 .. m - 1
      BY <1>1
    <2>2. {v[k] : k \in 1 .. l - 1} = {w[k] : k \in 1 .. l - 1}
      BY <1>2, <2>1
    <2>3. Rising(stack[l]) /\ ToSet(stack[l]) = {j \in {w[k] : k \in 1 .. l - 1} : s[j].safe}
      BY <2>1 DEF Frames, m
    <2>. QED  BY <1>3, <2>2, <2>3
  <1>11. Len(v) + 1 = m
    BY <1>1, <1>2
  <1>12. Frames(s, n + 1, st, v)
    BY <1>2, <1>3, <1>5, <1>8, <1>9, <1>10, <1>11 DEF Frames
  <1>. QED  BY <1>12 DEF st, v

-----------------------------------------------------------------------------
(* What the receiver has after n entries. *)

Going(s, n) == \A j \in 1 .. n : s[j].kind \notin Enders

Seen(s, kind, n) ==
    {PathOf(s, i) : i \in {j \in 1 .. n : Going(s, j - 1) /\ s[j].kind = kind /\ s[j].safe}}

Shape == [stack : Seq(Seq(Nat)), dirs : SUBSET Seq(Nat), files : SUBSET Seq(Nat),
          cut : SUBSET Seq(Nat), ended : {"no", "ok", "error", "panic"}]

Fed(s, n, r) ==
    /\ r \in Shape
    /\ r.dirs = Seen(s, "dir", n)
    /\ r.files = Seen(s, "file", n)
    /\ r.cut = Seen(s, "partial", n)
    /\ r.ended = "no" => Going(s, n) /\ \E w : Frames(s, n, r.stack, w)
    /\ r.ended # "no" =>
          \E k \in 1 .. n : s[k].kind \in Enders /\ Going(s, k - 1) /\ r.ended = Verdict(s[k].kind)

LEMMA StreamFact ==
    ASSUME NEW s \in Streams
    PROVE  /\ Len(s) \in Nat /\ DOMAIN s = 1 .. Len(s)
           /\ \A i \in 1 .. Len(s) :
                 /\ s[i].kind \in {"dir", "file", "return"} \cup Enders
                 /\ s[i].safe \in BOOLEAN
  <1>1. PICK n \in 0 .. MaxEntries : s \in [1 .. n -> Entries]
    BY DEF Streams
  <1>2. n \in Nat /\ Len(s) = n /\ DOMAIN s = 1 .. n
    BY <1>1, EntriesAssumption
  <1>3. \A e \in Entries : /\ e.kind \in {"dir", "file", "return"} \cup Enders
                           /\ e.safe \in BOOLEAN
    BY DEF Entries, Enders
  <1>. QED  BY <1>1, <1>2, <1>3

LEMMA GoingStep ==
    ASSUME NEW s, NEW n \in Nat
    PROVE  Going(s, n + 1) <=> Going(s, n) /\ s[n + 1].kind \notin Enders
  <1>1. 1 .. n + 1 = (1 .. n) \cup {n + 1}
    OBVIOUS
  <1>. QED  BY <1>1 DEF Going

LEMMA SeenStep ==
    ASSUME NEW s, NEW n \in Nat, NEW kind
    PROVE  Seen(s, kind, n + 1) =
              IF Going(s, n) /\ s[n + 1].kind = kind /\ s[n + 1].safe
              THEN Seen(s, kind, n) \cup {PathOf(s, n + 1)}
              ELSE Seen(s, kind, n)
  <1> DEFINE Is(j) == Going(s, j - 1) /\ s[j].kind = kind /\ s[j].safe
             I == {j \in 1 .. n : Is(j)}
             J == {j \in 1 .. n + 1 : Is(j)}
  <1>1. 1 .. n + 1 = (1 .. n) \cup {n + 1} /\ (n + 1) - 1 = n
    OBVIOUS
  <1>2. J = IF Is(n + 1) THEN I \cup {n + 1} ELSE I
    <2> HIDE DEF Is
    <2>. QED  BY <1>1
  <1>3. Seen(s, kind, n) = {PathOf(s, i) : i \in I} /\ Seen(s, kind, n + 1) = {PathOf(s, i) : i \in J}
    BY DEF Seen
  <1>4. Is(n + 1) <=> Going(s, n) /\ s[n + 1].kind = kind /\ s[n + 1].safe
    BY <1>1
  <1> HIDE DEF I, J, Is
  <1>. QED  BY <1>2, <1>3, <1>4

LEMMA FedStart ==
    ASSUME NEW s
    PROVE  Fed(s, 0, Received)
  <1>1. /\ 1 .. 0 = {} /\ Seen(s, "dir", 0) = {} /\ Seen(s, "file", 0) = {}
        /\ Seen(s, "partial", 0) = {} /\ Going(s, 0)
    BY DEF Seen, Going
  <1>2. /\ <<>> \in Seq(Nat) /\ Len(<<>>) = 0 /\ DOMAIN <<>> = {}
        /\ ToSet(<<>>) = {} /\ Rising(<<>>)
    BY DEF ToSet, Rising
  <1>3. Opened(s, 0) = {}
    BY DEF Opened
  <1> DEFINE st == << <<>> >>
  <1>4. st \in Seq(Seq(Nat)) /\ Len(st) = 1 /\ st[1] = <<>>
    OBVIOUS
  <1> HIDE DEF st
  <1>5. Frames(s, 0, st, <<>>)
    <2>1. ASSUME NEW l \in 1 .. 1
          PROVE  Rising(st[l]) /\ ToSet(st[l]) = {j \in {<<>>[k] : k \in 1 .. l - 1} : s[j].safe}
      <3>1. l = 1 /\ 1 .. l - 1 = {}
        OBVIOUS
      <3>2. st[l] = <<>>
        BY <1>4, <3>1
      <3>. QED  BY <1>2, <3>1, <3>2
    <2>2. Len(<<>>) + 1 = 1 /\ 1 .. Len(<<>>) = {}
      BY <1>2
    <2>. QED  BY <1>2, <1>3, <1>4, <2>1, <2>2 DEF Frames
  <1>6. /\ Received = [stack |-> st, dirs |-> {}, files |-> {}, cut |-> {}, ended |-> "no"]
        /\ Received \in Shape
    BY <1>4 DEF Received, Shape, st
  <1>7. /\ Received.stack = st /\ Received.dirs = {} /\ Received.files = {}
        /\ Received.cut = {} /\ Received.ended = "no"
    BY <1>6
  <1>. QED  BY <1>1, <1>5, <1>6, <1>7 DEF Fed

\* An entry that is read as a directory.
LEMMA FedEnter ==
    ASSUME NEW s \in Streams, NEW n \in 0 .. Len(s) - 1, NEW r, Fed(s, n, r),
           r.ended = "no", s[n + 1].kind = "dir"
    PROVE  Fed(s, n + 1, Enter(r, n + 1, s[n + 1].safe))
  <1> DEFINE top == Last(r.stack)
             path == Append(top, n + 1)
             new == IF s[n + 1].safe THEN path ELSE top
             q == Enter(r, n + 1, s[n + 1].safe)
  <1>1. n \in Nat /\ s[n + 1].safe \in BOOLEAN
    BY StreamFact
  <1>2. PICK w : Frames(s, n, r.stack, w)
    BY DEF Fed
  <1>3. Frames(s, n + 1, Append(r.stack, new), Append(w, n + 1))
    BY <1>1, <1>2, FramesEnter
  <1>4. top \in Seq(Nat) /\ PathOf(s, n + 1) = path
    BY <1>1, <1>2, FramesTop, PathFact
  <1>5. r \in Shape
    BY DEF Fed
  <1>6. Append(r.stack, new) \in Seq(Seq(Nat)) /\ path \in Seq(Nat)
    <2>1. path \in Seq(Nat) /\ new \in Seq(Nat)
      BY <1>1, <1>4
    <2>2. r.stack \in Seq(Seq(Nat))
      BY <1>5 DEF Shape
    <2> HIDE DEF path, new
    <2>. QED  BY <2>1, <2>2
  <1> DEFINE dirs == IF s[n + 1].safe THEN r.dirs \cup {path} ELSE r.dirs
  <1>7. q = [r EXCEPT !.stack = Append(r.stack, new), !.dirs = dirs]
    <2>1. CASE s[n + 1].safe
      BY <1>5, <2>1 DEF Enter, Shape
    <2>2. CASE ~s[n + 1].safe
      BY <1>5, <2>2 DEF Enter, Shape
    <2>. QED  BY <2>1, <2>2
  <1> HIDE DEF path, new, q, top
  <1>8. /\ q \in Shape /\ q.stack = Append(r.stack, new) /\ q.dirs = dirs
        /\ q.files = r.files /\ q.cut = r.cut /\ q.ended = "no"
    BY <1>5, <1>6, <1>7 DEF Shape
  <1>9. Going(s, n + 1)
    BY <1>1, GoingStep DEF Fed, Enders
  <1>10. dirs = Seen(s, "dir", n + 1)
    BY <1>1, <1>4, SeenStep DEF Fed
  <1>11. r.files = Seen(s, "file", n + 1) /\ r.cut = Seen(s, "partial", n + 1)
    BY <1>1, SeenStep DEF Fed
  <1> HIDE DEF dirs
  <1>12. Fed(s, n + 1, q)
    BY <1>3, <1>8, <1>9, <1>10, <1>11 DEF Fed
  <1>. QED  BY <1>12 DEF q

\* An entry that is read as a file.
LEMMA FedWrite ==
    ASSUME NEW s \in Streams, NEW n \in 0 .. Len(s) - 1, NEW r, Fed(s, n, r),
           r.ended = "no", s[n + 1].kind = "file"
    PROVE  Fed(s, n + 1, Write(r, n + 1, s[n + 1].safe))
  <1> DEFINE path == Append(Last(r.stack), n + 1)
             q == Write(r, n + 1, s[n + 1].safe)
             all == IF s[n + 1].safe THEN r.files \cup {path} ELSE r.files
  <1>1. n \in Nat /\ s[n + 1].safe \in BOOLEAN
    BY StreamFact
  <1>2. PICK w : Frames(s, n, r.stack, w)
    BY DEF Fed
  <1>3. Frames(s, n + 1, r.stack, w)
    BY <1>1, <1>2, FramesKept
  <1>4. path \in Seq(Nat) /\ PathOf(s, n + 1) = path
    BY <1>1, <1>2, FramesTop, PathFact
  <1>5. r \in Shape
    BY DEF Fed
  <1>6. q = [r EXCEPT !.files = all]
    BY <1>5 DEF Write, Shape
  <1> HIDE DEF path, q
  <1>7. /\ q \in Shape /\ q.stack = r.stack /\ q.dirs = r.dirs
        /\ q.files = all /\ q.cut = r.cut /\ q.ended = "no"
    BY <1>4, <1>5, <1>6 DEF Shape
  <1>8. Going(s, n + 1)
    BY <1>1, GoingStep DEF Fed, Enders
  <1>9. all = Seen(s, "file", n + 1)
    BY <1>1, <1>4, SeenStep DEF Fed
  <1>10. r.dirs = Seen(s, "dir", n + 1) /\ r.cut = Seen(s, "partial", n + 1)
    BY <1>1, SeenStep DEF Fed
  <1> HIDE DEF all
  <1>11. Fed(s, n + 1, q)
    BY <1>3, <1>7, <1>8, <1>9, <1>10 DEF Fed
  <1>. QED  BY <1>11 DEF q

\* An entry that leads back to the parent.
LEMMA FedReturn ==
    ASSUME NEW s \in Streams, NEW n \in 0 .. Len(s) - 1, NEW r, Fed(s, n, r),
           r.ended = "no", s[n + 1].kind = "return"
    PROVE  Fed(s, n + 1, Return(r))
  <1> DEFINE q == Return(r)
  <1>1. n \in Nat
    BY StreamFact
  <1>2. PICK w : Frames(s, n, r.stack, w)
    BY DEF Fed
  <1>3. r \in Shape
    BY DEF Fed
  <1>4. w \in Seq(Nat) /\ Len(r.stack) = Len(w) + 1 /\ r.stack \in Seq(Seq(Nat))
    BY <1>2 DEF Frames
  <1>5. /\ q \in Shape /\ q.dirs = r.dirs /\ q.files = r.files /\ q.cut = r.cut /\ q.ended = "no"
        /\ \E v : Frames(s, n + 1, q.stack, v)
    <2>1. CASE w = <<>>
      <3>1. q = r
        BY <1>4, <2>1 DEF Return
      <3>2. Frames(s, n + 1, q.stack, w)
        BY <1>1, <1>2, <2>1, <3>1, FramesRoot
      <3> HIDE DEF q
      <3>. QED  BY <1>3, <3>1, <3>2
    <2>2. CASE w # <<>>
      <3>1. Len(r.stack) > 1
        BY <1>4, <2>2, EmptySeq
      <3>2. q = [r EXCEPT !.stack = Front(r.stack)]
        BY <1>3, <3>1 DEF Return, Shape
      <3>3. Front(r.stack) \in Seq(Seq(Nat))
        BY <1>4, <3>1 DEF Front
      <3>4. Frames(s, n + 1, Front(r.stack), Front(w))
        BY <1>1, <1>2, <2>2, FramesReturn
      <3> HIDE DEF q
      <3>5. /\ q \in Shape /\ q.stack = Front(r.stack) /\ q.dirs = r.dirs
            /\ q.files = r.files /\ q.cut = r.cut /\ q.ended = "no"
        BY <1>3, <3>2, <3>3 DEF Shape
      <3>. QED  BY <3>4, <3>5
    <2>. QED  BY <2>1, <2>2
  <1>6. Going(s, n + 1)
    BY <1>1, GoingStep DEF Fed, Enders
  <1>7. /\ r.dirs = Seen(s, "dir", n + 1) /\ r.files = Seen(s, "file", n + 1)
        /\ r.cut = Seen(s, "partial", n + 1)
    <2>1. r.dirs = Seen(s, "dir", n + 1)
      BY <1>1, SeenStep DEF Fed
    <2>2. r.files = Seen(s, "file", n + 1)
      BY <1>1, SeenStep DEF Fed
    <2>3. r.cut = Seen(s, "partial", n + 1)
      BY <1>1, SeenStep DEF Fed
    <2>. QED  BY <2>1, <2>2, <2>3
  <1> HIDE DEF q
  <1>8. Fed(s, n + 1, q)
    BY <1>5, <1>6, <1>7 DEF Fed
  <1>. QED  BY <1>8 DEF q

\* Whatever ends the reading.
LEMMA FedEnd ==
    ASSUME NEW s \in Streams, NEW n \in 0 .. Len(s) - 1, NEW r, Fed(s, n, r),
           r.ended = "no", s[n + 1].kind \in Enders
    PROVE  LET e == s[n + 1]
           IN Fed(s, n + 1, [(IF e.kind = "partial" THEN Begin(r, n + 1, e.safe) ELSE r)
                                EXCEPT !.ended = Verdict(e.kind)])
  <1> DEFINE e == s[n + 1]
             path == Append(Last(r.stack), n + 1)
             cut == IF e.kind = "partial" /\ e.safe THEN r.cut \cup {path} ELSE r.cut
             how == Verdict(e.kind)
             q == [(IF e.kind = "partial" THEN Begin(r, n + 1, e.safe) ELSE r) EXCEPT !.ended = how]
  <1>1. n \in Nat /\ e.safe \in BOOLEAN
    BY StreamFact
  <1>2. PICK w : Frames(s, n, r.stack, w)
    BY DEF Fed
  <1>3. path \in Seq(Nat) /\ PathOf(s, n + 1) = path
    BY <1>1, <1>2, FramesTop, PathFact
  <1>4. r \in Shape /\ how \in {"ok", "error", "panic"}
    BY DEF Fed, Verdict, Enders
  <1>5. q = [r EXCEPT !.cut = cut, !.ended = how]
    <2>1. CASE e.kind = "partial" /\ e.safe
      <3>1. Begin(r, n + 1, e.safe) = [r EXCEPT !.cut = cut]
        BY <1>4, <2>1 DEF Begin, Shape
      <3> HIDE DEF cut, how
      <3>. QED  BY <1>4, <2>1, <3>1 DEF Shape
    <2>2. CASE ~(e.kind = "partial" /\ e.safe)
      <3>1. (IF e.kind = "partial" THEN Begin(r, n + 1, e.safe) ELSE r) = r /\ cut = r.cut
        BY <2>2 DEF Begin
      <3> HIDE DEF cut, how
      <3>. QED  BY <1>4, <3>1 DEF Shape
    <2>. QED  BY <2>1, <2>2
  <1> HIDE DEF path, q, how
  <1>6. /\ q \in Shape /\ q.dirs = r.dirs /\ q.files = r.files /\ q.cut = cut /\ q.ended = how
    BY <1>3, <1>4, <1>5 DEF Shape
  <1>7. Going(s, n)
    BY DEF Fed
  <1>8. r.dirs = Seen(s, "dir", n + 1) /\ r.files = Seen(s, "file", n + 1)
    <2>1. r.dirs = Seen(s, "dir", n + 1)
      BY <1>1, SeenStep DEF Fed, Enders
    <2>2. r.files = Seen(s, "file", n + 1)
      BY <1>1, SeenStep DEF Fed, Enders
    <2>. QED  BY <2>1, <2>2
  <1>9. cut = Seen(s, "partial", n + 1)
    BY <1>1, <1>3, <1>7, SeenStep DEF Fed
  <1>10. n + 1 \in 1 .. n + 1 /\ (n + 1) - 1 = n
    BY <1>1
  <1> HIDE DEF cut
  <1>11. Fed(s, n + 1, q)
    BY <1>4, <1>6, <1>7, <1>8, <1>9, <1>10 DEF Fed, how
  <1>. QED  BY <1>11 DEF q, how

\* What comes after the end is not read.
LEMMA FedOver ==
    ASSUME NEW s \in Streams, NEW n \in 0 .. Len(s) - 1, NEW r, Fed(s, n, r), r.ended # "no"
    PROVE  Fed(s, n + 1, r)
  <1>1. n \in Nat
    BY StreamFact
  <1>2. ~Going(s, n)
    <2>1. PICK k \in 1 .. n : s[k].kind \in Enders
      BY DEF Fed
    <2>. QED  BY <1>1, <2>1 DEF Going
  <1>3. r.dirs = Seen(s, "dir", n + 1)
    BY <1>1, <1>2, SeenStep DEF Fed
  <1>4. r.files = Seen(s, "file", n + 1)
    BY <1>1, <1>2, SeenStep DEF Fed
  <1>5. r.cut = Seen(s, "partial", n + 1)
    BY <1>1, <1>2, SeenStep DEF Fed
  <1>6. 1 .. n \subseteq 1 .. n + 1
    BY <1>1
  <1>. QED  BY <1>3, <1>4, <1>5, <1>6 DEF Fed

LEMMA FedTake ==
    ASSUME NEW s \in Streams, NEW n \in 0 .. Len(s) - 1, NEW r, Fed(s, n, r)
    PROVE  Fed(s, n + 1, Take(r, n + 1, s[n + 1]))
  <1>1. CASE r.ended # "no"
    <2>1. Take(r, n + 1, s[n + 1]) = r
      BY <1>1 DEF Take
    <2>. QED  BY <1>1, <2>1, FedOver
  <1>2. ASSUME r.ended = "no" PROVE Fed(s, n + 1, Take(r, n + 1, s[n + 1]))
    <2>1. CASE s[n + 1].kind = "dir"
      <3>1. Take(r, n + 1, s[n + 1]) = Enter(r, n + 1, s[n + 1].safe)
        BY <1>2, <2>1 DEF Take, Enders
      <3>. QED  BY <1>2, <2>1, <3>1, FedEnter
    <2>2. CASE s[n + 1].kind = "file"
      <3>1. Take(r, n + 1, s[n + 1]) = Write(r, n + 1, s[n + 1].safe)
        BY <1>2, <2>2 DEF Take, Enders
      <3>. QED  BY <1>2, <2>2, <3>1, FedWrite
    <2>3. CASE s[n + 1].kind = "return"
      <3>1. Take(r, n + 1, s[n + 1]) = Return(r)
        BY <1>2, <2>3 DEF Take, Enders
      <3>. QED  BY <1>2, <2>3, <3>1, FedReturn
    <2>4. CASE s[n + 1].kind \in Enders
      <3>1. Take(r, n + 1, s[n + 1]) =
                [(IF s[n + 1].kind = "partial" THEN Begin(r, n + 1, s[n + 1].safe) ELSE r)
                    EXCEPT !.ended = Verdict(s[n + 1].kind)]
        BY <1>2, <2>4 DEF Take, Enders
      <3>. QED  BY <1>2, <2>4, <3>1, FedEnd
    <2>. QED  BY <2>1, <2>2, <2>3, <2>4, StreamFact
  <1>. QED  BY <1>1, <1>2

LEMMA AfterExists ==
    ASSUME NEW s \in Streams
    PROVE  \E f : f = [n \in 0 .. Len(s) |->
                          IF n = 0 THEN Received ELSE Take(f[n - 1], n, s[n])]
  <1> DEFINE N == Len(s)
             Is(f, m) == f = [n \in 0 .. m |-> IF n = 0 THEN Received ELSE Take(f[n - 1], n, s[n])]
             G == {m \in 0 .. N : \E f : Is(f, m)}
  <1>1. N \in Nat
    BY StreamFact
  <1> HIDE DEF N
  <1>2. 0 \in G
    <2> DEFINE f == [n \in 0 .. 0 |-> Received]
    <2>1. Is(f, 0)
      OBVIOUS
    <2>2. 0 \in 0 .. N
      BY <1>1
    <2>. QED  BY <2>1, <2>2
  <1>3. ASSUME NEW m \in 0 .. N - 1, m \in G PROVE m + 1 \in G
    <2>1. PICK f : Is(f, m)
      BY <1>3
    <2>2. m \in Nat /\ m + 1 \in 0 .. N /\ m \in 0 .. m
      BY <1>1
    <2> DEFINE g == [n \in 0 .. m + 1 |-> IF n = m + 1 THEN Take(f[m], m + 1, s[m + 1]) ELSE f[n]]
    <2>3. \A n \in 0 .. m : g[n] = f[n]
      BY <2>2
    <2>4. g[m + 1] = Take(f[m], m + 1, s[m + 1])
      BY <2>2
    <2>5. g = [n \in 0 .. m + 1 |-> g[n]]
      OBVIOUS
    <2> HIDE DEF g
    <2>6. ASSUME NEW n \in 0 .. m + 1
          PROVE  g[n] = IF n = 0 THEN Received ELSE Take(g[n - 1], n, s[n])
      <3>1. CASE n = m + 1
        BY <2>2, <2>3, <2>4, <3>1
      <3>2. CASE n # m + 1
        <4>1. n \in 0 .. m /\ (n # 0 => n - 1 \in 0 .. m)
          BY <2>2, <3>2
        <4>2. f[n] = IF n = 0 THEN Received ELSE Take(f[n - 1], n, s[n])
          BY <2>1, <4>1
        <4>. QED  BY <2>3, <4>1, <4>2
      <3>. QED  BY <3>1, <3>2
    <2>7. Is(g, m + 1)
      BY <2>5, <2>6
    <2> HIDE DEF Is
    <2>. QED  BY <2>2, <2>7
  <1>4. N \in G
    <2>1. \A n \in 0 .. N : n \in G
      <3> HIDE DEF G
      <3>. QED  BY <1>1, <1>2, <1>3, UpTo
    <2>2. N \in 0 .. N
      BY <1>1
    <2> HIDE DEF G
    <2>. QED  BY <2>1, <2>2
  <1>. QED  BY <1>4 DEF N

LEMMA ReceiverFact ==
    ASSUME NEW s \in Streams
    PROVE  Fed(s, Len(s), Receiver(s))
  <1> DEFINE N == Len(s)
             Is(f) == f = [n \in 0 .. N |-> IF n = 0 THEN Received ELSE Take(f[n - 1], n, s[n])]
             after == CHOOSE f : Is(f)
             G == {n \in 0 .. N : Fed(s, n, after[n])}
  <1>1. N \in Nat
    BY StreamFact
  <1>2. Receiver(s) = after[N]
    BY DEF Receiver
  <1>3. Is(after)
    <2>1. \E f : Is(f)
      BY AfterExists
    <2> HIDE DEF Is
    <2>. QED  BY <2>1
  <1>4. after[0] = Received /\ \A n \in 1 .. N : after[n] = Take(after[n - 1], n, s[n])
    <2>1. 0 \in 0 .. N /\ \A n \in 1 .. N : n \in 0 .. N /\ n # 0
      BY <1>1
    <2> HIDE DEF after, N
    <2>. QED  BY <1>3, <2>1
  <1> HIDE DEF after
  <1>5. 0 \in G
    BY <1>1, <1>4, FedStart
  <1>6. ASSUME NEW n \in 0 .. N - 1, n \in G PROVE n + 1 \in G
    <2>1. n + 1 \in 1 .. N /\ n + 1 \in 0 .. N /\ (n + 1) - 1 = n
      BY <1>1
    <2>2. after[n + 1] = Take(after[n], n + 1, s[n + 1])
      BY <1>4, <2>1
    <2>3. Fed(s, n + 1, after[n + 1])
      BY <1>6, <2>2, FedTake
    <2>. QED  BY <2>1, <2>3
  <1>7. N \in G
    <2>1. \A n \in 0 .. N : n \in G
      <3> HIDE DEF G, N
      <3>. QED  BY <1>1, <1>5, <1>6, UpTo
    <2>2. N \in 0 .. N
      BY <1>1
    <2> HIDE DEF G
    <2>. QED  BY <2>1, <2>2
  <1>. QED  BY <1>2, <1>7

\* What a stream describes is what was received of it: where it ends is the one entry
\* that ends the reading and has only good ones before it.
LEMMA TreeFact == DirTreeRight
  <1> SUFFICES ASSUME NEW s \in Streams
               PROVE  LET r == Receiver(s)
                          met(kinds) == \E i \in Reached(s) : s[i].kind \in kinds
                      IN /\ r.dirs = Described(s, "dir") /\ r.files = Described(s, "file")
                         /\ r.cut = Described(s, "partial")
                         /\ r.ended \in {"no", "ok"} <=> ~met({"broken", "partial", "huge"})
                         /\ r.ended = "panic" <=> met({"huge"})
    BY DEF DirTreeRight
  <1> DEFINE N == Len(s)
             r == Receiver(s)
             met(kinds) == \E i \in Reached(s) : s[i].kind \in kinds
  <1>1. N \in Nat /\ DOMAIN s = 1 .. N
    BY StreamFact
  <1>2. Fed(s, N, r)
    BY ReceiverFact
  <1> HIDE DEF r, N
  <1>3. Reached(s) = {i \in 1 .. N : Going(s, i - 1)}
    BY <1>1 DEF Reached, Going
  <1>4. ASSUME NEW kind PROVE Described(s, kind) = Seen(s, kind, N)
    <2>1. {j \in Reached(s) : s[j].kind = kind /\ s[j].safe}
             = {j \in 1 .. N : Going(s, j - 1) /\ s[j].kind = kind /\ s[j].safe}
      BY <1>3
    <2>. QED  BY <2>1 DEF Described, Seen
  <1>5. ASSUME NEW i \in Reached(s), NEW k \in Reached(s), s[i].kind \in Enders, s[k].kind \in Enders
        PROVE  i = k
    <2>1. ASSUME NEW a \in 1 .. N, NEW b \in 1 .. N, a < b, s[a].kind \in Enders
          PROVE  ~Going(s, b - 1)
      <3>1. a \in 1 .. b - 1
        BY <1>1, <2>1
      <3>. QED  BY <2>1, <3>1 DEF Going
    <2>2. i \in 1 .. N /\ k \in 1 .. N /\ Going(s, i - 1) /\ Going(s, k - 1)
      BY <1>3
    <2>3. ~(i < k) /\ ~(k < i)
      BY <1>5, <2>1, <2>2
    <2>. QED  BY <1>1, <2>2, <2>3
  <1>6. CASE r.ended = "no"
    <2>1. Going(s, N)
      BY <1>2, <1>6 DEF Fed
    <2>2. \A i \in Reached(s) : s[i].kind \notin Enders
      BY <1>3, <2>1 DEF Going
    <2>3. ~met({"broken", "partial", "huge"}) /\ ~met({"huge"})
      BY <2>2 DEF Enders
    <2>. QED  BY <1>2, <1>4, <1>6, <2>3 DEF Fed, r
  <1>7. CASE r.ended # "no"
    <2>1. PICK k \in 1 .. N : s[k].kind \in Enders /\ Going(s, k - 1) /\ r.ended = Verdict(s[k].kind)
      BY <1>2, <1>7 DEF Fed
    <2>2. k \in Reached(s)
      BY <1>3, <2>1
    <2>3. ASSUME NEW K \in SUBSET Enders PROVE met(K) <=> s[k].kind \in K
      BY <1>5, <2>1, <2>2
    <2>4. /\ met({"broken", "partial", "huge"}) <=> s[k].kind \in {"broken", "partial", "huge"}
          /\ met({"huge"}) <=> s[k].kind \in {"huge"}
      <3>1. {"broken", "partial", "huge"} \in SUBSET Enders /\ {"huge"} \in SUBSET Enders
        BY DEF Enders
      <3> HIDE DEF met
      <3>. QED  BY <2>3, <3>1
    <2>5. /\ r.ended \in {"no", "ok"} <=> ~(s[k].kind \in {"broken", "partial", "huge"})
          /\ r.ended = "panic" <=> s[k].kind \in {"huge"}
      BY <2>1 DEF Verdict, Enders
    <2>. QED  BY <1>2, <1>4, <2>4, <2>5 DEF Fed, r
  <1>. QED  BY <1>6, <1>7

\* Folders arrive as their stream describes them (receive_dir_stream): for streams of
\* any length, whatever names are left out, wherever they return to the parent, and
\* however the reading ends: in good order, with an error, or with a lost thread.
THEOREM FoldersCorrect == Spec => []FoldersArrive
  <1>1. FoldersArrive
    BY TreeFact DEF FoldersArrive
  <1>. QED  BY <1>1, PTL
=============================================================================
