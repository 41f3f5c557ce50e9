-------------------------------- MODULE Ipmsg --------------------------------
(***************************************************************************)
(* The IPMsg compatibility layer: the service of bigpaw-ipmsg (discovery.rs)*)
(* and what the core does with it (core.rs): peers of the old protocol in   *)
(* the contact list, texts and files in both directions, and the shutdown.  *)
(*                                                                         *)
(* One device, "us", among peers that speak plain IPMsg and peers that are  *)
(* BigPaw themselves.  Datagrams arrive in any order, or not at all; one to *)
(* a machine that is not there vanishes at once.  The echo of a broadcast   *)
(* carries self_token and is dropped unseen.                                *)
(***************************************************************************)
EXTENDS Naturals, SequencesExt, FiniteSets

CONSTANTS
    Plain,       \* peers of the old protocol
    Kin,         \* peers with BIGPAW_TAG
    Us,
    Ranges,      \* the network ranges the user may set, as sets of peers
    Timeout,     \* PEER_TIMEOUT, in ENTRY_INTERVALs
    MaxMoves,    \* bound: what users, peers and the range do
    MaxExits,    \* bound: processes of ours that end
    MaxLost,     \* bound: datagrams lost
    MaxRefused   \* bound: writes the database refuses

Peer == Plain \cup Kin

ASSUME PeerAssumption  == Plain \cap Kin = {} /\ Us \notin Peer /\ Ranges \subseteq SUBSET Peer
ASSUME BoundAssumption == Timeout \in Nat \ {0, 1} /\ {MaxMoves, MaxExits, MaxLost, MaxRefused} \subseteq Nat

VARIABLES
    us,        \* the process: up, leaving, left, orphan (the service outlives shutdown), down
    loops,     \* the loops of the service that run: a subset of {"send", "recv"}
    due,       \* the send loop has an entry to send
    name,      \* version of our nickname and group
    range,     \* the peers within the network range
    peer,      \* the peers: [up, knows], the version of us they list, or 0
    net,       \* datagrams: [kind, from, to, ref]
    pump,      \* the channel of the storing thread
    listed,    \* the contact list
    age,       \* intervals since the last sighting of a peer that is online
    texts,     \* their messages in the database
    acked,     \* history: their texts for which we sent a receipt
    kept,      \* [texts: our messages in the database, files: offered_files]
    missed,    \* history, [texts, files]: what the database refused, or the end of the process came before
    offers,    \* ipmsg_offers: [xfer, peer]
    row,       \* the transfer rows: one for each packet that may be an offer
    download,  \* the files whose thread runs
    void,      \* history: files nobody can fetch any more: the answer failed, the process ended, the thread died
    command,   \* the command the user waits for: [pc, ref]
    told,      \* history: the peers to whom the goodbye is the last we said
    budget

service == <<us, loops, due, name, range>>
roster  == <<listed, age>>
files   == <<offers, row, download, void>>
ours    == <<kept, missed>>
vars == <<service, peer, net, pump, roster, texts, acked, ours, files, command, told, budget>>

\* A packet that a user or a peer causes has a number of its own; new_id names
\* a file that is offered, once, after the packet.
Number == 1 .. MaxMoves
Fresh  == MaxMoves - budget.moves + 1

Packet(kind, from, to, ref) == [kind |-> kind, from |-> from, to |-> to, ref |-> ref]
Event(kind, ref)            == [kind |-> kind, ref |-> ref]
Ready                       == [pc |-> "ready", ref |-> 0]

Spend(b) == budget[b] > 0 /\ budget' = [budget EXCEPT ![b] = @ - 1]
Alive    == us # "down"

Init ==
    /\ us = "up" /\ loops = {"send", "recv"} /\ due = TRUE /\ name = 1
    /\ range = Peer
    /\ peer = [p \in Peer |-> [up |-> FALSE, knows |-> 0]]
    /\ net = {} /\ pump = <<>>
    /\ listed = [p \in Peer |-> "absent"] /\ age = [p \in Peer |-> 0]
    /\ texts = {} /\ acked = {}
    /\ kept = [texts |-> {}, files |-> {}] /\ missed = [texts |-> {}, files |-> {}]
    /\ offers = {} /\ row = [x \in Number |-> "none"] /\ download = {} /\ void = {}
    /\ command = Ready /\ told = {}
    /\ budget = [moves |-> MaxMoves, exits |-> MaxExits, lost |-> MaxLost, refused |-> MaxRefused]

-----------------------------------------------------------------------------
(* The service. *)

\* What BigPaw peers hear by this way makes no difference: they drop it as we do.
There(p) == p \in Plain /\ peer[p].up

\* broadcast, to the table of targets.
ToAll(kind, ref) == {Packet(kind, Us, p, ref) : p \in {q \in range : There(q)}}

\* send_loop: at the start, and then in every interval.
SendEntry ==
    /\ Alive /\ "send" \in loops /\ due
    /\ due' = FALSE
    /\ net' = net \cup ToAll("entry", name)
    /\ told' = told \ range
    /\ UNCHANGED <<us, loops, name, range, peer, pump, roster, texts, acked, ours, files,
                   command, budget>>

Incoming(a, kind) ==
    /\ a \in net /\ a.kind = kind /\ a.to = Us /\ a.from \in range
    /\ Alive /\ "recv" \in loops

\* (mutation) BigPaw peers are listed a second time, under their old protocol.
SightingOfAnyone(p) == listed' = [listed EXCEPT ![p] = "online"] /\ age' = [age EXCEPT ![p] = 0]

\* Online, forwarded as Seen, unless native discovery sees to the peer (is_bigpaw).
Sighting(p) ==
    IF p \in Plain
    THEN listed' = [listed EXCEPT ![p] = "online"] /\ age' = [age EXCEPT ![p] = 0]
    ELSE UNCHANGED roster

\* BR_ENTRY is answered and reported.
RecvEntry(a) ==
    /\ Incoming(a, "entry")
    /\ net' = (net \ {a}) \cup {Packet("answer", Us, p, name) : p \in {q \in {a.from} : There(q)}}
    /\ told' = told \ {a.from}
    /\ Sighting(a.from)
    /\ UNCHANGED <<service, peer, pump, texts, acked, ours, files, command, budget>>

RecvAnswer(a) ==
    /\ Incoming(a, "answer")
    /\ net' = net \ {a}
    /\ Sighting(a.from)
    /\ UNCHANGED <<service, peer, pump, texts, acked, ours, files, command, told, budget>>

\* Roster::apply of Lost.
Lost(p) ==
    /\ listed' = [listed EXCEPT ![p] = IF @ = "online" THEN "offline" ELSE @]
    /\ age' = [age EXCEPT ![p] = 0]

RecvExit(a) ==
    /\ Incoming(a, "exit")
    /\ net' = net \ {a}
    /\ Lost(a.from)
    /\ UNCHANGED <<service, peer, pump, texts, acked, ours, files, command, told, budget>>

\* (mutation) Texts of peers that are not listed as online are dropped.
RecvTextOfListed(a) ==
    /\ Incoming(a, "text")
    /\ net' = net \ {a} /\ acked' = acked \cup {a.ref}
    /\ pump' = IF listed[a.from] = "online" THEN Append(pump, Event("text", a.ref)) ELSE pump
    /\ UNCHANGED <<service, peer, roster, texts, ours, files, command, told, budget>>

\* A text: the receipt leaves before the event does.
RecvText(a) ==
    /\ Incoming(a, "text")
    /\ net' = net \ {a} /\ acked' = acked \cup {a.ref}
    /\ pump' = Append(pump, Event("text", a.ref))
    /\ UNCHANGED <<service, peer, roster, texts, ours, files, command, told, budget>>

\* (mutation) The table of offers has one place for each peer.
RecvOfferOnePerPeer(a) ==
    /\ Incoming(a, "offer")
    /\ net' = net \ {a}
    /\ offers' = {o \in offers : o.peer # a.from} \cup {[xfer |-> a.ref, peer |-> a.from]}
    /\ pump' = Append(pump, Event("offered", a.ref))
    /\ UNCHANGED <<service, peer, roster, texts, acked, ours, row, download, void, command, told, budget>>

\* The offer can be found under its id before anyone hears of it.
RecvOffer(a) ==
    /\ Incoming(a, "offer")
    /\ net' = net \ {a}
    /\ offers' = offers \cup {[xfer |-> a.ref, peer |-> a.from]}
    /\ pump' = Append(pump, Event("offered", a.ref))
    /\ UNCHANGED <<service, peer, roster, texts, acked, ours, row, download, void, command, told, budget>>

\* peer_filter; or nobody reads the socket any more.
Filtered(a) ==
    /\ a \in net /\ a.to = Us /\ ("recv" \notin loops \/ a.from \notin range)
    /\ net' = net \ {a}
    /\ UNCHANGED <<service, peer, pump, roster, texts, acked, ours, files, command, told, budget>>

\* A loop sees the stop flag.
LoopEnds(l) ==
    /\ us = "leaving" /\ l \in loops
    /\ loops' = loops \ {l}
    /\ us' = IF loops' = {} THEN "left" ELSE us
    /\ UNCHANGED <<due, name, range, peer, net, pump, roster, texts, acked, ours, files,
                   command, told, budget>>

-----------------------------------------------------------------------------
(* The contact list, and time. *)

\* The expiry scan: stale_fingerprints.  It takes place only when the event loop
\* has waited 200 ms in vain.
Expire(p) ==
    /\ Alive /\ listed[p] = "online" /\ age[p] >= Timeout
    /\ Lost(p)
    /\ UNCHANGED <<service, peer, net, pump, texts, acked, ours, files, command, told, budget>>

\* retain_peers, after a change of the range.
Evict(p) ==
    /\ Alive /\ listed[p] # "absent" /\ p \notin range
    /\ listed' = [listed EXCEPT ![p] = "absent"]
    /\ age' = [age EXCEPT ![p] = 0]
    /\ UNCHANGED <<service, peer, net, pump, texts, acked, ours, files, command, told, budget>>

Sending == due /\ Alive /\ "send" \in loops
Older   == [p \in Peer |-> IF listed[p] = "online" /\ age[p] < Timeout THEN age[p] + 1 ELSE age[p]]

\* (mutation) The send loop says hello only once.
TickOnce ==
    /\ net = {} /\ ~Sending
    /\ age' = Older
    /\ UNCHANGED <<service, peer, net, pump, listed, texts, acked, ours, files, command, told,
                   budget>>

\* ENTRY_INTERVAL passes: longer than a datagram and what it sets off take.
Tick ==
    /\ net = {} /\ ~Sending
    /\ age' = Older
    /\ due' = (us \in {"up", "orphan"})
    /\ UNCHANGED <<us, loops, name, range, peer, net, pump, listed, texts, acked, ours, files,
                   command, told, budget>>

-----------------------------------------------------------------------------
(* Storing: persist_event, in the order of the channel. *)

Final == {"done", "failed", "rejected"}

\* update_transfer: an outcome is never overwritten, an unknown row stays unknown.
Updated(x, status) == [row EXCEPT ![x] = IF @ \in Final \cup {"none"} THEN @ ELSE status]

Stored(kinds) == Alive /\ pump # <<>> /\ Head(pump).kind \in kinds /\ pump' = Tail(pump)

\* A write that fails is logged, and what it was for is dropped.
Refused(what, n) == Spend("refused") /\ missed' = [missed EXCEPT ![what] = @ \cup {n}]
Accepted         == UNCHANGED <<budget, missed>>

StoreText ==
    /\ Stored({"text"})
    /\ \/ Accepted /\ texts' = texts \cup {Head(pump).ref}
       \/ Refused("texts", Head(pump).ref) /\ texts' = texts
    /\ UNCHANGED <<service, peer, net, roster, acked, kept, files, command, told>>

StoreTransfer ==
    /\ Stored({"offered", "done", "failed"})
    /\ LET e == Head(pump)
       IN \/ /\ Accepted
             /\ row' = IF e.kind = "offered" THEN [row EXCEPT ![e.ref] = "offered"] ELSE Updated(e.ref, e.kind)
          \/ Refused("files", e.ref) /\ row' = row
    /\ UNCHANGED <<service, peer, net, roster, texts, acked, kept, offers, download, void,
                   command, told>>

-----------------------------------------------------------------------------
(* The commands of the user, one at a time. *)

Commands == us = "up" /\ command = Ready

\* set_nick, set_group: the next entry does not wait for its interval.
SetNick ==
    /\ Commands /\ Spend("moves")
    /\ name' = name + 1
    /\ net' = net \cup ToAll("entry", name')
    /\ UNCHANGED <<us, loops, due, range, peer, pump, roster, texts, acked, ours, files,
                   command, told>>

\* set_policy, as far as the layer is concerned: targets and peer_filter.
SetRange(r) ==
    /\ Commands /\ r # range /\ Spend("moves")
    /\ range' = r
    /\ UNCHANGED <<us, loops, due, name, peer, net, pump, roster, texts, acked, ours, files,
                   command, told>>

\* send_text, offer_file: to a peer in the list.  The packet leaves first.
Send(kind, p) ==
    /\ Commands /\ listed[p] # "absent" /\ Spend("moves")
    /\ command' = [pc |-> kind, ref |-> Fresh]
    /\ UNCHANGED <<service, peer, net, pump, roster, texts, acked, ours, files, told>>

\* Then the text is stored, or the file can be asked for (GETFILEDATA).  The row of
\* a file of ours, which nothing ever updates, is left out.
Finish(kind) ==
    /\ Alive /\ command.pc = kind
    /\ \/ Accepted /\ kept' = [kept EXCEPT ![kind] = @ \cup {command.ref}]
       \/ kind = "texts" /\ Refused(kind, command.ref) /\ kept' = kept
    /\ command' = Ready
    /\ UNCHANGED <<service, peer, net, pump, roster, texts, acked, files, told>>

Held(x) == {o \in offers : o.xfer = x}

\* The user sees an offer although its row could not be written.
Answerable(x) == row[x] = "offered" \/ (x \in missed.files /\ Held(x) # {})

\* respond_file: the offer is taken out before anything else.  Without one the
\* native transport is asked, which ignores what it does not know.
Accept(x) ==
    /\ Commands /\ Answerable(x)
    /\ offers' = offers \ Held(x)
    /\ \/ /\ \E o \in Held(x) : listed[o.peer] # "absent"
          /\ download' = download \cup {x} /\ void' = void
          /\ command' = [pc |-> "active", ref |-> x]
       \/ /\ \E o \in Held(x) : listed[o.peer] = "absent"     \* UnknownPeer
          /\ void' = void \cup {x} /\ UNCHANGED <<download, command>>
       \/ /\ Held(x) = {}
          /\ command' = [pc |-> "active", ref |-> x] /\ UNCHANGED <<download, void>>
    /\ UNCHANGED <<service, peer, net, pump, roster, texts, acked, ours, row, told, budget>>

\* IPMsg knows no refusal: to reject is not to ask.
Reject(x) ==
    /\ Commands /\ Answerable(x)
    /\ offers' = offers \ Held(x)
    /\ command' = [pc |-> "rejected", ref |-> x]
    /\ UNCHANGED <<service, peer, net, pump, roster, texts, acked, ours, row, download, void,
                   told, budget>>

\* The command stores the answer, unless the download was faster.
RespondFinish ==
    /\ Alive /\ command.pc \in {"active", "rejected"}
    /\ \/ Accepted /\ row' = Updated(command.ref, command.pc)
       \/ Refused("files", command.ref) /\ row' = row
    /\ command' = Ready
    /\ UNCHANGED <<service, peer, net, pump, roster, texts, acked, kept, offers, download, void, told>>

\* (mutation) The thread returns early on an error.
DownloadEndsQuietly(x, outcome) ==
    /\ Alive /\ x \in download
    /\ download' = download \ {x}
    /\ pump' = IF outcome = "done" THEN Append(pump, Event(outcome, x)) ELSE pump
    /\ UNCHANGED <<service, peer, net, roster, texts, acked, ours, offers, row, void, command,
                   told, budget>>

\* request_file or request_dir, in a thread that reports either way.  The time-out
\* is one for each read: nothing says that a peer which sends a little now and then
\* ever lets it end.
DownloadEnds(x, outcome) ==
    /\ Alive /\ x \in download
    /\ download' = download \ {x}
    /\ pump' = Append(pump, Event(outcome, x))
    /\ UNCHANGED <<service, peer, net, roster, texts, acked, ours, offers, row, void, command,
                   told, budget>>

\* The thread of a folder panics (DirStream, "huge"), and reports nothing.
DownloadPanics(x) ==
    /\ Alive /\ x \in download
    /\ download' = download \ {x} /\ void' = void \cup {x}
    /\ UNCHANGED <<service, peer, net, pump, roster, texts, acked, ours, offers, row, command,
                   told, budget>>

-----------------------------------------------------------------------------
(* The end of the process, and its start. *)

\* The peers that something we said before may still reach.
InFlight == {a.to : a \in {b \in net : b.from = Us /\ b.kind \in {"entry", "answer"}}}

\* (mutation) The goodbye goes to those in the contact list.
GoodbyeToListed ==
    /\ Commands /\ download = {} /\ Spend("exits")
    /\ net' = net \cup {a \in ToAll("exit", 0) : listed[a.to] # "absent"}
    /\ told' = range \ InFlight
    /\ us' = "leaving"
    /\ UNCHANGED <<loops, due, name, range, peer, pump, roster, texts, acked, ours, files,
                   command>>

\* shutdown, of the core and the service: BR_EXIT, and then the stop flag.
Goodbye ==
    /\ Commands /\ download = {} /\ Spend("exits")
    /\ net' = net \cup ToAll("exit", 0)
    /\ told' = range \ InFlight
    /\ us' = "leaving"
    /\ UNCHANGED <<loops, due, name, range, peer, pump, roster, texts, acked, ours, files,
                   command>>

\* A download holds the service, so shutdown lets it be: no goodbye, no stop.
NoGoodbye ==
    /\ Commands /\ download # {} /\ Spend("exits")
    /\ us' = "orphan"
    /\ UNCHANGED <<loops, due, name, range, peer, net, pump, roster, texts, acked, ours, files,
                   command, told>>

\* The process ends: after shutdown, or because it is killed.
Exit ==
    /\ \/ us \in {"left", "orphan"} /\ budget' = budget
       \/ us \in {"up", "leaving"} /\ Spend("exits")
    /\ us' = "down" /\ loops' = {} /\ due' = FALSE
    /\ net' = {a \in net : a.to # Us}
    /\ pump' = <<>> /\ offers' = {} /\ download' = {}
    /\ command' = Ready
    /\ listed' = [p \in Peer |-> IF listed[p] = "online" THEN "offline" ELSE listed[p]]
    /\ age' = [p \in Peer |-> 0]
    /\ kept' = [kept EXCEPT !.files = {}]
    /\ missed' = [missed EXCEPT !.texts = @ \cup {e.ref : e \in {f \in Range(pump) : f.kind = "text"}}
                                          \cup {n \in {command.ref} : command.pc = "texts"}]
    /\ void' = void \cup {x \in Number : row[x] \in {"offered", "active"}}
    /\ UNCHANGED <<name, range, peer, texts, acked, row, told>>

Start ==
    /\ us = "down" /\ Spend("moves")
    /\ us' = "up" /\ loops' = {"send", "recv"} /\ due' = TRUE
    /\ told' = {}
    /\ UNCHANGED <<name, range, peer, net, pump, roster, texts, acked, ours, files, command>>

-----------------------------------------------------------------------------
(* The peers, as the code expects them to be. *)

FromPeer(p, kinds, ref) == IF Alive THEN {Packet(k, p, Us, ref) : k \in kinds} ELSE {}

PeerStarts(p) ==
    /\ ~peer[p].up /\ Spend("moves")
    /\ peer' = [peer EXCEPT ![p] = [up |-> TRUE, knows |-> 0]]
    /\ net' = net \cup FromPeer(p, {"entry"}, 0)
    /\ UNCHANGED <<service, pump, roster, texts, acked, ours, files, command, told>>

\* With a goodbye or without.
PeerEnds(p, kinds) ==
    /\ peer[p].up /\ Spend("moves")
    /\ peer' = [peer EXCEPT ![p] = [up |-> FALSE, knows |-> 0]]
    /\ net' = {a \in net : a.to # p} \cup FromPeer(p, kinds, 0)
    /\ UNCHANGED <<service, pump, roster, texts, acked, ours, files, command, told>>

PeerSends(p, kind) ==
    /\ peer[p].up /\ Spend("moves")
    /\ net' = net \cup FromPeer(p, {kind}, Fresh)
    /\ UNCHANGED <<service, peer, pump, roster, texts, acked, ours, files, command, told>>

PeerAnswers(a) ==
    /\ a \in net /\ a.to # Us /\ a.kind = "entry"
    /\ peer' = [peer EXCEPT ![a.to].knows = a.ref]
    /\ net' = (net \ {a}) \cup FromPeer(a.to, {"answer"}, 0)
    /\ UNCHANGED <<service, pump, roster, texts, acked, ours, files, command, told, budget>>

PeerHears(a) ==
    /\ a \in net /\ a.to # Us /\ a.kind \in {"answer", "exit"}
    /\ peer' = [peer EXCEPT ![a.to].knows = IF a.kind = "answer" THEN a.ref ELSE 0]
    /\ net' = net \ {a}
    /\ UNCHANGED <<service, pump, roster, texts, acked, ours, files, command, told, budget>>

\* A lost goodbye has not been said.
Lose(a) ==
    /\ a \in net /\ Spend("lost")
    /\ net' = net \ {a}
    /\ told' = IF a.kind = "exit" /\ a.from = Us THEN told \ {a.to} ELSE told
    /\ UNCHANGED <<service, peer, pump, roster, texts, acked, ours, files, command>>

-----------------------------------------------------------------------------
Receive(a) ==
    \/ RecvEntry(a) \/ RecvAnswer(a) \/ RecvExit(a) \/ RecvText(a) \/ RecvOffer(a)
    \/ Filtered(a) \/ PeerAnswers(a) \/ PeerHears(a)

\* What goes on without users, peers and faults.
Runs ==
    \/ SendEntry \/ Tick \/ StoreText \/ StoreTransfer \/ RespondFinish
    \/ Finish("texts") \/ Finish("files")
    \/ \E a \in net : Receive(a)
    \/ \E l \in loops : LoopEnds(l)
    \/ \E p \in Peer : Expire(p) \/ Evict(p)

Next ==
    \/ Runs
    \/ SetNick \/ Goodbye \/ NoGoodbye \/ Exit \/ Start
    \/ \E r \in Ranges : SetRange(r)
    \/ \E p \in Peer : PeerStarts(p)
    \/ \E p \in Plain : PeerEnds(p, {}) \/ PeerEnds(p, {"exit"})
    \/ \E p \in Plain, kind \in {"texts", "files"} : Send(kind, p)
    \/ \E p \in Plain, kind \in {"text", "offer"} : PeerSends(p, kind)
    \/ \E x \in Number : Accept(x) \/ Reject(x) \/ DownloadPanics(x)
    \/ \E x \in Number, outcome \in {"done", "failed"} : DownloadEnds(x, outcome)
    \/ \E a \in net : Lose(a)

Spec == Init /\ [][Next]_vars

\* The threads are scheduled, and datagrams arrive or are lost.  Nobody promises
\* that a download ends, or that the event loop finds time to scan.
Live ==
    /\ Spec
    /\ WF_vars(Tick) /\ WF_vars(SendEntry)
    /\ WF_vars(StoreText \/ StoreTransfer) /\ WF_vars(RespondFinish \/ Finish("texts") \/ Finish("files"))
    /\ WF_vars(\E a \in net : Receive(a))
    /\ WF_vars(\E p \in Peer : Evict(p))

-----------------------------------------------------------------------------
(* Properties. *)

\* Types; and a BigPaw peer is never listed as one of the old protocol
\* (forward_ipmsg_event), so it is in the contact list once.
TypeOK ==
    /\ us \in {"up", "leaving", "left", "orphan", "down"}
    /\ loops \subseteq {"send", "recv"} /\ (us = "up" => loops = {"send", "recv"})
    /\ due \in BOOLEAN /\ name \in 1 .. MaxMoves + 1 /\ range \subseteq Peer
    /\ peer \in [Peer -> [up: BOOLEAN, knows: 0 .. name]]
    /\ \A i \in DOMAIN pump : pump[i].kind \in {"text", "offered", "done", "failed"}
    /\ listed \in [Peer -> {"absent", "offline", "online"}] /\ age \in [Peer -> 0 .. Timeout]
    /\ \A k \in Kin : listed[k] = "absent"
    /\ UNION {texts, acked, kept.texts, kept.files, missed.texts, missed.files, download, void} \subseteq Number
    /\ row \in [Number -> {"none", "offered", "active"} \cup Final]
    /\ offers \subseteq [xfer: Number, peer: Plain]
    /\ command.pc \in {"ready", "texts", "files", "active", "rejected"}

\* A file that is shown as offered can be answered: its offer is in the table, where
\* the forwarding thread put it and from where an answer takes it; unless that answer
\* is still at it, failed, or could not be stored, or the process that held the offer
\* has ended (forward_ipmsg_event, respond_file, persist_event).
OfferIsHeld ==
    \A x \in Number : row[x] = "offered" =>
        Held(x) # {} \/ x \in void \cup missed.files \/ command \in [pc: {"active", "rejected"}, ref: {x}]

\* Whenever entries are stale for good, the event loop finds 200 ms of silence and
\* scans: what a steady trickle of events, of any kind, may keep it from.
ScansRun == WF_vars(\E p \in Peer : Expire(p))

\* If scans run, then in the end the contact list shows as online just the peers of
\* the old protocol that are there and in range, and they list us under our last
\* name: whatever was lost, overtaken or changed, the entries of the send loop mend
\* (send_loop, dispatch, the expiry scan).
PresenceFollows ==
    ScansRun =>
        <>[](us = "up" =>
                \A p \in Plain :
                    LET near == peer[p].up /\ p \in range
                    IN (listed[p] = "online" <=> near) /\ (near => peer[p].knows = name))

\* Time and again every text we ever gave a receipt for is in the database, but for
\* those the database refused and those in the channel when a process ended
\* (recv_loop, forward_ipmsg_event, persist_event).
AckedIsStored == []<>(acked \subseteq texts \cup missed.texts)

\* Time and again no file is active but those that are being fetched: once a download
\* is over its row gets the outcome, unless its thread has died, the process has
\* ended, or the database refused it (respond_file_ipmsg, update_transfer).
DownloadsEnd == []<>(\A x \in Number : row[x] = "active" => x \in download \cup void \cup missed.files)

\* A peer for whom the goodbye of a graceful end was the last word, and who was
\* not cut off from it, has dropped us (shutdown).
Farewell ==
    us \in {"left", "down"} =>
        \A p \in told : (\A a \in net : a.to # p) => peer[p].knows = 0
=============================================================================
