----------------------------- MODULE Connections -----------------------------
(***************************************************************************)
(* Message connections between devices: send_msg with its outbound cache,   *)
(* the accept loop with its readers, and enforce_scope, all of              *)
(* bigpaw-core/src/transport/manager.rs.                                    *)
(*                                                                         *)
(* A sending thread tries the cached connection under the cache lock; when  *)
(* there is none, or it has heard that the other end closed it, it dials    *)
(* outside the lock and puts the new connection into the cache afterwards.  *)
(* The accept loop looks at the network range first and registers the       *)
(* connection afterwards.  The settings command publishes a range and then  *)
(* goes through both tables.  All of them run at the same time.             *)
(*                                                                         *)
(* That an end has closed reaches the other one later, with a FIN or a      *)
(* reset: a frame written before that is taken by the socket and lost.      *)
(*                                                                         *)
(* A device has one address here, so a network range is a set of devices.   *)
(***************************************************************************)
EXTENDS Naturals, SequencesExt, FiniteSets

CONSTANTS
    Node,
    Thread,       \* threads that send messages
    Home,         \* the device of each thread
    Restarts,     \* whether devices restart
    MaxConn,      \* bound: connections ever dialled
    MaxMsg,       \* bound: messages of a thread
    MaxGen        \* bound: ranges a device publishes

ASSUME HomeAssumption == Home \in [Thread -> Node]
ASSUME RestartsAssumption == Restarts \in BOOLEAN
ASSUME BoundAssumption == MaxConn \in Nat /\ MaxMsg \in Nat /\ MaxGen \in Nat

VARIABLES
    scope,      \* the published network range of each device
    gen,        \* history: how many ranges the device has published
    cutting,    \* enforce_scope: what it goes through next
    cache,      \* outbound: the connection to each device, or NoConn
    registry,   \* inbound_socks
    send,       \* sending threads: [pc, to, checked, conn, count]
    conn,       \* connections: [from, to, client, server, stream]
    news,       \* connections whose FIN or reset has arrived at the dialling end
    greeted,    \* connections whose first frame (Hello) the reader has got
    since,      \* history: range of the check and of the registration, by end
    looked,     \* history: threads that found their connection alive
    sent,       \* history: messages reported as sent
    shown,      \* history: messages a reader has taken up
    excused     \* history: messages that went down with their connection

settingsVars == <<scope, gen, cutting>>
wireVars     == <<news, greeted>>
historyVars  == <<sent, shown, excused>>
vars == <<settingsVars, cache, registry, send, conn, wireVars, since, looked, historyVars>>

Conn   == 1 .. MaxConn
NoConn == 0

Msg == Thread \X (1 .. MaxMsg)

Unused == [from |-> "none", to |-> "none", client |-> "none", server |-> "none", stream |-> <<>>]

ClientState == {"none", "open", "closed"}
ServerState == {"none", "queued", "admitted", "reading", "shut", "closed"}

NoTimes == [outChecked |-> 0, outSince |-> 0, inChecked |-> 0, inSince |-> 0]

Idle(t) == [pc |-> "idle", to |-> Home[t], checked |-> 0, conn |-> NoConn, count |-> send[t].count]

\* A connection nobody has dialled yet.
Fresh(c) == conn[c] = Unused /\ \A d \in Conn : d < c => conn[d] # Unused

Init ==
    /\ scope = [n \in Node |-> Node] /\ gen = [n \in Node |-> 0]
    /\ cutting = [n \in Node |-> "idle"]
    /\ cache = [n \in Node |-> [m \in Node |-> NoConn]] /\ registry = [n \in Node |-> {}]
    /\ send = [t \in Thread |-> [pc |-> "idle", to |-> Home[t], checked |-> 0,
                                 conn |-> NoConn, count |-> 0]]
    /\ conn = [c \in Conn |-> Unused] /\ since = [c \in Conn |-> NoTimes]
    /\ news = {} /\ greeted = {} /\ looked = {}
    /\ sent = {} /\ shown = {} /\ excused = {}

-----------------------------------------------------------------------------
(* send_msg. *)

Message(t) == <<t, send[t].count>>

Goto(t, pc)  == send' = [send EXCEPT ![t].pc = pc]
Finish(t)    == send' = [send EXCEPT ![t] = Idle(t)]
Report(m)    == sent' = sent \cup {m}

\* The other end is closed; this one may not have heard of it.
Dead(c) == conn[c].server \in {"shut", "closed"}

\* A frame for a closed socket is lost.
Write(c, m) ==
    IF conn[c].server = "closed" THEN conn ELSE [conn EXCEPT ![c].stream = Append(@, m)]

\* The write succeeds: the message counts as sent, and as excused if the other
\* end had closed unheard of when the thread looked.
WriteTo(t, c) ==
    /\ conn' = Write(c, Message(t)) /\ Report(Message(t))
    /\ excused' = IF Dead(c) /\ t \in looked THEN excused \cup {Message(t)} ELSE excused

\* What the thread finds when it looks at the connection.
Look(t, c) == looked' = IF c \notin news THEN looked \cup {t} ELSE looked \ {t}

\* The cache lock: held from the look at a cached connection to the write.
LockFree(n) == \A t \in Thread : Home[t] = n => send[t].pc # "write"

OnTheWay(C) == UNION {Range(conn[c].stream) : c \in C}

\* The ends of the connections C become `client' and `server' (or stay).
\* What is on the way is still read, or goes with a reset: the closing end
\* may hold session tickets it has never read (cf. drain_before_close).
Close(C, client, server) ==
    /\ \E kept \in SUBSET C :
          conn' = [c \in Conn |->
                     IF c \notin C THEN conn[c]
                     ELSE [conn[c] EXCEPT !.client = IF client = "stay" THEN @ ELSE client,
                                          !.server = IF server = "stay" THEN @ ELSE server,
                                          !.stream = IF c \in kept THEN @ ELSE <<>>]]
    /\ excused' = excused \cup OnTheWay(C)

\* The caller found the device in the contact list.
StartSend(t, n) ==
    /\ send[t].pc = "idle" /\ send[t].count < MaxMsg /\ n # Home[t]
    /\ send' = [send EXCEPT ![t].pc = "cached", ![t].to = n, ![t].count = @ + 1]
    /\ UNCHANGED <<settingsVars, cache, registry, conn, wireVars, since, looked, historyVars>>

\* (mutation) A cached connection is used without a look at the other end.
CheckCachedUnchecked(t) ==
    LET c == cache[Home[t]][send[t].to]
    IN /\ send[t].pc = "cached" /\ LockFree(Home[t]) /\ c # NoConn
       /\ Look(t, c) /\ Goto(t, "write")
       /\ UNCHANGED <<settingsVars, cache, registry, conn, wireVars, since, historyVars>>

\* conn_is_dead, under the cache lock: no FIN or reset has arrived.
CheckCached(t) ==
    LET c == cache[Home[t]][send[t].to]
    IN /\ send[t].pc = "cached" /\ LockFree(Home[t]) /\ c # NoConn /\ c \notin news
       /\ Look(t, c) /\ Goto(t, "write")
       /\ UNCHANGED <<settingsVars, cache, registry, conn, wireVars, since, historyVars>>

\* Still under the lock; a FIN that arrived since then does not stop the write.
WriteCached(t) ==
    LET c == cache[Home[t]][send[t].to]
    IN /\ send[t].pc = "write" /\ c # NoConn
       /\ WriteTo(t, c) /\ Finish(t)
       /\ UNCHANGED <<settingsVars, cache, registry, wireVars, since, looked, shown>>

\* Under the lock: nothing cached, a connection found dead, or one reset since
\* the look; the connection is dropped.
MissCached(t) ==
    LET c == cache[Home[t]][send[t].to]
    IN /\ \/ send[t].pc = "cached" /\ LockFree(Home[t]) /\ (c = NoConn \/ c \in news)
          \/ send[t].pc = "write" /\ c \in news
       /\ cache' = [cache EXCEPT ![Home[t]][send[t].to] = NoConn]
       /\ conn' = IF c = NoConn THEN conn ELSE [conn EXCEPT ![c].client = "closed"]
       /\ Goto(t, "dial")
       /\ UNCHANGED <<settingsVars, registry, wireVars, since, looked, historyVars>>

\* (mutation) Any address is dialled.
DialUnchecked(t) ==
    /\ send[t].pc = "dial"
    /\ send' = [send EXCEPT ![t].pc = "connect", ![t].checked = gen[Home[t]]]
    /\ UNCHANGED <<settingsVars, cache, registry, conn, wireVars, since, looked, historyVars>>

\* connect_and_send reads the range once; nothing else is dialled.
DialAllowed(t) ==
    /\ send[t].pc = "dial" /\ send[t].to \in scope[Home[t]]
    /\ send' = [send EXCEPT ![t].pc = "connect", ![t].checked = gen[Home[t]]]
    /\ UNCHANGED <<settingsVars, cache, registry, conn, wireVars, since, looked, historyVars>>

DialDenied(t) ==
    /\ send[t].pc = "dial" /\ send[t].to \notin scope[Home[t]]
    /\ Finish(t)
    /\ UNCHANGED <<settingsVars, cache, registry, conn, wireVars, since, looked, historyVars>>

\* The listener's backlog takes the connection.
Connect(t) ==
    /\ send[t].pc = "connect"
    /\ \E c \in Conn :
          /\ Fresh(c)
          /\ conn' = [conn EXCEPT ![c] = [from |-> Home[t], to |-> send[t].to, client |-> "open",
                                          server |-> "queued", stream |-> <<>>]]
          /\ since' = [since EXCEPT ![c].outChecked = send[t].checked]
          /\ send' = [send EXCEPT ![t].pc = "handshake", ![t].conn = c]
    /\ UNCHANGED <<settingsVars, cache, registry, wireVars, looked, historyVars>>

\* Nobody answers at the address.
ConnectFails(t) ==
    /\ send[t].pc = "connect" /\ Finish(t)
    /\ UNCHANGED <<settingsVars, cache, registry, conn, wireVars, since, looked, historyVars>>

\* The handshake needs the reader; Hello follows.
Handshake(t) ==
    LET c == send[t].conn
    IN /\ send[t].pc = "handshake" /\ conn[c].server = "reading"
       /\ Look(t, c) /\ Goto(t, "first")
       /\ UNCHANGED <<settingsVars, cache, registry, conn, wireVars, since, historyVars>>

WriteFresh(t) ==
    /\ send[t].pc = "first"
    /\ WriteTo(t, send[t].conn) /\ Goto(t, "insert")
    /\ UNCHANGED <<settingsVars, cache, registry, wireVars, since, looked, shown>>

\* The other end's FIN or reset ends the handshake or the write.
DialFails(t) ==
    LET c == send[t].conn
    IN /\ send[t].pc \in {"handshake", "first"} /\ c \in news
       /\ conn' = [conn EXCEPT ![c].client = "closed"]
       /\ Finish(t)
       /\ UNCHANGED <<settingsVars, cache, registry, wireVars, since, looked, historyVars>>

\* Under the cache lock again: the connection another thread has put there
\* meanwhile is dropped, undrained.
InsertCache(t) ==
    LET n == Home[t]
        old == cache[n][send[t].to]
    IN /\ send[t].pc = "insert" /\ LockFree(n)
       /\ cache' = [cache EXCEPT ![n][send[t].to] = send[t].conn]
       /\ Close({old} \ {NoConn}, "closed", "stay")
       /\ since' = [since EXCEPT ![send[t].conn].outSince = gen[n]]
       /\ Finish(t)
       /\ UNCHANGED <<settingsVars, registry, wireVars, looked, sent, shown>>

ThreadStep(t) ==
    \/ CheckCached(t) \/ WriteCached(t) \/ MissCached(t)
    \/ DialAllowed(t) \/ DialDenied(t)
    \/ Connect(t) \/ ConnectFails(t)
    \/ Handshake(t) \/ WriteFresh(t) \/ DialFails(t)
    \/ InsertCache(t)

\* The news of a close arrives.
Arrive(c) ==
    /\ conn[c].client = "open" /\ Dead(c) /\ c \notin news
    /\ news' = news \cup {c}
    /\ UNCHANGED <<settingsVars, cache, registry, send, conn, greeted, since, looked, historyVars>>

-----------------------------------------------------------------------------
(* The accept loop and its readers. *)

\* One connection at a time is between the check and the registration.
Accepting(n) == \E c \in Conn : conn[c].to = n /\ conn[c].server = "admitted"

SetServer(c, state) == conn' = [conn EXCEPT ![c].server = state]

\* (mutation) Every address comes in.
AdmitUnchecked(c) ==
    LET n == conn[c].to
    IN /\ conn[c].server = "queued" /\ ~Accepting(n)
       /\ SetServer(c, "admitted")
       /\ since' = [since EXCEPT ![c].inChecked = gen[n]]
       /\ UNCHANGED <<settingsVars, cache, registry, send, wireVars, looked, historyVars>>

Admit(c) ==
    LET n == conn[c].to
    IN /\ conn[c].server = "queued" /\ ~Accepting(n) /\ conn[c].from \in scope[n]
       /\ SetServer(c, "admitted")
       /\ since' = [since EXCEPT ![c].inChecked = gen[n]]
       /\ UNCHANGED <<settingsVars, cache, registry, send, wireVars, looked, historyVars>>

\* (mutation) A refused connection is left open.
RefuseLeavingOpen(c) ==
    LET n == conn[c].to
    IN /\ conn[c].server = "queued" /\ ~Accepting(n) /\ conn[c].from \notin scope[n]
       /\ SetServer(c, "forgotten")
       /\ UNCHANGED <<settingsVars, cache, registry, send, wireVars, since, looked, historyVars>>

Refuse(c) ==
    LET n == conn[c].to
    IN /\ conn[c].server = "queued" /\ ~Accepting(n) /\ conn[c].from \notin scope[n]
       /\ SetServer(c, "closed")
       /\ UNCHANGED <<settingsVars, cache, registry, send, wireVars, since, looked, historyVars>>

\* The connection goes into inbound_socks and gets a reader.
Register(c) ==
    LET n == conn[c].to
    IN /\ conn[c].server = "admitted"
       /\ SetServer(c, "reading")
       /\ registry' = [registry EXCEPT ![n] = @ \cup {c}]
       /\ since' = [since EXCEPT ![c].inSince = gen[n]]
       /\ UNCHANGED <<settingsVars, cache, send, wireVars, looked, historyVars>>

\* Hello was written: the handshake is over, and the dialling end is there or
\* has left more.
HelloSent(c) ==
    \/ conn[c].stream # <<>>
    \/ conn[c].client = "open" /\ \A t \in Thread : send[t].conn = c => send[t].pc # "handshake"

\* The first frame; with it the time-out is lifted.
Greet(c) ==
    /\ conn[c].server = "reading" /\ c \notin greeted /\ HelloSent(c)
    /\ greeted' = greeted \cup {c}
    /\ UNCHANGED <<settingsVars, cache, registry, send, conn, news, since, looked, historyVars>>

\* read_loop; after a shutdown it still gets what has arrived.
Read(c) ==
    /\ conn[c].server \in {"reading", "shut"} /\ c \in greeted /\ conn[c].stream # <<>>
    /\ shown' = shown \cup {Head(conn[c].stream)}
    /\ conn' = [conn EXCEPT ![c].stream = Tail(@)]
    /\ UNCHANGED <<settingsVars, cache, registry, send, wireVars, since, looked, sent, excused>>

\* The end of the stream, a shutdown by enforce_scope, or ten seconds without
\* a first frame, which may be under way.
ReaderIsDone(c) ==
    \/ conn[c].server = "reading" /\ conn[c].client = "closed" /\ conn[c].stream = <<>>
    \/ conn[c].server = "shut"
    \/ conn[c].server = "reading" /\ c \notin greeted

\* (mutation) A way out of the reader without cleanup.
ReadEndNoCleanup(c) ==
    /\ ReaderIsDone(c)
    /\ conn' = [conn EXCEPT ![c].server = "closed", ![c].stream = <<>>]
    /\ excused' = excused \cup OnTheWay({c})
    /\ UNCHANGED <<settingsVars, cache, registry, send, wireVars, since, looked, sent, shown>>

\* cleanup, on every way out of the reader.
ReadEnd(c) ==
    /\ ReaderIsDone(c)
    /\ conn' = [conn EXCEPT ![c].server = "closed", ![c].stream = <<>>]
    /\ registry' = [registry EXCEPT ![conn[c].to] = @ \ {c}]
    /\ excused' = excused \cup OnTheWay({c})
    /\ UNCHANGED <<settingsVars, cache, send, wireVars, since, looked, sent, shown>>

AcceptStep(n) == \E c \in Conn : conn[c].to = n /\ (Admit(c) \/ Refuse(c) \/ Register(c))
ReaderStep(c) == Greet(c) \/ Read(c) \/ ReadEnd(c)

-----------------------------------------------------------------------------
(* apply_settings and a restart. *)

Publish(n, S) ==
    /\ cutting[n] = "idle" /\ gen[n] < MaxGen /\ S # scope[n]
    /\ scope' = [scope EXCEPT ![n] = S] /\ gen' = [gen EXCEPT ![n] = @ + 1]
    /\ cutting' = [cutting EXCEPT ![n] = "outbound"]
    /\ UNCHANGED <<cache, registry, send, conn, wireVars, since, looked, historyVars>>

\* (mutation) The cached connections stay.
CutOutboundNothing(n) ==
    /\ cutting[n] = "outbound"
    /\ cutting' = [cutting EXCEPT ![n] = "inbound"]
    /\ UNCHANGED <<scope, gen, cache, registry, send, conn, wireVars, since, looked, historyVars>>

\* enforce_scope, first half, under the cache lock.
CutOutbound(n) ==
    /\ cutting[n] = "outbound" /\ LockFree(n)
    /\ cache' = [cache EXCEPT ![n] = [m \in Node |-> IF m \in scope[n] THEN cache[n][m] ELSE NoConn]]
    /\ Close({cache[n][m] : m \in Node \ scope[n]} \ {NoConn}, "closed", "stay")
    /\ cutting' = [cutting EXCEPT ![n] = "inbound"]
    /\ UNCHANGED <<scope, gen, registry, send, wireVars, since, looked, sent, shown>>

\* Second half, under the lock of inbound_socks.
CutInbound(n) ==
    LET out == {c \in registry[n] : conn[c].from \notin scope[n]}
    IN /\ cutting[n] = "inbound"
       /\ registry' = [registry EXCEPT ![n] = @ \ out]
       /\ Close(out, "stay", "shut")
       /\ cutting' = [cutting EXCEPT ![n] = "idle"]
       /\ UNCHANGED <<scope, gen, cache, send, wireVars, since, looked, sent, shown>>

\* The process ends and starts again: all its sockets are closed (what Drop
\* does for the inbound ones when only the manager goes).
Restart(n) ==
    LET mine == {c \in Conn : n \in {conn[c].from, conn[c].to}}
    IN /\ Restarts
       /\ \E kept \in SUBSET {c \in mine : conn[c].to # n} :
             conn' = [c \in Conn |->
                        IF c \notin mine THEN conn[c]
                        ELSE [conn[c] EXCEPT !.client = IF conn[c].from = n THEN "closed" ELSE @,
                                             !.server = IF conn[c].to = n THEN "closed" ELSE @,
                                             !.stream = IF c \in kept THEN @ ELSE <<>>]]
       /\ excused' = excused \cup OnTheWay(mine)
       /\ cache' = [cache EXCEPT ![n] = [m \in Node |-> NoConn]]
       /\ registry' = [registry EXCEPT ![n] = {}]
       /\ send' = [t \in Thread |-> IF Home[t] = n THEN Idle(t) ELSE send[t]]
       /\ cutting' = [cutting EXCEPT ![n] = "idle"]
       /\ UNCHANGED <<scope, gen, wireVars, since, looked, sent, shown>>

-----------------------------------------------------------------------------

SettingsStep(n) == CutOutbound(n) \/ CutInbound(n)

Next ==
    \/ \E t \in Thread, n \in Node : StartSend(t, n)
    \/ \E t \in Thread : ThreadStep(t)
    \/ \E c \in Conn : Arrive(c) \/ ReaderStep(c)
    \/ \E n \in Node : AcceptStep(n) \/ SettingsStep(n) \/ Restart(n)
    \/ \E n \in Node, S \in SUBSET Node : n \in S /\ Publish(n, S)

Spec == Init /\ [][Next]_vars

\* Every thread of the program gets on, and what a closing end sends arrives;
\* nobody has to send, to change a setting or to restart.
Fairness ==
    /\ \A t \in Thread : WF_vars(ThreadStep(t))
    /\ \A n \in Node : WF_vars(AcceptStep(n)) /\ WF_vars(SettingsStep(n))
    /\ \A c \in Conn : WF_vars(ReaderStep(c)) /\ WF_vars(Arrive(c))

LiveSpec == Spec /\ Fairness

-----------------------------------------------------------------------------
(* Properties. *)

\* The state is of the shape the code gives it: a cached or registered
\* connection is one of this device, in the direction the table is for.
TypeOK ==
    /\ scope \in [Node -> SUBSET Node] /\ gen \in [Node -> 0 .. MaxGen]
    /\ cutting \in [Node -> {"idle", "outbound", "inbound"}]
    /\ \A n, m \in Node : cache[n][m] # NoConn =>
          LET c == conn[cache[n][m]] IN c.from = n /\ c.to = m /\ c.client = "open"
    /\ \A n \in Node : registry[n] = {c \in Conn : conn[c].to = n /\ conn[c].server = "reading"}
    /\ \A c \in Conn : conn[c].client \in ClientState /\ conn[c].server \in ServerState
    /\ news \subseteq {c \in Conn : Dead(c)} /\ greeted \subseteq Conn /\ looked \subseteq Thread
    /\ sent \subseteq Msg /\ shown \subseteq Msg /\ excused \subseteq Msg

\* What is left out of range in a table when enforce_scope has run was on its
\* way through the dial or the accept loop: its address was checked against
\* an earlier range, and it came into the table after the latest one.
StragglersOnly ==
    \A n \in Node : cutting[n] = "idle" =>
       /\ \A m \in Node \ scope[n] : cache[n][m] # NoConn =>
             LET s == since[cache[n][m]] IN s.outChecked < gen[n] /\ s.outSince = gen[n]
       /\ \A c \in registry[n] : conn[c].from \notin scope[n] =>
             since[c].inChecked < gen[n] /\ since[c].inSince = gen[n]

\* README.md:35: devices out of range are neither let in nor dialled.  When
\* enforce_scope has run, no connection with one is left.
ScopeIsEnforced ==
    \A n \in Node : cutting[n] = "idle" =>
       /\ \A m \in Node \ scope[n] : cache[n][m] = NoConn
       /\ \A c \in registry[n] : conn[c].from \in scope[n]

\* A message send_msg reported as sent is taken up by a reader of the other
\* device, unless its connection went down with it: one of the two restarted, a
\* change of range cut it, another thread's connection replaced it in the cache,
\* or the reader gave up on its first frame; or unless the other end had closed
\* although conn_is_dead, or the handshake, had found it open.
Delivered == \A m \in Msg : m \in sent ~> m \in shown \cup excused

\* send_msg returns: a thread that waits for a handshake gets it, or the
\* other end closes the connection.
SendReturns == \A t \in Thread : send[t].pc # "idle" ~> send[t].pc = "idle"

=============================================================================
