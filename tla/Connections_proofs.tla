-------------------------- MODULE Connections_proofs --------------------------
(***************************************************************************)
(* Machine-checked proofs about Connections, for any devices, threads and   *)
(* bounds, with and without restarts.                                       *)
(***************************************************************************)
EXTENDS Connections, TLAPS

Ends == [from : Node \cup {"none"}, to : Node \cup {"none"}, client : ClientState,
         server : ServerState, stream : Seq(Msg)]

Times == [outChecked : 0 .. MaxGen, outSince : 0 .. MaxGen,
          inChecked : 0 .. MaxGen, inSince : 0 .. MaxGen]

Sending == [pc : {"idle", "cached", "write", "dial", "connect", "handshake", "first", "insert"}, to : Node,
            checked : 0 .. MaxGen, conn : Conn \cup {NoConn}, count : 0 .. MaxMsg]

Shape ==
    /\ scope \in [Node -> SUBSET Node] /\ gen \in [Node -> 0 .. MaxGen]
    /\ cutting \in [Node -> {"idle", "outbound", "inbound"}]
    /\ cache \in [Node -> [Node -> Conn \cup {NoConn}]]
    /\ registry \in [Node -> SUBSET Conn]
    /\ send \in [Thread -> Sending]
    /\ \A t \in Thread : send[t].pc # "idle" => send[t].count \in 1 .. MaxMsg
    /\ conn \in [Conn -> Ends]
    /\ since \in [Conn -> Times]
    /\ news \subseteq Conn /\ greeted \subseteq Conn /\ looked \subseteq Thread
    /\ sent \subseteq Msg /\ shown \subseteq Msg /\ excused \subseteq Msg

\* The thread holds a connection that is not in the cache yet.
Holds(t) == send[t].pc \in {"handshake", "first", "insert"}

\* A connection in the cache is one of this device to the other, and open.
CachedIsOurs ==
    \A n, m \in Node : cache[n][m] # NoConn =>
        LET c == conn[cache[n][m]] IN c.from = n /\ c.to = m /\ c.client = "open"

\* So is the one a thread holds, and nobody else has it.
HeldIsOurs ==
    \A t \in Thread : Holds(t) =>
        /\ send[t].conn \in Conn
        /\ conn[send[t].conn].from = Home[t] /\ conn[send[t].conn].to = send[t].to
        /\ conn[send[t].conn].client = "open"
        /\ \A n, m \in Node : cache[n][m] # send[t].conn
        /\ \A u \in Thread \ {t} : Holds(u) => send[u].conn # send[t].conn

RegisteredAreRead ==
    \A n \in Node : registry[n] = {c \in Conn : conn[c].to = n /\ conn[c].server = "reading"}

TypeInv == Shape /\ CachedIsOurs /\ HeldIsOurs /\ RegisteredAreRead

\* A thread that found the address in range was right, or the range has changed since;
\* and so it is as long as the connection is on its way to the cache.
CheckedOut ==
    \A t \in Thread :
        LET n == Home[t] IN
        /\ send[t].pc = "connect" =>
               send[t].checked <= gen[n] /\ (send[t].checked = gen[n] => send[t].to \in scope[n])
        /\ Holds(t) =>
               LET s == since[send[t].conn]
               IN s.outChecked <= gen[n] /\ (s.outChecked = gen[n] => send[t].to \in scope[n])

\* Once enforce_scope has been through the cache, what is out of range there came later.
LateInCache ==
    \A n \in Node : cutting[n] # "outbound" =>
        \A m \in Node \ scope[n] : cache[n][m] # NoConn =>
            LET s == since[cache[n][m]] IN s.outChecked < gen[n] /\ s.outSince = gen[n]

\* The same for the accept loop and its table.
CheckedIn ==
    \A n \in Node, c \in Conn : conn[c].to = n /\ conn[c].server = "admitted" =>
        since[c].inChecked <= gen[n] /\ (since[c].inChecked = gen[n] => conn[c].from \in scope[n])

LateInTable ==
    \A n \in Node : cutting[n] = "idle" =>
        \A c \in registry[n] : conn[c].from \notin scope[n] =>
            since[c].inChecked < gen[n] /\ since[c].inSince = gen[n]

ChecksInv == CheckedOut /\ LateInCache /\ CheckedIn /\ LateInTable

\* Only what happened is heard of; and who writes has looked at its connection.
NewsIsTrue == \A c \in news : Dead(c)

LookedBefore == \A t \in Thread : send[t].pc \in {"write", "first"} => t \in looked

\* What was reported as sent is on its way, was taken up, or went down with its end.
NothingIsLost == sent \subseteq shown \cup excused \cup OnTheWay(Conn)

-----------------------------------------------------------------------------
LEMMA ConnFacts == Conn \subseteq Nat /\ NoConn \notin Conn
  BY BoundAssumption DEF Conn, NoConn

LEMMA MsgFact ==
    ASSUME Shape, NEW t \in Thread, send[t].pc # "idle"
    PROVE  Message(t) \in Msg
  BY DEF Shape, Message, Msg

\* What Close leaves of each connection.
LEMMA Closed ==
    ASSUME conn \in [Conn -> Ends], NEW C \in SUBSET Conn, excused \subseteq Msg,
           NEW client \in ClientState \cup {"stay"}, NEW server \in ServerState \cup {"stay"},
           Close(C, client, server)
    PROVE  /\ conn' \in [Conn -> Ends]
           /\ excused' \subseteq Msg
           /\ \A c \in Conn :
                 /\ conn'[c].from = conn[c].from /\ conn'[c].to = conn[c].to
                 /\ c \notin C => conn'[c] = conn[c]
                 /\ client = "stay" => conn'[c].client = conn[c].client
                 /\ c \in C /\ client # "stay" => conn'[c].client = client
                 /\ server = "stay" => conn'[c].server = conn[c].server
                 /\ c \in C /\ server # "stay" => conn'[c].server = server
                 /\ conn'[c].stream = conn[c].stream \/ c \in C
<1>1. PICK kept \in SUBSET C :
          conn' = [c \in Conn |->
                     IF c \notin C THEN conn[c]
                     ELSE [conn[c] EXCEPT !.client = IF client = "stay" THEN @ ELSE client,
                                          !.server = IF server = "stay" THEN @ ELSE server,
                                          !.stream = IF c \in kept THEN @ ELSE <<>>]]
  BY DEF Close
<1>2. ASSUME NEW c \in Conn PROVE conn'[c] \in Ends
  <2>1. conn[c] \in Ends /\ <<>> \in Seq(Msg)
    OBVIOUS
  <2>2. CASE c \notin C
    BY <1>1, <2>1, <2>2
  <2>3. CASE c \in C
    <3> DEFINE cl == IF client = "stay" THEN conn[c].client ELSE client
               sr == IF server = "stay" THEN conn[c].server ELSE server
               st == IF c \in kept THEN conn[c].stream ELSE <<>>
    <3>1. conn'[c] = [conn[c] EXCEPT !.client = cl, !.server = sr, !.stream = st]
      BY <1>1, <2>3
    <3>2. cl \in ClientState /\ sr \in ServerState /\ st \in Seq(Msg)
      BY <2>1 DEF Ends
    <3> HIDE DEF cl, sr, st
    <3> QED
      BY <2>1, <3>1, <3>2 DEF Ends
  <2> QED
    BY <2>2, <2>3
<1>3. conn' \in [Conn -> Ends]
  BY <1>1, <1>2
<1>4. OnTheWay(C) \subseteq Msg
  BY DEF OnTheWay, Range, Ends
<1>5. excused' \subseteq Msg
  BY <1>4 DEF Close
<1> QED
  BY <1>1, <1>3, <1>5 DEF Ends


\* This end closes the connections C.
LEMMA ClientsClose ==
    ASSUME conn \in [Conn -> Ends], NEW C \in SUBSET Conn, excused \subseteq Msg,
           Close(C, "closed", "stay")
    PROVE  \A c \in Conn : /\ conn'[c].from = conn[c].from /\ conn'[c].to = conn[c].to
                           /\ conn'[c].server = conn[c].server
                           /\ c \notin C => conn'[c].client = conn[c].client
<1>1. "closed" \in ClientState \cup {"stay"} /\ "stay" \in ServerState \cup {"stay"}
  BY DEF ClientState
<1>2. \A c \in Conn : /\ conn'[c].from = conn[c].from /\ conn'[c].to = conn[c].to
                      /\ c \notin C => conn'[c] = conn[c]
                      /\ c \in C => conn'[c].server = conn[c].server
  BY <1>1, Closed
<1> QED
  BY <1>2

\* The other end of the connections C is shut down.
LEMMA ServersShut ==
    ASSUME conn \in [Conn -> Ends], NEW C \in SUBSET Conn, excused \subseteq Msg,
           Close(C, "stay", "shut")
    PROVE  \A c \in Conn : /\ conn'[c].from = conn[c].from /\ conn'[c].to = conn[c].to
                           /\ conn'[c].client = conn[c].client
                           /\ conn'[c].server = IF c \in C THEN "shut" ELSE conn[c].server
<1>1. "stay" \in ClientState \cup {"stay"} /\ "shut" \in ServerState \cup {"stay"}
  BY DEF ServerState
<1>2. \A c \in Conn : /\ conn'[c].from = conn[c].from /\ conn'[c].to = conn[c].to
                      /\ conn'[c].client = conn[c].client
                      /\ c \notin C => conn'[c] = conn[c]
                      /\ c \in C => conn'[c].server = "shut"
  BY <1>1, Closed
<1> QED
  BY <1>2

\* A frame written changes nothing but what is under way.
LEMMA Written ==
    ASSUME conn \in [Conn -> Ends], NEW c \in Conn, NEW m, conn' = Write(c, m)
    PROVE  \A d \in Conn :
               /\ conn'[d].from = conn[d].from /\ conn'[d].to = conn[d].to
               /\ conn'[d].client = conn[d].client /\ conn'[d].server = conn[d].server
               /\ conn'[d].stream = IF d = c /\ conn[c].server # "closed"
                                     THEN Append(conn[d].stream, m) ELSE conn[d].stream
<1>1. CASE conn[c].server = "closed"
  BY <1>1 DEF Write
<1>2. CASE conn[c].server # "closed"
  <2>1. conn' = [conn EXCEPT ![c].stream = Append(@, m)]
    BY <1>2 DEF Write
  <2> QED
    BY <1>2, <2>1 DEF Ends
<1> QED
  BY <1>1, <1>2

\* A thread that looks at its connection keeps it.
LEMMA OnlyLooks ==
    ASSUME Shape, NEW t \in Thread, CheckCached(t) \/ Handshake(t)
    PROVE  \A u \in Thread :
               /\ send'[u].conn = send[u].conn /\ send'[u].to = send[u].to
               /\ Holds(u)' => Holds(u)
               /\ send'[u].pc = "connect" => send'[u] = send[u]
<1>1. TAKE u \in Thread
<1>2. PICK pc \in {"write", "first"} :
          /\ send' = [send EXCEPT ![t].pc = pc]
          /\ pc = "first" => send[t].pc = "handshake"
  BY DEF CheckCached, Handshake, Goto
<1>0. send \in [Thread -> Sending]
  BY DEF Shape
<1>3. /\ send[t] \in Sending /\ (u # t => send'[u] = send[u])
      /\ (u = t => send'[u] = [send[t] EXCEPT !.pc = pc])
  BY <1>0, <1>2
<1>4. CASE u # t
  BY <1>3, <1>4 DEF Holds
<1>5. CASE u = t
  <2>1. send'[u].pc = pc /\ send'[u].conn = send[u].conn /\ send'[u].to = send[u].to
    BY <1>3, <1>5 DEF Sending
  <2> QED
    BY <1>2, <1>5, <2>1 DEF Holds
<1> QED
  BY <1>4, <1>5

LEMMA Restarted ==
    ASSUME Shape, NEW n \in Node, Restart(n)
    PROVE  \A c \in Conn : /\ conn'[c].from = conn[c].from /\ conn'[c].to = conn[c].to
                           /\ conn[c].from # n => conn'[c].client = conn[c].client
                           /\ conn'[c].server = IF conn[c].to = n THEN "closed" ELSE conn[c].server
<1> DEFINE mine == {c \in Conn : n \in {conn[c].from, conn[c].to}}
<1>1. PICK kept \in SUBSET {c \in mine : conn[c].to # n} :
           conn' = [c \in Conn |->
                      IF c \notin mine THEN conn[c]
                      ELSE [conn[c] EXCEPT !.client = IF conn[c].from = n THEN "closed" ELSE @,
                                           !.server = IF conn[c].to = n THEN "closed" ELSE @,
                                           !.stream = IF c \in kept THEN @ ELSE <<>>]]
  BY DEF Restart
<1>2. TAKE c \in Conn
<1>3. CASE c \notin mine
  BY <1>1, <1>3
<1>4. CASE c \in mine
  <2> DEFINE cl == IF conn[c].from = n THEN "closed" ELSE conn[c].client
             sr == IF conn[c].to = n THEN "closed" ELSE conn[c].server
             st == IF c \in kept THEN conn[c].stream ELSE <<>>
  <2>1. conn'[c] = [conn[c] EXCEPT !.client = cl, !.server = sr, !.stream = st]
    BY <1>1, <1>4
  <2>2. conn[c] \in Ends
    BY DEF Shape
  <2> HIDE DEF st
  <2> QED
    BY <2>1, <2>2 DEF Ends
<1> QED
  BY <1>3, <1>4

LEMMA ShapeInit == Init => Shape
<1> SUFFICES ASSUME Init PROVE Shape
  OBVIOUS
<1>1. Unused \in Ends /\ NoTimes \in Times
  BY BoundAssumption DEF Unused, Ends, ClientState, ServerState, NoTimes, Times
<1>2. send \in [Thread -> Sending]
  BY HomeAssumption, BoundAssumption DEF Init, Sending
<1> QED
  BY <1>1, <1>2, BoundAssumption DEF Init, Shape, Idle

LEMMA ShapeStep == Shape /\ [Next]_vars => Shape'
<1> SUFFICES ASSUME Shape, [Next]_vars PROVE Shape'
  OBVIOUS
<1>idle. ASSUME NEW t \in Thread PROVE Idle(t) \in Sending
  BY HomeAssumption, BoundAssumption DEF Idle, Sending, Shape
<1>fin. ASSUME NEW t \in Thread, Finish(t)
        PROVE  /\ send' \in [Thread -> Sending]
               /\ \A u \in Thread : send'[u].pc # "idle" => send'[u].count \in 1 .. MaxMsg
  BY <1>idle, <1>fin DEF Finish, Shape, Idle
<1>go. ASSUME NEW t \in Thread, NEW pc \in {"write", "dial", "first", "insert"}, Goto(t, pc), send[t].pc # "idle"
       PROVE  /\ send' \in [Thread -> Sending]
              /\ \A u \in Thread : send'[u].pc # "idle" => send'[u].count \in 1 .. MaxMsg
  BY <1>go DEF Goto, Shape, Sending
<1>write. ASSUME NEW t \in Thread, NEW c \in Conn, send[t].pc # "idle", WriteTo(t, c)
          PROVE  conn' \in [Conn -> Ends] /\ sent' \subseteq Msg /\ excused' \subseteq Msg
  <2>1. conn[c] \in Ends /\ Message(t) \in Msg
    BY <1>write, MsgFact DEF Shape
  <2>2. Append(conn[c].stream, Message(t)) \in Seq(Msg)
    BY <2>1 DEF Ends
  <2>3. sent' \subseteq Msg /\ excused' \subseteq Msg
    BY <1>write, <2>1 DEF WriteTo, Report, Shape
  <2> HIDE DEF Msg, Message
  <2>4. \/ conn' = conn
        \/ conn' = [conn EXCEPT ![c].stream = Append(@, Message(t))]
    BY <1>write DEF WriteTo, Write
  <2>5. [conn[c] EXCEPT !.stream = Append(@, Message(t))] \in Ends
    BY <2>1, <2>2 DEF Ends
  <2>6. conn \in [Conn -> Ends]
    BY DEF Shape
  <2>7. conn' \in [Conn -> Ends]
    BY <2>4, <2>5, <2>6
  <2> QED
    BY <2>3, <2>7
<1>look. ASSUME NEW t \in Thread, NEW c, Look(t, c) PROVE looked' \subseteq Thread
  BY <1>look DEF Look, Shape
<1>1. ASSUME NEW t \in Thread, NEW n \in Node, StartSend(t, n) PROVE Shape'
  <2>1. [send[t] EXCEPT !.pc = "cached", !.to = n, !.count = @ + 1] \in Sending
    BY <1>1, BoundAssumption DEF StartSend, Shape, Sending
  <2> QED
    BY <1>1, <2>1, BoundAssumption DEF StartSend, Shape, Sending, settingsVars, wireVars, historyVars
<1>2. ASSUME NEW t \in Thread, WriteCached(t) PROVE Shape'
  <2> DEFINE c == cache[Home[t]][send[t].to]
  <2>1. c \in Conn /\ WriteTo(t, c) /\ send[t].pc # "idle"
    BY <1>2, HomeAssumption DEF WriteCached, Shape, Sending
  <2> HIDE DEF c
  <2>2. conn' \in [Conn -> Ends] /\ sent' \subseteq Msg /\ excused' \subseteq Msg
    BY <2>1, <1>write
  <2> QED
    BY <1>2, <2>2, <1>fin DEF WriteCached, Shape, settingsVars, wireVars
<1>21. ASSUME NEW t \in Thread, CheckCached(t) \/ Handshake(t) PROVE Shape'
  <2>1. looked' \subseteq Thread
    BY <1>21, <1>look DEF CheckCached, Handshake
  <2>2. send[t].pc # "idle" /\ (Goto(t, "write") \/ Goto(t, "first"))
    BY <1>21 DEF CheckCached, Handshake
  <2>3. /\ send' \in [Thread -> Sending]
        /\ \A u \in Thread : send'[u].pc # "idle" => send'[u].count \in 1 .. MaxMsg
    BY <2>2, <1>go
  <2>4. UNCHANGED <<settingsVars, cache, registry, conn, wireVars, since, historyVars>>
    BY <1>21 DEF CheckCached, Handshake
  <2> QED
    BY <2>1, <2>3, <2>4 DEF Shape, settingsVars, wireVars, historyVars
<1>22. ASSUME NEW c \in Conn, Arrive(c) \/ Greet(c) PROVE Shape'
  BY <1>22 DEF Arrive, Greet, Shape, settingsVars, wireVars, historyVars
<1>3. ASSUME NEW t \in Thread, MissCached(t) PROVE Shape'
  <2> DEFINE c == cache[Home[t]][send[t].to]
  <2>0. Home[t] \in Node /\ send[t].to \in Node
    BY HomeAssumption DEF Shape, Sending
  <2>1. cache' \in [Node -> [Node -> Conn \cup {NoConn}]]
    BY <1>3, <2>0 DEF MissCached, Shape
  <2>2. conn' \in [Conn -> Ends]
    <3>1. UNCHANGED conn \/ conn' = [conn EXCEPT ![c].client = "closed"]
      BY <1>3 DEF MissCached
    <3>2. conn \in [Conn -> Ends]
      BY DEF Shape
    <3> HIDE DEF c
    <3>3. c \in Conn => [conn[c] EXCEPT !.client = "closed"] \in Ends
      BY <3>2 DEF Ends, ClientState
    <3> QED
      BY <3>1, <3>2, <3>3
  <2>3. Goto(t, "dial") /\ send[t].pc # "idle"
        /\ UNCHANGED <<settingsVars, registry, wireVars, since, looked, historyVars>>
    BY <1>3 DEF MissCached
  <2> QED
    BY <2>1, <2>2, <2>3, <1>go DEF Shape, settingsVars, wireVars, historyVars
<1>4. ASSUME NEW t \in Thread, DialAllowed(t) PROVE Shape'
  <2>1. gen[Home[t]] \in 0 .. MaxGen
    BY HomeAssumption DEF Shape
  <2>2. [send[t] EXCEPT !.pc = "connect", !.checked = gen[Home[t]]] \in Sending
    BY <2>1 DEF Shape, Sending
  <2>3. send' = [send EXCEPT ![t] = [send[t] EXCEPT !.pc = "connect", !.checked = gen[Home[t]]]]
    BY <1>4 DEF DialAllowed
  <2>4. /\ send' \in [Thread -> Sending]
        /\ \A u \in Thread : send'[u].pc # "idle" => send'[u].count \in 1 .. MaxMsg
    BY <1>4, <2>2, <2>3 DEF DialAllowed, Shape, Sending
  <2> QED
    BY <1>4, <2>4 DEF DialAllowed, Shape, settingsVars, wireVars, historyVars
<1>5. ASSUME NEW t \in Thread, DialDenied(t) PROVE Shape'
  BY <1>5, <1>fin DEF DialDenied, Shape, settingsVars, wireVars, historyVars
<1>6. ASSUME NEW t \in Thread, Connect(t) PROVE Shape'
  <2>1. PICK c \in Conn :
            /\ conn' = [conn EXCEPT ![c] = [from |-> Home[t], to |-> send[t].to, client |-> "open",
                                            server |-> "queued", stream |-> <<>>]]
            /\ since' = [since EXCEPT ![c].outChecked = send[t].checked]
            /\ send' = [send EXCEPT ![t].pc = "handshake", ![t].conn = c]
    BY <1>6 DEF Connect
  <2>2. conn' \in [Conn -> Ends]
    <3>1. Home[t] \in Node /\ send[t].to \in Node /\ <<>> \in Seq(Msg)
      BY HomeAssumption DEF Shape, Sending
    <3>2. [from |-> Home[t], to |-> send[t].to, client |-> "open", server |-> "queued",
           stream |-> <<>>] \in Ends
      BY <3>1 DEF Ends, ClientState, ServerState
    <3> QED
      BY <2>1, <3>2 DEF Shape
  <2>3. since' \in [Conn -> Times]
    BY <2>1 DEF Shape, Times, Sending
  <2>4. /\ send' \in [Thread -> Sending]
        /\ \A u \in Thread : send'[u].pc # "idle" => send'[u].count \in 1 .. MaxMsg
    <3>1. send[t] \in Sending /\ send[t].pc = "connect"
      BY <1>6 DEF Connect, Shape
    <3>2. [send[t] EXCEPT !.pc = "handshake", !.conn = c] \in Sending
      BY <3>1 DEF Sending
    <3>3. send' = [send EXCEPT ![t] = [send[t] EXCEPT !.pc = "handshake", !.conn = c]]
      BY <2>1 DEF Shape
    <3> QED
      BY <3>1, <3>2, <3>3 DEF Shape, Sending
  <2> QED
    BY <1>6, <2>2, <2>3, <2>4 DEF Connect, Shape, settingsVars, wireVars, historyVars
<1>7. ASSUME NEW t \in Thread, ConnectFails(t) PROVE Shape'
  BY <1>7, <1>fin DEF ConnectFails, Shape, settingsVars, wireVars, historyVars
<1>8. ASSUME NEW t \in Thread, WriteFresh(t) PROVE Shape'
  <2>1. conn' \in [Conn -> Ends] /\ sent' \subseteq Msg /\ excused' \subseteq Msg
    <3>0. WriteTo(t, send[t].conn) /\ send[t].pc # "idle"
      BY <1>8 DEF WriteFresh
    <3>1. CASE send[t].conn \in Conn
      BY <3>0, <3>1, <1>write
    <3>2. CASE send[t].conn \notin Conn
      <4>1. conn' = conn
        BY <3>0, <3>2 DEF WriteTo, Write, Shape
      <4>2. sent' \subseteq Msg /\ excused' \subseteq Msg
        BY <3>0, MsgFact DEF WriteTo, Report, Shape
      <4> QED
        BY <4>1, <4>2 DEF Shape
    <3> QED
      BY <3>1, <3>2
  <2> QED
    BY <1>8, <2>1, <1>go DEF WriteFresh, Shape, settingsVars, wireVars
<1>9. ASSUME NEW t \in Thread, DialFails(t) PROVE Shape'
  <2>1. conn' \in [Conn -> Ends]
    BY <1>9 DEF DialFails, Shape, Ends, ClientState
  <2> QED
    BY <1>9, <2>1, <1>fin DEF DialFails, Shape, settingsVars, wireVars, historyVars
<1>10. ASSUME NEW t \in Thread, InsertCache(t) PROVE Shape'
  <2> DEFINE n == Home[t]
             old == cache[n][send[t].to]
  <2>0. n \in Node /\ send[t].to \in Node /\ send[t].conn \in Conn \cup {NoConn} /\ gen[n] \in 0 .. MaxGen
    BY HomeAssumption DEF Shape, Sending
  <2>1. cache' \in [Node -> [Node -> Conn \cup {NoConn}]]
    BY <1>10, <2>0 DEF InsertCache, Shape
  <2>2. old \in Conn \cup {NoConn}
    BY <2>0 DEF Shape
  <2>3. conn' \in [Conn -> Ends] /\ excused' \subseteq Msg
    <3>1. {old} \ {NoConn} \in SUBSET Conn
      BY <2>2
    <3>2. Close({old} \ {NoConn}, "closed", "stay")
      BY <1>10 DEF InsertCache
    <3> HIDE DEF old
    <3> QED
      BY <3>1, <3>2, Closed DEF Shape, ClientState, ServerState
  <2>4. since' \in [Conn -> Times]
    BY <1>10, <2>0 DEF InsertCache, Shape, Times
  <2> QED
    BY <1>10, <2>1, <2>3, <2>4, <1>fin DEF InsertCache, Shape, settingsVars, wireVars
<1>11. ASSUME NEW c \in Conn, NEW n \in Node, conn[c].to = n, Admit(c) PROVE Shape'
  BY <1>11 DEF Admit, SetServer, Shape, Ends, ServerState, Times, settingsVars, wireVars, historyVars
<1>12. ASSUME NEW c \in Conn, NEW n \in Node, conn[c].to = n, Refuse(c) PROVE Shape'
  BY <1>12 DEF Refuse, SetServer, Shape, Ends, ServerState, settingsVars, wireVars, historyVars
<1>13. ASSUME NEW c \in Conn, NEW n \in Node, conn[c].to = n, Register(c) PROVE Shape'
  BY <1>13 DEF Register, SetServer, Shape, Ends, ServerState, Times, settingsVars, wireVars, historyVars
<1>14. ASSUME NEW c \in Conn, Read(c) PROVE Shape'
  <2>1. Head(conn[c].stream) \in Msg /\ Tail(conn[c].stream) \in Seq(Msg)
    BY <1>14 DEF Read, Shape, Ends
  <2>2. conn' \in [Conn -> Ends]
    BY <1>14, <2>1 DEF Read, Shape, Ends
  <2> QED
    BY <1>14, <2>1, <2>2 DEF Read, Shape, settingsVars, wireVars
<1>15. ASSUME NEW c \in Conn, ReadEnd(c) PROVE Shape'
  <2>1. conn' \in [Conn -> Ends]
    <3>1. <<>> \in Seq(Msg)
      OBVIOUS
    <3> QED
      BY <1>15, <3>1 DEF ReadEnd, Shape, Ends, ServerState
  <2>2. OnTheWay({c}) \subseteq Msg
    BY DEF OnTheWay, Range, Shape, Ends
  <2> QED
    BY <1>15, <2>1, <2>2 DEF ReadEnd, Shape, settingsVars, wireVars
<1>16. ASSUME NEW n \in Node, NEW S \in SUBSET Node, Publish(n, S) PROVE Shape'
  BY <1>16, BoundAssumption DEF Publish, Shape, wireVars, historyVars
<1>17. ASSUME NEW n \in Node, CutOutbound(n) PROVE Shape'
  <2> DEFINE C == {cache[n][m] : m \in Node \ scope[n]} \ {NoConn}
  <2>1. C \in SUBSET Conn
    BY DEF Shape
  <2>2. Close(C, "closed", "stay")
    BY <1>17 DEF CutOutbound
  <2> HIDE DEF C
  <2>3. conn' \in [Conn -> Ends] /\ excused' \subseteq Msg
    BY <2>1, <2>2, Closed DEF Shape, ClientState, ServerState
  <2> QED
    BY <1>17, <2>3 DEF CutOutbound, Shape, wireVars
<1>18. ASSUME NEW n \in Node, CutInbound(n) PROVE Shape'
  <2> DEFINE C == {c \in registry[n] : conn[c].from \notin scope[n]}
  <2>1. C \in SUBSET Conn
    BY DEF Shape
  <2>2. Close(C, "stay", "shut")
    BY <1>18 DEF CutInbound
  <2>4. registry' = [registry EXCEPT ![n] = registry[n] \ C]
    BY <1>18 DEF CutInbound
  <2> HIDE DEF C
  <2>3. conn' \in [Conn -> Ends] /\ excused' \subseteq Msg
    BY <2>1, <2>2, Closed DEF Shape, ClientState, ServerState
  <2> QED
    BY <1>18, <2>3, <2>4 DEF CutInbound, Shape, wireVars
<1>19. ASSUME NEW n \in Node, Restart(n) PROVE Shape'
  <2> DEFINE mine == {c \in Conn : n \in {conn[c].from, conn[c].to}}
  <2>1. PICK kept \in SUBSET {c \in mine : conn[c].to # n} :
             conn' = [c \in Conn |->
                        IF c \notin mine THEN conn[c]
                        ELSE [conn[c] EXCEPT !.client = IF conn[c].from = n THEN "closed" ELSE @,
                                             !.server = IF conn[c].to = n THEN "closed" ELSE @,
                                             !.stream = IF c \in kept THEN @ ELSE <<>>]]
    BY <1>19 DEF Restart
  <2>2. ASSUME NEW c \in Conn PROVE conn'[c] \in Ends
    <3>1. CASE c \notin mine
      BY <2>1, <3>1 DEF Shape
    <3>2. CASE c \in mine
      <4> DEFINE cl == IF conn[c].from = n THEN "closed" ELSE conn[c].client
                 sr == IF conn[c].to = n THEN "closed" ELSE conn[c].server
                 st == IF c \in kept THEN conn[c].stream ELSE <<>>
      <4>1. conn'[c] = [conn[c] EXCEPT !.client = cl, !.server = sr, !.stream = st]
        BY <2>1, <3>2
      <4>2. conn[c] \in Ends /\ <<>> \in Seq(Msg)
        BY DEF Shape
      <4>3. cl \in ClientState /\ sr \in ServerState /\ st \in Seq(Msg)
        BY <4>2 DEF Ends, ClientState, ServerState
      <4> HIDE DEF cl, sr, st
      <4> QED
        BY <4>1, <4>2, <4>3 DEF Ends
    <3> QED
      BY <3>1, <3>2
  <2>3. conn' \in [Conn -> Ends]
    BY <2>1, <2>2
  <2>4. excused' \subseteq Msg
    <3>1. OnTheWay(mine) \subseteq Msg
      BY DEF OnTheWay, Range, Shape, Ends
    <3> QED
      BY <1>19, <3>1 DEF Restart, Shape
  <2>5. cache' \in [Node -> [Node -> Conn \cup {NoConn}]] /\ registry' \in [Node -> SUBSET Conn]
    BY <1>19 DEF Restart, Shape
  <2>6. /\ send' \in [Thread -> Sending]
        /\ \A u \in Thread : send'[u].pc # "idle" => send'[u].count \in 1 .. MaxMsg
    <3>1. send' = [t \in Thread |-> IF Home[t] = n THEN Idle(t) ELSE send[t]]
      BY <1>19 DEF Restart
    <3>2. \A t \in Thread : Idle(t).pc = "idle"
      BY DEF Idle
    <3> QED
      BY <3>1, <3>2, <1>idle DEF Shape
  <2> QED
    BY <1>19, <2>3, <2>4, <2>5, <2>6 DEF Restart, Shape, wireVars
<1>20. ASSUME UNCHANGED vars PROVE Shape'
  BY <1>20 DEF vars, settingsVars, wireVars, historyVars, Shape
<1> QED
  BY <1>1, <1>2, <1>3, <1>4, <1>5, <1>6, <1>7, <1>8, <1>9, <1>10, <1>11, <1>12, <1>13, <1>14,
     <1>15, <1>16, <1>17, <1>18, <1>19, <1>20, <1>21, <1>22
     DEF Next, ThreadStep, ReaderStep, AcceptStep, SettingsStep

-----------------------------------------------------------------------------
\* Enough for a step to keep who owns the connections.
LEMMA OwnersKept ==
    ASSUME Shape, Shape', CachedIsOurs, HeldIsOurs, UNCHANGED cache,
           \A t \in Thread : Holds(t)' =>
               Holds(t) /\ send'[t].conn = send[t].conn /\ send'[t].to = send[t].to,
           \A c \in Conn : conn'[c].from = conn[c].from /\ conn'[c].to = conn[c].to
                          /\ conn'[c].client = conn[c].client
    PROVE  CachedIsOurs' /\ HeldIsOurs'
<1>1. ASSUME NEW n \in Node, NEW m \in Node PROVE cache[n][m] \in Conn \cup {NoConn}
  BY DEF Shape
<1>2. CachedIsOurs'
  BY <1>1 DEF CachedIsOurs
<1>3. HeldIsOurs'
  BY DEF HeldIsOurs
<1> QED
  BY <1>2, <1>3

\* Enough for a step to keep the table of inbound connections right.
LEMMA TableKept ==
    ASSUME RegisteredAreRead, UNCHANGED registry,
           \A c \in Conn, n \in Node :
               (conn'[c].to = n /\ conn'[c].server = "reading") <=>
               (conn[c].to = n /\ conn[c].server = "reading")
    PROVE  RegisteredAreRead'
  BY DEF RegisteredAreRead

LEMMA OwnersInit == Init => CachedIsOurs /\ HeldIsOurs /\ RegisteredAreRead
  BY DEF Init, CachedIsOurs, HeldIsOurs, RegisteredAreRead, Holds, Unused

LEMMA OwnersStep == TypeInv /\ Shape' /\ [Next]_vars => TypeInv'
<1> SUFFICES ASSUME TypeInv, Shape', [Next]_vars
             PROVE  CachedIsOurs' /\ HeldIsOurs' /\ RegisteredAreRead'
  BY DEF TypeInv
<1> USE DEF TypeInv
<1>node. ASSUME NEW t \in Thread PROVE Home[t] \in Node /\ send[t].to \in Node
  BY HomeAssumption DEF Shape, Sending
<1>cached. ASSUME NEW n \in Node, NEW m \in Node PROVE cache[n][m] \in Conn \cup {NoConn}
  BY DEF Shape
<1>1. ASSUME NEW t \in Thread, NEW n \in Node, StartSend(t, n)
      PROVE CachedIsOurs' /\ HeldIsOurs' /\ RegisteredAreRead'
  BY <1>1, OwnersKept, TableKept DEF StartSend, Holds, Shape
<1>2. ASSUME NEW t \in Thread, WriteCached(t)
      PROVE CachedIsOurs' /\ HeldIsOurs' /\ RegisteredAreRead'
  <2> DEFINE c == cache[Home[t]][send[t].to]
  <2>1. c \in Conn /\ conn' = Write(c, Message(t))
    BY <1>2, <1>node, <1>cached DEF WriteCached, WriteTo
  <2>2. \A d \in Conn : conn'[d].from = conn[d].from /\ conn'[d].to = conn[d].to
                      /\ conn'[d].client = conn[d].client /\ conn'[d].server = conn[d].server
    <3> HIDE DEF c
    <3> QED
      BY <2>1, Written DEF Shape
  <2>3. \A u \in Thread : Holds(u)' =>
            Holds(u) /\ send'[u].conn = send[u].conn /\ send'[u].to = send[u].to
    BY <1>2 DEF WriteCached, Finish, Idle, Holds, Shape
  <2> QED
    BY <1>2, <2>2, <2>3, OwnersKept, TableKept DEF WriteCached
<1>3. ASSUME NEW t \in Thread, MissCached(t)
      PROVE CachedIsOurs' /\ HeldIsOurs' /\ RegisteredAreRead'
  <2> DEFINE n == Home[t]
             c == cache[n][send[t].to]
  <2>1. \A u \in Thread : Holds(u)' =>
            Holds(u) /\ send'[u].conn = send[u].conn /\ send'[u].to = send[u].to
    BY <1>3 DEF MissCached, Goto, Holds, Shape
  <2>2. CASE c = NoConn
    <3>1. conn' = conn /\ registry' = registry
      BY <1>3, <2>2 DEF MissCached
    <3>2. cache' = cache
      <4>1. cache' = [cache EXCEPT ![n][send[t].to] = NoConn]
        BY <1>3 DEF MissCached
      <4>2. cache \in [Node -> [Node -> Conn \cup {NoConn}]] /\ n \in Node /\ send[t].to \in Node
        BY <1>node DEF Shape
      <4>3. cache[n] = [cache[n] EXCEPT ![send[t].to] = NoConn]
        BY <2>2, <4>2
      <4> QED
        BY <4>1, <4>2, <4>3
    <3> QED
      BY <2>1, <3>1, <3>2, OwnersKept, TableKept
  <2>3. CASE c # NoConn
    <3>1. c \in Conn /\ cache' = [cache EXCEPT ![n][send[t].to] = NoConn]
          /\ conn' = [conn EXCEPT ![c].client = "closed"] /\ UNCHANGED registry
      BY <1>3, <2>3, <1>node, <1>cached DEF MissCached
    <3>2. \A d \in Conn : /\ conn'[d].from = conn[d].from /\ conn'[d].to = conn[d].to
                          /\ conn'[d].server = conn[d].server
                          /\ d # c => conn'[d].client = conn[d].client
      BY <3>1 DEF Shape, Ends
    <3>3. conn[c].from = n /\ conn[c].to = send[t].to
      BY <2>3, <1>node DEF CachedIsOurs
    <3>4. CachedIsOurs'
      <4> SUFFICES ASSUME NEW k \in Node, NEW m \in Node, cache'[k][m] # NoConn
                   PROVE  LET d == conn'[cache'[k][m]] IN d.from = k /\ d.to = m /\ d.client = "open"
        BY DEF CachedIsOurs
      <4>1. cache'[k][m] = cache[k][m] /\ ~(k = n /\ m = send[t].to)
        BY <3>1, <1>node DEF Shape
      <4>2. cache[k][m] # c
        BY <4>1, <3>3 DEF CachedIsOurs
      <4> QED
        BY <3>2, <4>1, <4>2, <1>cached DEF CachedIsOurs
    <3>5. HeldIsOurs'
      <4>1. \A u \in Thread : Holds(u) => send[u].conn # c
        BY <1>node DEF HeldIsOurs
      <4>2. \A k, m \in Node : cache'[k][m] \in {cache[k][m], NoConn}
        BY <3>1, <1>node DEF Shape
      <4>3. \A u \in Thread : Holds(u) => send[u].conn # NoConn
        BY ConnFacts DEF HeldIsOurs
      <4> QED
        BY <2>1, <3>2, <4>1, <4>2, <4>3 DEF HeldIsOurs
    <3> QED
      BY <3>1, <3>2, <3>4, <3>5, TableKept
  <2> QED
    BY <2>2, <2>3
<1>4. ASSUME NEW t \in Thread, DialAllowed(t)
      PROVE CachedIsOurs' /\ HeldIsOurs' /\ RegisteredAreRead'
  BY <1>4, OwnersKept, TableKept DEF DialAllowed, Holds, Shape
<1>5. ASSUME NEW t \in Thread, DialDenied(t) \/ ConnectFails(t)
      PROVE CachedIsOurs' /\ HeldIsOurs' /\ RegisteredAreRead'
  BY <1>5, OwnersKept, TableKept DEF DialDenied, ConnectFails, Finish, Idle, Holds, Shape
<1>6. ASSUME NEW t \in Thread, Connect(t)
      PROVE CachedIsOurs' /\ HeldIsOurs' /\ RegisteredAreRead'
  <2>1. PICK c \in Conn :
            /\ conn[c] = Unused
            /\ conn' = [conn EXCEPT ![c] = [from |-> Home[t], to |-> send[t].to, client |-> "open",
                                            server |-> "queued", stream |-> <<>>]]
            /\ send' = [send EXCEPT ![t].pc = "handshake", ![t].conn = c]
    BY <1>6 DEF Connect, Fresh
  <2>2. /\ conn'[c].from = Home[t] /\ conn'[c].to = send[t].to /\ conn'[c].client = "open"
        /\ conn'[c].server = "queued"
        /\ \A d \in Conn \ {c} : conn'[d] = conn[d]
    BY <2>1 DEF Shape
  <2>3. /\ send'[t].conn = c /\ send'[t].to = send[t].to
        /\ \A u \in Thread \ {t} : send'[u] = send[u]
    BY <2>1 DEF Shape, Sending
  <2>4. \A n, m \in Node : cache[n][m] # c
    BY <2>1, ConnFacts DEF CachedIsOurs, Unused
  <2>5. \A u \in Thread : Holds(u) => send[u].conn # c
    BY <2>1 DEF HeldIsOurs, Unused
  <2>6. UNCHANGED <<cache, registry>>
    BY <1>6 DEF Connect
  <2>7. CachedIsOurs'
    BY <2>2, <2>4, <2>6, <1>cached DEF CachedIsOurs
  <2>8. HeldIsOurs'
    BY <2>2, <2>3, <2>4, <2>5, <2>6 DEF HeldIsOurs, Holds
  <2>9. RegisteredAreRead'
    BY <2>1, <2>2, <2>6, TableKept DEF Unused
  <2> QED
    BY <2>7, <2>8, <2>9
<1>7. ASSUME NEW t \in Thread, WriteFresh(t)
      PROVE CachedIsOurs' /\ HeldIsOurs' /\ RegisteredAreRead'
  <2> DEFINE c == send[t].conn
  <2>1. c \in Conn /\ conn' = Write(c, Message(t))
    BY <1>7 DEF WriteFresh, WriteTo, HeldIsOurs, Holds
  <2>2. \A d \in Conn : conn'[d].from = conn[d].from /\ conn'[d].to = conn[d].to
                      /\ conn'[d].client = conn[d].client /\ conn'[d].server = conn[d].server
    <3> HIDE DEF c
    <3> QED
      BY <2>1, Written DEF Shape
  <2>3. \A u \in Thread : Holds(u)' =>
            Holds(u) /\ send'[u].conn = send[u].conn /\ send'[u].to = send[u].to
    BY <1>7 DEF WriteFresh, Goto, Holds, Shape, Sending
  <2> QED
    BY <1>7, <2>2, <2>3, OwnersKept, TableKept DEF WriteFresh
<1>8. ASSUME NEW t \in Thread, DialFails(t)
      PROVE CachedIsOurs' /\ HeldIsOurs' /\ RegisteredAreRead'
  <2> DEFINE c == send[t].conn
  <2>1. /\ c \in Conn /\ conn' = [conn EXCEPT ![c].client = "closed"]
        /\ Holds(t) /\ UNCHANGED <<cache, registry>>
    BY <1>8 DEF DialFails, HeldIsOurs, Holds
  <2>2. \A d \in Conn : /\ conn'[d].from = conn[d].from /\ conn'[d].to = conn[d].to
                        /\ conn'[d].server = conn[d].server
                        /\ d # c => conn'[d].client = conn[d].client
    BY <2>1 DEF Shape, Ends
  <2>3. \A u \in Thread : Holds(u)' => u # t /\ Holds(u) /\ send'[u] = send[u]
    BY <1>8 DEF DialFails, Finish, Idle, Holds, Shape
  <2>4. CachedIsOurs'
    BY <2>1, <2>2, <1>cached DEF CachedIsOurs, HeldIsOurs
  <2>5. HeldIsOurs'
    BY <2>1, <2>2, <2>3 DEF HeldIsOurs
  <2> QED
    BY <2>1, <2>2, <2>4, <2>5, TableKept
<1>9. ASSUME NEW t \in Thread, InsertCache(t)
      PROVE CachedIsOurs' /\ HeldIsOurs' /\ RegisteredAreRead'
  <2> DEFINE n == Home[t]
             c == send[t].conn
             old == cache[n][send[t].to]
  <2>1. /\ Holds(t) /\ c \in Conn /\ UNCHANGED registry
        /\ cache' = [cache EXCEPT ![n][send[t].to] = c]
    BY <1>9 DEF InsertCache, HeldIsOurs, Holds
  <2>2. \A d \in Conn : /\ conn'[d].from = conn[d].from /\ conn'[d].to = conn[d].to
                        /\ conn'[d].server = conn[d].server
                        /\ d # old => conn'[d].client = conn[d].client
    <3>1. {old} \ {NoConn} \in SUBSET Conn
      BY <1>node, <1>cached
    <3>2. Close({old} \ {NoConn}, "closed", "stay")
      BY <1>9 DEF InsertCache
    <3> HIDE DEF old
    <3> QED
      BY <3>1, <3>2, ClientsClose DEF Shape
  <2>3. \A u \in Thread : Holds(u)' => u # t /\ Holds(u) /\ send'[u] = send[u]
    BY <1>9 DEF InsertCache, Finish, Idle, Holds, Shape
  <2>4. \A k, m \in Node : cache'[k][m] = IF k = n /\ m = send[t].to THEN c ELSE cache[k][m]
    BY <2>1, <1>node DEF Shape
  <2>5. c # old
    BY <2>1, <1>node DEF HeldIsOurs
  <2>6. \A k, m \in Node : cache[k][m] = old /\ old # NoConn => k = n /\ m = send[t].to
    BY <1>node DEF CachedIsOurs
  <2>7. CachedIsOurs'
    BY <2>1, <2>2, <2>4, <2>5, <2>6, <1>cached DEF CachedIsOurs, HeldIsOurs
  <2>8. HeldIsOurs'
    BY <2>1, <2>2, <2>3, <2>4, <1>node DEF HeldIsOurs
  <2> QED
    BY <2>1, <2>2, <2>7, <2>8, TableKept
<1>10. ASSUME NEW c \in Conn, NEW n \in Node, conn[c].to = n, Admit(c) \/ Refuse(c)
       PROVE CachedIsOurs' /\ HeldIsOurs' /\ RegisteredAreRead'
  <2>1. PICK state \in {"admitted", "closed"} : conn' = [conn EXCEPT ![c].server = state]
    BY <1>10 DEF Admit, Refuse, SetServer
  <2>2. \A d \in Conn : /\ conn'[d].from = conn[d].from /\ conn'[d].to = conn[d].to
                        /\ conn'[d].client = conn[d].client
                        /\ d # c => conn'[d].server = conn[d].server
    BY <2>1 DEF Shape, Ends
  <2>3. conn[c].server = "queued" /\ conn'[c].server # "reading"
    BY <1>10, <2>1 DEF Admit, Refuse, Shape, Ends
  <2>4. UNCHANGED <<cache, registry, send>>
    BY <1>10 DEF Admit, Refuse
  <2> QED
    BY <2>2, <2>3, <2>4, OwnersKept, TableKept DEF Holds
<1>11. ASSUME NEW c \in Conn, NEW n \in Node, conn[c].to = n, Register(c)
       PROVE CachedIsOurs' /\ HeldIsOurs' /\ RegisteredAreRead'
  <2>1. /\ conn' = [conn EXCEPT ![c].server = "reading"] /\ UNCHANGED <<cache, send>>
        /\ registry' = [registry EXCEPT ![n] = @ \cup {c}]
    BY <1>11 DEF Register, SetServer
  <2>2. \A d \in Conn : /\ conn'[d].from = conn[d].from /\ conn'[d].to = conn[d].to
                        /\ conn'[d].client = conn[d].client
                        /\ conn'[d].server = IF d = c THEN "reading" ELSE conn[d].server
    BY <2>1 DEF Shape, Ends
  <2>3. RegisteredAreRead'
    BY <1>11, <2>1, <2>2 DEF RegisteredAreRead, Shape
  <2> QED
    BY <2>1, <2>2, <2>3, OwnersKept DEF Holds
<1>12. ASSUME NEW c \in Conn, Read(c)
       PROVE CachedIsOurs' /\ HeldIsOurs' /\ RegisteredAreRead'
  <2>1. conn' = [conn EXCEPT ![c].stream = Tail(@)] /\ UNCHANGED <<cache, registry, send>>
    BY <1>12 DEF Read
  <2>2. \A d \in Conn : conn'[d].from = conn[d].from /\ conn'[d].to = conn[d].to
                      /\ conn'[d].client = conn[d].client /\ conn'[d].server = conn[d].server
    BY <2>1 DEF Shape, Ends
  <2> QED
    BY <2>1, <2>2, OwnersKept, TableKept DEF Holds
<1>13. ASSUME NEW c \in Conn, ReadEnd(c)
       PROVE CachedIsOurs' /\ HeldIsOurs' /\ RegisteredAreRead'
  <2>1. /\ conn' = [conn EXCEPT ![c].server = "closed", ![c].stream = <<>>]
        /\ registry' = [registry EXCEPT ![conn[c].to] = @ \ {c}] /\ UNCHANGED <<cache, send>>
    BY <1>13 DEF ReadEnd
  <2>2. \A d \in Conn : /\ conn'[d].from = conn[d].from /\ conn'[d].to = conn[d].to
                        /\ conn'[d].client = conn[d].client
                        /\ conn'[d].server = IF d = c THEN "closed" ELSE conn[d].server
    BY <2>1 DEF Shape, Ends
  <2>3. RegisteredAreRead'
    BY <2>1, <2>2 DEF RegisteredAreRead, Shape
  <2> QED
    BY <2>1, <2>2, <2>3, OwnersKept DEF Holds
<1>14. ASSUME NEW n \in Node, NEW S \in SUBSET Node, Publish(n, S)
       PROVE CachedIsOurs' /\ HeldIsOurs' /\ RegisteredAreRead'
  BY <1>14, OwnersKept, TableKept DEF Publish, Holds
<1>15. ASSUME NEW n \in Node, CutOutbound(n)
       PROVE CachedIsOurs' /\ HeldIsOurs' /\ RegisteredAreRead'
  <2> DEFINE C == {cache[n][m] : m \in Node \ scope[n]} \ {NoConn}
  <2>1. \A k, m \in Node : cache'[k][m] = IF k = n /\ m \notin scope[n] THEN NoConn ELSE cache[k][m]
    BY <1>15 DEF CutOutbound, Shape
  <2>2. UNCHANGED <<registry, send>>
    BY <1>15 DEF CutOutbound
  <2>3. \A k, m \in Node : cache[k][m] \in C => k = n /\ m \notin scope[n]
    BY DEF CachedIsOurs
  <2>4. \A t \in Thread : Holds(t) => send[t].conn \notin C
    BY DEF HeldIsOurs
  <2>5. \A d \in Conn : /\ conn'[d].from = conn[d].from /\ conn'[d].to = conn[d].to
                        /\ conn'[d].server = conn[d].server
                        /\ d \notin C => conn'[d].client = conn[d].client
    <3>1. C \in SUBSET Conn
      BY <1>cached
    <3>2. Close(C, "closed", "stay")
      BY <1>15 DEF CutOutbound
    <3> HIDE DEF C
    <3> QED
      BY <3>1, <3>2, ClientsClose DEF Shape
  <2> HIDE DEF C
  <2>6. CachedIsOurs'
    BY <2>1, <2>3, <2>5, <1>cached DEF CachedIsOurs
  <2>7. \A t \in Thread : Holds(t) => send[t].conn # NoConn
    BY ConnFacts DEF HeldIsOurs
  <2>8. HeldIsOurs'
    BY <2>1, <2>2, <2>4, <2>5, <2>7 DEF HeldIsOurs, Holds
  <2> QED
    BY <2>2, <2>5, <2>6, <2>8, TableKept
<1>16. ASSUME NEW n \in Node, CutInbound(n)
       PROVE CachedIsOurs' /\ HeldIsOurs' /\ RegisteredAreRead'
  <2> DEFINE C == {c \in registry[n] : conn[c].from \notin scope[n]}
  <2>1. registry' = [registry EXCEPT ![n] = registry[n] \ C] /\ UNCHANGED <<cache, send>>
    BY <1>16 DEF CutInbound
  <2>2. C \in SUBSET Conn /\ \A c \in C : conn[c].to = n
    BY DEF Shape, RegisteredAreRead
  <2>3. Close(C, "stay", "shut")
    BY <1>16 DEF CutInbound
  <2> HIDE DEF C
  <2>4. \A d \in Conn : /\ conn'[d].from = conn[d].from /\ conn'[d].to = conn[d].to
                        /\ conn'[d].client = conn[d].client
                        /\ conn'[d].server = IF d \in C THEN "shut" ELSE conn[d].server
    BY <2>2, <2>3, ServersShut DEF Shape
  <2>5. RegisteredAreRead'
    BY <2>1, <2>2, <2>4 DEF RegisteredAreRead, Shape
  <2> QED
    BY <2>1, <2>4, <2>5, OwnersKept DEF Holds
<1>17. ASSUME NEW n \in Node, Restart(n)
       PROVE CachedIsOurs' /\ HeldIsOurs' /\ RegisteredAreRead'
  <2>1. \A d \in Conn : /\ conn'[d].from = conn[d].from /\ conn'[d].to = conn[d].to
                        /\ conn[d].from # n => conn'[d].client = conn[d].client
                        /\ conn'[d].server = IF conn[d].to = n THEN "closed" ELSE conn[d].server
    BY <1>17, Restarted
  <2>2. \A k, m \in Node : cache'[k][m] = IF k = n THEN NoConn ELSE cache[k][m]
    BY <1>17 DEF Restart, Shape
  <2>3. \A t \in Thread : Holds(t)' => Home[t] # n /\ Holds(t) /\ send'[t] = send[t]
    BY <1>17 DEF Restart, Idle, Holds
  <2>4. CachedIsOurs'
    BY <2>1, <2>2, <1>cached DEF CachedIsOurs
  <2>5. \A t \in Thread : Holds(t) => send[t].conn # NoConn
    BY ConnFacts DEF HeldIsOurs
  <2>6. HeldIsOurs'
    BY <2>1, <2>2, <2>3, <2>5 DEF HeldIsOurs
  <2>7. registry' = [registry EXCEPT ![n] = {}]
    BY <1>17 DEF Restart
  <2>8. RegisteredAreRead'
    BY <2>1, <2>7 DEF RegisteredAreRead, Shape
  <2> QED
    BY <2>4, <2>6, <2>8
<1>19. ASSUME NEW t \in Thread, CheckCached(t) \/ Handshake(t)
       PROVE CachedIsOurs' /\ HeldIsOurs' /\ RegisteredAreRead'
  <2>1. \A u \in Thread : Holds(u)' =>
            Holds(u) /\ send'[u].conn = send[u].conn /\ send'[u].to = send[u].to
    BY <1>19, OnlyLooks
  <2>2. UNCHANGED <<cache, registry, conn>>
    BY <1>19 DEF CheckCached, Handshake
  <2> QED
    BY <2>1, <2>2, OwnersKept, TableKept
<1>20. ASSUME NEW c \in Conn, Arrive(c) \/ Greet(c)
       PROVE CachedIsOurs' /\ HeldIsOurs' /\ RegisteredAreRead'
  BY <1>20, OwnersKept, TableKept DEF Arrive, Greet, Holds
<1>18. ASSUME UNCHANGED vars
       PROVE CachedIsOurs' /\ HeldIsOurs' /\ RegisteredAreRead'
  BY <1>18 DEF vars, settingsVars, historyVars, CachedIsOurs, HeldIsOurs, RegisteredAreRead, Holds
<1> QED
  BY <1>1, <1>2, <1>3, <1>4, <1>5, <1>6, <1>7, <1>8, <1>9, <1>10, <1>11, <1>12, <1>13, <1>14,
     <1>15, <1>16, <1>17, <1>18, <1>19, <1>20
     DEF Next, ThreadStep, ReaderStep, AcceptStep, SettingsStep

-----------------------------------------------------------------------------
\* Enough for a step to keep what has been heard: a close is never undone.
LEMMA NewsKept ==
    ASSUME NewsIsTrue, Shape, UNCHANGED news, \A c \in Conn : Dead(c) => Dead(c)'
    PROVE  NewsIsTrue'
  BY DEF NewsIsTrue, Shape

LEMMA NewsStep == TypeInv /\ NewsIsTrue /\ [Next]_vars => NewsIsTrue'
<1> SUFFICES ASSUME TypeInv, NewsIsTrue, [Next]_vars PROVE NewsIsTrue'
  OBVIOUS
<1>same. ASSUME UNCHANGED news, \A c \in Conn : conn'[c].server = conn[c].server PROVE NewsIsTrue'
  BY <1>same, NewsKept DEF TypeInv, Dead
<1>1. ASSUME NEW t \in Thread, WriteCached(t) PROVE NewsIsTrue'
  <2> DEFINE c == cache[Home[t]][send[t].to]
  <2>1. c \in Conn /\ conn' = Write(c, Message(t)) /\ UNCHANGED news
    BY <1>1, HomeAssumption DEF WriteCached, WriteTo, wireVars, TypeInv, Shape, Sending
  <2> HIDE DEF c
  <2> QED
    BY <2>1, Written, <1>same DEF TypeInv, Shape
<1>2. ASSUME NEW t \in Thread, WriteFresh(t) PROVE NewsIsTrue'
  <2> DEFINE c == send[t].conn
  <2>1. c \in Conn /\ conn' = Write(c, Message(t)) /\ UNCHANGED news
    BY <1>2 DEF WriteFresh, WriteTo, wireVars, TypeInv, HeldIsOurs, Holds
  <2> HIDE DEF c
  <2> QED
    BY <2>1, Written, <1>same DEF TypeInv, Shape
<1>3. ASSUME NEW t \in Thread, MissCached(t) \/ DialFails(t) PROVE NewsIsTrue'
  <2>1. \/ UNCHANGED conn
        \/ \E c : conn' = [conn EXCEPT ![c].client = "closed"]
    BY <1>3 DEF MissCached, DialFails
  <2>2. ASSUME NEW d \in Conn PROVE conn'[d].server = conn[d].server
    <3>1. conn \in [Conn -> Ends] /\ conn[d] \in Ends
      BY DEF TypeInv, Shape
    <3>2. CASE UNCHANGED conn
      BY <3>2
    <3>3. CASE \E c : conn' = [conn EXCEPT ![c].client = "closed"]
      <4>1. PICK c : conn' = [conn EXCEPT ![c].client = "closed"]
        BY <3>3
      <4>2. conn'[d] = IF d = c THEN [conn[d] EXCEPT !.client = "closed"] ELSE conn[d]
        BY <3>1, <4>1
      <4> QED
        BY <3>1, <4>2 DEF Ends
    <3> QED
      BY <2>1, <3>2, <3>3
  <2> QED
    BY <1>3, <2>2, <1>same DEF MissCached, DialFails, wireVars
<1>4. ASSUME NEW t \in Thread, Connect(t) PROVE NewsIsTrue'
  <2>1. PICK c \in Conn :
            /\ conn[c] = Unused
            /\ conn' = [conn EXCEPT ![c] = [from |-> Home[t], to |-> send[t].to, client |-> "open",
                                            server |-> "queued", stream |-> <<>>]]
    BY <1>4 DEF Connect, Fresh
  <2>2. ~Dead(c) /\ \A d \in Conn \ {c} : conn'[d] = conn[d]
    BY <2>1 DEF Dead, Unused, TypeInv, Shape
  <2> QED
    BY <1>4, <2>2, NewsKept DEF Connect, wireVars, Dead, TypeInv
<1>5. ASSUME NEW t \in Thread, InsertCache(t) PROVE NewsIsTrue'
  <2> DEFINE C == {cache[Home[t]][send[t].to]} \ {NoConn}
  <2>1. C \in SUBSET Conn /\ Close(C, "closed", "stay") /\ UNCHANGED news
    BY <1>5, HomeAssumption DEF InsertCache, wireVars, TypeInv, Shape, Sending
  <2> HIDE DEF C
  <2> QED
    BY <2>1, ClientsClose, <1>same DEF TypeInv, Shape
<1>6. ASSUME NEW c \in Conn, Arrive(c) PROVE NewsIsTrue'
  BY <1>6 DEF Arrive, NewsIsTrue, Dead
<1>7. ASSUME NEW c \in Conn, Admit(c) \/ Refuse(c) \/ Register(c) PROVE NewsIsTrue'
  <2>1. PICK state \in ServerState : conn' = [conn EXCEPT ![c].server = state]
    BY <1>7 DEF Admit, Refuse, Register, SetServer, ServerState
  <2>2. ~Dead(c) /\ \A d \in Conn \ {c} : conn'[d] = conn[d]
    BY <1>7, <2>1 DEF Admit, Refuse, Register, Dead, TypeInv, Shape
  <2> QED
    BY <1>7, <2>2, NewsKept DEF Admit, Refuse, Register, wireVars, Dead, TypeInv
<1>8. ASSUME NEW c \in Conn, Read(c) PROVE NewsIsTrue'
  <2>1. \A d \in Conn : conn'[d].server = conn[d].server
    BY <1>8 DEF Read, TypeInv, Shape, Ends
  <2> QED
    BY <1>8, <2>1, <1>same DEF Read, wireVars
<1>9. ASSUME NEW c \in Conn, ReadEnd(c) PROVE NewsIsTrue'
  <2>1. \A d \in Conn : conn'[d].server = IF d = c THEN "closed" ELSE conn[d].server
    BY <1>9 DEF ReadEnd, TypeInv, Shape, Ends
  <2> QED
    BY <1>9, <2>1, NewsKept DEF ReadEnd, wireVars, Dead, TypeInv
<1>10. ASSUME NEW n \in Node, CutOutbound(n) PROVE NewsIsTrue'
  <2> DEFINE C == {cache[n][m] : m \in Node \ scope[n]} \ {NoConn}
  <2>1. C \in SUBSET Conn /\ Close(C, "closed", "stay") /\ UNCHANGED news
    BY <1>10 DEF CutOutbound, wireVars, TypeInv, Shape
  <2> HIDE DEF C
  <2> QED
    BY <2>1, ClientsClose, <1>same DEF TypeInv, Shape
<1>11. ASSUME NEW n \in Node, CutInbound(n) PROVE NewsIsTrue'
  <2> DEFINE C == {c \in registry[n] : conn[c].from \notin scope[n]}
  <2>1. C \in SUBSET Conn /\ Close(C, "stay", "shut") /\ UNCHANGED news
    BY <1>11 DEF CutInbound, wireVars, TypeInv, Shape
  <2> HIDE DEF C
  <2>2. \A d \in Conn : conn'[d].server = IF d \in C THEN "shut" ELSE conn[d].server
    BY <2>1, ServersShut DEF TypeInv, Shape
  <2> QED
    BY <2>1, <2>2, NewsKept DEF Dead, TypeInv
<1>12. ASSUME NEW n \in Node, Restart(n) PROVE NewsIsTrue'
  <2>1. \A d \in Conn : conn'[d].server = IF conn[d].to = n THEN "closed" ELSE conn[d].server
    BY <1>12, Restarted DEF TypeInv
  <2> QED
    BY <1>12, <2>1, NewsKept DEF Restart, wireVars, Dead, TypeInv
<1>13. ASSUME UNCHANGED <<conn, news>> PROVE NewsIsTrue'
  BY <1>13, <1>same
<1>14. ASSUME NEW t \in Thread, NEW n \in Node, StartSend(t, n) PROVE NewsIsTrue'
  BY <1>13, <1>14 DEF StartSend, wireVars
<1>15. ASSUME NEW t \in Thread,
              CheckCached(t) \/ Handshake(t) \/ DialAllowed(t) \/ DialDenied(t) \/ ConnectFails(t)
       PROVE  NewsIsTrue'
  BY <1>13, <1>15 DEF CheckCached, Handshake, DialAllowed, DialDenied, ConnectFails, wireVars
<1>16. ASSUME NEW c \in Conn, Greet(c) PROVE NewsIsTrue'
  BY <1>13, <1>16 DEF Greet
<1>17. ASSUME NEW n \in Node, NEW S \in SUBSET Node, Publish(n, S) PROVE NewsIsTrue'
  BY <1>13, <1>17 DEF Publish, wireVars
<1>18. ASSUME UNCHANGED vars PROVE NewsIsTrue'
  BY <1>13, <1>18 DEF vars, wireVars
<1> QED
  BY <1>1, <1>2, <1>3, <1>4, <1>5, <1>6, <1>7, <1>8, <1>9, <1>10, <1>11, <1>12, <1>14, <1>15,
     <1>16, <1>17, <1>18
     DEF Next, ThreadStep, ReaderStep, AcceptStep, SettingsStep

\* The tables are typed, and a connection in a table is one of this device in the
\* direction the table is for (OutboundCache, inbound_socks).
THEOREM TypeCorrect == Spec => []TypeOK
<1>1. Init => TypeInv /\ NewsIsTrue
  BY ShapeInit, OwnersInit DEF TypeInv, Init, NewsIsTrue
<1>2. TypeInv /\ NewsIsTrue /\ [Next]_vars => TypeInv' /\ NewsIsTrue'
  BY ShapeStep, OwnersStep, NewsStep DEF TypeInv
<1>3. TypeInv /\ NewsIsTrue => TypeOK
  BY DEF TypeInv, Shape, CachedIsOurs, RegisteredAreRead, NewsIsTrue, TypeOK, Ends
<1> QED
  BY <1>1, <1>2, <1>3, PTL DEF Spec

-----------------------------------------------------------------------------
\* Enough for a step to keep what is known of the way out: a thread starts to connect
\* only after a check, the cache only loses connections, and what is out of range is
\* gone from it when enforce_scope leaves it.
LEMMA OutKept ==
    ASSUME CheckedOut, LateInCache, UNCHANGED <<scope, gen>>,
           \A n, m \in Node : cache'[n][m] = cache[n][m] \/ cache'[n][m] = NoConn,
           \A n \in Node : cutting'[n] # "outbound" =>
               \/ cutting[n] # "outbound"
               \/ \A m \in Node \ scope[n] : cache'[n][m] = NoConn,
           \A t \in Thread : send'[t].pc = "connect" =>
               \/ send[t].pc = "connect" /\ send'[t].checked = send[t].checked
                                        /\ send'[t].to = send[t].to
               \/ send'[t].checked = gen[Home[t]] /\ send'[t].to \in scope[Home[t]],
           \A t \in Thread : Holds(t)' =>
               Holds(t) /\ send'[t].conn = send[t].conn /\ send'[t].to = send[t].to,
           \A n, m \in Node : cache[n][m] # NoConn => cache[n][m] \in Conn,
           \A t \in Thread : Holds(t) => send[t].conn \in Conn,
           \A t \in Thread : gen[Home[t]] \in Nat,
           \A c \in Conn : since'[c].outChecked = since[c].outChecked
                          /\ since'[c].outSince = since[c].outSince
    PROVE  CheckedOut' /\ LateInCache'
<1>1. CheckedOut'
  BY DEF CheckedOut
<1>2. LateInCache'
  BY DEF LateInCache
<1> QED
  BY <1>1, <1>2

\* Enough for a step to keep what is known of the way in.
LEMMA InKept ==
    ASSUME Shape, CheckedIn, LateInTable, UNCHANGED <<scope, gen>>,
           \A n \in Node, c \in Conn : conn'[c].to = n /\ conn'[c].server = "admitted" =>
               /\ conn'[c].from = conn[c].from /\ conn'[c].to = conn[c].to
               /\ \/ conn[c].server = "admitted" /\ since'[c].inChecked = since[c].inChecked
                  \/ since'[c].inChecked = gen[n] /\ conn[c].from \in scope[n],
           \A n \in Node : cutting'[n] = "idle" =>
               \A c \in registry'[n] : c \in Conn /\ conn'[c].from \notin scope[n] =>
                   /\ conn'[c].from = conn[c].from
                   /\ since'[c].inChecked = since[c].inChecked
                   /\ \/ /\ cutting[n] = "idle" /\ c \in registry[n]
                         /\ since'[c].inSince = since[c].inSince
                      \/ /\ conn[c].to = n /\ conn[c].server = "admitted"
                         /\ since'[c].inSince = gen[n],
           \A n \in Node : registry'[n] \subseteq Conn
    PROVE  CheckedIn' /\ LateInTable'
<1>1. \A n \in Node, c \in Conn : gen[n] \in Nat /\ since[c].inChecked \in Nat
  BY BoundAssumption DEF Shape, Times
<1>2. CheckedIn'
  BY <1>1 DEF CheckedIn
<1>3. LateInTable'
  BY <1>1 DEF LateInTable, CheckedIn
<1> QED
  BY <1>2, <1>3

LEMMA ChecksInit == Init => ChecksInv
<1> SUFFICES ASSUME Init PROVE ChecksInv
  OBVIOUS
<1>1. CheckedOut /\ LateInCache
  BY DEF Init, CheckedOut, LateInCache, Holds
<1>2. CheckedIn /\ LateInTable
  BY DEF Init, CheckedIn, LateInTable, Unused
<1> QED
  BY <1>1, <1>2 DEF ChecksInv

LEMMA ChecksStep == TypeInv /\ Shape' /\ ChecksInv /\ [Next]_vars => ChecksInv'
<1> SUFFICES ASSUME TypeInv, Shape', ChecksInv, [Next]_vars PROVE ChecksInv'
  OBVIOUS
<1> DEFINE Out == CheckedOut' /\ LateInCache'
           In  == CheckedIn' /\ LateInTable'
<1>node. ASSUME NEW t \in Thread
         PROVE  Home[t] \in Node /\ send[t].to \in Node /\ gen[Home[t]] \in Nat
  BY HomeAssumption, BoundAssumption DEF TypeInv, Shape, Sending
<1>cached. \A n, m \in Node : cache[n][m] # NoConn => cache[n][m] \in Conn
  BY DEF TypeInv, Shape
<1>held. \A t \in Thread : Holds(t) => send[t].conn \in Conn
  BY DEF TypeInv, HeldIsOurs
<1>table. \A n \in Node : registry[n] \subseteq Conn /\ registry'[n] \subseteq Conn
  BY DEF TypeInv, Shape
\* Steps of the sender leave the way in alone, and most others the way out.
<1>in. ASSUME UNCHANGED <<scope, gen, cutting, registry>>,
              \A c \in Conn : /\ since'[c].inChecked = since[c].inChecked
                              /\ since'[c].inSince = since[c].inSince
                              /\ conn'[c].server \in {"admitted", "reading"} =>
                                    conn'[c].server = conn[c].server /\ conn'[c].from = conn[c].from
                                    /\ conn'[c].to = conn[c].to
       PROVE  RegisteredAreRead' => In
  <2>1. ASSUME RegisteredAreRead', NEW n \in Node, NEW c \in registry'[n]
        PROVE  c \in Conn /\ conn'[c].from = conn[c].from
    BY <1>in, <2>1, <1>table DEF RegisteredAreRead
  <2>2. Shape /\ CheckedIn /\ LateInTable
    BY DEF TypeInv, ChecksInv
  <2> QED
    BY <1>in, <2>1, <2>2, <1>table, InKept
<1>out. ASSUME UNCHANGED <<scope, gen, cache, send>>,
               \A n \in Node : cutting'[n] # "outbound" => cutting[n] # "outbound",
               \A c \in Conn : since'[c].outChecked = since[c].outChecked
                              /\ since'[c].outSince = since[c].outSince
        PROVE  Out
  BY <1>out, <1>node, <1>cached, <1>held, OutKept DEF ChecksInv, Holds
<1>type. TypeInv'
  BY OwnersStep
<1>reg. RegisteredAreRead'
  BY <1>type DEF TypeInv
<1>1. ASSUME NEW t \in Thread, NEW n \in Node, StartSend(t, n) PROVE ChecksInv'
  <2>1. \A u \in Thread : (send'[u].pc = "connect" \/ Holds(u)') => send'[u] = send[u]
    BY <1>1 DEF StartSend, Holds, TypeInv, Shape, Sending
  <2>2. Out
    BY <1>1, <2>1, <1>node, <1>cached, <1>held, OutKept
       DEF StartSend, settingsVars, ChecksInv, Holds
  <2>3. In
    BY <1>1, <1>in, <1>reg DEF StartSend, settingsVars
  <2> QED
    BY <2>2, <2>3 DEF ChecksInv
<1>2. ASSUME NEW t \in Thread, WriteCached(t) \/ DialDenied(t) \/ ConnectFails(t) \/ DialFails(t)
      PROVE ChecksInv'
  <2>1. \A u \in Thread : (send'[u].pc = "connect" \/ Holds(u)') => send'[u] = send[u]
    BY <1>2 DEF WriteCached, DialDenied, ConnectFails, DialFails, Finish, Idle, Holds,
                TypeInv, Shape
  <2>2. UNCHANGED <<settingsVars, cache, registry, since>>
    BY <1>2 DEF WriteCached, DialDenied, ConnectFails, DialFails
  <2>3. Out
    BY <2>1, <2>2, <1>node, <1>cached, <1>held, OutKept DEF settingsVars, ChecksInv, Holds
  <2>4. \A c \in Conn : conn'[c].server = conn[c].server /\ conn'[c].from = conn[c].from
                        /\ conn'[c].to = conn[c].to
    <3>1. CASE WriteCached(t)
      <4> DEFINE c == cache[Home[t]][send[t].to]
      <4>1. c \in Conn /\ conn' = Write(c, Message(t))
        BY <3>1, <1>node, <1>cached DEF WriteCached, WriteTo
      <4> HIDE DEF c
      <4> QED
        BY <4>1, Written DEF TypeInv, Shape
    <3>2. CASE DialFails(t)
      BY <3>2 DEF DialFails, TypeInv, Shape, Ends
    <3>3. CASE DialDenied(t) \/ ConnectFails(t)
      BY <3>3 DEF DialDenied, ConnectFails
    <3> QED
      BY <1>2, <3>1, <3>2, <3>3
  <2>5. In
    BY <2>2, <2>4, <1>in, <1>reg DEF settingsVars
  <2> QED
    BY <2>3, <2>5 DEF ChecksInv
<1>3. ASSUME NEW t \in Thread, MissCached(t) PROVE ChecksInv'
  <2>1. \A u \in Thread : (send'[u].pc = "connect" \/ Holds(u)') => send'[u] = send[u]
    BY <1>3 DEF MissCached, Goto, Holds, TypeInv, Shape, Sending
  <2>2. UNCHANGED <<settingsVars, registry, since>>
    BY <1>3 DEF MissCached
  <2>3. \A n, m \in Node : cache'[n][m] = cache[n][m] \/ cache'[n][m] = NoConn
    BY <1>3, <1>node DEF MissCached, TypeInv, Shape
  <2>4. \A c \in Conn : conn'[c].server = conn[c].server /\ conn'[c].from = conn[c].from
                        /\ conn'[c].to = conn[c].to
    <3> DEFINE d == cache[Home[t]][send[t].to]
    <3>1. UNCHANGED conn \/ conn' = [conn EXCEPT ![d].client = "closed"]
      BY <1>3 DEF MissCached
    <3>2. CASE conn' = [conn EXCEPT ![d].client = "closed"]
      <4> HIDE DEF d
      <4> QED
        BY <3>2 DEF TypeInv, Shape, Ends
    <3> QED
      BY <3>1, <3>2
  <2>5. Out
    BY <2>1, <2>2, <2>3, <1>node, <1>cached, <1>held, OutKept DEF settingsVars, ChecksInv, Holds
  <2>6. In
    BY <2>2, <2>4, <1>in, <1>reg DEF settingsVars
  <2> QED
    BY <2>5, <2>6 DEF ChecksInv
<1>4. ASSUME NEW t \in Thread, DialAllowed(t) PROVE ChecksInv'
  <2>1. \A u \in Thread : send'[u].pc = "connect" =>
            \/ send'[u] = send[u]
            \/ send'[u].checked = gen[Home[u]] /\ send'[u].to \in scope[Home[u]]
    BY <1>4 DEF DialAllowed, TypeInv, Shape, Sending
  <2>2. \A u \in Thread : Holds(u)' => Holds(u) /\ send'[u] = send[u]
    BY <1>4 DEF DialAllowed, Holds, TypeInv, Shape, Sending
  <2>3. Out
    BY <1>4, <2>1, <2>2, <1>node, <1>cached, <1>held, OutKept
       DEF DialAllowed, settingsVars, ChecksInv
  <2>4. In
    BY <1>4, <1>in, <1>reg DEF DialAllowed, settingsVars
  <2> QED
    BY <2>3, <2>4 DEF ChecksInv
<1>5. ASSUME NEW t \in Thread, Connect(t) PROVE ChecksInv'
  <2>1. PICK c \in Conn :
            /\ conn[c] = Unused
            /\ conn' = [conn EXCEPT ![c] = [from |-> Home[t], to |-> send[t].to, client |-> "open",
                                            server |-> "queued", stream |-> <<>>]]
            /\ since' = [since EXCEPT ![c].outChecked = send[t].checked]
            /\ send' = [send EXCEPT ![t].pc = "handshake", ![t].conn = c]
    BY <1>5 DEF Connect, Fresh
  <2>2. UNCHANGED <<settingsVars, cache, registry>> /\ send[t].pc = "connect"
    BY <1>5 DEF Connect
  <2>3. /\ \A n, m \in Node : cache[n][m] # c
        /\ \A u \in Thread : Holds(u) => send[u].conn # c
    BY <2>1, ConnFacts DEF TypeInv, CachedIsOurs, HeldIsOurs, Unused
  <2>4. /\ since'[c].outChecked = send[t].checked
        /\ \A d \in Conn \ {c} : since'[d] = since[d]
        /\ \A d \in Conn : since'[d].inChecked = since[d].inChecked /\ since'[d].inSince = since[d].inSince
    BY <2>1 DEF TypeInv, Shape, Times
  <2>5. /\ send'[t].conn = c /\ send'[t].to = send[t].to /\ send'[t].pc = "handshake"
        /\ \A u \in Thread \ {t} : send'[u] = send[u]
    BY <2>1 DEF TypeInv, Shape, Sending
  <2>6. CheckedOut'
    BY <2>2, <2>3, <2>4, <2>5, <1>held DEF CheckedOut, ChecksInv, Holds, settingsVars
  <2>7. LateInCache'
    BY <2>2, <2>3, <2>4, <1>cached DEF LateInCache, ChecksInv, settingsVars
  <2>8. \A d \in Conn : conn'[d].server \in {"admitted", "reading"} => conn'[d] = conn[d]
    BY <2>1 DEF TypeInv, Shape
  <2>9. In
    BY <2>2, <2>4, <2>8, <1>in, <1>reg DEF settingsVars
  <2> QED
    BY <2>6, <2>7, <2>9 DEF ChecksInv
<1>6. ASSUME NEW t \in Thread, WriteFresh(t) PROVE ChecksInv'
  <2> DEFINE c == send[t].conn
  <2>1. c \in Conn /\ conn' = Write(c, Message(t))
    BY <1>6, <1>held DEF WriteFresh, WriteTo, Holds
  <2>2. \A d \in Conn : conn'[d].from = conn[d].from /\ conn'[d].to = conn[d].to
                      /\ conn'[d].server = conn[d].server
    <3> HIDE DEF c
    <3> QED
      BY <2>1, Written DEF TypeInv, Shape
  <2>3. \A u \in Thread : Holds(u)' =>
            Holds(u) /\ send'[u].conn = send[u].conn /\ send'[u].to = send[u].to
    BY <1>6 DEF WriteFresh, Goto, Holds, TypeInv, Shape, Sending
  <2>4. \A u \in Thread : send'[u].pc = "connect" => send'[u] = send[u]
    BY <1>6 DEF WriteFresh, Goto, TypeInv, Shape, Sending
  <2>5. Out
    BY <1>6, <2>3, <2>4, <1>node, <1>cached, <1>held, OutKept
       DEF WriteFresh, settingsVars, ChecksInv
  <2>6. In
    BY <1>6, <2>2, <1>in, <1>reg DEF WriteFresh, settingsVars
  <2> QED
    BY <2>5, <2>6 DEF ChecksInv
<1>7. ASSUME NEW t \in Thread, InsertCache(t) PROVE ChecksInv'
  <2> DEFINE n == Home[t]
             c == send[t].conn
             old == cache[n][send[t].to]
  <2>1. /\ Holds(t) /\ c \in Conn /\ UNCHANGED <<settingsVars, registry>>
        /\ cache' = [cache EXCEPT ![n][send[t].to] = c]
        /\ since' = [since EXCEPT ![c].outSince = gen[n]]
    BY <1>7, <1>held DEF InsertCache, Holds
  <2>2. \A d \in Conn : /\ conn'[d].from = conn[d].from /\ conn'[d].to = conn[d].to
                        /\ conn'[d].server = conn[d].server
    <3>1. {old} \ {NoConn} \in SUBSET Conn
      BY <1>node, <1>cached
    <3>2. Close({old} \ {NoConn}, "closed", "stay")
      BY <1>7 DEF InsertCache
    <3> HIDE DEF old
    <3> QED
      BY <3>1, <3>2, ClientsClose DEF TypeInv, Shape
  <2>3. \A u \in Thread : (send'[u].pc = "connect" \/ Holds(u)') => u # t /\ send'[u] = send[u]
    BY <1>7 DEF InsertCache, Finish, Idle, Holds, TypeInv, Shape
  <2>4. \A k, m \in Node : cache'[k][m] = IF k = n /\ m = send[t].to THEN c ELSE cache[k][m]
    BY <2>1, <1>node DEF TypeInv, Shape
  <2>5. /\ since'[c].outChecked = since[c].outChecked /\ since'[c].outSince = gen[n]
        /\ \A d \in Conn \ {c} : since'[d] = since[d]
        /\ \A d \in Conn : since'[d].inChecked = since[d].inChecked /\ since'[d].inSince = since[d].inSince
    BY <2>1 DEF TypeInv, Shape, Times
  <2>6. /\ \A k, m \in Node : cache[k][m] # c
        /\ \A u \in Thread \ {t} : Holds(u) => send[u].conn # c
    BY <2>1 DEF TypeInv, HeldIsOurs
  <2>7. CheckedOut'
    BY <2>1, <2>3, <2>5, <2>6, <1>held DEF CheckedOut, ChecksInv, Holds, settingsVars
  <2>8. since[c].outChecked < gen[n] \/ send[t].to \in scope[n]
    <3>1. since[c].outChecked \in Nat /\ gen[n] \in Nat
      BY <2>1, <1>node, BoundAssumption DEF TypeInv, Shape, Times
    <3> QED
      BY <2>1, <3>1 DEF CheckedOut, ChecksInv
  <2> HIDE DEF c, n
  <2>9. LateInCache'
    BY <2>1, <2>4, <2>5, <2>6, <2>8, <1>cached DEF LateInCache, ChecksInv, settingsVars
  <2>10. In
    BY <2>1, <2>2, <2>5, <1>in, <1>reg DEF settingsVars
  <2> QED
    BY <2>7, <2>9, <2>10 DEF ChecksInv
<1>8. ASSUME NEW c \in Conn, NEW n \in Node, conn[c].to = n, Admit(c) PROVE ChecksInv'
  <2>1. /\ conn[c].server = "queued" /\ conn[c].from \in scope[n]
        /\ conn' = [conn EXCEPT ![c].server = "admitted"]
        /\ since' = [since EXCEPT ![c].inChecked = gen[n]]
        /\ UNCHANGED <<settingsVars, cache, registry, send>>
    BY <1>8 DEF Admit, SetServer
  <2>2. \A d \in Conn : /\ conn'[d].from = conn[d].from /\ conn'[d].to = conn[d].to
                        /\ conn'[d].server = IF d = c THEN "admitted" ELSE conn[d].server
    BY <2>1 DEF TypeInv, Shape, Ends
  <2>3. \A d \in Conn : /\ since'[d].outChecked = since[d].outChecked
                        /\ since'[d].outSince = since[d].outSince
                        /\ since'[d].inSince = since[d].inSince
                        /\ since'[d].inChecked = IF d = c THEN gen[n] ELSE since[d].inChecked
    BY <2>1 DEF TypeInv, Shape, Times
  <2>4. \A k \in Node : c \notin registry[k]
    BY <2>1 DEF TypeInv, RegisteredAreRead
  <2>5. In
    BY <1>8, <2>1, <2>2, <2>3, <2>4, <1>table, InKept DEF TypeInv, ChecksInv, settingsVars
  <2>6. Out
    BY <2>1, <2>3, <1>out DEF settingsVars
  <2> QED
    BY <2>5, <2>6 DEF ChecksInv
<1>9. ASSUME NEW c \in Conn, NEW n \in Node, conn[c].to = n, Refuse(c) PROVE ChecksInv'
  <2>1. \A d \in Conn : /\ conn'[d].from = conn[d].from /\ conn'[d].to = conn[d].to
                        /\ conn'[d].server \in {conn[d].server, "closed"}
    BY <1>9 DEF Refuse, SetServer, TypeInv, Shape, Ends
  <2>2. In
    BY <1>9, <2>1, <1>in, <1>reg DEF Refuse, settingsVars
  <2>3. Out
    BY <1>9, <1>out DEF Refuse, settingsVars
  <2> QED
    BY <2>2, <2>3 DEF ChecksInv
<1>10. ASSUME NEW c \in Conn, NEW n \in Node, conn[c].to = n, Register(c) PROVE ChecksInv'
  <2>1. /\ conn[c].server = "admitted" /\ conn' = [conn EXCEPT ![c].server = "reading"]
        /\ since' = [since EXCEPT ![c].inSince = gen[n]]
        /\ registry' = [registry EXCEPT ![n] = @ \cup {c}]
        /\ UNCHANGED <<settingsVars, cache, send>>
    BY <1>10 DEF Register, SetServer
  <2>2. \A d \in Conn : /\ conn'[d].from = conn[d].from /\ conn'[d].to = conn[d].to
                        /\ conn'[d].server = IF d = c THEN "reading" ELSE conn[d].server
    BY <2>1 DEF TypeInv, Shape, Ends
  <2>3. \A d \in Conn : /\ since'[d].outChecked = since[d].outChecked
                        /\ since'[d].outSince = since[d].outSince
                        /\ since'[d].inChecked = since[d].inChecked
                        /\ since'[d].inSince = IF d = c THEN gen[n] ELSE since[d].inSince
    BY <2>1 DEF TypeInv, Shape, Times
  <2>4. \A k \in Node : registry'[k] = IF k = n THEN registry[k] \cup {c} ELSE registry[k]
    BY <2>1 DEF TypeInv, Shape
  <2>5. \A k \in Node : c \notin registry[k]
    BY <2>1 DEF TypeInv, RegisteredAreRead
  <2>6. In
    BY <1>10, <2>1, <2>2, <2>3, <2>4, <2>5, <1>table, InKept DEF TypeInv, ChecksInv, settingsVars
  <2>7. Out
    BY <2>1, <2>3, <1>out DEF settingsVars
  <2> QED
    BY <2>6, <2>7 DEF ChecksInv
<1>11. ASSUME NEW c \in Conn, Read(c) \/ ReadEnd(c) PROVE ChecksInv'
  <2>1. \A d \in Conn : /\ conn'[d].from = conn[d].from /\ conn'[d].to = conn[d].to
                        /\ conn'[d].server \in {conn[d].server, "closed"}
    <3>1. CASE Read(c)
      BY <3>1 DEF Read, TypeInv, Shape, Ends
    <3>2. CASE ReadEnd(c)
      BY <3>2 DEF ReadEnd, TypeInv, Shape, Ends
    <3> QED
      BY <1>11, <3>1, <3>2
  <2>2. UNCHANGED <<settingsVars, cache, send, since>>
    BY <1>11 DEF Read, ReadEnd
  <2>3. \A k \in Node : registry'[k] \subseteq registry[k]
    BY <1>11 DEF Read, ReadEnd, TypeInv, Shape
  <2>4. In
    BY <2>1, <2>2, <2>3, <1>table, InKept DEF TypeInv, ChecksInv, settingsVars
  <2>5. Out
    BY <2>2, <1>out DEF settingsVars
  <2> QED
    BY <2>4, <2>5 DEF ChecksInv
<1>12. ASSUME NEW n \in Node, NEW S \in SUBSET Node, Publish(n, S) PROVE ChecksInv'
  <2>1. /\ \A k \in Node : gen[k] \in Nat /\ gen'[k] = IF k = n THEN gen[k] + 1 ELSE gen[k]
        /\ \A k \in Node \ {n} : scope'[k] = scope[k] /\ cutting'[k] = cutting[k]
        /\ cutting'[n] = "outbound"
        /\ UNCHANGED <<cache, registry, send, conn, since>>
    BY <1>12, BoundAssumption DEF Publish, TypeInv, Shape
  <2>2. CheckedOut'
    <3>1. \A t \in Thread : /\ send[t].checked \in Nat
                            /\ Holds(t) => since[send[t].conn].outChecked \in Nat
      BY <1>held, BoundAssumption DEF TypeInv, Shape, Sending, Times
    <3> QED
      BY <2>1, <3>1, <1>node DEF CheckedOut, ChecksInv, Holds
  <2>3. LateInCache'
    BY <2>1 DEF LateInCache, ChecksInv
  <2>4. CheckedIn'
    <3>1. \A c \in Conn : since[c].inChecked \in Nat
      BY BoundAssumption DEF TypeInv, Shape, Times
    <3> QED
      BY <2>1, <3>1 DEF CheckedIn, ChecksInv
  <2>5. LateInTable'
    BY <2>1 DEF LateInTable, ChecksInv
  <2> QED
    BY <2>2, <2>3, <2>4, <2>5 DEF ChecksInv
<1>13. ASSUME NEW n \in Node, CutOutbound(n) PROVE ChecksInv'
  <2> DEFINE C == {cache[n][m] : m \in Node \ scope[n]} \ {NoConn}
  <2>1. \A k, m \in Node : cache'[k][m] = IF k = n /\ m \notin scope[n] THEN NoConn ELSE cache[k][m]
    BY <1>13 DEF CutOutbound, TypeInv, Shape
  <2>2. /\ UNCHANGED <<scope, gen, registry, send, since>>
        /\ \A k \in Node \ {n} : cutting'[k] = cutting[k]
        /\ cutting'[n] = "inbound"
    BY <1>13 DEF CutOutbound, TypeInv, Shape
  <2>3. \A d \in Conn : /\ conn'[d].from = conn[d].from /\ conn'[d].to = conn[d].to
                        /\ conn'[d].server = conn[d].server
    <3>1. C \in SUBSET Conn
      BY <1>cached
    <3>2. Close(C, "closed", "stay")
      BY <1>13 DEF CutOutbound
    <3> HIDE DEF C
    <3> QED
      BY <3>1, <3>2, ClientsClose DEF TypeInv, Shape
  <2>4. Out
    BY <2>1, <2>2, <1>node, <1>cached, <1>held, OutKept DEF ChecksInv, Holds
  <2>5. In
    BY <2>2, <2>3, <1>table, InKept DEF TypeInv, ChecksInv
  <2> QED
    BY <2>4, <2>5 DEF ChecksInv
<1>14. ASSUME NEW n \in Node, CutInbound(n) PROVE ChecksInv'
  <2> DEFINE C == {c \in registry[n] : conn[c].from \notin scope[n]}
  <2>1. /\ registry' = [registry EXCEPT ![n] = registry[n] \ C]
        /\ UNCHANGED <<scope, gen, cache, send, since>>
        /\ cutting[n] = "inbound" /\ cutting' = [cutting EXCEPT ![n] = "idle"]
    BY <1>14 DEF CutInbound
  <2>2. \A k \in Node : /\ k # n => registry'[k] = registry[k] /\ cutting'[k] = cutting[k]
                        /\ k = n => registry'[k] = registry[k] \ C
    BY <2>1 DEF TypeInv, Shape
  <2>3. \A d \in Conn : /\ conn'[d].from = conn[d].from /\ conn'[d].to = conn[d].to
                        /\ conn'[d].server \in {conn[d].server, "shut"}
    <3>1. C \in SUBSET Conn
      BY <1>table
    <3>2. Close(C, "stay", "shut")
      BY <1>14 DEF CutInbound
    <3> HIDE DEF C
    <3> QED
      BY <3>1, <3>2, ServersShut DEF TypeInv, Shape
  <2>4. \A c \in registry'[n] : conn'[c].from \in scope[n]
    BY <2>2, <2>3, <1>table
  <2>5. In
    BY <2>1, <2>2, <2>3, <2>4, <1>table, InKept DEF TypeInv, ChecksInv
  <2>6. Out
    BY <2>1, <1>out DEF TypeInv, Shape
  <2> QED
    BY <2>5, <2>6 DEF ChecksInv
<1>15. ASSUME NEW n \in Node, Restart(n) PROVE ChecksInv'
  <2>1. \A d \in Conn : /\ conn'[d].from = conn[d].from /\ conn'[d].to = conn[d].to
                        /\ conn'[d].server \in {conn[d].server, "closed"}
    BY <1>15, Restarted DEF TypeInv
  <2>2. \A k \in Node :
            /\ k # n => registry'[k] = registry[k] /\ cutting'[k] = cutting[k] /\ cache'[k] = cache[k]
            /\ k = n => registry'[k] = {} /\ \A m \in Node : cache'[k][m] = NoConn
    BY <1>15 DEF Restart, TypeInv, Shape
  <2>3. UNCHANGED <<scope, gen, since>>
    BY <1>15 DEF Restart
  <2>4. \A u \in Thread : (send'[u].pc = "connect" \/ Holds(u)') => send'[u] = send[u]
    BY <1>15 DEF Restart, Idle, Holds
  <2>5. Out
    BY <2>2, <2>3, <2>4, <1>node, <1>cached, <1>held, OutKept DEF ChecksInv, Holds
  <2>6. In
    BY <2>1, <2>2, <2>3, <1>table, InKept DEF TypeInv, ChecksInv
  <2> QED
    BY <2>5, <2>6 DEF ChecksInv
<1>17. ASSUME NEW t \in Thread, CheckCached(t) \/ Handshake(t) PROVE ChecksInv'
  <2>1. \A u \in Thread : send'[u].pc = "connect" => send'[u] = send[u]
    BY <1>17, OnlyLooks DEF TypeInv
  <2>2. \A u \in Thread : Holds(u)' =>
            Holds(u) /\ send'[u].conn = send[u].conn /\ send'[u].to = send[u].to
    BY <1>17, OnlyLooks DEF TypeInv
  <2>3. UNCHANGED <<settingsVars, cache, registry, conn, since>>
    BY <1>17 DEF CheckCached, Handshake
  <2>4. Out
    BY <2>1, <2>2, <2>3, <1>node, <1>cached, <1>held, OutKept DEF settingsVars, ChecksInv
  <2>5. In
    BY <2>3, <1>in, <1>reg DEF settingsVars
  <2> QED
    BY <2>4, <2>5 DEF ChecksInv
<1>18. ASSUME NEW c \in Conn, Arrive(c) \/ Greet(c) PROVE ChecksInv'
  <2>1. UNCHANGED <<settingsVars, cache, registry, send, conn, since>>
    BY <1>18 DEF Arrive, Greet
  <2>2. In /\ Out
    BY <2>1, <1>in, <1>out, <1>reg DEF settingsVars
  <2> QED
    BY <2>2 DEF ChecksInv
<1>16. ASSUME UNCHANGED vars PROVE ChecksInv'
  BY <1>16 DEF vars, settingsVars, historyVars, ChecksInv, CheckedOut, LateInCache, CheckedIn,
               LateInTable, Holds
<1> QED
  BY <1>1, <1>2, <1>3, <1>4, <1>5, <1>6, <1>7, <1>8, <1>9, <1>10, <1>11, <1>12, <1>13, <1>14,
     <1>15, <1>16, <1>17, <1>18
     DEF Next, ThreadStep, ReaderStep, AcceptStep, SettingsStep

\* A connection left out of range when enforce_scope has run was checked against an earlier
\* range and came into its table after the latest one (enforce_scope, send_msg, accept_loop).
THEOREM OnlyStragglers == Spec => []StragglersOnly
<1>1. Init => TypeInv /\ ChecksInv
  BY ShapeInit, OwnersInit, ChecksInit DEF TypeInv
<1>2. TypeInv /\ ChecksInv /\ [Next]_vars => (TypeInv /\ ChecksInv)'
  BY ShapeStep, OwnersStep, ChecksStep DEF TypeInv
<1>3. TypeInv /\ ChecksInv => StragglersOnly
  BY DEF ChecksInv, LateInCache, LateInTable, StragglersOnly
<1> QED
  BY <1>1, <1>2, <1>3, PTL DEF Spec

-----------------------------------------------------------------------------
\* Enough for a step to lose nothing: what is no longer under way was taken up or excused.
LEMMA LossKept ==
    ASSUME NothingIsLost, shown \subseteq shown', excused \subseteq excused',
           NEW new, sent' \subseteq sent \cup new, new \subseteq OnTheWay(Conn)',
           \A c \in Conn : Range(conn[c].stream) \subseteq
                            Range(conn'[c].stream) \cup shown' \cup excused'
    PROVE  NothingIsLost'
<1>1. OnTheWay(Conn) \subseteq OnTheWay(Conn)' \cup shown' \cup excused'
  BY DEF OnTheWay
<1> QED
  BY <1>1 DEF NothingIsLost

LEMMA RangeAppended ==
    ASSUME NEW s \in Seq(Msg), NEW m \in Msg
    PROVE  Range(s) \subseteq Range(Append(s, m)) /\ m \in Range(Append(s, m))
<1> HIDE DEF Msg
<1>1. /\ DOMAIN Append(s, m) = 1 .. Len(s) + 1 /\ DOMAIN s = 1 .. Len(s) /\ Len(s) \in Nat
      /\ \A i \in 1 .. Len(s) : Append(s, m)[i] = s[i]
      /\ Append(s, m)[Len(s) + 1] = m
  OBVIOUS
<1> QED
  BY <1>1 DEF Range

LEMMA RangeWithoutHead ==
    ASSUME NEW s \in Seq(Msg), s # <<>>
    PROVE  Range(s) \subseteq {Head(s)} \cup Range(Tail(s))
<1> HIDE DEF Msg
<1>1. /\ DOMAIN s = 1 .. Len(s) /\ DOMAIN Tail(s) = 1 .. Len(s) - 1 /\ Len(s) \in Nat
      /\ Head(s) = s[1]
      /\ \A i \in 1 .. Len(s) - 1 : Tail(s)[i] = s[i + 1]
  OBVIOUS
<1>2. ASSUME NEW i \in 1 .. Len(s) PROVE s[i] = Head(s) \/ s[i] \in Range(Tail(s))
  <2>1. CASE i = 1
    BY <1>1, <2>1
  <2>2. CASE i # 1
    <3>1. i - 1 \in 1 .. Len(s) - 1 /\ Tail(s)[i - 1] = s[i]
      BY <1>1, <2>2
    <3> QED
      BY <1>1, <3>1 DEF Range
  <2> QED
    BY <2>1, <2>2
<1> QED
  BY <1>1, <1>2 DEF Range

LEMMA LossWritten ==
    ASSUME TypeInv, NothingIsLost, NEW t \in Thread, send[t].pc # "idle", t \in looked,
           NEW c \in Conn, WriteTo(t, c), UNCHANGED shown
    PROVE  NothingIsLost'
<1> DEFINE m == Message(t)
<1>1. m \in Msg /\ \A d \in Conn : conn[d].stream \in Seq(Msg)
  BY MsgFact DEF TypeInv, Shape, Ends
<1>2. \A d \in Conn : conn'[d].stream = IF d = c /\ conn[c].server # "closed"
                                         THEN Append(conn[d].stream, m) ELSE conn[d].stream
  BY Written DEF WriteTo, TypeInv, Shape
<1>3. sent' = sent \cup {m} /\ excused' = IF Dead(c) THEN excused \cup {m} ELSE excused
  BY DEF WriteTo, Report
<1> HIDE DEF m, Msg
<1>4. \A d \in Conn : Range(conn[d].stream) \subseteq Range(conn'[d].stream)
  BY <1>1, <1>2, RangeAppended
<1>5. CASE conn[c].server = "closed"
  <2>1. m \in excused' /\ excused \subseteq excused'
    BY <1>3, <1>5 DEF Dead
  <2>2. OnTheWay(Conn) \subseteq OnTheWay(Conn)'
    BY <1>4 DEF OnTheWay
  <2> QED
    BY <1>3, <2>1, <2>2 DEF NothingIsLost
<1>6. CASE conn[c].server # "closed"
  <2>1. m \in Range(conn'[c].stream)
    BY <1>1, <1>2, <1>6, RangeAppended
  <2>2. {m} \subseteq OnTheWay(Conn)'
    BY <2>1 DEF OnTheWay
  <2> QED
    BY <1>3, <1>4, <2>2, LossKept
<1> QED
  BY <1>5, <1>6

LEMMA LossClosed ==
    ASSUME TypeInv, NothingIsLost, NEW C \in SUBSET Conn, NEW client, NEW server,
           Close(C, client, server), UNCHANGED <<sent, shown>>
    PROVE  NothingIsLost'
<1>1. excused' = excused \cup OnTheWay(C)
  BY DEF Close
<1>2. ASSUME NEW c \in Conn
      PROVE  Range(conn[c].stream) \subseteq Range(conn'[c].stream) \cup excused'
  <2>1. CASE c \in C
    BY <1>1, <2>1 DEF OnTheWay
  <2>2. CASE c \notin C
    <3>1. conn'[c] = conn[c]
      BY <2>2 DEF Close
    <3> QED
      BY <3>1
  <2> QED
    BY <2>1, <2>2
<1> QED
  BY <1>1, <1>2, LossKept

LEMMA LossStep == TypeInv /\ LookedBefore /\ NothingIsLost /\ [Next]_vars => NothingIsLost'
<1> SUFFICES ASSUME TypeInv, LookedBefore, NothingIsLost, [Next]_vars PROVE NothingIsLost'
  OBVIOUS
<1>keep. ASSUME UNCHANGED <<sent, shown, excused>>,
                \A c \in Conn : conn'[c].stream = conn[c].stream
         PROVE  NothingIsLost'
  BY <1>keep, LossKept
<1>1. ASSUME NEW t \in Thread, NEW n \in Node, StartSend(t, n) PROVE NothingIsLost'
  BY <1>1, <1>keep DEF StartSend, historyVars
<1>2. ASSUME NEW t \in Thread, WriteCached(t) PROVE NothingIsLost'
  <2> DEFINE c == cache[Home[t]][send[t].to]
  <2>1. c \in Conn /\ WriteTo(t, c) /\ t \in looked
    BY <1>2, HomeAssumption DEF WriteCached, LookedBefore, TypeInv, Shape, Sending
  <2> HIDE DEF c
  <2> QED
    BY <1>2, <2>1, LossWritten DEF WriteCached
<1>3. ASSUME NEW t \in Thread, MissCached(t) PROVE NothingIsLost'
  <2> DEFINE c == cache[Home[t]][send[t].to]
  <2>1. UNCHANGED conn \/ conn' = [conn EXCEPT ![c].client = "closed"]
    BY <1>3 DEF MissCached
  <2>2. \A d \in Conn : conn'[d].stream = conn[d].stream
    <3>1. CASE conn' = [conn EXCEPT ![c].client = "closed"]
      <4> HIDE DEF c
      <4> QED
        BY <3>1 DEF TypeInv, Shape, Ends
    <3> QED
      BY <2>1, <3>1
  <2> QED
    BY <1>3, <2>2, <1>keep DEF MissCached, historyVars
<1>4. ASSUME NEW t \in Thread, DialAllowed(t) \/ DialDenied(t) \/ ConnectFails(t)
      PROVE  NothingIsLost'
  BY <1>4, <1>keep DEF DialAllowed, DialDenied, ConnectFails, historyVars
<1>5. ASSUME NEW t \in Thread, Connect(t) PROVE NothingIsLost'
  <2>1. PICK c \in Conn :
            /\ conn[c] = Unused
            /\ conn' = [conn EXCEPT ![c] = [from |-> Home[t], to |-> send[t].to, client |-> "open",
                                            server |-> "queued", stream |-> <<>>]]
    BY <1>5 DEF Connect, Fresh
  <2>2. \A d \in Conn : conn'[d].stream = conn[d].stream
    BY <2>1 DEF Unused, TypeInv, Shape
  <2> QED
    BY <1>5, <2>2, <1>keep DEF Connect, historyVars
<1>6. ASSUME NEW t \in Thread, WriteFresh(t) PROVE NothingIsLost'
  <2>1. send[t].conn \in Conn /\ t \in looked
    BY <1>6 DEF WriteFresh, LookedBefore, TypeInv, HeldIsOurs, Holds
  <2> QED
    BY <1>6, <2>1, LossWritten DEF WriteFresh
<1>7. ASSUME NEW t \in Thread, DialFails(t) PROVE NothingIsLost'
  <2>1. \A d \in Conn : conn'[d].stream = conn[d].stream
    BY <1>7 DEF DialFails, TypeInv, Shape, Ends
  <2> QED
    BY <1>7, <2>1, <1>keep DEF DialFails, historyVars
<1>8. ASSUME NEW t \in Thread, InsertCache(t) PROVE NothingIsLost'
  <2> DEFINE old == cache[Home[t]][send[t].to]
  <2>1. {old} \ {NoConn} \in SUBSET Conn
    BY HomeAssumption DEF TypeInv, Shape, Sending
  <2>2. Close({old} \ {NoConn}, "closed", "stay") /\ UNCHANGED <<sent, shown>>
    BY <1>8 DEF InsertCache
  <2> HIDE DEF old
  <2> QED
    BY <2>1, <2>2, LossClosed
<1>9. ASSUME NEW c \in Conn, Admit(c) \/ Refuse(c) \/ Register(c) PROVE NothingIsLost'
  <2>1. PICK state \in ServerState : conn' = [conn EXCEPT ![c].server = state]
    BY <1>9 DEF Admit, Refuse, Register, SetServer, ServerState
  <2>2. \A d \in Conn : conn'[d].stream = conn[d].stream
    BY <2>1 DEF TypeInv, Shape, Ends
  <2> QED
    BY <1>9, <2>2, <1>keep DEF Admit, Refuse, Register, historyVars
<1>10. ASSUME NEW c \in Conn, Read(c) PROVE NothingIsLost'
  <2>1. /\ conn[c].stream # <<>> /\ shown' = shown \cup {Head(conn[c].stream)}
        /\ conn' = [conn EXCEPT ![c].stream = Tail(@)] /\ UNCHANGED <<sent, excused>>
    BY <1>10 DEF Read
  <2>2. /\ conn'[c].stream = Tail(conn[c].stream) /\ conn[c].stream \in Seq(Msg)
        /\ \A d \in Conn \ {c} : conn'[d] = conn[d]
    BY <2>1 DEF TypeInv, Shape, Ends
  <2>3. \A d \in Conn : Range(conn[d].stream) \subseteq Range(conn'[d].stream) \cup shown'
    BY <2>1, <2>2, RangeWithoutHead
  <2> QED
    BY <2>1, <2>3, LossKept
<1>11. ASSUME NEW c \in Conn, ReadEnd(c) PROVE NothingIsLost'
  <2>1. /\ conn' = [conn EXCEPT ![c].server = "closed", ![c].stream = <<>>]
        /\ excused' = excused \cup OnTheWay({c}) /\ UNCHANGED <<sent, shown>>
    BY <1>11 DEF ReadEnd
  <2>2. \A d \in Conn \ {c} : conn'[d] = conn[d]
    BY <2>1 DEF TypeInv, Shape
  <2>3. \A d \in Conn : Range(conn[d].stream) \subseteq Range(conn'[d].stream) \cup excused'
    BY <2>1, <2>2 DEF OnTheWay
  <2> QED
    BY <2>1, <2>3, LossKept
<1>12. ASSUME NEW n \in Node, NEW S \in SUBSET Node, Publish(n, S) PROVE NothingIsLost'
  BY <1>12, <1>keep DEF Publish, historyVars
<1>13. ASSUME NEW n \in Node, CutOutbound(n) PROVE NothingIsLost'
  <2> DEFINE C == {cache[n][m] : m \in Node \ scope[n]} \ {NoConn}
  <2>1. C \in SUBSET Conn
    BY DEF TypeInv, Shape
  <2>2. Close(C, "closed", "stay") /\ UNCHANGED <<sent, shown>>
    BY <1>13 DEF CutOutbound
  <2> HIDE DEF C
  <2> QED
    BY <2>1, <2>2, LossClosed
<1>14. ASSUME NEW n \in Node, CutInbound(n) PROVE NothingIsLost'
  <2> DEFINE C == {c \in registry[n] : conn[c].from \notin scope[n]}
  <2>1. C \in SUBSET Conn
    BY DEF TypeInv, Shape
  <2>2. Close(C, "stay", "shut") /\ UNCHANGED <<sent, shown>>
    BY <1>14 DEF CutInbound
  <2> HIDE DEF C
  <2> QED
    BY <2>1, <2>2, LossClosed
<1>15. ASSUME NEW n \in Node, Restart(n) PROVE NothingIsLost'
  <2> DEFINE mine == {c \in Conn : n \in {conn[c].from, conn[c].to}}
  <2>1. excused' = excused \cup OnTheWay(mine) /\ UNCHANGED <<sent, shown>>
    BY <1>15 DEF Restart
  <2>2. \A c \in Conn : c \notin mine => conn'[c] = conn[c]
    BY <1>15 DEF Restart
  <2>3. \A c \in mine : Range(conn[c].stream) \subseteq OnTheWay(mine)
    BY DEF OnTheWay
  <2> HIDE DEF mine
  <2>4. \A c \in Conn : Range(conn[c].stream) \subseteq Range(conn'[c].stream) \cup excused'
    BY <2>1, <2>2, <2>3
  <2> QED
    BY <2>1, <2>4, LossKept
<1>17. ASSUME NEW t \in Thread, CheckCached(t) \/ Handshake(t) PROVE NothingIsLost'
  BY <1>17, <1>keep DEF CheckCached, Handshake, historyVars
<1>18. ASSUME NEW c \in Conn, Arrive(c) \/ Greet(c) PROVE NothingIsLost'
  BY <1>18, <1>keep DEF Arrive, Greet, historyVars
<1>16. ASSUME UNCHANGED vars PROVE NothingIsLost'
  BY <1>16, <1>keep DEF vars, historyVars
<1> QED
  BY <1>1, <1>2, <1>3, <1>4, <1>5, <1>6, <1>7, <1>8, <1>9, <1>10, <1>11, <1>12, <1>13, <1>14,
     <1>15, <1>16, <1>17, <1>18
     DEF Next, ThreadStep, ReaderStep, AcceptStep, SettingsStep

\* Who writes has found its connection alive.
LEMMA LookedStep == TypeInv /\ NewsIsTrue /\ LookedBefore /\ [Next]_vars => LookedBefore'
<1> SUFFICES ASSUME TypeInv, NewsIsTrue, LookedBefore, [Next]_vars PROVE LookedBefore'
  OBVIOUS
<1>keep. ASSUME UNCHANGED looked,
                \A u \in Thread : send'[u].pc \in {"write", "first"} => send'[u].pc = send[u].pc
         PROVE  LookedBefore'
  BY <1>keep DEF LookedBefore
<1>1. ASSUME NEW t \in Thread, CheckCached(t) \/ Handshake(t) PROVE LookedBefore'
  <2>1. PICK c : c \notin news /\ Look(t, c)
    BY <1>1 DEF CheckCached, Handshake, NewsIsTrue, Dead
  <2>2. looked' = looked \cup {t}
    BY <2>1 DEF Look
  <2>3. \A u \in Thread \ {t} : send'[u] = send[u]
    BY <1>1 DEF CheckCached, Handshake, Goto, TypeInv, Shape
  <2> QED
    BY <2>2, <2>3 DEF LookedBefore
<1>2. ASSUME NEW t \in Thread, NEW n \in Node, StartSend(t, n) PROVE LookedBefore'
  BY <1>2, <1>keep DEF StartSend, TypeInv, Shape, Sending
<1>3. ASSUME NEW t \in Thread, WriteCached(t) \/ DialDenied(t) \/ ConnectFails(t) \/ DialFails(t)
                               \/ InsertCache(t)
      PROVE  LookedBefore'
  <2>1. Finish(t) /\ UNCHANGED looked
    BY <1>3 DEF WriteCached, DialDenied, ConnectFails, DialFails, InsertCache
  <2> QED
    BY <2>1, <1>keep DEF Finish, Idle, TypeInv, Shape
<1>4. ASSUME NEW t \in Thread, MissCached(t) \/ WriteFresh(t) PROVE LookedBefore'
  <2>1. (Goto(t, "dial") \/ Goto(t, "insert")) /\ UNCHANGED looked
    BY <1>4 DEF MissCached, WriteFresh
  <2> QED
    BY <2>1, <1>keep DEF Goto, TypeInv, Shape, Sending
<1>5. ASSUME NEW t \in Thread, DialAllowed(t) PROVE LookedBefore'
  BY <1>5, <1>keep DEF DialAllowed, TypeInv, Shape, Sending
<1>6. ASSUME NEW t \in Thread, Connect(t) PROVE LookedBefore'
  <2>1. PICK c \in Conn : send' = [send EXCEPT ![t].pc = "handshake", ![t].conn = c]
    BY <1>6 DEF Connect
  <2> QED
    BY <1>6, <2>1, <1>keep DEF Connect, TypeInv, Shape, Sending
<1>7. ASSUME NEW n \in Node, Restart(n) PROVE LookedBefore'
  BY <1>7, <1>keep DEF Restart, Idle
<1>8. ASSUME UNCHANGED <<send, looked>> PROVE LookedBefore'
  BY <1>8, <1>keep
<1>9. ASSUME NEW c \in Conn, Arrive(c) \/ ReaderStep(c) \/ Admit(c) \/ Refuse(c) \/ Register(c)
      PROVE  LookedBefore'
  BY <1>8, <1>9 DEF Arrive, ReaderStep, Greet, Read, ReadEnd, Admit, Refuse, Register
<1>10. ASSUME NEW n \in Node, SettingsStep(n) \/ \E S \in SUBSET Node : Publish(n, S)
       PROVE  LookedBefore'
  BY <1>8, <1>10 DEF SettingsStep, CutOutbound, CutInbound, Publish
<1>11. ASSUME UNCHANGED vars PROVE LookedBefore'
  BY <1>8, <1>11 DEF vars
<1> QED
  BY <1>1, <1>2, <1>3, <1>4, <1>5, <1>6, <1>7, <1>9, <1>10, <1>11 DEF Next, ThreadStep, AcceptStep

\* A message send_msg reported as sent is under way, was taken up by a reader, or went down
\* with its connection: an end of it was destroyed after the write, or, unheard of when the
\* thread looked, before it.  The safe half of Delivered (send_msg, conn_is_dead, read_loop).
THEOREM SentIsAccountedFor == Spec => []NothingIsLost
<1> DEFINE Inv == TypeInv /\ NewsIsTrue /\ LookedBefore /\ NothingIsLost
<1>1. Init => Inv
  BY ShapeInit, OwnersInit DEF TypeInv, Init, NewsIsTrue, LookedBefore, NothingIsLost
<1>2. Inv /\ [Next]_vars => Inv'
  BY ShapeStep, OwnersStep, NewsStep, LookedStep, LossStep DEF TypeInv
<1> QED
  BY <1>1, <1>2, PTL DEF Spec

=============================================================================
