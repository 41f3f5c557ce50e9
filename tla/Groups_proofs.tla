---------------------------- MODULE Groups_proofs ----------------------------
(***************************************************************************)
(* Machine-checked proofs about Groups, for any set of devices, with and    *)
(* without overlap, reordering and faults unless a theorem says otherwise.  *)
(***************************************************************************)
EXTENDS Groups, TLAPS

\* The tables commands and departures compute are tables, NoGroup is one.
LEMMA Tables ==
    /\ NoGroup \in Table
    /\ \A t \in Table : /\ t.version \in Nat /\ t.members \in SUBSET Node
                        /\ \A M \in SUBSET Node : [version |-> t.version + 1, members |-> M] \in Table
    /\ \A M \in SUBSET Node : [version |-> 1, members |-> M] \in Table
    /\ \A n \in Node : \A t \in Table : FanOutTargets(t, n) \in SUBSET Node
BY DEF Table, NoGroup, FanOutTargets

LEMMA Frames ==
    \A n \in Node : \A m \in Node : \A t \in Table :
        /\ Info(n, t) \in Frame /\ Info(n, t).type = "Info" /\ Info(n, t).table = t /\ Info(n, t).to = n
        /\ LeaveMsg(n) \in Frame /\ LeaveMsg(n).type = "Leave" /\ LeaveMsg(n).from = n
        /\ Text(n, m) \in Frame /\ Text(n, m).type = "Text"
BY Tables, CreatorInNode DEF Frame, Info, LeaveMsg, Text

\* The records the two threads keep their progress in.
LEMMA Threads ==
    /\ IdleCmd \in CmdState /\ IdlePump \in PumpState
    /\ \A pc \in CmdPc : \A k \in CmdState : \A t \in Table :
          /\ [k EXCEPT !.pc = pc] \in CmdState /\ [pc |-> pc, old |-> t, new |-> NoGroup] \in CmdState
          /\ \A u \in Table : [pc |-> pc, old |-> t, new |-> u] \in CmdState
          /\ k.new \in Table /\ k.old \in Table
    /\ \A t \in Table : \A S \in SUBSET Node : [pc |-> "store", table |-> t, to |-> S] \in PumpState
    /\ \A k \in PumpState : k.table \in Table /\ k.to \in SUBSET Node
BY Tables DEF IdleCmd, IdlePump, CmdState, PumpState, CmdPc

LEMMA FrameFields ==
    \A f \in Frame : f.type \in {"Info", "Leave", "Text"} /\ f.from \in Node /\ f.to \in Node /\ f.table \in Table
BY DEF Frame

-----------------------------------------------------------------------------
\* TypeOK in two parts: the state of the program, and the history the properties keep.
CoreType ==
    /\ mem \in [Node -> Table] /\ db \in [Node -> Table]
    /\ cmd \in [Node -> CmdState] /\ pump \in [Node -> PumpState]
    /\ net \in SUBSET Frame
    /\ written \in SUBSET Table /\ heard \in SUBSET (Node \X Node)

HistoryType ==
    /\ forked \in BOOLEAN /\ unsaved \in SUBSET Node /\ missed \in SUBSET Node
    /\ owed \in [Node -> Table] /\ seen \in [Node -> Nat]

LEMMA NextCore == TypeOK /\ [Next]_vars => CoreType'
<1> SUFFICES ASSUME TypeOK, [Next]_vars PROVE CoreType'
  OBVIOUS
<1>a. /\ \A n \in Node : mem[n] \in Table /\ db[n] \in Table /\ cmd[n] \in CmdState /\ pump[n] \in PumpState
      /\ cmd[Creator] \in CmdState /\ cmd[Creator].new \in Table /\ mem[Creator] \in Table
      /\ \A f \in net : f.from \in Node /\ f.to \in Node /\ f.table \in Table
  BY CreatorInNode, Threads, FrameFields DEF TypeOK, CoreType, CmdPc
<1>1. ASSUME NEW M \in SUBSET Node, CreateGroup(M) PROVE CoreType'
  <2>1. M \cup {Creator} \in SUBSET Node
    BY CreatorInNode
  <2>2. [version |-> 1, members |-> M \cup {Creator}] \in Table
    BY <2>1, Tables
  <2>3. cmd' \in [Node -> CmdState]
    BY <1>1, <2>2, Tables, Threads DEF CreateGroup, CreatorWrites, SetCmd, CmdPc, TypeOK, CoreType
  <2> QED
    BY <1>1, <2>2, <2>3 DEF CreateGroup, CreatorWrites, TypeOK, CoreType
<1>2. ASSUME NEW M \in SUBSET Node, UpdateRead(M) PROVE CoreType'
  <2>1. M \cup {Creator} \in SUBSET Node
    BY CreatorInNode
  <2>2. [version |-> mem[Creator].version + 1, members |-> M \cup {Creator}] \in Table
    BY <1>a, <2>1, Tables
  <2>3. cmd' \in [Node -> CmdState]
    BY <1>2, <1>a, <2>2, Threads DEF UpdateRead, SetCmd, CmdPc, TypeOK, CoreType
  <2> QED
    BY <1>2, <2>3 DEF UpdateRead, TypeOK, CoreType
<1>3. CASE UpdateWrite
  <2>1. [cmd[Creator] EXCEPT !.pc = "store"] \in CmdState
    BY <1>a, Tables, Threads DEF CmdPc
  <2> QED
    BY <1>3, <1>a, <2>1 DEF UpdateWrite, CreatorWrites, TypeOK, CoreType
<1>4. CASE StoreTable
  <2>1. [cmd[Creator] EXCEPT !.pc = "fanout"] \in CmdState /\ IdleCmd \in CmdState
    BY <1>a, Tables, Threads DEF CmdPc
  <2>2. cmd' \in [Node -> CmdState]
    BY <1>4, <2>1 DEF StoreTable, TypeOK, CoreType
  <2>3. db' \in [Node -> Table]
    BY <1>4, <1>a DEF StoreTable, TypeOK, CoreType
  <2> QED
    BY <1>4, <2>2, <2>3 DEF StoreTable, TypeOK, CoreType
<1>5. CASE FanOutTable
  <2>1. PICK S : S \subseteq FanOutTargets(cmd[Creator].new, Creator) \cup FanOutTargets(cmd[Creator].old, Creator)
                 /\ net' = net \cup {Info(n, cmd[Creator].new) : n \in S}
    BY <1>5 DEF FanOutTable, Concerned
  <2>2. S \in SUBSET Node
    BY <1>a, <2>1, Tables, Threads, CreatorInNode DEF CmdPc
  <2>3. net' \in SUBSET Frame
    BY <1>a, <2>1, <2>2, Frames DEF TypeOK, CoreType
  <2> QED
    BY <1>5, <2>3, Threads DEF FanOutTable, TypeOK, CoreType
<1>6. ASSUME NEW n \in Node, LeaveGroup(n) PROVE CoreType'
  <2>1. cmd' \in [Node -> CmdState]
    BY <1>6, Tables, Threads DEF LeaveGroup, SetCmd, CmdPc, TypeOK, CoreType
  <2> QED
    BY <1>6, <2>1, Tables DEF LeaveGroup, TypeOK, CoreType
<1>7. ASSUME NEW n \in Node, DeleteRow(n) PROVE CoreType'
  <2>1. [cmd[n] EXCEPT !.pc = "notify"] \in CmdState /\ IdleCmd \in CmdState
    BY <1>a, Tables, Threads DEF CmdPc
  <2>2. cmd' \in [Node -> CmdState]
    BY <1>7, <2>1 DEF DeleteRow, TypeOK, CoreType
  <2>3. db' \in [Node -> Table]
    BY <1>7, Tables DEF DeleteRow, TypeOK, CoreType
  <2> QED
    BY <1>7, <2>2, <2>3 DEF DeleteRow, TypeOK, CoreType
<1>8. ASSUME NEW n \in Node, NotifyCreator(n) PROVE CoreType'
  <2>1. LeaveMsg(n) \in Frame
    BY Frames, Tables
  <2> QED
    BY <1>8, <2>1, Threads DEF NotifyCreator, TypeOK, CoreType
<1>9. ASSUME NEW n \in Node, SendText(n) PROVE CoreType'
  <2>1. FanOutTargets(mem[n], n) \in SUBSET Node
    BY <1>a, Tables
  <2>2. {Text(n, m) : m \in FanOutTargets(mem[n], n)} \in SUBSET Frame
    BY <2>1, Frames, Tables
  <2> QED
    BY <1>9, <2>2 DEF SendText, TypeOK, CoreType
<1>10. ASSUME NEW f \in net, IgnoreInfo(f) \/ Lose(f) PROVE CoreType'
  BY <1>10 DEF IgnoreInfo, Lose, Receive, TypeOK, CoreType
<1>11. ASSUME NEW f \in net, AdoptInfo(f) \/ RemovedByInfo(f) PROVE CoreType'
  <2>1. /\ [pc |-> "store", table |-> f.table, to |-> {}] \in PumpState
        /\ [pc |-> "store", table |-> NoGroup, to |-> {}] \in PumpState
    BY <1>a, Tables, Threads
  <2>2. pump' \in [Node -> PumpState]
    BY <1>11, <2>1 DEF AdoptInfo, RemovedByInfo, TypeOK, CoreType
  <2>3. mem' \in [Node -> Table]
    BY <1>11, <1>a, Tables DEF AdoptInfo, RemovedByInfo, TypeOK, CoreType
  <2> QED
    BY <1>11, <2>2, <2>3 DEF AdoptInfo, RemovedByInfo, Receive, TypeOK, CoreType
<1>12. ASSUME NEW f \in net, HandleLeave(f) PROVE CoreType'
  <2> DEFINE new == [version |-> mem[Creator].version + 1, members |-> mem[Creator].members \ {f.from}]
  <2>1. mem[Creator].members \ {f.from} \in SUBSET Node
    BY <1>a, Tables
  <2>2. new \in Table /\ FanOutTargets(mem[Creator], Creator) \in SUBSET Node
    BY <1>a, <2>1, Tables, CreatorInNode
  <2>3. [pc |-> "store", table |-> new, to |-> FanOutTargets(mem[Creator], Creator)] \in PumpState
    BY <2>2, Threads
  <2>4. \/ UNCHANGED <<mem, written, pump>>
        \/ /\ mem' = [mem EXCEPT ![Creator] = new] /\ written' = written \cup {new}
           /\ pump' = [pump EXCEPT ![Creator] =
                  [pc |-> "store", table |-> new, to |-> FanOutTargets(mem[Creator], Creator)]]
    BY <1>12 DEF HandleLeave, CreatorWrites
  <2> HIDE DEF new
  <2>5. mem' \in [Node -> Table] /\ written' \in SUBSET Table /\ pump' \in [Node -> PumpState]
    BY <2>2, <2>3, <2>4 DEF TypeOK, CoreType
  <2> QED
    BY <1>12, <2>5 DEF HandleLeave, CreatorWrites, Receive, TypeOK, CoreType
<1>13. ASSUME NEW f \in net, HandleText(f) PROVE CoreType'
  BY <1>13, <1>a DEF HandleText, Receive, TypeOK, CoreType
<1>14. ASSUME NEW n \in Node, PumpStore(n) PROVE CoreType'
  <2>1. PICK S : S \subseteq pump[n].to /\ net' = net \cup {Info(m, pump[n].table) : m \in S}
    BY <1>14 DEF PumpStore
  <2>2. S \in SUBSET Node /\ pump[n].table \in Table
    BY <1>a, <2>1, Threads
  <2>3. net' \in SUBSET Frame
    BY <2>1, <2>2, Frames DEF TypeOK, CoreType
  <2>4. db' \in [Node -> Table]
    BY <1>14, <2>2 DEF PumpStore, TypeOK, CoreType
  <2> QED
    BY <1>14, <2>3, <2>4, Threads DEF PumpStore, TypeOK, CoreType
<1>15. ASSUME NEW n \in Node, Restart(n) PROVE CoreType'
  BY <1>15, <1>a, Threads DEF Restart, TypeOK, CoreType
<1>16. CASE UNCHANGED vars
  BY <1>16 DEF vars, TypeOK, CoreType
<1> QED
  BY <1>1, <1>2, <1>3, <1>4, <1>5, <1>6, <1>7, <1>8, <1>9, <1>10, <1>11, <1>12, <1>13, <1>14,
     <1>15, <1>16 DEF Next, Commands, Pumping, Failing

\* What a command or the pump sends goes to devices.
LEMMA Targets ==
    /\ \A t \in Table : \A u \in Table : Concerned(t, u) \in SUBSET Node /\ Creator \notin Concerned(t, u)
    /\ Concerned(NoGroup, NoGroup) = {}
BY DEF Table, Concerned, FanOutTargets, NoGroup

LEMMA NextHistory == TypeOK /\ [Next]_vars => HistoryType'
<1> SUFFICES ASSUME TypeOK, [Next]_vars PROVE HistoryType'
  OBVIOUS
<1>a. /\ \A n \in Node : mem[n] \in Table /\ cmd[n].new \in Table /\ cmd[n].old \in Table
      /\ \A n \in Node : pump[n].table \in Table /\ pump[n].to \in SUBSET Node
      /\ \A f \in net : f.from \in Node /\ f.to \in Node /\ f.table \in Table /\ f.table.version \in Nat
      /\ Creator \in Node /\ HistoryType
      /\ \A f \in net : f.type \in {"Info", "Leave", "Text"}
  BY CreatorInNode, Tables, Threads, FrameFields DEF TypeOK, HistoryType, CmdPc
\* The creator's memory takes a table.
<1>b. ASSUME NEW old \in Table, NEW new \in Table, CreatorWrites(old, new)
      PROVE  owed' \in [Node -> Table] /\ missed' \in SUBSET Node
  BY <1>a, <1>b DEF CreatorWrites, HistoryType
<1>c. ASSUME NEW n \in Node, NEW t, NEW done, NEW other, RowWrite(n, t, done, other)
      PROVE  unsaved' \in SUBSET Node
  BY <1>a, <1>c DEF RowWrite, HistoryType
<1>d. ASSUME NEW M \in SUBSET Node, NEW t, Miss(M, t)
      PROVE  missed' \in SUBSET Node
  BY <1>a, <1>d DEF Miss, HistoryType
<1>e. ASSUME NEW n \in Node, NEW v \in Nat, See(n, v)
      PROVE  seen' \in [Node -> Nat]
  BY <1>a, <1>e DEF See, HistoryType
<1>1. ASSUME NEW M \in SUBSET Node, CreateGroup(M) PROVE HistoryType'
  <2>1. [version |-> 1, members |-> M \cup {Creator}] \in Table
    BY <1>a, Tables
  <2> QED
    BY <1>1, <1>a, <1>b, <2>1, Tables DEF CreateGroup, HistoryType
<1>2. ASSUME NEW M \in SUBSET Node, UpdateRead(M) PROVE HistoryType'
  BY <1>2, <1>a DEF UpdateRead, HistoryType
<1>3. CASE UpdateWrite
  BY <1>3, <1>a, <1>b DEF UpdateWrite, HistoryType
<1>4. CASE StoreTable
  <2>1. unsaved' \in SUBSET Node
    BY <1>4, <1>a, <1>c DEF StoreTable
  <2>2. Concerned(cmd[Creator].old, cmd[Creator].new) \in SUBSET Node
    BY <1>a, Targets
  <2>3. missed' \in SUBSET Node
    BY <1>4, <1>a, <1>d, <2>2 DEF StoreTable, HistoryType
  <2> QED
    BY <1>4, <1>a, <2>1, <2>3 DEF StoreTable, HistoryType
<1>5. CASE FanOutTable
  <2>1. Concerned(cmd[Creator].old, cmd[Creator].new) \in SUBSET Node
    BY <1>a, Targets
  <2>2. missed' \in SUBSET Node
    BY <1>5, <1>d, <2>1 DEF FanOutTable
  <2> QED
    BY <1>5, <1>a, <2>2 DEF FanOutTable, HistoryType
<1>6. ASSUME NEW n \in Node, LeaveGroup(n) \/ NotifyCreator(n) \/ SendText(n) PROVE HistoryType'
  BY <1>6, <1>a DEF LeaveGroup, NotifyCreator, SendText, HistoryType
<1>7. ASSUME NEW n \in Node, DeleteRow(n) PROVE HistoryType'
  <2>1. unsaved' \in SUBSET Node
    BY <1>7, <1>c DEF DeleteRow
  <2> QED
    BY <1>7, <1>a, <2>1 DEF DeleteRow, HistoryType
<1>8. ASSUME NEW f \in net, IgnoreInfo(f) \/ AdoptInfo(f) \/ RemovedByInfo(f) PROVE HistoryType'
  <2>1. See(f.to, f.table.version) /\ UNCHANGED <<forked, unsaved, owed>> /\ missed' \in {missed, missed \cup {f.to}}
    BY <1>8 DEF IgnoreInfo, AdoptInfo, RemovedByInfo
  <2> QED
    BY <1>a, <1>e, <2>1 DEF HistoryType
<1>9. ASSUME NEW f \in net, HandleLeave(f) PROVE HistoryType'
  <2> DEFINE new == [version |-> mem[Creator].version + 1, members |-> mem[Creator].members \ {f.from}]
  <2>1. mem[Creator].members \ {f.from} \in SUBSET Node
    BY <1>a, Tables
  <2>2. new \in Table
    BY <1>a, <2>1, Tables
  <2>3. CreatorWrites(mem[Creator], new) \/ UNCHANGED <<owed, missed>>
    BY <1>9 DEF HandleLeave
  <2> HIDE DEF new
  <2> QED
    BY <1>9, <1>a, <1>b, <2>2, <2>3 DEF HandleLeave, HistoryType
<1>10. ASSUME NEW f \in net, HandleText(f) PROVE HistoryType'
  BY <1>10, <1>a DEF HandleText, HistoryType
<1>11. ASSUME NEW n \in Node, PumpStore(n) PROVE HistoryType'
  <2>1. unsaved' \in SUBSET Node
    BY <1>11, <1>c DEF PumpStore
  <2>2. missed' \in SUBSET Node
    BY <1>11, <1>a, <1>d DEF PumpStore
  <2> QED
    BY <1>11, <1>a, <2>1, <2>2 DEF PumpStore, HistoryType
<1>12. ASSUME NEW f \in net, Lose(f) PROVE HistoryType'
  <2>1. \/ Miss({f.to}, f.table)
        \/ missed' = missed \cup {f.from}
        \/ UNCHANGED missed
    BY <1>12, <1>a DEF Lose
  <2>2. missed' \in SUBSET Node
    BY <1>a, <1>d, <2>1 DEF HistoryType
  <2> QED
    BY <1>12, <1>a, <2>2 DEF Lose, HistoryType
<1>13. ASSUME NEW n \in Node, Restart(n) PROVE HistoryType'
  <2>1. Concerned(cmd[n].old, cmd[n].new) \in SUBSET Node /\ pump[n].to \in SUBSET Node
    BY <1>a, Targets
  <2>2. missed' \in SUBSET Node
    BY <1>13, <1>a, <2>1 DEF Restart, HistoryType
  <2> QED
    BY <1>13, <1>a, <2>2 DEF Restart, HistoryType
<1>14. CASE UNCHANGED vars
  BY <1>14, <1>a DEF vars, HistoryType
<1> QED
  BY <1>1, <1>2, <1>3, <1>4, <1>5, <1>6, <1>7, <1>8, <1>9, <1>10, <1>11, <1>12, <1>13, <1>14
     DEF Next, Commands, Pumping, Failing

LEMMA NextType == TypeOK /\ [Next]_vars => TypeOK'
BY NextCore, NextHistory DEF TypeOK, CoreType, HistoryType

\* The state always has the shape TypeOK gives it.
THEOREM TypeCorrect == Spec => []TypeOK
<1>1. Init => TypeOK
  <2> HAVE Init
  <2>1. CoreType
    BY Tables, Threads DEF Init, CoreType
  <2>2. HistoryType
    BY Tables DEF Init, HistoryType
  <2> QED
    BY <2>1, <2>2 DEF TypeOK, CoreType, HistoryType
<1> QED
  BY <1>1, NextType, PTL DEF Spec

-----------------------------------------------------------------------------
(* Every copy of a table belongs where it is. *)

\* Steps that write no copy and leave commands and frames alone, or drop frames.
LEMMA QuietCopies ==
    ASSUME CopiesAreOwn, UNCHANGED <<mem, db, pump>>, written \subseteq written'
    PROVE  CopiesAreOwn'
BY DEF CopiesAreOwn, Own

LEMMA QuietFrames ==
    ASSUME FramesAreWritten, net' \subseteq net, written \subseteq written'
    PROVE  FramesAreWritten'
BY DEF FramesAreWritten

LEMMA NextOwn ==
    ASSUME TypeOK, CopiesAreOwn, CommandsAreOwn, FramesAreWritten, [Next]_vars
    PROVE  CopiesAreOwn' /\ CommandsAreOwn' /\ FramesAreWritten'
<1> DEFINE Goal == CopiesAreOwn' /\ CommandsAreOwn' /\ FramesAreWritten'
<1>a. /\ \A n \in Node : mem[n] \in Table /\ db[n] \in Table /\ cmd[n] \in CmdState /\ pump[n] \in PumpState
      /\ \A f \in net : f.from \in Node /\ f.to \in Node /\ f.table \in Table
  BY FrameFields DEF TypeOK
<1>b. Creator \in Node /\ Creator \notin FanOutTargets(NoGroup, Creator)
      /\ \A t : Creator \notin FanOutTargets(t, Creator)
  BY CreatorInNode DEF FanOutTargets
<1>1. ASSUME NEW M \in SUBSET Node, CreateGroup(M) PROVE Goal
  <2> DEFINE t == [version |-> 1, members |-> M \cup {Creator}]
  <2>1. Creator \in t.members /\ t \in written' /\ written = {} /\ written \subseteq written'
    BY <1>1 DEF CreateGroup, CreatorWrites
  <2>2. mem' = [mem EXCEPT ![Creator] = t] /\ UNCHANGED <<db, pump, net>>
    BY <1>1 DEF CreateGroup, CreatorWrites
  <2>3. cmd' = [cmd EXCEPT ![Creator] = [pc |-> "store", old |-> NoGroup, new |-> t]]
    BY <1>1 DEF CreateGroup, CreatorWrites, SetCmd
  <2> HIDE DEF t
  <2>4. CopiesAreOwn'
    BY <2>1, <2>2 DEF CopiesAreOwn, Own, TypeOK
  <2>5. CommandsAreOwn'
    BY <1>b, <2>1, <2>3 DEF CommandsAreOwn, TypeOK
  <2> QED
    BY <2>1, <2>2, <2>4, <2>5, QuietFrames
<1>2. ASSUME NEW M \in SUBSET Node, UpdateRead(M) PROVE Goal
  <2>1. CommandsAreOwn'
    BY <1>2, <1>b DEF UpdateRead, SetCmd, CommandsAreOwn, TypeOK
  <2> QED
    BY <1>2, <2>1, QuietCopies, QuietFrames DEF UpdateRead
<1>3. CASE UpdateWrite
  <2>1. Creator \in cmd[Creator].new.members /\ cmd[Creator].new \in written' /\ written \subseteq written'
    BY <1>3 DEF UpdateWrite, CreatorWrites, CommandsAreOwn
  <2>2. CopiesAreOwn'
    BY <1>3, <2>1 DEF UpdateWrite, CreatorWrites, CopiesAreOwn, Own, TypeOK
  <2>3. CommandsAreOwn'
    BY <1>3, <1>a, <1>b, <2>1 DEF UpdateWrite, CreatorWrites, CommandsAreOwn, TypeOK, CmdState
  <2> QED
    BY <1>3, <2>1, <2>2, <2>3, QuietFrames DEF UpdateWrite, CreatorWrites
<1>4. CASE StoreTable
  <2>1. Creator \in cmd[Creator].new.members /\ cmd[Creator].new \in written
    BY <1>4 DEF StoreTable, CommandsAreOwn
  <2>2. CopiesAreOwn'
    BY <1>4, <2>1 DEF StoreTable, CopiesAreOwn, Own, TypeOK
  <2>3. cmd' \in {[cmd EXCEPT ![Creator].pc = "fanout"], [cmd EXCEPT ![Creator] = IdleCmd]}
    BY <1>4 DEF StoreTable
  <2>4. /\ cmd'[Creator].pc \in {"fanout", "idle"}
        /\ cmd'[Creator].pc = "fanout" => cmd'[Creator].new = cmd[Creator].new
    BY <1>a, <1>b, <2>3 DEF IdleCmd, TypeOK, CmdState
  <2>5. CommandsAreOwn'
    BY <1>4, <2>1, <2>4 DEF StoreTable, CommandsAreOwn
  <2> QED
    BY <1>4, <2>2, <2>5, QuietFrames DEF StoreTable
<1>5. CASE FanOutTable
  <2>1. PICK S : S \subseteq FanOutTargets(cmd[Creator].new, Creator) \cup FanOutTargets(cmd[Creator].old, Creator)
                 /\ net' = net \cup {Info(n, cmd[Creator].new) : n \in S}
    BY <1>5 DEF FanOutTable, Concerned
  <2>2. cmd[Creator].new \in written /\ Creator \notin S
    BY <1>5, <1>b, <2>1 DEF FanOutTable, CommandsAreOwn
  <2>3. FramesAreWritten'
    BY <1>5, <2>1, <2>2 DEF FanOutTable, FramesAreWritten, Info
  <2>4. CommandsAreOwn'
    BY <1>5, <1>b DEF FanOutTable, CommandsAreOwn, IdleCmd, TypeOK
  <2> QED
    BY <1>5, <2>3, <2>4, QuietCopies DEF FanOutTable
<1>6. ASSUME NEW n \in Node, LeaveGroup(n) PROVE Goal
  <2>1. CopiesAreOwn'
    BY <1>6 DEF LeaveGroup, CopiesAreOwn, Own, TypeOK
  <2>2. CommandsAreOwn'
    BY <1>6, <1>b DEF LeaveGroup, SetCmd, CommandsAreOwn, TypeOK
  <2> QED
    BY <1>6, <2>1, <2>2, QuietFrames DEF LeaveGroup
<1>7. ASSUME NEW n \in Node, DeleteRow(n) PROVE Goal
  <2>1. CopiesAreOwn'
    BY <1>7 DEF DeleteRow, CopiesAreOwn, Own, TypeOK
  <2>2. \/ cmd' = [cmd EXCEPT ![n] = IdleCmd]
        \/ n # Creator /\ cmd' = [cmd EXCEPT ![n].pc = "notify"]
    BY <1>7 DEF DeleteRow
  <2>3. cmd'[Creator] = cmd[Creator] \/ cmd'[Creator] = IdleCmd
    BY <1>b, <2>2 DEF TypeOK
  <2>4. CommandsAreOwn'
    BY <1>7, <2>3 DEF DeleteRow, CommandsAreOwn, IdleCmd
  <2> QED
    BY <1>7, <2>1, <2>4, QuietFrames DEF DeleteRow
<1>8. ASSUME NEW n \in Node, NotifyCreator(n) PROVE Goal
  <2>1. n # Creator
    BY <1>8 DEF NotifyCreator, CommandsAreOwn
  <2>2. FramesAreWritten'
    BY <1>8, <2>1 DEF NotifyCreator, FramesAreWritten, LeaveMsg
  <2>3. CommandsAreOwn'
    BY <1>8, <2>1 DEF NotifyCreator, CommandsAreOwn, TypeOK
  <2> QED
    BY <1>8, <2>2, <2>3, QuietCopies DEF NotifyCreator
<1>9. ASSUME NEW n \in Node, SendText(n) PROVE Goal
  <2>1. FramesAreWritten'
    BY <1>9 DEF SendText, FramesAreWritten, Text
  <2>2. CommandsAreOwn'
    BY <1>9 DEF SendText, CommandsAreOwn
  <2> QED
    BY <1>9, <2>1, <2>2, QuietCopies DEF SendText
<1>10. ASSUME NEW f \in net, IgnoreInfo(f) \/ Lose(f) \/ HandleText(f) PROVE Goal
  <2>1. UNCHANGED <<mem, db, pump, cmd, written>> /\ net' \subseteq net
    BY <1>10 DEF IgnoreInfo, Lose, HandleText, Receive
  <2> QED
    BY <2>1, QuietCopies, QuietFrames DEF CommandsAreOwn
<1>11. ASSUME NEW f \in net, AdoptInfo(f) PROVE Goal
  <2>1. f.table \in written /\ f.to \in f.table.members
    BY <1>11 DEF AdoptInfo, FramesAreWritten
  <2>2. CopiesAreOwn'
    BY <1>11, <1>a, <2>1 DEF AdoptInfo, CopiesAreOwn, Own, TypeOK
  <2> QED
    BY <1>11, <2>2, QuietFrames DEF AdoptInfo, Receive, CommandsAreOwn
<1>12. ASSUME NEW f \in net, RemovedByInfo(f) PROVE Goal
  <2>1. CopiesAreOwn'
    BY <1>12, <1>a DEF RemovedByInfo, CopiesAreOwn, Own, TypeOK
  <2> QED
    BY <1>12, <2>1, QuietFrames DEF RemovedByInfo, Receive, CommandsAreOwn
<1>13. ASSUME NEW f \in net, HandleLeave(f) PROVE Goal
  <2> DEFINE new == [version |-> mem[Creator].version + 1, members |-> mem[Creator].members \ {f.from}]
  <2>1. \/ UNCHANGED <<mem, written, pump>>
        \/ /\ Holds(Creator)
           /\ mem' = [mem EXCEPT ![Creator] = new] /\ written' = written \cup {new}
           /\ pump' = [pump EXCEPT ![Creator] =
                  [pc |-> "store", table |-> new, to |-> FanOutTargets(mem[Creator], Creator)]]
    BY <1>13 DEF HandleLeave, CreatorWrites
  <2>2. Holds(Creator) => Creator \in new.members
    BY <1>13, <1>b DEF HandleLeave, CreatorWrites, FramesAreWritten, Holds, CopiesAreOwn, Own
  <2>3. UNCHANGED <<db, cmd>> /\ net' \subseteq net
    BY <1>13 DEF HandleLeave, CreatorWrites, Receive
  <2> HIDE DEF new
  <2>4. CopiesAreOwn'
    BY <1>b, <2>1, <2>2, <2>3 DEF CopiesAreOwn, Own, TypeOK
  <2>5. written \subseteq written'
    BY <2>1
  <2> QED
    BY <2>3, <2>4, <2>5, QuietFrames DEF CommandsAreOwn
<1>14. ASSUME NEW n \in Node, PumpStore(n) PROVE Goal
  <2>1. PICK S : S \subseteq pump[n].to /\ net' = net \cup {Info(m, pump[n].table) : m \in S}
    BY <1>14 DEF PumpStore
  <2>2. S # {} => pump[n].table \in written /\ Creator \notin S
    BY <2>1 DEF CopiesAreOwn
  <2>3. FramesAreWritten'
    BY <1>14, <2>1, <2>2 DEF PumpStore, FramesAreWritten, Info
  <2>4. CopiesAreOwn'
    BY <1>14 DEF PumpStore, CopiesAreOwn, Own, IdlePump, TypeOK
  <2> QED
    BY <1>14, <2>3, <2>4 DEF PumpStore, CommandsAreOwn
<1>15. ASSUME NEW n \in Node, Restart(n) PROVE Goal
  <2>1. CopiesAreOwn'
    BY <1>15 DEF Restart, CopiesAreOwn, Own, IdlePump, TypeOK
  <2>2. CommandsAreOwn'
    BY <1>15, <1>b DEF Restart, IdleCmd, CommandsAreOwn, TypeOK
  <2> QED
    BY <1>15, <2>1, <2>2, QuietFrames DEF Restart
<1>16. CASE UNCHANGED vars
  BY <1>16, QuietCopies, QuietFrames DEF vars, CommandsAreOwn
<1> QED
  BY <1>1, <1>2, <1>3, <1>4, <1>5, <1>6, <1>7, <1>8, <1>9, <1>10, <1>11, <1>12, <1>13, <1>14,
     <1>15, <1>16 DEF Next, Commands, Pumping, Failing

LEMMA AlwaysOwn == Spec => [](CopiesAreOwn /\ CommandsAreOwn /\ FramesAreWritten)
<1>1. Init => CopiesAreOwn /\ CommandsAreOwn /\ FramesAreWritten
  BY CreatorInNode DEF Init, CopiesAreOwn, Own, CommandsAreOwn, FramesAreWritten, IdleCmd, IdlePump
<1>2. TypeOK /\ CopiesAreOwn /\ CommandsAreOwn /\ FramesAreWritten /\ [Next]_vars
        => CopiesAreOwn' /\ CommandsAreOwn' /\ FramesAreWritten'
  BY NextOwn
<1> QED
  BY <1>1, <1>2, TypeCorrect, PTL DEF Spec

\* Whoever holds the group holds a table of the creator's that names it.
THEOREM HoldersCorrect == Spec => []HoldersAreMembers
<1>1. CopiesAreOwn => HoldersAreMembers
  BY DEF CopiesAreOwn, Own, HoldersAreMembers, Holds
<1> QED
  BY <1>1, AlwaysOwn, PTL

-----------------------------------------------------------------------------
(* Group texts. *)

LEMMA NextHeard ==
    ASSUME TypeOK, CopiesAreOwn, HeardTogether, [Next]_vars
    PROVE  HeardTogether'
<1>1. ASSUME NEW f \in net, HandleText(f), Holds(f.to) /\ f.from \in mem[f.to].members
      PROVE  HeardTogether'
  <2>1. f.to \in mem[f.to].members /\ mem[f.to] \in written
    BY <1>1, FrameFields DEF TypeOK, CopiesAreOwn, Own, Holds
  <2>2. heard' = heard \cup {<<f.to, f.from>>} /\ written' = written
    BY <1>1 DEF HandleText
  <2> QED
    BY <1>1, <2>1, <2>2 DEF HeardTogether
<1>2. ASSUME heard' = heard, written \subseteq written'
      PROVE  HeardTogether'
  BY <1>2 DEF HeardTogether
<1>3. \/ \E f \in net : HandleText(f) /\ Holds(f.to) /\ f.from \in mem[f.to].members
      \/ heard' = heard /\ written \subseteq written'
  BY DEF Next, vars, Commands, CreateGroup, CreatorWrites, UpdateRead, UpdateWrite, StoreTable, FanOutTable,
         LeaveGroup, DeleteRow, NotifyCreator, SendText, Pumping, IgnoreInfo, AdoptInfo,
         RemovedByInfo, HandleLeave, HandleText, PumpStore, Failing, Lose, Restart
<1> QED
  BY <1>1, <1>2, <1>3

\* A text is shown only between devices the creator put into one table.
THEOREM HeardCorrect == Spec => []HeardTogether
<1>1. Init => HeardTogether
  BY DEF Init, HeardTogether
<1>2. TypeOK /\ CopiesAreOwn /\ HeardTogether /\ [Next]_vars => HeardTogether'
  BY NextHeard
<1> QED
  BY <1>1, <1>2, TypeCorrect, AlwaysOwn, PTL DEF Spec

-----------------------------------------------------------------------------
(* Until a fork the creator goes on from its newest table. *)

\* The creator's memory takes the table after the one it holds, or its first.
GoesOn(new) ==
    /\ CreatorWrites(mem[Creator], new)
    /\ Holds(Creator) \/ written = {}
    /\ Creator \in new.members /\ new.version = mem[Creator].version + 1

LEMMA NewVersion ==
    ASSUME TypeOK, CreatorIsNewest, ~forked, NEW new \in Table, GoesOn(new)
    PROVE  /\ \A t \in written : t.version < new.version
           /\ mem'[Creator] = new /\ written' = written \cup {new} /\ new.version > 0
<1>1. /\ Creator \in Node /\ mem \in [Node -> Table] /\ written \in SUBSET Table
      /\ \A t \in Table : t.version \in Nat
  BY CreatorInNode, Tables DEF TypeOK
<1> QED
  BY <1>1 DEF CreatorIsNewest, CreatorWrites, GoesOn

\* The three steps that do so until a fork: the first table, an update, a departure.
LEMMA CreateGoesOn ==
    ASSUME TypeOK, CopiesAreOwn, NEW M \in SUBSET Node, CreateGroup(M)
    PROVE  \E t \in Table :
              /\ GoesOn(t) /\ UNCHANGED <<db, pump, net, heard, forked, unsaved, seen>>
              /\ cmd[Creator] = IdleCmd
              /\ cmd' = [cmd EXCEPT ![Creator] = [pc |-> "store", old |-> mem[Creator], new |-> t]]
<1> DEFINE t == [version |-> 1, members |-> M \cup {Creator}]
<1>1. M \cup {Creator} \in SUBSET Node
  BY CreatorInNode
<1>2. t \in Table /\ NoGroup.version = 0
  BY <1>1, Tables DEF NoGroup
<1>3. written = {} /\ CreatorWrites(NoGroup, t) /\ UNCHANGED <<db, pump, net, heard, forked, unsaved, seen>>
  BY DEF CreateGroup
<1>4. mem[Creator] = NoGroup
  BY <1>3, CreatorInNode DEF CopiesAreOwn, Own
<1>5. GoesOn(t)
  BY <1>2, <1>3, <1>4 DEF GoesOn
<1>6. /\ cmd[Creator] = IdleCmd
      /\ cmd' = [cmd EXCEPT ![Creator] = [pc |-> "store", old |-> mem[Creator], new |-> t]]
  BY <1>4 DEF CreateGroup, CanStart, SetCmd
<1> HIDE DEF t
<1> QED
  BY <1>2, <1>3, <1>5, <1>6

LEMMA UpdateGoesOn ==
    ASSUME TypeOK, CommandsAreOwn, CreatorIsNewest, UpdateWrite, ~forked'
    PROVE  /\ ~forked /\ cmd[Creator].new \in Table /\ GoesOn(cmd[Creator].new)
           /\ cmd[Creator].old = mem[Creator] /\ cmd[Creator].pc = "write"
<1>1. cmd[Creator] \in CmdState
  BY CreatorInNode DEF TypeOK
<1>2. /\ CreatorWrites(cmd[Creator].old, cmd[Creator].new) /\ ~forked /\ mem[Creator] = cmd[Creator].old
      /\ cmd[Creator].pc = "write"
  BY DEF UpdateWrite
<1>3. cmd[Creator].new \in Table /\ Creator \in cmd[Creator].new.members
  BY <1>1, <1>2 DEF CmdState, CommandsAreOwn
<1> QED
  BY <1>2, <1>3 DEF GoesOn, CreatorIsNewest, Holds

LEMMA LeaveGoesOn ==
    ASSUME TypeOK, CopiesAreOwn, FramesAreWritten, NEW f \in net, HandleLeave(f)
    PROVE  \/ /\ UNCHANGED <<mem, written, owed, pump, missed>>
              /\ ~(Holds(Creator) /\ f.from \in mem[Creator].members)
           \/ \E new \in Table :
                 /\ GoesOn(new) /\ new.members = mem[Creator].members \ {f.from}
                 /\ f.from \in mem[Creator].members /\ pump[Creator] = IdlePump
                 /\ pump' = [pump EXCEPT ![Creator] =
                       [pc |-> "store", table |-> new, to |-> FanOutTargets(mem[Creator], Creator)]]
<1> DEFINE new == [version |-> mem[Creator].version + 1, members |-> mem[Creator].members \ {f.from}]
<1>1. CASE ~(Holds(Creator) /\ f.from \in mem[Creator].members)
  BY <1>1 DEF HandleLeave
<1>2. CASE Holds(Creator) /\ f.from \in mem[Creator].members
  <2>1. /\ CreatorWrites(mem[Creator], new) /\ f.to = Creator /\ pump[f.to] = IdlePump
        /\ pump' = [pump EXCEPT ![Creator] =
                       [pc |-> "store", table |-> new, to |-> FanOutTargets(mem[Creator], Creator)]]
    BY <1>2 DEF HandleLeave, Receive, FramesAreWritten
  <2>2. Creator \in new.members
    BY <1>2, CreatorInNode DEF HandleLeave, FramesAreWritten, CopiesAreOwn, Own, Holds
  <2>3. mem[Creator] \in Table /\ mem[Creator].members \ {f.from} \in SUBSET Node
    BY CreatorInNode, Tables DEF TypeOK
  <2>4. new \in Table
    BY <2>3, Tables
  <2>5. GoesOn(new) /\ new.members = mem[Creator].members \ {f.from}
    BY <1>2, <2>1, <2>2 DEF GoesOn
  <2> HIDE DEF new
  <2> QED
    BY <1>2, <2>1, <2>4, <2>5
<1> QED
  BY <1>1, <1>2

\* What a step does to the creator's table and to the history of its tables.
LEMMA CreatorSteps ==
    ASSUME TypeOK, CopiesAreOwn, CommandsAreOwn, FramesAreWritten, CreatorIsNewest, [Next]_vars, ~forked'
    PROVE  /\ ~forked
           /\ \/ \E new \in Table : GoesOn(new)
              \/ written' = written /\ owed' = owed /\ mem'[Creator] \in {mem[Creator], NoGroup}
<1> DEFINE Goal == /\ ~forked
                   /\ \/ \E new \in Table : GoesOn(new)
                      \/ written' = written /\ owed' = owed /\ mem'[Creator] \in {mem[Creator], NoGroup}
<1>a. Creator \in Node /\ mem \in [Node -> Table] /\ \A f \in net : f.to \in Node
  BY CreatorInNode, FrameFields DEF TypeOK
<1>1. ASSUME NEW M \in SUBSET Node, CreateGroup(M) PROVE Goal
  BY <1>1, CreateGoesOn
<1>2. CASE UpdateWrite
  BY <1>2, UpdateGoesOn
<1>3. ASSUME NEW f \in net, HandleLeave(f) PROVE Goal
  <2>1. forked' = forked
    BY <1>3 DEF HandleLeave
  <2> QED
    BY <1>3, <2>1, LeaveGoesOn
<1>4. ASSUME NEW n \in Node, LeaveGroup(n) PROVE Goal
  BY <1>4, <1>a DEF LeaveGroup
<1>5. ASSUME NEW f \in net, AdoptInfo(f) \/ RemovedByInfo(f) PROVE Goal
  <2>1. f.to # Creator
    BY <1>5 DEF AdoptInfo, RemovedByInfo, FramesAreWritten
  <2> QED
    BY <1>5, <1>a, <2>1 DEF AdoptInfo, RemovedByInfo
<1>6. ASSUME NEW n \in Node, Restart(n) PROVE Goal
  BY <1>6, <1>a DEF Restart
<1>7. CASE UNCHANGED <<mem, written, owed, forked>>
  BY <1>7
<1> QED
  BY <1>1, <1>2, <1>3, <1>4, <1>5, <1>6, <1>7
     DEF Next, vars, Commands, UpdateRead, StoreTable, FanOutTable, DeleteRow, NotifyCreator, SendText,
         Pumping, IgnoreInfo, HandleText, PumpStore, Failing, Lose

\* Every version is positive, and an update under way counts up from a table.
LEMMA NextVersions ==
    ASSUME TypeOK, CreatorIsNewest, [Next]_vars
    PROVE  /\ \A t \in written' : t.version > 0
           /\ cmd'[Creator].pc = "write" => /\ cmd'[Creator].old # NoGroup
                                            /\ cmd'[Creator].new.version = cmd'[Creator].old.version + 1
<1> DEFINE Positive == \A t \in written' : t.version > 0
           Counts == cmd'[Creator].pc = "write" =>
                        /\ cmd'[Creator].old # NoGroup
                        /\ cmd'[Creator].new.version = cmd'[Creator].old.version + 1
<1>a. /\ Creator \in Node /\ mem[Creator].version \in Nat /\ cmd \in [Node -> CmdState]
      /\ cmd[Creator].old.version \in Nat
      /\ \A t \in written : t.version > 0 /\ t.version \in Nat
  BY CreatorInNode, Tables, Threads DEF TypeOK, CreatorIsNewest, CmdPc
<1>1. Positive
  <2>1. ASSUME NEW M \in SUBSET Node, CreateGroup(M) PROVE Positive
    BY <2>1 DEF CreateGroup, CreatorWrites
  <2>2. CASE UpdateWrite
    BY <1>a, <2>2 DEF UpdateWrite, CreatorWrites, CreatorIsNewest
  <2>3. ASSUME NEW f \in net, HandleLeave(f) PROVE Positive
    BY <1>a, <2>3 DEF HandleLeave, CreatorWrites
  <2>4. CASE written' = written
    BY <1>a, <2>4
  <2> QED
    BY <2>1, <2>2, <2>3, <2>4
       DEF Next, vars, Commands, UpdateRead, StoreTable, FanOutTable, LeaveGroup, DeleteRow,
           NotifyCreator, SendText, Pumping, IgnoreInfo, AdoptInfo, RemovedByInfo, HandleText, PumpStore,
           Failing, Lose, Restart
<1>2. Counts
  <2>1. ASSUME NEW M \in SUBSET Node, UpdateRead(M) PROVE Counts
    BY <1>a, <2>1 DEF UpdateRead, SetCmd, Holds
  <2>2. CASE cmd'[Creator] = cmd[Creator] \/ cmd'[Creator].pc # "write"
    BY <2>2 DEF CreatorIsNewest
  <2>3. ASSUME NEW M \in SUBSET Node, CreateGroup(M) PROVE cmd'[Creator].pc # "write"
    BY <1>a, <2>3 DEF CreateGroup, SetCmd
  \* A command that ends, or goes on to another of its steps.
  <2>a. ASSUME NEW n \in Node, cmd' = [cmd EXCEPT ![n] = IdleCmd] PROVE Counts
    BY <1>a, <2>2, <2>a DEF IdleCmd
  <2>b. ASSUME NEW n \in Node, NEW pc \in CmdPc \ {"write"}, cmd' = [cmd EXCEPT ![n].pc = pc] PROVE Counts
    <3>1. cmd'[Creator] = cmd[Creator] \/ cmd'[Creator].pc = pc
      BY <1>a, <2>b DEF CmdState
    <3> QED
      BY <2>2, <2>b, <3>1
  <2>4. CASE UpdateWrite \/ StoreTable \/ FanOutTable
    BY <1>a, <2>a, <2>b, <2>4 DEF UpdateWrite, StoreTable, FanOutTable, CmdPc
  <2>5. ASSUME NEW n \in Node, LeaveGroup(n) \/ DeleteRow(n) \/ NotifyCreator(n) \/ Restart(n) PROVE Counts
    <3>1. CASE LeaveGroup(n)
      BY <1>a, <2>2, <3>1 DEF LeaveGroup, SetCmd
    <3>2. CASE DeleteRow(n)
      BY <2>a, <2>b, <2>5, <3>2 DEF DeleteRow, CmdPc
    <3>3. CASE NotifyCreator(n) \/ Restart(n)
      BY <2>a, <3>3 DEF NotifyCreator, Restart
    <3> QED
      BY <2>5, <3>1, <3>2, <3>3
  <2>6. CASE cmd' = cmd
    BY <2>2, <2>6
  <2> QED
    BY <2>1, <2>2, <2>3, <2>4, <2>5, <2>6
       DEF Next, vars, Commands, SendText, Pumping, IgnoreInfo, AdoptInfo, RemovedByInfo, HandleLeave,
           HandleText, PumpStore, Failing, Lose
<1> QED
  BY <1>1, <1>2

LEMMA NextNewest ==
    ASSUME TypeOK, CopiesAreOwn, CommandsAreOwn, FramesAreWritten, CreatorIsNewest, [Next]_vars
    PROVE  CreatorIsNewest'
<1>1. ASSUME ~forked', Holds(Creator)' PROVE \A t \in written' : t.version <= mem'[Creator].version
  <2>1. CASE \E new \in Table : GoesOn(new)
    <3>1. PICK new \in Table : GoesOn(new)
      BY <2>1
    <3>2. new.version \in Nat /\ \A t \in written : t.version \in Nat
      BY Tables DEF TypeOK
    <3> QED
      BY <1>1, <3>1, <3>2, NewVersion, CreatorSteps
  <2>2. CASE written' = written /\ mem'[Creator] \in {mem[Creator], NoGroup}
    BY <1>1, <2>2, CreatorSteps DEF CreatorIsNewest, Holds
  <2> QED
    BY <1>1, <2>1, <2>2, CreatorSteps
<1> QED
  BY <1>1, NextVersions DEF CreatorIsNewest

LEMMA AlwaysNewest == Spec => []CreatorIsNewest
<1>1. Init => CreatorIsNewest
  BY CreatorInNode DEF Init, CreatorIsNewest, Holds, IdleCmd
<1>2. TypeOK /\ CopiesAreOwn /\ CommandsAreOwn /\ FramesAreWritten /\ CreatorIsNewest /\ [Next]_vars
        => CreatorIsNewest'
  BY NextNewest
<1> QED
  BY <1>1, <1>2, TypeCorrect, AlwaysOwn, PTL DEF Spec

LEMMA NextDetermined ==
    ASSUME TypeOK, CopiesAreOwn, CommandsAreOwn, FramesAreWritten, CreatorIsNewest,
           VersionDeterminesTable, [Next]_vars
    PROVE  VersionDeterminesTable'
<1> SUFFICES ASSUME ~forked' PROVE VersionDeterminesTable'
  BY DEF VersionDeterminesTable
<1>1. ASSUME NEW new \in Table, GoesOn(new) PROVE VersionDeterminesTable'
  <2>1. \A t \in written : t.version \in Nat /\ t.version # new.version
    BY <1>1, CreatorSteps, NewVersion, Tables DEF TypeOK
  <2>2. written' = written \cup {new} /\ ~forked
    BY <1>1, CreatorSteps, NewVersion
  <2> QED
    BY <2>1, <2>2 DEF VersionDeterminesTable
<1> QED
  BY <1>1, CreatorSteps DEF VersionDeterminesTable

\* A version stands for one table, until the creator goes on from a table that is not its
\* newest; whatever overlaps, fails or restarts.
THEOREM VersionsCorrect == Spec => []VersionDeterminesTable
<1>1. Init => VersionDeterminesTable
  BY DEF Init, VersionDeterminesTable
<1>2. TypeOK /\ CopiesAreOwn /\ CommandsAreOwn /\ FramesAreWritten /\ CreatorIsNewest
        /\ VersionDeterminesTable /\ [Next]_vars => VersionDeterminesTable'
  BY NextDetermined
<1> QED
  BY <1>1, <1>2, TypeCorrect, AlwaysOwn, AlwaysNewest, PTL DEF Spec

-----------------------------------------------------------------------------
(* Until a fork the group implements GroupLedger. *)

LEMMA LedgerStep ==
    ASSUME TypeOK, CopiesAreOwn, CommandsAreOwn, FramesAreWritten, CreatorIsNewest, [Next]_vars
    PROVE  [Ledger!Next \/ Reload \/ forked']_<<written, mem>>
<1> SUFFICES ASSUME ~forked', ~UNCHANGED <<written, mem>> PROVE Ledger!Next \/ Reload
  OBVIOUS
<1>a. /\ Creator \in Node /\ mem[Creator] \in Table
      /\ \A t \in Table : t.version \in Nat /\ t.members \in SUBSET Node
      /\ written \in SUBSET Table
      /\ \A f \in net : f.to \in Node /\ f.from \in Node
      /\ NoGroup.version = 0 /\ Ledger!NoGroup = NoGroup
  BY CreatorInNode, Tables, FrameFields DEF TypeOK, NoGroup, Ledger!NoGroup
<1>1. ASSUME NEW new \in Table, GoesOn(new) PROVE Ledger!Next
  <2>1. /\ new = [version |-> mem[Creator].version + 1, members |-> new.members]
        /\ new.members \in SUBSET Node /\ Creator \in new.members
    BY <1>1, <1>a DEF GoesOn, Table
  <2>2. \A u \in written : u.version <= mem[Creator].version
    BY <1>1, CreatorSteps DEF GoesOn, CreatorIsNewest
  <2>3. mem' = [mem EXCEPT ![Creator] = new] /\ written' = written \cup {new}
    BY <1>1 DEF GoesOn, CreatorWrites
  <2>4. Ledger!Write(new.members)
    BY <1>a, <2>1, <2>2, <2>3 DEF Ledger!Write
  <2> QED
    BY <2>1, <2>4 DEF Ledger!Next
<1>2. CASE written' = written
  \* A device that gives up its table.
  <2>a. ASSUME NEW n \in Node, mem' = [mem EXCEPT ![n] = NoGroup] PROVE Ledger!Next
    BY <1>2, <1>a, <2>a DEF Ledger!Next, Ledger!Drop
  <2>1. ASSUME NEW n \in Node, LeaveGroup(n) PROVE Ledger!Next
    BY <2>1, <2>a DEF LeaveGroup
  <2>2. ASSUME NEW f \in net, RemovedByInfo(f) PROVE Ledger!Next
    BY <1>a, <2>2, <2>a DEF RemovedByInfo
  <2>3. ASSUME NEW f \in net, AdoptInfo(f) PROVE Ledger!Next
    <3>1. /\ f.to # Creator /\ f.table \in written /\ f.to \in f.table.members
          /\ mem' = [mem EXCEPT ![f.to] = f.table]
      BY <2>3 DEF AdoptInfo, FramesAreWritten
    <3>2. f.table.version > mem[f.to].version
      <4>1. CASE Holds(f.to)
        BY <2>3, <4>1 DEF AdoptInfo
      <4>2. CASE ~Holds(f.to)
        BY <1>a, <3>1, <4>2 DEF Holds, CreatorIsNewest
      <4> QED
        BY <4>1, <4>2
    <3>3. Ledger!Adopt(f.to, f.table)
      BY <1>2, <3>1, <3>2 DEF Ledger!Adopt
    <3> QED
      BY <1>a, <2>3, <3>1, <3>3 DEF Ledger!Next
  <2>4. ASSUME NEW n \in Node, Restart(n) PROVE Reload
    BY <1>2, <2>4 DEF Restart, Reload
  \* A table is new to the ledger.
  <2>5. ASSUME NEW M \in SUBSET Node, CreateGroup(M) PROVE FALSE
    BY <1>2, <2>5 DEF CreateGroup, CreatorWrites
  <2>6. ASSUME NEW new, new \in written, Holds(Creator), new.version = mem[Creator].version + 1 PROVE FALSE
    BY <1>a, <2>6, CreatorSteps DEF CreatorIsNewest
  <2>7. ~UpdateWrite
    <3>1. UpdateWrite => /\ cmd[Creator].new \in written /\ mem[Creator] = cmd[Creator].old
                         /\ cmd[Creator].pc = "write"
      BY <1>2 DEF UpdateWrite, CreatorWrites
    <3> QED
      BY <2>6, <3>1 DEF CreatorIsNewest, Holds
  <2>8. ASSUME NEW f \in net, HandleLeave(f) PROVE FALSE
    <3> DEFINE new == [version |-> mem[Creator].version + 1, members |-> mem[Creator].members \ {f.from}]
    <3>1. Holds(Creator) /\ new \in written
      BY <1>2, <2>8 DEF HandleLeave, CreatorWrites
    <3>2. new.version = mem[Creator].version + 1
      OBVIOUS
    <3> HIDE DEF new
    <3> QED
      BY <2>6, <3>1, <3>2
  <2> QED
    BY <1>2, <2>1, <2>2, <2>3, <2>4, <2>5, <2>7, <2>8
       DEF Next, vars, Commands, UpdateRead, StoreTable, FanOutTable, DeleteRow, NotifyCreator, SendText,
           Pumping, IgnoreInfo, HandleText, PumpStore, Failing, Lose
<1> QED
  BY <1>1, <1>2, CreatorSteps

\* Until the creator goes on from a table that is not its newest, the group is a ledger,
\* whatever overlaps, gets lost or overtaken, fails or restarts: one writer, versions
\* counted up, copies only newer or back from the row.
THEOREM LedgerCorrect == Spec => LedgerSpec
<1>1. Init => Ledger!Init
  BY DEF Init, Ledger!Init, NoGroup, Ledger!NoGroup
<1>2. TypeOK /\ CopiesAreOwn /\ CommandsAreOwn /\ FramesAreWritten /\ CreatorIsNewest /\ [Next]_vars
        => [Ledger!Next \/ Reload \/ forked']_<<written, mem>>
  BY LedgerStep
<1> QED
  BY <1>1, <1>2, TypeCorrect, AlwaysOwn, AlwaysNewest, PTL DEF Spec, LedgerSpec

-----------------------------------------------------------------------------
(* The row follows the memory, or the bookkeeping knows why not. *)

RowFollows(n) == db[n] = mem[n] \/ n \in unsaved \/ CmdOwesRow(n) \/ PumpOwesRow(n)

RowInv == \A n \in Node : RowFollows(n)

\* One device has made a step.
LEMMA OneRowMoves ==
    ASSUME RowInv, NEW n \in Node, RowFollows(n)',
           \A m \in Node : m # n => UNCHANGED <<mem[m], db[m], cmd[m], pump[m]>> /\ (m \in unsaved => m \in unsaved')
    PROVE  RowInv'
<1> SUFFICES ASSUME NEW m \in Node, m # n PROVE RowFollows(m)'
  BY DEF RowInv
<1>1. RowFollows(m)
  BY DEF RowInv
<1> QED
  BY <1>1 DEF RowFollows, CmdOwesRow, PumpOwesRow

\* The row of n was to become t.
LEMMA RowWritten ==
    ASSUME TypeOK, RowInv, NEW n \in Node, NEW t, NEW done \in BOOLEAN, NEW other \in BOOLEAN,
           RowWrite(n, t, done, other), UNCHANGED mem,
           db' = (IF done THEN [db EXCEPT ![n] = t] ELSE db),
           other => CmdOwesRow(n)' \/ PumpOwesRow(n)',
           \A m \in Node : m # n => UNCHANGED <<cmd[m], pump[m]>>
    PROVE  RowInv'
<1>1. /\ \A m \in Node : m # n => db'[m] = db[m] /\ (m \in unsaved => m \in unsaved')
      /\ done => db'[n] = t
  BY DEF RowWrite, TypeOK
<1>2. db'[n] = mem[n] \/ n \in unsaved' \/ other
  BY <1>1 DEF RowWrite
<1>3. RowFollows(n)'
  BY <1>2 DEF RowFollows
<1> QED
  BY <1>1, <1>3, OneRowMoves

LEMMA NextRow ==
    ASSUME TypeOK, FramesAreWritten, RowInv, [Next]_vars
    PROVE  RowInv'
<1>a. /\ mem \in [Node -> Table] /\ db \in [Node -> Table]
      /\ cmd \in [Node -> CmdState] /\ pump \in [Node -> PumpState]
      /\ Creator \in Node /\ \A f \in net : f.to \in Node
  BY CreatorInNode, FrameFields DEF TypeOK
<1>b. \A n \in Node : RowFollows(n)
  BY DEF RowInv
<1>1. ASSUME NEW M \in SUBSET Node, CreateGroup(M) PROVE RowInv'
  <2> DEFINE t == [version |-> 1, members |-> M \cup {Creator}]
  <2>1. /\ mem' = [mem EXCEPT ![Creator] = t] /\ UNCHANGED <<db, pump, unsaved>>
        /\ cmd' = [cmd EXCEPT ![Creator] = [pc |-> "store", old |-> NoGroup, new |-> t]]
    BY <1>1 DEF CreateGroup, CreatorWrites, SetCmd
  <2> HIDE DEF t
  <2>2. RowFollows(Creator)'
    BY <1>a, <2>1 DEF RowFollows, CmdOwesRow
  <2> QED
    BY <1>a, <2>1, <2>2, OneRowMoves
\* A command that works on the row only later.
<1>2. ASSUME NEW n \in Node, NEW k, cmd' = [cmd EXCEPT ![n] = k], ~CmdOwesRow(n),
             UNCHANGED <<mem, db, pump, unsaved>>
      PROVE  RowInv'
  <2>1. RowFollows(n)'
    BY <1>a, <1>b, <1>2 DEF RowFollows, PumpOwesRow
  <2> QED
    BY <1>a, <1>2, <2>1, OneRowMoves
<1>3. ASSUME NEW M \in SUBSET Node, UpdateRead(M) PROVE RowInv'
  <2>1. ~CmdOwesRow(Creator)
    BY <1>3 DEF UpdateRead, CanStart, CmdOwesRow, IdleCmd
  <2> QED
    BY <1>2, <1>3, <1>a, <2>1 DEF UpdateRead, SetCmd
<1>4. CASE UpdateWrite
  <2>1. /\ mem' = [mem EXCEPT ![Creator] = cmd[Creator].new] /\ UNCHANGED <<db, pump, unsaved>>
        /\ cmd' = [cmd EXCEPT ![Creator].pc = "store"]
    BY <1>4 DEF UpdateWrite, CreatorWrites
  <2>2. cmd'[Creator].pc = "store" /\ cmd'[Creator].new = mem'[Creator]
    BY <1>a, <2>1 DEF CmdState
  <2>3. RowFollows(Creator)'
    BY <2>2 DEF RowFollows, CmdOwesRow
  <2> QED
    BY <1>a, <2>1, <2>3, OneRowMoves
<1>5. CASE StoreTable
  <2> DEFINE new == cmd[Creator].new
  <2>1. PICK done \in BOOLEAN :
                              /\ db' = (IF done THEN [db EXCEPT ![Creator] = new] ELSE db)
                              /\ RowWrite(Creator, new, done, PumpOwesRow(Creator))
    BY <1>5 DEF StoreTable
  <2>2. PumpOwesRow(Creator) \in BOOLEAN /\ (PumpOwesRow(Creator) => PumpOwesRow(Creator)')
    BY <1>5 DEF StoreTable, PumpOwesRow
  <2>3. UNCHANGED <<mem, pump>> /\ \A m \in Node : m # Creator => cmd'[m] = cmd[m]
    BY <1>5, <1>a DEF StoreTable
  <2> QED
    BY <1>a, <2>1, <2>2, <2>3, RowWritten
<1>6. CASE FanOutTable
  BY <1>2, <1>6, <1>a DEF FanOutTable, CmdOwesRow
<1>7. ASSUME NEW n \in Node, LeaveGroup(n) PROVE RowInv'
  <2>1. /\ mem' = [mem EXCEPT ![n] = NoGroup] /\ UNCHANGED <<db, pump, unsaved>>
        /\ cmd' = [cmd EXCEPT ![n] = [pc |-> "delete", old |-> NoGroup, new |-> NoGroup]]
    BY <1>7 DEF LeaveGroup, SetCmd
  <2>2. RowFollows(n)'
    BY <1>a, <2>1 DEF RowFollows, CmdOwesRow
  <2> QED
    BY <1>a, <2>1, <2>2, OneRowMoves
<1>8. ASSUME NEW n \in Node, DeleteRow(n) PROVE RowInv'
  <2>1. PICK done \in BOOLEAN :
                              /\ db' = (IF done THEN [db EXCEPT ![n] = NoGroup] ELSE db)
                              /\ RowWrite(n, NoGroup, done, PumpOwesRow(n))
    BY <1>8 DEF DeleteRow
  <2>2. PumpOwesRow(n) \in BOOLEAN /\ (PumpOwesRow(n) => PumpOwesRow(n)')
    BY <1>8 DEF DeleteRow, PumpOwesRow
  <2>3. UNCHANGED <<mem, pump>> /\ \A m \in Node : m # n => cmd'[m] = cmd[m]
    BY <1>8, <1>a DEF DeleteRow
  <2> QED
    BY <1>a, <2>1, <2>2, <2>3, RowWritten
<1>9. ASSUME NEW n \in Node, NotifyCreator(n) PROVE RowInv'
  BY <1>2, <1>9, <1>a DEF NotifyCreator, CmdOwesRow
\* The pump works on the memory.
<1>10. ASSUME NEW n \in Node, NEW t, NEW S, mem' = [mem EXCEPT ![n] = t],
              pump' = [pump EXCEPT ![n] = [pc |-> "store", table |-> t, to |-> S]],
              UNCHANGED <<db, cmd, unsaved>>
       PROVE  RowInv'
  <2>1. RowFollows(n)'
    BY <1>a, <1>10 DEF RowFollows, PumpOwesRow
  <2> QED
    BY <1>a, <1>10, <2>1, OneRowMoves
<1>11. ASSUME NEW f \in net, AdoptInfo(f) \/ RemovedByInfo(f) PROVE RowInv'
  BY <1>10, <1>11, <1>a DEF AdoptInfo, RemovedByInfo
<1>12. CASE UNCHANGED <<mem, db, cmd, pump, unsaved>>
  BY <1>12 DEF RowInv, RowFollows, CmdOwesRow, PumpOwesRow
<1>13. ASSUME NEW f \in net, HandleLeave(f) PROVE RowInv'
  <2> DEFINE new == [version |-> mem[Creator].version + 1, members |-> mem[Creator].members \ {f.from}]
  <2>1. UNCHANGED <<db, cmd, unsaved>>
    BY <1>13 DEF HandleLeave
  <2>2. \/ UNCHANGED <<mem, pump>>
        \/ /\ mem' = [mem EXCEPT ![Creator] = new]
           /\ pump' = [pump EXCEPT ![Creator] =
                  [pc |-> "store", table |-> new, to |-> FanOutTargets(mem[Creator], Creator)]]
    BY <1>13 DEF HandleLeave, CreatorWrites
  <2> HIDE DEF new
  <2> QED
    BY <1>10, <1>12, <1>a, <2>1, <2>2
<1>14. ASSUME NEW n \in Node, PumpStore(n) PROVE RowInv'
  <2>1. PICK done \in BOOLEAN :
                              /\ db' = (IF done THEN [db EXCEPT ![n] = pump[n].table] ELSE db)
                              /\ RowWrite(n, pump[n].table, done, CmdOwesRow(n))
    BY <1>14 DEF PumpStore
  <2>2. CmdOwesRow(n) \in BOOLEAN /\ (CmdOwesRow(n) => CmdOwesRow(n)')
    BY <1>14 DEF PumpStore, CmdOwesRow
  <2>3. UNCHANGED <<mem, cmd>> /\ \A m \in Node : m # n => pump'[m] = pump[m]
    BY <1>14, <1>a DEF PumpStore
  <2> QED
    BY <1>a, <2>1, <2>2, <2>3, RowWritten
<1>15. ASSUME NEW n \in Node, Restart(n) PROVE RowInv'
  <2>1. RowFollows(n)'
    BY <1>a, <1>15 DEF Restart, RowFollows
  <2> QED
    BY <1>a, <1>15, <2>1, OneRowMoves DEF Restart
<1> QED
  BY <1>1, <1>3, <1>4, <1>5, <1>6, <1>7, <1>8, <1>9, <1>11, <1>12, <1>13, <1>14, <1>15
     DEF Next, vars, Commands, SendText, Pumping, IgnoreInfo, HandleText, Failing, Lose

\* With both threads of a device at rest its row is its memory, so that a restart changes
\* nothing, unless the last write failed or the two threads wrote in the other order than
\* they changed the memory.
THEOREM RowsCorrect == Spec => []RowMatchesMemory
<1>1. Init => RowInv
  BY DEF Init, RowInv, RowFollows
<1>2. RowInv => RowMatchesMemory
  BY DEF RowInv, RowFollows, CmdOwesRow, PumpOwesRow, RowMatchesMemory, IdleCmd, IdlePump
<1>3. TypeOK /\ FramesAreWritten /\ RowInv /\ [Next]_vars => RowInv'
  BY NextRow
<1> QED
  BY <1>1, <1>2, <1>3, TypeCorrect, AlwaysOwn, PTL DEF Spec

-----------------------------------------------------------------------------
(* Until a fork everybody follows the creator, or missed something. *)

\* Frames say who they are from and to, and only the creator's pump answers.
FramesAreShaped ==
    /\ \A f \in net : /\ f.type = "Info" => f = Info(f.to, f.table)
                      /\ f.type = "Leave" => f = LeaveMsg(f.from)
    /\ \A n \in Node : n # Creator => pump[n].to = {}
    /\ \A n \in Node : owed[n] = NoGroup \/ owed[n] \in written

LEMMA NextShaped ==
    ASSUME TypeOK, CopiesAreOwn, FramesAreWritten, FramesAreShaped, [Next]_vars
    PROVE  FramesAreShaped'
<1>a. pump \in [Node -> PumpState]
  BY DEF TypeOK
<1>1. /\ \A f \in net' : f.type = "Info" => f = Info(f.to, f.table)
      /\ \A f \in net' : f.type = "Leave" => f = LeaveMsg(f.from)
  <2>1. ASSUME net' \subseteq net
        PROVE  /\ \A f \in net' : f.type = "Info" => f = Info(f.to, f.table)
               /\ \A f \in net' : f.type = "Leave" => f = LeaveMsg(f.from)
    BY <2>1 DEF FramesAreShaped
  <2>2. ASSUME \A f \in net' : f \in net \/ (\E n, t : f = Info(n, t)) \/ (\E n : f = LeaveMsg(n)) \/ \E n, m : f = Text(n, m)
        PROVE  /\ \A f \in net' : f.type = "Info" => f = Info(f.to, f.table)
               /\ \A f \in net' : f.type = "Leave" => f = LeaveMsg(f.from)
    BY <2>2 DEF FramesAreShaped, Info, LeaveMsg, Text
  <2>3. CASE FanOutTable
    <3>1. \A f \in net' : f \in net \/ \E n, t : f = Info(n, t)
      BY <2>3 DEF FanOutTable
    <3> QED
      BY <2>2, <3>1
  <2>4. ASSUME NEW n \in Node, PumpStore(n)
        PROVE  /\ \A f \in net' : f.type = "Info" => f = Info(f.to, f.table)
               /\ \A f \in net' : f.type = "Leave" => f = LeaveMsg(f.from)
    <3>1. \A f \in net' : f \in net \/ \E m, t : f = Info(m, t)
      BY <2>4 DEF PumpStore
    <3> QED
      BY <2>2, <3>1
  <2>5. ASSUME NEW n \in Node, NotifyCreator(n) \/ SendText(n)
        PROVE  /\ \A f \in net' : f.type = "Info" => f = Info(f.to, f.table)
               /\ \A f \in net' : f.type = "Leave" => f = LeaveMsg(f.from)
    <3>1. \A f \in net' : f \in net \/ (\E m : f = LeaveMsg(m)) \/ \E k, m : f = Text(k, m)
      BY <2>5 DEF NotifyCreator, SendText
    <3> QED
      BY <2>2, <3>1
  <2> QED
    BY <2>1, <2>3, <2>4, <2>5
       DEF Next, vars, Commands, CreateGroup, UpdateRead, UpdateWrite, StoreTable, LeaveGroup, DeleteRow,
           Pumping, IgnoreInfo, AdoptInfo, RemovedByInfo, HandleLeave, HandleText, Receive, Failing, Lose, Restart
<1>2. \A n \in Node : n # Creator => pump'[n].to = {}
  <2>1. ASSUME NEW f \in net, AdoptInfo(f) \/ RemovedByInfo(f) \/ HandleLeave(f)
        PROVE  \A n \in Node : n # Creator => pump'[n].to = {}
    BY <2>1, <1>a DEF FramesAreShaped, AdoptInfo, RemovedByInfo, HandleLeave, TypeOK
  <2>2. ASSUME NEW n \in Node, PumpStore(n) \/ Restart(n)
        PROVE  \A m \in Node : m # Creator => pump'[m].to = {}
    <3>1. pump' = [pump EXCEPT ![n] = IdlePump]
      BY <2>2 DEF PumpStore, Restart
    <3> QED
      BY <3>1, <1>a DEF FramesAreShaped, IdlePump
  <2>3. CASE pump' = pump
    BY <2>3 DEF FramesAreShaped
  <2> QED
    BY <2>1, <2>2, <2>3
       DEF Next, vars, Commands, CreateGroup, UpdateRead, UpdateWrite, StoreTable, FanOutTable, LeaveGroup,
           DeleteRow, NotifyCreator, SendText, Pumping, IgnoreInfo, HandleText, Failing, Lose
<1>3. \A n \in Node : owed'[n] = NoGroup \/ owed'[n] \in written'
  <2>1. ASSUME NEW old, NEW new, CreatorWrites(old, new)
        PROVE  \A n \in Node : owed'[n] = NoGroup \/ owed'[n] \in written'
    BY <2>1 DEF CreatorWrites, FramesAreShaped
  <2>2. CASE UNCHANGED <<owed, written>>
    BY <2>2 DEF FramesAreShaped
  <2>3. ASSUME NEW f \in net, HandleLeave(f)
        PROVE  \A n \in Node : owed'[n] = NoGroup \/ owed'[n] \in written'
    BY <2>1, <2>2, <2>3 DEF HandleLeave
  <2>4. ASSUME NEW M \in SUBSET Node, CreateGroup(M)
        PROVE  \A n \in Node : owed'[n] = NoGroup \/ owed'[n] \in written'
    BY <2>1, <2>4 DEF CreateGroup
  <2>5. CASE UpdateWrite
    BY <2>1, <2>5 DEF UpdateWrite
  <2> QED
    BY <2>2, <2>3, <2>4, <2>5
       DEF Next, vars, Commands, UpdateRead, StoreTable, FanOutTable, LeaveGroup,
           DeleteRow, NotifyCreator, SendText, Pumping, IgnoreInfo, AdoptInfo, RemovedByInfo, HandleText,
           PumpStore, Failing, Lose, Restart
<1> QED
  BY <1>1, <1>2, <1>3 DEF FramesAreShaped

Ground ==
    /\ TypeOK /\ CopiesAreOwn /\ CommandsAreOwn /\ FramesAreWritten /\ CreatorIsNewest
    /\ VersionDeterminesTable /\ FramesAreShaped

LEMMA AlwaysGround == Spec => []Ground
<1>1. Init => FramesAreShaped
  BY DEF Init, FramesAreShaped, IdlePump
<1>2. TypeOK /\ CopiesAreOwn /\ FramesAreWritten /\ FramesAreShaped /\ [Next]_vars => FramesAreShaped'
  BY NextShaped
<1>3. Spec => []FramesAreShaped
  BY <1>1, <1>2, TypeCorrect, AlwaysOwn, PTL DEF Spec
<1>4. TypeOK /\ (CopiesAreOwn /\ CommandsAreOwn /\ FramesAreWritten) /\ CreatorIsNewest
        /\ VersionDeterminesTable /\ FramesAreShaped => Ground
  BY DEF Ground
<1> QED
  BY <1>3, <1>4, TypeCorrect, AlwaysOwn, AlwaysNewest, VersionsCorrect, PTL

LEMMA GroundFacts ==
    ASSUME Ground
    PROVE  /\ Creator \in Node /\ mem \in [Node -> Table] /\ owed \in [Node -> Table]
           /\ cmd \in [Node -> CmdState] /\ pump \in [Node -> PumpState] /\ seen \in [Node -> Nat]
           /\ written \in SUBSET Table /\ missed \in SUBSET Node
           /\ \A t \in Table : t.version \in Nat /\ t.members \in SUBSET Node
           /\ \A f \in net : f.to \in Node /\ f.from \in Node /\ f.table \in Table /\ f.table.version \in Nat
           /\ \A n \in Node : owed[n].version \in Nat /\ seen[n] \in Nat /\ mem[n].version \in Nat
           /\ NoGroup.version = 0
BY CreatorInNode, Tables, FrameFields DEF Ground, TypeOK, NoGroup

\* The creator's command or its pump is about to send n table t.
CmdOwes(n)  == cmd[Creator].pc \in {"store", "fanout"} /\ n \in Concerned(cmd[Creator].old, cmd[Creator].new)
PumpOwes(n) == pump[Creator].pc = "store" /\ n \in pump[Creator].to

\* What a device is owed is the newest table that names it, or that it gets.
OwedIsNewest(n) ==
    /\ \A t \in written : n \in t.members => t.version <= owed[n].version
    /\ \A f \in net : f.type = "Info" /\ f.to = n => f.table.version <= owed[n].version
    /\ CmdOwes(n) => cmd[Creator].new.version <= owed[n].version
    /\ PumpOwes(n) => pump[Creator].table.version <= owed[n].version
    /\ seen[n] <= owed[n].version
    /\ Holds(Creator) => IF n \in mem[Creator].members THEN owed[n] = mem[Creator]
                                                       ELSE n \notin owed[n].members

\* What a device is owed changes with the creator's table only, and to a newer one.
LEMMA OwedMoves ==
    ASSUME Ground, [Next]_vars, ~forked', NEW n \in Node
    PROVE  /\ owed[n].version <= owed'[n].version /\ owed'[n].version \in Nat
           /\ owed'[n] = owed[n] \/ owed[n].version < owed'[n].version
           /\ \A new \in Table : GoesOn(new) =>
                 IF n \in Concerned(mem[Creator], new) THEN owed'[n] = new /\ n \notin missed'
                                                       ELSE owed'[n] = owed[n] /\ (n \in missed' <=> n \in missed)
<1>1. ASSUME NEW new \in Table, GoesOn(new)
      PROVE  /\ owed[n].version <= owed'[n].version /\ owed'[n].version \in Nat
             /\ owed'[n] = owed[n] \/ owed[n].version < owed'[n].version
             /\ IF n \in Concerned(mem[Creator], new) THEN owed'[n] = new /\ n \notin missed'
                                                      ELSE owed'[n] = owed[n] /\ (n \in missed' <=> n \in missed)
  <2>1. \A t \in written : t.version < new.version
    BY <1>1, NewVersion, CreatorSteps DEF Ground
  <2>2. owed[n].version < new.version
    BY <1>1, <2>1, NewVersion, CreatorSteps, GroundFacts DEF Ground, FramesAreShaped
  <2>3. /\ owed'[n] = IF n \in Concerned(mem[Creator], new) THEN new ELSE owed[n]
        /\ missed' = missed \ Concerned(mem[Creator], new)
    BY <1>1 DEF GoesOn, CreatorWrites
  <2> QED
    BY <2>2, <2>3, GroundFacts
<1>2. (\E new \in Table : GoesOn(new)) \/ owed' = owed
  BY CreatorSteps DEF Ground
<1> QED
  BY <1>1, <1>2, GroundFacts

\* Where a table the creator is about to send comes from.
LEMMA CmdMoves ==
    ASSUME Ground, [Next]_vars, ~forked', NEW n \in Node, CmdOwes(n)'
    PROVE  \/ CmdOwes(n) /\ cmd'[Creator].new = cmd[Creator].new
           \/ /\ cmd'[Creator].new \in Table /\ GoesOn(cmd'[Creator].new)
              /\ n \in Concerned(mem[Creator], cmd'[Creator].new)
<1> DEFINE Goal == \/ CmdOwes(n) /\ cmd'[Creator].new = cmd[Creator].new
                   \/ /\ cmd'[Creator].new \in Table /\ GoesOn(cmd'[Creator].new)
                      /\ n \in Concerned(mem[Creator], cmd'[Creator].new)
<1>1. ASSUME NEW M \in SUBSET Node, CreateGroup(M) PROVE Goal
  BY <1>1, CreateGoesOn, GroundFacts DEF Ground, CmdOwes
<1>2. CASE UpdateWrite
  <2>1. cmd'[Creator].old = cmd[Creator].old /\ cmd'[Creator].new = cmd[Creator].new
    BY <1>2, GroundFacts DEF UpdateWrite, CmdState
  <2> QED
    BY <1>2, <2>1, UpdateGoesOn DEF Ground, CmdOwes
<1>3. CASE StoreTable
  <2>1. \/ cmd'[Creator] = IdleCmd
        \/ cmd'[Creator].old = cmd[Creator].old /\ cmd'[Creator].new = cmd[Creator].new
    <3>1. cmd' = [cmd EXCEPT ![Creator].pc = "fanout"] \/ cmd' = [cmd EXCEPT ![Creator] = IdleCmd]
      BY <1>3 DEF StoreTable
    <3> QED
      BY <3>1, GroundFacts DEF CmdState
  <2> QED
    BY <1>3, <2>1 DEF CmdOwes, StoreTable, IdleCmd
<1>4. CASE cmd'[Creator] = cmd[Creator] \/ cmd'[Creator].pc \notin {"store", "fanout"}
  BY <1>4 DEF CmdOwes
<1>5. CASE FanOutTable \/ \E M \in SUBSET Node : UpdateRead(M)
  BY <1>4, <1>5, GroundFacts DEF FanOutTable, IdleCmd, UpdateRead, SetCmd
<1>6. ASSUME NEW m \in Node, LeaveGroup(m) \/ NotifyCreator(m) \/ Restart(m) PROVE Goal
  BY <1>4, <1>6, GroundFacts DEF LeaveGroup, SetCmd, NotifyCreator, Restart, IdleCmd
<1>7. ASSUME NEW m \in Node, DeleteRow(m) PROVE Goal
  <2>1. cmd' = [cmd EXCEPT ![m] = IdleCmd] \/ cmd' = [cmd EXCEPT ![m].pc = "notify"]
    BY <1>7 DEF DeleteRow
  <2>2. cmd'[Creator] = cmd[Creator] \/ cmd'[Creator].pc \in {"idle", "notify"}
    BY <2>1, GroundFacts DEF IdleCmd, CmdState
  <2> QED
    BY <1>4, <2>2
<1> QED
  BY <1>1, <1>2, <1>3, <1>4, <1>5, <1>6, <1>7
     DEF Next, vars, Commands, SendText, Pumping, IgnoreInfo, AdoptInfo, RemovedByInfo, HandleLeave,
         HandleText, PumpStore, Failing, Lose

LEMMA PumpMoves ==
    ASSUME Ground, [Next]_vars, NEW n \in Node, n # Creator, PumpOwes(n)'
    PROVE  \/ PumpOwes(n) /\ pump'[Creator].table = pump[Creator].table
           \/ /\ pump'[Creator].table \in Table /\ GoesOn(pump'[Creator].table)
              /\ n \in Concerned(mem[Creator], pump'[Creator].table)
<1> DEFINE Goal == \/ PumpOwes(n) /\ pump'[Creator].table = pump[Creator].table
                   \/ /\ pump'[Creator].table \in Table /\ GoesOn(pump'[Creator].table)
                      /\ n \in Concerned(mem[Creator], pump'[Creator].table)
<1>1. ASSUME NEW f \in net, HandleLeave(f) PROVE Goal
  <2>1. CASE pump' = pump
    BY <2>1 DEF PumpOwes
  <2>2. ASSUME NEW new \in Table, GoesOn(new),
               pump' = [pump EXCEPT ![Creator] =
                           [pc |-> "store", table |-> new, to |-> FanOutTargets(mem[Creator], Creator)]]
        PROVE  Goal
    BY <2>2, GroundFacts DEF PumpOwes, Concerned
  <2> QED
    BY <1>1, <2>1, <2>2, LeaveGoesOn DEF Ground
<1>2. ASSUME NEW f \in net, AdoptInfo(f) \/ RemovedByInfo(f) PROVE Goal
  BY <1>2, GroundFacts DEF Ground, FramesAreWritten, AdoptInfo, RemovedByInfo, PumpOwes
<1>3. ASSUME NEW m \in Node, PumpStore(m) \/ Restart(m) PROVE Goal
  <2>1. pump'[Creator] = pump[Creator] \/ pump'[Creator] = IdlePump
    BY <1>3, GroundFacts DEF PumpStore, Restart
  <2> QED
    BY <2>1 DEF PumpOwes, IdlePump
<1>4. CASE pump' = pump
  BY <1>4 DEF PumpOwes
<1> QED
  BY <1>1, <1>2, <1>3, <1>4
     DEF Next, vars, Commands, CreateGroup, UpdateRead, UpdateWrite, StoreTable, FanOutTable, LeaveGroup,
         DeleteRow, NotifyCreator, SendText, Pumping, IgnoreInfo, HandleText, Failing, Lose

\* Where a table under way comes from.
LEMMA FrameMoves ==
    ASSUME Ground, [Next]_vars, NEW f \in net', f.type = "Info"
    PROVE  \/ f \in net
           \/ CmdOwes(f.to) /\ f.table = cmd[Creator].new
           \/ PumpOwes(f.to) /\ f.table = pump[Creator].table
<1> DEFINE Goal == \/ f \in net
                   \/ CmdOwes(f.to) /\ f.table = cmd[Creator].new
                   \/ PumpOwes(f.to) /\ f.table = pump[Creator].table
<1>1. CASE FanOutTable
  <2>1. f \in net \/ \E m \in Concerned(cmd[Creator].old, cmd[Creator].new) : f = Info(m, cmd[Creator].new)
    BY <1>1 DEF FanOutTable
  <2> QED
    BY <1>1, <2>1 DEF FanOutTable, CmdOwes, Info
<1>2. ASSUME NEW n \in Node, PumpStore(n) PROVE Goal
  <2>1. f \in net \/ \E m \in pump[n].to : f = Info(m, pump[n].table)
    BY <1>2 DEF PumpStore
  <2>2. n # Creator => pump[n].to = {}
    BY DEF Ground, FramesAreShaped
  <2> QED
    BY <1>2, <2>1, <2>2 DEF PumpStore, PumpOwes, Info
<1>3. ASSUME NEW n \in Node, NotifyCreator(n) \/ SendText(n) PROVE Goal
  BY <1>3 DEF NotifyCreator, SendText, LeaveMsg, Text
<1>4. CASE net' \subseteq net
  BY <1>4
<1> QED
  BY <1>1, <1>2, <1>3, <1>4
     DEF Next, vars, Commands, CreateGroup, UpdateRead, UpdateWrite, StoreTable, LeaveGroup,
         DeleteRow, Pumping, IgnoreInfo, AdoptInfo, RemovedByInfo, HandleLeave, HandleText, Receive,
         Failing, Lose, Restart

\* What a device looks at is a table under way to it.
LEMMA SeenMoves ==
    ASSUME Ground, [Next]_vars, NEW n \in Node
    PROVE  /\ seen'[n] \in Nat /\ seen[n] <= seen'[n]
           /\ \/ seen'[n] = seen[n]
              \/ \E f \in net : f.type = "Info" /\ f.to = n /\ seen'[n] = f.table.version
<1> DEFINE Goal == /\ seen'[n] \in Nat /\ seen[n] <= seen'[n]
                   /\ \/ seen'[n] = seen[n]
                      \/ \E f \in net : f.type = "Info" /\ f.to = n /\ seen'[n] = f.table.version
<1>1. ASSUME NEW f \in net, IgnoreInfo(f) \/ AdoptInfo(f) \/ RemovedByInfo(f) PROVE Goal
  <2>1. f.type = "Info" /\ See(f.to, f.table.version)
    BY <1>1 DEF IgnoreInfo, AdoptInfo, RemovedByInfo
  <2> QED
    BY <2>1, GroundFacts DEF See
<1>2. CASE seen' = seen
  BY <1>2, GroundFacts
<1> QED
  BY <1>1, <1>2
     DEF Next, vars, Commands, CreateGroup, UpdateRead, UpdateWrite, StoreTable, FanOutTable, LeaveGroup,
         DeleteRow, NotifyCreator, SendText, Pumping, HandleLeave, HandleText, PumpStore, Failing, Lose, Restart

LEMMA NextOwed ==
    ASSUME Ground, [Next]_vars, ~forked', NEW n \in Node, n # Creator, OwedIsNewest(n)
    PROVE  OwedIsNewest(n)'
<1>a. /\ owed[n].version <= owed'[n].version /\ owed'[n].version \in Nat /\ owed[n].version \in Nat
      /\ \A t \in Table : t.version \in Nat
  BY OwedMoves, GroundFacts
<1>b. \A new \in Table : GoesOn(new) /\ n \in Concerned(mem[Creator], new) => owed'[n] = new
  BY OwedMoves
<1>1. \A t \in written' : n \in t.members => t.version <= owed'[n].version
  <2>1. ASSUME NEW t \in written, n \in t.members PROVE t.version <= owed'[n].version
    BY <2>1, <1>a, GroundFacts DEF OwedIsNewest
  <2>2. ASSUME NEW new \in Table, GoesOn(new), n \in new.members PROVE new.version <= owed'[n].version
    BY <2>2, <1>a, <1>b DEF Concerned, FanOutTargets
  <2>3. (\E new \in Table : GoesOn(new) /\ written' = written \cup {new}) \/ written' = written
    BY CreatorSteps DEF Ground, GoesOn, CreatorWrites
  <2> QED
    BY <2>1, <2>2, <2>3
<1>2. ASSUME NEW f \in net', f.type = "Info", f.to = n PROVE f.table.version <= owed'[n].version
  <2>1. f.table.version \in Nat /\ f.table.version <= owed[n].version
    <3>1. cmd[Creator].new.version \in Nat /\ pump[Creator].table.version \in Nat
      BY GroundFacts DEF CmdState, PumpState
    <3> QED
      BY <1>2, <3>1, FrameMoves, GroundFacts DEF OwedIsNewest
  <2> QED
    BY <1>a, <2>1
<1>3. CmdOwes(n)' => cmd'[Creator].new.version <= owed'[n].version
  <2>1. cmd[Creator].new.version \in Nat
    BY GroundFacts DEF CmdState
  <2> QED
    BY <1>a, <1>b, <2>1, CmdMoves DEF OwedIsNewest
<1>4. PumpOwes(n)' => pump'[Creator].table.version <= owed'[n].version
  <2>1. pump[Creator].table.version \in Nat
    BY GroundFacts DEF PumpState
  <2> QED
    BY <1>a, <1>b, <2>1, PumpMoves DEF OwedIsNewest
<1>5. seen'[n] <= owed'[n].version
  BY <1>a, SeenMoves, GroundFacts DEF OwedIsNewest
<1>6. Holds(Creator)' => IF n \in mem'[Creator].members THEN owed'[n] = mem'[Creator]
                                                        ELSE n \notin owed'[n].members
  <2>1. ASSUME NEW new \in Table, GoesOn(new)
        PROVE  IF n \in mem'[Creator].members THEN owed'[n] = mem'[Creator] ELSE n \notin owed'[n].members
    <3>1. mem'[Creator] = new
      BY <2>1, GroundFacts DEF GoesOn, CreatorWrites
    <3>2. CASE n \in Concerned(mem[Creator], new)
      BY <1>b, <2>1, <3>1, <3>2
    <3>3. CASE n \notin Concerned(mem[Creator], new)
      <4>1. n \notin mem[Creator].members /\ n \notin new.members /\ owed'[n] = owed[n]
        BY <2>1, <3>3, OwedMoves DEF Concerned, FanOutTargets
      <4>2. n \notin owed[n].members
        <5>1. CASE Holds(Creator)
          BY <4>1, <5>1 DEF OwedIsNewest
        <5>2. CASE written = {}
          BY <5>2 DEF Ground, FramesAreShaped, NoGroup
        <5> QED
          BY <2>1, <5>1, <5>2 DEF GoesOn
      <4> QED
        BY <3>1, <4>1, <4>2
    <3> QED
      BY <3>2, <3>3
  <2>2. CASE owed' = owed /\ mem'[Creator] \in {mem[Creator], NoGroup}
    BY <2>2 DEF OwedIsNewest, Holds
  <2> QED
    BY <2>1, <2>2, CreatorSteps DEF Ground
<1> QED
  BY <1>1, <1>2, <1>3, <1>4, <1>5, <1>6 DEF OwedIsNewest

\* The table that n is owed is about to be sent to it, or under way.
Awaited(n) ==
    \/ CmdOwes(n) /\ cmd[Creator].new = owed[n]
    \/ PumpOwes(n) /\ pump[Creator].table = owed[n]
    \/ Info(n, owed[n]) \in net

\* A device has missed nothing, or is owed nothing, or will get or has seen what it is owed.
Told(n) == n \in missed \/ owed[n] = NoGroup \/ Awaited(n) \/ seen[n] = owed[n].version

LEMMA MissedStays ==
    ASSUME Ground, [Next]_vars, ~forked', NEW n \in Node, n \in missed, n \notin missed'
    PROVE  \E new \in Table : GoesOn(new) /\ n \in Concerned(mem[Creator], new)
<1>1. ASSUME NEW new \in Table, GoesOn(new) PROVE n \in Concerned(mem[Creator], new)
  BY <1>1, OwedMoves
<1>2. ASSUME NEW M \in SUBSET Node, CreateGroup(M) PROVE \E new \in Table : GoesOn(new)
  BY <1>2, CreateGoesOn DEF Ground
<1>3. UpdateWrite => \E new \in Table : GoesOn(new)
  BY UpdateGoesOn DEF Ground
<1>4. ASSUME NEW f \in net, HandleLeave(f) PROVE \E new \in Table : GoesOn(new)
  BY <1>4, LeaveGoesOn DEF Ground
<1>5. ASSUME NEW f \in net, Lose(f) PROVE FALSE
  <2>1. f.type \in {"Info", "Leave", "Text"}
    BY FrameFields DEF Ground, TypeOK
  <2> QED
    BY <1>5, <2>1 DEF Lose, Miss
<1>6. \E new \in Table : GoesOn(new)
  BY <1>2, <1>3, <1>4, <1>5
     DEF Next, vars, Commands, UpdateRead, StoreTable, FanOutTable, LeaveGroup, DeleteRow, NotifyCreator,
         SendText, Pumping, IgnoreInfo, AdoptInfo, RemovedByInfo, HandleText, PumpStore, Failing, Restart, Miss
<1> QED
  BY <1>1, <1>6

\* A table the creator's command is about to send goes out, or is missed.
LEMMA CmdSends ==
    ASSUME Ground, [Next]_vars, ~forked', NEW n \in Node, n \notin missed',
           CmdOwes(n), cmd[Creator].new = owed[n], owed'[n] = owed[n]
    PROVE  Awaited(n)'
<1>a. cmd[Creator].pc \in {"store", "fanout"} /\ cmd[Creator] # IdleCmd
  BY DEF CmdOwes, IdleCmd
<1>1. CASE StoreTable
  <2>1. CASE cmd' = [cmd EXCEPT ![Creator].pc = "fanout"]
    <3>1. /\ cmd'[Creator].pc = "fanout" /\ cmd'[Creator].old = cmd[Creator].old
          /\ cmd'[Creator].new = cmd[Creator].new
      BY <2>1, GroundFacts DEF CmdState
    <3> QED
      BY <3>1 DEF Awaited, CmdOwes
  <2>2. CASE Miss(Concerned(cmd[Creator].old, cmd[Creator].new), cmd[Creator].new)
    BY <2>2 DEF Miss, CmdOwes
  <2> QED
    BY <1>1, <2>1, <2>2 DEF StoreTable
<1>2. CASE FanOutTable
  <2>1. PICK S : /\ net' = net \cup {Info(m, cmd[Creator].new) : m \in S}
                 /\ Miss(Concerned(cmd[Creator].old, cmd[Creator].new) \ S, cmd[Creator].new)
    BY <1>2 DEF FanOutTable
  <2>2. n \in S
    BY <2>1 DEF Miss, CmdOwes
  <2> QED
    BY <2>1, <2>2 DEF Awaited
<1>3. CASE cmd'[Creator] = cmd[Creator]
  BY <1>3 DEF Awaited, CmdOwes
<1>4. ASSUME NEW M \in SUBSET Node, CreateGroup(M) \/ UpdateRead(M) PROVE FALSE
  BY <1>4, <1>a DEF CreateGroup, UpdateRead, CanStart
<1>5. ~UpdateWrite
  BY <1>a DEF UpdateWrite
<1>6. ASSUME NEW m \in Node, LeaveGroup(m) \/ DeleteRow(m) \/ NotifyCreator(m) PROVE cmd'[Creator] = cmd[Creator]
  BY <1>6, <1>a, GroundFacts DEF LeaveGroup, CanStart, SetCmd, DeleteRow, NotifyCreator
<1>7. ASSUME NEW m \in Node, Restart(m) PROVE cmd'[Creator] = cmd[Creator]
  <2>1. m # Creator
    BY <1>7 DEF Restart, CmdOwes
  <2> QED
    BY <1>7, <2>1, GroundFacts DEF Restart
<1> QED
  BY <1>1, <1>2, <1>3, <1>4, <1>5, <1>6, <1>7
     DEF Next, vars, Commands, SendText, Pumping, IgnoreInfo, AdoptInfo, RemovedByInfo, HandleLeave,
         HandleText, PumpStore, Failing, Lose

LEMMA PumpSends ==
    ASSUME Ground, [Next]_vars, ~forked', NEW n \in Node, n \notin missed',
           PumpOwes(n), pump[Creator].table = owed[n], owed'[n] = owed[n]
    PROVE  Awaited(n)'
<1>a. pump[Creator] # IdlePump
  BY DEF PumpOwes, IdlePump
<1>1. ASSUME NEW m \in Node, PumpStore(m) PROVE Awaited(n)'
  <2>1. CASE m = Creator
    <3>1. PICK S : /\ net' = net \cup {Info(k, pump[Creator].table) : k \in S}
                   /\ Miss(pump[Creator].to \ S, pump[Creator].table)
      BY <1>1, <2>1 DEF PumpStore
    <3>2. n \in S
      BY <3>1 DEF Miss, PumpOwes
    <3> QED
      BY <3>1, <3>2 DEF Awaited
  <2>2. CASE m # Creator
    <3>1. pump'[Creator] = pump[Creator]
      BY <1>1, <2>2, GroundFacts DEF PumpStore
    <3> QED
      BY <3>1 DEF Awaited, PumpOwes
  <2> QED
    BY <2>1, <2>2
<1>2. CASE pump'[Creator] = pump[Creator]
  BY <1>2 DEF Awaited, PumpOwes
<1>3. ASSUME NEW f \in net, AdoptInfo(f) \/ RemovedByInfo(f) PROVE pump'[Creator] = pump[Creator]
  BY <1>3, <1>a, GroundFacts DEF AdoptInfo, RemovedByInfo, Receive
<1>4. ASSUME NEW f \in net, HandleLeave(f) PROVE FALSE
  BY <1>4, <1>a DEF HandleLeave, Receive, Ground, FramesAreWritten
<1>5. ASSUME NEW m \in Node, Restart(m) PROVE pump'[Creator] = pump[Creator]
  <2>1. m # Creator
    BY <1>5 DEF Restart, PumpOwes
  <2> QED
    BY <1>5, <2>1, GroundFacts DEF Restart
<1> QED
  BY <1>1, <1>2, <1>3, <1>4, <1>5
     DEF Next, vars, Commands, CreateGroup, UpdateRead, UpdateWrite, StoreTable, FanOutTable, LeaveGroup,
         DeleteRow, NotifyCreator, SendText, Pumping, IgnoreInfo, HandleText, Failing, Lose

\* A table under way arrives, or is missed.
LEMMA FrameArrives ==
    ASSUME Ground, [Next]_vars, NEW n \in Node, n \notin missed', OwedIsNewest(n),
           Info(n, owed[n]) \in net, owed'[n] = owed[n]
    PROVE  Awaited(n)' \/ seen'[n] = owed[n].version
<1> DEFINE f0 == Info(n, owed[n])
<1>a. f0.type = "Info" /\ f0.to = n /\ f0.table = owed[n]
  BY DEF Info
<1>b. f0 \in net' => Awaited(n)'
  BY DEF Awaited
<1> HIDE DEF f0
<1>1. ASSUME NEW f \in net, IgnoreInfo(f) \/ AdoptInfo(f) \/ RemovedByInfo(f)
      PROVE  Awaited(n)' \/ seen'[n] = owed[n].version
  <2>1. net' = net \ {f} /\ See(f.to, f.table.version)
    BY <1>1 DEF IgnoreInfo, AdoptInfo, RemovedByInfo, Receive
  <2>2. CASE f = f0
    <3>1. seen'[n] = IF owed[n].version > seen[n] THEN owed[n].version ELSE seen[n]
      BY <1>a, <2>1, <2>2, GroundFacts DEF See
    <3>2. seen[n] <= owed[n].version /\ seen[n] \in Nat /\ owed[n].version \in Nat
      BY GroundFacts DEF OwedIsNewest
    <3> QED
      BY <3>1, <3>2
  <2>3. CASE f # f0
    BY <1>b, <2>1, <2>3 DEF f0
  <2> QED
    BY <2>2, <2>3
<1>2. ASSUME NEW f \in net, HandleLeave(f) \/ HandleText(f) PROVE f0 \in net'
  BY <1>2, <1>a DEF HandleLeave, HandleText, Receive, f0
<1>3. ASSUME NEW f \in net, Lose(f) PROVE f0 \in net'
  <2>1. CASE f = f0
    BY <1>3, <1>a, <2>1 DEF Lose, Miss
  <2>2. CASE f # f0
    BY <1>3, <2>2 DEF Lose, f0
  <2> QED
    BY <2>1, <2>2
<1>4. net \subseteq net' => f0 \in net'
  BY DEF f0
<1>5. ASSUME FanOutTable \/ \E m \in Node : PumpStore(m) \/ NotifyCreator(m) \/ SendText(m) PROVE net \subseteq net'
  BY <1>5 DEF FanOutTable, PumpStore, NotifyCreator, SendText
<1> QED
  BY <1>b, <1>1, <1>2, <1>3, <1>4, <1>5
     DEF Next, vars, Commands, CreateGroup, UpdateRead, UpdateWrite, StoreTable, LeaveGroup, DeleteRow,
         Pumping, Failing, Restart

LEMMA NextTold ==
    ASSUME Ground, [Next]_vars, ~forked', NEW n \in Node, n # Creator, OwedIsNewest(n), Told(n)
    PROVE  Told(n)'
<1>a. \A new \in Table : GoesOn(new) =>
          IF n \in Concerned(mem[Creator], new) THEN owed'[n] = new /\ n \notin missed'
                                                ELSE owed'[n] = owed[n] /\ (n \in missed' <=> n \in missed)
  BY OwedMoves
<1>1. CASE \E new \in Table : GoesOn(new) /\ n \in Concerned(mem[Creator], new)
  <2>1. PICK new \in Table : GoesOn(new) /\ n \in Concerned(mem[Creator], new)
    BY <1>1
  <2>2. owed'[n] = new /\ \A u \in Table : GoesOn(u) => u = new
    BY <2>1, <1>a, NewVersion, CreatorSteps, GroundFacts DEF Ground
  <2>3. ASSUME NEW M \in SUBSET Node, CreateGroup(M) PROVE Awaited(n)'
    <3>1. PICK t \in Table :
             GoesOn(t) /\ cmd' = [cmd EXCEPT ![Creator] = [pc |-> "store", old |-> mem[Creator], new |-> t]]
      BY <2>3, CreateGoesOn DEF Ground
    <3> QED
      BY <2>1, <2>2, <3>1, GroundFacts DEF Awaited, CmdOwes
  <2>4. CASE UpdateWrite
    <3>1. cmd[Creator].old = mem[Creator] /\ cmd[Creator].new = new /\ cmd' = [cmd EXCEPT ![Creator].pc = "store"]
      BY <2>2, <2>4, UpdateGoesOn DEF Ground, UpdateWrite
    <3>2. cmd'[Creator].pc = "store" /\ cmd'[Creator].old = mem[Creator] /\ cmd'[Creator].new = new
      BY <3>1, GroundFacts DEF CmdState
    <3>3. CmdOwes(n)'
      BY <2>1, <3>2 DEF CmdOwes
    <3> QED
      BY <2>2, <3>2, <3>3 DEF Awaited, Told
  <2>5. ASSUME NEW f \in net, HandleLeave(f), ~UNCHANGED <<mem, written, owed, pump, missed>> PROVE Awaited(n)'
    <3>1. PICK t \in Table :
             /\ GoesOn(t) /\ t.members = mem[Creator].members \ {f.from}
             /\ pump' = [pump EXCEPT ![Creator] =
                    [pc |-> "store", table |-> t, to |-> FanOutTargets(mem[Creator], Creator)]]
      BY <2>5, LeaveGoesOn DEF Ground
    <3>2. t = new /\ n \in FanOutTargets(mem[Creator], Creator)
      BY <2>1, <2>2, <3>1 DEF Concerned, FanOutTargets
    <3> QED
      BY <2>2, <3>1, <3>2, GroundFacts DEF Awaited, PumpOwes
  <2>6. ~UNCHANGED <<owed, missed>> \/ owed[n] = owed'[n]
    OBVIOUS
  <2>7. owed[n] # new
    <3>1. new.version > owed[n].version
      BY <2>1, NewVersion, CreatorSteps, GroundFacts DEF Ground, FramesAreShaped
    <3> QED
      BY <3>1, GroundFacts
  <2> QED
    BY <2>2, <2>3, <2>4, <2>5, <2>7
       DEF Told, Next, vars, Commands, UpdateRead, StoreTable, FanOutTable, LeaveGroup, DeleteRow,
           NotifyCreator, SendText, Pumping, IgnoreInfo, AdoptInfo, RemovedByInfo, HandleText, PumpStore,
           Failing, Lose, Restart
<1>2. CASE ~\E new \in Table : GoesOn(new) /\ n \in Concerned(mem[Creator], new)
  <2>1. owed'[n] = owed[n]
    BY <1>2, <1>a, CreatorSteps DEF Ground
  <2>2. n \notin missed' => n \notin missed
    BY <1>2, MissedStays
  <2>3. seen[n] = owed[n].version => seen'[n] = owed'[n].version
    <3>1. seen'[n] <= owed'[n].version
      BY NextOwed DEF OwedIsNewest
    <3>2. seen[n] <= seen'[n] /\ seen'[n] \in Nat /\ owed[n].version \in Nat
      BY SeenMoves, GroundFacts
    <3> QED
      BY <2>1, <3>1, <3>2
  <2>4. Awaited(n) /\ n \notin missed' => Awaited(n)' \/ seen'[n] = owed'[n].version
    BY <2>1, CmdSends, PumpSends, FrameArrives DEF Awaited
  <2> QED
    BY <2>1, <2>2, <2>3, <2>4 DEF Told
<1> QED
  BY <1>1, <1>2

\* n has left, and the creator may not know.
Leaving(n) == cmd[n].pc \in {"delete", "notify"} \/ LeaveMsg(n) \in net

\* n holds what it is owed, or has left it.
Obeys(n) ==
    \/ mem[n] = IF n \in owed[n].members THEN owed[n] ELSE NoGroup
    \/ n \in owed[n].members /\ mem[n] = NoGroup /\ Leaving(n)

\* A device that has seen the table it is owed, and missed nothing, holds it.
Obeyed(n) ==
    Holds(Creator) /\ n \notin missed /\ owed[n] # NoGroup /\ seen[n] = owed[n].version => Obeys(n)

\* n looks at a table.
LEMMA Looks ==
    ASSUME Ground, ~forked, NEW n \in Node, n # Creator, OwedIsNewest(n), n \notin missed', n \notin missed,
           owed[n] # NoGroup, NEW f \in net, f.to = n, IgnoreInfo(f) \/ AdoptInfo(f) \/ RemovedByInfo(f),
           seen'[n] = owed[n].version, seen[n] = owed[n].version => Obeys(n)
    PROVE  Obeys(n)'
<1>a. /\ f.type = "Info" /\ See(n, f.table.version) /\ UNCHANGED <<owed, cmd>> /\ net' = net \ {f}
      /\ f.table.version <= owed[n].version /\ f.table \in written
  BY DEF IgnoreInfo, AdoptInfo, RemovedByInfo, Receive, OwedIsNewest, Ground, FramesAreWritten
<1>b. /\ f.table.version \in Nat /\ owed[n].version \in Nat /\ mem[n].version \in Nat /\ seen[n] \in Nat
      /\ mem \in [Node -> Table] /\ seen \in [Node -> Nat]
  BY GroundFacts
<1>c. Holds(n) => n \in mem[n].members /\ mem[n] \in written /\ mem[n].version <= owed[n].version
  BY DEF Ground, CopiesAreOwn, Own, Holds, OwedIsNewest
<1>1. CASE f.table.version = owed[n].version
  <2>1. f.table = owed[n]
    BY <1>1, <1>a DEF Ground, VersionDeterminesTable, FramesAreShaped
  <2>2. CASE IgnoreInfo(f)
    <3>1. mem' = mem
      BY <2>2 DEF IgnoreInfo
    <3>2. CASE Holds(n)
      <4>1. mem[n].version = owed[n].version
        BY <1>1, <1>b, <1>c, <2>2, <3>2 DEF IgnoreInfo
      <4>2. mem[n] = owed[n]
        BY <1>a, <1>c, <2>1, <3>2, <4>1 DEF Ground, VersionDeterminesTable
      <4> QED
        BY <1>a, <1>c, <3>1, <3>2, <4>2 DEF Obeys
    <3>3. CASE ~Holds(n)
      BY <1>a, <2>1, <2>2, <3>1, <3>3 DEF IgnoreInfo, Holds, Obeys
    <3> QED
      BY <3>2, <3>3
  <2>3. CASE AdoptInfo(f)
    BY <1>a, <1>b, <2>1, <2>3 DEF AdoptInfo, Obeys
  <2>4. CASE RemovedByInfo(f)
    BY <1>a, <1>b, <2>1, <2>4 DEF RemovedByInfo, Obeys
  <2> QED
    BY <2>2, <2>3, <2>4
<1>2. CASE f.table.version < owed[n].version
  <2>1. seen[n] = owed[n].version
    BY <1>2, <1>a, <1>b DEF See
  <2>2. Obeys(n)
    BY <2>1
  <2>3. CASE IgnoreInfo(f)
    <3>1. mem' = mem /\ (LeaveMsg(n) \in net => LeaveMsg(n) \in net')
      BY <1>a, <2>3 DEF IgnoreInfo, LeaveMsg
    <3> QED
      BY <1>a, <2>2, <3>1 DEF Obeys, Leaving
  <2>4. ~AdoptInfo(f)
    BY <1>2, <2>1 DEF AdoptInfo
  <2>5. ~RemovedByInfo(f)
    <3>1. RemovedByInfo(f) => Holds(n) /\ f.table.version > mem[n].version
      BY DEF RemovedByInfo
    <3>2. Holds(n) => mem[n] = owed[n]
      BY <2>2 DEF Obeys, Holds
    <3> QED
      BY <1>2, <1>b, <3>1, <3>2
  <2> QED
    BY <2>3, <2>4, <2>5
<1> QED
  BY <1>1, <1>2, <1>a, <1>b

LEMMA NextObeyed ==
    ASSUME Ground, [Next]_vars, ~forked', NEW n \in Node, n # Creator, OwedIsNewest(n), Obeyed(n)
    PROVE  Obeyed(n)'
<1> SUFFICES ASSUME Holds(Creator)', n \notin missed', owed'[n] # NoGroup, seen'[n] = owed'[n].version
             PROVE  Obeys(n)'
  BY DEF Obeyed
<1>a. /\ owed[n].version \in Nat /\ seen[n] \in Nat /\ seen[n] <= owed[n].version
      /\ \A f \in net : f.type = "Info" /\ f.to = n => f.table.version <= owed[n].version
  BY GroundFacts DEF OwedIsNewest
<1>b. seen'[n] <= owed[n].version
  BY <1>a, SeenMoves
\* A device that the step owes a newer table has not seen it.
<1>c. ~\E new \in Table : GoesOn(new) /\ n \in Concerned(mem[Creator], new)
  <2> SUFFICES ASSUME NEW new \in Table, GoesOn(new), n \in Concerned(mem[Creator], new) PROVE FALSE
    OBVIOUS
  <2>1. owed'[n] = new
    BY OwedMoves
  <2>2. owed[n].version < new.version
    BY NewVersion, CreatorSteps, GroundFacts DEF Ground, FramesAreShaped
  <2> QED
    BY <1>a, <1>b, <2>1, <2>2, GroundFacts
<1>d. owed'[n] = owed[n] /\ n \notin missed /\ ~forked
  BY <1>c, OwedMoves, CreatorSteps, MissedStays DEF Ground
<1>e. Holds(Creator)
  <2>1. ASSUME NEW new \in Table, GoesOn(new), written = {} PROVE FALSE
    BY <1>d, <2>1 DEF Ground, FramesAreShaped
  <2> QED
    BY <2>1, CreatorSteps DEF Ground, GoesOn, Holds
<1>f. seen[n] = owed[n].version => Obeys(n)
  BY <1>d, <1>e DEF Obeyed
\* Steps that leave n and what it has said about leaving alone.
<1>1. ASSUME mem'[n] = mem[n], seen'[n] = seen[n], Leaving(n) => Leaving(n)' PROVE Obeys(n)'
  BY <1>1, <1>d, <1>f DEF Obeys
<1>2. ASSUME NEW f \in net, IgnoreInfo(f) \/ AdoptInfo(f) \/ RemovedByInfo(f) PROVE Obeys(n)'
  <2>1. CASE f.to = n
    BY <1>2, <2>1, <1>d, <1>f, Looks
  <2>2. CASE f.to # n
    <3>1. mem'[n] = mem[n] /\ seen'[n] = seen[n] /\ cmd' = cmd
      BY <1>2, <2>2, GroundFacts DEF IgnoreInfo, AdoptInfo, RemovedByInfo, See
    <3>2. LeaveMsg(n) \in net => LeaveMsg(n) \in net'
      BY <1>2 DEF IgnoreInfo, AdoptInfo, RemovedByInfo, Receive, LeaveMsg
    <3> QED
      BY <1>1, <3>1, <3>2 DEF Leaving
  <2> QED
    BY <2>1, <2>2
<1>3. ASSUME NEW f \in net, HandleLeave(f) PROVE Obeys(n)'
  <2>1. net' = net \ {f} /\ UNCHANGED <<cmd, seen>>
    BY <1>3 DEF HandleLeave, Receive
  <2>2. mem'[n] = mem[n]
    BY <1>3, LeaveGoesOn, GroundFacts DEF Ground, GoesOn, CreatorWrites
  <2>3. CASE f # LeaveMsg(n)
    BY <1>1, <2>1, <2>2, <2>3 DEF Leaving
  <2>4. CASE f = LeaveMsg(n)
    <3>1. f.from = n
      BY <2>4 DEF LeaveMsg
    <3>2. n \notin mem[Creator].members
      <4>1. ASSUME NEW new \in Table, GoesOn(new), n \in mem[Creator].members PROVE FALSE
        BY <1>c, <4>1 DEF Concerned, FanOutTargets
      <4> QED
        BY <1>3, <1>e, <3>1, <4>1, LeaveGoesOn DEF Ground
    <3>3. n \notin owed[n].members
      BY <1>e, <3>2 DEF OwedIsNewest
    <3> QED
      BY <1>d, <1>f, <2>1, <2>2, <3>3 DEF Obeys
  <2> QED
    BY <2>3, <2>4
<1>4. ASSUME NEW m \in Node, LeaveGroup(m) PROVE Obeys(n)'
  <2>1. CASE m = n
    <3>1. Holds(n) /\ mem'[n] = NoGroup /\ cmd'[n].pc = "delete" /\ seen' = seen
      BY <1>4, <2>1, GroundFacts DEF LeaveGroup, SetCmd
    <3>2. n \in owed[n].members
      BY <1>d, <1>f, <3>1 DEF Obeys, Holds
    <3> QED
      BY <1>d, <3>1, <3>2 DEF Obeys, Leaving
  <2>2. CASE m # n
    <3>1. mem'[n] = mem[n] /\ cmd'[n] = cmd[n] /\ UNCHANGED <<seen, net>>
      BY <1>4, <2>2, GroundFacts DEF LeaveGroup, SetCmd
    <3> QED
      BY <1>1, <3>1 DEF Leaving
  <2> QED
    BY <2>1, <2>2
<1>5. ASSUME NEW m \in Node, DeleteRow(m) PROVE Obeys(n)'
  <2>1. UNCHANGED <<mem, seen, net>>
    BY <1>5 DEF DeleteRow
  <2>2. m = n => cmd'[n].pc = "notify"
    <3>1. m = n => cmd' = [cmd EXCEPT ![n].pc = "notify"]
      BY <1>5 DEF DeleteRow
    <3> QED
      BY <3>1, GroundFacts DEF CmdState
  <2>3. m # n => cmd'[n] = cmd[n]
    BY <1>5, GroundFacts DEF DeleteRow
  <2> QED
    BY <1>1, <2>1, <2>2, <2>3 DEF Leaving
<1>6. ASSUME NEW m \in Node, NotifyCreator(m) PROVE Obeys(n)'
  <2>1. UNCHANGED <<mem, seen>> /\ net' = net \cup {LeaveMsg(m)} /\ (m # n => cmd'[n] = cmd[n])
    BY <1>6, GroundFacts DEF NotifyCreator
  <2> QED
    BY <1>1, <2>1 DEF Leaving
<1>7. ASSUME NEW m \in Node, Restart(m) PROVE Obeys(n)'
  <2>1. mem'[n] = mem[n] /\ cmd'[n] = cmd[n]
    BY <1>7, GroundFacts DEF Restart
  <2> QED
    BY <1>1, <1>7, <2>1 DEF Restart, Leaving
<1>8. ASSUME NEW f \in net, Lose(f) PROVE Obeys(n)'
  <2>1. f # LeaveMsg(n)
    <3> SUFFICES ASSUME f.type = "Leave", f.from = n PROVE FALSE
      BY DEF LeaveMsg
    <3>1. missed' = missed \cup {n}
      BY <1>8 DEF Lose
    <3> QED
      BY <3>1
  <2> QED
    BY <1>1, <1>8, <2>1 DEF Lose, Leaving
<1>9. ASSUME NEW f \in net, HandleText(f) PROVE Obeys(n)'
  BY <1>1, <1>9 DEF HandleText, Receive, LeaveMsg, Leaving
\* Commands of the creator, the pump, and texts.
<1>10. ASSUME mem'[n] = mem[n], cmd'[n] = cmd[n], seen' = seen, net \subseteq net' PROVE Obeys(n)'
  BY <1>1, <1>10 DEF Leaving
<1>11. ASSUME NEW M \in SUBSET Node, CreateGroup(M) \/ UpdateRead(M) PROVE Obeys(n)'
  BY <1>10, <1>11, GroundFacts DEF CreateGroup, UpdateRead, CreatorWrites, SetCmd
<1>12. CASE UpdateWrite \/ StoreTable \/ FanOutTable
  BY <1>10, <1>12, GroundFacts DEF UpdateWrite, StoreTable, FanOutTable, CreatorWrites
<1>13. ASSUME NEW m \in Node, SendText(m) \/ PumpStore(m) PROVE Obeys(n)'
  BY <1>10, <1>13 DEF SendText, PumpStore
<1>14. CASE UNCHANGED vars
  BY <1>10, <1>14 DEF vars
<1> QED
  BY <1>2, <1>3, <1>4, <1>5, <1>6, <1>7, <1>8, <1>9, <1>11, <1>12, <1>13, <1>14
     DEF Next, Commands, Pumping, Failing

-----------------------------------------------------------------------------
FollowInv ==
    ~forked => \A n \in Node : n # Creator => OwedIsNewest(n) /\ Told(n) /\ Obeyed(n)

\* Where every thread rests and no frame is under way, everybody in the creator's table
\* holds it and nobody else holds the group, unless the creator went on from a table that
\* was not its newest; a single device excepted that missed the last table meant for it.
THEOREM ConvergedCorrect == Spec => []ToldConverge
<1>1. Init => FollowInv
  <2> SUFFICES ASSUME Init, NEW n \in Node, n # Creator
               PROVE  OwedIsNewest(n) /\ Told(n) /\ Obeyed(n)
    BY DEF FollowInv
  <2>1. /\ written = {} /\ net = {} /\ seen[n] = 0 /\ owed[n] = NoGroup /\ NoGroup.version = 0
        /\ ~Holds(Creator) /\ cmd[Creator].pc = "idle" /\ pump[Creator].pc = "idle"
    BY CreatorInNode DEF Init, Holds, IdleCmd, IdlePump, NoGroup
  <2> QED
    BY <2>1 DEF OwedIsNewest, Told, Obeyed, CmdOwes, PumpOwes
<1>2. ASSUME Ground, FollowInv, [Next]_vars PROVE FollowInv'
  <2> SUFFICES ASSUME ~forked', NEW n \in Node, n # Creator
               PROVE  (OwedIsNewest(n) /\ Told(n) /\ Obeyed(n))'
    BY DEF FollowInv
  <2>1. OwedIsNewest(n) /\ Told(n) /\ Obeyed(n)
    BY <1>2, CreatorSteps DEF FollowInv, Ground
  <2> QED
    BY <1>2, <2>1, NextOwed, NextTold, NextObeyed
<1>3. ASSUME Ground, FollowInv PROVE ToldConverge
  <2> SUFFICES ASSUME AtRest, Holds(Creator), ~forked, NEW n \in Node, n \notin missed
               PROVE  Follows(n)
    BY DEF ToldConverge
  <2>1. CASE n = Creator
    BY <1>3, <2>1 DEF Ground, CopiesAreOwn, Own, Holds, Follows
  <2>2. CASE n # Creator
    <3>1. OwedIsNewest(n) /\ Told(n) /\ Obeyed(n)
      BY <1>3, <2>2 DEF FollowInv
    <3>2. ~Awaited(n) /\ ~Leaving(n)
      BY <1>3, GroundFacts DEF AtRest, Awaited, CmdOwes, PumpOwes, Leaving, IdleCmd, IdlePump
    <3>3. CASE owed[n] = NoGroup
      <4>1. n \notin mem[Creator].members
        BY <3>1, <3>3 DEF OwedIsNewest, Holds
      <4>2. ~Holds(n)
        BY <1>3, <3>1, <3>3, GroundFacts DEF OwedIsNewest, Holds, Ground, CopiesAreOwn, Own, CreatorIsNewest
      <4> QED
        BY <4>1, <4>2 DEF Follows, Holds
    <3>4. CASE owed[n] # NoGroup
      <4>1. Obeys(n)
        BY <3>1, <3>2, <3>4 DEF Told, Obeyed
      <4> QED
        BY <3>1, <3>2, <4>1 DEF Obeys, OwedIsNewest, Follows
    <3> QED
      BY <3>3, <3>4
  <2> QED
    BY <2>1, <2>2
<1> QED
  BY <1>1, <1>2, <1>3, AlwaysGround, PTL DEF Spec
=============================================================================
