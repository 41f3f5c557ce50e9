------------------------------- MODULE Groups -------------------------------
(***************************************************************************)
(* One chat group on all the devices that ever heard of it: groups.rs and   *)
(* the group part of core.rs.                                               *)
(*                                                                         *)
(* Each device keeps the member table in memory (under the groups lock) and *)
(* in its database, and works on them from two threads: the command thread  *)
(* (create, update, leave: one command at a time) and the pump, which       *)
(* handles the frames other devices send.  Memory, database and fan-out are *)
(* three steps of either thread, and only the first holds the groups lock.  *)
(* An update even takes the lock twice: to read the old table and to write  *)
(* the new one.                                                             *)
(*                                                                         *)
(* A fan-out runs in a thread of its own, so two of them reach a device in  *)
(* either order: the frames under way are a set.                            *)
(*                                                                         *)
(* Locks dropped in between, frames that are lost or overtake each other,   *)
(* writes that fail and restarts break what the group is meant to be.  The  *)
(* history variables forked, unsaved and missed keep where that happened,   *)
(* so that the properties can name it and hold everywhere else.             *)
(***************************************************************************)
EXTENDS Naturals, FiniteSets

CONSTANTS
    Node, Creator,
    Overlap,       \* whether commands and pump of one device interleave
    Faults,        \* whether frames get lost, writes fail and devices restart
    MaxVersion,    \* bound: the creator writes no higher version
    NetCap         \* bound: commands start while fewer frames are under way

ASSUME CreatorInNode == Creator \in Node
ASSUME SwitchAssumption == Overlap \in BOOLEAN /\ Faults \in BOOLEAN
ASSUME BoundAssumption == MaxVersion \in Nat /\ NetCap \in Nat

VARIABLES
    mem,       \* GroupsState: the table each device holds, or NoGroup
    db,        \* the row of its groups table
    cmd,       \* command thread: [pc, old, new]
    pump,      \* pump thread: [pc, table, to]
    net,       \* frames under way
    written,   \* history: every table the creator's memory held
    heard,     \* history: <<receiver, sender>> of the group texts shown
    forked,    \* history: whether the creator went on from a table that was not its newest
    unsaved,   \* history: devices whose row a write left behind the memory
    owed,      \* history: the newest table the creator's fan-outs are to bring each device
    seen,      \* history: the highest version each device has looked at
    missed     \* history: devices that missed what they were owed

vars == <<mem, db, cmd, pump, net, written, heard, forked, unsaved, owed, seen, missed>>

Table   == [version : Nat, members : SUBSET Node]
NoGroup == [version |-> 0, members |-> {}]

Holds(n) == mem[n] # NoGroup

Frame == [type : {"Info", "Leave", "Text"}, from : Node, to : Node, table : Table]

Info(n, t)     == [type |-> "Info", from |-> Creator, to |-> n, table |-> t]
LeaveMsg(n)    == [type |-> "Leave", from |-> n, to |-> Creator, table |-> NoGroup]
Text(n, m)     == [type |-> "Text", from |-> n, to |-> m, table |-> NoGroup]

CmdPc     == {"idle", "write", "store", "fanout", "delete", "notify"}
CmdState  == [pc : CmdPc, old : Table, new : Table]
PumpState == [pc : {"idle", "store"}, table : Table, to : SUBSET Node]

IdleCmd  == [pc |-> "idle", old |-> NoGroup, new |-> NoGroup]
IdlePump == [pc |-> "idle", table |-> NoGroup, to |-> {}]

\* fan_out_targets
FanOutTargets(t, n) == t.members \ {n}

\* Whom a change from old to new concerns: removed members are told too.
Concerned(old, new) == FanOutTargets(new, Creator) \cup FanOutTargets(old, Creator)

Init ==
    /\ mem = [n \in Node |-> NoGroup] /\ db = [n \in Node |-> NoGroup]
    /\ cmd = [n \in Node |-> IdleCmd] /\ pump = [n \in Node |-> IdlePump]
    /\ net = {} /\ written = {} /\ heard = {}
    /\ forked = FALSE /\ unsaved = {} /\ missed = {}
    /\ owed = [n \in Node |-> NoGroup] /\ seen = [n \in Node |-> 0]

-----------------------------------------------------------------------------
(* Bookkeeping for the properties. *)

\* The creator's memory takes a new table; from now on it is what those concerned are owed.
CreatorWrites(old, new) ==
    LET told == Concerned(old, new)
    IN /\ mem' = [mem EXCEPT ![Creator] = new]
       /\ written' = written \cup {new}
       /\ owed' = [n \in Node |-> IF n \in told THEN new ELSE owed[n]]
       /\ missed' = missed \ told

\* Table t does not get to the devices M, which matters to those that are owed it.
Miss(M, t) == missed' = missed \cup {n \in M : owed[n] = t}

\* Device n looks at a table of version v.
See(n, v) == seen' = [seen EXCEPT ![n] = IF v > @ THEN v ELSE @]

\* A thread of n is yet to write the row for what memory holds.
CmdOwesRow(n) ==
    \/ cmd[n].pc = "store" /\ cmd[n].new = mem[n]
    \/ cmd[n].pc = "delete" /\ mem[n] = NoGroup
PumpOwesRow(n) == pump[n].pc = "store" /\ pump[n].table = mem[n]

\* n's row was to become t: it is behind if the write failed, or if memory has moved on
\* and the thread that moved it wrote first, unless that thread is yet to write.
RowWrite(n, t, done, otherOwes) ==
    unsaved' = IF done /\ t = mem[n] THEN unsaved \ {n}
               ELSE IF otherOwes THEN unsaved ELSE unsaved \cup {n}

-----------------------------------------------------------------------------
(* The command thread. *)

CanStart(n) ==
    /\ cmd[n] = IdleCmd /\ Cardinality(net) < NetCap
    /\ Overlap \/ pump[n] = IdlePump

SetCmd(n, pc, old, new) == cmd' = [cmd EXCEPT ![n] = [pc |-> pc, old |-> old, new |-> new]]

\* create_group draws a fresh group id, so this one group is created once.
CreateGroup(M) ==
    LET t == [version |-> 1, members |-> M \cup {Creator}]
    IN /\ CanStart(Creator) /\ written = {} /\ MaxVersion > 0
       /\ CreatorWrites(NoGroup, t)
       /\ SetCmd(Creator, "store", NoGroup, t)
       /\ UNCHANGED <<db, pump, net, heard, forked, unsaved, seen>>

\* update_group_members, first critical section: clone the old table.
UpdateRead(M) ==
    LET old == mem[Creator]
    IN /\ CanStart(Creator) /\ Holds(Creator) /\ old.version < MaxVersion
       /\ SetCmd(Creator, "write", old, [version |-> old.version + 1, members |-> M \cup {Creator}])
       /\ UNCHANGED <<mem, db, pump, net, written, heard, forked, unsaved, owed, seen, missed>>

\* Second critical section: write the table computed from the clone, whatever memory
\* holds by now.
UpdateWrite ==
    /\ cmd[Creator].pc = "write"
    /\ CreatorWrites(cmd[Creator].old, cmd[Creator].new)
    /\ forked' = (forked \/ mem[Creator] # cmd[Creator].old)
    /\ cmd' = [cmd EXCEPT ![Creator].pc = "store"]
    /\ UNCHANGED <<db, pump, net, heard, unsaved, seen>>

\* create and update: the row; an error ends the command.
StoreTable ==
    /\ cmd[Creator].pc = "store"
    /\ LET new == cmd[Creator].new
       IN \/ /\ db' = [db EXCEPT ![Creator] = new]
             /\ RowWrite(Creator, new, TRUE, PumpOwesRow(Creator))
             /\ cmd' = [cmd EXCEPT ![Creator].pc = "fanout"]
             /\ UNCHANGED missed
          \/ /\ Faults /\ db' = db
             /\ RowWrite(Creator, new, FALSE, PumpOwesRow(Creator))
             /\ cmd' = [cmd EXCEPT ![Creator] = IdleCmd]
             /\ Miss(Concerned(cmd[Creator].old, new), new)
    /\ UNCHANGED <<mem, pump, net, written, heard, forked, owed, seen>>

\* Members of the old and of the new table get the new one; some are offline.
Reached(targets, sent) == IF Faults THEN sent \subseteq targets ELSE sent = targets

\* (mutation) Removed members are not told.
FanOutTableNewOnly ==
    /\ cmd[Creator].pc = "fanout"
    /\ LET new == cmd[Creator].new
       IN net' = net \cup {Info(n, new) : n \in FanOutTargets(new, Creator)}
    /\ cmd' = [cmd EXCEPT ![Creator] = IdleCmd]
    /\ UNCHANGED <<mem, db, pump, written, heard, forked, unsaved, owed, seen, missed>>

FanOutTable ==
    /\ cmd[Creator].pc = "fanout"
    /\ LET new == cmd[Creator].new
           targets == Concerned(cmd[Creator].old, new)
       IN \E S \in SUBSET targets :
             /\ Reached(targets, S) /\ net' = net \cup {Info(n, new) : n \in S}
             /\ Miss(targets \ S, new)
    /\ cmd' = [cmd EXCEPT ![Creator] = IdleCmd]
    /\ UNCHANGED <<mem, db, pump, written, heard, forked, unsaved, owed, seen>>

\* leave_group, on the creator or on a member: memory, row, notification.
LeaveGroup(n) ==
    /\ CanStart(n) /\ Holds(n)
    /\ mem' = [mem EXCEPT ![n] = NoGroup]
    /\ SetCmd(n, "delete", NoGroup, NoGroup)
    /\ UNCHANGED <<db, pump, net, written, heard, forked, unsaved, owed, seen, missed>>

DeleteRow(n) ==
    /\ cmd[n].pc = "delete"
    /\ \/ /\ db' = [db EXCEPT ![n] = NoGroup]
          /\ RowWrite(n, NoGroup, TRUE, PumpOwesRow(n))
          /\ IF n = Creator THEN cmd' = [cmd EXCEPT ![n] = IdleCmd]
                            ELSE cmd' = [cmd EXCEPT ![n].pc = "notify"]
          /\ UNCHANGED missed
       \/ /\ Faults /\ db' = db
          /\ RowWrite(n, NoGroup, FALSE, PumpOwesRow(n))
          /\ cmd' = [cmd EXCEPT ![n] = IdleCmd]
          /\ missed' = missed \cup {n}
    /\ UNCHANGED <<mem, pump, net, written, heard, forked, owed, seen>>

NotifyCreator(n) ==
    /\ cmd[n].pc = "notify"
    /\ net' = net \cup {LeaveMsg(n)}
    /\ cmd' = [cmd EXCEPT ![n] = IdleCmd]
    /\ UNCHANGED <<mem, db, pump, written, heard, forked, unsaved, owed, seen, missed>>

\* send_group_text, to every other member of the local table.
SendText(n) ==
    /\ CanStart(n) /\ Holds(n)
    /\ net' = net \cup {Text(n, m) : m \in FanOutTargets(mem[n], n)}
    /\ UNCHANGED <<mem, db, cmd, pump, written, heard, forked, unsaved, owed, seen, missed>>

-----------------------------------------------------------------------------
(* The pump. *)

\* Frame f reaches the pump of its destination.
Receive(f) ==
    /\ f \in net /\ net' = net \ {f}
    /\ pump[f.to] = IdlePump
    /\ Overlap \/ cmd[f.to] = IdleCmd

\* GroupInfo (its sender is the creator): GroupsState::apply_info.
IgnoreInfo(f) ==
    /\ f.type = "Info" /\ Receive(f)
    /\ IF Holds(f.to) THEN f.table.version <= mem[f.to].version ELSE f.to \notin f.table.members
    /\ See(f.to, f.table.version)
    /\ UNCHANGED <<mem, db, cmd, pump, written, heard, forked, unsaved, owed, missed>>

\* (mutation) The table is taken over without looking for oneself in it.
AdoptInfoAnyway(f) ==
    /\ f.type = "Info" /\ Receive(f)
    /\ Holds(f.to) => f.table.version > mem[f.to].version
    /\ mem' = [mem EXCEPT ![f.to] = f.table]
    /\ pump' = [pump EXCEPT ![f.to] = [pc |-> "store", table |-> f.table, to |-> {}]]
    /\ See(f.to, f.table.version)
    /\ missed' = IF f.table.version < seen[f.to] THEN missed \cup {f.to} ELSE missed
    /\ UNCHANGED <<db, cmd, written, heard, forked, unsaved, owed>>

\* A device that dropped the group on a newer table has no version left to compare.
AdoptInfo(f) ==
    /\ f.type = "Info" /\ Receive(f)
    /\ f.to \in f.table.members
    /\ Holds(f.to) => f.table.version > mem[f.to].version
    /\ mem' = [mem EXCEPT ![f.to] = f.table]
    /\ pump' = [pump EXCEPT ![f.to] = [pc |-> "store", table |-> f.table, to |-> {}]]
    /\ See(f.to, f.table.version)
    /\ missed' = IF f.table.version < seen[f.to] THEN missed \cup {f.to} ELSE missed
    /\ UNCHANGED <<db, cmd, written, heard, forked, unsaved, owed>>

RemovedByInfo(f) ==
    /\ f.type = "Info" /\ Receive(f)
    /\ Holds(f.to) /\ f.table.version > mem[f.to].version /\ f.to \notin f.table.members
    /\ mem' = [mem EXCEPT ![f.to] = NoGroup]
    /\ pump' = [pump EXCEPT ![f.to] = [pc |-> "store", table |-> NoGroup, to |-> {}]]
    /\ See(f.to, f.table.version)
    /\ UNCHANGED <<db, cmd, written, heard, forked, unsaved, owed, missed>>

\* (mutation) The version is not counted up.
HandleLeaveSameVersion(f) ==
    LET old == mem[Creator]
        new == [version |-> old.version, members |-> old.members \ {f.from}]
    IN /\ f.type = "Leave" /\ Receive(f)
       /\ IF Holds(Creator) /\ f.from \in old.members
          THEN /\ CreatorWrites(old, new)
               /\ pump' = [pump EXCEPT ![Creator] =
                      [pc |-> "store", table |-> new, to |-> FanOutTargets(old, Creator)]]
          ELSE UNCHANGED <<mem, written, pump, owed, missed>>
       /\ UNCHANGED <<db, cmd, heard, forked, unsaved, seen>>

\* GroupLeave, on the creator: one critical section for table and version.
HandleLeave(f) ==
    LET old == mem[Creator]
        new == [version |-> old.version + 1, members |-> old.members \ {f.from}]
    IN /\ f.type = "Leave" /\ Receive(f)
       /\ IF Holds(Creator) /\ f.from \in old.members
          THEN /\ old.version < MaxVersion
               /\ CreatorWrites(old, new)
               /\ pump' = [pump EXCEPT ![Creator] =
                      [pc |-> "store", table |-> new, to |-> FanOutTargets(old, Creator)]]
          ELSE UNCHANGED <<mem, written, pump, owed, missed>>
       /\ UNCHANGED <<db, cmd, heard, forked, unsaved, seen>>

\* (mutation) A removal does not reach the database.
PumpStoreKeepRow(n) ==
    /\ pump[n].pc = "store"
    /\ db' = IF pump[n].table = NoGroup THEN db ELSE [db EXCEPT ![n] = pump[n].table]
    /\ RowWrite(n, pump[n].table, TRUE, CmdOwesRow(n))
    /\ net' = net \cup {Info(m, pump[n].table) : m \in pump[n].to}
    /\ pump' = [pump EXCEPT ![n] = IdlePump]
    /\ UNCHANGED <<mem, cmd, written, heard, forked, owed, seen, missed>>

\* (mutation) The pump stays at the fan-out instead of returning to its channel.
PumpStoreStay(n) ==
    /\ pump[n].pc = "store"
    /\ db' = [db EXCEPT ![n] = pump[n].table]
    /\ RowWrite(n, pump[n].table, TRUE, CmdOwesRow(n))
    /\ pump' = [pump EXCEPT ![n].pc = "fanout"]
    /\ UNCHANGED <<mem, cmd, net, written, heard, forked, owed, seen, missed>>

\* A failing write is only logged; the creator answers a departure with the new
\* table, to the leaver too.
PumpStore(n) ==
    /\ pump[n].pc = "store"
    /\ \/ /\ db' = [db EXCEPT ![n] = pump[n].table]
          /\ RowWrite(n, pump[n].table, TRUE, CmdOwesRow(n))
       \/ /\ Faults /\ db' = db
          /\ RowWrite(n, pump[n].table, FALSE, CmdOwesRow(n))
    /\ \E S \in SUBSET pump[n].to :
          /\ Reached(pump[n].to, S) /\ net' = net \cup {Info(m, pump[n].table) : m \in S}
          /\ Miss(pump[n].to \ S, pump[n].table)
    /\ pump' = [pump EXCEPT ![n] = IdlePump]
    /\ UNCHANGED <<mem, cmd, written, heard, forked, owed, seen>>

\* (mutation) A text is shown to everybody who knows the group.
HandleTextAny(f) ==
    /\ f.type = "Text" /\ Receive(f)
    /\ heard' = IF Holds(f.to) THEN heard \cup {<<f.to, f.from>>} ELSE heard
    /\ UNCHANGED <<mem, db, cmd, pump, written, forked, unsaved, owed, seen, missed>>

\* GroupText: only from a member of the local table.
HandleText(f) ==
    /\ f.type = "Text" /\ Receive(f)
    /\ heard' = IF Holds(f.to) /\ f.from \in mem[f.to].members
                THEN heard \cup {<<f.to, f.from>>} ELSE heard
    /\ UNCHANGED <<mem, db, cmd, pump, written, forked, unsaved, owed, seen, missed>>

-----------------------------------------------------------------------------
(* Faults. *)

Lose(f) ==
    /\ Faults /\ f \in net /\ net' = net \ {f}
    /\ CASE f.type = "Info"  -> Miss({f.to}, f.table)
         [] f.type = "Leave" -> missed' = missed \cup {f.from}
         [] f.type = "Text"  -> UNCHANGED missed
    /\ UNCHANGED <<mem, db, cmd, pump, written, heard, forked, unsaved, owed, seen>>

\* Memory is loaded from the database at start.  Fan-outs that had not begun never will;
\* a member may fall back to an earlier table, or leave without the creator's knowledge.
Restart(n) ==
    /\ Faults
    /\ mem' = [mem EXCEPT ![n] = db[n]]
    /\ cmd' = [cmd EXCEPT ![n] = IdleCmd] /\ pump' = [pump EXCEPT ![n] = IdlePump]
    /\ unsaved' = unsaved \ {n}
    /\ IF n = Creator
       THEN /\ forked' = (forked \/ db[n] # mem[n])
            /\ missed' = missed \cup {m \in Concerned(cmd[n].old, cmd[n].new) : owed[m] = cmd[n].new}
                               \cup {m \in pump[n].to : owed[m] = pump[n].table}
       ELSE /\ missed' = IF db[n] # mem[n] \/ cmd[n] # IdleCmd THEN missed \cup {n} ELSE missed
            /\ UNCHANGED forked
    /\ UNCHANGED <<db, net, written, heard, owed, seen>>

-----------------------------------------------------------------------------
Commands ==
    \/ \E M \in SUBSET Node : CreateGroup(M) \/ UpdateRead(M)
    \/ UpdateWrite \/ StoreTable \/ FanOutTable
    \/ \E n \in Node : LeaveGroup(n) \/ DeleteRow(n) \/ NotifyCreator(n) \/ SendText(n)

Pumping ==
    \/ \E f \in net : IgnoreInfo(f)
    \/ \E f \in net : AdoptInfo(f)
    \/ \E f \in net : RemovedByInfo(f)
    \/ \E f \in net : HandleLeave(f)
    \/ \E f \in net : HandleText(f)
    \/ \E n \in Node : PumpStore(n)

Failing == (\E f \in net : Lose(f)) \/ \E n \in Node : Restart(n)

Next == Commands \/ Pumping \/ Failing

Spec == Init /\ [][Next]_vars

-----------------------------------------------------------------------------
(* Properties. *)

TypeOK ==
    /\ mem \in [Node -> Table] /\ db \in [Node -> Table]
    /\ cmd \in [Node -> CmdState] /\ pump \in [Node -> PumpState]
    /\ net \in SUBSET Frame
    /\ written \in SUBSET Table /\ heard \in SUBSET (Node \X Node)
    /\ forked \in BOOLEAN /\ unsaved \in SUBSET Node /\ missed \in SUBSET Node
    /\ owed \in [Node -> Table] /\ seen \in [Node -> Nat]

\* Whoever holds the group is in the table it holds, and the table is one the
\* creator wrote, whatever got lost, reordered or restarted (groups.rs:80-103).
HoldersAreMembers ==
    \A n \in Node : Holds(n) => n \in mem[n].members /\ mem[n] \in written

\* A text is shown only between two devices that the creator once put into one
\* table (core.rs:1446-1452).
HeardTogether ==
    \A h \in heard : \E t \in written : h[1] \in t.members /\ h[2] \in t.members

\* Only the creator counts versions up, so a version stands for one table
\* (groups.rs:20), unless the creator went on from an old one: an update wrote over a
\* change made between its two critical sections (core.rs:1063), or a restart loaded a
\* row that memory was ahead of.
VersionDeterminesTable ==
    forked \/ \A t, u \in written : t.version = u.version => t = u

AtRest == net = {} /\ \A n \in Node : cmd[n] = IdleCmd /\ pump[n] = IdlePump

\* Whether device n holds what the creator's table says it should.
Follows(n) == mem[n] = IF n \in mem[Creator].members THEN mem[Creator] ELSE NoGroup

\* When all frames have arrived, everybody in the creator's table holds that
\* table and nobody else holds the group (core.rs:1056-1057).
Converged == AtRest /\ Holds(Creator) => \A n \in Node : Follows(n)

\* The same without the two things that prevent it: a fork, and for a single device a
\* frame that was not sent or lost, a newer table overtaken by an older one, or a
\* departure the creator never heard of, since the last change that concerned it.
ToldConverge ==
    AtRest /\ Holds(Creator) /\ ~forked => \A n \in Node : Follows(n) \/ n \in missed

\* Between commands and frames the database agrees with the memory, so that a
\* restart changes nothing (core.rs:754-760, 1101-1102), unless the last write of the row
\* failed, or command and pump wrote in the other order than they changed memory
\* (core.rs:1494).
RowMatchesMemory ==
    \A n \in Node : cmd[n] = IdleCmd /\ pump[n] = IdlePump => db[n] = mem[n] \/ n \in unsaved

\* A device goes back to its row.
Reload == \E n \in Node : mem' = [mem EXCEPT ![n] = db[n]] /\ UNCHANGED written

\* What groups.rs promises of a group is GroupLedger: until a fork every step is one of
\* the ledger, or a device going back to its row.
Ledger == INSTANCE GroupLedger WITH log <- written, copy <- mem
LedgerSpec == Ledger!Init /\ [][Ledger!Next \/ Reload \/ forked']_<<written, mem>>
-----------------------------------------------------------------------------
(* What makes HoldersAreMembers inductive: every copy of a table, wherever it  *)
(* is, was written by the creator and names its owner.                         *)

Own(n, t) == t # NoGroup => n \in t.members /\ t \in written

CopiesAreOwn ==
    \A n \in Node :
        /\ Own(n, mem[n]) /\ Own(n, db[n])
        /\ pump[n].pc = "store" => Own(n, pump[n].table)
        /\ pump[n].to # {} => pump[n].table \in written
        /\ Creator \notin pump[n].to

CommandsAreOwn ==
    /\ cmd[Creator].pc \in {"write", "store", "fanout"} => Creator \in cmd[Creator].new.members
    /\ cmd[Creator].pc \in {"store", "fanout"} => cmd[Creator].new \in written
    /\ cmd[Creator].pc # "notify"

FramesAreWritten ==
    \A f \in net : /\ f.type = "Info" => f.table \in written /\ f.to # Creator
                   /\ f.type = "Leave" => f.from # Creator /\ f.to = Creator

(* What makes the steps of GroupLedger: until a fork the creator holds the     *)
(* newest table, and an update that is under way starts from it or is a fork.  *)

CreatorIsNewest ==
    /\ \A t \in written : t.version > 0
    /\ ~forked /\ Holds(Creator) => \A t \in written : t.version <= mem[Creator].version
    /\ cmd[Creator].pc = "write" => /\ cmd[Creator].old # NoGroup
                                    /\ cmd[Creator].new.version = cmd[Creator].old.version + 1
=============================================================================
