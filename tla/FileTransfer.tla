---------------------------- MODULE FileTransfer ----------------------------
(***************************************************************************)
(* Native file transfers between two devices: transport/manager.rs          *)
(* (offer, answer, data connection), transport/filexfer.rs (the part file)  *)
(* and the transfers table that core.rs keeps on either side.               *)
(*                                                                         *)
(* All transfers here go from one sender to one receiver and carry files of *)
(* the same name: what they share on the receiver is <name>.bigpaw-part and *)
(* <name>.  Other transfers have nothing in common.                         *)
(*                                                                         *)
(* Per transfer there are, on the sender, the command offer_file and the    *)
(* thread that awaits the reply and pushes the bytes; on the receiver, the  *)
(* reader of the control connection, the command respond_file and the       *)
(* thread of the data connection; and the pump of either side, which writes *)
(* the rows.  A file is a sequence of blocks.  Files on the receiver's disk *)
(* are told apart from their names, because a thread keeps writing to the   *)
(* file it opened when another one renames it: a file is named after the    *)
(* transfer that created it.                                                *)
(*                                                                         *)
(* A write to a table may fail, which is only logged, and a process may end *)
(* before it has written what it knows.  sMissed and rMissed keep which     *)
(* transfers that happened to, so that the properties can name them.        *)
(***************************************************************************)
EXTENDS Integers, Sequences, FiniteSets

CONSTANTS
    Xfer,         \* transfers
    Block,        \* values of a block
    Content,      \* the blocks each transfer offers
    NoFile,       \* no file under a name, no transfer
    Hole,         \* a block never written
    Overlap,      \* whether two accepted transfers may be under way at once
    LateAnswers,  \* whether the sender's 120 s may pass before an answer
    BadWrites,    \* transfers whose writes to the tables may fail
    Breaks,       \* whether connections break
    Restarts      \* whether devices restart

ASSUME ContentAssumption == Content \in [Xfer -> Seq(Block)]
ASSUME NoFileAssumption == NoFile \notin Xfer
ASSUME SwitchAssumption ==
    {Overlap, LateAnswers, Breaks, Restarts} \subseteq BOOLEAN

VARIABLES
    snd,         \* progress of await_offer_reply
    inserting,   \* offer_file: offers whose row is not inserted yet
    srow,        \* the sender's transfers table
    sEvents,     \* the sender's events the pump has not written yet
    sMissed,     \* history: the transfers whose outcome found no row to end, see SenderPump
    ctrl,        \* control connection: the frame in it
    data,        \* data connection; "lost": nothing more comes and nobody says so
    incoming,    \* IncomingState.offset of the accepted transfers, or NoOffset
    recv,        \* receive_into: [pc, file, pos, done, hashed]
    disk,        \* the blocks of the files on the receiver's disk
    part,        \* the file named <name>.bigpaw-part, or NoFile
    final,       \* the file named <name>, or NoFile
    rrow,        \* the receiver's transfers table
    rEvents,     \* the receiver's events the pump has not written yet
    answer,      \* respond_file between its two steps: [xfer, status]
    rMissed,     \* history: the transfers of which the receiver's table missed something
    delivered    \* history: the transfers that ended with a rename, and the last one

senderVars   == <<snd, inserting, srow, sEvents, sMissed>>
fileVars     == <<recv, disk, part, final, delivered>>
tableVars    == <<rrow, rEvents, answer, rMissed>>
vars == <<senderVars, ctrl, data, incoming, fileVars, tableVars>>

NoOffset == -1
Size(x) == Len(Content[x])

Final  == {"done", "failed", "rejected"}

NoAnswer == [xfer |-> NoFile, status |-> "none"]

NoRecv  == [pc |-> "none", file |-> NoFile, pos |-> 0, done |-> 0, hashed |-> <<>>]

Init ==
    /\ snd = [x \in Xfer |-> "none"] /\ inserting = {}
    /\ srow = [x \in Xfer |-> "none"] /\ sEvents = {} /\ sMissed = {}
    /\ ctrl = [x \in Xfer |-> "none"]
    /\ data = [x \in Xfer |-> "none"]
    /\ incoming = [x \in Xfer |-> NoOffset]
    /\ recv = [x \in Xfer |-> NoRecv] /\ disk = [x \in Xfer |-> <<>>]
    /\ part = NoFile /\ final = NoFile
    /\ rrow = [x \in Xfer |-> "none"] /\ rEvents = {} /\ answer = NoAnswer
    /\ rMissed = {}
    /\ delivered = [all |-> {}, last |-> NoFile]

-----------------------------------------------------------------------------
(* The transfers table (storage.rs): INSERT OR IGNORE, and an UPDATE that     *)
(* leaves final states and unknown transfers alone.                           *)

InsertTransfer(row, x, status) ==
    IF row[x] = "none" THEN [row EXCEPT ![x] = status] ELSE row

\* (mutation) Later states overwrite final ones.
UpdateTransferAlways(row, x, status) ==
    IF row[x] = "none" THEN row ELSE [row EXCEPT ![x] = status]

UpdateTransfer(row, x, status) ==
    IF row[x] \in {"none"} \cup Final THEN row ELSE [row EXCEPT ![x] = status]

\* What comes of a write of x: the table as it is to be, or as it was.
Written(x, old, new) == {new} \cup (IF x \in BadWrites THEN {old} ELSE {})

\* The pump writes an event down.
Persist(row, e) ==
    IF e.type = "offered" THEN InsertTransfer(row, e.xfer, "offered")
                          ELSE UpdateTransfer(row, e.xfer, e.type)

SendEvent(type, x) == sEvents' = sEvents \cup {[type |-> type, xfer |-> x]}
RecvEvent(type, x) == rEvents' = rEvents \cup {[type |-> type, xfer |-> x]}

-----------------------------------------------------------------------------
(* The sender. *)

\* offer_file after a successful dial: the offer is written, the reply thread
\* started.  A failed dial leaves nothing behind.
OfferFile(x) ==
    /\ snd[x] = "none"
    /\ snd' = [snd EXCEPT ![x] = "waiting"]
    /\ inserting' = inserting \cup {x}
    /\ ctrl' = [ctrl EXCEPT ![x] = "offer"]
    /\ UNCHANGED <<srow, sEvents, sMissed, data, incoming, fileVars, tableVars>>

\* Core::offer_file continues: the row, while the reply thread is already at work.
InsertRow(x) ==
    /\ x \in inserting /\ inserting' = inserting \ {x}
    /\ srow' \in Written(x, srow, InsertTransfer(srow, x, "active"))
    /\ UNCHANGED <<snd, sEvents, sMissed, ctrl, data, incoming, fileVars, tableVars>>

ReadAccept(x) ==
    /\ snd[x] = "waiting" /\ ctrl[x] = "accept"
    /\ snd' = [snd EXCEPT ![x] = "dial"]
    /\ ctrl' = [ctrl EXCEPT ![x] = "gone"]
    /\ UNCHANGED <<inserting, srow, sEvents, sMissed, data, incoming, fileVars, tableVars>>

ReadReject(x) ==
    /\ snd[x] = "waiting" /\ ctrl[x] = "reject"
    /\ snd' = [snd EXCEPT ![x] = "ended"] /\ SendEvent("failed", x)
    /\ ctrl' = [ctrl EXCEPT ![x] = "gone"]
    /\ UNCHANGED <<inserting, srow, sMissed, data, incoming, fileVars, tableVars>>

\* (mutation) The thread ends without a word.
GiveUpSilently(x) ==
    /\ snd[x] = "waiting"
    /\ LateAnswers \/ Breaks \/ ctrl[x] = "gone"
    /\ snd' = [snd EXCEPT ![x] = "ended"]
    /\ UNCHANGED <<inserting, srow, sEvents, sMissed, ctrl, data, incoming, fileVars, tableVars>>

\* 120 s without a reply, or the control connection is lost.  The frames on it
\* stay where they are: the receiver may read the offer yet.
GiveUp(x) ==
    /\ snd[x] = "waiting"
    /\ LateAnswers \/ Breaks \/ ctrl[x] = "gone"
    /\ snd' = [snd EXCEPT ![x] = "ended"] /\ SendEvent("failed", x)
    /\ UNCHANGED <<inserting, srow, sMissed, ctrl, data, incoming, fileVars, tableVars>>

DialData(x) ==
    /\ snd[x] = "dial"
    /\ \/ /\ snd' = [snd EXCEPT ![x] = "sending"]
          /\ data' = [data EXCEPT ![x] = "start"]
          /\ UNCHANGED sEvents
       \/ /\ Breaks \/ Restarts
          /\ snd' = [snd EXCEPT ![x] = "ended"] /\ SendEvent("failed", x)
          /\ UNCHANGED data
    /\ UNCHANGED <<inserting, srow, sMissed, ctrl, incoming, fileVars, tableVars>>

\* send_from.  How far the sender is ahead of the receiver makes no difference:
\* either everything gets into the connection and the transfer is done,
\* whatever the receiver makes of it ...
FinishSend(x) ==
    /\ snd[x] = "sending"
    /\ snd' = [snd EXCEPT ![x] = "sent"] /\ SendEvent("done", x)
    /\ UNCHANGED <<inserting, srow, sMissed, ctrl, data, incoming, fileVars, tableVars>>

\* ... or a write fails, because the receiver closed the connection or it broke.
FailSend(x) ==
    /\ snd[x] = "sending" /\ (Breaks \/ data[x] = "gone")
    /\ snd' = [snd EXCEPT ![x] = "ended"] /\ SendEvent("failed", x)
    /\ UNCHANGED <<inserting, srow, sMissed, ctrl, data, incoming, fileVars, tableVars>>

\* The outcome ends the row, unless the row is not there yet or the write fails.
SenderPump(e) ==
    /\ e \in sEvents /\ sEvents' = sEvents \ {e}
    /\ srow' \in Written(e.xfer, srow, Persist(srow, e))
    /\ sMissed' = IF srow'[e.xfer] \in Final THEN sMissed ELSE sMissed \cup {e.xfer}
    /\ UNCHANGED <<snd, inserting, ctrl, data, incoming, fileVars, tableVars>>

-----------------------------------------------------------------------------
(* The receiver: offer and answer. *)

\* read_loop: pending_offers holds x exactly while its reader waits for an
\* answer, which is what the frame "pending" stands for.
TakeOffer(x) ==
    /\ ctrl[x] = "offer"
    /\ ctrl' = [ctrl EXCEPT ![x] = "pending"]
    /\ RecvEvent("offered", x)
    /\ UNCHANGED <<senderVars, data, incoming, fileVars, rrow, answer, rMissed>>

ReceiverPump(e) ==
    /\ e \in rEvents /\ rEvents' = rEvents \ {e}
    /\ LET new == Persist(rrow, e)
       IN /\ rrow' \in Written(e.xfer, rrow, new)
          /\ rMissed' = IF rrow' = new THEN rMissed ELSE rMissed \cup {e.xfer}
    /\ UNCHANGED <<senderVars, ctrl, data, incoming, fileVars, answer>>

UnderWay(x) == incoming[x] # NoOffset \/ recv[x].pc = "reading"

\* The UI offers the buttons while the row says so, or on the event alone if the row
\* could not be inserted.
CanAnswer(x) ==
    /\ answer = NoAnswer
    /\ rrow[x] = "offered" \/ (rrow[x] = "none" /\ x \in rMissed)

PartLength == IF part = NoFile THEN 0 ELSE Len(disk[part])

\* respond_file(accept), first step: the transport.  An offer that is not
\* pending any more is silently ignored; a name that safe_basename refuses is
\* answered by a rejection.
Accept(x) ==
    /\ CanAnswer(x)
    /\ Overlap \/ ~\E y \in Xfer : UnderWay(y)
    /\ answer' = [xfer |-> x, status |-> "active"]
    /\ \/ ctrl[x] # "pending" /\ UNCHANGED <<ctrl, incoming, rEvents>>
       \/ /\ ctrl[x] = "pending"
          /\ ctrl' = [ctrl EXCEPT ![x] = "reject"]
          /\ RecvEvent("failed", x)
          /\ UNCHANGED incoming
       \/ /\ ctrl[x] = "pending"
          /\ ctrl' = [ctrl EXCEPT ![x] = "accept"]
          /\ incoming' = [incoming EXCEPT ![x] = PartLength]
          /\ UNCHANGED rEvents
    /\ UNCHANGED <<senderVars, data, fileVars, rrow, rMissed>>

Reject(x) ==
    /\ CanAnswer(x)
    /\ answer' = [xfer |-> x, status |-> "rejected"]
    /\ ctrl' = [ctrl EXCEPT ![x] = IF @ = "pending" THEN "reject" ELSE @]
    /\ UNCHANGED <<senderVars, data, incoming, fileVars, rrow, rEvents, rMissed>>

\* respond_file, second step: the row.
RecordAnswer ==
    /\ answer # NoAnswer /\ answer' = NoAnswer
    /\ LET new == UpdateTransfer(rrow, answer.xfer, answer.status)
       IN /\ rrow' \in Written(answer.xfer, rrow, new)
          /\ rMissed' = IF rrow' = new THEN rMissed ELSE rMissed \cup {answer.xfer}
    /\ UNCHANGED <<senderVars, ctrl, data, incoming, fileVars, rEvents>>

-----------------------------------------------------------------------------
(* The receiver: the data connection. *)

\* The connection breaks without the receiver's thread hearing of it: before FileStart
\* has come, when the accept loop drops it without a word; or later, when it goes silent
\* and read_exact, which has no time-out, waits for ever.
LoseData(x) ==
    /\ Breaks
    /\ data[x] = "start" \/ (data[x] = "taken" /\ recv[x].done < Size(x))
    /\ data' = [data EXCEPT ![x] = "lost"]
    /\ UNCHANGED <<senderVars, ctrl, incoming, fileVars, tableVars>>

\* A FileStart nobody waits for.
RefuseData(x) ==
    /\ data[x] = "start" /\ incoming[x] = NoOffset
    /\ data' = [data EXCEPT ![x] = "gone"]
    /\ RecvEvent("failed", x)
    /\ UNCHANGED <<senderVars, ctrl, incoming, fileVars, rrow, answer, rMissed>>

TakeData(x) ==
    /\ data[x] = "start" /\ incoming[x] # NoOffset
    /\ incoming' = [incoming EXCEPT ![x] = NoOffset]

\* receive_into: the bytes before the offset are hashed from the part file,
\* what follows them is cut off.
ResumePart(x) ==
    LET offset == incoming[x]
        kept   == SubSeq(disk[part], 1, offset)
    IN /\ TakeData(x) /\ offset > 0 /\ part # NoFile /\ Len(disk[part]) >= offset
       /\ data' = [data EXCEPT ![x] = "taken"]
       /\ disk' = [disk EXCEPT ![part] = kept]
       /\ recv' = [recv EXCEPT ![x] =
              [pc |-> "reading", file |-> part, pos |-> offset, done |-> offset, hashed |-> kept]]
       /\ UNCHANGED <<senderVars, ctrl, part, final, delivered, tableVars>>

\* No offset, or no part file: create or empty it.  The count starts at the
\* offset even so.
CreatePart(x) ==
    LET file == IF part = NoFile THEN x ELSE part
    IN /\ TakeData(x) /\ (incoming[x] = 0 \/ part = NoFile)
       /\ data' = [data EXCEPT ![x] = "taken"]
       /\ disk' = [disk EXCEPT ![file] = <<>>] /\ part' = file
       /\ recv' = [recv EXCEPT ![x] =
              [pc |-> "reading", file |-> file, pos |-> 0, done |-> incoming[x], hashed |-> <<>>]]
       /\ UNCHANGED <<senderVars, ctrl, final, delivered, tableVars>>

\* The part file became shorter than the offset.
FailResume(x) ==
    /\ TakeData(x) /\ incoming[x] > 0 /\ part # NoFile /\ Len(disk[part]) < incoming[x]
    /\ data' = [data EXCEPT ![x] = "gone"]
    /\ RecvEvent("failed", x)
    /\ UNCHANGED <<senderVars, ctrl, fileVars, rrow, answer, rMissed>>

\* A block written at a position, past the end too.
WriteAt(blocks, pos, b) ==
    [i \in 1 .. (IF pos < Len(blocks) THEN Len(blocks) ELSE pos + 1) |->
        IF i = pos + 1 THEN b ELSE IF i <= Len(blocks) THEN blocks[i] ELSE Hole]

ReceiveBlock(x) ==
    LET r == recv[x]
        b == Content[x][r.done + 1]
    IN /\ r.pc = "reading" /\ r.done < Size(x) /\ data[x] = "taken"
       /\ disk' = [disk EXCEPT ![r.file] = WriteAt(@, r.pos, b)]
       /\ recv' = [recv EXCEPT ![x] =
              [r EXCEPT !.pos = @ + 1, !.done = @ + 1, !.hashed = Append(@, b)]]
       /\ UNCHANGED <<senderVars, ctrl, data, incoming, part, final, delivered, tableVars>>

EndReceive(x) ==
    /\ recv' = [recv EXCEPT ![x] = NoRecv]
    /\ data' = [data EXCEPT ![x] = "gone"]

\* The connection ends early, and the thread hears of it: the part file stays for a
\* later resume.
FailReceive(x) ==
    /\ recv[x].pc = "reading" /\ recv[x].done < Size(x) /\ data[x] = "taken"
    /\ Breaks \/ snd[x] = "ended"
    /\ EndReceive(x) /\ RecvEvent("failed", x)
    /\ UNCHANGED <<senderVars, ctrl, incoming, disk, part, final, delivered, rrow, answer, rMissed>>

Received(x) == recv[x].pc = "reading" /\ recv[x].done >= Size(x)

\* (mutation) The part file gets its name without a look at the checksum.
DeliverUnchecked(x) ==
    /\ Received(x) /\ part # NoFile
    /\ EndReceive(x) /\ RecvEvent("done", x)
    /\ final' = part /\ part' = NoFile
    /\ delivered' = [all |-> delivered.all \cup {x}, last |-> x]
    /\ UNCHANGED <<senderVars, ctrl, incoming, disk, rrow, answer, rMissed>>

\* The checksum is right: rename whatever is named <name>.bigpaw-part by now.
Deliver(x) ==
    /\ Received(x) /\ recv[x].hashed = Content[x] /\ part # NoFile
    /\ EndReceive(x) /\ RecvEvent("done", x)
    /\ final' = part /\ part' = NoFile
    /\ delivered' = [all |-> delivered.all \cup {x}, last |-> x]
    /\ UNCHANGED <<senderVars, ctrl, incoming, disk, rrow, answer, rMissed>>

FailRename(x) ==
    /\ Received(x) /\ recv[x].hashed = Content[x] /\ part = NoFile
    /\ EndReceive(x) /\ RecvEvent("failed", x)
    /\ UNCHANGED <<senderVars, ctrl, incoming, disk, part, final, delivered, rrow, answer, rMissed>>

\* The checksum is wrong: the part file stays.
FailChecksum(x) ==
    /\ Received(x) /\ recv[x].hashed # Content[x]
    /\ EndReceive(x) /\ RecvEvent("failed", x)
    /\ UNCHANGED <<senderVars, ctrl, incoming, disk, part, final, delivered, rrow, answer, rMissed>>

-----------------------------------------------------------------------------
(* Restarts: rows and files stay; what a row did not say yet, it never will. *)

RestartSender ==
    /\ Restarts
    /\ snd' = [x \in Xfer |-> IF snd[x] \in {"none", "sent"} THEN snd[x] ELSE "ended"]
    /\ inserting' = {} /\ sEvents' = {}
    /\ sMissed' = sMissed \cup {x \in Xfer : srow[x] = "active"}
    /\ UNCHANGED <<srow, ctrl, data, incoming, fileVars, tableVars>>

\* An answer may have been sent before.
RestartReceiver ==
    /\ Restarts
    /\ \E Sent \in SUBSET {x \in Xfer : ctrl[x] \in {"accept", "reject"}} :
          ctrl' = [x \in Xfer |-> IF ctrl[x] = "none" \/ x \in Sent THEN ctrl[x]
                                  ELSE "gone"]
    /\ data' = [x \in Xfer |-> IF data[x] = "none" THEN "none" ELSE "gone"]
    /\ incoming' = [x \in Xfer |-> NoOffset] /\ recv' = [x \in Xfer |-> NoRecv]
    /\ rEvents' = {} /\ answer' = NoAnswer
    /\ rMissed' = rMissed \cup {x \in Xfer : ctrl[x] # "none" /\ rrow[x] \notin Final}
    /\ UNCHANGED <<senderVars, disk, part, final, delivered, rrow>>

-----------------------------------------------------------------------------
Sending(x) ==
    \/ InsertRow(x) \/ ReadAccept(x) \/ ReadReject(x) \/ GiveUp(x)
    \/ DialData(x) \/ FinishSend(x) \/ FailSend(x)

Opening(x)   == RefuseData(x) \/ ResumePart(x) \/ CreatePart(x) \/ FailResume(x)
Ending(x)    == Deliver(x) \/ FailRename(x) \/ FailChecksum(x)
Receiving(x) == TakeOffer(x) \/ Opening(x) \/ ReceiveBlock(x) \/ FailReceive(x) \/ Ending(x)

SenderPumps   == \E e \in sEvents : SenderPump(e)
ReceiverPumps == \E e \in rEvents : ReceiverPump(e)

User == \E x \in Xfer : OfferFile(x) \/ Accept(x) \/ Reject(x)

Next ==
    \/ User \/ RecordAnswer
    \/ \E x \in Xfer : Sending(x) \/ Receiving(x) \/ LoseData(x)
    \/ SenderPumps \/ ReceiverPumps
    \/ RestartSender \/ RestartReceiver

Spec == Init /\ [][Next]_vars

\* Every thread goes on; nobody has to offer, accept or reject anything.  A receiving
\* thread goes on while its connection brings bytes or an error: once it is lost no
\* step of the thread is possible, and none is promised.  A write to a connection that
\* nobody acknowledges fails in the end; a receiving device that goes on acknowledging
\* and stops reading is left out.
Fairness ==
    /\ WF_vars(RecordAnswer) /\ WF_vars(SenderPumps) /\ WF_vars(ReceiverPumps)
    /\ \A x \in Xfer :
          /\ WF_vars(InsertRow(x))
          /\ WF_vars(ReadAccept(x) \/ ReadReject(x) \/ GiveUp(x))
          /\ WF_vars(DialData(x))
          /\ WF_vars(FinishSend(x) \/ FailSend(x))
          /\ WF_vars(Receiving(x))

LiveSpec == Spec /\ Fairness

-----------------------------------------------------------------------------
(* Properties. *)

\* What stands under the file's own name is, block for block, the file that was
\* offered by the transfer reported as done last: filexfer.rs:1 has it renamed
\* only when complete and verified.
WholeUnderName == final # NoFile => disk[final] = Content[delivered.last]

\* The row of a transfer tells how it ended: a renamed file is recorded as done
\* once its event is written, whichever of command and pump comes last, unless the
\* table missed the event in a failed write or a restart; and a row that says done
\* belongs to a renamed file (storage.rs:148).
OutcomeIsKept ==
    \A x \in Xfer :
        /\ rrow[x] = "done" => x \in delivered.all
        /\ x \in delivered.all =>
               \/ rrow[x] = "done" \/ [type |-> "done", xfer |-> x] \in rEvents
               \/ x \in rMissed

\* A transfer the receiver works on ends in its table (manager.rs:893-894).  False of the
\* code: nothing happens to a row whose data connection never comes.
ReceiverRowEnds == \A x \in Xfer : rrow[x] = "active" ~> rrow[x] \in Final

\* Once FileStart has been read the transfer ends in the receiver's table, unless the
\* connection goes silent, which the thread never hears of (manager.rs:267), or the table
\* missed the outcome.
ReceivedRowEnds ==
    \A x \in Xfer :
        data[x] \in {"taken", "gone"} /\ rrow[x] = "active"
            ~> rrow[x] \in Final \/ data[x] = "lost" \/ x \in rMissed

\* A transfer the sender offered ends in the sender's table (manager.rs:893-894), unless
\* the outcome came when there was no row to end yet (core.rs:887) or its write failed.
SenderRowEnds ==
    \A x \in Xfer : srow[x] = "active" ~> srow[x] \in Final \/ x \in sMissed
=============================================================================
