------------------------ MODULE FileTransfer_proofs ------------------------
(***************************************************************************)
(* Machine-checked proofs about FileTransfer, for any transfers, contents   *)
(* and switches: what the tables record, what is on the disk, and which     *)
(* transfers are forgotten before they have ended.                          *)
(***************************************************************************)
EXTENDS FileTransfer, SequenceTheorems, TLAPS

Statuses == {"none", "offered", "active"} \cup Final

EventTypes == {"offered", "failed", "done"}

\* The progress of a receiving thread has a phase.
Receiver(r) == "pc" \in DOMAIN r /\ r.pc \in {"none", "reading"}

\* The receiver's tables, channels and connections have the shape the code gives them.
Shape ==
    /\ snd \in [Xfer -> {"none", "waiting", "dial", "sending", "sent", "ended"}]
    /\ ctrl \in [Xfer -> {"none", "offer", "pending", "accept", "reject", "gone"}]
    /\ data \in [Xfer -> {"none", "start", "taken", "lost", "gone"}]
    /\ incoming = [x \in Xfer |-> incoming[x]]
    /\ recv = [x \in Xfer |-> recv[x]]
    /\ \A x \in Xfer : Receiver(recv[x])
    /\ rrow \in [Xfer -> Statuses]
    /\ rEvents \subseteq [type : EventTypes, xfer : Xfer]
    /\ answer = NoAnswer \/ answer \in [xfer : Xfer, status : {"active", "rejected"}]
    /\ delivered.all \subseteq Xfer

Event(type, x) == [type |-> type, xfer |-> x]

\* Nothing says done but of a renamed file.
DoneIsDelivered ==
    \A x \in Xfer : rrow[x] = "done" \/ Event("done", x) \in rEvents => x \in delivered.all

Reading(x) == recv[x].pc = "reading"

\* The user accepted x and nothing has gone wrong since.
Accepted(x) == incoming[x] # NoOffset \/ Reading(x) \/ x \in delivered.all

\* The control connection before the user's answer; the data connection after it.
Order(x) ==
    /\ snd[x] = "none" => ctrl[x] = "none"
    /\ snd[x] \in {"none", "waiting", "dial"} => data[x] = "none"
    /\ snd[x] = "dial" => ctrl[x] = "gone"
    /\ ctrl[x] \in {"none", "offer", "pending"} =>
           data[x] = "none" /\ Event("failed", x) \notin rEvents
    /\ incoming[x] # NoOffset => data[x] \in {"none", "start", "lost"}
    /\ Reading(x) => data[x] \in {"taken", "lost"} /\ incoming[x] = NoOffset
    /\ x \in delivered.all => data[x] = "gone"

\* While an accepted transfer goes well nothing in the tables, in the pump's channel or
\* in the hands of the command can end it otherwise.
Clean(x) ==
    /\ Event("failed", x) \notin rEvents
    /\ rrow[x] \in {"offered", "active", "done"}
    /\ answer.xfer = x => answer.status = "active"
    /\ answer.xfer = x \/ rrow[x] # "offered"
    /\ x \in delivered.all => rrow[x] = "done" \/ Event("done", x) \in rEvents

\* ... unless the table missed something of it.
Goes(x) == Order(x) /\ (Accepted(x) => Clean(x) \/ x \in rMissed)

OutcomeInv ==
    /\ Shape
    /\ DoneIsDelivered
    /\ \A x \in Xfer : Goes(x)

-----------------------------------------------------------------------------
LEMMA Updated ==
    ASSUME NEW row \in [Xfer -> Statuses], NEW x \in Xfer, NEW status \in Statuses
    PROVE  /\ UpdateTransfer(row, x, status) \in [Xfer -> Statuses]
           /\ \A y \in Xfer : y # x => UpdateTransfer(row, x, status)[y] = row[y]
           /\ UpdateTransfer(row, x, status)[x] =
                  IF row[x] \in {"none"} \cup Final THEN row[x] ELSE status
BY DEF UpdateTransfer

LEMMA Inserted ==
    ASSUME NEW row \in [Xfer -> Statuses], NEW x \in Xfer, NEW status \in Statuses
    PROVE  /\ InsertTransfer(row, x, status) \in [Xfer -> Statuses]
           /\ \A y \in Xfer : y # x => InsertTransfer(row, x, status)[y] = row[y]
           /\ InsertTransfer(row, x, status)[x] = IF row[x] = "none" THEN status ELSE row[x]
BY DEF InsertTransfer

\* The command writes its answer down, or the table misses it.
LEMMA Recorded ==
    ASSUME Shape, RecordAnswer
    PROVE  /\ answer.xfer \in Xfer /\ answer.status \in {"active", "rejected"}
           /\ answer'.xfer = NoFile
           /\ rrow' \in [Xfer -> Statuses] /\ rMissed \subseteq rMissed'
           /\ \A y \in Xfer : y # answer.xfer => rrow'[y] = rrow[y]
           /\ \/ rrow'[answer.xfer] =
                  IF rrow[answer.xfer] \in {"none"} \cup Final THEN rrow[answer.xfer] ELSE answer.status
              \/ rrow' = rrow /\ answer.xfer \in rMissed'
<1>1. answer.xfer \in Xfer /\ answer.status \in {"active", "rejected"} /\ answer'.xfer = NoFile
  BY DEF Shape, RecordAnswer, NoAnswer
<1>2. answer.status \in Statuses
  BY <1>1 DEF Statuses, Final
<1>3. /\ rrow \in [Xfer -> Statuses] /\ rMissed \subseteq rMissed'
      /\ \/ rrow' = UpdateTransfer(rrow, answer.xfer, answer.status)
         \/ rrow' = rrow /\ answer.xfer \in rMissed'
  BY DEF Shape, RecordAnswer, Written
<1>4. CASE rrow' = UpdateTransfer(rrow, answer.xfer, answer.status)
  <2> DEFINE x == answer.xfer
             new == UpdateTransfer(rrow, x, answer.status)
  <2>1. /\ new \in [Xfer -> Statuses]
        /\ \A y \in Xfer : y # x => new[y] = rrow[y]
        /\ new[x] = IF rrow[x] \in {"none"} \cup Final THEN rrow[x] ELSE answer.status
    BY <1>1, <1>2, <1>3, Updated
  <2> HIDE DEF new
  <2> QED
    BY <1>1, <1>3, <1>4, <2>1 DEF new
<1>5. CASE rrow' = rrow /\ answer.xfer \in rMissed'
  BY <1>1, <1>3, <1>5
<1> QED
  BY <1>3, <1>4, <1>5

\* The pump writes an event down, or the table misses it.
LEMMA Pumped ==
    ASSUME Shape, NEW e \in rEvents, ReceiverPump(e)
    PROVE  /\ e.xfer \in Xfer /\ e.type \in EventTypes /\ e = Event(e.type, e.xfer)
           /\ rrow' \in [Xfer -> Statuses] /\ rMissed \subseteq rMissed'
           /\ \A y \in Xfer : y # e.xfer => rrow'[y] = rrow[y]
           /\ \/ /\ e.type = "offered" =>
                     rrow'[e.xfer] = IF rrow[e.xfer] = "none" THEN "offered" ELSE rrow[e.xfer]
                 /\ e.type # "offered" =>
                     rrow'[e.xfer] = IF rrow[e.xfer] \in {"none"} \cup Final THEN rrow[e.xfer] ELSE e.type
              \/ rrow' = rrow /\ e.xfer \in rMissed'
<1>1. e.xfer \in Xfer /\ e.type \in EventTypes /\ e = Event(e.type, e.xfer)
  BY DEF Shape, Event
<1>2. e.type \in Statuses /\ "offered" \in Statuses
  BY <1>1 DEF Statuses, EventTypes, Final
<1>3. rrow \in [Xfer -> Statuses]
  BY DEF Shape
<1>4. /\ rMissed \subseteq rMissed'
      /\ \/ rrow' = Persist(rrow, e)
         \/ rrow' = rrow /\ e.xfer \in rMissed'
  BY DEF ReceiverPump, Written
<1>5. CASE rrow' = Persist(rrow, e) /\ e.type = "offered"
  <2>1. rrow' = InsertTransfer(rrow, e.xfer, "offered")
    BY <1>5 DEF Persist
  <2> QED
    BY <1>1, <1>2, <1>3, <1>4, <1>5, <2>1, Inserted
<1>6. CASE rrow' = Persist(rrow, e) /\ e.type # "offered"
  <2> DEFINE x == e.xfer
             new == UpdateTransfer(rrow, x, e.type)
  <2>1. rrow' = new
    BY <1>6 DEF Persist
  <2>2. /\ new \in [Xfer -> Statuses]
        /\ \A y \in Xfer : y # x => new[y] = rrow[y]
        /\ new[x] = IF rrow[x] \in {"none"} \cup Final THEN rrow[x] ELSE e.type
    <3>1. x \in Xfer /\ e.type \in Statuses
      BY <1>1, <1>2
    <3> HIDE DEF x
    <3> QED
      BY <1>3, <3>1, Updated
  <2> HIDE DEF new
  <2> QED
    BY <1>1, <1>4, <1>6, <2>1, <2>2
<1>7. CASE rrow' = rrow /\ e.xfer \in rMissed'
  BY <1>1, <1>3, <1>4, <1>7
<1> QED
  BY <1>4, <1>5, <1>6, <1>7

LEMMA NotReceiving == Receiver(NoRecv)
BY DEF Receiver, NoRecv

LEMMA StartsReading ==
    ASSUME NEW file, NEW pos, NEW done, NEW hashed
    PROVE  Receiver([pc |-> "reading", file |-> file, pos |-> pos, done |-> done, hashed |-> hashed])
BY DEF Receiver

\* A block more leaves the phase alone.
LEMMA KeepsReading ==
    ASSUME NEW r, Receiver(r), NEW pos, NEW done, NEW hashed
    PROVE  /\ Receiver([r EXCEPT !.pos = pos, !.done = done, !.hashed = hashed])
           /\ [r EXCEPT !.pos = pos, !.done = done, !.hashed = hashed].pc = r.pc
BY DEF Receiver

LEMMA OutcomeInit == Init => OutcomeInv
<1> SUFFICES ASSUME Init PROVE OutcomeInv
  OBVIOUS
<1>1. Shape
  BY NotReceiving DEF Init, Shape, Statuses
<1>2. DoneIsDelivered
  BY DEF Init, DoneIsDelivered
<1>3. \A x \in Xfer : Order(x) /\ ~Accepted(x)
  BY DEF Init, Order, Accepted, Reading, NoRecv
<1> QED
  BY <1>1, <1>2, <1>3 DEF OutcomeInv, Goes

-----------------------------------------------------------------------------
LEMMA ShapeStep == Shape /\ [Next]_vars => Shape'
<1> SUFFICES ASSUME Shape, [Next]_vars PROVE Shape'
  OBVIOUS
<1> USE DEF Statuses, Final, EventTypes
<1>1. ASSUME NEW x \in Xfer, OfferFile(x) PROVE Shape'
  BY <1>1 DEF Shape, OfferFile, fileVars, tableVars
<1>2. ASSUME NEW x \in Xfer, Accept(x) PROVE Shape'
  BY <1>2 DEF Shape, Accept, senderVars, fileVars, RecvEvent
<1>3. ASSUME NEW x \in Xfer, Reject(x) PROVE Shape'
  BY <1>3 DEF Shape, Reject, senderVars, fileVars
<1>4. ASSUME RecordAnswer PROVE Shape'
  <2>1. rrow' \in [Xfer -> Statuses]
    BY <1>4, Recorded
  <2> QED
    BY <1>4, <2>1 DEF Shape, RecordAnswer, senderVars, fileVars
<1>5. ASSUME NEW x \in Xfer, InsertRow(x) PROVE Shape'
  BY <1>5 DEF Shape, InsertRow, fileVars, tableVars
<1>6. ASSUME NEW x \in Xfer, ReadAccept(x) \/ ReadReject(x) \/ GiveUp(x) PROVE Shape'
  BY <1>6 DEF Shape, ReadAccept, ReadReject, GiveUp, SendEvent, fileVars, tableVars
<1>7. ASSUME NEW x \in Xfer, DialData(x) \/ FinishSend(x) \/ FailSend(x) PROVE Shape'
  BY <1>7 DEF Shape, DialData, FinishSend, FailSend, SendEvent, fileVars, tableVars
<1>8. ASSUME NEW x \in Xfer, TakeOffer(x) PROVE Shape'
  BY <1>8 DEF Shape, TakeOffer, RecvEvent, senderVars, fileVars
<1>9. ASSUME NEW x \in Xfer, RefuseData(x) \/ FailResume(x) PROVE Shape'
  BY <1>9 DEF Shape, RefuseData, FailResume, TakeData, RecvEvent, senderVars, fileVars
<1>10. ASSUME NEW x \in Xfer, ResumePart(x) \/ CreatePart(x) PROVE Shape'
  <2>1. \A y \in Xfer : Receiver(recv'[y])
    BY <1>10, StartsReading DEF Shape, ResumePart, CreatePart
  <2> QED
    BY <1>10, <2>1 DEF Shape, ResumePart, CreatePart, TakeData, senderVars, tableVars
<1>11. ASSUME NEW x \in Xfer, ReceiveBlock(x) PROVE Shape'
  <2>1. Receiver(recv[x])
    BY DEF Shape
  <2>2. \A y \in Xfer : Receiver(recv'[y])
    BY <1>11, <2>1, KeepsReading DEF Shape, ReceiveBlock
  <2> QED
    BY <1>11, <2>2 DEF Shape, ReceiveBlock, senderVars, tableVars
<1>12. ASSUME NEW x \in Xfer, FailReceive(x) \/ FailRename(x) \/ FailChecksum(x) PROVE Shape'
  BY <1>12, NotReceiving DEF Shape, FailReceive, FailRename, FailChecksum, EndReceive, RecvEvent, senderVars
<1>13. ASSUME NEW x \in Xfer, Deliver(x) PROVE Shape'
  BY <1>13, NotReceiving DEF Shape, Deliver, EndReceive, RecvEvent, senderVars
<1>14. ASSUME NEW e \in sEvents, SenderPump(e) PROVE Shape'
  BY <1>14 DEF Shape, SenderPump, fileVars, tableVars
<1>15. ASSUME NEW e \in rEvents, ReceiverPump(e) PROVE Shape'
  <2>1. rrow' \in [Xfer -> Statuses]
    BY <1>15, Pumped
  <2> QED
    BY <1>15, <2>1 DEF Shape, ReceiverPump, senderVars, fileVars
<1>16. ASSUME RestartSender PROVE Shape'
  BY <1>16 DEF Shape, RestartSender, fileVars, tableVars
<1>17. ASSUME RestartReceiver PROVE Shape'
  BY <1>17, NotReceiving DEF Shape, RestartReceiver, senderVars
<1>18. ASSUME NEW x \in Xfer, LoseData(x) PROVE Shape'
  BY <1>18 DEF Shape, LoseData, senderVars, fileVars, tableVars
<1>19. ASSUME UNCHANGED vars PROVE Shape'
  BY <1>19 DEF Shape, vars, senderVars, fileVars, tableVars
<1> QED
  BY <1>1, <1>2, <1>3, <1>4, <1>5, <1>6, <1>7, <1>8, <1>9, <1>10, <1>11, <1>12, <1>13,
     <1>14, <1>15, <1>16, <1>17, <1>18, <1>19
     DEF Next, User, Sending, Receiving, Opening, Ending, SenderPumps, ReceiverPumps
-----------------------------------------------------------------------------
\* What Goes says of a transfer that is not touched stays true.
LEMMA Untouched ==
    ASSUME NEW y \in Xfer, Goes(y),
           snd'[y] = snd[y], ctrl'[y] = ctrl[y], data'[y] = data[y], incoming'[y] = incoming[y],
           recv'[y].pc = recv[y].pc, rrow'[y] = rrow[y],
           \A type \in {"failed", "done"} : Event(type, y) \in rEvents' <=> Event(type, y) \in rEvents,
           y \in delivered.all' <=> y \in delivered.all, y \in rMissed => y \in rMissed',
           answer' = answer \/ (answer.xfer # y /\ answer'.xfer # y)
    PROVE  Goes(y)'
BY DEF Goes, Order, Accepted, Reading, Clean, Event

\* One event more, of one transfer.
LEMMA OneEvent ==
    ASSUME NEW type, NEW x, RecvEvent(type, x)
    PROVE  \A t, y : Event(t, y) \in rEvents' <=> Event(t, y) \in rEvents \/ (t = type /\ y = x)
BY DEF RecvEvent, Event

LEMMA DoneStep == Shape /\ DoneIsDelivered /\ [Next]_vars => DoneIsDelivered'
<1> SUFFICES ASSUME Shape, DoneIsDelivered, [Next]_vars PROVE DoneIsDelivered'
  OBVIOUS
<1>1. ASSUME NEW x \in Xfer, Accept(x) PROVE DoneIsDelivered'
  BY <1>1, OneEvent DEF DoneIsDelivered, Accept, fileVars
<1>2. ASSUME NEW x \in Xfer, Reject(x) PROVE DoneIsDelivered'
  BY <1>2 DEF DoneIsDelivered, Reject, fileVars, Event
<1>3. ASSUME RecordAnswer PROVE DoneIsDelivered'
  <2>1. \A x \in Xfer : rrow'[x] = "done" => rrow[x] = "done"
    BY <1>3, Recorded
  <2> QED
    BY <1>3, <2>1 DEF DoneIsDelivered, RecordAnswer, fileVars, Event
<1>4. ASSUME NEW x \in Xfer, OfferFile(x) \/ Sending(x) \/ LoseData(x) PROVE DoneIsDelivered'
  BY <1>4 DEF DoneIsDelivered, OfferFile, LoseData, Sending, InsertRow, ReadAccept, ReadReject, GiveUp,
              DialData, FinishSend, FailSend, fileVars, tableVars, Event
<1>5. ASSUME NEW x \in Xfer, TakeOffer(x) PROVE DoneIsDelivered'
  BY <1>5, OneEvent DEF DoneIsDelivered, TakeOffer, fileVars
<1>6. ASSUME NEW x \in Xfer, RefuseData(x) \/ FailResume(x) PROVE DoneIsDelivered'
  BY <1>6, OneEvent DEF DoneIsDelivered, RefuseData, FailResume, fileVars
<1>7. ASSUME NEW x \in Xfer, ResumePart(x) \/ CreatePart(x) \/ ReceiveBlock(x) PROVE DoneIsDelivered'
  BY <1>7 DEF DoneIsDelivered, ResumePart, CreatePart, ReceiveBlock, tableVars, Event
<1>8. ASSUME NEW x \in Xfer, FailReceive(x) \/ FailRename(x) \/ FailChecksum(x) PROVE DoneIsDelivered'
  BY <1>8, OneEvent DEF DoneIsDelivered, FailReceive, FailRename, FailChecksum
<1>9. ASSUME NEW x \in Xfer, Deliver(x) PROVE DoneIsDelivered'
  BY <1>9, OneEvent DEF DoneIsDelivered, Deliver
<1>10. ASSUME NEW e \in sEvents, SenderPump(e) PROVE DoneIsDelivered'
  BY <1>10 DEF DoneIsDelivered, SenderPump, fileVars, tableVars, Event
<1>11. ASSUME NEW e \in rEvents, ReceiverPump(e) PROVE DoneIsDelivered'
  <2>1. \A x \in Xfer : rrow'[x] = "done" => rrow[x] = "done" \/ Event("done", x) \in rEvents
    BY <1>11, Pumped
  <2> QED
    BY <1>11, <2>1 DEF DoneIsDelivered, ReceiverPump, fileVars
<1>12. ASSUME RestartSender PROVE DoneIsDelivered'
  BY <1>12 DEF DoneIsDelivered, RestartSender, fileVars, tableVars, Event
<1>13. ASSUME RestartReceiver PROVE DoneIsDelivered'
  BY <1>13 DEF DoneIsDelivered, RestartReceiver, Event
<1>14. ASSUME UNCHANGED vars PROVE DoneIsDelivered'
  BY <1>14 DEF DoneIsDelivered, vars, fileVars, tableVars, Event
<1> QED
  BY <1>1, <1>2, <1>3, <1>4, <1>5, <1>6, <1>7, <1>8, <1>9, <1>10, <1>11, <1>12, <1>13, <1>14
     DEF Next, User, Receiving, Opening, Ending, SenderPumps, ReceiverPumps

-----------------------------------------------------------------------------
LEMMA GoesStep ==
    ASSUME Shape, \A x \in Xfer : Goes(x), [Next]_vars
    PROVE  \A x \in Xfer : Goes(x)'
<1>1. ASSUME NEW x \in Xfer, OfferFile(x) PROVE \A y \in Xfer : Goes(y)'
  <2>1. Goes(x)'
    BY <1>1 DEF Shape, OfferFile, fileVars, tableVars, Goes, Order, Accepted, Reading, Clean, Event
  <2>2. \A y \in Xfer \ {x} : Goes(y)'
    BY <1>1, Untouched DEF Shape, OfferFile, fileVars, tableVars
  <2> QED
    BY <2>1, <2>2
<1>2. ASSUME NEW x \in Xfer, Accept(x) PROVE \A y \in Xfer : Goes(y)'
  <2>1. /\ answer = NoAnswer /\ answer'.xfer = x /\ answer'.status = "active"
        /\ UNCHANGED <<snd, data, recv, delivered, rrow, rMissed>>
    BY <1>2 DEF Accept, CanAnswer, senderVars, fileVars
  <2>2. x \notin rMissed => rrow[x] = "offered" /\ ~Accepted(x)
    BY <1>2, <2>1, NoFileAssumption DEF Accept, CanAnswer, NoAnswer, Goes, Clean
  <2>3. Goes(x)'
    <3>1. CASE ctrl[x] # "pending" /\ UNCHANGED <<ctrl, incoming, rEvents>>
      BY <2>1, <2>2, <3>1 DEF Goes, Order, Accepted, Reading, Event
    <3>2. CASE ctrl[x] = "pending" /\ ctrl' = [ctrl EXCEPT ![x] = "reject"] /\ UNCHANGED incoming
      BY <2>1, <2>2, <3>2 DEF Shape, Goes, Order, Accepted, Reading
    <3>3. CASE /\ ctrl[x] = "pending" /\ ctrl' = [ctrl EXCEPT ![x] = "accept"] /\ UNCHANGED rEvents
               /\ incoming' = [incoming EXCEPT ![x] = PartLength]
      <4>1. ctrl'[x] = "accept" /\ data[x] = "none" /\ Event("failed", x) \notin rEvents
        BY <3>3 DEF Shape, Goes, Order
      <4>2. ~Reading(x) /\ x \notin delivered.all
        BY <4>1 DEF Goes, Order
      <4>3. Order(x)'
        BY <2>1, <3>3, <4>1, <4>2 DEF Goes, Order, Reading, Event
      <4>4. x \notin rMissed => Clean(x)'
        BY <2>1, <2>2, <3>3, <4>1, <4>2 DEF Clean, Event
      <4> QED
        BY <2>1, <4>3, <4>4 DEF Goes
    <3> QED
      BY <1>2, <3>1, <3>2, <3>3 DEF Accept
  <2>4. ASSUME NEW y \in Xfer \ {x} PROVE Goes(y)'
    <3>1. ctrl'[y] = ctrl[y] /\ incoming'[y] = incoming[y]
      BY <1>2 DEF Shape, Accept
    <3>2. \A type : Event(type, y) \in rEvents' <=> Event(type, y) \in rEvents
      BY <1>2, OneEvent DEF Accept
    <3>3. answer.xfer # y /\ answer'.xfer # y
      BY <2>1, NoFileAssumption DEF NoAnswer
    <3> QED
      BY <2>1, <3>1, <3>2, <3>3, Untouched
  <2> QED
    BY <2>3, <2>4
<1>3. ASSUME NEW x \in Xfer, Reject(x) PROVE \A y \in Xfer : Goes(y)'
  <2>1. /\ answer = NoAnswer /\ answer'.xfer = x
        /\ UNCHANGED <<snd, data, incoming, recv, delivered, rrow, rEvents, rMissed>>
    BY <1>3 DEF Reject, CanAnswer, senderVars, fileVars
  <2>2. x \notin rMissed => ~Accepted(x)
    BY <1>3, <2>1, NoFileAssumption DEF Reject, CanAnswer, NoAnswer, Goes, Clean
  <2>3. Goes(x)'
    BY <1>3, <2>1, <2>2 DEF Shape, Reject, Goes, Order, Accepted, Reading, Event
  <2>4. \A y \in Xfer \ {x} : Goes(y)'
    BY <1>3, <2>1, Untouched, NoFileAssumption DEF Shape, Reject, NoAnswer
  <2> QED
    BY <2>3, <2>4
<1>4. ASSUME RecordAnswer PROVE \A y \in Xfer : Goes(y)'
  <2>1. PICK x \in Xfer : x = answer.xfer
    BY <1>4, Recorded
  <2>2. /\ \/ rrow'[x] = IF rrow[x] \in {"none"} \cup Final THEN rrow[x] ELSE answer.status
           \/ x \in rMissed'
        /\ rMissed \subseteq rMissed' /\ answer'.xfer \notin Xfer
        /\ \A y \in Xfer \ {x} : rrow'[y] = rrow[y]
        /\ UNCHANGED <<snd, ctrl, data, incoming, recv, delivered, rEvents>>
    BY <1>4, <2>1, Recorded, NoFileAssumption DEF RecordAnswer, senderVars, fileVars
  <2>3. Goes(x)'
    <3>1. Order(x)'
      BY <2>2 DEF Goes, Order, Reading, Event
    <3>2. Accepted(x) => Clean(x)' \/ x \in rMissed'
      BY <2>1, <2>2 DEF Goes, Clean, Event, Final
    <3> QED
      BY <2>2, <3>1, <3>2 DEF Goes, Accepted, Reading
  <2>4. \A y \in Xfer \ {x} : Goes(y)'
    BY <2>1, <2>2, Untouched
  <2> QED
    BY <2>3, <2>4
<1>5. ASSUME NEW x \in Xfer, Sending(x) PROVE \A y \in Xfer : Goes(y)'
  <2>1. Goes(x)'
    BY <1>5 DEF Shape, Sending, InsertRow, ReadAccept, ReadReject, GiveUp, DialData,
                FinishSend, FailSend, fileVars, tableVars, Goes, Order, Accepted, Reading, Clean, Event
  <2>2. \A y \in Xfer \ {x} : Goes(y)'
    BY <1>5, Untouched DEF Shape, Sending, InsertRow, ReadAccept, ReadReject, GiveUp, DialData,
                           FinishSend, FailSend, fileVars, tableVars
  <2> QED
    BY <2>1, <2>2
<1>6. ASSUME NEW x \in Xfer, TakeOffer(x) PROVE \A y \in Xfer : Goes(y)'
  <2>1. Goes(x)'
    BY <1>6, OneEvent DEF Shape, TakeOffer, senderVars, fileVars, Goes, Order, Accepted, Reading, Clean
  <2>2. \A y \in Xfer \ {x} : Goes(y)'
    BY <1>6, Untouched, OneEvent DEF Shape, TakeOffer, senderVars, fileVars
  <2> QED
    BY <2>1, <2>2
<1>7. ASSUME NEW x \in Xfer, RefuseData(x) \/ FailResume(x) PROVE \A y \in Xfer : Goes(y)'
  <2>1. data[x] = "start" /\ ~Reading(x) /\ x \notin delivered.all
    BY <1>7 DEF RefuseData, FailResume, TakeData, Goes, Order
  <2>2. Goes(x)'
    BY <1>7, <2>1 DEF Shape, RefuseData, FailResume, TakeData, senderVars, fileVars, Goes, Order,
                      Accepted, Reading
  <2>3. \A y \in Xfer \ {x} : Goes(y)'
    BY <1>7, Untouched, OneEvent DEF Shape, RefuseData, FailResume, TakeData, senderVars, fileVars
  <2> QED
    BY <2>2, <2>3
<1>8. ASSUME NEW x \in Xfer, ResumePart(x) \/ CreatePart(x) PROVE \A y \in Xfer : Goes(y)'
  <2>1. recv'[x].pc = "reading" /\ \A y \in Xfer \ {x} : recv'[y] = recv[y]
    BY <1>8 DEF Shape, ResumePart, CreatePart
  <2>2. Goes(x)'
    BY <1>8, <2>1 DEF Shape, ResumePart, CreatePart, TakeData, senderVars, tableVars, Goes, Order,
                      Accepted, Reading, Clean, Event
  <2>3. \A y \in Xfer \ {x} : Goes(y)'
    BY <1>8, <2>1, Untouched DEF Shape, ResumePart, CreatePart, TakeData, senderVars, tableVars
  <2> QED
    BY <2>2, <2>3
<1>9. ASSUME NEW x \in Xfer, ReceiveBlock(x) PROVE \A y \in Xfer : Goes(y)'
  <2>1. Receiver(recv[x]) /\ \A y \in Xfer \ {x} : recv'[y] = recv[y]
    BY <1>9 DEF Shape, ReceiveBlock
  <2>2. recv'[x].pc = recv[x].pc
    <3> DEFINE r == [recv[x] EXCEPT !.pos = @ + 1, !.done = @ + 1,
                          !.hashed = Append(@, Content[x][recv[x].done + 1])]
    <3>1. recv' = [recv EXCEPT ![x] = r]
      BY <1>9 DEF ReceiveBlock
    <3>2. r.pc = recv[x].pc
      BY <2>1 DEF Receiver
    <3> HIDE DEF r
    <3> QED
      BY <3>1, <3>2 DEF Shape
  <2> QED
    BY <1>9, <2>1, <2>2, Untouched DEF ReceiveBlock, senderVars, tableVars
<1>10. ASSUME NEW x \in Xfer, FailReceive(x) \/ FailRename(x) \/ FailChecksum(x)
       PROVE  \A y \in Xfer : Goes(y)'
  <2>1. /\ Reading(x) /\ data[x] \in {"taken", "lost"} /\ incoming[x] = NoOffset /\ x \notin delivered.all
        /\ recv' = [recv EXCEPT ![x] = NoRecv] /\ data' = [data EXCEPT ![x] = "gone"]
        /\ RecvEvent("failed", x)
        /\ UNCHANGED <<snd, ctrl, incoming, rrow, answer, delivered, rMissed>>
    BY <1>10 DEF FailReceive, FailRename, FailChecksum, Received, EndReceive, senderVars, Reading, Goes, Order
  <2>2. Goes(x)'
    <3>1. data'[x] = "gone" /\ ~Reading(x)'
      BY <2>1 DEF Shape, Reading, NoRecv
    <3>2. Order(x)'
      BY <2>1, <3>1 DEF Goes, Order
    <3> QED
      BY <2>1, <3>1, <3>2 DEF Goes, Accepted
  <2>3. \A y \in Xfer \ {x} : Goes(y)'
    BY <2>1, Untouched, OneEvent DEF Shape
  <2> QED
    BY <2>2, <2>3
<1>11. ASSUME NEW x \in Xfer, Deliver(x) PROVE \A y \in Xfer : Goes(y)'
  <2>1. /\ Reading(x) /\ data[x] \in {"taken", "lost"} /\ incoming[x] = NoOffset
        /\ recv' = [recv EXCEPT ![x] = NoRecv] /\ data' = [data EXCEPT ![x] = "gone"]
        /\ RecvEvent("done", x) /\ delivered'.all = delivered.all \cup {x}
        /\ UNCHANGED <<snd, ctrl, incoming, rrow, answer, rMissed>>
    BY <1>11 DEF Deliver, Received, EndReceive, senderVars, Reading, Goes, Order
  <2>2. Goes(x)'
    <3>1. data'[x] = "gone" /\ ~Reading(x)'
      BY <2>1 DEF Shape, Reading, NoRecv
    <3>2. \A t : Event(t, x) \in rEvents' <=> Event(t, x) \in rEvents \/ t = "done"
      BY <2>1, OneEvent
    <3>3. Order(x)'
      BY <2>1, <3>1 DEF Goes, Order
    <3>4. Clean(x) => Clean(x)'
      BY <2>1, <3>2 DEF Clean
    <3> QED
      BY <2>1, <3>3, <3>4 DEF Goes, Accepted
  <2>3. \A y \in Xfer \ {x} : Goes(y)'
    BY <2>1, Untouched, OneEvent DEF Shape
  <2> QED
    BY <2>2, <2>3
<1>12. ASSUME NEW e \in sEvents, SenderPump(e) PROVE \A y \in Xfer : Goes(y)'
  BY <1>12, Untouched DEF SenderPump, fileVars, tableVars
<1>13. ASSUME NEW e \in rEvents, ReceiverPump(e) PROVE \A y \in Xfer : Goes(y)'
  <2> DEFINE x == e.xfer
  <2>1. x \in Xfer /\ e.type \in EventTypes /\ e = Event(e.type, x)
    BY <1>13, Pumped
  <2>2. \A t, y : Event(t, y) \in rEvents' <=> Event(t, y) \in rEvents /\ ~(t = e.type /\ y = x)
    BY <1>13, <2>1 DEF ReceiverPump, Event
  <2>3. /\ \A y \in Xfer \ {x} : rrow'[y] = rrow[y]
        /\ rMissed \subseteq rMissed'
        /\ x \notin rMissed' =>
              /\ e.type = "offered" => rrow'[x] = IF rrow[x] = "none" THEN "offered" ELSE rrow[x]
              /\ e.type # "offered" => rrow'[x] = IF rrow[x] \in {"none"} \cup Final THEN rrow[x] ELSE e.type
    BY <1>13, Pumped
  <2>4. UNCHANGED <<snd, ctrl, data, incoming, recv, delivered, answer>>
    BY <1>13 DEF ReceiverPump, senderVars, fileVars
  <2>5. Goes(x)'
    <3>1. Order(x)'
      BY <2>1, <2>2, <2>4 DEF Goes, Order, Reading
    <3>2. Accepted(x) => Clean(x)' \/ x \in rMissed'
      BY <2>1, <2>2, <2>3, <2>4 DEF Goes, Clean, EventTypes, Final
    <3> QED
      BY <2>4, <3>1, <3>2 DEF Goes, Accepted, Reading
  <2>6. \A y \in Xfer \ {x} : Goes(y)'
    BY <2>2, <2>3, <2>4, Untouched
  <2> QED
    BY <2>5, <2>6
<1>14. ASSUME NEW x \in Xfer, LoseData(x) PROVE \A y \in Xfer : Goes(y)'
  <2>1. data[x] \in {"start", "taken"} /\ data'[x] = "lost" /\ \A y \in Xfer \ {x} : data'[y] = data[y]
    BY <1>14 DEF LoseData, Shape
  <2>2. UNCHANGED <<snd, ctrl, incoming, recv, delivered, rrow, rEvents, answer, rMissed>>
    BY <1>14 DEF LoseData, senderVars, fileVars, tableVars
  <2>3. Goes(x)'
    BY <2>1, <2>2 DEF Goes, Order, Accepted, Reading, Clean, Event
  <2>4. \A y \in Xfer \ {x} : Goes(y)'
    BY <2>1, <2>2, Untouched
  <2> QED
    BY <2>3, <2>4
<1>15. ASSUME RestartSender PROVE \A y \in Xfer : Goes(y)'
  <2>1. \A y \in Xfer : snd'[y] = snd[y] \/ snd'[y] = "ended"
    BY <1>15 DEF RestartSender
  <2>2. UNCHANGED <<ctrl, data, incoming, recv, delivered, rrow, rEvents, answer, rMissed>>
    BY <1>15 DEF RestartSender, fileVars, tableVars
  <2> QED
    BY <2>1, <2>2 DEF Goes, Order, Accepted, Reading, Clean, Event
<1>16. ASSUME RestartReceiver, NEW y \in Xfer PROVE Goes(y)'
  <2>1. /\ ctrl'[y] = ctrl[y] \/ (ctrl'[y] = "gone" /\ ctrl[y] # "none")
        /\ ctrl'[y] \in {"none", "accept", "reject", "gone"}
        /\ data'[y] = IF data[y] = "none" THEN "none" ELSE "gone"
        /\ incoming'[y] = NoOffset /\ ~Reading(y)'
        /\ \A t : Event(t, y) \notin rEvents'
        /\ answer'.xfer # y /\ UNCHANGED <<snd, rrow, delivered>>
        /\ rMissed' = rMissed \cup {x \in Xfer : ctrl[x] # "none" /\ rrow[x] \notin Final}
    BY <1>16, NoFileAssumption DEF RestartReceiver, Shape, senderVars, Reading, NoRecv, NoAnswer
  <2>2. Order(y)'
    BY <2>1 DEF Goes, Order
  <2>3. y \in delivered.all => ctrl[y] # "none" /\ (Clean(y) \/ y \in rMissed)
    BY DEF Goes, Order, Accepted
  <2>4. y \in delivered.all => Clean(y)' \/ y \in rMissed'
    BY <2>1, <2>3 DEF Clean, Final
  <2> QED
    BY <2>1, <2>2, <2>4 DEF Goes, Accepted
<1>17. ASSUME UNCHANGED vars PROVE \A y \in Xfer : Goes(y)'
  BY <1>17, Untouched DEF vars, senderVars, fileVars, tableVars
<1> QED
  BY <1>1, <1>2, <1>3, <1>4, <1>5, <1>6, <1>7, <1>8, <1>9, <1>10, <1>11, <1>12, <1>13, <1>14,
     <1>15, <1>16, <1>17
     DEF Next, User, Receiving, Opening, Ending, SenderPumps, ReceiverPumps

\* The row of a transfer tells how it ended, whichever of command and pump writes last
\* (update_transfer, persist_event, respond_file).
THEOREM OutcomeCorrect == Spec => []OutcomeIsKept
<1>1. OutcomeInv /\ [Next]_vars => OutcomeInv'
  BY ShapeStep, DoneStep, GoesStep DEF OutcomeInv
<1>2. OutcomeInv => OutcomeIsKept
  BY DEF OutcomeInv, DoneIsDelivered, Goes, Accepted, Clean, Event, OutcomeIsKept
<1> QED
  BY <1>1, <1>2, OutcomeInit, PTL DEF Spec

-----------------------------------------------------------------------------
(* While at most one accepted transfer is under way, its thread has the part *)
(* file to itself.                                                           *)

\* How far a receiving thread has come.
Receipt == [pc : {"none", "reading"}, file : Xfer \cup {NoFile}, pos : Nat, done : Nat,
            hashed : Seq(Block)]

\* The files have no holes.
DiskShape ==
    /\ incoming \in [Xfer -> Nat \cup {NoOffset}] /\ recv \in [Xfer -> Receipt]
    /\ disk \in [Xfer -> Seq(Block)]
    /\ part \in Xfer \cup {NoFile} /\ final \in Xfer \cup {NoFile}
    /\ part # NoFile => part # final

\* No name stands for a file x created.
Nameless(x) == x # part /\ x # final

Alone == \A x, y \in Xfer : UnderWay(x) /\ UnderWay(y) => x = y

Unanswered(x) == ctrl[x] \in {"none", "offer", "pending"}

\* A transfer is accepted once, and creates its file after that.
OneAnswer ==
    \A x \in Xfer :
        /\ snd[x] = "none" => ctrl[x] = "none"
        /\ Unanswered(x) => ~UnderWay(x)
        /\ Unanswered(x) \/ incoming[x] # NoOffset => Nameless(x)

\* What the thread has hashed is what the part file holds.
HashIsPart ==
    \A x \in Xfer : Reading(x) =>
        /\ part # NoFile /\ recv[x].file = part
        /\ disk[part] = recv[x].hashed /\ recv[x].pos = Len(recv[x].hashed)

WholeInv == DiskShape /\ Alone /\ OneAnswer /\ HashIsPart /\ WholeUnderName

\* A step that does not open a part file, write to it or rename it.
LEMMA WholeKept ==
    ASSUME WholeInv, UNCHANGED <<disk, part, final, delivered>>,
           \A x \in Xfer : incoming'[x] = incoming[x] \/ incoming'[x] = NoOffset,
           \A x \in Xfer : recv'[x] = recv[x] \/ recv'[x] = NoRecv,
           DOMAIN incoming' = Xfer, DOMAIN recv' = Xfer,
           incoming' = [x \in Xfer |-> incoming'[x]], recv' = [x \in Xfer |-> recv'[x]],
           \A x \in Xfer : snd'[x] = "none" => ctrl'[x] = "none",
           \A x \in Xfer : Unanswered(x)' => Unanswered(x)
    PROVE  WholeInv'
<1>1. NoRecv \in Receipt /\ NoRecv.pc = "none"
  BY DEF NoRecv, Receipt
<1>2. DiskShape'
  BY <1>1 DEF WholeInv, DiskShape
<1>3. \A x \in Xfer : UnderWay(x)' => UnderWay(x)
  BY <1>1 DEF UnderWay
<1>4. \A x \in Xfer : Reading(x)' => Reading(x) /\ recv'[x] = recv[x]
  BY <1>1 DEF Reading
<1>5. Alone' /\ OneAnswer'
  BY <1>3 DEF WholeInv, Alone, OneAnswer, Nameless
<1>6. HashIsPart'
  BY <1>4 DEF WholeInv, HashIsPart
<1>7. WholeUnderName'
  BY DEF WholeInv, WholeUnderName
<1> QED
  BY <1>2, <1>5, <1>6, <1>7 DEF WholeInv

\* At the end of a file without holes a block is appended.
LEMMA WriteAtEnd ==
    ASSUME NEW s \in Seq(Block), NEW b \in Block
    PROVE  WriteAt(s, Len(s), b) = Append(s, b)
<1>1. Len(s) \in Nat /\ Append(s, b) \in Seq(Block) /\ Len(Append(s, b)) = Len(s) + 1
  OBVIOUS
<1>2. \A i \in 1 .. Len(s) + 1 :
          Append(s, b)[i] \in Block /\ Append(s, b)[i] = IF i = Len(s) + 1 THEN b ELSE s[i]
  BY <1>1
<1>3. WriteAt(s, Len(s), b) = [i \in 1 .. Len(s) + 1 |-> IF i = Len(s) + 1 THEN b ELSE s[i]]
  BY <1>1 DEF WriteAt
<1>4. WriteAt(s, Len(s), b) = [i \in 1 .. Len(s) + 1 |-> Append(s, b)[i]]
  BY <1>2, <1>3
<1>5. WriteAt(s, Len(s), b) \in Seq(Block) /\ Len(WriteAt(s, Len(s), b)) = Len(s) + 1
  BY <1>1, <1>2, <1>4
<1> QED
  BY <1>1, <1>4, <1>5, SeqEqual

LEMMA WholeInit == Init => WholeInv
<1> SUFFICES ASSUME Init PROVE WholeInv
  OBVIOUS
<1>1. NoRecv \in Receipt /\ NoRecv.pc = "none"
  BY DEF NoRecv, Receipt
<1>2. \A x \in Xfer : ~UnderWay(x) /\ ~Reading(x)
  BY <1>1 DEF Init, UnderWay, Reading
<1>3. DiskShape
  BY <1>1 DEF Init, DiskShape
<1>4. \A x \in Xfer : ctrl[x] = "none" /\ Nameless(x)
  BY NoFileAssumption DEF Init, Nameless
<1> QED
  BY <1>2, <1>3, <1>4 DEF Init, WholeInv, Alone, OneAnswer, HashIsPart, WholeUnderName

\* The thread of an accepted transfer opens the part file: at the offset, or anew.
LEMMA WholeOpened ==
    ASSUME Shape, WholeInv, NEW x \in Xfer, NEW file \in Xfer, NEW kept \in Seq(Block), NEW count \in Nat,
           incoming[x] # NoOffset, incoming' = [incoming EXCEPT ![x] = NoOffset],
           file = part \/ (part = NoFile /\ file = x),
           part' = file, disk' = [disk EXCEPT ![file] = kept],
           recv' = [recv EXCEPT ![x] = [pc |-> "reading", file |-> file, pos |-> Len(kept),
                                        done |-> count, hashed |-> kept]],
           UNCHANGED <<snd, ctrl, final, delivered>>
    PROVE  WholeInv'
<1> DEFINE r == [pc |-> "reading", file |-> file, pos |-> Len(kept), done |-> count, hashed |-> kept]
<1>1. r \in Receipt /\ r.pc = "reading" /\ r.file = file /\ r.hashed = kept /\ r.pos = Len(kept)
  BY DEF Receipt
<1>2. recv'[x] = r /\ \A y \in Xfer \ {x} : recv'[y] = recv[y] /\ incoming'[y] = incoming[y]
  BY DEF WholeInv, DiskShape
<1> HIDE DEF r
<1>3. Nameless(x) /\ file # final /\ ~Unanswered(x)
  <2>1. Nameless(x) /\ ~Unanswered(x)
    BY DEF WholeInv, OneAnswer, UnderWay
  <2> QED
    BY <2>1, NoFileAssumption DEF WholeInv, DiskShape, Nameless
<1>4. \A y \in Xfer \ {x} : ~UnderWay(y)
  BY DEF WholeInv, Alone, UnderWay
<1>5. UnderWay(x)' /\ \A y \in Xfer \ {x} : ~UnderWay(y)'
  BY <1>1, <1>2, <1>4 DEF UnderWay
<1>6. DiskShape'
  <2>1. recv' \in [Xfer -> Receipt]
    BY <1>1 DEF r, WholeInv, DiskShape
  <2> QED
    BY <1>3, <2>1 DEF WholeInv, DiskShape
<1>7. Alone'
  BY <1>5 DEF Alone
<1>8. OneAnswer'
  <2>1. \A y \in Xfer : Unanswered(y)' <=> Unanswered(y)
    BY DEF Unanswered
  <2>2. incoming'[x] = NoOffset
    BY DEF WholeInv, DiskShape
  <2>3. \A y \in Xfer \ {x} : Nameless(y) => Nameless(y)'
    BY DEF Nameless
  <2> QED
    BY <1>2, <1>3, <1>5, <2>1, <2>2, <2>3 DEF WholeInv, OneAnswer
<1>9. HashIsPart'
  <2>1. disk'[file] = kept /\ file # NoFile
    BY NoFileAssumption DEF WholeInv, DiskShape
  <2>2. \A y \in Xfer \ {x} : ~Reading(y)'
    BY <1>5 DEF UnderWay, Reading
  <2> QED
    BY <1>1, <1>2, <2>1, <2>2 DEF HashIsPart
<1>10. WholeUnderName'
  <2>1. final # NoFile => disk'[final] = disk[final]
    BY <1>3 DEF WholeInv, DiskShape
  <2> QED
    BY <2>1 DEF WholeInv, WholeUnderName
<1> QED
  BY <1>6, <1>7, <1>8, <1>9, <1>10 DEF WholeInv

LEMMA WholeStep ==
    ASSUME ~Overlap, Shape, WholeInv, [Next]_vars
    PROVE  WholeInv'
<1>f. /\ incoming = [x \in Xfer |-> incoming[x]] /\ DOMAIN incoming = Xfer
      /\ recv = [x \in Xfer |-> recv[x]] /\ DOMAIN recv = Xfer
      /\ snd \in [Xfer -> {"none", "waiting", "dial", "sending", "sent", "ended"}]
      /\ ctrl \in [Xfer -> {"none", "offer", "pending", "accept", "reject", "gone"}]
  BY DEF WholeInv, DiskShape, Shape
<1>o. \A x \in Xfer : snd[x] = "none" => ctrl[x] = "none"
  BY DEF WholeInv, OneAnswer
\* Only the connections and the tables change.
<1>c. ASSUME UNCHANGED <<incoming, recv, disk, part, final, delivered>>,
             \A x \in Xfer : snd'[x] = "none" => ctrl'[x] = "none",
             \A x \in Xfer : Unanswered(x)' => Unanswered(x)
      PROVE  WholeInv'
  BY <1>c, <1>f, WholeKept
<1>1. ASSUME NEW x \in Xfer, OfferFile(x) PROVE WholeInv'
  <2>1. ctrl[x] = "none"
    BY <1>1, <1>o DEF OfferFile
  <2> QED
    BY <1>1, <2>1, <1>c, <1>o, <1>f DEF OfferFile, fileVars, Unanswered
<1>2. ASSUME NEW x \in Xfer, Accept(x) PROVE WholeInv'
  <2>1. CASE UNCHANGED incoming
    BY <1>2, <2>1, <1>c, <1>o, <1>f DEF Accept, senderVars, fileVars, Unanswered
  <2>2. CASE /\ ctrl[x] = "pending" /\ ctrl' = [ctrl EXCEPT ![x] = "accept"]
             /\ incoming' = [incoming EXCEPT ![x] = PartLength]
    <3>1. /\ \A y \in Xfer : ~UnderWay(y)
          /\ UNCHANGED <<snd, recv, disk, part, final, delivered>>
      BY <1>2 DEF Accept, senderVars, fileVars
    <3>2. PartLength \in Nat
      BY DEF PartLength, WholeInv, DiskShape
    <3>3. Unanswered(x) /\ Nameless(x)
      BY <2>2 DEF WholeInv, OneAnswer, Unanswered
    <3>4. /\ \A y \in Xfer \ {x} : incoming'[y] = incoming[y] /\ ctrl'[y] = ctrl[y]
          /\ ctrl'[x] = "accept"
      BY <2>2, <1>f
    <3>5. DiskShape'
      BY <2>2, <3>1, <3>2 DEF WholeInv, DiskShape
    <3>6. \A y \in Xfer \ {x} : ~UnderWay(y)'
      BY <3>1, <3>4 DEF UnderWay
    <3>7. Alone'
      BY <3>6 DEF Alone
    <3>8. OneAnswer'
      <4>1. snd[x] # "none"
        BY <1>o, <2>2
      <4> QED
        BY <3>1, <3>3, <3>4, <3>6, <4>1 DEF WholeInv, OneAnswer, Unanswered, Nameless
    <3>9. HashIsPart' /\ WholeUnderName'
      BY <3>1 DEF WholeInv, HashIsPart, WholeUnderName, Reading
    <3> QED
      BY <3>5, <3>7, <3>8, <3>9 DEF WholeInv
  <2> QED
    BY <1>2, <2>1, <2>2 DEF Accept
<1>3. ASSUME NEW x \in Xfer, Reject(x) PROVE WholeInv'
  BY <1>3, <1>c, <1>o, <1>f DEF Reject, senderVars, fileVars, Unanswered
<1>4. ASSUME RecordAnswer PROVE WholeInv'
  BY <1>4, <1>c, <1>o DEF RecordAnswer, senderVars, fileVars, Unanswered
<1>5. ASSUME NEW x \in Xfer, Sending(x) PROVE WholeInv'
  BY <1>5, <1>c, <1>o, <1>f DEF Sending, InsertRow, ReadAccept, ReadReject, GiveUp, DialData,
                        FinishSend, FailSend, fileVars, Unanswered
<1>6. ASSUME NEW x \in Xfer, TakeOffer(x) PROVE WholeInv'
  BY <1>6, <1>c, <1>o, <1>f DEF TakeOffer, senderVars, fileVars, Unanswered
<1>7. ASSUME NEW x \in Xfer, RefuseData(x) \/ FailResume(x) PROVE WholeInv'
  <2>1. /\ incoming' \in {incoming, [incoming EXCEPT ![x] = NoOffset]}
        /\ UNCHANGED <<snd, ctrl, recv, disk, part, final, delivered>>
    BY <1>7 DEF RefuseData, FailResume, TakeData, senderVars, fileVars
  <2> QED
    BY <2>1, <1>o, <1>f, WholeKept DEF Unanswered
<1>8. ASSUME NEW x \in Xfer, ResumePart(x) PROVE WholeInv'
  <2> DEFINE kept == SubSeq(disk[part], 1, incoming[x])
  <2>1. /\ part \in Xfer /\ incoming[x] \in Nat /\ incoming[x] <= Len(disk[part])
        /\ disk[part] \in Seq(Block) /\ Len(disk[part]) \in Nat
    BY <1>8 DEF ResumePart, TakeData, WholeInv, DiskShape
  <2>2. kept \in Seq(Block) /\ Len(kept) = incoming[x]
    BY <2>1
  <2>3. /\ incoming[x] # NoOffset /\ incoming' = [incoming EXCEPT ![x] = NoOffset]
        /\ part' = part /\ disk' = [disk EXCEPT ![part] = kept]
        /\ recv' = [recv EXCEPT ![x] = [pc |-> "reading", file |-> part, pos |-> incoming[x],
                                        done |-> incoming[x], hashed |-> kept]]
        /\ UNCHANGED <<snd, ctrl, final, delivered>>
    BY <1>8 DEF ResumePart, TakeData, senderVars
  <2> HIDE DEF kept
  <2> QED
    BY <2>1, <2>2, <2>3, WholeOpened
<1>9. ASSUME NEW x \in Xfer, CreatePart(x) PROVE WholeInv'
  <2> DEFINE file == IF part = NoFile THEN x ELSE part
  <2>1. file \in Xfer /\ (file = part \/ (part = NoFile /\ file = x))
    BY DEF WholeInv, DiskShape
  <2>2. <<>> \in Seq(Block) /\ Len(<<>>) = 0
    OBVIOUS
  <2>3. incoming[x] \in Nat
    BY <1>9 DEF CreatePart, TakeData, WholeInv, DiskShape
  <2>4. /\ incoming[x] # NoOffset /\ incoming' = [incoming EXCEPT ![x] = NoOffset]
        /\ part' = file /\ disk' = [disk EXCEPT ![file] = <<>>]
        /\ recv' = [recv EXCEPT ![x] = [pc |-> "reading", file |-> file, pos |-> Len(<<>>),
                                        done |-> incoming[x], hashed |-> <<>>]]
        /\ UNCHANGED <<snd, ctrl, final, delivered>>
    BY <1>9, <2>2 DEF CreatePart, TakeData, senderVars
  <2> HIDE DEF file
  <2> QED
    BY <2>1, <2>2, <2>3, <2>4, WholeOpened
<1>10. ASSUME NEW x \in Xfer, ReceiveBlock(x) PROVE WholeInv'
  <2> DEFINE r == recv[x]
             b == Content[x][r.done + 1]
             q == [r EXCEPT !.pos = @ + 1, !.done = @ + 1, !.hashed = Append(@, b)]
  <2>1. /\ r \in Receipt /\ Reading(x) /\ r.done < Size(x)
        /\ disk' = [disk EXCEPT ![r.file] = WriteAt(@, r.pos, b)] /\ recv' = [recv EXCEPT ![x] = q]
        /\ UNCHANGED <<snd, ctrl, incoming, part, final, delivered>>
    BY <1>10 DEF ReceiveBlock, senderVars, Reading, WholeInv, DiskShape
  <2>2. b \in Block
    BY <2>1, ContentAssumption DEF Receipt, Size
  <2>3. /\ part \in Xfer /\ r.file = part /\ disk[part] = r.hashed /\ r.pos = Len(r.hashed)
        /\ r.hashed \in Seq(Block)
    BY <2>1 DEF WholeInv, HashIsPart, DiskShape, Receipt
  <2> HIDE DEF b
  <2>4. /\ q \in Receipt /\ q.pc = r.pc /\ q.file = part /\ q.pos = r.pos + 1
        /\ q.hashed = Append(r.hashed, b)
    <3> DEFINE pos == r.pos + 1
               done == r.done + 1
               hashed == Append(r.hashed, b)
    <3>1. pos \in Nat /\ done \in Nat /\ hashed \in Seq(Block)
      BY <2>1, <2>2, <2>3 DEF Receipt
    <3>2. q = [r EXCEPT !.pos = pos, !.done = done, !.hashed = hashed]
      OBVIOUS
    <3> HIDE DEF pos, done, hashed, q, r
    <3>3. q \in Receipt /\ q.pc = r.pc /\ q.file = r.file /\ q.pos = pos /\ q.hashed = hashed
      BY <2>1, <3>1, <3>2 DEF Receipt
    <3> QED
      BY <2>3, <3>3 DEF pos, hashed
  <2>5. disk' = [disk EXCEPT ![part] = Append(r.hashed, b)]
    BY <2>1, <2>2, <2>3, WriteAtEnd
  <2>6. recv'[x] = q /\ \A y \in Xfer \ {x} : recv'[y] = recv[y]
    BY <2>1 DEF WholeInv, DiskShape
  <2>7. Append(r.hashed, b) \in Seq(Block) /\ Len(Append(r.hashed, b)) = r.pos + 1
    BY <2>2, <2>3
  <2> HIDE DEF r, q
  <2>8. DiskShape'
    BY <2>1, <2>4, <2>5, <2>7 DEF WholeInv, DiskShape
  <2>9. \A y \in Xfer : UnderWay(y)' <=> UnderWay(y)
    BY <2>1, <2>4, <2>6 DEF r, UnderWay
  <2>10. Alone' /\ OneAnswer'
    BY <2>1, <2>9 DEF WholeInv, Alone, OneAnswer, Nameless, Unanswered
  <2>11. HashIsPart'
    <3>1. \A y \in Xfer : Reading(y)' => y = x
      BY <2>1, <2>9 DEF WholeInv, Alone, UnderWay, Reading
    <3>2. disk'[part] = Append(r.hashed, b) /\ part # NoFile
      BY <2>3, <2>5, NoFileAssumption DEF WholeInv, DiskShape
    <3> QED
      BY <2>1, <2>4, <2>6, <2>7, <3>1, <3>2 DEF HashIsPart
  <2>12. WholeUnderName'
    BY <2>1, <2>3, <2>5, NoFileAssumption DEF WholeInv, DiskShape, WholeUnderName
  <2> QED
    BY <2>8, <2>10, <2>11, <2>12 DEF WholeInv
<1>11. ASSUME NEW x \in Xfer, FailReceive(x) \/ FailRename(x) \/ FailChecksum(x) PROVE WholeInv'
  <2>1. /\ recv' = [recv EXCEPT ![x] = NoRecv]
        /\ UNCHANGED <<snd, ctrl, incoming, disk, part, final, delivered>>
    BY <1>11 DEF FailReceive, FailRename, FailChecksum, EndReceive, senderVars
  <2> QED
    BY <2>1, <1>o, <1>f, WholeKept DEF Unanswered
<1>12. ASSUME NEW x \in Xfer, Deliver(x) PROVE WholeInv'
  <2>1. /\ Reading(x) /\ recv[x].hashed = Content[x] /\ part # NoFile
        /\ recv' = [recv EXCEPT ![x] = NoRecv] /\ final' = part /\ part' = NoFile
        /\ delivered'.last = x /\ UNCHANGED <<snd, ctrl, incoming, disk>>
    BY <1>12 DEF Deliver, Received, EndReceive, senderVars, Reading
  <2>2. NoRecv \in Receipt /\ NoRecv.pc = "none"
    BY DEF NoRecv, Receipt
  <2>3. DiskShape'
    BY <2>1, <2>2 DEF WholeInv, DiskShape
  <2>4. recv'[x] = NoRecv /\ \A y \in Xfer \ {x} : recv'[y] = recv[y]
    BY <2>1, <1>f
  <2>5. \A y \in Xfer : (UnderWay(y)' => UnderWay(y)) /\ ~Reading(y)'
    BY <2>1, <2>2, <2>4 DEF WholeInv, Alone, UnderWay, Reading
  <2>6. \A y \in Xfer : Nameless(y) => Nameless(y)'
    BY <2>1, NoFileAssumption DEF Nameless
  <2>7. Alone' /\ OneAnswer' /\ HashIsPart'
    BY <2>1, <2>5, <2>6 DEF WholeInv, Alone, OneAnswer, HashIsPart, Unanswered
  <2>8. WholeUnderName'
    BY <2>1 DEF WholeInv, HashIsPart, WholeUnderName
  <2> QED
    BY <2>3, <2>7, <2>8 DEF WholeInv
<1>13. ASSUME SenderPumps \/ ReceiverPumps PROVE WholeInv'
  BY <1>13, <1>c, <1>o DEF SenderPumps, ReceiverPumps, SenderPump, ReceiverPump, senderVars, fileVars, Unanswered
<1>14. ASSUME RestartSender PROVE WholeInv'
  BY <1>14, <1>c, <1>o DEF RestartSender, fileVars, Unanswered
<1>15. ASSUME RestartReceiver PROVE WholeInv'
  <2>1. /\ incoming' = [x \in Xfer |-> NoOffset] /\ recv' = [x \in Xfer |-> NoRecv]
        /\ UNCHANGED <<snd, disk, part, final, delivered>>
    BY <1>15 DEF RestartReceiver, senderVars
  <2>2. \A x \in Xfer : /\ ctrl[x] = "none" => ctrl'[x] = "none"
                        /\ Unanswered(x)' => Unanswered(x)
    BY <1>15 DEF RestartReceiver, Unanswered
  <2> QED
    BY <2>1, <2>2, <1>o, WholeKept
<1>16. ASSUME NEW x \in Xfer, LoseData(x) PROVE WholeInv'
  BY <1>16, <1>c, <1>o DEF LoseData, senderVars, fileVars, Unanswered
<1>17. ASSUME UNCHANGED vars PROVE WholeInv'
  BY <1>17, <1>c, <1>o DEF vars, senderVars, fileVars, Unanswered
<1> QED
  BY <1>1, <1>2, <1>3, <1>4, <1>5, <1>6, <1>7, <1>8, <1>9, <1>10, <1>11, <1>12, <1>13, <1>14,
     <1>15, <1>16, <1>17
     DEF Next, User, Receiving, Opening, Ending

\* If the receiver never accepts a transfer of the same name while another is under way, the
\* file under the name is the one offered by the transfer delivered last, whatever breaks,
\* restarts or comes late (receive_into).
THEOREM FileIsWhole ==
    ASSUME ~Overlap
    PROVE  Spec => []WholeUnderName
<1>1. Init => Shape /\ WholeInv
  BY OutcomeInit, WholeInit DEF OutcomeInv
<1>2. Shape /\ WholeInv /\ [Next]_vars => (Shape /\ WholeInv)'
  BY ShapeStep, WholeStep
<1>3. WholeInv => WholeUnderName
  BY DEF WholeInv
<1> QED
  BY <1>1, <1>2, <1>3, PTL DEF Spec

-----------------------------------------------------------------------------
(* What has not ended is still in somebody's hands: the safe half of what the *)
(* rows come to in the end.                                                   *)

\* The outcome of x is written, and the pump has not recorded it yet.
Reported(x, events) == Event("done", x) \in events \/ Event("failed", x) \in events

\* The outcome of x is known or being worked for.
InHand(x) == snd[x] \in {"waiting", "dial", "sending"} \/ Reported(x, sEvents)

\* A transfer the sender's table calls active is being worked on, or its outcome is known,
\* unless the outcome came to the table when it could not be written there.
SenderRowsAreHeld == \A x \in Xfer : srow[x] = "active" => InHand(x) \/ x \in sMissed

\* Which also goes for a row that is still to be inserted.
SenderInv ==
    /\ snd \in [Xfer -> {"none", "waiting", "dial", "sending", "sent", "ended"}]
    /\ srow \in [Xfer -> Statuses]
    /\ sEvents \subseteq [type : {"done", "failed"}, xfer : Xfer]
    /\ \A x \in Xfer :
          /\ snd[x] = "none" \/ x \in inserting => srow[x] = "none"
          /\ x \in inserting => snd[x] # "none" /\ (InHand(x) \/ x \in sMissed)
    /\ SenderRowsAreHeld

\* Every step of the sender keeps it; the receiver has no part in it.
LEMMA SenderStep ==
    ASSUME SenderInv, [Next]_vars
    PROVE  SenderInv'
<1> USE DEF Statuses, Final
<1>1. ASSUME NEW x \in Xfer, OfferFile(x) PROVE SenderInv'
  BY <1>1 DEF OfferFile, SenderInv, SenderRowsAreHeld, InHand, Reported
<1>2. ASSUME NEW x \in Xfer, InsertRow(x) PROVE SenderInv'
  <2>1. /\ srow' \in [Xfer -> Statuses] /\ \A y \in Xfer : y # x => srow'[y] = srow[y]
        /\ snd[x] # "none"
    BY <1>2, Inserted DEF InsertRow, Written, SenderInv
  <2> QED
    BY <1>2, <2>1 DEF InsertRow, SenderInv, SenderRowsAreHeld, InHand, Reported
<1>3. ASSUME NEW x \in Xfer, ReadAccept(x) PROVE SenderInv'
  BY <1>3 DEF ReadAccept, SenderInv, SenderRowsAreHeld, InHand, Reported
<1>4. ASSUME NEW x \in Xfer, ReadReject(x) \/ GiveUp(x) PROVE SenderInv'
  BY <1>4 DEF ReadReject, GiveUp, SendEvent, SenderInv, SenderRowsAreHeld, InHand, Reported, Event
<1>5. ASSUME NEW x \in Xfer, DialData(x) \/ FinishSend(x) \/ FailSend(x) PROVE SenderInv'
  BY <1>5 DEF DialData, FinishSend, FailSend, SendEvent, SenderInv, SenderRowsAreHeld, InHand, Reported, Event
<1>6. ASSUME NEW e \in sEvents, SenderPump(e) PROVE SenderInv'
  <2>1. e.xfer \in Xfer /\ e.type \in {"done", "failed"} /\ e = Event(e.type, e.xfer)
    BY DEF SenderInv, Event
  <2>2. srow' = srow \/ srow' = UpdateTransfer(srow, e.xfer, e.type)
    BY <1>6, <2>1 DEF SenderPump, Written, Persist
  <2>3. /\ srow' \in [Xfer -> Statuses]
        /\ srow[e.xfer] = "none" => srow'[e.xfer] = "none"
        /\ \A y \in Xfer : y # e.xfer => srow'[y] = srow[y]
    BY <2>1, <2>2, Updated DEF SenderInv
  <2>4. srow'[e.xfer] \in Final \/ e.xfer \in sMissed'
    BY <1>6 DEF SenderPump
  <2>5. \A y \in Xfer : y # e.xfer /\ InHand(y) => InHand(y)'
    BY <1>6, <2>1 DEF SenderPump, InHand, Reported, Event
  <2>6. UNCHANGED <<snd, inserting>> /\ sMissed \subseteq sMissed' /\ sEvents' \subseteq sEvents
    BY <1>6 DEF SenderPump
  <2>7. ASSUME NEW y \in Xfer
        PROVE  /\ snd'[y] = "none" \/ y \in inserting' => srow'[y] = "none"
               /\ y \in inserting' => snd'[y] # "none" /\ (InHand(y)' \/ y \in sMissed')
               /\ srow'[y] = "active" => InHand(y)' \/ y \in sMissed'
    <3>1. CASE y = e.xfer
      BY <2>3, <2>4, <2>6, <3>1 DEF SenderInv
    <3>2. CASE y # e.xfer
      BY <2>3, <2>5, <2>6, <3>2 DEF SenderInv, SenderRowsAreHeld
    <3> QED
      BY <3>1, <3>2
  <2> QED
    BY <2>3, <2>6, <2>7 DEF SenderInv, SenderRowsAreHeld
<1>7. ASSUME RestartSender PROVE SenderInv'
  BY <1>7 DEF RestartSender, SenderInv, SenderRowsAreHeld
<1>8. ASSUME UNCHANGED senderVars PROVE SenderInv'
  BY <1>8 DEF senderVars, SenderInv, SenderRowsAreHeld, InHand, Reported
<1> QED
  BY <1>1, <1>2, <1>3, <1>4, <1>5, <1>6, <1>7, <1>8
     DEF Next, User, Accept, Reject, RecordAnswer, Sending, Receiving, Opening, Ending, TakeOffer, RefuseData,
         ResumePart, CreatePart, FailResume, ReceiveBlock, FailReceive, Deliver, FailRename,
         FailChecksum, LoseData, SenderPumps, ReceiverPumps, ReceiverPump, RestartReceiver, vars

\* An offer is forgotten in one way only: its outcome was to be written when the row was not
\* there yet, or the write failed, or the process ended first.  Every other transfer the
\* sender's table calls active is being worked on, or its outcome is on its way to the table
\* (offer_file, await_offer_reply, persist_event).
THEOREM SenderForgetsNothing == Spec => []SenderRowsAreHeld
<1>1. Init => SenderInv
  BY DEF Init, SenderInv, SenderRowsAreHeld, Statuses
<1>2. SenderInv /\ [Next]_vars => SenderInv'
  BY SenderStep
<1>3. SenderInv => SenderRowsAreHeld
  BY DEF SenderInv
<1> QED
  BY <1>1, <1>2, <1>3, PTL DEF Spec

-----------------------------------------------------------------------------
\* A transfer the receiver's table calls active is awaited or read, or its outcome is
\* known, unless the table missed something of it.
ReceiverRowsAreHeld ==
    \A x \in Xfer : rrow[x] = "active" => UnderWay(x) \/ Reported(x, rEvents) \/ x \in rMissed

\* x was answered with yes.
SaidYes(x) == rrow[x] = "active" \/ (answer.xfer = x /\ answer.status = "active")

\* The offer waits for an answer until the user gives one, and gets no second one.
Tracked(x) ==
    /\ ctrl[x] \in {"none", "offer"} => rrow[x] = "none" /\ Event("offered", x) \notin rEvents
    /\ Event("offered", x) \in rEvents => rrow[x] = "none" /\ ctrl[x] = "pending"
    /\ rrow[x] = "none" => ctrl[x] \in {"none", "offer", "pending"}
    /\ rrow[x] = "offered" => ctrl[x] = "pending" \/ answer.xfer = x
    /\ answer.xfer = x => rrow[x] # "none"
    /\ SaidYes(x) => UnderWay(x) \/ Reported(x, rEvents) \/ rrow[x] \in Final

Held(x) == Tracked(x) \/ x \in rMissed

HeldInv == OutcomeInv /\ \A x \in Xfer : Held(x)

\* Enough for a transfer that a step is not about, or only passes on.
LEMMA HeldKept ==
    ASSUME NEW y \in Xfer, Held(y), ctrl'[y] = ctrl[y], rrow'[y] = rrow[y],
           y \in rMissed => y \in rMissed',
           UnderWay(y) => UnderWay(y)' \/ Reported(y, rEvents'),
           Event("offered", y) \in rEvents' <=> Event("offered", y) \in rEvents,
           Reported(y, rEvents) => Reported(y, rEvents'),
           answer' = answer \/ (answer.xfer # y /\ answer'.xfer # y)
    PROVE  Held(y)'
BY DEF Held, Tracked, SaidYes

\* Every step keeps it: an answer is given once, and what ends reports.
LEMMA HeldStep ==
    ASSUME HeldInv, [Next]_vars
    PROVE  \A y \in Xfer : Held(y)'
<1>s. Shape /\ \A x \in Xfer : Goes(x) /\ Held(x)
  BY DEF HeldInv, OutcomeInv
<1>1. ASSUME NEW x \in Xfer, OfferFile(x) PROVE \A y \in Xfer : Held(y)'
  <2>1. ctrl[x] = "none" /\ ctrl'[x] = "offer" /\ \A y \in Xfer \ {x} : ctrl'[y] = ctrl[y]
    BY <1>1, <1>s DEF OfferFile, Shape, Goes, Order
  <2>2. UNCHANGED <<incoming, recv, rrow, rEvents, answer, rMissed>>
    BY <1>1 DEF OfferFile, fileVars, tableVars
  <2>3. Held(x)'
    BY <1>s, <2>1, <2>2 DEF Held, Tracked, SaidYes, UnderWay, Reported, Event
  <2> QED
    BY <1>s, <2>1, <2>2, <2>3, HeldKept DEF UnderWay, Reported, Event
<1>2. ASSUME NEW x \in Xfer, Accept(x) PROVE \A y \in Xfer : Held(y)'
  <2>1. /\ answer = NoAnswer /\ answer.xfer \notin Xfer /\ answer'.xfer = x
        /\ UNCHANGED <<recv, rrow, rMissed>>
        /\ x \notin rMissed => rrow[x] = "offered" /\ ctrl[x] = "pending"
    BY <1>2, <1>s, NoFileAssumption DEF Accept, CanAnswer, NoAnswer, Held, Tracked, fileVars
  <2>2. \A y \in Xfer \ {x} : ctrl'[y] = ctrl[y] /\ incoming'[y] = incoming[y]
    BY <1>2, <1>s DEF Accept, Shape
  <2>3. \A t, y : Event(t, y) \in rEvents => Event(t, y) \in rEvents'
    BY <1>2, OneEvent DEF Accept
  <2>4. \A t, y : Event(t, y) \in rEvents' => Event(t, y) \in rEvents \/ (t = "failed" /\ y = x)
    BY <1>2, OneEvent DEF Accept
  <2>5. x \in rMissed => Held(x)'
    BY <2>1 DEF Held
  <2>6. ASSUME x \notin rMissed PROVE Held(x)'
    <3>1. \/ ctrl'[x] = "reject" /\ Event("failed", x) \in rEvents'
          \/ ctrl'[x] = "accept" /\ incoming'[x] = PartLength
      <4>1. CASE ctrl' = [ctrl EXCEPT ![x] = "reject"] /\ RecvEvent("failed", x)
        BY <1>s, <4>1, OneEvent DEF Shape
      <4>2. CASE ctrl' = [ctrl EXCEPT ![x] = "accept"] /\ incoming' = [incoming EXCEPT ![x] = PartLength]
        BY <1>s, <4>2 DEF Shape
      <4> QED
        BY <1>2, <2>1, <2>6, <4>1, <4>2 DEF Accept
    <3>2. Event("offered", x) \notin rEvents'
      BY <1>s, <2>1, <2>4, <2>6 DEF Held, Tracked
    <3>3. UnderWay(x)' \/ Reported(x, rEvents')
      <4>1. PartLength # NoOffset
        BY DEF PartLength, NoOffset
      <4> QED
        BY <3>1, <4>1 DEF UnderWay, Reported
    <3> QED
      BY <2>1, <2>6, <3>1, <3>2, <3>3 DEF Held, Tracked, SaidYes
  <2>7. ASSUME NEW y \in Xfer \ {x} PROVE Held(y)'
    BY <1>s, <2>1, <2>2, <2>3, <2>4, HeldKept DEF UnderWay, Reported
  <2> QED
    BY <2>5, <2>6, <2>7
<1>3. ASSUME NEW x \in Xfer, Reject(x) PROVE \A y \in Xfer : Held(y)'
  <2>1. /\ answer.xfer \notin Xfer
        /\ x \notin rMissed => rrow[x] = "offered" /\ ctrl[x] = "pending"
        /\ answer' = [xfer |-> x, status |-> "rejected"]
        /\ UNCHANGED <<incoming, recv, rrow, rEvents, rMissed>>
        /\ \A y \in Xfer \ {x} : ctrl'[y] = ctrl[y]
    BY <1>3, <1>s, NoFileAssumption DEF Reject, CanAnswer, NoAnswer, Held, Tracked, Shape, fileVars, senderVars
  <2>2. Held(x)'
    <3>1. ctrl[x] = "pending" => ctrl'[x] = "reject"
      BY <1>3, <1>s DEF Reject, Shape
    <3> QED
      BY <1>s, <2>1, <3>1 DEF Held, Tracked, SaidYes, Event
  <2>3. ASSUME NEW y \in Xfer \ {x} PROVE Held(y)'
    BY <1>s, <2>1, HeldKept DEF UnderWay, Reported, Event
  <2> QED
    BY <2>2, <2>3
<1>4. ASSUME RecordAnswer PROVE \A y \in Xfer : Held(y)'
  <2>1. PICK x \in Xfer : x = answer.xfer
    BY <1>4, <1>s, Recorded
  <2>2. /\ \/ rrow'[x] = IF rrow[x] \in {"none"} \cup Final THEN rrow[x] ELSE answer.status
           \/ x \in rMissed'
        /\ answer.status \in {"active", "rejected"} /\ answer'.xfer \notin Xfer
        /\ \A y \in Xfer \ {x} : rrow'[y] = rrow[y]
        /\ rMissed \subseteq rMissed' /\ UNCHANGED <<ctrl, incoming, recv, rEvents>>
    BY <1>4, <1>s, <2>1, Recorded, NoFileAssumption DEF RecordAnswer, senderVars, fileVars
  <2>3. Held(x)'
    BY <1>s, <2>1, <2>2 DEF Held, Tracked, SaidYes, UnderWay, Reported, Event, Final
  <2>4. ASSUME NEW y \in Xfer \ {x} PROVE Held(y)'
    BY <1>s, <2>1, <2>2, HeldKept DEF UnderWay, Reported, Event
  <2> QED
    BY <2>3, <2>4
<1>5. ASSUME NEW x \in Xfer, Sending(x) PROVE \A y \in Xfer : Held(y)'
  <2>1. /\ ctrl'[x] = ctrl[x] \/ (ctrl[x] \in {"accept", "reject"} /\ ctrl'[x] = "gone")
        /\ \A y \in Xfer \ {x} : ctrl'[y] = ctrl[y]
        /\ UNCHANGED <<incoming, recv, rrow, rEvents, answer, rMissed>>
    BY <1>5, <1>s DEF Sending, InsertRow, ReadAccept, ReadReject, GiveUp, DialData, FinishSend,
                      FailSend, Shape, fileVars, tableVars
  <2>2. Held(x)'
    BY <1>s, <2>1 DEF Held, Tracked, SaidYes, UnderWay, Reported, Event
  <2> QED
    BY <1>s, <2>1, <2>2, HeldKept DEF UnderWay, Reported, Event
<1>6. ASSUME NEW x \in Xfer, TakeOffer(x) PROVE \A y \in Xfer : Held(y)'
  <2>1. /\ ctrl[x] = "offer" /\ ctrl'[x] = "pending" /\ \A y \in Xfer \ {x} : ctrl'[y] = ctrl[y]
        /\ UNCHANGED <<incoming, recv, rrow, answer, rMissed>>
        /\ \A t, y : Event(t, y) \in rEvents' <=> Event(t, y) \in rEvents \/ (t = "offered" /\ y = x)
    BY <1>6, <1>s, OneEvent DEF TakeOffer, Shape, fileVars
  <2>2. Held(x)'
    BY <1>s, <2>1 DEF Held, Tracked, SaidYes, UnderWay, Reported
  <2> QED
    BY <1>s, <2>1, <2>2, HeldKept DEF UnderWay, Reported
<1>7. ASSUME NEW x \in Xfer, RefuseData(x) \/ FailResume(x) PROVE \A y \in Xfer : Held(y)'
  <2>1. /\ UNCHANGED <<ctrl, recv, rrow, answer, rMissed>> /\ \A y \in Xfer \ {x} : incoming'[y] = incoming[y]
        /\ \A t, y : Event(t, y) \in rEvents' <=> Event(t, y) \in rEvents \/ (t = "failed" /\ y = x)
    BY <1>7, <1>s, OneEvent DEF RefuseData, FailResume, TakeData, Shape, senderVars, fileVars
  <2> QED
    BY <1>s, <2>1, HeldKept DEF UnderWay, Reported
<1>8. ASSUME NEW x \in Xfer, ResumePart(x) \/ CreatePart(x) PROVE \A y \in Xfer : Held(y)'
  <2>1. /\ UNCHANGED <<ctrl, rrow, rEvents, answer, rMissed>> /\ recv'[x].pc = "reading"
        /\ \A y \in Xfer \ {x} : incoming'[y] = incoming[y] /\ recv'[y] = recv[y]
    BY <1>8, <1>s DEF ResumePart, CreatePart, TakeData, Shape, senderVars, tableVars
  <2> QED
    BY <1>s, <2>1, HeldKept DEF UnderWay, Reported, Event
<1>9. ASSUME NEW x \in Xfer, ReceiveBlock(x) PROVE \A y \in Xfer : Held(y)'
  <2>1. Receiver(recv[x]) /\ \A y \in Xfer \ {x} : recv'[y] = recv[y]
    BY <1>9, <1>s DEF Shape, ReceiveBlock
  <2>2. recv'[x].pc = recv[x].pc
    <3> DEFINE r == [recv[x] EXCEPT !.pos = @ + 1, !.done = @ + 1,
                          !.hashed = Append(@, Content[x][recv[x].done + 1])]
    <3>1. recv' = [recv EXCEPT ![x] = r]
      BY <1>9 DEF ReceiveBlock
    <3>2. r.pc = recv[x].pc
      BY <2>1 DEF Receiver
    <3> HIDE DEF r
    <3> QED
      BY <1>s, <3>1, <3>2 DEF Shape
  <2>3. UNCHANGED <<ctrl, incoming, rrow, rEvents, answer, rMissed>>
    BY <1>9 DEF ReceiveBlock, senderVars, tableVars
  <2> QED
    BY <1>s, <2>1, <2>2, <2>3, HeldKept DEF UnderWay, Reported, Event
<1>10. ASSUME NEW x \in Xfer, NEW type \in {"done", "failed"}, EndReceive(x), RecvEvent(type, x),
              UNCHANGED <<ctrl, incoming, rrow, answer, rMissed>>
       PROVE  \A y \in Xfer : Held(y)'
  <2>1. \A y \in Xfer \ {x} : recv'[y] = recv[y]
    BY <1>10, <1>s DEF EndReceive, Shape
  <2>2. \A t, y : Event(t, y) \in rEvents' <=> Event(t, y) \in rEvents \/ (t = type /\ y = x)
    BY <1>10, OneEvent
  <2> QED
    BY <1>s, <1>10, <2>1, <2>2, HeldKept DEF UnderWay, Reported
<1>11. ASSUME NEW x \in Xfer, FailReceive(x) \/ Ending(x) PROVE \A y \in Xfer : Held(y)'
  BY <1>10, <1>11 DEF FailReceive, Ending, Deliver, FailRename, FailChecksum, senderVars
<1>12. ASSUME NEW e \in sEvents, SenderPump(e) PROVE \A y \in Xfer : Held(y)'
  BY <1>s, <1>12, HeldKept DEF SenderPump, fileVars, tableVars, UnderWay, Reported, Event
<1>13. ASSUME NEW e \in rEvents, ReceiverPump(e) PROVE \A y \in Xfer : Held(y)'
  <2> DEFINE x == e.xfer
  <2>1. x \in Xfer /\ e.type \in EventTypes /\ e = Event(e.type, x)
    BY <1>13, <1>s, Pumped
  <2>2. \A t, y : Event(t, y) \in rEvents' <=> Event(t, y) \in rEvents /\ ~(t = e.type /\ y = x)
    BY <1>13, <2>1 DEF ReceiverPump, Event
  <2>3. /\ \A y \in Xfer \ {x} : rrow'[y] = rrow[y]
        /\ rMissed \subseteq rMissed'
        /\ x \notin rMissed' =>
              /\ e.type = "offered" => rrow'[x] = IF rrow[x] = "none" THEN "offered" ELSE rrow[x]
              /\ e.type # "offered" => rrow'[x] = IF rrow[x] \in {"none"} \cup Final THEN rrow[x] ELSE e.type
    BY <1>13, <1>s, Pumped
  <2>4. UNCHANGED <<ctrl, incoming, recv, answer>>
    BY <1>13 DEF ReceiverPump, senderVars, fileVars
  <2>5. Held(x)'
    <3>1. CASE e.type = "offered"
      BY <1>s, <2>1, <2>2, <2>3, <2>4, <3>1 DEF Held, Tracked, SaidYes, UnderWay, Reported
    <3>2. CASE e.type # "offered"
      BY <1>s, <2>1, <2>2, <2>3, <2>4, <3>2 DEF Held, Tracked, SaidYes, EventTypes, Final
    <3> QED
      BY <3>1, <3>2
  <2>6. ASSUME NEW y \in Xfer \ {x} PROVE Held(y)'
    BY <1>s, <2>2, <2>3, <2>4, HeldKept DEF UnderWay, Reported
  <2> QED
    BY <2>5, <2>6
<1>14. ASSUME NEW x \in Xfer, LoseData(x) PROVE \A y \in Xfer : Held(y)'
  BY <1>s, <1>14, HeldKept DEF LoseData, senderVars, fileVars, tableVars, UnderWay, Reported, Event
<1>15. ASSUME RestartSender PROVE \A y \in Xfer : Held(y)'
  BY <1>s, <1>15, HeldKept DEF RestartSender, fileVars, tableVars, UnderWay, Reported, Event
<1>16. ASSUME RestartReceiver, NEW y \in Xfer PROVE Held(y)'
  <2>1. /\ ctrl'[y] = "none" <=> ctrl[y] = "none"
        /\ ctrl'[y] \in {"none", "accept", "reject", "gone"}
        /\ \A t : Event(t, y) \notin rEvents'
        /\ answer'.xfer # y /\ UNCHANGED rrow
        /\ rMissed' = rMissed \cup {x \in Xfer : ctrl[x] # "none" /\ rrow[x] \notin Final}
    BY <1>16, <1>s, NoFileAssumption DEF RestartReceiver, Shape, NoAnswer
  <2>2. CASE y \notin rMissed'
    <3>1. (ctrl[y] = "none" /\ rrow[y] = "none") \/ (ctrl[y] # "none" /\ rrow[y] \in Final)
      BY <1>s, <2>1, <2>2 DEF Held, Tracked
    <3> QED
      BY <2>1, <3>1 DEF Held, Tracked, SaidYes, Final
  <2> QED
    BY <2>2 DEF Held
<1>17. ASSUME UNCHANGED vars PROVE \A y \in Xfer : Held(y)'
  BY <1>s, <1>17, HeldKept DEF vars, fileVars, tableVars, UnderWay, Reported, Event
<1> QED
  BY <1>1, <1>2, <1>3, <1>4, <1>5, <1>6, <1>7, <1>8, <1>9, <1>11, <1>12, <1>13, <1>14, <1>15,
     <1>16, <1>17
     DEF Next, User, Receiving, Opening, SenderPumps, ReceiverPumps

\* A transfer the receiver's table calls active is awaited or read, or its outcome is on its
\* way to the table, unless a write about it failed or the process ended first
\* (respond_file, receive_into, persist_event).
THEOREM ReceiverForgetsNothing == Spec => []ReceiverRowsAreHeld
<1>1. Init => HeldInv
  <2>1. Init => \A x \in Xfer : Held(x)
    BY NoFileAssumption DEF Init, Held, Tracked, SaidYes, NoAnswer, Event
  <2> QED
    BY <2>1, OutcomeInit DEF HeldInv
<1>2. HeldInv /\ [Next]_vars => HeldInv'
  BY HeldStep, ShapeStep, DoneStep, GoesStep DEF HeldInv, OutcomeInv
<1>3. HeldInv => ReceiverRowsAreHeld
  BY DEF HeldInv, Held, Tracked, SaidYes, ReceiverRowsAreHeld, Final
<1> QED
  BY <1>1, <1>2, <1>3, PTL DEF Spec
=============================================================================
