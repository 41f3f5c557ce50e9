----------------------------- MODULE MCFileThird -----------------------------
(* Two transfers at once after a third one of the same name, which has ended. *)
EXTENDS MCFileTransfer

CONSTANT x3

ThreeXfers    == {x1, x2, x3}
ThreeVersions == x3 :> <<A, B>> @@ Versions

\* x2 was not yet offered, x1 was offered and accepted before there was a part file.  x3
\* had been rejected and left nothing behind, or it broke off after its first block since.
AfterThird ==
    /\ inserting = {} /\ sEvents = {} /\ rEvents = {} /\ answer = NoAnswer
    /\ sMissed = {} /\ rMissed = {}
    /\ snd  = x1 :> "waiting" @@ x2 :> "none" @@ x3 :> "ended"
    /\ srow = x1 :> "active"  @@ x2 :> "none" @@ x3 :> "failed"
    /\ ctrl = x1 :> "accept"  @@ x2 :> "none" @@ x3 :> "gone"
    /\ incoming = x1 :> 0 @@ x2 :> NoOffset @@ x3 :> NoOffset
    /\ recv = [x \in Xfer |-> NoRecv]
    /\ final = NoFile /\ delivered = [all |-> {}, last |-> NoFile]
    /\ \/ /\ rrow = x1 :> "active" @@ x2 :> "none" @@ x3 :> "rejected"
          /\ data = [x \in Xfer |-> "none"]
          /\ disk = [x \in Xfer |-> <<>>] /\ part = NoFile
       \/ /\ rrow = x1 :> "active" @@ x2 :> "none" @@ x3 :> "failed"
          /\ data = x1 :> "none" @@ x2 :> "none" @@ x3 :> "gone"
          /\ disk = x1 :> <<>> @@ x2 :> <<>> @@ x3 :> <<A>> /\ part = x3

\* No action takes up x3 again.
ThirdSpec == AfterThird /\ [][Next]_vars /\ Fairness
=============================================================================
