----------------------------- MODULE GroupLedger -----------------------------
(***************************************************************************)
(* What bigpaw-core/src/groups.rs promises of one chat group: the creator   *)
(* alone writes the member table and counts its versions up, and everybody  *)
(* else holds nothing or a copy that a newer table replaces ("last writer   *)
(* wins", with a single writer).                                            *)
(***************************************************************************)
EXTENDS Naturals

CONSTANTS
    Node,     \* devices
    Creator   \* the one that created the group

VARIABLES
    log,      \* every table the creator ever wrote
    copy      \* the table each device holds

Table == [version : Nat, members : SUBSET Node]

\* A device without the group: version 0 is never issued.
NoGroup == [version |-> 0, members |-> {}]

Init == log = {} /\ copy = [n \in Node |-> NoGroup]

\* The creator writes the next version.
Write(M) ==
    LET t == [version |-> copy[Creator].version + 1, members |-> M]
    IN /\ \A u \in log : u.version <= copy[Creator].version
       /\ log' = log \cup {t}
       /\ copy' = [copy EXCEPT ![Creator] = t]

\* A member takes over a newer table it is in.
Adopt(n, t) ==
    /\ n # Creator /\ n \in t.members /\ t.version > copy[n].version
    /\ copy' = [copy EXCEPT ![n] = t]
    /\ UNCHANGED log

\* A device gives the group up: it left, or a newer table excludes it.
Drop(n) ==
    /\ copy' = [copy EXCEPT ![n] = NoGroup]
    /\ UNCHANGED log

Next ==
    \/ \E M \in SUBSET Node : Creator \in M /\ Write(M)
    \/ \E n \in Node : Drop(n) \/ \E t \in log : Adopt(n, t)

Spec == Init /\ [][Next]_<<log, copy>>
=============================================================================
