------------------------------ MODULE MCGroups ------------------------------
(* Values for the model checker: see the .cfg files. *)
EXTENDS Groups, TLC

CONSTANTS c, m1, m2

ThreeNodes == {c, m1, m2}
TwoNodes   == {c, m1}

\* The members are alike.
Members == Permutations({m1, m2})
=============================================================================
