----------------------------- MODULE MCPresence -----------------------------
(* Values for the model checker: see the .cfg files. *)
EXTENDS Presence

CONSTANTS p1, p2, a1, a2

OneNative    == {p1}
TwoPeers     == {p1, p2}
OneAddr      == {a1}
TwoAddrs     == {a1, a2}

\* Two ranges that exclude each other.
DisjointScopes == {{a1}, {a2}}
AnyScope     == {{a1}}
=============================================================================
