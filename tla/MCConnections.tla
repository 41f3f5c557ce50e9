---------------------------- MODULE MCConnections ----------------------------
(* Two devices; a sends with as many threads as the configuration gives. *)
EXTENDS Connections

CONSTANTS a, b, t1, t2

OnA == [t \in Thread |-> a]

=============================================================================
