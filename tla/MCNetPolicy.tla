---------------------------- MODULE MCNetPolicy ----------------------------
(* Eight addresses, one or two interfaces; see the .cfg files. *)
EXTENDS NetPolicy

Eth(ip, prefix)  == [name |-> 1, ip |-> ip, prefix |-> prefix, virtual |-> FALSE]
Tun(ip, prefix)  == [name |-> 2, ip |-> ip, prefix |-> prefix, virtual |-> TRUE]

\* A wide subnet; a narrow one within it; two interfaces on one subnet; on
\* two subnets of which one is a point-to-point link.
Interfaces ==
    {{Eth(1, 0)}, {Eth(1, 0), Tun(6, 2)}, {Eth(1, 1), Tun(2, 1)}, {Eth(2, 1), Tun(6, 2)}}

\* Every list of at most two entries, in either order.
AllLists == {<<>>} \cup {<<r>> : r \in Range2} \cup {<<r, q>> : r, q \in Range2}

\* What the three formats and a typing error make of a few lines.
FileLines == {<<>>, <<Cidr(5, 1), BadLine>>, <<Single(2), Between(5, 3), Single(3), Cidr(0, 0)>>}
UserLines == FileLines \cup {<<Between(2, 6)>>, <<Cidr(3, 1), Cidr(6, 2)>>}

Names == {2, 3}

=============================================================================
