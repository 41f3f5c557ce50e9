----------------------------- MODULE MCAnnounce -----------------------------
(* Two devices on one subnet with a third address. *)
EXTENDS Announce

CONSTANTS a, b, other, lan

OneSubnet == [i \in Iface |-> {a, b, other}]

\* Everything; a range within the subnet; that range and every interface excluded.
ThreeSnapshots ==
    {[ifs |-> {lan}, scope |-> Address], [ifs |-> {lan}, scope |-> {a, b}], [ifs |-> {}, scope |-> {a, b}]}

\* The program comes with no range and nothing excluded.
Open == {[ifs |-> {lan}, scope |-> Address]}

TwoWindows == <<3, 4>>

=============================================================================
