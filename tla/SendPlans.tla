----------------------------- MODULE SendPlans -----------------------------
(***************************************************************************)
(* What the device sends to, given its interfaces and the network range:    *)
(* send_targets, send_plans, ipmsg_targets and the interfaces mDNS has to   *)
(* leave alone (bigpaw-core/src/net_ifaces.rs).  An interface entry is      *)
(* [name, ip, prefix, virtual]; names are numbers, in their order.          *)
(***************************************************************************)
EXTENDS NetScope

Entry == [name : Nat, ip : Addr, prefix : Prefix, virtual : BOOLEAN]

Subnet(e)      == SubnetBounds(e.ip, e.prefix)
SameSubnet(e, d) == e.prefix = d.prefix /\ Subnet(e) = Subnet(d)

\* A real interface before a virtual one, then by name, then by address.
Preferred(e, d) ==
    \/ ~e.virtual /\ d.virtual
    \/ /\ e.virtual = d.virtual
       /\ e.name < d.name \/ (e.name = d.name /\ e.ip <= d.ip)

\* send_targets: one representative per subnet.
SendTargets(entries) ==
    {e \in entries : \A d \in entries : SameSubnet(e, d) => Preferred(e, d)}

\* (mutation) The device's other addresses are not left out.
OwnAddressOnly(entries, t) == {t.ip}

OwnAddresses(entries, t) == {e.ip : e \in {d \in entries : SameSubnet(d, t)}}

\* send_plans for one subnet: who is sent to, and how.  The broadcast address is the last of
\* the subnet; build_entries takes the one the system reports, where it reports one, which
\* is assumed to be the same.
PlanFor(entries, scope, t) ==
    LET found == HostsWithin(scope, t.ip, t.prefix, OwnAddresses(entries, t))
    IN IF CoversSubnet(scope, t.ip, t.prefix)
       THEN [iface |-> t, mode |-> "broadcast", hosts |-> <<Subnet(t)[2]>>, truncated |-> FALSE]
       ELSE [iface |-> t, mode |-> IF found.hosts = <<>> THEN "silent" ELSE "unicast",
             hosts |-> found.hosts, truncated |-> found.truncated]

Plans(entries, scope) == {PlanFor(entries, scope, t) : t \in SendTargets(entries)}

\* The addresses of the range on no local subnet.
OffLink(entries, scope) ==
    IF Unrestricted(scope) THEN [hosts |-> <<>>, truncated |-> FALSE]
    ELSE HostsOutside(scope, {Subnet(t) : t \in SendTargets(entries)})

\* ipmsg_targets.
IpmsgTargets(entries, scope) ==
    (UNION {ToSet(p.hosts) : p \in Plans(entries, scope)}) \cup ToSet(OffLink(entries, scope).hosts)

\* mdns_disabled_names.
HiddenNames(entries, scope) ==
    IF Unrestricted(scope) THEN {}
    ELSE {e.name : e \in {d \in entries : ~CoversSubnet(scope, d.ip, d.prefix)}}

\* desired_mdns_disabled.
DesiredDisabled(excluded, entries, scope) == HiddenNames(entries, scope) \cup excluded

-----------------------------------------------------------------------------
(* What the plans are for, in sets of addresses. *)

Allowed(scope) == IF Unrestricted(scope) THEN Addr ELSE UNION {Within(r) : r \in ToSet(scope)}

\* Who hears what is sent for a plan.
Heard(p) == IF p.mode = "broadcast" THEN Within(Subnet(p.iface)) ELSE ToSet(p.hosts)

HeardAll(entries, scope) ==
    (UNION {Heard(p) : p \in Plans(entries, scope)}) \cup ToSet(OffLink(entries, scope).hosts)

NoRepeats(s) == \A i, j \in DOMAIN s : s[i] = s[j] => i = j

-----------------------------------------------------------------------------
(* What is asked of the plans, for the entries of a snapshot and a scope. *)

\* Nobody out of range hears an announcement, by broadcast or by unicast, whatever
\* interfaces and entries overlap.
Stealthy(entries, scope) == HeardAll(entries, scope) \subseteq Allowed(scope)

\* Every host of the range on a local subnet is sent to, and every other address of a
\* small entry too, unless the list was cut off.
Reaching(entries, scope) ==
    /\ \A p \in Plans(entries, scope) :
          LET hosts == HostRange(p.iface.ip, p.iface.prefix)
              own   == {e.ip : e \in entries}
          IN p.truncated \/ (Within(hosts) \cap Allowed(scope)) \ own \subseteq Heard(p)
    /\ LET far   == OffLink(entries, scope)
           local == UNION {Within(Subnet(e)) : e \in entries}
       IN \A r \in ToSet(scope) :
             Size(r) <= MaxHosts => far.truncated \/ Within(r) \ local \subseteq ToSet(far.hosts)

\* A batch of unicasts has no address twice, none the device has on that subnet, and
\* no network or broadcast address.
BatchRight(entries, scope) ==
    /\ NoRepeats(OffLink(entries, scope).hosts)
    /\ \A p \in Plans(entries, scope) : p.mode = "unicast" =>
          /\ NoRepeats(p.hosts) /\ Len(p.hosts) <= MaxHosts
          /\ \A e \in entries : SameSubnet(e, p.iface) => e.ip \notin ToSet(p.hosts)
          /\ ToSet(p.hosts) \subseteq Within(HostRange(p.iface.ip, p.iface.prefix))

=============================================================================
