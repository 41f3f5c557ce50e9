------------------------------ MODULE NetScope ------------------------------
(***************************************************************************)
(* The network range the user allows, as the interval arithmetic of         *)
(* bigpaw-core/src/net_scope.rs.  An address is a number of Bits bits, a    *)
(* netmask its prefix length, an entry of the list the closed interval it   *)
(* stands for, and a scope the sequence of its entries; the empty scope     *)
(* restricts nothing.                                                       *)
(***************************************************************************)
EXTENDS Integers, SequencesExt, FiniteSets

CONSTANTS
    Bits,       \* width of an address; 32 in the code
    MaxHosts,   \* MAX_UNICAST_HOSTS
    MaxEntries  \* MAX_ENTRIES

ASSUME WidthAssumption == Bits \in Nat /\ MaxHosts \in Nat /\ MaxEntries \in Nat

Prefix == 0 .. Bits

\* A function, where 2^k would do: tlapm knows no powers.
PowerOf2[k \in Prefix] == IF k = 0 THEN 1 ELSE 2 * PowerOf2[k - 1]

Addr   == 0 .. PowerOf2[Bits] - 1
Range2 == {r \in Addr \X Addr : r[1] <= r[2]}   \* a closed interval

NoRange == <<>>
BadLine == <<1, 0>>   \* no interval: a line that is not an entry

Size(r)   == r[2] - r[1] + 1
Within(r) == r[1] .. r[2]
Smaller(a, b) == IF a < b THEN a ELSE b
Larger(a, b)  == IF a < b THEN b ELSE a

-----------------------------------------------------------------------------
(* Entries and lists of lines. *)

\* subnet_bounds: network and broadcast address.
SubnetBounds(ip, prefix) ==
    LET size == PowerOf2[Bits - prefix]
    IN <<ip - (ip % size), ip - (ip % size) + size - 1>>

\* The three formats; the host bits of a CIDR entry are cleared.
Single(ip)       == <<ip, ip>>
Cidr(ip, prefix) == SubnetBounds(ip, prefix)
Between(a, b)    == IF a > b THEN BadLine ELSE <<a, b>>

\* NetScope::parse: one bad line or too many make the whole list invalid.
Valid(lines) == (\A i \in DOMAIN lines : lines[i] # BadLine) /\ Len(lines) <= MaxEntries

\* NetScope::parse_lenient: bad lines are skipped, the rest is cut off.
KeepLine(good, l) == IF l = BadLine \/ Len(good) = MaxEntries THEN good ELSE Append(good, l)
Lenient(lines)    == FoldLeft(KeepLine, <<>>, lines)

-----------------------------------------------------------------------------
(* Intervals. *)

Before(r, q) == r[1] < q[1] \/ (r[1] = q[1] /\ r[2] < q[2])

\* The intervals of S in their order.
Sorted(S) ==
    CHOOSE s \in [1 .. Cardinality(S) -> S] :
        ToSet(s) = S /\ \A i, j \in DOMAIN s : i < j => Before(s[i], s[j])

\* (mutation) The end of the later interval wins.
MergeIntoEnd(merged, r) ==
    IF merged # <<>> /\ r[1] <= Last(merged)[2] + 1
    THEN [merged EXCEPT ![Len(merged)][2] = r[2]]
    ELSE Append(merged, r)

\* An interval that overlaps or adjoins the last one is added to it.
MergeInto(merged, r) ==
    IF merged # <<>> /\ r[1] <= Last(merged)[2] + 1
    THEN [merged EXCEPT ![Len(merged)][2] = Larger(@, r[2])]
    ELSE Append(merged, r)

\* merge_ranges: sorted, disjoint and not adjacent.
Merge(S) == FoldLeft(MergeInto, <<>>, Sorted(S))

Merged(scope) == Merge(ToSet(scope))

\* containing_range: the last interval that starts at x or before.
ContainingRange(merged, x) ==
    LET i == Cardinality({j \in DOMAIN merged : merged[j][1] <= x})
    IN IF i > 0 /\ x <= merged[i][2] THEN merged[i] ELSE NoRange

\* subtract_range: what is left of a, in at most two intervals.
Subtract(a, b) ==
    {r \in {<<a[1], Smaller(a[2], b[1] - 1)>>, <<Larger(a[1], b[2] + 1), a[2]>>} : r[1] <= r[2]}

\* What is left of entry r outside every one of the subnets.
TakeOut(left, b)        == UNION {Subtract(a, b) : a \in left}
SubtractAll(r, subnets) == FoldLeft(TakeOut, {r}, Sorted(subnets))

Addresses(r) == [i \in 1 .. Size(r) |-> r[1] + i - 1]

\* collect_hosts, for one address: at most `MaxHosts' are taken.  The code returns at the
\* first one too many; here those after it change nothing.
TakeHost(out, a, exclude) ==
    IF a \in exclude THEN out
    ELSE IF Len(out.hosts) = MaxHosts THEN [out EXCEPT !.truncated = TRUE]
    ELSE [out EXCEPT !.hosts = Append(@, a)]

TakeRange(out, r, exclude) ==
    FoldLeft(LAMBDA o, a : TakeHost(o, a, exclude), out, Addresses(r))

CollectHosts(ranges, exclude) ==
    FoldLeft(LAMBDA o, r : TakeRange(o, r, exclude), [hosts |-> <<>>, truncated |-> FALSE], ranges)

-----------------------------------------------------------------------------
(* NetScope. *)

Unrestricted(scope) == scope = <<>>

Allows(scope, ip) == Unrestricted(scope) \/ ContainingRange(Merged(scope), ip) # NoRange

\* (mutation) Where the range ends does not matter.
CoversNetwork(scope, ip, prefix) == Allows(scope, SubnetBounds(ip, prefix)[1])

CoversSubnet(scope, ip, prefix) ==
    LET subnet == SubnetBounds(ip, prefix)
        range  == ContainingRange(Merged(scope), subnet[1])
    IN Unrestricted(scope) \/ (range # NoRange /\ range[2] >= subnet[2])

\* Without network and broadcast address, unless there are only two.
HostRange(ip, prefix) ==
    LET subnet == SubnetBounds(ip, prefix)
    IN IF subnet[2] - subnet[1] < 2 THEN subnet ELSE <<subnet[1] + 1, subnet[2] - 1>>

\* hosts_within: what the range and the subnet have in common.  An interval that
\* is empty after the cut has no addresses.
HostsWithin(scope, ip, prefix, exclude) ==
    LET hosts  == HostRange(ip, prefix)
        Cut(r) == <<Larger(r[1], hosts[1]), Smaller(r[2], hosts[2])>>
        merged == Merged(scope)
    IN CollectHosts([i \in DOMAIN merged |-> Cut(merged[i])], exclude)

\* hosts_outside: entries of at most MaxHosts addresses, less the subnets.
HostsOutside(scope, subnets) ==
    LET small  == {r \in ToSet(scope) : Size(r) <= MaxHosts}
    IN CollectHosts(Merge(UNION {SubtractAll(r, subnets) : r \in small}), {})

=============================================================================
