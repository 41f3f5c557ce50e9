SPECIFICATION Live
CONSTANTS
    a = a
    b = b
    other = other
    lan = lan
    Device = {a, b}
    Nobody = other
    Iface = {lan}
    Subnet <- OneSubnet
    Snapshots <- ThreeSnapshots
    Saved <- Open
    Windows <- TwoWindows
    Restless = {a}
    MinSteps = 3
    ReplySteps = 4
    MaxHistory = 1
    MaxChanges = 2
    MaxFaults = 2
INVARIANTS
    Pace
    NoReplyStorm
PROPERTIES
    MembershipHeals
    NameSpreads
CHECK_DEADLOCK FALSE
