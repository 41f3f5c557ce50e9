\* Commands and frames of a device one after the other, without faults; frames overtake each other.
SPECIFICATION Spec
CONSTANTS
    c = c
    m1 = m1
    m2 = m2
    Creator = c
    Node <- ThreeNodes
    Overlap = FALSE
    Faults = FALSE
    MaxVersion = 3
    NetCap = 2
SYMMETRY Members
CHECK_DEADLOCK FALSE
INVARIANTS
    HeardTogether
    ToldConverge
