\* Two fan-outs overtake each other.
SPECIFICATION Spec
CONSTANTS
    c = c
    m1 = m1
    m2 = m2
    Creator = c
    Node <- ThreeNodes
    Overlap = FALSE
    Faults = FALSE
    MaxVersion = 3
    NetCap = 3
CHECK_DEADLOCK FALSE
INVARIANT Converged
