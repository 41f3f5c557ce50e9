\* Everything may happen: overlap, reordering, faults. A command starts only while no frame is
\* under way; frames it sends still meet those of the pump and of the next restart.
SPECIFICATION Spec
CONSTANTS
    c = c
    m1 = m1
    m2 = m2
    Creator = c
    Node <- TwoNodes
    Overlap = TRUE
    Faults = TRUE
    MaxVersion = 3
    NetCap = 1
CHECK_DEADLOCK FALSE
INVARIANTS
    TypeOK
    HoldersAreMembers
    VersionDeterminesTable
    RowMatchesMemory
PROPERTY LedgerSpec
