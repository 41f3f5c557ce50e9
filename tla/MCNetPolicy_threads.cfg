SPECIFICATION Spec
CONSTANTS
    Bits = 3
    MaxHosts = 2
    MaxEntries = 2
    OsStates <- Interfaces
    SavedLines <- FileLines
    NewLines <- UserLines
    Excludable <- Names
    Samples <- AllLists
    MaxGen = 4
INVARIANTS
    Stealth
    Reach
    BatchesAreRight
    BcastFollows
    MdnsFollowsAlone
CHECK_DEADLOCK FALSE
