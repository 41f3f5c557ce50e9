\* One plain peer and one BigPaw peer; a process ends and starts again.
SPECIFICATION Live
CONSTANTS
    peer1 = peer1
    kin1 = kin1
    Us = Us
    Ranges <- WithAndWithout
    Plain = {peer1}
    Kin = {kin1}
    Timeout = 2
    MaxMoves = 3
    MaxExits = 1
    MaxLost = 1
    MaxRefused = 1
    MaxEntries = 5
CHECK_DEADLOCK FALSE
INVARIANTS
    TypeOK
    Farewell
    OfferIsHeld
    FoldersArrive
PROPERTIES
    PresenceFollows
    AckedIsStored
    DownloadsEnd
