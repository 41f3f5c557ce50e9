\* Two versions of a file at once after a third, answers late or never, connections break.
SPECIFICATION ThirdSpec
CONSTANTS
    x1 = x1
    x2 = x2
    x3 = x3
    A = A
    B = B
    NoFile = NoFile
    Hole = Hole
    Block <- TwoBlocks
    Xfer <- ThreeXfers
    Content <- ThreeVersions
    Overlap = TRUE
    LateAnswers = TRUE
    BadWrites <- FirstXfer
    Breaks = TRUE
    Restarts = FALSE
CHECK_DEADLOCK FALSE
INVARIANTS
    OutcomeIsKept
PROPERTIES
    SenderRowEnds
    ReceivedRowEnds
