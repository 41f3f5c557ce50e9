\* Two transfers of one name at once.
SPECIFICATION Spec
CONSTANTS
    x1 = x1
    x2 = x2
    A = A
    B = B
    NoFile = NoFile
    Hole = Hole
    Block <- TwoBlocks
    Xfer <- TwoXfers
    Content <- Versions
    Overlap = TRUE
    LateAnswers = FALSE
    BadWrites = {}
    Breaks = FALSE
    Restarts = FALSE
CHECK_DEADLOCK FALSE
INVARIANT WholeUnderName
