\* Two versions of a file, one after the other; everything may fail.
SPECIFICATION Spec
CONSTANTS
    x1 = x1
    x2 = x2
    A = A
    B = B
    NoFile = NoFile
    Hole = Hole
    Block <- TwoBlocks
    Xfer <- TwoXfers
    Content <- Versions
    Overlap = FALSE
    LateAnswers = TRUE
    BadWrites <- FirstXfer
    Breaks = TRUE
    Restarts = TRUE
CHECK_DEADLOCK FALSE
INVARIANTS
    WholeUnderName
