\* Two conversations, three arrivals, four commands or events of the window.
SPECIFICATION Spec
CONSTANTS
    ann = ann
    bob = bob
    None = None
    Conv = {ann, bob}
    MaxArrivals = 3
    MaxCommands = 4
    Ids <- FourIds
    Times <- TwoTimes
    Limits <- OneOrTwo
    Reads = 2
CHECK_DEADLOCK FALSE
INVARIANTS
    TrayRight
    QuietIsNotUnread
    PagesComplete
