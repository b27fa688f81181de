SPECIFICATION SortSpec
CONSTANTS
    SeqSpan = 24
    KMax = 4
    KMin = 2
    Starts = {20}
    MaxSent = 40
    Jumps = {14}
    Window = 2
    MaxFlight = 2
    Repeats <- MCRepeats
INVARIANTS
    CacheBounded
PROPERTIES
    SortsInOrder
CHECK_DEADLOCK FALSE
