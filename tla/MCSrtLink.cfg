SPECIFICATION LinkSpec
CONSTANTS
    MaxSeq = 31
    Cap = 3
    TooLateDrop = TRUE
    First = 3
    MaxSent = 7
    SendLateDrop = TRUE
    MaxLosses = 1
    MaxReports = 1
INVARIANTS
    AckedIsPassed
PROPERTIES
    ImplementsBuffer
    GapsClose
CHECK_DEADLOCK FALSE
