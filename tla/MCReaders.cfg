SPECIFICATION ReadersSpec
CONSTANTS
    rtsp = rtsp
    h1 = h1
    h2 = h2
    x = x
    y = y
    None = None
    NullSource = NullSource
    Fixed = {rtsp}
    HlsSources = {h1, h2}
    Senders = {x, y}
    SourceOf <- MCSourceOf
    Mp4AsPlayer = TRUE
    MaxReaders = 1
    MaxTasks = 3
    MaxCalls = 4
INVARIANTS
    NeverForgotten
    TimerMeansUnwatched
PROPERTIES
    UnwatchedReported
\* A closed stream does nothing more.
CHECK_DEADLOCK FALSE
