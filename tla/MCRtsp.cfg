SPECIFICATION RtspSpec
CONSTANTS
    TrackChoices = {1, 2}
    WaitChoices = {TRUE, FALSE}
    MaxRedirects = 1
    MaxControls = 2
    MaxWire = 2
INVARIANTS
    AliveAsTold
PROPERTIES
    ImplementsContract
    EveryPlayAnswered
    StallNoticed
\* The caller is gone and the player is closed: nothing is left to do.
CHECK_DEADLOCK FALSE
