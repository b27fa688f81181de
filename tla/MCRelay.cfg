SPECIFICATION RelaySpec
CONSTANTS
    Proxies = {p1, p2}
    Callers = {c1}
    RetryCount = 1
    ResetWhenReplay = FALSE
    Pushers = {q1}
    PushRetryCount <- MCForever
    None = None
INVARIANTS
    NeverStuck
    PushIsAtWork
PROPERTIES
    EveryAddAnswered
    PushEndsWithSource
CHECK_DEADLOCK FALSE
