SPECIFICATION FindSpec
CONSTANTS
    a = a
    b = b
    live = live
    r1 = r1
    r2 = r2
    p1 = p1
    addr = addr
    None = None
    Pending = Pending
    Sources = {a, b}
    Keys <- MCKeys
    KeyOf <- MCKeyOf
    Requests = {r1, r2}
    Wants <- MCWants
    Sessions <- MCSessions
    SessionOf <- MCSessionOf
    TagOf <- MCOneTag
INVARIANTS
    WakeupNotLost
    AnswerAtMostOnce
PROPERTIES
    EveryCallAnswered
\* All calls answered and all sources dead: nothing is left to do.
CHECK_DEADLOCK FALSE
