SPECIFICATION PublishSpec
CONSTANTS
    a = a
    b = b
    d = d
    live = live
    p1 = p1
    p2 = p2
    p3 = p3
    None = None
    Sources <- MCSources
    Keys <- MCKeys
    KeyOf <- MCKeyOf
    Sessions <- MCSessions
    TupleOf <- MCTupleOf
    Maker <- MCMaker
    Continues <- MCContinues
INVARIANTS
    NeverMoreOffThanOn
    OneWriter
    OwnedHasOwner
PROPERTIES
    ImplementsDirectory
    AbandonedEnds
CHECK_DEADLOCK FALSE
