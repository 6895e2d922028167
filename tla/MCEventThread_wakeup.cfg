SPECIFICATION FairSpec
CONSTANTS
    e1 = e1
    e2 = e2
    e3 = e3
    Events = {e1, e2}
    Capacity = 1
    MaxRegistrations = 1
    Kinds = {"EventThread", "EventThreadWithLoop", "PrecisionEventThread"}
    MaxSettings = 1
    MayFail = TRUE
INVARIANTS
    TypeOK
    NoLostWakeup
    StoppedStaysEmpty
PROPERTIES
    EventsSettle
CHECK_DEADLOCK FALSE
