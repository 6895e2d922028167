SPECIFICATION Spec
CONSTANTS
    e1 = e1
    e2 = e2
    e3 = e3
    Events = {e1, e2, e3}
    Capacity = 2
    MaxRegistrations = 2
    Kinds = {"EventThread"}
    MaxSettings = 0
    MayFail = TRUE
INVARIANT NoDanglingReceiver
CHECK_DEADLOCK FALSE
