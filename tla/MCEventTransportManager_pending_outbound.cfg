\* The routes change while an event waits to go out.
SPECIFICATION Spec
CONSTANTS
    e1 = e1
    r1 = r1
    t1 = t1
    Locals = {e1}
    Remotes = {r1}
    Transports = {t1}
    Capacity = 1
    Collections = 1
    MaxInbound = 1
    QueueDepth = 1
    PendingOutbound = {"Complete", "Discard"}
    MayFail = FALSE
    MaxCalls = 1
    MaxReroutes = 2
CHECK_DEADLOCK FALSE
INVARIANTS
    PendingOutboundCompletes
