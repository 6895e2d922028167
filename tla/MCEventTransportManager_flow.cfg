\* Packets that keep coming and a local event published over and over, through two calls
\* of the owner, with failures, while the routes change.  CHECK_DEADLOCK is off: a manager
\* whose owner has no calls left may never have been started.
SPECIFICATION FairSpec
CONSTANTS
    e1 = e1
    r1 = r1
    t1 = t1
    Locals = {e1}
    Remotes = {r1}
    Transports = {t1}
    Capacity = 1
    Collections = 1
    MaxInbound = 1
    QueueDepth = 1
    PendingOutbound = {"Discard"}
    MayFail = TRUE
    MaxCalls = 2
    MaxReroutes = 1
CHECK_DEADLOCK FALSE
INVARIANTS
    TypeOK
    ReferencesExact
    NoEcho
    NoLostWakeup
    FlagsFollowExecutor
PROPERTIES
    NeitherDirectionStarves
