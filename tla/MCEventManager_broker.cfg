\* The broker with two receivers whose mailboxes fill, routes that change while events are
\* dispatched, observers that come and go, and an owner whose first attempts may fail.
\* CHECK_DEADLOCK is off: everything is bounded, and so ends.
SPECIFICATION FairSpec
CONSTANTS
    A = A
    r1 = r1
    r2 = r2
    e1 = e1
    e2 = e2
    Types = {A}
    Receivers = {r1, r2}
    Events = {e1, e2}
    TypeOf <- OfTypeA
    ReceiverCapacity = 1
    QueueDepth = 1
    MayFail = TRUE
    MaxChanges = 3
    MaxCalls = 2
CHECK_DEADLOCK FALSE
INVARIANTS
    TypeOK
    RecordsExact
    EveryReceiverOnce
    ReferencesExact
    FlagsFollowExecutor
PROPERTIES
    ImplementsMulticast
    EventsSettle
