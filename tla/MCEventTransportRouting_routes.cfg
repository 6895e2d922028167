\* Two threads register and unregister two types of event and a transport, and
\* initialize and shut the manager down.
SPECIFICATION Spec
CONSTANTS
    a1 = a1
    a2 = a2
    A = A
    B = B
    t1 = t1
    Actors = {a1, a2}
    Types = {A, B}
    Transports = {t1}
    Runtime = {}
    MaxCalls = 4
    None = None
SYMMETRY ActorTypeSymmetry
CHECK_DEADLOCK FALSE
INVARIANTS
    TypeOK
    RoutesFollowDirections
    ReceiversFollowTransports
    QueuedFromRegistered
