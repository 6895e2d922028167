SPECIFICATION Spec
CONSTANTS
    w = w
    c = c
    h1 = h1
    h2 = h2
    h3 = h3
    tick = tick
    alarm = alarm
    None = None
    Actors = {w, c}
    Processors = {w, c}
    Handles = {h1, h2, h3}
    Types = {tick, alarm}
    TypeOf <- TwoTypes
    MaxEvents = 2
    MayTearDown = TRUE
    MayFail = TRUE
SYMMETRY Alike
INVARIANTS
    TypeOK
    HandlesAgree
    NoLateNoTwice
    NoneSkipped
    NothingLingers
    RoutesFollowListeners
PROPERTIES
    ImplementsMulticast
