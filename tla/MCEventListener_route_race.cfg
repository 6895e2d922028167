SPECIFICATION Spec
CONSTANTS
    w = w
    c = c
    h1 = h1
    h2 = h2
    h3 = h3
    tick = tick
    alarm = alarm
    None = None
    Actors = {w, c}
    Processors = {w}
    Handles = {h1, h2}
    Types = {tick}
    TypeOf <- OneType
    MaxEvents = 1
    MayTearDown = FALSE
    MayFail = FALSE
INVARIANT NoRouteLost
CHECK_DEADLOCK FALSE
