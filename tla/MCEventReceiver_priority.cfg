\* A stacked event of low priority and a queued one of high priority.
SPECIFICATION Spec
CONSTANTS
    p1 = p1
    p2 = p2
    worker = worker
    e1 = e1
    e2 = e2
    e3 = e3
    Callers <- TwoCallers
    Worker = worker
    Events <- ThreeEvents
    Shared <- OneShared
    OfferedAs <- MixedPriorities
    InitialMaxima = {2}
    InitialPolicies = {"BlockProducer"}
    NewMaxima = {}
    NewPolicies = {}
    MaxOffers = 3
    MayStop = FALSE
    MayReset = FALSE
    MayFail = FALSE
    NoOffer = NoOffer
INVARIANT HigherPriorityFirst
CHECK_DEADLOCK FALSE
