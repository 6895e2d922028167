\* A blocked producer, and an owner that stops and clears.
SPECIFICATION Spec
CONSTANTS
    p1 = p1
    p2 = p2
    worker = worker
    e1 = e1
    e2 = e2
    e3 = e3
    Callers <- TwoCallers
    Worker = worker
    Events <- ThreeEvents
    Shared <- OneShared
    OfferedAs <- PlainOffers
    InitialMaxima = {1}
    InitialPolicies = {"BlockProducer"}
    NewMaxima = {}
    NewPolicies = {}
    MaxOffers = 3
    MayStop = TRUE
    MayReset = FALSE
    MayFail = FALSE
    NoOffer = NoOffer
PROPERTY NoAdmissionAfterStop
CHECK_DEADLOCK FALSE
