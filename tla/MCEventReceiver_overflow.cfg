\* Two producers that block or evict, under a policy that changes, with failing insertions,
\* throwing callbacks and statistics that are reset.
SPECIFICATION Spec
CONSTANTS
    p1 = p1
    p2 = p2
    worker = worker
    e1 = e1
    e2 = e2
    e3 = e3
    Callers <- TwoCallers
    Worker = worker
    Events <- TwoEvents
    Shared <- OneShared
    OfferedAs <- MixedOffers
    InitialMaxima = {2}
    InitialPolicies = {"BlockProducer", "DropLowestPriority"}
    NewMaxima = {}
    NewPolicies = {"DropOldest"}
    MaxOffers = 3
    MayStop = FALSE
    MayReset = TRUE
    MayFail = TRUE
    NoOffer = NoOffer
INVARIANTS
    TypeOK
    CountsExact
    ReferencesExact
    OneFate
    DeliveryOrder
    SweepDrainsInOrder
PROPERTIES
    ImplementsMailbox
