\* Two producers that may wait for the same room, or are turned away, a callback that offers
\* to its own mailbox, and an owner that may stop, clear, stall, or change the maximum under
\* their feet; each thread inside AddEvent keeps running.
SPECIFICATION FairSpec
CONSTANTS
    p1 = p1
    p2 = p2
    worker = worker
    e1 = e1
    e2 = e2
    e3 = e3
    Callers <- ProducersAndWorker
    Worker = worker
    Events <- OneShared
    Shared <- OneShared
    OfferedAs <- BlockingOffers
    InitialMaxima = {1}
    InitialPolicies = {"BlockProducer", "RejectIncoming"}
    NewMaxima = {2}
    NewPolicies = {}
    MaxOffers = 3
    MayStop = TRUE
    MayReset = FALSE
    MayFail = FALSE
    NoOffer = NoOffer
PROPERTIES
    AdmissionRespectsMaximum
    StopAdmitsOnlyWaiters
    StopReleasesWaiters
    WaitersReturn
    PendingEventsSettle
