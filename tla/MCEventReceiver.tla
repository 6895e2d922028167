-------------------------- MODULE MCEventReceiver --------------------------
(* Instances of EventReceiver for TLC. *)
EXTENDS EventReceiver, TLC

CONSTANTS p1, p2, worker, e1, e2, e3

As(priority, method, blocking) ==
    [priority |-> priority, method |-> method, blocking |-> blocking]

TwoCallers == {p1, p2}
ProducersAndWorker == {p1, p2, worker}
ThreeEvents == {e1, e2, e3}
TwoEvents == {e1, e2}
OneShared == {e1}

\* Overflow run: a thread that may block, with two ways to offer, and one that only tries.
MixedOffers ==
    p1 :> {As(0, "Queue", TRUE), As(2, "Stack", TRUE)}
    @@ p2 :> {As(2, "Queue", FALSE)}

\* Run stop_race: one way to offer each.
PlainOffers ==
    p1 :> {As(1, "Queue", TRUE)} @@ p2 :> {As(1, "Stack", FALSE)}

\* Priority run.
MixedPriorities ==
    p1 :> {As(0, "Stack", TRUE)} @@ p2 :> {As(2, "Queue", TRUE)}

\* Owner run: two threads may block, a callback only tries.
BlockingOffers ==
    p1 :> {As(0, "Queue", TRUE)} @@ p2 :> {As(0, "Queue", TRUE)}
    @@ worker :> {As(2, "Stack", FALSE)}

============================================================================
