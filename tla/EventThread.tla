---------------------------- MODULE EventThread ----------------------------
(***************************************************************************)
(* The workers that receive events: EventThread with its base              *)
(* EventThreadBase, EventThreadWithLoop, both in                           *)
(* src/src/ESPressio_EventThread.hpp, and                                  *)
(* src/src/ESPressio_PrecisionEventThread.hpp.  How each of them comes to  *)
(* drain its mailbox, how it is stopped by its owner, by an exception of   *)
(* its own or by its lifecycle observer, and how it is destroyed while the *)
(* broker fans events out to it.                                           *)
(*                                                                         *)
(* The mailbox is what EventReceiver promises, without priorities: a set   *)
(* of events that admits while it accepts and has room, or in the place of *)
(* another event, and a sweep that leaves nothing of what was there when   *)
(* it began and has not been evicted.  The registry is what                *)
(* EventListener promises for one event type and one client.  The bases    *)
(* Thread and PrecisionThread are not part of the repository.  Thread      *)
(* calls OnLoop until it is terminated or OnLoop throws; PrecisionThread   *)
(* calls Iterate at its times and once for Bump, and OnWorkWake once for   *)
(* WakeForWork; Shutdown returns when the worker has ended, whatever it    *)
(* was waiting for.                                                        *)
(***************************************************************************)
EXTENDS Integers, FiniteSets

CONSTANTS
    Events,           \* the events the broker fans out, each once
    Capacity,         \* _maximumPendingEventCount
    MaxRegistrations, \* bound on the number of registrations
    Kinds,            \* the classes to look at: a subset of the three
    MaxSettings,      \* bound on the number of changes of order and arrival policy
    MayFail           \* creating the signal may fail, and a callback may throw

AllKinds == {"EventThread", "EventThreadWithLoop", "PrecisionEventThread"}

ASSUME EventsAssumption == IsFiniteSet(Events)
ASSUME BoundsAssumption ==
    {Capacity, MaxRegistrations, MaxSettings} \subseteq Nat /\ MayFail \in BOOLEAN
ASSUME KindsAssumption == Kinds \subseteq AllKinds

Stoppers == {"owner", "worker", "observer"}

\* PrecisionEventArrivalPolicy.
Arrivals == {"ProcessOnNextIteration", "TriggerImmediateIteration", "ProcessImmediately"}

VARIABLES
    pending,          \* the events in the mailbox
    acceptingPendingEvents,
    eventSignalExists,\* _eventSignal was created
    eventSignal,      \* it was given and not taken yet: WakeForWork of PrecisionThread
    bumped,           \* Bump was called, and no iteration begun since
    workerPC,         \* where the worker is in OnLoop, or Iterate
    bodyDone,         \* the loop body, or OnIteration, has been called
    orderRead,        \* the process order this Iterate has read
    due,              \* what the present sweep has still to take at least
    batch,            \* the events ProcessCollection has taken
    acceptingEvents,  \* _acceptingEvents of EventThread
    stop,             \* where each caller is in StopReceivingEvents
    lifecycle,        \* "alive", "joined" (Shutdown has returned), "destroyed"
    terminated,       \* the base class was told to terminate
    listening,        \* a listener is registered
    client,           \* the route call a registration call has still to make
    registrations,    \* number of registrations so far
    routed,           \* the broker has a record of this receiver
    brokerPC,         \* "idle", "offer" with the receiver in hand, "notify"
    offered,          \* the event that the broker offers: at most one
    unsent,           \* the events the broker has still to fan out
    kind,             \* the class of the worker
    eventsFirst,      \* its process order
    arrival,          \* its arrival policy
    settings          \* number of changes of these so far

mailbox == <<pending, acceptingPendingEvents>>
signal == <<eventSignalExists, eventSignal, bumped>>
iteration == <<bodyDone, orderRead>>
worker == <<workerPC, iteration, due, batch>>
life == <<acceptingEvents, stop, lifecycle, terminated>>
registry == <<listening, client, registrations, routed>>
broker == <<brokerPC, offered, unsent>>
policy == <<kind, eventsFirst, arrival, settings>>
vars == <<mailbox, signal, worker, life, registry, broker, policy>>

Init ==
    /\ pending = {}
    /\ acceptingPendingEvents = TRUE
    /\ eventSignalExists = FALSE
    /\ eventSignal = FALSE
    /\ bumped = FALSE
    /\ workerPC = "loop"
    /\ bodyDone = FALSE
    /\ orderRead = TRUE
    /\ due = {}
    /\ batch = {}
    /\ acceptingEvents = TRUE
    /\ stop = [a \in Stoppers |-> "idle"]
    /\ lifecycle = "alive"
    /\ terminated = FALSE
    /\ listening = FALSE
    /\ client = "idle"
    /\ registrations = 0
    /\ routed = FALSE
    /\ brokerPC = "idle"
    /\ offered = {}
    /\ unsent = Events
    /\ kind \in Kinds
    /\ eventsFirst \in (IF kind = "EventThread" THEN {TRUE} ELSE BOOLEAN)
    /\ arrival \in (IF kind = "PrecisionEventThread" THEN Arrivals
                                                    ELSE {"ProcessOnNextIteration"})
    /\ settings = 0

----------------------------------------------------------------------------
\* The worker: OnLoop or Iterate over and over.

\* EventThread: the base class calls OnLoop again, or finds itself terminated.
BeginLoop ==
    /\ workerPC = "loop"
    /\ kind = "EventThread"
    /\ workerPC' = IF terminated THEN "ended" ELSE "ensure"
    /\ UNCHANGED <<mailbox, signal, iteration, due, batch, life, registry, broker, policy>>

\* Mutant of PrepareToWait: the mailbox is looked at before there is a signal.
LookThenEnsure ==
    \/ /\ workerPC = "ensure"
       /\ workerPC' = IF pending = {} THEN "look" ELSE "sweep"
       /\ UNCHANGED eventSignalExists
    \/ /\ workerPC = "look"
       /\ eventSignalExists' = TRUE
       /\ workerPC' = "wait"

\* EnsureEventSignal, and then GetPendingEventCount decides between Wait(WaitForever)
\* and Wait(0).
PrepareToWait ==
    \/ /\ workerPC = "ensure"
       /\ eventSignalExists' = TRUE
       /\ workerPC' = "look"
    \/ /\ workerPC = "look"
       /\ workerPC' = IF pending = {} THEN "wait" ELSE "poll"
       /\ UNCHANGED eventSignalExists

Prepare ==
    /\ PrepareToWait
    /\ UNCHANGED <<mailbox, eventSignal, bumped, iteration, due, batch, life, registry, broker,
                   policy>>

\* The signal cannot be created: a sleep of 1 ms stands in for the wait.
FailToCreateSignal ==
    /\ MayFail
    /\ workerPC = "ensure"
    /\ ~eventSignalExists
    /\ workerPC' = "sweep"
    /\ due' = pending
    /\ UNCHANGED <<mailbox, signal, iteration, batch, life, registry, broker, policy>>

\* The wait ends, taking the signal: Wait(0) always does, Wait(WaitForever) when
\* the signal has been given.
EndWait ==
    /\ workerPC = "poll" \/ (workerPC = "wait" /\ eventSignal)
    /\ eventSignal' = FALSE
    /\ workerPC' = "sweep"
    /\ due' = pending
    /\ UNCHANGED <<mailbox, eventSignalExists, bumped, iteration, batch, life, registry, broker,
                   policy>>

\* Mutant of AfterThrow: the exception is only passed on.
AfterThrowEnded == "ended"

\* StopReceivingEvents is called before the exception is passed on.
AfterThrow == "stopping"

\* EventThreadWithLoop: OnLoop again.  PrecisionEventThread: Iterate, at its time or because
\* of Bump.
BeginIteration ==
    /\ workerPC = "loop"
    /\ kind # "EventThread"
    /\ workerPC' = IF terminated THEN "ended" ELSE "before"
    /\ bumped' = FALSE
    /\ UNCHANGED <<mailbox, eventSignalExists, eventSignal, iteration, due, batch, life, registry,
                   broker, policy>>

\* PrecisionThread calls it for WakeForWork; no iteration is part of it.
OnWorkWake ==
    /\ workerPC = "loop"
    /\ kind = "PrecisionEventThread"
    /\ eventSignal /\ ~terminated
    /\ eventSignal' = FALSE
    /\ workerPC' = "sweep"
    /\ bodyDone' = TRUE
    /\ due' = pending
    /\ UNCHANGED <<mailbox, eventSignalExists, bumped, orderRead, batch, life, registry, broker,
                   policy>>

\* Before the body and after it, the order decides whether this is where the mailbox is
\* drained.  Iterate reads the order once, under its mutex; OnLoop reads it at either place,
\* without one.
TestOrder ==
    /\ \/ /\ workerPC = "before"
          /\ workerPC' = IF eventsFirst THEN "sweep" ELSE "body"
          /\ orderRead' = eventsFirst
       \/ /\ workerPC = "after"
          /\ workerPC' = IF (IF kind = "PrecisionEventThread" THEN orderRead ELSE eventsFirst)
                         THEN "loop" ELSE "sweep"
          /\ orderRead' = TRUE
    /\ due' = IF workerPC' = "sweep" THEN pending ELSE {}
    /\ bodyDone' = (workerPC' # "loop" /\ bodyDone)
    /\ UNCHANGED <<mailbox, signal, batch, life, registry, broker, policy>>

\* OnThreadLoop or OnIteration, which may throw, too.
RunBody ==
    /\ workerPC = "body"
    /\ \/ workerPC' = "after"
       \/ MayFail /\ workerPC' = AfterThrow
    /\ bodyDone' = TRUE
    /\ UNCHANGED <<mailbox, signal, orderRead, due, batch, life, registry, broker, policy>>

\* ProcessCollection takes what one of the six collections holds.
TakeBatch ==
    /\ workerPC = "sweep"
    /\ \E S \in (SUBSET pending) \ {{}} :
        /\ batch' = S
        /\ pending' = pending \ S
        /\ due' = due \ S
    /\ workerPC' = "batch"
    /\ UNCHANGED <<acceptingPendingEvents, signal, iteration, life, registry, broker, policy>>

\* OnEvent has returned for all of them.
FinishBatch ==
    /\ workerPC = "batch"
    /\ batch' = {}
    /\ workerPC' = "sweep"
    /\ UNCHANGED <<mailbox, signal, iteration, due, life, registry, broker, policy>>

\* A callback throws; the rest of the batch is released unprocessed, by OnEvent only
\* after its StopReceivingEvents.
ThrowFromCallback ==
    /\ MayFail
    /\ workerPC = "batch"
    /\ batch' = IF kind = "EventThread" THEN batch ELSE {}
    /\ due' = {}
    /\ workerPC' = AfterThrow
    /\ UNCHANGED <<mailbox, signal, iteration, life, registry, broker, policy>>

\* What was due is gone: taken, or cleared by a stop.  On to the body, or to the base class.
EndSweep ==
    /\ workerPC = "sweep"
    /\ due \cap pending = {}
    /\ due' = {}
    /\ workerPC' = IF kind = "EventThread" \/ bodyDone THEN "loop" ELSE "body"
    /\ bodyDone' = FALSE
    /\ UNCHANGED <<mailbox, signal, orderRead, batch, life, registry, broker, policy>>

----------------------------------------------------------------------------
\* StopReceivingEvents, called by the owner (Terminate, or the destructor), by the worker
\* after an exception, and, of a PrecisionEventThread, by the lifecycle observer once the
\* worker has ended.  Each stage takes a lock of its own.

\* Mutant of NextStage: the mailbox is cleared before it stops accepting.
ClearsFirst ==
    [begin |-> "clear", clear |-> "stopAccepting", stopAccepting |-> "unregister",
     unregister |-> "unroute", unroute |-> "stopped"]

\* The order of its stages.
NextStage ==
    [begin |-> "stopAccepting", stopAccepting |-> "unregister", unregister |-> "unroute",
     unroute |-> "clear", clear |-> "stopped"]

\* The exchange on _acceptingEvents: all but the first call return at once.
BeginStop(a) ==
    /\ stop[a] = "idle"
    /\ CASE a = "owner" -> lifecycle # "destroyed"
         [] a = "worker" -> workerPC = "stopping"
         [] a = "observer" -> kind = "PrecisionEventThread" /\ workerPC = "ended"
                                /\ lifecycle # "destroyed"
    /\ acceptingEvents' = FALSE
    /\ stop' = [stop EXCEPT ![a] = IF acceptingEvents THEN NextStage["begin"] ELSE "stopped"]
    /\ UNCHANGED <<mailbox, signal, worker, lifecycle, terminated, registry, broker, policy>>

\* A stage does its part and goes on to the next one.
Stage(a, stage) ==
    /\ stop[a] = stage
    /\ stop' = [stop EXCEPT ![a] = NextStage[stage]]
    /\ UNCHANGED <<signal, worker, acceptingEvents, lifecycle, terminated, client,
                   registrations, broker, policy>>

StopAcceptingEvents(a) ==
    /\ Stage(a, "stopAccepting")
    /\ acceptingPendingEvents' = FALSE
    /\ UNCHANGED <<pending, listening, routed>>

\* UnregisterAllListeners asks for the route to go only if a listener was active.
UnregisterAllListeners(a) ==
    /\ stop[a] = "unregister"
    /\ listening' = FALSE
    /\ stop' = [stop EXCEPT ![a] =
           IF listening THEN "unroute" ELSE NextStage["unroute"]]
    /\ UNCHANGED <<mailbox, signal, worker, acceptingEvents, lifecycle, terminated,
                   client, registrations, routed, broker, policy>>

OnListenerUnregistered(a) ==
    /\ Stage(a, "unroute")
    /\ routed' = FALSE
    /\ UNCHANGED <<mailbox, listening>>

ClearPendingEvents(a) ==
    /\ Stage(a, "clear")
    /\ pending' = {}
    /\ UNCHANGED <<acceptingPendingEvents, listening, routed>>

\* StopReceivingEvents returns: Terminate goes on to the base class, OnEvent throws.
EndStop(a) ==
    /\ stop[a] = "stopped"
    /\ stop' = [stop EXCEPT ![a] = "done"]
    /\ terminated' = (terminated \/ a = "owner")
    /\ IF a = "worker" THEN workerPC' = "ended" /\ batch' = {}
                       ELSE UNCHANGED <<workerPC, batch>>
    /\ UNCHANGED <<mailbox, signal, iteration, due, acceptingEvents, lifecycle, registry,
                   broker, policy>>

----------------------------------------------------------------------------
\* The destructor: Shutdown, StopReceivingEvents (the stages above), and then the
\* destructors of the bases.  None of its callers is inside the object any more
\* but the broker, which the owner cannot see.

Shutdown ==
    /\ lifecycle = "alive"
    /\ \A a \in Stoppers : stop[a] \in {"idle", "done"}
    /\ client = "idle"
    /\ workerPC \in {"loop", "look", "wait", "before", "after", "ended"}
    /\ lifecycle' = "joined"
    /\ workerPC' = "ended"
    /\ UNCHANGED <<mailbox, signal, iteration, due, batch, acceptingEvents, stop, terminated,
                   registry, broker, policy>>

\* The bases: ~EventListener finds OnListenerUnregistered its own empty one, and
\* ~EventReceiver stops and clears.
Destroy ==
    /\ lifecycle = "joined"
    /\ stop["owner"] = "done"
    /\ stop["observer"] \in {"idle", "done"}
    /\ lifecycle' = "destroyed"
    /\ acceptingPendingEvents' = FALSE
    /\ pending' = {}
    /\ listening' = FALSE
    /\ UNCHANGED <<signal, worker, acceptingEvents, stop, terminated, client,
                   registrations, routed, broker, policy>>

----------------------------------------------------------------------------
\* A client registers a listener or unregisters it, before or after the stop: the
\* registry does not ask whether its thread is stopped.

RegisterListener ==
    /\ lifecycle = "alive"
    /\ client = "idle"
    /\ ~listening
    /\ registrations < MaxRegistrations
    /\ listening' = TRUE
    /\ client' = "route"
    /\ registrations' = registrations + 1
    /\ UNCHANGED <<mailbox, signal, worker, life, routed, broker, policy>>

UnregisterListener ==
    /\ lifecycle = "alive"
    /\ client = "idle"
    /\ listening
    /\ listening' = FALSE
    /\ client' = "unroute"
    /\ UNCHANGED <<mailbox, signal, worker, life, registrations, routed, broker, policy>>

\* OnListenerRegistered or OnListenerUnregistered, after the registry has unlocked.
CallDispatcher ==
    /\ client # "idle"
    /\ routed' = (client = "route")
    /\ client' = "idle"
    /\ UNCHANGED <<mailbox, signal, worker, life, listening, registrations, broker, policy>>

\* SetProcessOrder, or SetEventProcessOrder and SetEventArrivalPolicy.
SetPolicy ==
    /\ lifecycle = "alive"
    /\ settings < MaxSettings
    /\ settings' = settings + 1
    /\ \/ kind # "EventThread" /\ eventsFirst' \in BOOLEAN /\ UNCHANGED arrival
       \/ kind = "PrecisionEventThread" /\ arrival' \in Arrivals /\ UNCHANGED eventsFirst
    /\ UNCHANGED <<mailbox, signal, worker, life, registry, broker, kind>>

----------------------------------------------------------------------------
\* The broker fans out.  It looks the receiver up under its lock and calls it after;
\* a call on a destroyed receiver has no defined outcome, and the model ends there.

LookUpReceiver(e) ==
    /\ brokerPC = "idle"
    /\ e \in unsent
    /\ unsent' = unsent \ {e}
    /\ IF routed THEN brokerPC' = "offer" /\ offered' = {e}
                 ELSE UNCHANGED <<brokerPC, offered>>
    /\ UNCHANGED <<mailbox, signal, worker, life, registry, policy>>

Retained == Cardinality(pending) + Cardinality(batch)

\* Mutant of HasRoom: the events in the callbacks' hands do not count.
HasRoomInCollections == Cardinality(pending) < Capacity

\* AddEvent's capacity check.
HasRoom == Retained < Capacity

\* What the overflow policy may take out for an event: with room nothing, without room
\* any one event that is still pending.
Evictions == IF HasRoom THEN {{}} ELSE {{e} : e \in pending}

Admit(evicted) ==
    /\ acceptingPendingEvents
    /\ evicted \in Evictions
    /\ pending' = (pending \ evicted) \cup offered
    /\ due' = due \ evicted
    /\ brokerPC' = "notify"

Refuse ==
    /\ ~acceptingPendingEvents \/ ~HasRoom
    /\ brokerPC' = "idle"
    /\ UNCHANGED <<pending, due>>

\* TryQueueEvent: never waits.
TryQueueEvent ==
    /\ brokerPC = "offer"
    /\ lifecycle # "destroyed"
    /\ (\E evicted \in SUBSET pending : Admit(evicted)) \/ Refuse
    /\ offered' = {}
    /\ UNCHANGED <<acceptingPendingEvents, signal, workerPC, iteration, batch, life, registry,
                   unsent, policy>>

\* EventAdded.  EventThread gives the signal if there is one yet, EventThreadWithLoop does
\* nothing, PrecisionEventThread follows its arrival policy.
EventAdded ==
    /\ brokerPC = "notify"
    /\ lifecycle # "destroyed"
    /\ eventSignal' = \/ eventSignal
                      \/ kind = "EventThread" /\ eventSignalExists
                      \/ arrival = "ProcessImmediately"
    /\ bumped' = (bumped \/ arrival = "TriggerImmediateIteration")
    /\ brokerPC' = "idle"
    /\ UNCHANGED <<mailbox, eventSignalExists, worker, life, registry, offered, unsent, policy>>

----------------------------------------------------------------------------
WorkerStep ==
    \/ BeginLoop
    \/ Prepare
    \/ FailToCreateSignal
    \/ EndWait
    \/ BeginIteration
    \/ OnWorkWake
    \/ TestOrder
    \/ RunBody
    \/ TakeBatch
    \/ FinishBatch
    \/ ThrowFromCallback
    \/ EndSweep

StopStep(a) ==
    \/ StopAcceptingEvents(a)
    \/ UnregisterAllListeners(a)
    \/ OnListenerUnregistered(a)
    \/ ClearPendingEvents(a)
    \/ EndStop(a)

BrokerStep ==
    \/ \E e \in Events : LookUpReceiver(e)
    \/ TryQueueEvent
    \/ EventAdded

ClientStep == RegisterListener \/ UnregisterListener \/ CallDispatcher

Next ==
    \/ WorkerStep
    \/ \E a \in Stoppers : BeginStop(a) \/ StopStep(a)
    \/ Shutdown
    \/ Destroy
    \/ ClientStep
    \/ SetPolicy
    \/ BrokerStep

Spec == Init /\ [][Next]_vars

\* A worker inside OnLoop or Iterate is scheduled, its callbacks end, Thread calls OnLoop
\* again, and PrecisionThread answers Bump and WakeForWork; that it iterates of itself is
\* assumed where a property says so.  A stop that began, and a call of EventAdded that is
\* due, are carried out; a joined thread's destructor goes on.
Fairness ==
    /\ WF_vars(workerPC # "loop" /\ WorkerStep)
    /\ WF_vars(BeginLoop)
    /\ WF_vars((kind = "EventThreadWithLoop" \/ bumped) /\ BeginIteration)
    /\ WF_vars(OnWorkWake)
    /\ WF_vars(BeginStop("worker"))
    /\ \A a \in Stoppers : WF_vars(StopStep(a))
    /\ WF_vars(lifecycle = "joined" /\ BeginStop("owner"))
    /\ WF_vars(EventAdded)

FairSpec == Spec /\ Fairness

----------------------------------------------------------------------------
\* Properties.

Types ==
    /\ {pending, due, batch, offered, unsent} \subseteq SUBSET Events
    /\ {acceptingPendingEvents, eventSignalExists, eventSignal, bumped} \subseteq BOOLEAN
    /\ {bodyDone, orderRead, eventsFirst} \subseteq BOOLEAN
    /\ {acceptingEvents, terminated, listening, routed} \subseteq BOOLEAN
    /\ workerPC \in {"loop", "ensure", "look", "wait", "poll", "sweep", "batch", "before",
                     "body", "after", "stopping", "ended"}
    /\ stop \in [Stoppers -> {"idle", "stopAccepting", "unregister", "unroute", "clear",
                              "stopped", "done"}]
    /\ lifecycle \in {"alive", "joined", "destroyed"}
    /\ client \in {"idle", "route", "unroute"}
    /\ registrations \in 0 .. MaxRegistrations
    /\ brokerPC \in {"idle", "offer", "notify"}
    /\ kind \in AllKinds
    /\ arrival \in Arrivals
    /\ settings \in 0 .. MaxSettings

\* Type invariant: every variable has its type, and the events retained, those in
\* the callbacks' hands included, respect the maximum of AddEvent.
TypeOK == Types /\ Retained <= Capacity

\* The worker never sleeps on a mailbox that holds something unless the signal that
\* wakes it has been given or EventAdded, which gives it, is about to be called:
\* although the signal is created late, no wake-up is lost.
NoLostWakeup ==
    workerPC = "wait" /\ pending # {} =>
        eventSignalExists /\ (eventSignal \/ brokerPC = "notify")

\* Once StopReceivingEvents has run to its end, the mailbox is empty and stays so,
\* whatever the broker was about to hand over.
StoppedStaysEmpty ==
    ~acceptingEvents /\ (\A a \in Stoppers : stop[a] \in {"idle", "stopped", "done"})
        => pending = {}

\* Everything the mailbox admits leaves it again: processed, or cleared by a stop, even when
\* the worker has died of an exception.  A PrecisionEventThread that leaves its events to the
\* next iteration needs iterations; with the other two arrival policies it does not.
EventsSettle ==
    \/ WF_vars(BeginIteration)
    \/ [](kind = "PrecisionEventThread" => arrival # "ProcessOnNextIteration")
    => \A e \in Events : e \in pending ~> e \notin pending

\* "Fixed EventManager routing lifetime and dangling receiver risks" (CHANGELOG.md):
\* the broker neither keeps a route to a destroyed thread nor is about to call it.
NoDanglingReceiver ==
    lifecycle = "destroyed" => ~routed /\ brokerPC = "idle"

============================================================================
