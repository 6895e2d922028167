------------------------ MODULE EventTransportManager ------------------------
(***************************************************************************)
(* How src/src/ESPressio_EventTransportManager.hpp moves events: packets   *)
(* from the transports through its inbound queue to the broker, events of  *)
(* the broker through its mailbox and its outbound executor to the         *)
(* transports, one loop that serves both, and the owner that initializes,  *)
(* starts and shuts all of it down, with the failures that may meet.       *)
(*                                                                         *)
(* One event type, whose routes any other thread may change at any time    *)
(* (EventTransportRouting has the registry itself) and whose subscription  *)
(* stands.  The mailbox is what EventReceiver promises, as in EventThread. *)
(* Of the inbound queue the length is kept.  An event stands for one       *)
(* publication at a time, and, once nothing holds it any more, for the     *)
(* next new one: to publish a live event again would add a second          *)
(* reference of the same kind in the same places.  External are the        *)
(* broker, which offers events of both origins, the base Thread, which     *)
(* calls OnLoop until it throws, and the TaskExecutor: a bounded queue and *)
(* one worker, whose Stop joins the worker and releases the queue.         *)
(* Observers and statistics are left out.                                  *)
(***************************************************************************)
EXTENDS Integers, Sequences, FiniteSets

CONSTANTS
    Locals,      \* events published by the application
    Remotes,     \* events built of packets
    Transports,
    Capacity,    \* of the mailbox
    Collections, \* how many a sweep of it goes through: six in the code
    MaxInbound,  \* ESPRESSIO_EVENT_TRANSPORT_MAX_PENDING_INBOUND
    QueueDepth,  \* of the executor
    PendingOutbound, \* options of an unregistration: subset of {"Complete", "Discard"}
    MayFail,     \* initializing or starting the executor or the thread may fail,
                 \* and deserializing a packet or admitting its event throw
    MaxCalls,    \* bound on the owner's calls
    MaxReroutes  \* bound on the changes of routes

ASSUME EventsAssumption == IsFiniteSet(Locals \cup Remotes) /\ Locals \cap Remotes = {}
ASSUME BoundsAssumption ==
    /\ {Capacity, Collections, MaxInbound, QueueDepth, MaxCalls, MaxReroutes} \subseteq Nat
    /\ MayFail \in BOOLEAN

Events == Locals \cup Remotes

VARIABLES
    pending,        \* the events in the mailbox
    due,            \* those that the present sweep will take at least
    left,           \* number of collections it has still to go through
    batch,          \* those in the hands of its callbacks
    loopPC,         \* where OnLoop is
    inHand,         \* the event being submitted
    didWork,
    workSignal,     \* it was given and not taken yet
    inbound,        \* number of packets in _inbound
    arrivalPC,      \* where a call of ReceiveEventTransportPacket is
    atBroker,       \* events waiting in the broker
    offered,        \* the event the broker offers to this manager
    brokerPC,
    refs,           \* reference count of every event
    remote,         \* events whose dispatch context has a remote origin
    executor,       \* "none", "initialized", "started", "stopping"
    queue,          \* the executor's
    sending,        \* the event its worker is at
    targets,        \* _outboundTargets
    workerPC,
    executorInitialized,
    executorReady,
    initialized,
    thread,         \* "none", "initialized", "running"; loopPC says when it has ended
    ownerPC,
    starting,       \* Initialize was called by Start; wasInitialized in Shutdown
    calls,
    routed,         \* the broker has a record of this receiver
    admitting,      \* registered transports the type may come in from
    outbound,       \* and go out to
    reroutes,
    promised        \* history: pending events whose unregistration is to complete them

mailbox == <<pending, due, left, batch>>
loop == <<loopPC, inHand, didWork>>
broker == <<atBroker, offered, brokerPC>>
events == <<refs, remote>>
worker == <<sending, targets, workerPC>>
flags == <<executorInitialized, executorReady, initialized>>
owner == <<thread, ownerPC, starting, calls>>
routes == <<admitting, outbound, reroutes, promised>>
vars == <<mailbox, loop, workSignal, inbound, arrivalPC, broker, events, executor, queue,
          worker, flags, owner, routed, routes>>

Queued == {queue[i] : i \in DOMAIN queue}

Unref(S) == [e \in Events |-> IF e \in S THEN refs[e] - 1 ELSE refs[e]]
Ref(S) == [e \in Events |-> IF e \in S THEN refs[e] + 1 ELSE refs[e]]

Init ==
    /\ pending = {} /\ due = {} /\ left = 0 /\ batch = {} /\ inHand = {}
    /\ atBroker = {} /\ offered = {} /\ remote = {} /\ sending = {} /\ targets = {}
    /\ admitting = {} /\ outbound = {}
    /\ promised = {}
    /\ inbound = 0 /\ queue = <<>>
    /\ loopPC = "look" /\ didWork = FALSE /\ workSignal = FALSE
    /\ arrivalPC = "idle" /\ brokerPC = "idle" /\ workerPC = "idle" /\ ownerPC = "idle"
    /\ refs = [e \in Events |-> 0]
    /\ executor = "none" /\ thread = "none"
    /\ executorInitialized = FALSE /\ executorReady = FALSE /\ initialized = FALSE
    /\ starting = FALSE /\ routed = FALSE
    /\ calls = 0 /\ reroutes = 0

----------------------------------------------------------------------------
\* Packets arrive: ReceiveEventTransportPacket, in a transport's thread.

\* The unlocked test of IsInitialized.
ReceivePacket ==
    /\ arrivalPC = "idle"
    /\ initialized
    /\ arrivalPC' = "received"
    /\ UNCHANGED <<mailbox, loop, workSignal, inbound, broker, events, executor, queue,
                   worker, flags, owner, routed, routes>>

\* Mutant of Accepts: the limit of the queue is exceeded by one.
AcceptsOneMore(t) == t \in admitting /\ inbound <= MaxInbound

\* A packet from t is queued; otherwise it is rejected.
Accepts(t) == t \in admitting /\ inbound < MaxInbound

\* Mutant of QueueAndWake: the loop is woken before the packet is there.
WakeAndQueue ==
    \/ /\ arrivalPC = "received"
       /\ arrivalPC' = "notify"
       /\ workSignal' = TRUE
       /\ UNCHANGED inbound
    \/ /\ arrivalPC = "notify"
       /\ arrivalPC' = "idle"
       /\ \E t \in Transports : inbound' = IF Accepts(t) THEN inbound + 1 ELSE inbound
       /\ UNCHANGED workSignal

\* The section under the lock, and, if the packet was queued, Wake after it.
QueueAndWake ==
    \/ /\ arrivalPC = "received"
       /\ \E t \in Transports :
            IF Accepts(t) THEN inbound' = inbound + 1 /\ arrivalPC' = "notify"
                          ELSE arrivalPC' = "idle" /\ UNCHANGED inbound
       /\ UNCHANGED workSignal
    \/ /\ arrivalPC = "notify"
       /\ workSignal' = TRUE
       /\ arrivalPC' = "idle"
       /\ UNCHANGED inbound

ArrivalStep ==
    /\ QueueAndWake
    /\ UNCHANGED <<mailbox, loop, broker, events, executor, queue, worker, flags, owner,
                   routed, routes>>

----------------------------------------------------------------------------
\* The broker: publishes, looks this receiver up under its lock, offers after it.

\* A new event: at most one publication of it is under way.
Publish(e) ==
    /\ refs[e] = 0
    /\ atBroker' = atBroker \cup {e}
    /\ refs' = Ref({e})
    /\ UNCHANGED <<mailbox, loop, workSignal, inbound, arrivalPC, offered, brokerPC, remote,
                   executor, queue, worker, flags, owner, routed, routes>>

LookUpReceiver(e) ==
    /\ brokerPC = "idle"
    /\ e \in atBroker
    /\ atBroker' = atBroker \ {e}
    /\ IF routed THEN brokerPC' = "offer" /\ offered' = {e} /\ UNCHANGED refs
                 ELSE refs' = Unref({e}) /\ UNCHANGED <<brokerPC, offered>>
    /\ UNCHANGED <<mailbox, loop, workSignal, inbound, arrivalPC, remote, executor, queue,
                   worker, flags, owner, routed, routes>>

\* AddEvent; RejectIncoming is the policy.  The broker drops its reference once it
\* has offered the event, here with the last step of that.
TryQueueEvent ==
    /\ brokerPC = "offer"
    /\ IF Cardinality(pending) + Cardinality(batch) < Capacity
       THEN /\ pending' = pending \cup offered
            /\ refs' = Ref(offered)
            /\ brokerPC' = "notify"
            /\ UNCHANGED offered
       ELSE refs' = Unref(offered) /\ offered' = {} /\ brokerPC' = "idle" /\ UNCHANGED pending
    /\ UNCHANGED <<due, left, batch, loop, workSignal, inbound, arrivalPC, atBroker, remote,
                   executor, queue, worker, flags, owner, routed, routes>>

\* EventAdded.
Wake ==
    /\ brokerPC = "notify"
    /\ workSignal' = TRUE
    /\ refs' = Unref(offered)
    /\ offered' = {}
    /\ brokerPC' = "idle"
    /\ UNCHANGED <<mailbox, loop, inbound, arrivalPC, atBroker, remote, executor, queue,
                   worker, flags, owner, routed, routes>>

BrokerStep ==
    \/ \E e \in Events : LookUpReceiver(e)
    \/ TryQueueEvent
    \/ Wake

----------------------------------------------------------------------------
\* OnLoop.

\* HasPendingWork: the mailbox first, then, under the lock, the inbound queue.
HasPendingWork ==
    /\ thread = "running"
    /\ \/ /\ loopPC = "look"
          /\ loopPC' = IF pending # {} THEN "poll" ELSE "lookInbound"
       \/ /\ loopPC = "lookInbound"
          /\ loopPC' = IF inbound > 0 THEN "poll" ELSE "wait"
    /\ UNCHANGED <<mailbox, inHand, didWork, workSignal, inbound, arrivalPC, broker, events,
                   executor, queue, worker, flags, owner, routed, routes>>

EndWait ==
    /\ loopPC = "poll" \/ (loopPC = "wait" /\ workSignal)
    /\ workSignal' = FALSE
    /\ loopPC' = "inbound"
    /\ didWork' = FALSE
    /\ UNCHANGED <<mailbox, inHand, inbound, arrivalPC, broker, events, executor, queue,
                   worker, flags, owner, routed, routes>>

PopInbound ==
    /\ loopPC = "inbound"
    /\ IF inbound = 0
       THEN loopPC' = "outbound" /\ UNCHANGED <<inbound, didWork>>
       ELSE inbound' = inbound - 1 /\ didWork' = TRUE /\ loopPC' = "process"
    /\ UNCHANGED <<mailbox, inHand, workSignal, arrivalPC, broker, events, executor, queue,
                   worker, flags, owner, routed, routes>>

\* Mutant of AfterInbound: all the packets are served before any event.
AllInboundFirst == "inbound"

\* "Always service one inbound packet, then one bounded snapshot".
AfterInbound == "outbound"

\* Mutant of WithContext: the event keeps the origin it was constructed with.
WithoutContext(e) == remote \ {e}

\* __setDispatchContext on a new event.
WithContext(e) == remote \cup {e}

\* ProcessInbound: an event with a remote origin goes to the broker; or the packet cannot be
\* made into an event, or the broker refuses it and thereby deletes it; or one of the two
\* throws, which leaves nothing of the event either, and ends OnLoop and its thread.
ProcessInbound ==
    /\ loopPC = "process"
    /\ \/ /\ \E e \in Remotes :
                /\ refs[e] = 0
                /\ remote' = WithContext(e)
                /\ atBroker' = atBroker \cup {e}
                /\ refs' = Ref({e})
          /\ loopPC' = AfterInbound
       \/ loopPC' = AfterInbound /\ UNCHANGED <<remote, atBroker, refs>>
       \/ MayFail /\ loopPC' = "ended" /\ UNCHANGED <<remote, atBroker, refs>>
    /\ UNCHANGED <<mailbox, inHand, didWork, workSignal, inbound, arrivalPC, offered,
                   brokerPC, executor, queue, worker, flags, owner, routed, routes>>

\* After the packet, if there was one: a sweep, another round, or back to the wait.
BeginSweep ==
    /\ loopPC = "outbound"
    /\ IF pending # {}
       THEN /\ loopPC' = "sweep"
            /\ due' = pending /\ left' = Collections
            /\ UNCHANGED didWork
       ELSE /\ loopPC' = IF didWork THEN "inbound" ELSE "look"
            /\ didWork' = FALSE
            /\ UNCHANGED <<due, left>>
    /\ UNCHANGED <<pending, batch, inHand, workSignal, inbound, arrivalPC, broker, events,
                   executor, queue, worker, flags, owner, routed, routes>>

\* The next collection, empty perhaps; what was there at first is in one of them.
TakeBatch ==
    /\ loopPC = "sweep"
    /\ batch = {}
    /\ left > 0
    /\ left' = left - 1
    /\ \E S \in SUBSET pending :
        /\ left' = 0 => due \subseteq S
        /\ batch' = S
        /\ pending' = pending \ S
        /\ due' = due \ S
    /\ UNCHANGED <<loop, workSignal, inbound, arrivalPC, broker, events, executor, queue,
                   worker, flags, owner, routed, routes>>

\* SubmitOutboundEvent tests the flag: the event is dropped, or goes on to Submit.
SubmitOutboundEvent(e) ==
    /\ loopPC = "sweep"
    /\ e \in batch
    /\ IF executorReady
       THEN inHand' = {e} /\ loopPC' = "submit" /\ UNCHANGED <<batch, refs>>
       ELSE batch' = batch \ {e} /\ refs' = Unref({e}) /\ UNCHANGED <<inHand, loopPC>>
    /\ UNCHANGED <<pending, due, left, didWork, workSignal, inbound, arrivalPC, broker, remote,
                   executor, queue, worker, flags, owner, routed, routes>>

\* Mutant of Refused: the reference for the executor stays when it refuses.
RefusedKept == refs

\* The executor refuses: its reference is taken back, and then the batch's.
Refused == Unref(inHand)

\* An executor that was stopped since then, or is full, refuses.  One that accepts
\* holds a reference of its own, instead of the batch's.
Submit ==
    /\ loopPC = "submit"
    /\ IF executor = "started" /\ Len(queue) < QueueDepth
       THEN (\E e \in inHand : queue' = Append(queue, e)) /\ UNCHANGED refs
       ELSE refs' = Refused /\ UNCHANGED queue
    /\ batch' = batch \ inHand
    /\ inHand' = {}
    /\ loopPC' = "sweep"
    /\ UNCHANGED <<pending, due, left, didWork, workSignal, inbound, arrivalPC, broker, remote,
                   executor, worker, flags, owner, routed, routes>>

\* The snapshot counts as work.
EndSweep ==
    /\ loopPC = "sweep"
    /\ left = 0 /\ batch = {}
    /\ loopPC' = "inbound"
    /\ didWork' = FALSE
    /\ UNCHANGED <<mailbox, inHand, workSignal, inbound, arrivalPC, broker, events, executor,
                   queue, worker, flags, owner, routed, routes>>

LoopStep ==
    \/ HasPendingWork
    \/ EndWait
    \/ PopInbound
    \/ ProcessInbound
    \/ BeginSweep
    \/ TakeBatch
    \/ \E e \in Events : SubmitOutboundEvent(e)
    \/ Submit
    \/ EndSweep

----------------------------------------------------------------------------
\* The executor's worker: ProcessOutboundWork.

TakeWork ==
    /\ workerPC = "idle"
    /\ executor = "started"
    /\ queue # <<>>
    /\ sending' = {Head(queue)}
    /\ queue' = Tail(queue)
    /\ workerPC' = "collect"
    /\ UNCHANGED <<mailbox, loop, workSignal, inbound, arrivalPC, broker, events, executor,
                   targets, flags, owner, routed, routes>>

ReleaseWork(e) ==
    /\ refs' = Unref({e})
    /\ promised' = promised \ {e}

\* An event of remote origin, or without a transport to go to, is dropped.
CollectTargets(e) ==
    /\ workerPC = "collect"
    /\ e \in sending
    /\ IF e \in remote \/ outbound = {}
       THEN ReleaseWork(e) /\ sending' = {} /\ workerPC' = "idle" /\ UNCHANGED targets
       ELSE /\ targets' = outbound
            /\ workerPC' = "serialize"
            /\ UNCHANGED <<sending, refs, promised>>
    /\ UNCHANGED <<mailbox, loop, workSignal, inbound, arrivalPC, broker, remote, executor,
                   queue, flags, owner, routed, admitting, outbound, reroutes>>

\* The event goes: it cannot be serialized, or the packet is all that is needed now.
SerializeEvent(e) ==
    /\ workerPC = "serialize"
    /\ e \in sending
    /\ ReleaseWork(e)
    /\ \/ workerPC' = "send" /\ UNCHANGED <<sending, targets>>
       \/ workerPC' = "idle" /\ sending' = {} /\ targets' = {}
    /\ UNCHANGED <<mailbox, loop, workSignal, inbound, arrivalPC, broker, remote, executor,
                   queue, flags, owner, routed, admitting, outbound, reroutes>>

\* Send to one target after the other, registered still or not.
Send(t) ==
    /\ workerPC = "send"
    /\ t \in targets
    /\ targets' = targets \ {t}
    /\ IF targets' = {} THEN workerPC' = "idle" /\ sending' = {}
                        ELSE UNCHANGED <<workerPC, sending>>
    /\ UNCHANGED <<mailbox, loop, workSignal, inbound, arrivalPC, broker, events, executor,
                   queue, flags, owner, routed, routes>>

WorkerStep ==
    \/ TakeWork
    \/ \E e \in Events : CollectTargets(e) \/ SerializeEvent(e)
    \/ \E t \in Transports : Send(t)

----------------------------------------------------------------------------
\* The owner: Initialize, Start and Shutdown.

OwnerAt(pc, next) ==
    /\ ownerPC = pc
    /\ ownerPC' = next

OwnerCalls(next) ==
    /\ OwnerAt("idle", next)
    /\ calls < MaxCalls
    /\ calls' = calls + 1

\* What no step of the owner but the last ones of a stop touches.
Elsewhere == <<loop, workSignal, arrivalPC, broker, remote, left, batch, worker>>

\* Start, or Initialize alone; Initialize of an initialized manager does nothing.
BeginStart ==
    /\ \E byStart \in BOOLEAN :
        /\ byStart \/ ~initialized
        /\ starting' = byStart
        /\ OwnerCalls(IF initialized THEN "startExecutor" ELSE "initializeExecutor")
    /\ UNCHANGED <<Elsewhere, pending, due, inbound, refs, executor, queue, flags, thread,
                   routed, routes>>

InitializeExecutor ==
    /\ \/ /\ executorInitialized \/ MayFail
          /\ OwnerAt("initializeExecutor",
                     IF executorInitialized THEN "initializeThread" ELSE "idle")
          /\ UNCHANGED <<executor, executorInitialized>>
       \/ /\ ~executorInitialized
          /\ OwnerAt("initializeExecutor", "initializeThread")
          /\ executor' = IF executor = "none" THEN "initialized" ELSE executor
          /\ executorInitialized' = TRUE
    /\ UNCHANGED <<Elsewhere, pending, due, inbound, refs, queue, executorReady, initialized,
                   thread, starting, calls, routed, routes>>

\* AlreadyInitialized is a success.
InitializeThread ==
    /\ \/ /\ MayFail /\ thread = "none"
          /\ OwnerAt("initializeThread", "abort")
          /\ UNCHANGED thread
       \/ /\ OwnerAt("initializeThread", "setInitialized")
          /\ thread' = IF thread = "none" THEN "initialized" ELSE thread
    /\ UNCHANGED <<Elsewhere, pending, due, inbound, refs, executor, queue, flags, starting,
                   calls, routed, routes>>

\* Under the lock; RegisterReceiver comes after it.
SetInitialized ==
    /\ OwnerAt("setInitialized", "route")
    /\ initialized' = TRUE
    /\ UNCHANGED <<Elsewhere, pending, due, inbound, refs, executor, queue,
                   executorInitialized, executorReady, thread, starting, calls, routed, routes>>

RegisterReceiver ==
    /\ OwnerAt("route", IF starting THEN "startExecutor" ELSE "idle")
    /\ routed' = TRUE
    /\ UNCHANGED <<Elsewhere, pending, due, inbound, refs, executor, queue, flags, thread,
                   starting, calls, routes>>

\* An executor that is not initialized cannot be started.
StartExecutor ==
    /\ \/ /\ executorReady
          /\ OwnerAt("startExecutor", "startThread")
          /\ UNCHANGED <<executor, executorReady>>
       \/ /\ ~executorReady /\ executor # "none"
          /\ OwnerAt("startExecutor", "startThread")
          /\ executor' = "started"
          /\ executorReady' = TRUE
       \/ /\ ~executorReady /\ (MayFail \/ executor = "none")
          /\ OwnerAt("startExecutor", "idle")
          /\ UNCHANGED <<executor, executorReady>>
    /\ UNCHANGED <<Elsewhere, pending, due, inbound, refs, queue, executorInitialized,
                   initialized, thread, starting, calls, routed, routes>>

StartThread ==
    /\ \/ /\ OwnerAt("startThread", "idle")
          /\ thread' = "running"
          /\ UNCHANGED executorReady
       \/ /\ MayFail /\ thread # "running"
          /\ OwnerAt("startThread", "abort")
          /\ executorReady' = FALSE
          /\ UNCHANGED thread
    /\ UNCHANGED <<Elsewhere, pending, due, inbound, refs, executor, queue,
                   executorInitialized, initialized, starting, calls, routed, routes>>

\* Shutdown: the exchange, which comes before the lock is taken.
BeginShutdown ==
    /\ OwnerCalls("lock")
    /\ initialized' = FALSE
    /\ starting' = initialized
    /\ UNCHANGED <<Elsewhere, pending, due, inbound, refs, executor, queue,
                   executorInitialized, executorReady, thread, routed, routes>>

\* The early return is for a manager that has neither been initialized nor transports.
ShutdownLocked ==
    /\ \/ /\ ~starting /\ admitting \cup outbound = {}
          /\ OwnerAt("lock", "idle")
          /\ UNCHANGED <<inbound, admitting, outbound>>
       \/ /\ OwnerAt("lock", "unready")
          /\ inbound' = 0
          /\ admitting' = {} /\ outbound' = {}
    /\ UNCHANGED <<Elsewhere, pending, due, refs, executor, queue, flags, thread, starting,
                   calls, routed, reroutes, promised>>

ExecutorNotReady ==
    /\ OwnerAt("unready", "unroute")
    /\ executorReady' = FALSE
    /\ UNCHANGED <<Elsewhere, pending, due, inbound, refs, executor, queue,
                   executorInitialized, initialized, thread, starting, calls, routed, routes>>

UnregisterReceiver ==
    /\ OwnerAt("unroute", "clear")
    /\ routed' = FALSE
    /\ UNCHANGED <<Elsewhere, pending, due, inbound, refs, executor, queue, flags, thread,
                   starting, calls, routes>>

\* The mailbox goes on accepting: what the broker has in hand may still be added.
ClearPendingEvents ==
    /\ OwnerAt("clear", "abort")
    /\ refs' = Unref(pending)
    /\ pending' = {} /\ due' = {}
    /\ UNCHANGED <<Elsewhere, inbound, executor, queue, flags, thread, starting, calls,
                   routed, routes>>

\* _outboundExecutor.Stop, where Shutdown and the two failures end.
StopExecutor ==
    /\ OwnerAt("abort", "join")
    /\ executor' = IF executor = "none" THEN "none" ELSE "stopping"
    /\ UNCHANGED <<Elsewhere, pending, due, inbound, refs, queue, flags, thread, starting,
                   calls, routed, routes>>

\* Mutant of Stopped: the flag survives the executor.
StoppedStaysInitialized == UNCHANGED <<executorInitialized, executorReady>>

\* Both flags are cleared.
Stopped == executorInitialized' = FALSE /\ executorReady' = FALSE

\* The worker has ended, and ReleaseOutboundWork is called for the queue.
ExecutorStopped ==
    /\ OwnerAt("join", "idle")
    /\ workerPC = "idle"
    /\ executor' = "none"
    /\ Stopped
    /\ refs' = Unref(Queued)
    /\ queue' = <<>>
    /\ promised' = promised \ Queued
    /\ UNCHANGED <<Elsewhere, pending, due, inbound, initialized, thread, starting, calls,
                   routed, admitting, outbound, reroutes>>

OwnerStep ==
    \/ InitializeExecutor
    \/ InitializeThread
    \/ SetInitialized
    \/ RegisterReceiver
    \/ StartExecutor
    \/ StartThread
    \/ ShutdownLocked
    \/ ExecutorNotReady
    \/ UnregisterReceiver
    \/ ClearPendingEvents
    \/ StopExecutor
    \/ ExecutorStopped

----------------------------------------------------------------------------
\* Another thread registers or unregisters the type or a transport: the section under the
\* lock of RegisterGlobalEventImpl, RegisterTransportEventImpl, RegisterTransport,
\* UnregisterTransport, UnregisterEvent or UnregisterAllEvents, which are actions of
\* EventTransportRouting one by one, and here any change of the type's routes.  An
\* unregistration may discard the packets that may no longer come in; its option for
\* events that were to go out is not read anywhere.
Reroute(in, out, kept, option) ==
    /\ reroutes < MaxReroutes
    /\ reroutes' = reroutes + 1
    /\ admitting' = in
    /\ outbound' = out
    /\ promised' = IF option = "Complete" /\ ~(outbound \subseteq out)
                   THEN promised \cup ((pending \cup batch \cup Queued) \cap Locals)
                   ELSE promised
    /\ inbound' = kept
    /\ UNCHANGED <<mailbox, loop, workSignal, arrivalPC, broker, events, executor, queue,
                   worker, flags, owner, routed>>

Next ==
    \/ ReceivePacket
    \/ ArrivalStep
    \/ \E e \in Locals : Publish(e)
    \/ BrokerStep
    \/ LoopStep
    \/ WorkerStep
    \/ BeginStart
    \/ BeginShutdown
    \/ OwnerStep
    \/ \E in, out \in SUBSET Transports, kept \in 0 .. inbound, option \in PendingOutbound :
        Reroute(in, out, kept, option)

Spec == Init /\ [][Next]_vars

\* The loop is scheduled, and so are the threads that owe it a wake-up.  Nothing is
\* assumed of the executor's worker, whose transports may block it for ever.
Fairness == WF_vars(LoopStep) /\ WF_vars(ArrivalStep) /\ WF_vars(Wake)

FairSpec == Spec /\ Fairness

----------------------------------------------------------------------------
\* Properties.

\* Type invariant of the event flow.
TypeOK ==
    /\ {pending, due, batch, atBroker, offered, remote, sending, promised} \subseteq SUBSET Events
    /\ inHand \subseteq Events
    /\ left \in 0 .. Collections
    /\ inbound \in 0 .. MaxInbound
    /\ queue \in Seq(Events) /\ Len(queue) <= QueueDepth
    /\ refs \in [Events -> Nat]
    /\ {targets, admitting, outbound} \subseteq SUBSET Transports
    /\ {didWork, workSignal, executorInitialized, executorReady, initialized, starting,
        routed} \subseteq BOOLEAN
    /\ executor \in {"none", "initialized", "started", "stopping"}
    /\ thread \in {"none", "initialized", "running"}
    /\ calls \in 0 .. MaxCalls /\ reroutes \in 0 .. MaxReroutes

Holds(b) == IF b THEN 1 ELSE 0

\* An event's count is the number of those that hold it: the broker, the mailbox, the
\* batch, the executor's queue and its worker up to the serialization; so nothing that
\* is held is deleted and nothing leaks, even when the executor refuses or is stopped.
ReferencesExact ==
    \A e \in Events :
        refs[e] = Holds(e \in atBroker) + Holds(e \in offered) + Holds(e \in pending)
                  + Holds(e \in batch) + Holds(e \in Queued)
                  + Holds(e \in sending /\ workerPC \in {"collect", "serialize"})

\* No event that came in is ever sent out, although the broker offers it back: through
\* the broker, the mailbox and the executor its origin stays known.
NoEcho == workerPC = "send" => sending \subseteq Locals

\* The loop never sleeps on a packet or an event unless the signal has been given, or
\* the thread that added it is about to give it.
NoLostWakeup ==
    loopPC = "wait" /\ (pending # {} \/ inbound > 0) =>
        workSignal \/ "notify" \in {brokerPC, arrivalPC}

\* Between the owner's calls the flags say what the executor is, whatever failed, and
\* without an executor nothing is sent and nothing is queued.
FlagsFollowExecutor ==
    ownerPC = "idle" =>
        /\ executorInitialized <=> executor # "none"
        /\ executorReady <=> executor = "started"
        /\ executor = "none" => workerPC = "idle" /\ queue = <<>>

\* "Neither direction can indefinitely exclude the other": while the thread runs, an
\* event does not stay in the mailbox, nor do packets wait for ever, however much of
\* the other kind keeps coming; an exception out of OnLoop alone ends both.
NeitherDirectionStarves ==
    /\ \A e \in Events :
        thread = "running" /\ e \in pending ~> e \notin pending \/ loopPC = "ended"
    /\ thread = "running" /\ inbound > 0 ~> inbound = 0 \/ loopPC \in {"process", "ended"}

\* PendingOutbound = EventTransportPendingAction::Complete: an event that was pending
\* when its type was unregistered so still finds a transport to go to.
PendingOutboundCompletes ==
    workerPC = "collect" /\ initialized /\ sending \subseteq promised => outbound # {}

============================================================================
