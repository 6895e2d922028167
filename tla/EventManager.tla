---------------------------- MODULE EventManager ----------------------------
(***************************************************************************)
(* The broker: the routes and the fan-out of                               *)
(* src/src/ESPressio_EventDispatcher.hpp, and, in                          *)
(* src/src/ESPressio_EventManager.hpp, the loop that drives it, the        *)
(* executor that tells the observers, and how the two are initialized and  *)
(* started, with the failures that may meet.                               *)
(*                                                                         *)
(* Its mailbox is what EventReceiver promises, as in EventThread; an event *)
(* that it refuses counts as never published.  Each receiver is a mailbox  *)
(* that nobody has to empty, and that does, when it is full, what one of   *)
(* the overflow policies says.  External are the base Thread, which calls  *)
(* OnLoop until it throws, and the TaskExecutor: a bounded queue and one   *)
(* worker, whose Stop joins the worker and releases the queue.             *)
(***************************************************************************)
EXTENDS Integers, Sequences, FiniteSets, Compaction

CONSTANTS
    Types,
    Receivers,
    Events,           \* the events that are published, each once
    TypeOf,           \* the type of each event
    ReceiverCapacity, \* of each receiver's mailbox
    QueueDepth,       \* of the observer executor
    MayFail,          \* initializing or starting the executor or the thread may fail,
                      \* and a receiver's push_back run out of memory
    MaxChanges,       \* bound on the registrations and unregistrations
    MaxCalls          \* bound on the owner's calls

ASSUME ReceiversAssumption == IsFiniteSet(Receivers)
ASSUME EventsAssumption == IsFiniteSet(Events) /\ TypeOf \in [Events -> Types]
ASSUME BoundsAssumption ==
    /\ {ReceiverCapacity, QueueDepth, MaxChanges, MaxCalls} \subseteq Nat
    /\ MayFail \in BOOLEAN

VARIABLES
    records,          \* _eventReceivers
    dispatchDepth,
    needsCompaction,
    changes,          \* number of registrations and unregistrations so far
    pending,          \* the events in the broker's mailbox
    due,              \* those that the present sweep takes at least
    batch,            \* those in the hands of the sweep's callbacks
    eventSignal,      \* it was given and not taken yet
    unsent,           \* the events still to be published
    publisher,        \* "idle", or "notify" after AddEvent
    loopPC,           \* where OnLoop is
    current,          \* the event that is being dispatched: at most one
    receiverCount,
    index,
    receiver,         \* the receiver that was looked up: at most one
    held,             \* by receiver: the events in its mailbox
    refs,             \* reference count of every event
    executor,         \* "none", "initialized", "started"
    queue,            \* the executor's
    observing,        \* the event its worker is at: at most one
    executorInitialized,
    executorReady,
    thread,           \* "none", "initialized", "running"
    ownerPC,
    starting,         \* Initialize was called by Start
    calls,
    offers,           \* history: offers of the current event to each receiver
    present,          \* history: the receivers routed its type when its dispatch began
    stayed            \* history: those of them routed it ever since

routes == <<records, dispatchDepth, needsCompaction, changes>>
mailbox == <<pending, due, batch, eventSignal, unsent, publisher>>
dispatch == <<loopPC, current, receiverCount, index, receiver, offers, present>>
observation == <<executor, queue, observing>>
flags == <<executorInitialized, executorReady>>
owner == <<thread, ownerPC, starting, calls>>
vars == <<routes, mailbox, dispatch, held, refs, observation, flags, owner, stayed>>

Queued == {queue[i] : i \in DOMAIN queue}

Holds(b) == IF b THEN 1 ELSE 0

Unref(S) == [e \in Events |-> IF e \in S THEN refs[e] - 1 ELSE refs[e]]
Ref(S) == [e \in Events |-> IF e \in S THEN refs[e] + 1 ELSE refs[e]]

Init ==
    /\ records = <<>> /\ dispatchDepth = 0 /\ needsCompaction = FALSE /\ changes = 0
    /\ pending = {} /\ due = {} /\ batch = {} /\ eventSignal = FALSE
    /\ unsent = Events /\ publisher = "idle"
    /\ loopPC = "look" /\ current = {} /\ receiverCount = 0 /\ index = 0 /\ receiver = {}
    /\ held = [r \in Receivers |-> {}]
    /\ refs = [e \in Events |-> 0]
    /\ executor = "none" /\ queue = <<>> /\ observing = {}
    /\ executorInitialized = FALSE /\ executorReady = FALSE
    /\ thread = "none" /\ ownerPC = "idle" /\ starting = FALSE /\ calls = 0
    /\ offers = [r \in Receivers |-> 0]
    /\ present = {} /\ stayed = {}

----------------------------------------------------------------------------
\* Routes.

IsRecord(i, type, r) ==
    records[i].active /\ records[i].type = type /\ records[i].receiver = r

\* The search for an active record of the pair.
AlreadyRegistered(type, r) == \E i \in DOMAIN records : IsRecord(i, type, r)

RegisterReceiver(type, r) ==
    /\ changes < MaxChanges
    /\ changes' = changes + 1
    /\ ~AlreadyRegistered(type, r)
    /\ records' = Append(records, [type |-> type, receiver |-> r, active |-> TRUE])
    /\ UNCHANGED <<dispatchDepth, needsCompaction, mailbox, dispatch, held, refs,
                   observation, flags, owner, stayed>>

\* Mutant of CompactsNow: dispatches under way do not count.
CompactsAlways == TRUE

\* Only without a dispatch under way are inactive records taken out at once.
CompactsNow == dispatchDepth = 0

\* The first active record of the pair.
UnregisterReceiver(type, r) ==
    /\ changes < MaxChanges
    /\ changes' = changes + 1
    /\ \E i \in DOMAIN records :
        /\ IsRecord(i, type, r)
        /\ \A j \in 1 .. i - 1 : ~IsRecord(j, type, r)
        /\ LET inactive == [records EXCEPT ![i].active = FALSE]
           IN  IF CompactsNow
               THEN records' = Compact(inactive) /\ needsCompaction' = FALSE
               ELSE records' = inactive /\ needsCompaction' = TRUE
    /\ stayed' = IF \E e \in current : TypeOf[e] = type THEN stayed \ {r} ELSE stayed
    /\ UNCHANGED <<dispatchDepth, mailbox, dispatch, held, refs, observation,
                   flags, owner>>

----------------------------------------------------------------------------
\* Publishers: QueueEvent or StackEvent, as far as the event is admitted, and then
\* EventAdded.

\* The event is there before the loop is woken.
Publish(e) ==
    /\ publisher = "idle"
    /\ e \in unsent
    /\ unsent' = unsent \ {e}
    /\ pending' = pending \cup {e}
    /\ refs' = Ref({e})
    /\ publisher' = "notify"
    /\ UNCHANGED <<routes, due, batch, eventSignal, dispatch, held, observation,
                   flags, owner, stayed>>

EventAdded ==
    /\ publisher = "notify"
    /\ publisher' = "idle"
    /\ eventSignal' = TRUE
    /\ UNCHANGED <<routes, pending, due, batch, unsent, dispatch, held, refs,
                   observation, flags, owner, stayed>>

----------------------------------------------------------------------------
\* OnLoop: the wait, and then DispatchEvents.

\* GetPendingEventCount decides between Wait(WaitForever) and Wait(0).
Look ==
    /\ thread = "running"
    /\ loopPC = "look"
    /\ loopPC' = IF pending = {} THEN "wait" ELSE "poll"
    /\ UNCHANGED <<routes, mailbox, current, receiverCount, index, receiver, held, refs,
                   observation, flags, owner, offers, present, stayed>>

EndWait ==
    /\ loopPC = "poll" \/ (loopPC = "wait" /\ eventSignal)
    /\ eventSignal' = FALSE
    /\ loopPC' = "sweep"
    /\ due' = pending
    /\ UNCHANGED <<routes, pending, batch, unsent, publisher, current, receiverCount, index,
                   receiver, held, refs, observation, flags, owner, offers,
                   present, stayed>>

\* The sweep takes one collection after the other: some of what is pending at a time.
TakeBatch ==
    /\ loopPC = "sweep"
    /\ batch = {}
    /\ \E S \in (SUBSET pending) \ {{}} :
        batch' = S /\ pending' = pending \ S /\ due' = due \ S
    /\ UNCHANGED <<routes, eventSignal, unsent, publisher, dispatch, held, refs,
                   observation, flags, owner, stayed>>

\* __dispatch, and the first section of the callback.
BeginDispatch(e) ==
    /\ loopPC = "sweep"
    /\ e \in batch
    /\ current' = {e}
    /\ dispatchDepth' = dispatchDepth + 1
    /\ receiverCount' = Len(records)
    /\ index' = 1
    /\ loopPC' = "fanout"
    /\ offers' = [r \in Receivers |-> 0]
    /\ present' = {r \in Receivers : AlreadyRegistered(TypeOf[e], r)}
    /\ stayed' = present'
    /\ UNCHANGED <<records, needsCompaction, changes, mailbox, receiver, held, refs,
                   observation, flags, owner>>

\* Mutant of Matches: records that went inactive during the dispatch count as well.
MatchesInactive(e) == index \in DOMAIN records /\ records[index].type = TypeOf[e]

\* The record at the index is there, active and for the event's type.
Matches(e) ==
    index \in DOMAIN records /\ records[index].active /\ records[index].type = TypeOf[e]

\* The section for one record: its receiver is copied, to be called unlocked.
LookUpReceiver(e) ==
    /\ loopPC = "fanout"
    /\ e \in current
    /\ index <= receiverCount
    /\ IF Matches(e)
       THEN receiver' = {records[index].receiver} /\ loopPC' = "offer" /\ UNCHANGED index
       ELSE index' = index + 1 /\ UNCHANGED <<receiver, loopPC>>
    /\ UNCHANGED <<routes, mailbox, current, receiverCount, held, refs,
                   observation, flags, owner, offers, present, stayed>>

\* Mutant of MayOffer: the offer waits for room, as QueueEvent does.
MayOfferWithRoom(r) == Cardinality(held[r]) < ReceiverCapacity

\* TryQueueEvent and TryStackEvent return at once.
MayOffer(r) == TRUE

\* Mutant of HasRoom: the limit of the mailbox is exceeded by one.
HasRoomForOneMore(r) == Cardinality(held[r]) <= ReceiverCapacity

HasRoom(r) == Cardinality(held[r]) < ReceiverCapacity

\* The receiver puts the events in the place of those it evicts; the references follow.
Exchange(r, evicted, taken) ==
    /\ held' = [held EXCEPT ![r] = (@ \ evicted) \cup taken]
    /\ refs' = [e \in Events |-> refs[e] + Holds(e \in taken) - Holds(e \in evicted)]

\* What a receiver's mailbox may evict for an event: one, if it is full.
Evictions(r) == IF HasRoom(r) THEN {{}} ELSE {{v} : v \in held[r]}

\* The unlocked call: the receiver takes the event, with a reference and in the place of
\* another if its policy says so, or refuses it.
TryOffer(r) ==
    /\ loopPC = "offer"
    /\ r \in receiver
    /\ MayOffer(r)
    /\ \/ \E evicted \in Evictions(r) : Exchange(r, evicted, current)
       \/ ~HasRoom(r) /\ UNCHANGED <<held, refs>>
    /\ offers' = [offers EXCEPT ![r] = @ + 1]
    /\ receiver' = {}
    /\ index' = index + 1
    /\ loopPC' = "fanout"
    /\ UNCHANGED <<routes, mailbox, current, receiverCount, observation, flags,
                   owner, present, stayed>>

\* The call throws, though what the mailbox evicted for the event is gone: no receiver
\* after this one is called.
OfferThrows(r) ==
    /\ MayFail
    /\ loopPC = "offer"
    /\ r \in receiver
    /\ MayOffer(r)
    /\ \E evicted \in Evictions(r) : Exchange(r, evicted, {})
    /\ receiver' = {}
    /\ loopPC' = "catch"
    /\ UNCHANGED <<routes, mailbox, current, receiverCount, index, observation,
                   flags, owner, offers, present, stayed>>

\* Mutant of Compacted: what went inactive during the dispatch stays.
CompactedNever == UNCHANGED <<records, needsCompaction>>

\* FinishReceiverDispatchLocked compacts if that was put off.
Compacted ==
    IF dispatchDepth = 1 /\ needsCompaction
    THEN records' = Compact(records) /\ needsCompaction' = FALSE
    ELSE UNCHANGED <<records, needsCompaction>>

\* At the end of the walk, or on the way of the exception out of it, which nobody in between
\* catches: the completion is not called then.
FinishDispatch ==
    /\ \/ loopPC = "fanout" /\ index > receiverCount /\ loopPC' = "completion"
       \/ loopPC = "catch" /\ loopPC' = "unwind"
    /\ dispatchDepth' = dispatchDepth - 1
    /\ Compacted
    /\ UNCHANGED <<changes, mailbox, current, receiverCount, index, receiver, held, refs,
                   observation, flags, owner, offers, present, stayed>>

\* SubmitObserverNotification tests whether there is anyone to tell.  Observers come and go
\* at any time, on any thread, and nothing else asks for them: the answer may be either.
WantsObservation ==
    /\ loopPC = "completion"
    /\ \E hasObservers \in BOOLEAN :
        loopPC' = IF executorReady /\ hasObservers THEN "submit" ELSE "release"
    /\ UNCHANGED <<routes, mailbox, current, receiverCount, index, receiver, held, refs,
                   observation, flags, owner, offers, present, stayed>>

\* Mutant of Refused: the reference for the executor stays when it refuses.
RefusedKept == refs' = Ref(current)

\* The reference is given back.
Refused == UNCHANGED refs

\* An executor that was stopped since then, or is full, refuses.
Submit ==
    /\ loopPC = "submit"
    /\ IF executor = "started" /\ Len(queue) < QueueDepth
       THEN refs' = Ref(current) /\ (\E e \in current : queue' = Append(queue, e))
       ELSE Refused /\ UNCHANGED queue
    /\ loopPC' = "release"
    /\ UNCHANGED <<routes, mailbox, current, receiverCount, index, receiver, held,
                   executor, observing, flags, owner, offers, present, stayed>>

\* The callback is over, and the sweep drops the event.
EndDispatch ==
    /\ loopPC = "release"
    /\ refs' = Unref(current)
    /\ batch' = batch \ current
    /\ current' = {}
    /\ receiverCount' = 0 /\ index' = 0
    /\ present' = {} /\ stayed' = {} /\ offers' = [r \in Receivers |-> 0]
    /\ loopPC' = "sweep"
    /\ UNCHANGED <<routes, pending, due, eventSignal, unsent, publisher, receiver, held,
                   observation, flags, owner>>

\* The exception leaves WithEvents, where ~PendingReferences drops the rest of the batch,
\* and OnLoop, and so ends the thread.
EndThread ==
    /\ loopPC = "unwind"
    /\ refs' = Unref(batch)
    /\ batch' = {}
    /\ current' = {}
    /\ receiverCount' = 0 /\ index' = 0
    /\ present' = {} /\ stayed' = {} /\ offers' = [r \in Receivers |-> 0]
    /\ loopPC' = "ended"
    /\ UNCHANGED <<routes, pending, due, eventSignal, unsent, publisher, receiver, held,
                   observation, flags, owner>>

\* Events that came during the sweep may stay; those from before it may not.
EndSweep ==
    /\ loopPC = "sweep"
    /\ due = {} /\ batch = {}
    /\ loopPC' = "look"
    /\ UNCHANGED <<routes, mailbox, current, receiverCount, index, receiver, held, refs,
                   observation, flags, owner, offers, present, stayed>>

LoopStep ==
    \/ Look
    \/ EndWait
    \/ TakeBatch
    \/ \E e \in Events : BeginDispatch(e) \/ LookUpReceiver(e)
    \/ \E r \in Receivers : TryOffer(r) \/ OfferThrows(r)
    \/ FinishDispatch
    \/ WantsObservation
    \/ Submit
    \/ EndDispatch
    \/ EndThread
    \/ EndSweep

----------------------------------------------------------------------------
\* The receivers, the observers, and the executor's worker.

\* A receiver is done with an event.
Consume(r, e) ==
    /\ e \in held[r]
    /\ held' = [held EXCEPT ![r] = @ \ {e}]
    /\ refs' = Unref({e})
    /\ UNCHANGED <<routes, mailbox, dispatch, observation, flags, owner, stayed>>

TakeWork ==
    /\ executor = "started"
    /\ observing = {}
    /\ queue # <<>>
    /\ observing' = {Head(queue)}
    /\ queue' = Tail(queue)
    /\ UNCHANGED <<routes, mailbox, dispatch, held, refs, executor, flags, owner,
                   stayed>>

\* Whoever observes now, if anyone, is told; the guard gives the reference back.
ProcessObserverWork ==
    /\ observing # {}
    /\ observing' = {}
    /\ refs' = Unref(observing)
    /\ UNCHANGED <<routes, mailbox, dispatch, held, executor, queue, flags, owner,
                   stayed>>

----------------------------------------------------------------------------
\* The owner: Initialize and Start.

OwnerAt(pc, next) ==
    /\ ownerPC = pc
    /\ ownerPC' = next
    /\ starting' = (starting /\ next # "idle")

\* What no step of the owner touches.
Elsewhere == <<routes, mailbox, dispatch, held, observing, stayed>>

BeginStart ==
    /\ calls < MaxCalls
    /\ calls' = calls + 1
    /\ \E byStart \in BOOLEAN :
        /\ starting' = byStart
        /\ ownerPC = "idle"
        /\ ownerPC' = IF byStart /\ executorInitialized THEN "startExecutor"
                                                        ELSE "initializeExecutor"
    /\ UNCHANGED <<Elsewhere, refs, executor, queue, flags, thread>>

InitializeExecutor ==
    /\ \/ /\ executorInitialized
          /\ OwnerAt("initializeExecutor", "initializeThread")
          /\ UNCHANGED <<executor, executorInitialized>>
       \/ /\ ~executorInitialized
          /\ OwnerAt("initializeExecutor", "initializeThread")
          /\ executor' = "initialized"
          /\ executorInitialized' = TRUE
       \/ /\ ~executorInitialized /\ MayFail
          /\ OwnerAt("initializeExecutor", "idle")
          /\ UNCHANGED <<executor, executorInitialized>>
    /\ UNCHANGED <<Elsewhere, refs, queue, executorReady, thread, calls>>

\* AlreadyInitialized is a success.
InitializeThread ==
    /\ \/ /\ OwnerAt("initializeThread", IF starting THEN "startExecutor" ELSE "idle")
          /\ thread' = IF thread = "none" THEN "initialized" ELSE thread
       \/ /\ MayFail /\ thread = "none"
          /\ OwnerAt("initializeThread", "stop")
          /\ UNCHANGED thread
    /\ UNCHANGED <<Elsewhere, refs, executor, queue, flags, calls>>

StartExecutor ==
    /\ \/ /\ executorReady
          /\ OwnerAt("startExecutor", "startThread")
          /\ UNCHANGED <<executor, executorReady>>
       \/ /\ ~executorReady
          /\ OwnerAt("startExecutor", "startThread")
          /\ executor' = "started"
          /\ executorReady' = TRUE
       \/ /\ ~executorReady /\ MayFail
          /\ OwnerAt("startExecutor", "idle")
          /\ UNCHANGED <<executor, executorReady>>
    /\ UNCHANGED <<Elsewhere, refs, queue, executorInitialized, thread, calls>>

StartThread ==
    /\ \/ /\ OwnerAt("startThread", "idle")
          /\ thread' = "running"
          /\ UNCHANGED executorReady
       \/ /\ MayFail /\ thread # "running"
          /\ OwnerAt("startThread", "stop")
          /\ executorReady' = FALSE
          /\ UNCHANGED thread
    /\ UNCHANGED <<Elsewhere, refs, executor, queue, executorInitialized, calls>>

\* Mutant of Stopped: a flag survives the executor.
StoppedStaysInitialized == UNCHANGED executorInitialized /\ executorReady' = FALSE

\* Both flags are cleared.
Stopped == executorInitialized' = FALSE /\ executorReady' = FALSE

\* Where the two failures end: the worker is joined, and ReleaseObserverWork called for
\* what is queued.
StopExecutor ==
    /\ OwnerAt("stop", "idle")
    /\ observing = {}
    /\ executor' = "none"
    /\ Stopped
    /\ refs' = Unref(Queued)
    /\ queue' = <<>>
    /\ UNCHANGED <<Elsewhere, thread, calls>>

OwnerStep ==
    \/ InitializeExecutor
    \/ InitializeThread
    \/ StartExecutor
    \/ StartThread
    \/ StopExecutor

Next ==
    \/ \E type \in Types, r \in Receivers :
        RegisterReceiver(type, r) \/ UnregisterReceiver(type, r)
    \/ \E e \in Events : Publish(e)
    \/ EventAdded
    \/ LoopStep
    \/ \E r \in Receivers, e \in Events : Consume(r, e)
    \/ TakeWork
    \/ ProcessObserverWork
    \/ BeginStart
    \/ OwnerStep

Spec == Init /\ [][Next]_vars

\* The broker's thread is scheduled, and so is a publisher that owes it a signal.  Nothing
\* is assumed of the receivers, the observers or the executor's worker.
Fairness == WF_vars(LoopStep) /\ WF_vars(EventAdded)

FairSpec == Spec /\ Fairness

----------------------------------------------------------------------------
\* Properties.

\* Type invariant of the broker.
TypeOK ==
    /\ records \in Seq([type : Types, receiver : Receivers, active : BOOLEAN])
    /\ dispatchDepth \in {0, 1}
    /\ {pending, due, batch, unsent, current, observing} \subseteq SUBSET Events
    /\ index \in 0 .. receiverCount + 1
    /\ receiver \subseteq Receivers
    /\ held \in [Receivers -> SUBSET Events]
    /\ \A r \in Receivers : Cardinality(held[r]) <= ReceiverCapacity
    /\ refs \in [Events -> Nat]
    /\ queue \in Seq(Events) /\ Len(queue) <= QueueDepth
    /\ {needsCompaction, eventSignal, executorInitialized, executorReady,
        starting} \subseteq BOOLEAN
    /\ executor \in {"none", "initialized", "started"}
    /\ thread \in {"none", "initialized", "running"}
    /\ calls \in 0 .. MaxCalls /\ changes \in 0 .. MaxChanges

\* Whatever is registered and unregistered, a receiver never has two active records of
\* one type, from which it would get every event twice, and no record of an unregistered
\* receiver outlives the dispatch that put its compaction off.
RecordsExact ==
    /\ \A i, j \in DOMAIN records :
        records[i].active /\ records[j].active /\ i # j =>
            <<records[i].type, records[i].receiver>> # <<records[j].type, records[j].receiver>>
    /\ dispatchDepth = 0 =>
        ~needsCompaction /\ \A i \in DOMAIN records : records[i].active

\* "Receiver removal is safe during nested dispatch": the walk by index skips no receiver
\* that stays registered, offers no event twice, and none to a receiver that came later.
EveryReceiverOnce ==
    /\ \A r \in Receivers : offers[r] <= 1 /\ (offers[r] = 1 => r \in present)
    /\ loopPC = "completion" => \A r \in stayed : offers[r] = 1

\* An event's count is the number of those that hold it: the broker's mailbox and batch,
\* the receivers' mailboxes, the executor's queue and its worker.  Nothing held is
\* deleted, and nothing leaks when a receiver or the executor refuses it.
ReferencesExact ==
    \A e \in Events :
        refs[e] = Holds(e \in pending) + Holds(e \in batch) + Holds(e \in Queued)
                  + Holds(e \in observing) + Cardinality({r \in Receivers : e \in held[r]})

\* Between the owner's calls the flags say what the executor is, whatever failed.
FlagsFollowExecutor ==
    ownerPC = "idle" =>
        /\ executorInitialized <=> executor # "none"
        /\ executorReady <=> executor = "started"

\* "Downstream receiver admission is non-blocking": a running broker is done with every
\* event in the end, though no receiver takes one and no observer returns; and it never
\* sleeps on one.  Only a call that throws, for want of memory, leaves events behind: it
\* ends the thread.
EventsSettle ==
    \A e \in Events :
        thread = "running" /\ e \in pending ~>
            e \notin pending \cup batch \/ loopPC = "ended"

\* What the module Multicast sees of this one: a member is a receiver's registration for a
\* type, and a dispatch owes its event to those that stayed and were not looked up yet.
Registrations ==
    {<<records[i].type, records[i].receiver>> : i \in {j \in DOMAIN records : records[j].active}}

Dispatching == loopPC \in {"fanout", "offer"}

Progress == IF Dispatching THEN "delivering" ELSE IF loopPC = "catch" THEN "failed" ELSE "idle"

Due ==
    IF Dispatching
    THEN {<<TypeOf[e], r>> : e \in current, r \in {x \in stayed \ receiver : offers[x] = 0}}
    ELSE {}

Serving == {<<TypeOf[e], r>> : e \in current, r \in receiver}

M == INSTANCE Multicast WITH
        Members <- Types \X Receivers,
        Topics <- Types,
        TopicOf <- [m \in Types \X Receivers |-> m[1]],
        Couriers <- {"loop"},
        members <- Registrations,
        due <- [c \in {"loop"} |-> Due],
        inHand <- [c \in {"loop"} |-> Serving],
        progress <- [c \in {"loop"} |-> Progress]

\* The broker's fan-out keeps that promise: a receiver that leaves under way is not looked
\* up any more, one that comes back waits for the next event, and compaction that was put
\* off until the walk's end shifts no record under its index.  A receiver that throws ends
\* the fan-out.
ImplementsMulticast == M!Spec

============================================================================
