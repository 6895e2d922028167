--------------------------- MODULE EventReceiver ---------------------------
(***************************************************************************)
(* The bounded priority mailbox of src/src/ESPressio_EventReceiver.hpp:    *)
(* threads offer events to it, its owner drains it, and a controlling      *)
(* thread stops, clears or reconfigures it.                                *)
(*                                                                         *)
(* A section under _eventsMutex is one action.  What the code does after   *)
(* it has unlocked (releasing a reference, waiting for capacity, calling   *)
(* the callback) is an action of its own, so every interleaving of the     *)
(* sections of different threads is a behaviour.  A Give of                *)
(* _capacityAvailable directly follows the unlock; it is joined to the     *)
(* section before it, which changes nothing since every Wait on that       *)
(* signal also times out.                                                  *)
(*                                                                         *)
(* The six vectors (_priorityQueues and _priorityStacks, three priorities  *)
(* each) are one set of entries.  push_back with a fresh sequence number   *)
(* under the mutex keeps each vector sorted by sequence, and erase and     *)
(* swap keep it sorted, so the front of a vector is its entry with the     *)
(* smallest number.  The numbers saturate in the code after 2^64 - 1       *)
(* admissions, which this model does not reach.  The storage capacity of   *)
(* the vectors (ApplyCapacityPolicyLocked and the statistics it uses) does *)
(* not touch what they hold and is left out.                               *)
(***************************************************************************)
EXTENDS Integers, FiniteSets

CONSTANTS
    Callers,         \* threads that call Queue/Stack/TryQueue/TryStackEvent
    Worker,          \* the thread that drains, a caller too when callbacks offer
    Events,          \* the events that are offered
    Shared,          \* events that something else keeps referenced throughout
    OfferedAs,       \* the [priority, method, blocking] combinations of each caller
    InitialMaxima,   \* values of _maximumPendingEventCount to start from
    InitialPolicies, \* values of _overflowPolicy to start from
    NewMaxima,       \* values SetMaximumPendingEventCount is called with
    NewPolicies,     \* values SetEventQueueOverflowPolicy is called with
    MaxOffers,       \* bound on the number of offers
    MayStop,         \* the owner stops and clears the mailbox at some point
    MayReset,        \* the statistics are reset at some point
    MayFail,         \* push_back may run out of memory and callbacks may throw
    NoOffer          \* what a thread outside of AddEvent offers

Priorities == 0 .. 2                  \* Low, Normal, High
Methods == {"Queue", "Stack"}
Policies == {"BlockProducer", "RejectIncoming", "DropOldest", "DropLowestPriority"}

ASSUME CallersAssumption == IsFiniteSet(Callers)
ASSUME EventsAssumption == IsFiniteSet(Events) /\ Shared \subseteq Events
ASSUME OfferedAsAssumption ==
    OfferedAs \in [Callers -> SUBSET
                    [priority : Priorities, method : Methods, blocking : BOOLEAN]]
ASSUME MaximaAssumption == InitialMaxima \subseteq Nat /\ NewMaxima \subseteq Nat
ASSUME PoliciesAssumption == InitialPolicies \subseteq Policies /\ NewPolicies \subseteq Policies
ASSUME FlagsAssumption == MaxOffers \in Nat /\ {MayStop, MayReset, MayFail} \subseteq BOOLEAN
ASSUME NoOfferAssumption ==
    NoOffer \notin [event : Events, priority : Priorities, method : Methods, blocking : BOOLEAN]

Entries == [event : Events, priority : Priorities, method : Methods, sequence : Nat]
Offers == [event : Events, priority : Priorities, method : Methods, blocking : BOOLEAN]

VARIABLES
    mailbox,                 \* the entries in _priorityQueues and _priorityStacks
    pendingEventCount,
    processingEventCount,
    peakPendingEventCount,
    maximumPendingEventCount,
    overflowPolicy,
    nextSequence,
    rejectedEventCount,
    droppedEventCount,
    acceptingPendingEvents,
    capacityAvailable,       \* the binary signal producers wait on
    pc,                      \* where each caller is in AddEvent
    offer,                   \* the arguments of its call
    displaced,               \* displacedEvent of its call: at most one entry
    workerPC,                \* where the owner is in WithEvents
    slot,                    \* which of its six calls of ProcessCollection it is in
    batch,                   \* the entries of `pending` there that are not yet released
    batchSize,               \* the count its ProcessingGuard holds
    clearing,                \* the entries ClearPendingEvents has still to release
    refs,                    \* each event's reference count
    fresh,                   \* events no call was given yet
    offers,                  \* number of calls so far
    sweepMark,               \* history: nextSequence when the current sweep began
    handled,                 \* history: sequences whose callback began
    lost                     \* history: sequences evicted, cleared, or given up by a throw

contents == <<mailbox, pendingEventCount, nextSequence, lost>>
signals == <<acceptingPendingEvents, capacityAvailable>>
statistics == <<peakPendingEventCount, rejectedEventCount, droppedEventCount>>
settings == <<maximumPendingEventCount, overflowPolicy>>
request == <<offer, fresh, offers>>
calls == <<request, pc, displaced>>
progress == <<batchSize, processingEventCount, sweepMark, handled>>
sweep == <<progress, workerPC, slot, batch>>
vars == <<contents, signals, statistics, settings, calls, sweep, clearing, refs>>

----------------------------------------------------------------------------
\* Reading the mailbox.

RetainedEventCount == pendingEventCount + processingEventCount

\* Mutant of Full: lets one more in than the maximum.
FullOneLate == maximumPendingEventCount > 0 /\ RetainedEventCount > maximumPendingEventCount

Full == maximumPendingEventCount > 0 /\ RetainedEventCount >= maximumPendingEventCount

\* Mutant of SlotOf: visits the priorities of a method from Low to High.
SlotLowFirst(x) == (IF x.method = "Stack" THEN 1 ELSE 4) + x.priority

\* WithEvents visits the stacks from High to Low, then the queues from High to Low.
SlotOf(x) == (IF x.method = "Stack" THEN 3 ELSE 6) - x.priority

Collection(s) == {x \in mailbox : SlotOf(x) = s}

\* The front of the vectors in S, or of their union: what was admitted first.
Oldest(S) == {x \in S : \A y \in S : x.sequence <= y.sequence}

\* The back of a vector.
Newest(S) == {x \in S : \A y \in S : x.sequence >= y.sequence}

\* RemoveLowestPriorityLocked: the front of the queue, then of the stack, of the
\* lowest priority that has a pending entry.
LowestPriority ==
    LET rank(x) == 2 * x.priority + (IF x.method = "Queue" THEN 0 ELSE 1)
    IN  Oldest({x \in mailbox : \A y \in mailbox : rank(x) <= rank(y)})

\* The entries a full mailbox can evict for a new one: at most one.
Evictable ==
    CASE overflowPolicy = "DropOldest"         -> Oldest(mailbox)
      [] overflowPolicy = "DropLowestPriority" -> LowestPriority
      [] OTHER                                 -> {}

\* Mutant of NextInBatch: reads a queue from the back.
NextFromBack == Newest(batch)

\* The entry of the batch whose callback comes next: a queue is read from the
\* front, a stack from the back.
NextInBatch == IF slot <= 3 THEN Newest(batch) ELSE Oldest(batch)

\* Mutant of BatchDone: the loop over a stack stops before index 0.
BatchDoneEarly == Cardinality(batch) <= (IF slot <= 3 THEN 1 ELSE 0)

\* The loop over the batch is over.
BatchDone == batch = {}

\* How many references to each event the entries of S stand for.
Held(S) == [e \in Events |-> Cardinality({x \in S : x.event = e})]

\* Mutant of Unref: an event that is held twice is released once.
UnrefOnce(n) == [e \in Events |-> IF n[e] > 0 /\ refs[e] > 0 THEN refs[e] - 1 ELSE refs[e]]

\* __unref of every event n[e] times; at zero __unref does nothing.
Unref(n) == [e \in Events |-> IF refs[e] >= n[e] THEN refs[e] - n[e] ELSE 0]

Sequences(S) == {x.sequence : x \in S}

----------------------------------------------------------------------------
Init ==
    /\ mailbox = {}
    /\ pendingEventCount = 0
    /\ processingEventCount = 0
    /\ peakPendingEventCount = 0
    /\ maximumPendingEventCount \in InitialMaxima
    /\ overflowPolicy \in InitialPolicies
    /\ nextSequence = 0
    /\ rejectedEventCount = 0
    /\ droppedEventCount = 0
    /\ acceptingPendingEvents = TRUE
    /\ capacityAvailable = FALSE
    /\ pc = [p \in Callers |-> "idle"]
    /\ offer = [p \in Callers |-> NoOffer]
    /\ displaced = [p \in Callers |-> {}]
    /\ workerPC = "idle"
    /\ slot = 0
    /\ batch = {}
    /\ batchSize = 0
    /\ clearing = {}
    /\ refs = [e \in Events |-> IF e \in Shared THEN 1 ELSE 0]
    /\ fresh = Events
    /\ offers = 0
    /\ sweepMark = 0
    /\ handled = {}
    /\ lost = {}

----------------------------------------------------------------------------
\* AddEvent, step by step.  pc: "enter" before the mutex is taken for the first
\* time, "wait" in _capacityAvailable->Wait, "retry" before it is taken again
\* after that, "refused" when the offered reference has still to be released,
\* "admitted" when the displaced one has and EventAdded is to be called.

\* The call is made: __dispatch and __ref, before the lock.  The worker offers
\* only from inside a callback.  An event that nothing else references is handed
\* over once.
Offer(p, e, as) ==
    /\ offers < MaxOffers
    /\ pc[p] = "idle"
    /\ p = Worker => workerPC = "callback"
    /\ e \in fresh \cup Shared
    /\ pc' = [pc EXCEPT ![p] = "enter"]
    /\ offer' = [offer EXCEPT ![p] = [event |-> e, priority |-> as.priority,
                                      method |-> as.method, blocking |-> as.blocking]]
    /\ refs' = [refs EXCEPT ![e] = @ + 1]
    /\ fresh' = fresh \ {e}
    /\ offers' = offers + 1
    /\ UNCHANGED <<contents, signals, statistics, settings, sweep, clearing,
                   displaced>>

InAddEvent(p) == pc[p] \in {"enter", "retry"}

\* Mutants of FoundStopped: acceptance is tested in the loop alone, or before it alone.
FoundStoppedInLoop(p) == ~acceptingPendingEvents /\ Full
FoundStoppedOnEntry(p) == ~acceptingPendingEvents /\ pc[p] = "enter"

\* The tests before the loop and in it: the loop condition of a retry is
\* evaluated before acceptance is.
FoundStopped(p) == ~acceptingPendingEvents /\ (pc[p] = "enter" \/ Full)

\* A full mailbox turns the event away.
FoundFull(p) ==
    /\ Full
    /\ overflowPolicy = "BlockProducer" => ~offer[p].blocking
    /\ Evictable = {}

Reject(p) ==
    /\ InAddEvent(p)
    /\ FoundStopped(p) \/ FoundFull(p)
    /\ rejectedEventCount' = rejectedEventCount + 1
    /\ pc' = [pc EXCEPT ![p] = "refused"]
    /\ UNCHANGED <<contents, signals, settings, request, sweep, clearing, refs,
                   peakPendingEventCount, droppedEventCount, displaced>>

Block(p) ==
    /\ InAddEvent(p)
    /\ Full
    /\ ~FoundStopped(p)
    /\ overflowPolicy = "BlockProducer"
    /\ offer[p].blocking
    /\ pc' = [pc EXCEPT ![p] = "wait"]
    /\ UNCHANGED <<contents, signals, statistics, settings, request, sweep, clearing,
                   refs, displaced>>

\* Wait(10 ms) returns because the signal was given, taking it, or on its timeout.
Awake(p) ==
    /\ pc[p] = "wait"
    /\ pc' = [pc EXCEPT ![p] = "retry"]
    /\ capacityAvailable' \in {FALSE, capacityAvailable}
    /\ UNCHANGED <<contents, statistics, settings, request, sweep,
                   acceptingPendingEvents, clearing, refs, displaced>>

\* The entries that go so that the offer of p can come in.
MakesRoom(p, S) ==
    /\ InAddEvent(p)
    /\ ~FoundStopped(p)
    /\ IF Full THEN S # {} /\ S = Evictable ELSE S = {}

\* The section ends with the event in the mailbox.
Admit(p) ==
    \E S \in SUBSET mailbox :
        /\ MakesRoom(p, S)
        /\ mailbox' = (mailbox \ S) \cup
               {[event |-> offer[p].event, priority |-> offer[p].priority,
                 method |-> offer[p].method, sequence |-> nextSequence]}
        /\ nextSequence' = nextSequence + 1
        /\ pendingEventCount' = pendingEventCount - Cardinality(S) + 1
        /\ peakPendingEventCount' =
               LET retained == pendingEventCount' + processingEventCount
               IN  IF retained > peakPendingEventCount THEN retained ELSE peakPendingEventCount
        /\ droppedEventCount' = droppedEventCount + Cardinality(S)
        /\ displaced' = [displaced EXCEPT ![p] = S]
        /\ lost' = lost \cup Sequences(S)
        /\ pc' = [pc EXCEPT ![p] = "admitted"]
        /\ UNCHANGED <<signals, settings, request, sweep, clearing, refs,
                   rejectedEventCount>>

\* push_back throws: the sequence number is used and the victim is gone, and the
\* catch block releases both references.
FailToAdmit(p) ==
    /\ MayFail
    /\ \E S \in SUBSET mailbox :
        /\ MakesRoom(p, S)
        /\ mailbox' = mailbox \ S
        /\ nextSequence' = nextSequence + 1
        /\ pendingEventCount' = pendingEventCount - Cardinality(S)
        /\ droppedEventCount' = droppedEventCount + Cardinality(S)
        /\ displaced' = [displaced EXCEPT ![p] = S]
        /\ lost' = lost \cup Sequences(S) \cup {nextSequence}
        /\ pc' = [pc EXCEPT ![p] = "refused"]
        /\ UNCHANGED <<signals, settings, request, sweep, clearing, refs,
                   peakPendingEventCount, rejectedEventCount>>

\* The call returns false, or throws: the offered reference goes, and the
\* displaced one.
ReturnRefused(p) ==
    /\ pc[p] = "refused"
    /\ refs' = Unref([e \in Events |->
                   Held(displaced[p])[e] + (IF e = offer[p].event THEN 1 ELSE 0)])
    /\ pc' = [pc EXCEPT ![p] = "idle"]
    /\ offer' = [offer EXCEPT ![p] = NoOffer]
    /\ displaced' = [displaced EXCEPT ![p] = {}]
    /\ UNCHANGED <<contents, signals, statistics, settings, sweep, clearing, fresh,
                   offers>>

\* The displaced reference goes, EventAdded is called (empty in this class) and
\* the call returns true.
ReturnAdmitted(p) ==
    /\ pc[p] = "admitted"
    /\ refs' = Unref(Held(displaced[p]))
    /\ pc' = [pc EXCEPT ![p] = "idle"]
    /\ offer' = [offer EXCEPT ![p] = NoOffer]
    /\ displaced' = [displaced EXCEPT ![p] = {}]
    /\ UNCHANGED <<contents, signals, statistics, settings, sweep, clearing, fresh,
                   offers>>

----------------------------------------------------------------------------
\* WithEvents and ProcessCollection, run by the owner.  workerPC: "sweep" before a
\* ProcessCollection, "batch" between two callbacks, "callback" inside one,
\* "unwind" when a callback has thrown.

BeginSweep ==
    /\ workerPC = "idle"
    /\ workerPC' = "sweep"
    /\ slot' = 1
    /\ sweepMark' = nextSequence
    /\ UNCHANGED <<contents, signals, statistics, settings, calls,
                   processingEventCount, clearing, refs, batch, batchSize,
                   handled>>

\* Mutants of NextSlot: WithEvents stops before the last collection, or runs past it.
NextSlotButLast ==
    /\ workerPC' = IF slot = 5 THEN "idle" ELSE "sweep"
    /\ slot' = IF slot = 5 THEN 0 ELSE slot + 1
NextSlotUnbounded ==
    /\ workerPC' = IF slot = 7 THEN "idle" ELSE "sweep"
    /\ slot' = IF slot = 7 THEN 0 ELSE slot + 1

\* On to the next ProcessCollection, or out of WithEvents after the sixth.
NextSlot ==
    /\ workerPC' = IF slot = 6 THEN "idle" ELSE "sweep"
    /\ slot' = IF slot = 6 THEN 0 ELSE slot + 1

SkipCollection ==
    /\ workerPC = "sweep"
    /\ Collection(slot) = {}
    /\ NextSlot
    /\ UNCHANGED <<contents, signals, statistics, settings, calls, progress,
                   clearing, refs, batch>>

TakeCollection ==
    /\ workerPC = "sweep"
    /\ Collection(slot) # {}
    /\ batch' = Collection(slot)
    /\ batchSize' = Cardinality(Collection(slot))
    /\ mailbox' = mailbox \ Collection(slot)
    /\ pendingEventCount' = pendingEventCount - Cardinality(Collection(slot))
    /\ processingEventCount' = processingEventCount + Cardinality(Collection(slot))
    /\ workerPC' = "batch"
    /\ UNCHANGED <<signals, statistics, settings, calls, nextSequence, clearing,
                   refs, lost, slot, sweepMark, handled>>

BeginCallback ==
    /\ workerPC = "batch"
    /\ ~BatchDone
    /\ handled' = handled \cup Sequences(NextInBatch)
    /\ workerPC' = "callback"
    /\ UNCHANGED <<contents, signals, statistics, settings, calls,
                   processingEventCount, clearing, refs, slot, batch,
                   batchSize, sweepMark>>

\* A callback that offers events to this receiver returns after its call does.
WorkerOutsideAddEvent == Worker \in Callers => pc[Worker] = "idle"

EndCallback ==
    /\ workerPC = "callback"
    /\ WorkerOutsideAddEvent
    /\ refs' = Unref(Held(NextInBatch))
    /\ batch' = batch \ NextInBatch
    /\ workerPC' = "batch"
    /\ UNCHANGED <<contents, signals, statistics, settings, calls, progress,
                   clearing, slot>>

\* The callback throws: ~PendingReferences releases the rest of the batch.
ThrowFromCallback ==
    /\ MayFail
    /\ workerPC = "callback"
    /\ WorkerOutsideAddEvent
    /\ refs' = Unref(Held(batch))
    /\ batch' = {}
    /\ lost' = lost \cup (Sequences(batch) \ handled)
    /\ workerPC' = "unwind"
    /\ UNCHANGED <<signals, statistics, settings, calls, progress, mailbox,
                   pendingEventCount, nextSequence, clearing, slot>>

\* Mutant of StopCounting: the ProcessingGuard is lost.
StopCountingNever == processingEventCount' = processingEventCount

\* ~ProcessingGuard: the batch stops counting against the maximum.
StopCounting == processingEventCount' = processingEventCount - batchSize

\* The end of ProcessCollection, normal (on to the next collection) or by the
\* exception (out of WithEvents).
FinishCollection ==
    /\ \/ workerPC = "batch" /\ BatchDone /\ NextSlot
       \/ workerPC = "unwind" /\ workerPC' = "idle" /\ slot' = 0
    /\ StopCounting
    /\ batch' = {}
    /\ batchSize' = 0
    /\ capacityAvailable' = TRUE
    /\ UNCHANGED <<contents, statistics, settings, calls, acceptingPendingEvents,
                   clearing, refs, sweepMark, handled>>

----------------------------------------------------------------------------
\* What the owner does to the mailbox.

StopAcceptingEvents ==
    /\ MayStop
    /\ acceptingPendingEvents' = FALSE
    /\ capacityAvailable' = TRUE
    /\ UNCHANGED <<contents, statistics, settings, calls, sweep, clearing, refs>>

\* One call at a time: StopReceivingEvents of the owner makes it once, by an atomic
\* exchange, and the destructor comes after it.
ClearPendingEvents ==
    /\ MayStop
    /\ clearing = {}
    /\ clearing' = mailbox
    /\ mailbox' = {}
    /\ pendingEventCount' = 0
    /\ capacityAvailable' = TRUE
    /\ lost' = lost \cup Sequences(mailbox)
    /\ UNCHANGED <<statistics, settings, calls, sweep, nextSequence,
                   acceptingPendingEvents, refs>>

\* ClearPendingEvents releases, unlocked, what it took.
ReleaseCleared ==
    /\ clearing # {}
    /\ refs' = Unref(Held(clearing))
    /\ clearing' = {}
    /\ UNCHANGED <<contents, signals, statistics, settings, calls, sweep>>

SetMaximumPendingEventCount(m) ==
    /\ maximumPendingEventCount' = m
    /\ capacityAvailable' = TRUE
    /\ UNCHANGED <<contents, statistics, calls, sweep, acceptingPendingEvents,
                   clearing, refs, overflowPolicy>>

SetEventQueueOverflowPolicy(policy) ==
    /\ overflowPolicy' = policy
    /\ capacityAvailable' = TRUE
    /\ UNCHANGED <<contents, statistics, calls, sweep, acceptingPendingEvents,
                   clearing, refs, maximumPendingEventCount>>

ResetEventQueueStatistics ==
    /\ MayReset
    /\ peakPendingEventCount' = pendingEventCount
    /\ rejectedEventCount' = 0
    /\ droppedEventCount' = 0
    /\ UNCHANGED <<contents, signals, settings, calls, sweep, clearing, refs>>

----------------------------------------------------------------------------
CallStep(p) ==
    \/ Reject(p)
    \/ Block(p)
    \/ Awake(p)
    \/ Admit(p)
    \/ FailToAdmit(p)
    \/ ReturnRefused(p)
    \/ ReturnAdmitted(p)

WorkerStep ==
    \/ BeginSweep
    \/ SkipCollection
    \/ TakeCollection
    \/ BeginCallback
    \/ EndCallback
    \/ ThrowFromCallback
    \/ FinishCollection

OwnerStep ==
    \/ StopAcceptingEvents
    \/ ClearPendingEvents
    \/ ReleaseCleared
    \/ \E m \in NewMaxima : SetMaximumPendingEventCount(m)
    \/ \E policy \in NewPolicies : SetEventQueueOverflowPolicy(policy)
    \/ ResetEventQueueStatistics

Next ==
    \/ \E p \in Callers :
        \/ \E e \in Events, as \in OfferedAs[p] : Offer(p, e, as)
        \/ CallStep(p)
    \/ WorkerStep
    \/ OwnerStep

Spec == Init /\ [][Next]_vars

\* A thread inside AddEvent is scheduled again and its 10 ms wait ends, whatever
\* the owner does.
CallerFairness == \A p \in Callers : WF_vars(CallStep(p))

FairSpec == Spec /\ CallerFairness

----------------------------------------------------------------------------
\* Properties.

\* Type invariant of the mailbox, its callers and its sweep.
TypeOK ==
    /\ mailbox \in SUBSET Entries
    /\ {pendingEventCount, processingEventCount, peakPendingEventCount} \subseteq Nat
    /\ maximumPendingEventCount \in Nat
    /\ overflowPolicy \in Policies
    /\ {nextSequence, rejectedEventCount, droppedEventCount} \subseteq Nat
    /\ acceptingPendingEvents \in BOOLEAN
    /\ capacityAvailable \in BOOLEAN
    /\ pc \in [Callers -> {"idle", "enter", "wait", "retry", "refused", "admitted"}]
    /\ offer \in [Callers -> Offers \cup {NoOffer}]
    /\ displaced \in [Callers -> SUBSET Entries]
    /\ workerPC \in {"idle", "sweep", "batch", "callback", "unwind"}
    /\ slot \in 0 .. 6
    /\ batch \in SUBSET Entries
    /\ batchSize \in Nat
    /\ clearing \in SUBSET Entries
    /\ refs \in [Events -> Nat]
    /\ fresh \in SUBSET Events
    /\ offers \in Nat
    /\ sweepMark \in Nat
    /\ handled \in SUBSET Nat
    /\ lost \in SUBSET Nat

\* The counters the capacity test, the statistics and EventThread's choice of
\* wait rely on are what is really there, through evictions, clears, failed
\* insertions and throwing callbacks; a batch counts in full until its last
\* callback is over, and the reported peak is never under the present count.
CountsExact ==
    /\ pendingEventCount = Cardinality(mailbox)
    /\ processingEventCount = batchSize
    /\ Cardinality(batch) <= batchSize
    /\ pendingEventCount <= peakPendingEventCount

\* The callers that are between __ref and handing the reference on.
Offering(e) ==
    {p \in Callers : pc[p] \in {"enter", "wait", "retry", "refused"} /\ offer[p].event = e}

\* Every reference is accounted for by exactly one holder: the mailbox, the batch
\* being processed, the entries being cleared, an evicted entry, or a call that
\* has not ended.  So no path leaks an event, and none deletes it while another
\* thread can still reach it.
ReferencesExact ==
    \A e \in Events :
        refs[e] = (IF e \in Shared THEN 1 ELSE 0)
                  + Held(mailbox \cup batch \cup clearing)[e]
                  + Held(UNION {displaced[p] : p \in Callers})[e]
                  + Cardinality(Offering(e))

\* An admitted event is pending, in the batch, handled or given up, and no two of
\* these, but for the one whose callback is running: it is handled once at most,
\* and it never disappears unhandled from a batch whose callbacks all return.
OneFate ==
    LET open == Sequences(mailbox)
        taken == Sequences(batch)
        running == IF workerPC = "callback" THEN Sequences(NextInBatch) ELSE {}
    IN  /\ open \cup taken \cup handled \cup lost = 0 .. nextSequence - 1
        /\ open \cap taken = {} /\ open \cap (handled \cup lost) = {}
        /\ taken \cap lost = {} /\ handled \cap lost = {}
        /\ taken \cap handled = running

\* While an entry of a queue is in its callback, nothing of its priority admitted
\* before it is still waiting (FIFO); while one of a stack is, everything of its
\* batch still waiting was admitted before it (LIFO), and what arrived since the
\* batch was taken is not mixed into it.
DeliveryOrder ==
    workerPC = "callback" =>
        \A x \in NextInBatch :
            LET same(y) == y.method = x.method /\ y.priority = x.priority
            IN  /\ \A y \in batch : same(y)
                /\ \A y \in batch :
                       IF x.method = "Queue" THEN y.sequence >= x.sequence
                                             ELSE y.sequence <= x.sequence
                /\ \A y \in mailbox, z \in batch : same(y) => y.sequence > z.sequence

\* Of what was pending when a sweep began, nothing is left behind that the sweep
\* should have delivered before the entry it delivers now: a stacked event comes
\* before a queued one, and a higher priority before a lower one of its method.
SweepDrainsInOrder ==
    workerPC = "callback" =>
        \A x \in NextInBatch, y \in mailbox :
            y.sequence < sweepMark =>
                \/ y.method = "Queue" /\ x.method = "Stack"
                \/ y.method = x.method /\ y.priority <= x.priority

\* A sweep that no exception ends leaves nothing in the mailbox that was there
\* when it began.
SweepLeavesNothing ==
    [][slot # 0 /\ workerPC # "unwind" /\ workerPC' = "idle"
          => \A y \in mailbox : y.sequence >= sweepMark]_vars

\* What the module Mailbox sees of this one: the numbers for the entries, and of what is
\* pending in a sweep what was there when it began.
Due == IF workerPC = "idle" THEN {} ELSE {n \in Sequences(mailbox) : n < sweepMark}

Sweeping == CASE workerPC = "idle"   -> "idle"
              [] workerPC = "unwind" -> "unwind"
              [] OTHER               -> "sweep"

M == INSTANCE Mailbox WITH
        maximum <- maximumPendingEventCount,
        issued <- nextSequence,
        pending <- Sequences(mailbox),
        taken <- Sequences(batch),
        counted <- batchSize,
        handled <- handled,
        gone <- lost,
        due <- Due,
        sweeping <- Sweeping

\* The mailbox implements that promise: behind its counters, which AddEvent trusts, its six
\* collections, which a sweep takes one after the other, and its unlocked callbacks there is
\* one bounded set, evicted from only when it is really full, each of whose admissions has
\* one fate, and none of which a sweep that was not thrown out of leaves behind.
ImplementsMailbox == M!Spec

\* What the mailbox really holds, the batch in process included, grows to the
\* maximum in force and no further, whatever the policy, however many threads
\* retry at once, and however the maximum was changed before.
AdmissionRespectsMaximum ==
    [][LET held == Cardinality(mailbox) + Cardinality(batch)
       IN  held' > held /\ maximumPendingEventCount # 0 => held' <= maximumPendingEventCount]_vars

\* After StopAcceptingEvents the only calls that can still bring an event in are
\* blocking ones that were already past their first test of acceptance: none that
\* starts later, and no Try call, so no fan-out of the broker.
StopAdmitsOnlyWaiters ==
    [][\A p \in Callers :
        ~acceptingPendingEvents /\ pc[p] # "admitted" /\ pc'[p] = "admitted" =>
            pc[p] = "retry" /\ offer[p].blocking]_vars

\* "Stops accepting events" (EventThread.hpp, Terminate): once StopAcceptingEvents
\* has run, nothing is admitted any more.
NoAdmissionAfterStop ==
    [][~acceptingPendingEvents => mailbox' \subseteq mailbox]_vars

\* "higher priorities drain first" (EventReceiver.hpp, the class comment): no
\* callback runs while an event of a higher priority that was there when the sweep
\* began is still pending.
HigherPriorityFirst ==
    workerPC = "callback" =>
        \A x \in NextInBatch, y \in mailbox :
            y.sequence < sweepMark => y.priority <= x.priority

\* The callers that may come to wait for capacity.
Producers == {p \in Callers : \E as \in OfferedAs[p] : as.blocking}

\* A producer that waits for capacity when the mailbox is stopped returns, even
\* when the owner never processes another event.
StopReleasesWaiters ==
    \A p \in Producers :
        ~acceptingPendingEvents /\ pc[p] = "wait" ~> pc[p] = "idle"

\* The owner keeps sweeping and its callbacks end.
WorkerRuns == WF_vars(WorkerStep)

\* From some time on no call gets in any more: none is made, or none is admitted.
AdmissionsEnd == <>[][nextSequence' = nextSequence]_vars

\* No producer waits for ever beside a mailbox that others have stopped filling, whichever
\* of them took the one signal they share, and however it was stopped, cleared, resized and
\* offered to before.  (While offers go on, others may take the room before each of its
\* looks: what the wait promises is that somebody gets in, not who.)
WaitersReturn ==
    WorkerRuns /\ AdmissionsEnd => \A p \in Producers : pc[p] = "wait" ~> pc[p] = "idle"

\* And every pending event is handled or, by an eviction, a clear or a throw, given up.
PendingEventsSettle ==
    WorkerRuns => \A n \in 0 .. MaxOffers - 1 :
        n \in Sequences(mailbox) ~> n \in handled \cup lost

============================================================================
