------------------------ MODULE EventReceiverProofs ------------------------
(***************************************************************************)
(* What EventReceiver guarantees for any set of threads and events, any    *)
(* maximum and any policy.  One inductive invariant carries it all: the    *)
(* type invariant, the finiteness of everything the receiver holds, what a *)
(* thread's position in AddEvent or in ProcessCollection says about its    *)
(* locals, the counters, and the order of the sequence numbers.            *)
(***************************************************************************)
EXTENDS EventReceiver, FiniteSetTheorems, TLAPS

\* Only finitely many entries are ever held.
FiniteParts ==
    /\ IsFiniteSet(mailbox)
    /\ IsFiniteSet(batch)
    /\ IsFiniteSet(clearing)
    /\ \A p \in Callers : IsFiniteSet(displaced[p])

\* What a call holds while it runs.
CallStructure ==
    \A p \in Callers :
        /\ pc[p] # "idle" => offer[p] \in Offers
        /\ pc[p] \in {"wait", "retry"} => offer[p].blocking

\* What ProcessCollection holds at each of its points.
SweepStructure ==
    /\ IF workerPC = "idle" THEN slot = 0 ELSE slot \in 1 .. 6
    /\ workerPC \in {"idle", "sweep", "unwind"} => batch = {}
    /\ workerPC \in {"idle", "sweep"} => batchSize = 0

\* A number is used once and is older than the next one; the batch is one vector,
\* taken whole, so what its slot holds now arrived later.
SequenceOrder ==
    /\ \A x \in mailbox \cup batch : x.sequence < nextSequence
    /\ \A x, y \in mailbox : x.sequence = y.sequence => x = y
    /\ \A z \in batch : SlotOf(z) = slot
    /\ \A y \in mailbox, z \in batch : SlotOf(y) = slot => y.sequence > z.sequence

\* What was pending when the sweep began is now in a slot still to be visited.
SweepOrder ==
    /\ sweepMark <= nextSequence
    /\ workerPC # "idle" =>
           \A y \in mailbox : y.sequence < sweepMark =>
               /\ SlotOf(y) >= slot
               /\ workerPC # "sweep" => SlotOf(y) # slot

IInv ==
    /\ TypeOK /\ FiniteParts /\ CallStructure /\ SweepStructure
    /\ CountsExact /\ SequenceOrder /\ SweepOrder

----------------------------------------------------------------------------
\* Lemmas about the operators.

\* Taking a part out of a finite set takes its cardinality off.
LEMMA CardinalityOfDifference ==
    ASSUME NEW S, IsFiniteSet(S), NEW T, T \subseteq S
    PROVE  /\ IsFiniteSet(T) /\ IsFiniteSet(S \ T)
           /\ Cardinality(S) \in Nat /\ Cardinality(T) \in Nat /\ Cardinality(S \ T) \in Nat
           /\ Cardinality(S \ T) = Cardinality(S) - Cardinality(T)
           /\ T # {} => Cardinality(T) >= 1
<1>1. IsFiniteSet(T) /\ IsFiniteSet(S \ T)
  <2>1. T \in SUBSET S /\ S \ T \in SUBSET S
    OBVIOUS
  <2> QED
    BY <2>1, FS_Subset
<1>2. Cardinality(S) \in Nat /\ Cardinality(T) \in Nat /\ Cardinality(S \ T) \in Nat
  BY <1>1, FS_CardinalityType
<1>3. Cardinality(S) = Cardinality(S \ T) + Cardinality(T) - Cardinality({})
  <2>1. (S \ T) \cup T = S /\ (S \ T) \cap T = {}
    OBVIOUS
  <2> QED
    BY <1>1, <2>1, FS_Union
<1>4. T # {} => Cardinality(T) >= 1
  BY <1>1, <1>2, FS_EmptySet
<1> QED
  BY <1>1, <1>2, <1>3, <1>4, FS_EmptySet

\* Held counts: a natural number for each event.
LEMMA HeldType ==
    ASSUME NEW S, IsFiniteSet(S)
    PROVE  Held(S) \in [Events -> Nat]
<1>1. ASSUME NEW e \in Events
      PROVE  Cardinality({x \in S : x.event = e}) \in Nat
  BY {x \in S : x.event = e} \subseteq S, CardinalityOfDifference
<1> QED
  BY <1>1 DEF Held

\* Releasing references never takes a count below zero.
LEMMA UnrefType ==
    ASSUME refs \in [Events -> Nat], NEW n \in [Events -> Nat]
    PROVE  Unref(n) \in [Events -> Nat]
BY DEF Unref

\* The slots of WithEvents are numbered 1 to 6.
LEMMA SlotType ==
    ASSUME NEW x \in Entries
    PROVE  SlotOf(x) \in 1 .. 6
BY DEF SlotOf, Entries, Priorities, Methods

\* Moving on keeps the worker in one of the six slots or outside the sweep.
LEMMA NextSlotType ==
    ASSUME slot \in 1 .. 6, NextSlot
    PROVE  /\ workerPC' \in {"idle", "sweep"}
           /\ slot' \in 0 .. 6
           /\ IF workerPC' = "idle" THEN slot' = 0 ELSE slot' \in 1 .. 6
BY DEF NextSlot

----------------------------------------------------------------------------
\* Types, and with them what the threads hold.

\* What Admit and FailToAdmit take out of the mailbox is a finite part of it.
LEMMA RoomType ==
    ASSUME IInv, NEW S \in SUBSET mailbox
    PROVE  /\ S \in SUBSET Entries /\ IsFiniteSet(S)
           /\ Sequences(S) \in SUBSET Nat
           /\ mailbox \ S \in SUBSET Entries /\ IsFiniteSet(mailbox \ S)
           /\ Cardinality(S) \in Nat /\ Cardinality(mailbox \ S) \in Nat
           /\ Cardinality(mailbox \ S) = pendingEventCount - Cardinality(S)
<1>1. IsFiniteSet(mailbox) /\ mailbox \in SUBSET Entries /\ pendingEventCount = Cardinality(mailbox)
  BY DEF IInv, TypeOK, FiniteParts, CountsExact
<1>2. Sequences(S) \in SUBSET Nat
  BY <1>1 DEF Sequences, Entries
<1> QED
  BY <1>1, <1>2, CardinalityOfDifference

\* The entry an admission adds.
LEMMA NewEntryType ==
    ASSUME IInv, NEW p \in Callers, pc[p] # "idle"
    PROVE  [event |-> offer[p].event, priority |-> offer[p].priority,
            method |-> offer[p].method, sequence |-> nextSequence] \in Entries
BY DEF IInv, TypeOK, CallStructure, Offers, Entries

LEMMA CallKeepsTypes ==
    ASSUME IInv, NEW p \in Callers,
           CallStep(p) \/ \E e \in Events, as \in OfferedAs[p] : Offer(p, e, as)
    PROVE  TypeOK'
<1>0. TypeOK /\ FiniteParts /\ CallStructure /\ SweepStructure /\ CountsExact
  BY DEF IInv
<1> USE <1>0 DEF TypeOK, contents, signals, statistics, settings, request, calls, progress, sweep
<1>1. CASE \E e \in Events, as \in OfferedAs[p] : Offer(p, e, as)
  <2>1. PICK e \in Events, as \in OfferedAs[p] : Offer(p, e, as)
    BY <1>1
  <2>2. as \in [priority : Priorities, method : Methods, blocking : BOOLEAN]
    BY <2>1, OfferedAsAssumption
  <2>3. [event |-> e, priority |-> as.priority, method |-> as.method,
         blocking |-> as.blocking] \in Offers
    BY <2>2 DEF Offers
  <2>4. offer' \in [Callers -> Offers \cup {NoOffer}]
    BY <2>1, <2>3 DEF Offer
  <2>5. refs' \in [Events -> Nat] /\ fresh' \in SUBSET Events /\ offers' \in Nat
    BY <2>1 DEF Offer
  <2>6. pc' \in [Callers -> {"idle", "enter", "wait", "retry", "refused", "admitted"}]
    BY <2>1 DEF Offer
  <2> QED
    BY <2>1, <2>4, <2>5, <2>6 DEF Offer
<1>2. CASE Reject(p)
  BY <1>2 DEF Reject
<1>3. CASE Block(p)
  BY <1>3 DEF Block
<1>4. CASE Awake(p)
  BY <1>4 DEF Awake
<1>5. CASE Admit(p)
  <2>1. PICK S \in SUBSET mailbox : Admit(p)!(S)
    BY <1>5 DEF Admit
  <2>2. pc[p] # "idle"
    BY <2>1 DEF MakesRoom, InAddEvent
  <2>3. /\ S \in SUBSET Entries /\ mailbox \ S \in SUBSET Entries
        /\ Sequences(S) \in SUBSET Nat /\ Cardinality(S) \in Nat
        /\ pendingEventCount - Cardinality(S) \in Nat
    BY RoomType
  <2>4. mailbox' \in SUBSET Entries
    BY <2>1, <2>2, <2>3, NewEntryType
  <2>5. {pendingEventCount', peakPendingEventCount', nextSequence', droppedEventCount'} \subseteq Nat
    BY <2>1, <2>3
  <2>6. displaced' \in [Callers -> SUBSET Entries] /\ lost' \in SUBSET Nat
    BY <2>1, <2>3
  <2>7. pc' \in [Callers -> {"idle", "enter", "wait", "retry", "refused", "admitted"}]
    BY <2>1
  <2> QED
    BY <2>1, <2>4, <2>5, <2>6, <2>7
<1>6. CASE FailToAdmit(p)
  <2>1. PICK S \in SUBSET mailbox : FailToAdmit(p)!2!(S)
    BY <1>6 DEF FailToAdmit
  <2>2. /\ S \in SUBSET Entries /\ mailbox \ S \in SUBSET Entries
        /\ Sequences(S) \in SUBSET Nat /\ Cardinality(S) \in Nat
        /\ pendingEventCount - Cardinality(S) \in Nat
    BY RoomType
  <2>3. {pendingEventCount', nextSequence', droppedEventCount'} \subseteq Nat
    BY <2>1, <2>2
  <2>4. displaced' \in [Callers -> SUBSET Entries] /\ lost' \in SUBSET Nat
    BY <2>1, <2>2
  <2>5. pc' \in [Callers -> {"idle", "enter", "wait", "retry", "refused", "admitted"}]
    BY <2>1
  <2> QED
    BY <2>1, <2>2, <2>3, <2>4, <2>5
<1>7. CASE ReturnRefused(p)
  <2> DEFINE n == [e \in Events |-> Held(displaced[p])[e] + (IF e = offer[p].event THEN 1 ELSE 0)]
  <2>1. Held(displaced[p]) \in [Events -> Nat]
    BY HeldType DEF FiniteParts
  <2>2. n \in [Events -> Nat]
    BY <2>1
  <2>3. Unref(n) \in [Events -> Nat]
    BY <2>2, UnrefType
  <2> QED
    BY <1>7, <2>3 DEF ReturnRefused
<1>8. CASE ReturnAdmitted(p)
  <2>1. Unref(Held(displaced[p])) \in [Events -> Nat]
    BY HeldType, UnrefType DEF FiniteParts
  <2> QED
    BY <1>8, <2>1 DEF ReturnAdmitted
<1> QED
  BY <1>1, <1>2, <1>3, <1>4, <1>5, <1>6, <1>7, <1>8 DEF CallStep

\* The entries of one slot, as a part of the mailbox.
LEMMA CollectionType ==
    ASSUME IInv
    PROVE  Collection(slot) \in SUBSET mailbox
BY DEF Collection

\* The entry in its callback belongs to the batch.
LEMMA NextInBatchType ==
    NextInBatch \in SUBSET batch
BY DEF NextInBatch, Newest, Oldest

LEMMA WorkerKeepsTypes ==
    ASSUME IInv, WorkerStep
    PROVE  TypeOK'
<1>0. TypeOK /\ FiniteParts /\ CallStructure /\ SweepStructure /\ CountsExact
  BY DEF IInv
<1> USE <1>0 DEF TypeOK, contents, signals, statistics, settings, request, calls, progress, sweep
<1>1. CASE BeginSweep
  BY <1>1 DEF BeginSweep
<1>2. CASE SkipCollection
  BY <1>2, NextSlotType DEF SkipCollection, SweepStructure
<1>3. CASE TakeCollection
  <2>1. /\ Collection(slot) \in SUBSET Entries /\ mailbox \ Collection(slot) \in SUBSET Entries
        /\ Cardinality(Collection(slot)) \in Nat
        /\ pendingEventCount - Cardinality(Collection(slot)) \in Nat
    BY CollectionType, RoomType
  <2> QED
    BY <1>3, <2>1 DEF TakeCollection
<1>4. CASE BeginCallback
  <2>1. Sequences(NextInBatch) \in SUBSET Nat
    BY NextInBatchType DEF Sequences, Entries
  <2> QED
    BY <1>4, <2>1 DEF BeginCallback
<1>5. CASE EndCallback
  <2>1. IsFiniteSet(NextInBatch)
    BY NextInBatchType, FS_Subset DEF FiniteParts
  <2>2. Unref(Held(NextInBatch)) \in [Events -> Nat]
    BY <2>1, HeldType, UnrefType
  <2> QED
    BY <1>5, <2>2 DEF EndCallback
<1>6. CASE ThrowFromCallback
  <2>1. Unref(Held(batch)) \in [Events -> Nat]
    BY HeldType, UnrefType DEF FiniteParts
  <2>2. Sequences(batch) \in SUBSET Nat
    BY DEF Sequences, Entries
  <2> QED
    BY <1>6, <2>1, <2>2 DEF ThrowFromCallback
<1>7. CASE FinishCollection
  <2>1. processingEventCount' = 0
    BY <1>7 DEF FinishCollection, StopCounting, CountsExact
  <2>2. workerPC' \in {"idle", "sweep"} /\ slot' \in 0 .. 6
    BY <1>7, NextSlotType DEF FinishCollection, SweepStructure
  <2> QED
    BY <1>7, <2>1, <2>2 DEF FinishCollection
<1> QED
  BY <1>1, <1>2, <1>3, <1>4, <1>5, <1>6, <1>7 DEF WorkerStep

LEMMA OwnerKeepsTypes ==
    ASSUME IInv, OwnerStep
    PROVE  TypeOK'
<1>0. TypeOK /\ FiniteParts /\ CallStructure /\ SweepStructure /\ CountsExact
  BY DEF IInv
<1> USE <1>0 DEF TypeOK, contents, signals, statistics, settings, request, calls, progress, sweep
<1>1. CASE StopAcceptingEvents
  BY <1>1 DEF StopAcceptingEvents
<1>2. CASE ClearPendingEvents
  <2>1. Sequences(mailbox) \in SUBSET Nat
    BY RoomType
  <2>2. lost' \in SUBSET Nat
    BY <1>2, <2>1 DEF ClearPendingEvents
  <2>3. mailbox' \in SUBSET Entries /\ clearing' \in SUBSET Entries
    BY <1>2 DEF ClearPendingEvents
  <2>4. {pendingEventCount', processingEventCount', peakPendingEventCount'} \subseteq Nat
    BY <1>2 DEF ClearPendingEvents
  <2> QED
    BY <1>2, <2>2, <2>3, <2>4 DEF ClearPendingEvents
<1>3. CASE ReleaseCleared
  <2>1. Unref(Held(clearing)) \in [Events -> Nat]
    BY HeldType, UnrefType DEF FiniteParts
  <2> QED
    BY <1>3, <2>1 DEF ReleaseCleared
<1>4. CASE \E m \in NewMaxima : SetMaximumPendingEventCount(m)
  BY <1>4, MaximaAssumption DEF SetMaximumPendingEventCount
<1>5. CASE \E policy \in NewPolicies : SetEventQueueOverflowPolicy(policy)
  BY <1>5, PoliciesAssumption DEF SetEventQueueOverflowPolicy
<1>6. CASE ResetEventQueueStatistics
  BY <1>6 DEF ResetEventQueueStatistics
<1> QED
  BY <1>1, <1>2, <1>3, <1>4, <1>5, <1>6 DEF OwnerStep

----------------------------------------------------------------------------
\* What is held stays finite.

LEMMA CallKeepsFinite ==
    ASSUME IInv, NEW p \in Callers,
           CallStep(p) \/ \E e \in Events, as \in OfferedAs[p] : Offer(p, e, as)
    PROVE  FiniteParts'
<1>0. TypeOK /\ FiniteParts
  BY DEF IInv
<1> USE <1>0 DEF FiniteParts, contents, signals, statistics, settings, request, calls, progress, sweep
<1>1. CASE \E e \in Events, as \in OfferedAs[p] : Offer(p, e, as)
  BY <1>1 DEF Offer
<1>2. CASE Reject(p) \/ Block(p) \/ Awake(p)
  BY <1>2 DEF Reject, Block, Awake
<1>3. CASE Admit(p)
  <2>1. PICK S \in SUBSET mailbox : Admit(p)!(S)
    BY <1>3 DEF Admit
  <2>2. IsFiniteSet(S) /\ IsFiniteSet(mailbox \ S)
    BY RoomType
  <2>3. IsFiniteSet(mailbox')
    BY <2>1, <2>2, FS_AddElement
  <2>4. displaced' = [displaced EXCEPT ![p] = S] /\ displaced \in [Callers -> SUBSET Entries]
    BY <2>1 DEF TypeOK
  <2> QED
    BY <2>1, <2>2, <2>3, <2>4
<1>4. CASE FailToAdmit(p)
  <2>1. PICK S \in SUBSET mailbox : FailToAdmit(p)!2!(S)
    BY <1>4 DEF FailToAdmit
  <2>2. IsFiniteSet(S) /\ IsFiniteSet(mailbox \ S)
    BY RoomType
  <2>3. displaced' = [displaced EXCEPT ![p] = S] /\ displaced \in [Callers -> SUBSET Entries]
    BY <2>1 DEF TypeOK
  <2> QED
    BY <2>1, <2>2, <2>3
<1>5. CASE ReturnRefused(p) \/ ReturnAdmitted(p)
  <2>1. displaced' = [displaced EXCEPT ![p] = {}] /\ displaced \in [Callers -> SUBSET Entries]
    BY <1>5 DEF ReturnRefused, ReturnAdmitted, TypeOK
  <2> QED
    BY <1>5, <2>1, FS_EmptySet DEF ReturnRefused, ReturnAdmitted
<1> QED
  BY <1>1, <1>2, <1>3, <1>4, <1>5 DEF CallStep

LEMMA WorkerKeepsFinite ==
    ASSUME IInv, WorkerStep
    PROVE  FiniteParts'
<1>0. TypeOK /\ FiniteParts
  BY DEF IInv
<1> USE <1>0 DEF FiniteParts, contents, signals, statistics, settings, request, calls, progress, sweep
<1>1. CASE BeginSweep \/ SkipCollection \/ BeginCallback
  BY <1>1 DEF BeginSweep, SkipCollection, BeginCallback
<1>2. CASE TakeCollection
  <2>1. IsFiniteSet(Collection(slot)) /\ IsFiniteSet(mailbox \ Collection(slot))
    BY CollectionType, RoomType
  <2> QED
    BY <1>2, <2>1 DEF TakeCollection
<1>3. CASE EndCallback
  <2>1. IsFiniteSet(batch \ NextInBatch)
    BY FS_Subset
  <2> QED
    BY <1>3, <2>1 DEF EndCallback
<1>4. CASE ThrowFromCallback
  BY <1>4, FS_EmptySet DEF ThrowFromCallback
<1>5. CASE FinishCollection
  BY <1>5, FS_EmptySet DEF FinishCollection
<1> QED
  BY <1>1, <1>2, <1>3, <1>4, <1>5 DEF WorkerStep

LEMMA OwnerKeepsFinite ==
    ASSUME IInv, OwnerStep
    PROVE  FiniteParts'
<1>0. FiniteParts
  BY DEF IInv
<1> USE <1>0 DEF FiniteParts, contents, signals, statistics, settings, request, calls, progress, sweep
<1>1. CASE ClearPendingEvents
  BY <1>1, FS_EmptySet DEF ClearPendingEvents
<1>2. CASE ReleaseCleared
  BY <1>2, FS_EmptySet DEF ReleaseCleared
<1>3. CASE \/ StopAcceptingEvents
           \/ \E m \in NewMaxima : SetMaximumPendingEventCount(m)
           \/ \E policy \in NewPolicies : SetEventQueueOverflowPolicy(policy)
           \/ ResetEventQueueStatistics
  BY <1>3 DEF StopAcceptingEvents, SetMaximumPendingEventCount, SetEventQueueOverflowPolicy,
              ResetEventQueueStatistics
<1> QED
  BY <1>1, <1>2, <1>3 DEF OwnerStep

----------------------------------------------------------------------------
\* A thread's position says what it holds.

LEMMA CallKeepsStructure ==
    ASSUME IInv, NEW p \in Callers,
           CallStep(p) \/ \E e \in Events, as \in OfferedAs[p] : Offer(p, e, as)
    PROVE  CallStructure' /\ SweepStructure'
<1>0. TypeOK /\ CallStructure /\ SweepStructure
  BY DEF IInv
<1>1. pc \in [Callers -> {"idle", "enter", "wait", "retry", "refused", "admitted"}]
      /\ offer \in [Callers -> Offers \cup {NoOffer}]
  BY <1>0 DEF TypeOK
<1> USE DEF contents, signals, statistics, settings, request, calls, progress, sweep
<1>2. SweepStructure'
  BY <1>0 DEF SweepStructure, CallStep, Offer, Reject, Block, Awake, Admit, FailToAdmit,
              ReturnRefused, ReturnAdmitted
<1>3. CallStructure'
  <2> USE <1>0, <1>1 DEF CallStructure
  <2>1. CASE \E e \in Events, as \in OfferedAs[p] : Offer(p, e, as)
    <3>1. PICK e \in Events, as \in OfferedAs[p] : Offer(p, e, as)
      BY <2>1
    <3>2. as \in [priority : Priorities, method : Methods, blocking : BOOLEAN]
      BY <3>1, OfferedAsAssumption
    <3>3. [event |-> e, priority |-> as.priority, method |-> as.method,
           blocking |-> as.blocking] \in Offers
      BY <3>2 DEF Offers
    <3> QED
      BY <3>1, <3>3 DEF Offer
  <2>2. CASE Reject(p)
    BY <2>2 DEF Reject, InAddEvent
  <2>3. CASE Block(p)
    BY <2>3 DEF Block, InAddEvent
  <2>4. CASE Awake(p)
    BY <2>4 DEF Awake
  <2>5. CASE Admit(p)
    BY <2>5 DEF Admit, MakesRoom, InAddEvent
  <2>6. CASE FailToAdmit(p)
    BY <2>6 DEF FailToAdmit, MakesRoom, InAddEvent
  <2>7. CASE ReturnRefused(p) \/ ReturnAdmitted(p)
    BY <2>7 DEF ReturnRefused, ReturnAdmitted
  <2> QED
    BY <2>1, <2>2, <2>3, <2>4, <2>5, <2>6, <2>7 DEF CallStep
<1> QED
  BY <1>2, <1>3

LEMMA WorkerKeepsStructure ==
    ASSUME IInv, WorkerStep
    PROVE  CallStructure' /\ SweepStructure'
<1>0. TypeOK /\ CallStructure /\ SweepStructure
  BY DEF IInv
<1> USE DEF contents, signals, statistics, settings, request, calls, progress, sweep
<1>1. CallStructure'
  BY <1>0 DEF CallStructure, WorkerStep, BeginSweep, SkipCollection, TakeCollection, BeginCallback,
              EndCallback, ThrowFromCallback, FinishCollection
<1>2. SweepStructure'
  <2> USE <1>0 DEF SweepStructure
  <2>1. CASE BeginSweep
    BY <2>1 DEF BeginSweep
  <2>2. CASE SkipCollection
    BY <2>2, NextSlotType DEF SkipCollection
  <2>3. CASE TakeCollection
    BY <2>3 DEF TakeCollection
  <2>4. CASE BeginCallback
    BY <2>4 DEF BeginCallback
  <2>5. CASE EndCallback
    BY <2>5 DEF EndCallback
  <2>6. CASE ThrowFromCallback
    BY <2>6 DEF ThrowFromCallback
  <2>7. CASE FinishCollection
    BY <2>7, NextSlotType DEF FinishCollection
  <2> QED
    BY <2>1, <2>2, <2>3, <2>4, <2>5, <2>6, <2>7 DEF WorkerStep
<1> QED
  BY <1>1, <1>2

LEMMA OwnerKeepsStructure ==
    ASSUME IInv, OwnerStep
    PROVE  CallStructure' /\ SweepStructure'
<1>0. CallStructure /\ SweepStructure
  BY DEF IInv
<1> USE DEF contents, signals, statistics, settings, request, calls, progress, sweep
<1> QED
  BY <1>0 DEF CallStructure, SweepStructure, OwnerStep, StopAcceptingEvents, ClearPendingEvents,
              ReleaseCleared, SetMaximumPendingEventCount, SetEventQueueOverflowPolicy,
              ResetEventQueueStatistics

----------------------------------------------------------------------------
\* The counters stay exact.

LEMMA CallKeepsCounts ==
    ASSUME IInv, NEW p \in Callers,
           CallStep(p) \/ \E e \in Events, as \in OfferedAs[p] : Offer(p, e, as)
    PROVE  CountsExact'
<1>0. TypeOK /\ FiniteParts /\ CountsExact /\ SequenceOrder
  BY DEF IInv
<1> USE <1>0 DEF CountsExact, contents, signals, statistics, settings, request, calls, progress, sweep
<1>1. CASE \E e \in Events, as \in OfferedAs[p] : Offer(p, e, as)
  BY <1>1 DEF Offer
<1>2. CASE Reject(p) \/ Block(p) \/ Awake(p) \/ ReturnRefused(p) \/ ReturnAdmitted(p)
  BY <1>2 DEF Reject, Block, Awake, ReturnRefused, ReturnAdmitted
<1>3. CASE Admit(p)
  <2>1. PICK S \in SUBSET mailbox : Admit(p)!(S)
    BY <1>3 DEF Admit
  <2>2. /\ IsFiniteSet(mailbox \ S)
        /\ Cardinality(S) \in Nat /\ Cardinality(mailbox \ S) \in Nat
        /\ Cardinality(mailbox \ S) = pendingEventCount - Cardinality(S)
    BY RoomType
  <2> DEFINE x == [event |-> offer[p].event, priority |-> offer[p].priority,
                   method |-> offer[p].method, sequence |-> nextSequence]
  <2>3. x \notin mailbox \ S
    <3>1. x.sequence = nextSequence /\ nextSequence \in Nat
      BY DEF TypeOK
    <3> QED
      BY <3>1 DEF SequenceOrder
  <2> HIDE DEF x
  <2>4. mailbox' = (mailbox \ S) \cup {x}
    BY <2>1 DEF x
  <2>5. Cardinality(mailbox') = pendingEventCount - Cardinality(S) + 1
    BY <2>2, <2>3, <2>4, FS_AddElement
  <2>6. pendingEventCount' <= peakPendingEventCount'
    <3>1. pendingEventCount' \in Int /\ processingEventCount \in Nat /\ peakPendingEventCount \in Nat
      BY <2>1, <2>2 DEF TypeOK
    <3> QED
      BY <2>1, <3>1
  <2> QED
    BY <2>1, <2>5, <2>6
<1>4. CASE FailToAdmit(p)
  <2>1. PICK S \in SUBSET mailbox : FailToAdmit(p)!2!(S)
    BY <1>4 DEF FailToAdmit
  <2>2. /\ Cardinality(S) \in Nat
        /\ Cardinality(mailbox \ S) = pendingEventCount - Cardinality(S)
    BY RoomType
  <2>3. pendingEventCount - Cardinality(S) <= peakPendingEventCount
    BY <2>2 DEF TypeOK
  <2> QED
    BY <2>1, <2>2, <2>3
<1> QED
  BY <1>1, <1>2, <1>3, <1>4 DEF CallStep

LEMMA WorkerKeepsCounts ==
    ASSUME IInv, WorkerStep
    PROVE  CountsExact'
<1>0. TypeOK /\ FiniteParts /\ SweepStructure /\ CountsExact
  BY DEF IInv
<1> USE <1>0 DEF CountsExact, contents, signals, statistics, settings, request, calls, progress, sweep
<1>1. CASE BeginSweep \/ SkipCollection \/ BeginCallback
  BY <1>1 DEF BeginSweep, SkipCollection, BeginCallback
<1>2. CASE TakeCollection
  <2> DEFINE C == Collection(slot)
  <2>1. /\ Cardinality(C) \in Nat /\ Cardinality(mailbox \ C) \in Nat
        /\ Cardinality(mailbox \ C) = pendingEventCount - Cardinality(C)
    BY CollectionType, RoomType
  <2>2. processingEventCount = 0
    BY <1>2 DEF TakeCollection, SweepStructure
  <2>3. /\ mailbox' = mailbox \ C /\ batch' = C /\ batchSize' = Cardinality(C)
        /\ pendingEventCount' = pendingEventCount - Cardinality(C)
        /\ processingEventCount' = processingEventCount + Cardinality(C)
        /\ peakPendingEventCount' = peakPendingEventCount
    BY <1>2 DEF TakeCollection
  <2> HIDE DEF C
  <2>4. pendingEventCount \in Nat /\ peakPendingEventCount \in Nat
    BY DEF TypeOK
  <2> QED
    BY <2>1, <2>2, <2>3, <2>4
<1>3. CASE EndCallback
  <2>1. Cardinality(batch \ NextInBatch) <= Cardinality(batch)
        /\ Cardinality(batch) \in Nat /\ Cardinality(batch \ NextInBatch) \in Nat
    BY FS_Subset, FS_CardinalityType DEF FiniteParts
  <2>2. Cardinality(batch \ NextInBatch) <= batchSize
    BY <2>1 DEF TypeOK
  <2> QED
    BY <1>3, <2>2 DEF EndCallback
<1>4. CASE ThrowFromCallback
  <2>1. Cardinality({}) <= batchSize
    BY FS_EmptySet DEF TypeOK
  <2> QED
    BY <1>4, <2>1 DEF ThrowFromCallback
<1>5. CASE FinishCollection
  <2>1. processingEventCount' = 0 /\ batchSize' = 0
    BY <1>5 DEF FinishCollection, StopCounting, TypeOK
  <2>2. Cardinality({}) <= 0
    BY FS_EmptySet
  <2> QED
    BY <1>5, <2>1, <2>2 DEF FinishCollection
<1> QED
  BY <1>1, <1>2, <1>3, <1>4, <1>5 DEF WorkerStep

LEMMA OwnerKeepsCounts ==
    ASSUME IInv, OwnerStep
    PROVE  CountsExact'
<1>0. TypeOK /\ CountsExact
  BY DEF IInv
<1> USE <1>0 DEF CountsExact, contents, signals, statistics, settings, request, calls, progress, sweep
<1>1. CASE ClearPendingEvents
  <2>1. 0 = Cardinality({}) /\ 0 <= peakPendingEventCount
    BY FS_EmptySet DEF TypeOK
  <2> QED
    BY <1>1, <2>1 DEF ClearPendingEvents
<1>2. CASE ResetEventQueueStatistics
  BY <1>2 DEF ResetEventQueueStatistics, TypeOK
<1>3. CASE \/ StopAcceptingEvents
           \/ ReleaseCleared
           \/ \E m \in NewMaxima : SetMaximumPendingEventCount(m)
           \/ \E policy \in NewPolicies : SetEventQueueOverflowPolicy(policy)
  BY <1>3 DEF StopAcceptingEvents, ReleaseCleared, SetMaximumPendingEventCount,
              SetEventQueueOverflowPolicy
<1> QED
  BY <1>1, <1>2, <1>3 DEF OwnerStep

----------------------------------------------------------------------------
\* Sequence numbers keep every vector sorted and tell old entries from new ones.

LEMMA CallKeepsOrder ==
    ASSUME IInv, NEW p \in Callers,
           CallStep(p) \/ \E e \in Events, as \in OfferedAs[p] : Offer(p, e, as)
    PROVE  SequenceOrder' /\ SweepOrder'
<1>0. TypeOK /\ SequenceOrder /\ SweepOrder
  BY DEF IInv
<1>1. nextSequence \in Nat /\ sweepMark \in Nat /\ mailbox \subseteq Entries /\ batch \subseteq Entries
  BY <1>0 DEF TypeOK
<1> USE <1>0 DEF SequenceOrder, SweepOrder, contents, signals, statistics, settings, request, calls,
                 progress, sweep
<1>2. CASE \E e \in Events, as \in OfferedAs[p] : Offer(p, e, as)
  BY <1>2 DEF Offer
<1>3. CASE Reject(p) \/ Block(p) \/ Awake(p) \/ ReturnRefused(p) \/ ReturnAdmitted(p)
  BY <1>3 DEF Reject, Block, Awake, ReturnRefused, ReturnAdmitted
<1>4. CASE Admit(p)
  <2>1. PICK S \in SUBSET mailbox : Admit(p)!(S)
    BY <1>4 DEF Admit
  <2> DEFINE x == [event |-> offer[p].event, priority |-> offer[p].priority,
                   method |-> offer[p].method, sequence |-> nextSequence]
  <2>2. x.sequence = nextSequence
    OBVIOUS
  <2>3. mailbox' = (mailbox \ S) \cup {x} /\ nextSequence' = nextSequence + 1
    BY <2>1
  <2>4. /\ batch' = batch /\ slot' = slot /\ workerPC' = workerPC /\ sweepMark' = sweepMark
    BY <2>1
  <2> HIDE DEF x
  <2>5. SequenceOrder'
    BY <1>1, <2>2, <2>3, <2>4 DEF Entries
  <2>6. SweepOrder'
    BY <1>1, <2>2, <2>3, <2>4 DEF Entries
  <2> QED
    BY <2>5, <2>6
<1>5. CASE FailToAdmit(p)
  <2>1. PICK S \in SUBSET mailbox : FailToAdmit(p)!2!(S)
    BY <1>5 DEF FailToAdmit
  <2>2. mailbox' = mailbox \ S /\ nextSequence' = nextSequence + 1
    BY <2>1
  <2>3. /\ batch' = batch /\ slot' = slot /\ workerPC' = workerPC /\ sweepMark' = sweepMark
    BY <2>1
  <2> QED
    BY <1>1, <2>2, <2>3 DEF Entries
<1> QED
  BY <1>2, <1>3, <1>4, <1>5 DEF CallStep

LEMMA WorkerKeepsOrder ==
    ASSUME IInv, WorkerStep
    PROVE  SequenceOrder' /\ SweepOrder'
<1>0. TypeOK /\ SweepStructure /\ SequenceOrder /\ SweepOrder
  BY DEF IInv
<1>1. /\ nextSequence \in Nat /\ sweepMark \in Nat /\ slot \in 0 .. 6
      /\ mailbox \subseteq Entries /\ batch \subseteq Entries
  BY <1>0 DEF TypeOK
<1>2. \A x \in mailbox \cup batch : SlotOf(x) \in 1 .. 6
  BY <1>1, SlotType
<1> USE <1>0, <1>1 DEF SequenceOrder, SweepOrder, contents, signals, statistics, settings, request,
                 calls, progress, sweep
<1>3. CASE BeginSweep
  BY <1>2, <1>3 DEF BeginSweep, SweepStructure
<1>4. CASE SkipCollection
  <2>1. \A y \in mailbox : SlotOf(y) # slot
    BY <1>4 DEF SkipCollection, Collection
  <2> QED
    BY <1>2, <1>4, <2>1 DEF SkipCollection, NextSlot, SweepStructure
<1>5. CASE TakeCollection
  <2>1. /\ mailbox' = {y \in mailbox : SlotOf(y) # slot}
        /\ batch' = {y \in mailbox : SlotOf(y) = slot}
        /\ workerPC = "sweep" /\ workerPC' = "batch"
        /\ UNCHANGED <<nextSequence, slot, sweepMark>>
    BY <1>5 DEF TakeCollection, Collection
  <2> QED
    BY <2>1
<1>6. CASE BeginCallback
  BY <1>6 DEF BeginCallback
<1>7. CASE EndCallback
  BY <1>7 DEF EndCallback
<1>8. CASE ThrowFromCallback
  BY <1>8 DEF ThrowFromCallback
<1>9. CASE FinishCollection
  BY <1>2, <1>9 DEF FinishCollection, NextSlot, SweepStructure
<1> QED
  BY <1>3, <1>4, <1>5, <1>6, <1>7, <1>8, <1>9 DEF WorkerStep

LEMMA OwnerKeepsOrder ==
    ASSUME IInv, OwnerStep
    PROVE  SequenceOrder' /\ SweepOrder'
<1>0. SequenceOrder /\ SweepOrder
  BY DEF IInv
<1> USE DEF contents, signals, statistics, settings, request, calls, progress, sweep
<1> QED
  BY <1>0 DEF SequenceOrder, SweepOrder, OwnerStep, StopAcceptingEvents, ClearPendingEvents,
              ReleaseCleared, SetMaximumPendingEventCount, SetEventQueueOverflowPolicy,
              ResetEventQueueStatistics

----------------------------------------------------------------------------
\* The inductive invariant.

LEMMA InitEstablishes == Init => IInv
<1> SUFFICES ASSUME Init PROVE IInv
  OBVIOUS
<1> USE DEF Init
<1>1. TypeOK
  <2>1. refs \in [Events -> Nat] /\ fresh \in SUBSET Events
    OBVIOUS
  <2>2. maximumPendingEventCount \in Nat /\ overflowPolicy \in Policies
    BY MaximaAssumption, PoliciesAssumption
  <2>3. /\ pc \in [Callers -> {"idle", "enter", "wait", "retry", "refused", "admitted"}]
        /\ offer \in [Callers -> Offers \cup {NoOffer}]
        /\ displaced \in [Callers -> SUBSET Entries]
    OBVIOUS
  <2>4. /\ mailbox \in SUBSET Entries /\ batch \in SUBSET Entries /\ clearing \in SUBSET Entries
        /\ handled \in SUBSET Nat /\ lost \in SUBSET Nat
    OBVIOUS
  <2>5. /\ {pendingEventCount, processingEventCount, peakPendingEventCount} \subseteq Nat
        /\ {nextSequence, rejectedEventCount, droppedEventCount} \subseteq Nat
        /\ batchSize \in Nat /\ offers \in Nat /\ sweepMark \in Nat /\ slot \in 0 .. 6
    OBVIOUS
  <2>6. /\ acceptingPendingEvents \in BOOLEAN /\ capacityAvailable \in BOOLEAN
        /\ workerPC \in {"idle", "sweep", "batch", "callback", "unwind"}
    OBVIOUS
  <2> QED
    BY <2>1, <2>2, <2>3, <2>4, <2>5, <2>6 DEF TypeOK
<1>2. FiniteParts /\ CountsExact
  BY FS_EmptySet DEF FiniteParts, CountsExact
<1>3. CallStructure /\ SweepStructure /\ SequenceOrder /\ SweepOrder
  BY DEF CallStructure, SweepStructure, SequenceOrder, SweepOrder
<1> QED
  BY <1>1, <1>2, <1>3 DEF IInv

LEMMA NextPreserves == IInv /\ [Next]_vars => IInv'
<1> SUFFICES ASSUME IInv, [Next]_vars PROVE IInv'
  OBVIOUS
<1>1. ASSUME NEW p \in Callers,
             CallStep(p) \/ \E e \in Events, as \in OfferedAs[p] : Offer(p, e, as)
      PROVE  IInv'
  BY <1>1, CallKeepsTypes, CallKeepsFinite, CallKeepsStructure, CallKeepsCounts, CallKeepsOrder
     DEF IInv
<1>2. CASE WorkerStep
  BY <1>2, WorkerKeepsTypes, WorkerKeepsFinite, WorkerKeepsStructure, WorkerKeepsCounts,
     WorkerKeepsOrder DEF IInv
<1>3. CASE OwnerStep
  BY <1>3, OwnerKeepsTypes, OwnerKeepsFinite, OwnerKeepsStructure, OwnerKeepsCounts,
     OwnerKeepsOrder DEF IInv
<1>4. CASE UNCHANGED vars
  <2> USE <1>4 DEF vars, contents, signals, statistics, settings, request, calls, progress, sweep
  <2>1. TypeOK'
    BY DEF IInv, TypeOK
  <2>2. FiniteParts' /\ CallStructure' /\ SweepStructure' /\ CountsExact'
    BY DEF IInv, FiniteParts, CallStructure, SweepStructure, CountsExact
  <2>3. SequenceOrder' /\ SweepOrder'
    BY DEF IInv, SequenceOrder, SweepOrder
  <2> QED
    BY <2>1, <2>2, <2>3 DEF IInv
<1> QED
  BY <1>1, <1>2, <1>3, <1>4 DEF Next

\* Spec keeps the inductive invariant, from which the theorems below follow.
LEMMA InvariantHolds == Spec => []IInv
<1>1. Init => IInv
  BY InitEstablishes
<1>2. IInv /\ [Next]_vars => IInv'
  BY NextPreserves
<1> QED
  BY <1>1, <1>2, PTL DEF Spec

----------------------------------------------------------------------------
\* The theorems.

\* TypeOK always holds: every field of the receiver, every local of a running
\* call and of the sweep keeps its type, no counter goes below zero.
THEOREM TypeCorrect == Spec => []TypeOK
<1>1. IInv => TypeOK
  BY DEF IInv
<1> QED
  BY <1>1, InvariantHolds, PTL

\* CountsExact always holds: whatever is evicted, cleared, refused for lack of
\* memory or abandoned by a throwing callback, _pendingEventCount is the number
\* of pending entries and _processingEventCount the size of the taken batch.
THEOREM CountersAreExact == Spec => []CountsExact
<1>1. IInv => CountsExact
  BY DEF IInv
<1> QED
  BY <1>1, InvariantHolds, PTL

\* The slot an entry drains in says its method and its priority.
LEMMA SlotDetermines ==
    ASSUME NEW x \in Entries, NEW y \in Entries
    PROVE  /\ SlotOf(x) = SlotOf(y) <=> x.method = y.method /\ x.priority = y.priority
           /\ SlotOf(x) <= 3 <=> x.method = "Stack"
           /\ SlotOf(x) < SlotOf(y) =>
                  \/ x.method = "Stack" /\ y.method = "Queue"
                  \/ x.method = y.method /\ x.priority > y.priority
BY DEF SlotOf, Entries, Priorities, Methods

\* DeliveryOrder always holds: FIFO in a queue, LIFO in a stack's batch, and no
\* arrival mixed into a batch, with any number of producers, evictions and clears
\* in between.
THEOREM DeliveryInOrder == Spec => []DeliveryOrder
<1>1. IInv => DeliveryOrder
  <2> SUFFICES ASSUME IInv, workerPC = "callback", NEW x \in NextInBatch
               PROVE  LET same(y) == y.method = x.method /\ y.priority = x.priority
                      IN  /\ \A y \in batch : same(y)
                          /\ \A y \in batch :
                                 IF x.method = "Queue" THEN y.sequence >= x.sequence
                                                       ELSE y.sequence <= x.sequence
                          /\ \A y \in mailbox, z \in batch : same(y) => y.sequence > z.sequence
    BY DEF DeliveryOrder
  <2>1. x \in batch /\ batch \subseteq Entries /\ mailbox \subseteq Entries
    BY NextInBatchType DEF IInv, TypeOK
  <2>2. \A z \in batch : SlotOf(z) = slot
    BY DEF IInv, SequenceOrder
  <2>3. \A y \in batch : y.method = x.method /\ y.priority = x.priority
    BY <2>1, <2>2, SlotDetermines
  <2>4. \A y \in batch : IF x.method = "Queue" THEN y.sequence >= x.sequence
                                               ELSE y.sequence <= x.sequence
    <3>1. x.method \in Methods /\ (slot <= 3 <=> x.method = "Stack")
      BY <2>1, <2>2, SlotDetermines DEF Entries
    <3>2. \A y \in batch : y.sequence \in Nat
      BY <2>1 DEF Entries
    <3> QED
      BY <2>1, <3>1, <3>2 DEF NextInBatch, Newest, Oldest, Methods
  <2>5. \A y \in mailbox : y.method = x.method /\ y.priority = x.priority => SlotOf(y) = slot
    BY <2>1, <2>2, SlotDetermines
  <2>6. \A y \in mailbox, z \in batch : SlotOf(y) = slot => y.sequence > z.sequence
    BY DEF IInv, SequenceOrder
  <2> QED
    BY <2>3, <2>4, <2>5, <2>6
<1> QED
  BY <1>1, InvariantHolds, PTL

\* SweepDrainsInOrder always holds: an event that was pending when the sweep began
\* is never overtaken by one the sweep should deliver after it.
THEOREM SweepInOrder == Spec => []SweepDrainsInOrder
<1>1. IInv => SweepDrainsInOrder
  <2> SUFFICES ASSUME IInv, workerPC = "callback", NEW x \in NextInBatch, NEW y \in mailbox,
                      y.sequence < sweepMark
               PROVE  \/ y.method = "Queue" /\ x.method = "Stack"
                      \/ y.method = x.method /\ y.priority <= x.priority
    BY DEF SweepDrainsInOrder
  <2>1. x \in batch /\ x \in Entries /\ y \in Entries
    BY NextInBatchType DEF IInv, TypeOK
  <2>2. SlotOf(x) = slot
    BY <2>1 DEF IInv, SequenceOrder
  <2>3. SlotOf(y) >= slot /\ SlotOf(y) # slot
    BY DEF IInv, SweepOrder
  <2>4. SlotOf(x) \in 1 .. 6 /\ SlotOf(y) \in 1 .. 6
    BY <2>1, SlotType
  <2>5. SlotOf(x) < SlotOf(y)
    BY <2>2, <2>3, <2>4
  <2>6. x.priority \in Int /\ y.priority \in Int
    BY <2>1 DEF Entries, Priorities
  <2> QED
    BY <2>1, <2>5, <2>6, SlotDetermines
<1> QED
  BY <1>1, InvariantHolds, PTL

\* SweepLeavesNothing holds of every step: a sweep that no exception ends delivered,
\* or lost to an eviction or a clear, all that was pending when it began.
THEOREM SweepIsComplete == Spec => SweepLeavesNothing
<1>1. IInv /\ [Next]_vars =>
         [slot # 0 /\ workerPC # "unwind" /\ workerPC' = "idle"
            => \A y \in mailbox : y.sequence >= sweepMark]_vars
  <2> SUFFICES ASSUME IInv, Next, slot # 0, workerPC # "unwind", workerPC' = "idle",
                      NEW y \in mailbox
               PROVE  y.sequence >= sweepMark
    OBVIOUS
  <2> USE DEF contents, signals, statistics, settings, request, calls, progress, sweep
  <2>2. slot = 0 \/ workerPC # "idle"
    BY DEF IInv, SweepStructure
  <2>3. ~OwnerStep
    BY <2>2 DEF OwnerStep, StopAcceptingEvents, ClearPendingEvents, ReleaseCleared,
           SetMaximumPendingEventCount, SetEventQueueOverflowPolicy, ResetEventQueueStatistics
  <2>4. \A p \in Callers : ~CallStep(p) /\ ~ \E e \in Events, as \in OfferedAs[p] : Offer(p, e, as)
    BY <2>2 DEF CallStep, Offer, Reject, Block, Awake, Admit, FailToAdmit, ReturnRefused,
           ReturnAdmitted
  <2>5. WorkerStep
    BY <2>3, <2>4 DEF Next
  <2>6. CASE SkipCollection
    <3>1. slot = 6 /\ workerPC = "sweep" /\ Collection(slot) = {}
      BY <2>6 DEF SkipCollection, NextSlot
    <3>2. y \in Entries /\ SlotOf(y) # 6
      BY <3>1 DEF Collection, IInv, TypeOK
    <3>3. SlotOf(y) \in 1 .. 6 /\ y.sequence \in Nat /\ sweepMark \in Nat
      BY <3>2, SlotType DEF Entries, IInv, TypeOK
    <3> QED
      BY <3>1, <3>2, <3>3 DEF IInv, SweepOrder
  <2>7. CASE FinishCollection
    <3>1. slot = 6 /\ workerPC = "batch"
      BY <2>7 DEF FinishCollection, NextSlot
    <3>2. y \in Entries
      BY DEF IInv, TypeOK
    <3>3. SlotOf(y) \in 1 .. 6 /\ y.sequence \in Nat /\ sweepMark \in Nat
      BY <3>2, SlotType DEF Entries, IInv, TypeOK
    <3> QED
      BY <3>1, <3>3 DEF IInv, SweepOrder
  <2> QED
    BY <2>5, <2>6, <2>7 DEF WorkerStep, BeginSweep, TakeCollection, BeginCallback, EndCallback,
           ThrowFromCallback
<1> QED
  BY <1>1, InvariantHolds, PTL DEF SweepLeavesNothing, Spec

\* StopAdmitsOnlyWaiters holds of every step: after StopAcceptingEvents no call that
\* has not blocked before, and no Try call at all, brings an event in.
THEOREM OnlyWaitersAfterStop == Spec => StopAdmitsOnlyWaiters
<1>1. IInv /\ [Next]_vars =>
         [\A p \in Callers :
            ~acceptingPendingEvents /\ pc[p] # "admitted" /\ pc'[p] = "admitted" =>
                pc[p] = "retry" /\ offer[p].blocking]_vars
  <2> SUFFICES ASSUME IInv, Next, NEW p \in Callers, ~acceptingPendingEvents,
                      pc[p] # "admitted", pc'[p] = "admitted"
               PROVE  pc[p] = "retry" /\ offer[p].blocking
    OBVIOUS
  <2> USE DEF contents, signals, statistics, settings, request, calls, progress, sweep
  <2>1. pc \in [Callers -> {"idle", "enter", "wait", "retry", "refused", "admitted"}]
    BY DEF IInv, TypeOK
  <2>2. ~WorkerStep /\ ~OwnerStep
    BY DEF WorkerStep, BeginSweep, SkipCollection, TakeCollection, BeginCallback, EndCallback,
           ThrowFromCallback, FinishCollection, OwnerStep, StopAcceptingEvents,
           ClearPendingEvents, ReleaseCleared, SetMaximumPendingEventCount,
           SetEventQueueOverflowPolicy, ResetEventQueueStatistics
  <2>3. PICK q \in Callers :
           CallStep(q) \/ \E e \in Events, as \in OfferedAs[q] : Offer(q, e, as)
    BY <2>2 DEF Next
  <2>4. q = p /\ Admit(p)
    BY <2>1, <2>3 DEF CallStep, Offer, Reject, Block, Awake, Admit, FailToAdmit, ReturnRefused,
           ReturnAdmitted
  <2>5. pc[p] = "retry"
    BY <2>4 DEF Admit, MakesRoom, InAddEvent, FoundStopped
  <2> QED
    BY <2>5 DEF IInv, CallStructure
<1> QED
  BY <1>1, InvariantHolds, PTL DEF StopAdmitsOnlyWaiters, Spec

\* AdmissionRespectsMaximum holds of every step: what the receiver really retains
\* never grows past the maximum in force.
THEOREM MaximumIsRespected == Spec => AdmissionRespectsMaximum
<1> DEFINE held == Cardinality(mailbox) + Cardinality(batch)
<1>1. IInv /\ [Next]_vars =>
         [held' > held /\ maximumPendingEventCount # 0 => held' <= maximumPendingEventCount]_vars
  <2> SUFFICES ASSUME IInv, Next, held' > held, maximumPendingEventCount # 0
               PROVE  held' <= maximumPendingEventCount
    OBVIOUS
  <2> USE DEF contents, signals, statistics, settings, request, calls, progress, sweep
  <2>1. IInv'
    BY NextPreserves
  <2>2. /\ Cardinality(mailbox) = pendingEventCount /\ Cardinality(batch) <= processingEventCount
        /\ pendingEventCount \in Nat /\ processingEventCount \in Nat
        /\ maximumPendingEventCount \in Nat
    BY DEF IInv, CountsExact, TypeOK
  <2>3. Cardinality(batch) \in Nat
    BY FS_CardinalityType DEF IInv, FiniteParts
  <2>4. ~OwnerStep
    <3>1. SUFFICES ASSUME OwnerStep PROVE FALSE
      OBVIOUS
    <3>2. CASE ClearPendingEvents
      <4>1. Cardinality(mailbox') = 0 /\ batch' = batch
        BY <3>2, FS_EmptySet DEF ClearPendingEvents
      <4> QED
        BY <2>2, <2>3, <4>1
    <3>3. CASE mailbox' = mailbox /\ batch' = batch
      BY <2>2, <2>3, <3>3
    <3> QED
      BY <3>1, <3>2, <3>3 DEF OwnerStep, StopAcceptingEvents, ReleaseCleared,
         SetMaximumPendingEventCount, SetEventQueueOverflowPolicy, ResetEventQueueStatistics
  <2>5. ~WorkerStep
    <3>1. SUFFICES ASSUME WorkerStep PROVE FALSE
      OBVIOUS
    <3>2. CASE TakeCollection
      <4>1. batch = {} /\ processingEventCount = 0
        BY <3>2 DEF TakeCollection, IInv, SweepStructure, CountsExact
      <4>2. /\ Cardinality(Collection(slot)) \in Nat
            /\ Cardinality(mailbox \ Collection(slot)) =
                   pendingEventCount - Cardinality(Collection(slot))
        BY CollectionType, RoomType
      <4>3. mailbox' = mailbox \ Collection(slot) /\ batch' = Collection(slot)
        BY <3>2 DEF TakeCollection
      <4> QED
        BY <2>2, <2>3, <4>1, <4>2, <4>3
    <3>3. CASE mailbox' = mailbox /\ batch' \subseteq batch
      <4>1. Cardinality(batch') <= Cardinality(batch) /\ Cardinality(batch') \in Nat
        BY <3>3, FS_Subset, FS_CardinalityType DEF IInv, FiniteParts
      <4> QED
        BY <2>2, <2>3, <3>3, <4>1
    <3> QED
      BY <3>1, <3>2, <3>3 DEF WorkerStep, BeginSweep, SkipCollection, BeginCallback, EndCallback,
         ThrowFromCallback, FinishCollection
  <2>6. PICK q \in Callers :
           CallStep(q) \/ \E e \in Events, as \in OfferedAs[q] : Offer(q, e, as)
    BY <2>4, <2>5 DEF Next
  <2>7. batch' = batch /\ maximumPendingEventCount' = maximumPendingEventCount
    BY <2>6 DEF CallStep, Offer, Reject, Block, Awake, Admit, FailToAdmit, ReturnRefused,
       ReturnAdmitted
  <2>8. CASE Admit(q)
    <3>1. PICK S \in SUBSET mailbox : Admit(q)!(S)
      BY <2>8 DEF Admit
    <3>2. pendingEventCount' = pendingEventCount - Cardinality(S) + 1
          /\ Cardinality(mailbox') = pendingEventCount'
      BY <2>1, <3>1 DEF IInv, CountsExact
    <3>3. Cardinality(S) \in Nat /\ (S # {} => Cardinality(S) >= 1)
      BY CardinalityOfDifference DEF IInv, FiniteParts
    <3>4. S = {}
      BY <2>2, <2>3, <2>7, <3>2, <3>3
    <3>5. ~Full
      BY <3>1, <3>4 DEF MakesRoom
    <3>6. Cardinality(S) = 0
      BY <3>4, FS_EmptySet
    <3> QED
      BY <2>2, <2>3, <2>7, <3>2, <3>5, <3>6 DEF Full, RetainedEventCount
  <2>9. CASE mailbox' \subseteq mailbox
    <3>1. Cardinality(mailbox') <= Cardinality(mailbox) /\ Cardinality(mailbox') \in Nat
      BY <2>9, FS_Subset, FS_CardinalityType DEF IInv, FiniteParts
    <3> QED
      BY <2>2, <2>3, <2>7, <3>1
  <2> QED
    BY <2>6, <2>8, <2>9 DEF CallStep, Offer, Reject, Block, Awake, FailToAdmit, ReturnRefused,
       ReturnAdmitted
<1> QED
  BY <1>1, InvariantHolds, PTL DEF AdmissionRespectsMaximum, Spec

----------------------------------------------------------------------------
\* That no path of the receiver leaks an event or releases it twice.  The references are
\* those of the entries someone holds and of the calls under way, so the proof counts: the
\* holders are disjoint (HoldersApart), and a step moves entries from one to another or
\* releases what it takes away.

\* The entries that the mailbox, the batch and ClearPendingEvents hold, and the evicted ones.
Kept == mailbox \cup batch \cup clearing
Displaced == UNION {displaced[p] : p \in Callers}

\* No entry has two holders, each was admitted, and a call evicts once.
HoldersApart ==
    /\ mailbox \cap batch = {} /\ (mailbox \cup batch) \cap clearing = {}
    /\ Kept \cap Displaced = {}
    /\ \A p, q \in Callers : p # q => displaced[p] \cap displaced[q] = {}
    /\ \A x \in Kept \cup Displaced : x.sequence < nextSequence
    /\ \A p \in Callers : pc[p] \in {"idle", "enter", "wait", "retry"} => displaced[p] = {}

RefInv == IInv /\ HoldersApart /\ ReferencesExact

----------------------------------------------------------------------------
\* Counting what is held.

\* The entries of S that hold e.
Holding(S, e) == {x \in S : x.event = e}

LEMMA HeldValue ==
    ASSUME NEW S, NEW e \in Events
    PROVE  Held(S)[e] = Cardinality(Holding(S, e))
BY DEF Held, Holding

LEMMA HeldOfUnion ==
    ASSUME NEW A, NEW B, IsFiniteSet(A), IsFiniteSet(B), A \cap B = {}, NEW e \in Events
    PROVE  /\ Held(A \cup B)[e] = Held(A)[e] + Held(B)[e]
           /\ Held(A)[e] \in Nat /\ Held(B)[e] \in Nat
<1>1. /\ Holding(A \cup B, e) = Holding(A, e) \cup Holding(B, e)
      /\ Holding(A, e) \cap Holding(B, e) = {}
      /\ Holding(A, e) \in SUBSET A /\ Holding(B, e) \in SUBSET B
  BY DEF Holding
<1>2. IsFiniteSet(Holding(A, e)) /\ IsFiniteSet(Holding(B, e))
  BY <1>1, FS_Subset
<1>3. Cardinality(Holding(A, e)) \in Nat /\ Cardinality(Holding(B, e)) \in Nat
  BY <1>2, FS_CardinalityType
<1>4. Cardinality(Holding(A, e) \cup Holding(B, e))
          = Cardinality(Holding(A, e)) + Cardinality(Holding(B, e)) - Cardinality({})
  BY <1>1, <1>2, FS_Union
<1>5. Held(A)[e] = Cardinality(Holding(A, e)) /\ Held(B)[e] = Cardinality(Holding(B, e))
  BY HeldValue
<1>6. Held(A \cup B)[e] = Cardinality(Holding(A, e) \cup Holding(B, e))
  BY <1>1, HeldValue
<1> QED
  BY <1>3, <1>4, <1>5, <1>6, FS_EmptySet

LEMMA HeldOfDifference ==
    ASSUME NEW A, IsFiniteSet(A), NEW B \in SUBSET A, NEW e \in Events
    PROVE  /\ Held(A \ B)[e] = Held(A)[e] - Held(B)[e]
           /\ Held(A)[e] \in Nat /\ Held(B)[e] \in Nat
           /\ Held(B)[e] <= Held(A)[e]
<1>1. (A \ B) \cup B = A /\ (A \ B) \cap B = {}
  OBVIOUS
<1>2. IsFiniteSet(A \ B) /\ IsFiniteSet(B)
  BY CardinalityOfDifference
<1>3. /\ Held((A \ B) \cup B)[e] = Held(A \ B)[e] + Held(B)[e]
      /\ Held(A \ B)[e] \in Nat /\ Held(B)[e] \in Nat
  BY <1>1, <1>2, HeldOfUnion
<1>4. Held((A \ B) \cup B)[e] = Held(A)[e]
  BY <1>1
<1> QED
  BY <1>3, <1>4

LEMMA HeldOfOne ==
    ASSUME NEW x, NEW e \in Events
    PROVE  Held({x})[e] = IF x.event = e THEN 1 ELSE 0
<1>1. Held({x})[e] = Cardinality(Holding({x}, e))
  BY HeldValue
<1>2. CASE x.event = e
  <2>1. Holding({x}, e) = {x}
    BY <1>2 DEF Holding
  <2>2. Cardinality({x}) = 1
    BY FS_Singleton
  <2> QED
    BY <1>1, <1>2, <2>1, <2>2
<1>3. CASE x.event # e
  <2>1. Holding({x}, e) = {}
    BY <1>3 DEF Holding
  <2> QED
    BY <1>1, <1>3, <2>1, FS_EmptySet
<1> QED
  BY <1>2, <1>3

\* What is held is finite, the calls' evictions together included.
LEMMA HoldersFinite ==
    ASSUME IInv
    PROVE  IsFiniteSet(Kept) /\ IsFiniteSet(Displaced)
<1>1. IsFiniteSet(mailbox) /\ IsFiniteSet(batch) /\ IsFiniteSet(clearing)
      /\ \A p \in Callers : IsFiniteSet(displaced[p])
  BY DEF IInv, FiniteParts
<1>2. IsFiniteSet(Kept)
  <2>1. IsFiniteSet(mailbox \cup batch)
    BY <1>1, FS_Union
  <2> QED
    BY <1>1, <2>1, FS_Union DEF Kept
<1>3. IsFiniteSet({displaced[p] : p \in Callers})
  <2> DEFINE f == [p \in Callers |-> displaced[p]]
             T == {displaced[p] : p \in Callers}
  <2>1. f \in [Callers -> T] /\ \A t \in T : \E p \in Callers : f[p] = t
    OBVIOUS
  <2> HIDE DEF f, T
  <2>2. f \in Surjection(Callers, T)
    BY <2>1 DEF Surjection
  <2>3. IsFiniteSet(T)
    BY <2>2, CallersAssumption, FS_Surjection
  <2> QED
    BY <2>3 DEF T
<1>4. IsFiniteSet(Displaced)
  BY <1>1, <1>3, FS_UNION DEF Displaced
<1> QED
  BY <1>2, <1>4

----------------------------------------------------------------------------
\* The holders stay apart.

\* A call's evictions join the others', and leave them again when it has released them.
LEMMA DisplacedGrows ==
    ASSUME TypeOK, HoldersApart, NEW p \in Callers, NEW S, displaced[p] = {},
           displaced' = [displaced EXCEPT ![p] = S]
    PROVE  Displaced' = Displaced \cup S
BY DEF TypeOK, Displaced

LEMMA DisplacedShrinks ==
    ASSUME TypeOK, HoldersApart, NEW p \in Callers, displaced' = [displaced EXCEPT ![p] = {}]
    PROVE  Displaced' = Displaced \ displaced[p] /\ displaced[p] \in SUBSET Displaced
BY DEF TypeOK, HoldersApart, Displaced

LEMMA CallKeepsHolders ==
    ASSUME RefInv, NEW p \in Callers,
           CallStep(p) \/ \E e \in Events, as \in OfferedAs[p] : Offer(p, e, as)
    PROVE  HoldersApart'
<1>0. /\ TypeOK /\ HoldersApart /\ nextSequence \in Nat
      /\ mailbox \subseteq Entries /\ batch \subseteq Entries /\ clearing \subseteq Entries
      /\ displaced \in [Callers -> SUBSET Entries]
      /\ pc \in [Callers -> {"idle", "enter", "wait", "retry", "refused", "admitted"}]
  BY DEF RefInv, IInv, TypeOK
<1>1. \A x \in Kept \cup Displaced : x.sequence \in Nat
  BY <1>0 DEF Kept, Displaced, Entries
<1> USE DEF contents, signals, statistics, settings, request, calls, progress, sweep
<1>2. CASE (\E e \in Events, as \in OfferedAs[p] : Offer(p, e, as)) \/ Reject(p) \/ Block(p) \/ Awake(p)
  <2>1. /\ UNCHANGED <<mailbox, batch, clearing, displaced, nextSequence>>
        /\ pc[p] \in {"idle", "enter", "wait", "retry"} /\ pc' = [pc EXCEPT ![p] = pc'[p]]
    BY <1>0, <1>2 DEF Offer, Reject, Block, Awake, InAddEvent
  <2>2. Kept' = Kept /\ Displaced' = Displaced /\ displaced[p] = {}
    BY <1>0, <2>1 DEF Kept, Displaced, HoldersApart
  <2> QED
    BY <1>0, <2>1, <2>2 DEF HoldersApart
<1>3. CASE Admit(p)
  <2>1. PICK S \in SUBSET mailbox : Admit(p)!(S)
    BY <1>3 DEF Admit
  <2> DEFINE x == [event |-> offer[p].event, priority |-> offer[p].priority,
                   method |-> offer[p].method, sequence |-> nextSequence]
  <2>2. x.sequence = nextSequence
    OBVIOUS
  <2>3. /\ mailbox' = (mailbox \ S) \cup {x} /\ nextSequence' = nextSequence + 1
        /\ displaced' = [displaced EXCEPT ![p] = S] /\ pc' = [pc EXCEPT ![p] = "admitted"]
        /\ UNCHANGED <<batch, clearing>> /\ pc[p] \in {"enter", "retry"}
    BY <2>1 DEF MakesRoom, InAddEvent
  <2> HIDE DEF x
  <2>4. displaced[p] = {} /\ Displaced' = Displaced \cup S
    BY <1>0, <2>3, DisplacedGrows DEF HoldersApart
  <2>5. x \notin Kept \cup Displaced
    BY <1>0, <2>2 DEF HoldersApart
  <2>6. S \subseteq Kept /\ Kept' = (Kept \ S) \cup {x}
    BY <1>0, <2>3 DEF Kept, HoldersApart
  <2>7. \A q \in Callers : displaced[q] \subseteq Displaced
    BY DEF Displaced
  <2>8. Kept' \cap Displaced' = {}
    BY <1>0, <2>4, <2>5, <2>6 DEF HoldersApart
  <2>9. \A q, r \in Callers : q # r => displaced'[q] \cap displaced'[r] = {}
    BY <1>0, <2>3, <2>6, <2>7 DEF HoldersApart
  <2>10. \A y \in Kept' \cup Displaced' : y.sequence < nextSequence'
    <3>1. \A y \in Kept \cup Displaced : y.sequence \in Nat /\ y.sequence < nextSequence
      BY <1>0, <1>1 DEF HoldersApart
    <3>2. \A y \in Kept' \cup Displaced' : y = x \/ y \in Kept \cup Displaced
      BY <2>4, <2>6
    <3> QED
      BY <1>0, <2>2, <2>3, <3>1, <3>2
  <2>11. mailbox' \cap batch' = {} /\ (mailbox' \cup batch') \cap clearing' = {}
    BY <1>0, <2>3, <2>5 DEF HoldersApart, Kept
  <2>12. \A q \in Callers : pc'[q] \in {"idle", "enter", "wait", "retry"} => displaced'[q] = {}
    BY <1>0, <2>3 DEF HoldersApart
  <2> QED
    BY <2>8, <2>9, <2>10, <2>11, <2>12 DEF HoldersApart
<1>4. CASE FailToAdmit(p)
  <2>1. PICK S \in SUBSET mailbox : FailToAdmit(p)!2!(S)
    BY <1>4 DEF FailToAdmit
  <2>2. /\ mailbox' = mailbox \ S /\ nextSequence' = nextSequence + 1
        /\ displaced' = [displaced EXCEPT ![p] = S] /\ pc' = [pc EXCEPT ![p] = "refused"]
        /\ UNCHANGED <<batch, clearing>> /\ pc[p] \in {"enter", "retry"}
    BY <2>1 DEF MakesRoom, InAddEvent
  <2>3. displaced[p] = {} /\ Displaced' = Displaced \cup S
    BY <1>0, <2>2, DisplacedGrows DEF HoldersApart
  <2>4. S \subseteq Kept /\ Kept' = Kept \ S
    BY <1>0, <2>2 DEF Kept, HoldersApart
  <2>5. \A q \in Callers : displaced[q] \subseteq Displaced
    BY DEF Displaced
  <2>6. \A q, r \in Callers : q # r => displaced'[q] \cap displaced'[r] = {}
    BY <1>0, <2>2, <2>4, <2>5 DEF HoldersApart
  <2>7. \A y \in Kept' \cup Displaced' : y.sequence < nextSequence'
    <3>1. \A y \in Kept \cup Displaced : y.sequence \in Nat /\ y.sequence < nextSequence
      BY <1>0, <1>1 DEF HoldersApart
    <3>2. \A y \in Kept' \cup Displaced' : y \in Kept \cup Displaced
      BY <2>3, <2>4
    <3> QED
      BY <1>0, <2>2, <3>1, <3>2
  <2>8. \A q \in Callers : pc'[q] \in {"idle", "enter", "wait", "retry"} => displaced'[q] = {}
    BY <1>0, <2>2 DEF HoldersApart
  <2> QED
    BY <1>0, <2>2, <2>3, <2>4, <2>6, <2>7, <2>8 DEF HoldersApart
<1>5. CASE ReturnRefused(p) \/ ReturnAdmitted(p)
  <2>1. /\ UNCHANGED <<mailbox, batch, clearing, nextSequence>>
        /\ displaced' = [displaced EXCEPT ![p] = {}] /\ pc' = [pc EXCEPT ![p] = "idle"]
    BY <1>5 DEF ReturnRefused, ReturnAdmitted
  <2>2. Kept' = Kept /\ Displaced' \subseteq Displaced
    BY <1>0, <2>1, DisplacedShrinks DEF Kept
  <2> QED
    BY <1>0, <2>1, <2>2 DEF HoldersApart
<1> QED
  BY <1>2, <1>3, <1>4, <1>5 DEF CallStep

LEMMA OthersKeepHolders ==
    ASSUME RefInv, WorkerStep \/ OwnerStep
    PROVE  HoldersApart'
<1>0. HoldersApart /\ IInv
  BY DEF RefInv
<1> USE DEF contents, signals, statistics, settings, request, calls, progress, sweep
<1>1. /\ UNCHANGED <<displaced, pc, nextSequence>>
      /\ mailbox' \subseteq mailbox
      /\ batch' \subseteq batch \/ batch' \subseteq mailbox \ mailbox'
      /\ clearing' \subseteq clearing \/ clearing' \subseteq mailbox \ mailbox'
      /\ batch' \subseteq batch \/ clearing' \subseteq clearing
  <2>1. CASE WorkerStep
    BY <1>0, <2>1, CollectionType
       DEF WorkerStep, BeginSweep, SkipCollection, TakeCollection, BeginCallback, EndCallback,
           ThrowFromCallback, FinishCollection
  <2>2. CASE OwnerStep
    BY <2>2 DEF OwnerStep, StopAcceptingEvents, ClearPendingEvents, ReleaseCleared,
           SetMaximumPendingEventCount, SetEventQueueOverflowPolicy, ResetEventQueueStatistics
  <2> QED
    BY <2>1, <2>2
<1>2. Displaced' = Displaced
  BY <1>1 DEF Displaced
<1>3. Kept' \subseteq Kept
  BY <1>1 DEF Kept
<1>4. mailbox' \cap batch' = {} /\ (mailbox' \cup batch') \cap clearing' = {}
  BY <1>0, <1>1 DEF HoldersApart
<1> QED
  BY <1>0, <1>1, <1>2, <1>3, <1>4 DEF HoldersApart

----------------------------------------------------------------------------
\* The count.

\* What each part of the count is.
LEMMA CountParts ==
    ASSUME RefInv, NEW e \in Events
    PROVE  /\ refs \in [Events -> Nat] /\ IsFiniteSet(Kept) /\ IsFiniteSet(Displaced)
           /\ Held(Kept)[e] \in Nat /\ Held(Displaced)[e] \in Nat
           /\ IsFiniteSet(Offering(e)) /\ Cardinality(Offering(e)) \in Nat
           /\ refs[e] = (IF e \in Shared THEN 1 ELSE 0) + Held(Kept)[e] + Held(Displaced)[e]
                        + Cardinality(Offering(e))
<1>1. IsFiniteSet(Kept) /\ IsFiniteSet(Displaced) /\ refs \in [Events -> Nat]
  BY HoldersFinite DEF RefInv, IInv, TypeOK
<1>2. Held(Kept) \in [Events -> Nat] /\ Held(Displaced) \in [Events -> Nat]
  BY <1>1, HeldType
<1>3. Offering(e) \in SUBSET Callers
  BY DEF Offering
<1>4. IsFiniteSet(Offering(e))
  BY <1>3, CallersAssumption, FS_Subset
<1>5. Cardinality(Offering(e)) \in Nat
  BY <1>4, FS_CardinalityType
<1>6. refs[e] = (IF e \in Shared THEN 1 ELSE 0) + Held(Kept)[e] + Held(Displaced)[e]
                + Cardinality(Offering(e))
  BY DEF RefInv, ReferencesExact, Kept, Displaced
<1> QED
  BY <1>1, <1>2, <1>4, <1>5, <1>6

\* Enough for the next state: the count of each event.
LEMMA CountSuffices ==
    ASSUME \A e \in Events :
               refs'[e] = (IF e \in Shared THEN 1 ELSE 0) + Held(Kept')[e] + Held(Displaced')[e]
                          + Cardinality(Offering(e)')
    PROVE  ReferencesExact'
BY DEF ReferencesExact, Kept, Displaced, Held, Offering

LEMMA CallKeepsReferences ==
    ASSUME RefInv, NEW p \in Callers,
           CallStep(p) \/ \E e \in Events, as \in OfferedAs[p] : Offer(p, e, as)
    PROVE  ReferencesExact'
<1>0. /\ TypeOK /\ HoldersApart /\ IInv
      /\ pc \in [Callers -> {"idle", "enter", "wait", "retry", "refused", "admitted"}]
      /\ offer \in [Callers -> Offers \cup {NoOffer}]
  BY DEF RefInv, IInv, TypeOK
<1> USE DEF contents, signals, statistics, settings, request, calls, progress, sweep
<1> SUFFICES ASSUME NEW e \in Events
             PROVE  refs'[e] = (IF e \in Shared THEN 1 ELSE 0) + Held(Kept')[e]
                               + Held(Displaced')[e] + Cardinality(Offering(e)')
  BY CountSuffices
<1> DEFINE here == IF e \in Shared THEN 1 ELSE 0
<1>1. /\ refs \in [Events -> Nat] /\ IsFiniteSet(Kept) /\ IsFiniteSet(Displaced)
      /\ Held(Kept)[e] \in Nat /\ Held(Displaced)[e] \in Nat
      /\ IsFiniteSet(Offering(e)) /\ Cardinality(Offering(e)) \in Nat
      /\ refs[e] = here + Held(Kept)[e] + Held(Displaced)[e] + Cardinality(Offering(e))
  BY CountParts
<1>2. here \in Nat
  OBVIOUS
<1> HIDE DEF here
<1>3. CASE \E f \in Events, as \in OfferedAs[p] : Offer(p, f, as)
  <2>1. PICK f \in Events, as \in OfferedAs[p] : Offer(p, f, as)
    BY <1>3
  <2>2. Kept' = Kept /\ Displaced' = Displaced /\ pc[p] = "idle"
    BY <2>1 DEF Offer, Kept, Displaced
  <2>3. p \notin Offering(e)
    BY <2>2 DEF Offering
  <2>4. CASE f = e
    <3>1. Offering(e)' = Offering(e) \cup {p} /\ refs'[e] = refs[e] + 1
      BY <1>0, <1>1, <2>1, <2>4 DEF Offer, Offering
    <3>2. Cardinality(Offering(e)') = Cardinality(Offering(e)) + 1
      BY <1>1, <2>3, <3>1, FS_AddElement
    <3> QED
      BY <1>1, <1>2, <2>2, <3>1, <3>2 DEF here
  <2>5. CASE f # e
    <3>1. Offering(e)' = Offering(e) /\ refs'[e] = refs[e]
      BY <1>0, <1>1, <2>1, <2>3, <2>5 DEF Offer, Offering
    <3> QED
      BY <1>1, <2>2, <3>1 DEF here
  <2> QED
    BY <2>4, <2>5
<1>4. CASE Reject(p) \/ Block(p) \/ Awake(p)
  <2>1. /\ UNCHANGED <<mailbox, batch, clearing, displaced, refs, offer>>
        /\ {pc[p], pc'[p]} \subseteq {"enter", "wait", "retry", "refused"}
        /\ pc' = [pc EXCEPT ![p] = pc'[p]]
    BY <1>0, <1>4 DEF Reject, Block, Awake, InAddEvent
  <2>2. \A q \in Callers : pc'[q] \in {"enter", "wait", "retry", "refused"}
                           <=> pc[q] \in {"enter", "wait", "retry", "refused"}
    BY <1>0, <2>1
  <2>3. Offering(e)' = Offering(e)
    BY <2>1, <2>2 DEF Offering
  <2>4. Kept' = Kept /\ Displaced' = Displaced
    BY <2>1 DEF Kept, Displaced
  <2> QED
    BY <1>1, <2>1, <2>3, <2>4 DEF here
<1>5. CASE Admit(p)
  <2>1. PICK S \in SUBSET mailbox : Admit(p)!(S)
    BY <1>5 DEF Admit
  <2> DEFINE x == [event |-> offer[p].event, priority |-> offer[p].priority,
                   method |-> offer[p].method, sequence |-> nextSequence]
  <2>2. x.sequence = nextSequence /\ x.event = offer[p].event
    OBVIOUS
  <2>3. /\ mailbox' = (mailbox \ S) \cup {x}
        /\ displaced' = [displaced EXCEPT ![p] = S] /\ pc' = [pc EXCEPT ![p] = "admitted"]
        /\ UNCHANGED <<batch, clearing, refs, offer>> /\ pc[p] \in {"enter", "retry"}
    BY <2>1 DEF MakesRoom, InAddEvent
  <2> HIDE DEF x
  <2>4. Displaced' = Displaced \cup S
    BY <1>0, <2>3, DisplacedGrows DEF HoldersApart
  <2>5. x \notin Kept
    BY <1>0, <2>2 DEF HoldersApart, TypeOK
  <2>6. S \in SUBSET Kept /\ Kept' = (Kept \ S) \cup {x} /\ Displaced \cap S = {}
    BY <1>0, <2>3 DEF Kept, HoldersApart
  <2>7. IsFiniteSet(S) /\ IsFiniteSet(Kept \ S) /\ IsFiniteSet({x})
    BY <1>1, <2>6, CardinalityOfDifference, FS_Singleton
  <2>8. /\ Held(Kept \ S)[e] = Held(Kept)[e] - Held(S)[e] /\ Held(S)[e] \in Nat
        /\ Held(Displaced \cup S)[e] = Held(Displaced)[e] + Held(S)[e]
    <3>1. Held(Displaced \cup S)[e] = Held(Displaced)[e] + Held(S)[e]
      BY <1>1, <2>6, <2>7, HeldOfUnion
    <3>2. S \in SUBSET Kept
      BY <2>6
    <3>3. Held(Kept \ S)[e] = Held(Kept)[e] - Held(S)[e] /\ Held(S)[e] \in Nat
      BY <1>1, <3>2, HeldOfDifference
    <3> QED
      BY <3>1, <3>3
  <2>9. Held((Kept \ S) \cup {x})[e] = Held(Kept \ S)[e] + Held({x})[e]
    <3>1. (Kept \ S) \cap {x} = {}
      BY <2>5
    <3> QED
      BY <2>7, <3>1, HeldOfUnion
  <2>10. CASE offer[p].event = e
    <3>1. Offering(e)' = Offering(e) \ {p} /\ p \in Offering(e)
      BY <1>0, <2>3, <2>10 DEF Offering
    <3>2. Cardinality(Offering(e)') = Cardinality(Offering(e)) - 1
      BY <1>1, <3>1, FS_RemoveElement
    <3>3. Held({x})[e] = 1
      BY <2>2, <2>10, HeldOfOne
    <3> QED
      BY <1>1, <1>2, <2>3, <2>4, <2>6, <2>8, <2>9, <3>2, <3>3 DEF here
  <2>11. CASE offer[p].event # e
    <3>1. Offering(e)' = Offering(e)
      BY <1>0, <2>3, <2>11 DEF Offering
    <3>2. Held({x})[e] = 0
      BY <2>2, <2>11, HeldOfOne
    <3> QED
      BY <1>1, <1>2, <2>3, <2>4, <2>6, <2>8, <2>9, <3>1, <3>2 DEF here
  <2> QED
    BY <2>10, <2>11
<1>6. CASE FailToAdmit(p)
  <2>1. PICK S \in SUBSET mailbox : FailToAdmit(p)!2!(S)
    BY <1>6 DEF FailToAdmit
  <2>2. /\ mailbox' = mailbox \ S
        /\ displaced' = [displaced EXCEPT ![p] = S] /\ pc' = [pc EXCEPT ![p] = "refused"]
        /\ UNCHANGED <<batch, clearing, refs, offer>> /\ pc[p] \in {"enter", "retry"}
    BY <2>1 DEF MakesRoom, InAddEvent
  <2>3. Displaced' = Displaced \cup S
    BY <1>0, <2>2, DisplacedGrows DEF HoldersApart
  <2>4. S \in SUBSET Kept /\ Kept' = Kept \ S /\ Displaced \cap S = {}
    BY <1>0, <2>2 DEF Kept, HoldersApart
  <2>5. IsFiniteSet(S)
    BY <1>1, <2>4, CardinalityOfDifference
  <2>6. /\ Held(Kept \ S)[e] = Held(Kept)[e] - Held(S)[e] /\ Held(S)[e] \in Nat
        /\ Held(Displaced \cup S)[e] = Held(Displaced)[e] + Held(S)[e]
    <3>1. Held(Displaced \cup S)[e] = Held(Displaced)[e] + Held(S)[e]
      BY <1>1, <2>4, <2>5, HeldOfUnion
    <3> QED
      BY <1>1, <2>4, <3>1, HeldOfDifference
  <2>7. Offering(e)' = Offering(e)
    BY <1>0, <2>2 DEF Offering
  <2> QED
    BY <1>1, <1>2, <2>2, <2>3, <2>4, <2>6, <2>7 DEF here
<1>7. CASE ReturnRefused(p) \/ ReturnAdmitted(p)
  <2> DEFINE own == IF pc[p] = "refused" /\ offer[p].event = e THEN 1 ELSE 0
             m == Held(displaced[p])[e] + own
  <2>1. /\ pc[p] \in {"refused", "admitted"} /\ UNCHANGED <<mailbox, batch, clearing>>
        /\ displaced' = [displaced EXCEPT ![p] = {}] /\ pc' = [pc EXCEPT ![p] = "idle"]
        /\ offer' = [offer EXCEPT ![p] = NoOffer]
    BY <1>7 DEF ReturnRefused, ReturnAdmitted
  <2>2. /\ Kept' = Kept /\ Displaced' = Displaced \ displaced[p]
        /\ displaced[p] \in SUBSET Displaced
    BY <1>0, <2>1, DisplacedShrinks DEF Kept
  <2>3. /\ Held(Displaced \ displaced[p])[e] = Held(Displaced)[e] - Held(displaced[p])[e]
        /\ Held(displaced[p])[e] \in Nat /\ Held(displaced[p])[e] <= Held(Displaced)[e]
    BY <1>1, <2>2, HeldOfDifference
  <2>4. Cardinality(Offering(e)') = Cardinality(Offering(e)) - own /\ own <= Cardinality(Offering(e))
        /\ own \in Nat
    <3>1. CASE pc[p] = "refused" /\ offer[p].event = e
      <4>1. Offering(e)' = Offering(e) \ {p} /\ p \in Offering(e)
        BY <1>0, <2>1, <3>1 DEF Offering
      <4>2. Cardinality(Offering(e)') = Cardinality(Offering(e)) - 1
        BY <1>1, <4>1, FS_RemoveElement
      <4>3. Cardinality(Offering(e)) # 0
        BY <1>1, <4>1, FS_EmptySet
      <4> QED
        BY <1>1, <3>1, <4>2, <4>3
    <3>2. CASE ~(pc[p] = "refused" /\ offer[p].event = e)
      <4>1. Offering(e)' = Offering(e)
        BY <1>0, <2>1, <3>2 DEF Offering
      <4> QED
        BY <1>1, <3>2, <4>1
    <3> QED
      BY <3>1, <3>2
  <2>5. refs'[e] = IF refs[e] >= m THEN refs[e] - m ELSE 0
    <3>1. CASE ReturnRefused(p)
      <4>1. own = IF e = offer[p].event THEN 1 ELSE 0
        BY <3>1 DEF ReturnRefused
      <4> HIDE DEF own
      <4> QED
        BY <3>1, <4>1 DEF ReturnRefused, Unref
    <3>2. CASE ReturnAdmitted(p)
      <4>1. own = 0
        BY <3>2 DEF ReturnAdmitted
      <4>2. m = Held(displaced[p])[e]
        BY <2>3, <4>1
      <4> HIDE DEF own, m
      <4> QED
        BY <3>2, <4>2 DEF ReturnAdmitted, Unref
    <3> QED
      BY <1>7, <3>1, <3>2
  <2> HIDE DEF own
  <2> QED
    BY <1>1, <1>2, <2>2, <2>3, <2>4, <2>5 DEF here
<1> QED
  BY <1>3, <1>4, <1>5, <1>6, <1>7 DEF CallStep

\* Releasing a part of what is kept takes exactly its references.
LEMMA ReleaseKept ==
    ASSUME RefInv, NEW A \in SUBSET Kept, refs' = Unref(Held(A)), Kept' = Kept \ A,
           UNCHANGED <<displaced, pc, offer>>
    PROVE  ReferencesExact'
<1> SUFFICES ASSUME NEW e \in Events
             PROVE  refs'[e] = (IF e \in Shared THEN 1 ELSE 0) + Held(Kept')[e]
                               + Held(Displaced')[e] + Cardinality(Offering(e)')
  BY CountSuffices
<1> DEFINE here == IF e \in Shared THEN 1 ELSE 0
<1>1. /\ IsFiniteSet(Kept) /\ refs[e] \in Nat
      /\ Held(Kept)[e] \in Nat /\ Held(Displaced)[e] \in Nat /\ Cardinality(Offering(e)) \in Nat
      /\ refs[e] = here + Held(Kept)[e] + Held(Displaced)[e] + Cardinality(Offering(e))
  BY CountParts
<1>2. here \in Nat
  OBVIOUS
<1>3. Displaced' = Displaced /\ Offering(e)' = Offering(e)
  BY DEF Displaced, Offering
<1>4. refs'[e] = IF refs[e] >= Held(A)[e] THEN refs[e] - Held(A)[e] ELSE 0
  BY DEF Unref
<1> HIDE DEF here
<1>5. /\ Held(Kept \ A)[e] = Held(Kept)[e] - Held(A)[e]
      /\ Held(A)[e] \in Nat /\ Held(A)[e] <= Held(Kept)[e]
  BY <1>1, HeldOfDifference
<1> QED
  BY <1>1, <1>2, <1>3, <1>4, <1>5 DEF here

\* Moving entries between holders that keep them releases none.
LEMMA MoveKept ==
    ASSUME RefInv, Kept' = Kept, UNCHANGED <<refs, displaced, pc, offer>>
    PROVE  ReferencesExact'
<1>1. \A e \in Events : Displaced' = Displaced /\ Offering(e)' = Offering(e)
  BY DEF Displaced, Offering
<1> QED
  BY <1>1, CountParts, CountSuffices

LEMMA OthersKeepReferences ==
    ASSUME RefInv, WorkerStep \/ OwnerStep
    PROVE  ReferencesExact'
<1>0. HoldersApart /\ IInv
  BY DEF RefInv
<1> USE DEF contents, signals, statistics, settings, request, calls, progress, sweep
<1>1. UNCHANGED <<displaced, pc, offer>>
  BY DEF WorkerStep, BeginSweep, SkipCollection, TakeCollection, BeginCallback, EndCallback,
         ThrowFromCallback, FinishCollection, OwnerStep, StopAcceptingEvents, ClearPendingEvents,
         ReleaseCleared, SetMaximumPendingEventCount, SetEventQueueOverflowPolicy,
         ResetEventQueueStatistics
<1>2. CASE TakeCollection
  <2>1. batch = {} /\ batch' \cup mailbox' = mailbox /\ UNCHANGED <<clearing, refs>>
    BY <1>0, <1>2, CollectionType DEF TakeCollection, IInv, SweepStructure
  <2>2. Kept' = Kept
    BY <2>1 DEF Kept
  <2> QED
    BY <1>1, <2>1, <2>2, MoveKept
<1>3. CASE EndCallback
  <2>1. /\ NextInBatch \in SUBSET batch /\ batch' = batch \ NextInBatch
        /\ refs' = Unref(Held(NextInBatch)) /\ UNCHANGED <<mailbox, clearing>>
    BY <1>3, NextInBatchType DEF EndCallback
  <2>2. NextInBatch \in SUBSET Kept /\ Kept' = Kept \ NextInBatch
    BY <1>0, <2>1 DEF Kept, HoldersApart
  <2> QED
    BY <1>1, <2>1, <2>2, ReleaseKept
<1>4. CASE ThrowFromCallback
  <2>1. /\ batch' = {} /\ refs' = Unref(Held(batch)) /\ UNCHANGED <<mailbox, clearing>>
    BY <1>4 DEF ThrowFromCallback
  <2>2. batch \in SUBSET Kept /\ Kept' = Kept \ batch
    BY <1>0, <2>1 DEF Kept, HoldersApart
  <2> QED
    BY <1>1, <2>1, <2>2, ReleaseKept
<1>5. CASE FinishCollection
  <2>1. batch = {} /\ batch' = {} /\ UNCHANGED <<mailbox, clearing, refs>>
    BY <1>0, <1>5 DEF FinishCollection, BatchDone, IInv, SweepStructure
  <2>2. Kept' = Kept
    BY <2>1 DEF Kept
  <2> QED
    BY <1>1, <2>1, <2>2, MoveKept
<1>6. CASE ClearPendingEvents
  <2>1. /\ clearing = {} /\ clearing' = mailbox /\ mailbox' = {}
        /\ UNCHANGED <<batch, refs>>
    BY <1>6 DEF ClearPendingEvents
  <2>2. Kept' = Kept
    BY <2>1 DEF Kept
  <2> QED
    BY <1>1, <2>1, <2>2, MoveKept
<1>7. CASE ReleaseCleared
  <2>1. /\ clearing' = {} /\ refs' = Unref(Held(clearing)) /\ UNCHANGED <<mailbox, batch>>
    BY <1>7 DEF ReleaseCleared
  <2>2. clearing \in SUBSET Kept /\ Kept' = Kept \ clearing
    BY <1>0, <2>1 DEF Kept, HoldersApart
  <2> QED
    BY <1>1, <2>1, <2>2, ReleaseKept
<1>8. CASE UNCHANGED <<mailbox, batch, clearing, refs>>
  <2>1. Kept' = Kept
    BY <1>8 DEF Kept
  <2> QED
    BY <1>1, <1>8, <2>1, MoveKept
<1> QED
  BY <1>2, <1>3, <1>4, <1>5, <1>6, <1>7, <1>8
     DEF WorkerStep, BeginSweep, SkipCollection, BeginCallback, OwnerStep, StopAcceptingEvents,
         SetMaximumPendingEventCount, SetEventQueueOverflowPolicy, ResetEventQueueStatistics

LEMMA RefInvHolds == Spec => []RefInv
<1>1. Init => RefInv
  <2> SUFFICES ASSUME Init PROVE RefInv
    OBVIOUS
  <2>1. Kept = {} /\ Displaced = {} /\ HoldersApart
    BY DEF Init, Kept, Displaced, HoldersApart
  <2>2. ASSUME NEW e \in Events
        PROVE  Holding({}, e) = {} /\ Offering(e) = {} /\ refs[e] = IF e \in Shared THEN 1 ELSE 0
    BY DEF Init, Holding, Offering
  <2>3. ASSUME NEW e \in Events
        PROVE  refs[e] = (IF e \in Shared THEN 1 ELSE 0) + Held(Kept)[e] + Held(Displaced)[e]
                         + Cardinality(Offering(e))
    <3>1. Held({})[e] = Cardinality({}) /\ Cardinality({}) = 0
      BY <2>2, HeldValue, FS_EmptySet
    <3> QED
      BY <2>1, <2>2, <3>1
  <2>4. ReferencesExact
    BY <2>3 DEF ReferencesExact, Kept, Displaced
  <2> QED
    BY <2>1, <2>4, InitEstablishes DEF RefInv
<1>2. RefInv /\ [Next]_vars => RefInv'
  <2> SUFFICES ASSUME RefInv, [Next]_vars PROVE RefInv'
    OBVIOUS
  <2>1. IInv'
    BY NextPreserves DEF RefInv
  <2>2. CASE Next
    <3>1. HoldersApart'
      BY <2>2, CallKeepsHolders, OthersKeepHolders DEF Next
    <3>2. ReferencesExact'
      BY <2>2, CallKeepsReferences, OthersKeepReferences DEF Next
    <3> QED
      BY <2>1, <3>1, <3>2 DEF RefInv
  <2>3. CASE UNCHANGED vars
    <3>1. UNCHANGED <<mailbox, batch, clearing, displaced, refs, pc, offer, nextSequence>>
      BY <2>3 DEF vars, contents, calls, request, sweep
    <3>2. Kept' = Kept /\ Displaced' = Displaced
      BY <3>1 DEF Kept, Displaced
    <3>3. HoldersApart'
      BY <3>1, <3>2 DEF RefInv, HoldersApart
    <3>4. ReferencesExact'
      BY <3>1, <3>2, MoveKept
    <3> QED
      BY <2>1, <3>3, <3>4 DEF RefInv
  <2> QED
    BY <2>2, <2>3
<1> QED
  BY <1>1, <1>2, PTL DEF Spec

\* ReferencesExact always holds: whatever is evicted, cleared, refused, failed or
\* abandoned by a throwing callback, an event's reference count is the number of entries
\* and calls that hold it, so none leaks and none is deleted while it can be reached.
THEOREM ReferencesAreExact == Spec => []ReferencesExact
<1>1. RefInv => ReferencesExact
  BY DEF RefInv
<1> QED
  BY <1>1, RefInvHolds, PTL

----------------------------------------------------------------------------
\* What the calls that are made say about the findings.

\* Every call under way, and every entry, was made in a way that is offered.
OfferedKnown ==
    /\ \A p \in Callers : pc[p] # "idle" =>
           \E as \in OfferedAs[p] : offer[p].method = as.method /\ offer[p].blocking = as.blocking
    /\ \A x \in mailbox \cup batch : \E p \in Callers : \E as \in OfferedAs[p] :
           x.method = as.method

LEMMA OfferedKnownNext == ASSUME IInv, OfferedKnown, [Next]_vars PROVE OfferedKnown'
<1> USE DEF contents, signals, statistics, settings, request, calls, progress, sweep
<1>0. /\ pc \in [Callers -> {"idle", "enter", "wait", "retry", "refused", "admitted"}]
      /\ offer \in [Callers -> Offers \cup {NoOffer}]
  BY DEF IInv, TypeOK
<1>1. ASSUME NEW q \in Callers, NEW e \in Events, NEW as \in OfferedAs[q], Offer(q, e, as)
      PROVE  OfferedKnown'
  <2>1. UNCHANGED <<mailbox, batch>>
    BY <1>1 DEF Offer
  <2>2. ASSUME NEW p \in Callers, pc'[p] # "idle"
        PROVE  \E way \in OfferedAs[p] :
                   offer'[p].method = way.method /\ offer'[p].blocking = way.blocking
    <3>1. CASE p = q
      <4>1. offer'[p].method = as.method /\ offer'[p].blocking = as.blocking
        BY <1>0, <1>1, <3>1 DEF Offer
      <4> QED
        BY <3>1, <4>1
    <3>2. CASE p # q
      <4>1. pc'[p] = pc[p] /\ offer'[p] = offer[p]
        BY <1>0, <1>1, <3>2 DEF Offer
      <4> QED
        BY <2>2, <4>1 DEF OfferedKnown
    <3> QED
      BY <3>1, <3>2
  <2> QED
    BY <2>1, <2>2 DEF OfferedKnown
<1>2. ASSUME NEW q \in Callers, CallStep(q) PROVE OfferedKnown'
  <2>1. \A p \in Callers : pc'[p] # "idle" => pc[p] # "idle" /\ offer'[p] = offer[p]
    <3>1. pc[q] # "idle"
      BY <1>2 DEF CallStep, Reject, Block, Awake, Admit, FailToAdmit, ReturnRefused,
             ReturnAdmitted, MakesRoom, InAddEvent
    <3>2. CASE ReturnRefused(q) \/ ReturnAdmitted(q)
      BY <1>0, <3>2 DEF ReturnRefused, ReturnAdmitted
    <3>3. CASE ~(ReturnRefused(q) \/ ReturnAdmitted(q))
      <4>1. offer' = offer /\ \A p \in Callers : p # q => pc'[p] = pc[p]
        BY <1>0, <1>2, <3>3 DEF CallStep, Reject, Block, Awake, Admit, FailToAdmit
      <4> QED
        BY <3>1, <4>1
    <3> QED
      BY <3>2, <3>3
  <2>2. batch' = batch
    BY <1>2 DEF CallStep, Reject, Block, Awake, Admit, FailToAdmit, ReturnRefused, ReturnAdmitted
  <2>3. \A x \in mailbox' : x \in mailbox \/ (pc[q] # "idle" /\ x.method = offer[q].method)
    <3>1. CASE Admit(q)
      <4>1. pc[q] # "idle"
        BY <3>1 DEF Admit, MakesRoom, InAddEvent
      <4>2. \A x \in mailbox' : x \in mailbox \/ x.method = offer[q].method
        BY <3>1 DEF Admit
      <4> QED
        BY <4>1, <4>2
    <3>2. CASE ~Admit(q)
      BY <1>2, <3>2 DEF CallStep, Reject, Block, Awake, FailToAdmit, ReturnRefused,
             ReturnAdmitted
    <3> QED
      BY <3>1, <3>2
  <2>4. \A x \in (mailbox \cup batch)' : \E p \in Callers : \E as \in OfferedAs[p] :
            x.method = as.method
    BY <2>2, <2>3 DEF OfferedKnown
  <2> QED
    BY <2>1, <2>4 DEF OfferedKnown
<1>3. CASE WorkerStep \/ OwnerStep \/ UNCHANGED vars
  <2>1. UNCHANGED <<pc, offer>>
    BY <1>3 DEF WorkerStep, BeginSweep, SkipCollection, TakeCollection, BeginCallback,
           EndCallback, ThrowFromCallback, FinishCollection, OwnerStep, StopAcceptingEvents,
           ClearPendingEvents, ReleaseCleared, SetMaximumPendingEventCount,
           SetEventQueueOverflowPolicy, ResetEventQueueStatistics, vars
  <2>2. (mailbox \cup batch)' \subseteq mailbox \cup batch
    BY <1>3 DEF WorkerStep, BeginSweep, SkipCollection, TakeCollection, BeginCallback,
           EndCallback, ThrowFromCallback, FinishCollection, Collection, OwnerStep,
           StopAcceptingEvents, ClearPendingEvents, ReleaseCleared, SetMaximumPendingEventCount,
           SetEventQueueOverflowPolicy, ResetEventQueueStatistics, vars
  <2> QED
    BY <2>1, <2>2 DEF OfferedKnown
<1> QED
  BY <1>1, <1>2, <1>3 DEF Next

LEMMA OfferedKnownHolds == Spec => []OfferedKnown
<1>1. Init => OfferedKnown
  BY DEF Init, OfferedKnown
<1> QED
  BY <1>1, OfferedKnownNext, InvariantHolds, PTL DEF Spec

\* What remains of "higher priorities drain first": as long as all the events of a mailbox
\* are queued, or all are stacked, none is handled before one of a higher priority that was
\* there when the sweep began.
THEOREM PriorityWithinAMethod ==
    ASSUME NEW m \in Methods, \A p \in Callers : \A as \in OfferedAs[p] : as.method = m
    PROVE  Spec => []HigherPriorityFirst
<1>1. IInv /\ OfferedKnown /\ SweepDrainsInOrder => HigherPriorityFirst
  <2> SUFFICES ASSUME IInv, OfferedKnown, SweepDrainsInOrder, workerPC = "callback",
                      NEW x \in NextInBatch, NEW y \in mailbox, y.sequence < sweepMark
               PROVE  y.priority <= x.priority
    BY DEF HigherPriorityFirst
  <2>1. x.method = m /\ y.method = m
    BY NextInBatchType DEF OfferedKnown
  <2> QED
    BY <2>1 DEF SweepDrainsInOrder
<1> QED
  BY <1>1, InvariantHolds, OfferedKnownHolds, SweepInOrder, PTL

\* A stopped mailbox that no caller waits at.
NobodyWaits == ~acceptingPendingEvents => \A p \in Callers : pc[p] \notin {"wait", "retry"}

\* StopAcceptingEvents finds no caller in its wait, or between that and the lock.
StopsWithoutWaiters ==
    acceptingPendingEvents /\ ~acceptingPendingEvents'
        => \A p \in Callers : pc[p] \notin {"wait", "retry"}

LEMMA NobodyWaitsNext ==
    ASSUME IInv, NobodyWaits, [Next]_vars, [StopsWithoutWaiters]_vars PROVE NobodyWaits'
<1> USE DEF contents, signals, statistics, settings, request, calls, progress, sweep
<1>0. pc \in [Callers -> {"idle", "enter", "wait", "retry", "refused", "admitted"}]
  BY DEF IInv, TypeOK
<1>1. ASSUME NEW q \in Callers,
             CallStep(q) \/ \E e \in Events, as \in OfferedAs[q] : Offer(q, e, as)
      PROVE  NobodyWaits'
  <2>1. acceptingPendingEvents' = acceptingPendingEvents
    BY <1>1 DEF CallStep, Offer, Reject, Block, Awake, Admit, FailToAdmit, ReturnRefused,
           ReturnAdmitted
  <2>2. ASSUME ~acceptingPendingEvents
        PROVE  \A p \in Callers : pc'[p] = pc[p] \/ pc'[p] \notin {"wait", "retry"}
    <3>1. ~Block(q) /\ ~Awake(q)
      BY <2>2 DEF NobodyWaits, Block, Awake, FoundStopped, InAddEvent
    <3> QED
      BY <1>0, <1>1, <3>1 DEF CallStep, Offer, Reject, Admit, FailToAdmit, ReturnRefused,
             ReturnAdmitted
  <2> QED
    BY <2>1, <2>2 DEF NobodyWaits
<1>2. CASE WorkerStep \/ OwnerStep \/ UNCHANGED vars
  <2>1. pc' = pc
    BY <1>2 DEF WorkerStep, BeginSweep, SkipCollection, TakeCollection, BeginCallback,
           EndCallback, ThrowFromCallback, FinishCollection, OwnerStep, StopAcceptingEvents,
           ClearPendingEvents, ReleaseCleared, SetMaximumPendingEventCount,
           SetEventQueueOverflowPolicy, ResetEventQueueStatistics, vars
  <2>2. CASE acceptingPendingEvents' = acceptingPendingEvents
    BY <2>1, <2>2 DEF NobodyWaits
  <2>3. CASE acceptingPendingEvents' # acceptingPendingEvents
    <3>1. StopsWithoutWaiters
      BY <2>3 DEF vars
    <3> QED
      BY <2>1, <2>3, <3>1 DEF NobodyWaits, StopsWithoutWaiters, IInv, TypeOK
  <2> QED
    BY <2>2, <2>3
<1> QED
  BY <1>1, <1>2 DEF Next

LEMMA AdmitsNobody ==
    ASSUME IInv, NobodyWaits, Next, ~acceptingPendingEvents PROVE mailbox' \subseteq mailbox
<1> USE DEF contents, signals, statistics, settings, request, calls, progress, sweep
<1>1. \A p \in Callers : ~Admit(p)
  BY DEF Admit, MakesRoom, InAddEvent, FoundStopped, NobodyWaits
<1> QED
  BY <1>1 DEF Next, CallStep, Offer, Reject, Block, Awake, FailToAdmit, ReturnRefused,
         ReturnAdmitted, WorkerStep, BeginSweep, SkipCollection, TakeCollection, BeginCallback,
         EndCallback, ThrowFromCallback, FinishCollection, OwnerStep, StopAcceptingEvents,
         ClearPendingEvents, ReleaseCleared, SetMaximumPendingEventCount,
         SetEventQueueOverflowPolicy, ResetEventQueueStatistics

\* What remains of "stops accepting events": a stop that finds no producer waiting for
\* capacity is final, whatever is cleared, resized and offered afterwards.
THEOREM StopWithoutWaitersIsFinal ==
    Spec /\ [][StopsWithoutWaiters]_vars => NoAdmissionAfterStop
<1>1. Init => NobodyWaits
  BY DEF Init, NobodyWaits
<1>2. IInv /\ NobodyWaits /\ [Next]_vars
        => [~acceptingPendingEvents => mailbox' \subseteq mailbox]_vars
  BY AdmitsNobody
<1> QED
  BY <1>1, <1>2, NobodyWaitsNext, InvariantHolds, PTL DEF Spec, NoAdmissionAfterStop

\* So is, with no proviso, every stop of a mailbox that Try calls alone offer to: the calls
\* that the broker makes on its receivers.
THEOREM TryCallsRespectStop ==
    ASSUME \A p \in Callers : \A as \in OfferedAs[p] : ~as.blocking
    PROVE  Spec => NoAdmissionAfterStop
<1>1. IInv /\ OfferedKnown => \A p \in Callers : pc[p] \notin {"wait", "retry"}
  BY DEF IInv, CallStructure, OfferedKnown
<1>2. IInv /\ OfferedKnown => NobodyWaits
  BY <1>1 DEF NobodyWaits
<1>3. IInv /\ NobodyWaits /\ [Next]_vars
        => [~acceptingPendingEvents => mailbox' \subseteq mailbox]_vars
  BY AdmitsNobody
<1> QED
  BY <1>2, <1>3, InvariantHolds, OfferedKnownHolds, PTL DEF Spec, NoAdmissionAfterStop

=============================================================================
