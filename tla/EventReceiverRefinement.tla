---------------------- MODULE EventReceiverRefinement ----------------------
(***************************************************************************)
(* That EventReceiver implements the bounded mailbox of the module Mailbox *)
(* for any set of threads and events, any maximum and any policy.  An      *)
(* entry stands for its number, so the proof first shows that each number  *)
(* has one fate (OneFate), then maps each step of the receiver to a step   *)
(* of the mailbox, or to none.                                             *)
(***************************************************************************)
EXTENDS EventReceiverProofs, WellFoundedInduction, FunctionTheorems

\* A set of natural numbers has a smallest element.
LEMMA SmallestElement ==
    ASSUME NEW S \in SUBSET Nat, S # {}
    PROVE  \E n \in S : \A m \in S : n <= m
<1>1. PICK n \in S : \A m \in S : <<m, n>> \notin OpToRel(<, Nat)
  BY NatLessThanWellFounded, WFMin
<1>2. \A m \in S : ~(m < n)
  BY <1>1 DEF OpToRel
<1> QED
  BY <1>2

\* A bounded set of natural numbers has a largest element.
LEMMA LargestElement ==
    ASSUME NEW k \in Nat, NEW S \in SUBSET (0 .. k), S # {}
    PROVE  \E n \in S : \A m \in S : m <= n
<1> DEFINE T == {k - n : n \in S}
<1>1. T \in SUBSET Nat /\ T # {}
  <2>1. PICK n \in S : TRUE
    OBVIOUS
  <2>2. k - n \in T
    OBVIOUS
  <2> QED
    BY <2>2
<1>2. PICK t \in T : \A u \in T : t <= u
  <2> HIDE DEF T
  <2> QED
    BY <1>1, SmallestElement
<1>3. PICK n \in S : t = k - n
  <2>1. t \in {k - n : n \in S}
    BY <1>2
  <2> QED
    BY <2>1
<1>4. ASSUME NEW m \in S PROVE m <= n
  <2>1. k - m \in T
    OBVIOUS
  <2> QED
    BY <1>2, <1>3, <2>1
<1> QED
  BY <1>4

----------------------------------------------------------------------------
\* Entries and their numbers.

\* No two entries of A have the same number.
Distinct(A) == \A x, y \in A : x.sequence = y.sequence => x = y

\* What is taken out of a vector takes exactly its own numbers along.
LEMMA SequencesOfDifference ==
    ASSUME NEW A, Distinct(A), NEW B \in SUBSET A
    PROVE  /\ Sequences(A \ B) = Sequences(A) \ Sequences(B)
           /\ Sequences(B) \subseteq Sequences(A)
BY DEF Distinct, Sequences

LEMMA SequencesOfAddition ==
    ASSUME NEW A, NEW x
    PROVE  Sequences(A \cup {x}) = Sequences(A) \cup {x.sequence}
BY DEF Sequences

\* So there are as many numbers as entries.
LEMMA CardinalityOfSequences ==
    ASSUME NEW A, IsFiniteSet(A), Distinct(A)
    PROVE  Cardinality(Sequences(A)) = Cardinality(A)
<1> DEFINE f == [x \in A |-> x.sequence]
<1>1. f \in [A -> Sequences(A)]
  BY DEF Sequences
<1>2. \A x, y \in A : f[x] = f[y] => x = y
  BY DEF Distinct
<1>3. \A n \in Sequences(A) : \E x \in A : f[x] = n
  BY DEF Sequences
<1> HIDE DEF f
<1>4. f \in Bijection(A, Sequences(A))
  BY <1>1, <1>2, <1>3, Fun_IsBij
<1>5. ExistsBijection(A, Sequences(A))
  BY <1>4 DEF ExistsBijection
<1> QED
  BY <1>5, FS_Bijection

----------------------------------------------------------------------------
\* Every admission has one fate.

\* Between TakeCollection and FinishCollection a batch counts, and a callback has an entry.
BatchInHand ==
    /\ Distinct(batch)
    /\ workerPC \in {"batch", "callback", "unwind"} => batchSize # 0
    /\ workerPC = "callback" => batch # {}

FateInv == IInv /\ BatchInHand /\ OneFate

\* The entry whose callback comes next is one of the batch.
LEMMA NextIsOne ==
    ASSUME IInv, Distinct(batch), batch # {}
    PROVE  \E x \in batch : NextInBatch = {x}
<1>1. /\ nextSequence \in Nat
      /\ \A x \in batch : x.sequence \in Nat /\ x.sequence < nextSequence
  BY DEF IInv, TypeOK, Entries, SequenceOrder
<1>2. Sequences(batch) \in SUBSET (0 .. nextSequence) /\ Sequences(batch) # {}
  BY <1>1 DEF Sequences
<1>3. PICK n \in Sequences(batch) : \A k \in Sequences(batch) : n <= k
  BY <1>1, <1>2, SmallestElement
<1>4. PICK m \in Sequences(batch) : \A k \in Sequences(batch) : k <= m
  BY <1>1, <1>2, LargestElement
<1>5. \E x \in batch : Oldest(batch) = {x}
  <2>1. PICK x \in batch : x.sequence = n
    BY DEF Sequences
  <2>2. \A y \in batch : x.sequence <= y.sequence
    BY <1>3, <2>1 DEF Sequences
  <2>3. Oldest(batch) = {x}
    BY <1>1, <2>1, <2>2 DEF Oldest, Distinct
  <2> QED
    BY <2>3
<1>6. \E x \in batch : Newest(batch) = {x}
  <2>1. PICK x \in batch : x.sequence = m
    BY DEF Sequences
  <2>2. \A y \in batch : x.sequence >= y.sequence
    BY <1>1, <1>4, <2>1 DEF Sequences
  <2>3. Newest(batch) = {x}
    BY <1>1, <2>1, <2>2 DEF Newest, Distinct
  <2> QED
    BY <2>3
<1> QED
  BY <1>5, <1>6 DEF NextInBatch

LEMMA CallKeepsFate ==
    ASSUME FateInv, NEW p \in Callers,
           CallStep(p) \/ \E e \in Events, as \in OfferedAs[p] : Offer(p, e, as)
    PROVE  BatchInHand' /\ OneFate'
<1>0. BatchInHand /\ OneFate /\ Distinct(mailbox) /\ nextSequence \in Nat
  BY DEF FateInv, IInv, TypeOK, SequenceOrder, Distinct
<1> USE DEF contents, signals, statistics, settings, request, calls, progress, sweep
<1>1. UNCHANGED <<workerPC, slot, batch, batchSize, handled>>
  BY DEF CallStep, Offer, Reject, Block, Awake, Admit, FailToAdmit, ReturnRefused, ReturnAdmitted
<1>2. BatchInHand' /\ NextInBatch' = NextInBatch
  BY <1>0, <1>1 DEF BatchInHand, Distinct, NextInBatch, Newest, Oldest
<1>3. CASE UNCHANGED <<mailbox, nextSequence, lost>>
  BY <1>0, <1>1, <1>2, <1>3 DEF OneFate
<1>4. CASE Admit(p)
  <2>1. PICK S \in SUBSET mailbox : Admit(p)!(S)
    BY <1>4 DEF Admit
  <2>2. /\ Sequences(mailbox \ S) = Sequences(mailbox) \ Sequences(S)
        /\ Sequences(S) \subseteq Sequences(mailbox)
    BY <1>0, SequencesOfDifference
  <2> DEFINE x == [event |-> offer[p].event, priority |-> offer[p].priority,
                   method |-> offer[p].method, sequence |-> nextSequence]
  <2>3. Sequences((mailbox \ S) \cup {x}) = Sequences(mailbox \ S) \cup {nextSequence}
    <3>1. x.sequence = nextSequence
      OBVIOUS
    <3> HIDE DEF x
    <3> QED
      BY <3>1, SequencesOfAddition
  <2>4. /\ Sequences(mailbox)' = (Sequences(mailbox) \ Sequences(S)) \cup {nextSequence}
        /\ lost' = lost \cup Sequences(S)
        /\ nextSequence' = nextSequence + 1
    BY <2>1, <2>2, <2>3
  <2>5. 0 .. nextSequence' - 1 = (0 .. nextSequence - 1) \cup {nextSequence}
    BY <1>0, <2>4
  <2>6. nextSequence \notin 0 .. nextSequence - 1
    BY <1>0
  <2> QED
    BY <1>0, <1>1, <1>2, <2>2, <2>4, <2>5, <2>6 DEF OneFate
<1>5. CASE FailToAdmit(p)
  <2>1. PICK S \in SUBSET mailbox : FailToAdmit(p)!2!(S)
    BY <1>5 DEF FailToAdmit
  <2>2. /\ Sequences(mailbox \ S) = Sequences(mailbox) \ Sequences(S)
        /\ Sequences(S) \subseteq Sequences(mailbox)
    BY <1>0, SequencesOfDifference
  <2>3. /\ Sequences(mailbox)' = Sequences(mailbox) \ Sequences(S)
        /\ lost' = lost \cup Sequences(S) \cup {nextSequence}
        /\ nextSequence' = nextSequence + 1
    BY <2>1, <2>2
  <2>4. 0 .. nextSequence' - 1 = (0 .. nextSequence - 1) \cup {nextSequence}
    BY <1>0, <2>3
  <2>5. nextSequence \notin 0 .. nextSequence - 1
    BY <1>0
  <2> QED
    BY <1>0, <1>1, <1>2, <2>2, <2>3, <2>4, <2>5 DEF OneFate
<1> QED
  BY <1>3, <1>4, <1>5 DEF CallStep, Offer, Reject, Block, Awake, ReturnRefused, ReturnAdmitted

LEMMA WorkerKeepsFate ==
    ASSUME FateInv, WorkerStep
    PROVE  BatchInHand' /\ OneFate'
<1>0. /\ IInv /\ BatchInHand /\ OneFate /\ SweepStructure /\ Distinct(mailbox)
      /\ batchSize \in Nat /\ IsFiniteSet(mailbox) /\ IsFiniteSet(batch)
  BY DEF FateInv, IInv, TypeOK, FiniteParts, SequenceOrder, Distinct
<1> USE DEF contents, signals, statistics, settings, request, calls, progress, sweep
<1>1. CASE BeginSweep \/ SkipCollection
  <2>1. /\ workerPC \in {"idle", "sweep"} /\ workerPC' \in {"idle", "sweep"}
        /\ UNCHANGED <<mailbox, batch, batchSize, nextSequence, handled, lost>>
    BY <1>1 DEF BeginSweep, SkipCollection, NextSlot
  <2> QED
    BY <1>0, <2>1 DEF BatchInHand, OneFate, Distinct
<1>2. CASE TakeCollection
  <2> DEFINE C == Collection(slot)
  <2>1. /\ workerPC = "sweep" /\ workerPC' = "batch" /\ C # {}
        /\ mailbox' = mailbox \ C /\ batch' = C /\ batchSize' = Cardinality(C)
        /\ UNCHANGED <<nextSequence, handled, lost>>
    BY <1>2 DEF TakeCollection
  <2>2. C \in SUBSET mailbox
    BY <1>0, CollectionType
  <2> HIDE DEF C
  <2>3. /\ Sequences(mailbox \ C) = Sequences(mailbox) \ Sequences(C)
        /\ Sequences(C) \subseteq Sequences(mailbox)
    BY <1>0, <2>2, SequencesOfDifference
  <2>4. batchSize' # 0 /\ Distinct(C)
    BY <1>0, <2>1, <2>2, CardinalityOfDifference DEF Distinct
  <2>5. Sequences(batch) = {}
    BY <1>0, <2>1 DEF SweepStructure, Sequences
  <2>6. BatchInHand'
    BY <2>1, <2>4 DEF BatchInHand, Distinct
  <2>7. Sequences(mailbox)' = Sequences(mailbox) \ Sequences(C) /\ Sequences(batch)' = Sequences(C)
    BY <2>1, <2>3
  <2> QED
    BY <1>0, <2>1, <2>3, <2>5, <2>6, <2>7 DEF OneFate
<1>3. CASE BeginCallback
  <2>1. /\ workerPC = "batch" /\ workerPC' = "callback" /\ batch # {}
        /\ handled' = handled \cup Sequences(NextInBatch)
        /\ UNCHANGED <<mailbox, batch, batchSize, slot, nextSequence, lost>>
    BY <1>3 DEF BeginCallback, BatchDone
  <2>2. Sequences(NextInBatch) \subseteq Sequences(batch)
    BY NextInBatchType DEF Sequences
  <2>3. NextInBatch' = NextInBatch
    BY <2>1 DEF NextInBatch, Newest, Oldest
  <2>4. BatchInHand'
    BY <1>0, <2>1 DEF BatchInHand, Distinct
  <2>5. /\ Sequences(mailbox)' = Sequences(mailbox) /\ Sequences(batch)' = Sequences(batch)
        /\ Sequences(NextInBatch)' = Sequences(NextInBatch)
    BY <2>1, <2>3
  <2> QED
    BY <1>0, <2>1, <2>2, <2>4, <2>5 DEF OneFate
<1>4. CASE EndCallback
  <2>1. /\ workerPC = "callback" /\ workerPC' = "batch" /\ batch' = batch \ NextInBatch
        /\ UNCHANGED <<mailbox, batchSize, nextSequence, handled, lost>>
    BY <1>4 DEF EndCallback
  <2>2. /\ Sequences(batch \ NextInBatch) = Sequences(batch) \ Sequences(NextInBatch)
        /\ Sequences(NextInBatch) \subseteq Sequences(batch)
    BY <1>0, NextInBatchType, SequencesOfDifference DEF BatchInHand
  <2>3. BatchInHand'
    BY <1>0, <2>1 DEF BatchInHand, Distinct
  <2>4. /\ Sequences(mailbox)' = Sequences(mailbox)
        /\ Sequences(batch)' = Sequences(batch) \ Sequences(NextInBatch)
    BY <2>1, <2>2
  <2> QED
    BY <1>0, <2>1, <2>2, <2>3, <2>4 DEF OneFate
<1>5. CASE ThrowFromCallback
  <2>1. /\ workerPC = "callback" /\ workerPC' = "unwind" /\ batch' = {}
        /\ lost' = lost \cup (Sequences(batch) \ handled)
        /\ UNCHANGED <<mailbox, batchSize, nextSequence, handled>>
    BY <1>5 DEF ThrowFromCallback
  <2>2. Sequences(mailbox)' = Sequences(mailbox) /\ Sequences(batch)' = {}
    BY <2>1 DEF Sequences
  <2>3. BatchInHand'
    BY <1>0, <2>1 DEF BatchInHand, Distinct
  <2> QED
    BY <1>0, <2>1, <2>2, <2>3 DEF OneFate
<1>6. CASE FinishCollection
  <2>1. /\ workerPC \in {"batch", "unwind"} /\ workerPC' \in {"idle", "sweep"}
        /\ batch = {} /\ batch' = {}
        /\ UNCHANGED <<mailbox, nextSequence, handled, lost>>
    BY <1>0, <1>6 DEF FinishCollection, NextSlot, BatchDone, SweepStructure
  <2> QED
    BY <1>0, <2>1 DEF BatchInHand, Distinct, OneFate
<1> QED
  BY <1>1, <1>2, <1>3, <1>4, <1>5, <1>6 DEF WorkerStep

LEMMA OwnerKeepsFate ==
    ASSUME FateInv, OwnerStep
    PROVE  BatchInHand' /\ OneFate'
<1>0. BatchInHand /\ OneFate
  BY DEF FateInv
<1> USE DEF contents, signals, statistics, settings, request, calls, progress, sweep
<1>1. UNCHANGED <<workerPC, slot, batch, batchSize, handled, nextSequence>>
  BY DEF OwnerStep, StopAcceptingEvents, ClearPendingEvents, ReleaseCleared,
         SetMaximumPendingEventCount, SetEventQueueOverflowPolicy, ResetEventQueueStatistics
<1>2. BatchInHand' /\ NextInBatch' = NextInBatch
  BY <1>0, <1>1 DEF BatchInHand, Distinct, NextInBatch, Newest, Oldest
<1>3. CASE UNCHANGED <<mailbox, lost>>
  BY <1>0, <1>1, <1>2, <1>3 DEF OneFate
<1>4. CASE ClearPendingEvents
  <2>1. mailbox' = {} /\ lost' = lost \cup Sequences(mailbox)
    BY <1>4 DEF ClearPendingEvents
  <2>2. Sequences(mailbox)' = {}
    BY <2>1 DEF Sequences
  <2> QED
    BY <1>0, <1>1, <1>2, <2>1, <2>2 DEF OneFate
<1> QED
  BY <1>3, <1>4 DEF OwnerStep, StopAcceptingEvents, ReleaseCleared, SetMaximumPendingEventCount,
                    SetEventQueueOverflowPolicy, ResetEventQueueStatistics

LEMMA FateInvHolds == Spec => []FateInv
<1>1. Init => FateInv
  <2> SUFFICES ASSUME Init PROVE FateInv
    OBVIOUS
  <2>1. BatchInHand
    BY DEF Init, BatchInHand, Distinct
  <2>2. Sequences(mailbox) = {} /\ Sequences(batch) = {} /\ 0 .. nextSequence - 1 = {}
    BY DEF Init, Sequences
  <2>3. OneFate
    BY <2>2 DEF Init, OneFate
  <2> QED
    BY <2>1, <2>3, InitEstablishes DEF FateInv
<1>2. FateInv /\ [Next]_vars => FateInv'
  <2> SUFFICES ASSUME FateInv, [Next]_vars PROVE FateInv'
    OBVIOUS
  <2>1. IInv'
    BY NextPreserves DEF FateInv
  <2>2. CASE UNCHANGED vars
    <3> USE <2>2 DEF vars, contents, signals, statistics, settings, request, calls, progress, sweep
    <3>1. BatchInHand'
      BY DEF FateInv, BatchInHand, Distinct
    <3>2. OneFate'
      BY DEF FateInv, OneFate, Sequences, NextInBatch, Newest, Oldest
    <3> QED
      BY <2>1, <3>1, <3>2 DEF FateInv
  <2>3. CASE Next
    <3>1. BatchInHand' /\ OneFate'
      BY <2>3, CallKeepsFate, WorkerKeepsFate, OwnerKeepsFate DEF Next
    <3> QED
      BY <2>1, <3>1 DEF FateInv
  <2> QED
    BY <2>2, <2>3
<1> QED
  BY <1>1, <1>2, PTL DEF Spec

\* OneFate always holds: whatever is evicted, cleared, refused for lack of memory or
\* abandoned by a throwing callback, every number given to an admission is pending, in
\* the batch, handled or given up, and no two of these but for the running callback.
THEOREM EveryAdmissionHasOneFate == Spec => []OneFate
<1>1. FateInv => OneFate
  BY DEF FateInv
<1> QED
  BY <1>1, FateInvHolds, PTL

----------------------------------------------------------------------------
\* The mailbox implements the promise, step by step.

\* The instance counts as this module does.
LEMMA SameCardinality == \A S : M!Cardinality(S) = Cardinality(S)
BY DEF M!Cardinality, Cardinality

\* There is room for the promise when the mailbox is not full.
LEMMA SameRoom ==
    ASSUME FateInv
    PROVE  M!HasRoom <=> ~Full
<1>1. Distinct(mailbox) /\ IsFiniteSet(mailbox) /\ CountsExact /\ TypeOK
  BY DEF FateInv, IInv, FiniteParts, SequenceOrder, Distinct
<1>2. M!Cardinality(Sequences(mailbox)) = pendingEventCount
  BY <1>1, SameCardinality, CardinalityOfSequences DEF CountsExact
<1> QED
  BY <1>1, <1>2 DEF M!HasRoom, Full, RetainedEventCount, CountsExact, TypeOK

\* What makes room for an offer is what the promise lets go of.
LEMMA SameVictims ==
    ASSUME FateInv, NEW p \in Callers, NEW S \in SUBSET mailbox, MakesRoom(p, S)
    PROVE  Sequences(S) \in M!Victims
<1>1. Distinct(mailbox)
  BY DEF FateInv, IInv, SequenceOrder, Distinct
<1>2. CASE ~Full
  <2>1. Sequences(S) = {} /\ M!HasRoom
    BY <1>2, SameRoom DEF MakesRoom, Sequences
  <2> QED
    BY <2>1 DEF M!Victims
<1>3. CASE Full
  <2>1. S # {} /\ S = Evictable /\ ~M!HasRoom
    BY <1>3, SameRoom DEF MakesRoom
  <2>2. \A x, y \in S : x.sequence <= y.sequence /\ y.sequence <= x.sequence
    BY <2>1 DEF Evictable, LowestPriority, Oldest
  <2>3. \A x \in S : x \in mailbox /\ x.sequence \in Nat
    BY DEF FateInv, IInv, TypeOK, Entries
  <2>4. PICK x \in S : TRUE
    BY <2>1
  <2>5. \A y \in S : y.sequence = x.sequence
    BY <2>2, <2>3
  <2>6. Sequences(S) = {x.sequence} /\ x.sequence \in Sequences(mailbox)
    BY <2>3, <2>5 DEF Sequences
  <2> QED
    BY <2>1, <2>6 DEF M!Victims
<1> QED
  BY <1>2, <1>3

LEMMA InitImplements == Init => M!Init
<1> SUFFICES ASSUME Init PROVE M!Init
  OBVIOUS
<1>1. Sequences(mailbox) = {} /\ Sequences(batch) = {}
  BY DEF Init, Sequences
<1>2. maximumPendingEventCount \in Nat /\ Due = {} /\ Sweeping = "idle"
  BY MaximaAssumption DEF Init, Due, Sweeping
<1> QED
  BY <1>1, <1>2 DEF Init, M!Init

\* A step that none of the mapped variables sees.
LEMMA Stutters ==
    ASSUME UNCHANGED <<maximumPendingEventCount, nextSequence, mailbox, batch, batchSize, handled,
                       lost, sweepMark, Sweeping, workerPC = "idle">>
    PROVE  UNCHANGED M!vars
<1>1. Sequences(mailbox)' = Sequences(mailbox) /\ Sequences(batch)' = Sequences(batch)
  OBVIOUS
<1>2. Due' = Due
  BY DEF Due
<1> QED
  BY <1>1, <1>2 DEF M!vars, M!fates, M!batch

LEMMA CallImplements ==
    ASSUME FateInv, NEW p \in Callers,
           CallStep(p) \/ \E e \in Events, as \in OfferedAs[p] : Offer(p, e, as)
    PROVE  [M!Next]_(M!vars)
<1>0. /\ Distinct(mailbox) /\ nextSequence \in Nat /\ sweepMark \in Nat /\ sweepMark <= nextSequence
  BY DEF FateInv, IInv, TypeOK, SequenceOrder, SweepOrder, Distinct
<1> USE DEF contents, signals, statistics, settings, request, calls, progress, sweep
<1>1. UNCHANGED <<workerPC, batch, batchSize, handled, sweepMark, maximumPendingEventCount>>
  BY DEF CallStep, Offer, Reject, Block, Awake, Admit, FailToAdmit, ReturnRefused, ReturnAdmitted
<1>2. Sweeping' = Sweeping /\ (workerPC = "idle")' = (workerPC = "idle")
      /\ Sequences(batch)' = Sequences(batch)
  BY <1>1 DEF Sweeping
<1>3. CASE UNCHANGED <<mailbox, nextSequence, lost>>
  BY <1>1, <1>2, <1>3, Stutters
<1>4. CASE Admit(p)
  <2>1. PICK S \in SUBSET mailbox : Admit(p)!(S)
    BY <1>4 DEF Admit
  <2>2. Sequences(mailbox \ S) = Sequences(mailbox) \ Sequences(S)
    BY <1>0, SequencesOfDifference
  <2> DEFINE x == [event |-> offer[p].event, priority |-> offer[p].priority,
                   method |-> offer[p].method, sequence |-> nextSequence]
  <2>3. Sequences((mailbox \ S) \cup {x}) = Sequences(mailbox \ S) \cup {nextSequence}
    <3>1. x.sequence = nextSequence
      OBVIOUS
    <3> HIDE DEF x
    <3> QED
      BY <3>1, SequencesOfAddition
  <2>4. /\ Sequences(mailbox)' = (Sequences(mailbox) \ Sequences(S)) \cup {nextSequence}
        /\ lost' = lost \cup Sequences(S)
        /\ nextSequence' = nextSequence + 1
    BY <2>1, <2>2, <2>3
  <2>5. Due' = Due \ Sequences(S)
    BY <1>0, <1>1, <2>4 DEF Due
  <2>6. Sequences(S) \in M!Victims
    BY <2>1, SameVictims
  <2>7. M!Admit
    BY <1>1, <1>2, <2>4, <2>5, <2>6 DEF M!Admit, M!batch
  <2> QED
    BY <2>7 DEF M!Next
<1>5. CASE FailToAdmit(p)
  <2>1. PICK S \in SUBSET mailbox : FailToAdmit(p)!2!(S)
    BY <1>5 DEF FailToAdmit
  <2>2. Sequences(mailbox \ S) = Sequences(mailbox) \ Sequences(S)
    BY <1>0, SequencesOfDifference
  <2>3. /\ Sequences(mailbox)' = Sequences(mailbox) \ Sequences(S)
        /\ lost' = lost \cup Sequences(S) \cup {nextSequence}
        /\ nextSequence' = nextSequence + 1
    BY <2>1, <2>2
  <2>4. Due' = Due \ Sequences(S)
    BY <1>1, <2>3 DEF Due
  <2>5. Sequences(S) \in M!Victims
    BY <2>1, SameVictims
  <2>6. M!FailToAdmit
    BY <1>1, <1>2, <2>3, <2>4, <2>5 DEF M!FailToAdmit, M!batch
  <2> QED
    BY <2>6 DEF M!Next
<1> QED
  BY <1>3, <1>4, <1>5 DEF CallStep, Offer, Reject, Block, Awake, ReturnRefused, ReturnAdmitted

\* Past the sixth collection nothing is due any more.
LEMMA NothingDue ==
    ASSUME FateInv, slot = 6, workerPC # "idle",
           workerPC # "sweep" \/ Collection(slot) = {}
    PROVE  Due = {}
<1>1. /\ mailbox \subseteq Entries
      /\ \A y \in mailbox : y.sequence < sweepMark =>
             SlotOf(y) >= slot /\ (workerPC # "sweep" => SlotOf(y) # slot)
  BY DEF FateInv, IInv, TypeOK, SweepOrder
<1>2. \A y \in mailbox : SlotOf(y) \in 1 .. 6
  BY <1>1, SlotType
<1>3. \A y \in mailbox : ~(y.sequence < sweepMark)
  BY <1>1, <1>2 DEF Collection
<1> QED
  BY <1>3 DEF Due, Sequences

LEMMA WorkerImplements ==
    ASSUME FateInv, WorkerStep
    PROVE  [M!Next]_(M!vars)
<1>0. /\ IInv /\ BatchInHand /\ OneFate /\ SweepStructure /\ Distinct(mailbox)
      /\ batchSize \in Nat /\ IsFiniteSet(mailbox) /\ mailbox \subseteq Entries
      /\ \A n \in Sequences(mailbox) : n < nextSequence
  BY DEF FateInv, IInv, TypeOK, FiniteParts, SequenceOrder, Distinct, Sequences
<1> USE DEF contents, signals, statistics, settings, request, calls, progress, sweep
<1>1. CASE BeginSweep
  <2>1. /\ workerPC = "idle" /\ workerPC' = "sweep" /\ sweepMark' = nextSequence
        /\ UNCHANGED <<mailbox, batch, batchSize, nextSequence, handled, lost,
                       maximumPendingEventCount>>
    BY <1>1 DEF BeginSweep
  <2>2. /\ Sequences(mailbox)' = Sequences(mailbox) /\ Sequences(batch)' = Sequences(batch)
        /\ Due' = {n \in Sequences(mailbox) : n < nextSequence}
    BY <2>1 DEF Due
  <2>3. Due' = Sequences(mailbox) /\ Sweeping = "idle" /\ Sweeping' = "sweep"
    BY <1>0, <2>1, <2>2 DEF Sweeping
  <2>4. M!BeginSweep
    BY <2>1, <2>2, <2>3 DEF M!BeginSweep, M!fates, M!batch
  <2> QED
    BY <2>4 DEF M!Next
<1>2. CASE SkipCollection
  <2>1. /\ workerPC = "sweep" /\ Collection(slot) = {} /\ NextSlot
        /\ UNCHANGED <<mailbox, batch, batchSize, nextSequence, handled, lost, sweepMark,
                       maximumPendingEventCount>>
    BY <1>2 DEF SkipCollection
  <2>2. CASE slot # 6
    <3>1. workerPC' = "sweep"
      BY <2>1, <2>2 DEF NextSlot
    <3>2. Sweeping' = Sweeping /\ (workerPC = "idle")' = (workerPC = "idle")
      BY <2>1, <3>1 DEF Sweeping
    <3> QED
      BY <2>1, <3>2, Stutters
  <2>3. CASE slot = 6
    <3>1. workerPC' = "idle"
      BY <2>1, <2>3 DEF NextSlot
    <3>2. Due = {} /\ Due' = {}
      BY <2>1, <2>3, <3>1, NothingDue DEF Due
    <3>3. Sweeping = "sweep" /\ Sweeping' = "idle" /\ batchSize = 0
      BY <1>0, <2>1, <3>1 DEF Sweeping, SweepStructure
    <3>4. Sequences(mailbox)' = Sequences(mailbox) /\ Sequences(batch)' = Sequences(batch)
      BY <2>1
    <3>5. M!EndSweep
      BY <2>1, <3>2, <3>3, <3>4 DEF M!EndSweep, M!MayEnd, M!fates, M!batch
    <3> QED
      BY <3>5 DEF M!Next
  <2> QED
    BY <2>2, <2>3
<1>3. CASE TakeCollection
  <2> DEFINE C == Collection(slot)
  <2>1. /\ workerPC = "sweep" /\ workerPC' = "batch" /\ C # {}
        /\ mailbox' = mailbox \ C /\ batch' = C /\ batchSize' = Cardinality(C)
        /\ UNCHANGED <<nextSequence, handled, lost, sweepMark, maximumPendingEventCount>>
    BY <1>3 DEF TakeCollection
  <2>2. C \in SUBSET mailbox
    BY <1>0, CollectionType
  <2> HIDE DEF C
  <2>3. /\ Sequences(mailbox \ C) = Sequences(mailbox) \ Sequences(C)
        /\ Sequences(C) \in SUBSET Sequences(mailbox) /\ Sequences(C) # {}
    <3>1. Sequences(C) # {}
      BY <2>1 DEF Sequences
    <3> QED
      BY <1>0, <2>2, <3>1, SequencesOfDifference
  <2>4. IsFiniteSet(C) /\ Distinct(C)
    BY <1>0, <2>2, FS_Subset DEF Distinct
  <2>5. M!Cardinality(Sequences(C)) = Cardinality(C)
    BY <2>4, SameCardinality, CardinalityOfSequences
  <2>6. Sequences(mailbox)' = Sequences(mailbox) \ Sequences(C) /\ Sequences(batch)' = Sequences(C)
    BY <2>1, <2>3
  <2>7. Due' = Due \ Sequences(C)
    BY <2>1, <2>6 DEF Due
  <2>8. Sweeping = "sweep" /\ Sweeping' = "sweep" /\ batchSize = 0
    BY <1>0, <2>1 DEF Sweeping, SweepStructure
  <2>9. M!Take
    BY <2>1, <2>3, <2>5, <2>6, <2>7, <2>8 DEF M!Take, M!fates
  <2> QED
    BY <2>9 DEF M!Next
<1>4. CASE BeginCallback
  <2>1. /\ workerPC = "batch" /\ workerPC' = "callback" /\ batch # {}
        /\ handled' = handled \cup Sequences(NextInBatch)
        /\ UNCHANGED <<mailbox, batch, batchSize, nextSequence, lost, sweepMark,
                       maximumPendingEventCount>>
    BY <1>4 DEF BeginCallback, BatchDone
  <2>2. PICK x \in batch : NextInBatch = {x}
    BY <1>0, <2>1, NextIsOne DEF BatchInHand
  <2>3. x.sequence \in Sequences(batch) /\ Sequences(NextInBatch) = {x.sequence}
    BY <2>2 DEF Sequences
  <2>4. M!Running = {}
    BY <1>0, <2>1 DEF M!Running, OneFate
  <2>5. Sweeping = "sweep" /\ Sweeping' = "sweep"
    BY <2>1 DEF Sweeping
  <2>6. /\ Sequences(mailbox)' = Sequences(mailbox) /\ Sequences(batch)' = Sequences(batch)
        /\ Due' = Due
    BY <2>1 DEF Due
  <2>7. M!BeginCallback
    BY <2>1, <2>3, <2>4, <2>5, <2>6 DEF M!BeginCallback, M!batch
  <2> QED
    BY <2>7 DEF M!Next
<1>5. CASE EndCallback
  <2>1. /\ workerPC = "callback" /\ workerPC' = "batch" /\ batch' = batch \ NextInBatch
        /\ UNCHANGED <<mailbox, batchSize, nextSequence, handled, lost, sweepMark,
                       maximumPendingEventCount>>
    BY <1>5 DEF EndCallback
  <2>2. M!Running = Sequences(NextInBatch)
    BY <1>0, <2>1 DEF M!Running, OneFate
  <2>3. Sequences(NextInBatch) # {}
    BY <1>0, <2>1, NextIsOne DEF BatchInHand, Sequences
  <2>4. Sequences(batch)' = Sequences(batch) \ Sequences(NextInBatch)
    BY <1>0, <2>1, NextInBatchType, SequencesOfDifference DEF BatchInHand
  <2>5. Sweeping = "sweep" /\ Sweeping' = "sweep"
    BY <2>1 DEF Sweeping
  <2>6. Sequences(mailbox)' = Sequences(mailbox) /\ Due' = Due
    BY <2>1 DEF Due
  <2>7. M!EndCallback
    BY <2>1, <2>2, <2>3, <2>4, <2>5, <2>6 DEF M!EndCallback, M!fates
  <2> QED
    BY <2>7 DEF M!Next
<1>6. CASE ThrowFromCallback
  <2>1. /\ workerPC = "callback" /\ workerPC' = "unwind" /\ batch' = {}
        /\ lost' = lost \cup (Sequences(batch) \ handled)
        /\ UNCHANGED <<mailbox, batchSize, nextSequence, handled, sweepMark,
                       maximumPendingEventCount>>
    BY <1>6 DEF ThrowFromCallback
  <2>2. M!Running = Sequences(NextInBatch) /\ M!Running = Sequences(batch) \cap handled
    BY <1>0, <2>1 DEF M!Running, OneFate
  <2>3. Sequences(NextInBatch) # {}
    BY <1>0, <2>1, NextIsOne DEF BatchInHand, Sequences
  <2>4. Sequences(batch)' = {} /\ lost' = lost \cup (Sequences(batch) \ M!Running)
    BY <2>1, <2>2 DEF Sequences
  <2>5. Sweeping' = "unwind"
    BY <2>1 DEF Sweeping
  <2>6. Sequences(mailbox)' = Sequences(mailbox) /\ Due' = Due
    BY <2>1 DEF Due
  <2>7. M!ThrowFromCallback
    BY <2>1, <2>2, <2>3, <2>4, <2>5, <2>6 DEF M!ThrowFromCallback
  <2> QED
    BY <2>7 DEF M!Next
<1>7. CASE FinishCollection
  <2>1. /\ \/ workerPC = "batch" /\ NextSlot
           \/ workerPC = "unwind" /\ workerPC' = "idle"
        /\ batch = {} /\ batch' = {} /\ batchSize' = 0
        /\ UNCHANGED <<mailbox, nextSequence, handled, lost, sweepMark, maximumPendingEventCount>>
    BY <1>0, <1>7 DEF FinishCollection, BatchDone, SweepStructure
  <2>2. batchSize # 0
    BY <1>0, <2>1 DEF BatchInHand
  <2>3. /\ Sequences(mailbox)' = Sequences(mailbox)
        /\ Sequences(batch) = {} /\ Sequences(batch)' = {}
    BY <2>1 DEF Sequences
  <2>4. \/ Sweeping = "sweep" /\ Sweeping' = Sweeping /\ Due' = Due
        \/ M!MayEnd /\ Sweeping' = "idle" /\ Due' = {}
    <3>1. CASE workerPC = "unwind"
      BY <2>1, <3>1 DEF Sweeping, Due, M!MayEnd, NextSlot
    <3>2. CASE workerPC = "batch" /\ slot # 6
      BY <2>1, <3>2 DEF Sweeping, Due, NextSlot
    <3>3. CASE workerPC = "batch" /\ slot = 6
      <4>1. workerPC' = "idle" /\ Due = {}
        BY <2>1, <3>3, NothingDue DEF NextSlot
      <4> QED
        BY <4>1 DEF Sweeping, Due, M!MayEnd
    <3> QED
      BY <2>1, <3>1, <3>2, <3>3
  <2>5. M!FinishBatch
    BY <2>1, <2>2, <2>3, <2>4 DEF M!FinishBatch, M!fates
  <2> QED
    BY <2>5 DEF M!Next
<1> QED
  BY <1>1, <1>2, <1>3, <1>4, <1>5, <1>6, <1>7 DEF WorkerStep

LEMMA OwnerImplements ==
    ASSUME FateInv, OwnerStep
    PROVE  [M!Next]_(M!vars)
<1> USE DEF contents, signals, statistics, settings, request, calls, progress, sweep
<1>1. UNCHANGED <<workerPC, batch, batchSize, handled, sweepMark, nextSequence>>
  BY DEF OwnerStep, StopAcceptingEvents, ClearPendingEvents, ReleaseCleared,
         SetMaximumPendingEventCount, SetEventQueueOverflowPolicy, ResetEventQueueStatistics
<1>2. Sweeping' = Sweeping /\ (workerPC = "idle")' = (workerPC = "idle")
      /\ Sequences(batch)' = Sequences(batch)
  BY <1>1 DEF Sweeping
<1>3. CASE UNCHANGED <<mailbox, lost, maximumPendingEventCount>>
  BY <1>1, <1>2, <1>3, Stutters
<1>4. CASE ClearPendingEvents
  <2>1. /\ mailbox' = {} /\ lost' = lost \cup Sequences(mailbox)
        /\ UNCHANGED maximumPendingEventCount
    BY <1>4 DEF ClearPendingEvents
  <2>2. Sequences(mailbox)' = {}
    BY <2>1 DEF Sequences
  <2>3. Due' = {}
    BY <2>2 DEF Due
  <2>4. M!Clear
    BY <1>1, <1>2, <2>1, <2>2, <2>3 DEF M!Clear, M!batch
  <2> QED
    BY <2>4 DEF M!Next
<1>5. CASE \E m \in NewMaxima : SetMaximumPendingEventCount(m)
  <2>1. maximumPendingEventCount' \in Nat /\ UNCHANGED <<mailbox, lost>>
    BY <1>5, MaximaAssumption DEF SetMaximumPendingEventCount
  <2>2. Sequences(mailbox)' = Sequences(mailbox) /\ Due' = Due
    BY <1>1, <2>1 DEF Due
  <2>3. M!SetMaximum
    BY <1>1, <1>2, <2>1, <2>2 DEF M!SetMaximum, M!fates, M!batch
  <2> QED
    BY <2>3 DEF M!Next
<1> QED
  BY <1>3, <1>4, <1>5 DEF OwnerStep, StopAcceptingEvents, ReleaseCleared,
                          SetEventQueueOverflowPolicy, ResetEventQueueStatistics

\* ImplementsMailbox holds of every behaviour: AddEvent with its policies, waits and
\* failures, the six collections of WithEvents, clears and resizing are together one
\* bounded mailbox as the module Mailbox describes it.
THEOREM ReceiverImplementsMailbox == Spec => ImplementsMailbox
<1>1. Init => M!Init
  BY InitImplements
<1>2. FateInv /\ [Next]_vars => [M!Next]_(M!vars)
  <2> SUFFICES ASSUME FateInv, [Next]_vars PROVE [M!Next]_(M!vars)
    OBVIOUS
  <2>1. CASE Next
    BY <2>1, CallImplements, WorkerImplements, OwnerImplements DEF Next
  <2>2. CASE UNCHANGED vars
    <3>1. UNCHANGED <<maximumPendingEventCount, nextSequence, mailbox, batch, batchSize, handled,
                      lost, sweepMark, workerPC>>
      BY <2>2 DEF vars, contents, settings, calls, sweep, progress
    <3>2. Sweeping' = Sweeping /\ (workerPC = "idle")' = (workerPC = "idle")
      BY <3>1 DEF Sweeping
    <3> QED
      BY <3>1, <3>2, Stutters
  <2> QED
    BY <2>1, <2>2
<1> QED
  BY <1>1, <1>2, FateInvHolds, PTL DEF Spec, ImplementsMailbox, M!Spec

=============================================================================
