------------------------- MODULE EventThreadProofs -------------------------
(***************************************************************************)
(* Proofs about EventThread: its types and the bound of its mailbox, that  *)
(* no wake-up of its worker is lost, and that a stop leaves its mailbox    *)
(* empty.                                                                  *)
(***************************************************************************)
EXTENDS EventThread, FiniteSetTheorems, TLAPS

\* The stages between the exchange and the return of StopReceivingEvents.
Stages == {"stopAccepting", "unregister", "unroute", "clear"}

\* The broker has one event in hand at most, and the mailbox does not overflow.
Bounded ==
    /\ Retained <= Capacity
    /\ Cardinality(offered) <= 1

\* A worker past EnsureEventSignal has a signal to wait on, and only an EventThread waits.
SignalBeforeWait ==
    /\ workerPC \in {"look", "wait", "poll"} => eventSignalExists
    /\ workerPC \in {"ensure", "look", "wait", "poll"} => kind = "EventThread"

\* One call of StopReceivingEvents at most runs the stages, and it does so after the
\* exchange; past the first stage nothing is admitted.
OneStop ==
    /\ acceptingEvents => \A a \in Stoppers : stop[a] = "idle"
    /\ \A a, b \in Stoppers : stop[a] \in Stages /\ stop[b] \in Stages => a = b
    /\ \A a \in Stoppers : stop[a] \in Stages \ {"stopAccepting"} => ~acceptingPendingEvents

\* What a finished stop leaves behind.
Stopped ==
    ~acceptingEvents /\ (\A a \in Stoppers : stop[a] \notin Stages)
        => ~acceptingPendingEvents /\ pending = {}

IInv == Types /\ Bounded /\ SignalBeforeWait /\ NoLostWakeup /\ OneStop /\ Stopped

LEMMA InitEstablishes == Init => IInv
<1> SUFFICES ASSUME Init PROVE IInv
  OBVIOUS
<1>1. Types
  <2>1. registrations \in 0 .. MaxRegistrations
    BY BoundsAssumption DEF Init
  <2>2. kind \in AllKinds /\ arrival \in Arrivals /\ eventsFirst \in BOOLEAN
    BY KindsAssumption DEF Init, Arrivals
  <2>3. settings \in 0 .. MaxSettings
    BY BoundsAssumption DEF Init
  <2> QED
    BY <2>1, <2>2, <2>3 DEF Init, Types
<1>2. SignalBeforeWait /\ NoLostWakeup
  BY DEF Init, SignalBeforeWait, NoLostWakeup
<1>3. OneStop /\ Stopped
  BY DEF Init, OneStop, Stopped, Stages
<1>4. Bounded
  BY FS_EmptySet, BoundsAssumption DEF Init, Bounded, Retained
<1> QED
  BY <1>1, <1>2, <1>3, <1>4 DEF IInv

\* The mailbox holds finitely many events.
LEMMA FiniteMailbox ==
  ASSUME Types
  PROVE  /\ IsFiniteSet(pending) /\ IsFiniteSet(batch) /\ IsFiniteSet(offered)
         /\ Cardinality(pending) \in Nat /\ Cardinality(batch) \in Nat
         /\ Cardinality(offered) \in Nat
<1>1. pending \in SUBSET Events /\ batch \in SUBSET Events /\ offered \in SUBSET Events
  BY DEF Types
<1>2. IsFiniteSet(pending) /\ IsFiniteSet(batch) /\ IsFiniteSet(offered)
  BY <1>1, EventsAssumption, FS_Subset
<1> QED
  BY <1>2, FS_CardinalityType

\* Where no step adds to a set, its cardinality does not grow.
LEMMA ShrinkingKeeps ==
  ASSUME Types, Types', Bounded, pending' \subseteq pending, batch' \subseteq batch,
         offered' \subseteq offered
  PROVE  Bounded'
<1>1. /\ Cardinality(pending') <= Cardinality(pending)
      /\ Cardinality(batch') <= Cardinality(batch)
      /\ Cardinality(offered') <= Cardinality(offered)
  BY FiniteMailbox, FS_Subset
<1>2. /\ Cardinality(pending') \in Nat /\ Cardinality(batch') \in Nat
      /\ Cardinality(offered') \in Nat
  <2>1. pending' \in SUBSET pending /\ batch' \in SUBSET batch /\ offered' \in SUBSET offered
    OBVIOUS
  <2>2. IsFiniteSet(pending') /\ IsFiniteSet(batch') /\ IsFiniteSet(offered')
    BY <2>1, FiniteMailbox, FS_Subset
  <2> QED
    BY <2>2, FS_CardinalityType
<1> QED
  BY <1>1, <1>2, FiniteMailbox, BoundsAssumption DEF Bounded, Retained

\* What a full mailbox gives up makes room for the one event that comes.
LEMMA EvictionLeavesRoom ==
  ASSUME Types, Bounded, NEW evicted \in Evictions
  PROVE  /\ IsFiniteSet(pending \ evicted) /\ Cardinality(pending \ evicted) \in Nat
         /\ Cardinality(pending \ evicted) + Cardinality(batch) + Cardinality(offered)
              <= Capacity
<1>1. CASE HasRoom
  <2>1. pending \ evicted = pending
    BY <1>1 DEF Evictions
  <2> QED
    BY <1>1, <2>1, FiniteMailbox, BoundsAssumption DEF HasRoom, Bounded, Retained
<1>2. ASSUME ~HasRoom, NEW v \in pending, evicted = {v}
      PROVE  /\ IsFiniteSet(pending \ {v})
             /\ Cardinality(pending \ {v}) = Cardinality(pending) - 1
  BY FiniteMailbox, FS_RemoveElement
<1>3. CASE ~HasRoom
  <2>1. PICK v \in pending : evicted = {v}
    BY <1>3 DEF Evictions
  <2>2. /\ IsFiniteSet(pending \ evicted)
        /\ Cardinality(pending \ evicted) = Cardinality(pending) - 1
    BY <1>2, <1>3, <2>1
  <2> QED
    BY <2>2, FiniteMailbox, FS_CardinalityType, BoundsAssumption DEF Bounded, Retained
<1> QED
  BY <1>1, <1>3

\* Taking a batch moves events from one count to the other, and the broker hands
\* over one event, and only into room that is there.
LEMMA BoundKept == ASSUME IInv, Types', Next PROVE Bounded'
<1> USE DEF IInv
<1>1. CASE TakeBatch
  <2>1. PICK S \in SUBSET pending : batch' = S /\ pending' = pending \ S
    BY <1>1 DEF TakeBatch
  <2>2. /\ Cardinality(pending') = Cardinality(pending) - Cardinality(S)
        /\ Cardinality(S) \in Nat
    <3>1. pending \cap S = S /\ IsFiniteSet(S)
      BY <2>1, FiniteMailbox, FS_Subset
    <3> QED
      BY <2>1, <3>1, FiniteMailbox, FS_Difference, FS_CardinalityType
  <2>3. offered' = offered
    BY <1>1 DEF TakeBatch, broker
  <2> QED
    BY <2>1, <2>2, <2>3, FiniteMailbox, BoundsAssumption DEF Bounded, Retained
<1>2. CASE TryQueueEvent
  <2>1. batch' = batch /\ offered' = {}
    BY <1>2 DEF TryQueueEvent
  <2>2. CASE Refuse
    BY <2>1, <2>2, ShrinkingKeeps DEF Refuse
  <2>3. ASSUME NEW evicted \in SUBSET pending, Admit(evicted) PROVE Bounded'
    <3> DEFINE kept == pending \ evicted
    <3>1. /\ IsFiniteSet(kept) /\ Cardinality(kept) \in Nat
          /\ Cardinality(kept) + Cardinality(batch) + Cardinality(offered) <= Capacity
      BY <2>3, EvictionLeavesRoom DEF Admit
    <3>2. /\ Cardinality(kept \cup offered) <= Cardinality(kept) + Cardinality(offered)
          /\ Cardinality(kept \cup offered) \in Nat
      <4>1. /\ IsFiniteSet(kept \cup offered)
            /\ Cardinality(kept \cup offered)
                 = Cardinality(kept) + Cardinality(offered) - Cardinality(kept \cap offered)
        BY <3>1, FiniteMailbox, FS_Union
      <4>2. Cardinality(kept \cap offered) \in Nat
        <5>1. kept \cap offered \in SUBSET kept
          OBVIOUS
        <5> QED
          BY <3>1, <5>1, FS_Subset, FS_CardinalityType
      <4> QED
        BY <3>1, <4>1, <4>2, FiniteMailbox, FS_CardinalityType
    <3>3. Cardinality(offered') = 0
      BY <2>1, FS_EmptySet
    <3>4. pending' = kept \cup offered
      BY <2>3 DEF Admit
    <3> HIDE DEF kept
    <3> QED
      BY <2>1, <3>1, <3>2, <3>3, <3>4, FiniteMailbox, BoundsAssumption DEF Bounded, Retained
  <2> QED
    BY <1>2, <2>2, <2>3 DEF TryQueueEvent
<1>3. ASSUME NEW e \in Events, LookUpReceiver(e) PROVE Bounded'
  <2>1. pending' = pending /\ batch' = batch
    BY <1>3 DEF LookUpReceiver, mailbox, worker
  <2>2. offered' = offered \/ offered' = {e}
    BY <1>3 DEF LookUpReceiver
  <2>3. CASE offered' = offered
    BY <2>1, <2>3, ShrinkingKeeps
  <2>4. CASE offered' = {e}
    <3>1. Cardinality({e}) = 1
      BY FS_Singleton
    <3> QED
      BY <2>1, <2>4, <3>1 DEF Bounded, Retained
  <2> QED
    BY <2>2, <2>3, <2>4
<1>4. ASSUME ~TakeBatch, ~TryQueueEvent, \A e \in Events : ~LookUpReceiver(e)
      PROVE  Bounded'
  <2>1. pending' \subseteq pending /\ batch' \subseteq batch /\ offered' \subseteq offered
    BY <1>4 DEF Next, WorkerStep, BeginLoop, Prepare, FailToCreateSignal, EndWait,
           BeginIteration, OnWorkWake, TestOrder, RunBody, FinishBatch, ThrowFromCallback,
           EndSweep, SetPolicy, BeginStop, StopStep, Stage, StopAcceptingEvents,
           UnregisterAllListeners, OnListenerUnregistered, ClearPendingEvents, EndStop, Shutdown,
           Destroy, ClientStep, RegisterListener, UnregisterListener, CallDispatcher,
           BrokerStep, EventAdded, mailbox, worker, broker
  <2> QED
    BY <2>1, ShrinkingKeeps
<1> QED
  BY <1>1, <1>2, <1>3, <1>4

\* What the worker does leaves the stop alone, and takes events only away.
LEMMA WorkerKeeps == ASSUME IInv, WorkerStep PROVE IInv'
<1> USE DEF IInv
<1>1. UNCHANGED <<acceptingPendingEvents, life, registry, broker, policy>>
  BY DEF WorkerStep, BeginLoop, Prepare, FailToCreateSignal, EndWait, BeginIteration,
         OnWorkWake, TestOrder, RunBody, TakeBatch, FinishBatch, ThrowFromCallback, EndSweep,
         mailbox
<1>2. pending' \subseteq pending
  BY DEF WorkerStep, BeginLoop, Prepare, FailToCreateSignal, EndWait, BeginIteration,
         OnWorkWake, TestOrder, RunBody, TakeBatch, FinishBatch, ThrowFromCallback, EndSweep,
         mailbox
<1>3. Types'
  <2>1. pending' \in SUBSET Events /\ due' \in SUBSET Events /\ batch' \in SUBSET Events
    BY <1>2 DEF Types, WorkerStep, BeginLoop, Prepare, FailToCreateSignal, EndWait,
           BeginIteration, OnWorkWake, TestOrder, RunBody, TakeBatch, FinishBatch,
           ThrowFromCallback, EndSweep, mailbox
  <2>2. /\ eventSignalExists' \in BOOLEAN /\ eventSignal' \in BOOLEAN /\ bumped' \in BOOLEAN
        /\ bodyDone' \in BOOLEAN /\ orderRead' \in BOOLEAN
    <3>1. CASE BeginLoop \/ Prepare \/ FailToCreateSignal \/ EndWait
      BY <3>1 DEF Types, BeginLoop, Prepare, PrepareToWait, FailToCreateSignal, EndWait, signal,
             iteration
    <3>2. CASE BeginIteration \/ OnWorkWake \/ RunBody
      BY <3>2 DEF Types, BeginIteration, OnWorkWake, RunBody, signal, iteration
    <3>3. CASE TestOrder
      <4>1. bodyDone' \in BOOLEAN
        BY <3>3 DEF Types, TestOrder
      <4>2. orderRead' \in BOOLEAN
        BY <3>3 DEF Types, TestOrder
      <4> QED
        BY <3>3, <4>1, <4>2 DEF Types, TestOrder, signal
    <3>4. CASE TakeBatch \/ FinishBatch \/ ThrowFromCallback \/ EndSweep
      BY <3>4 DEF Types, TakeBatch, FinishBatch, ThrowFromCallback, EndSweep, signal, iteration
    <3> QED
      BY <3>1, <3>2, <3>3, <3>4 DEF WorkerStep
  <2>3. workerPC' \in {"loop", "ensure", "look", "wait", "poll", "sweep", "batch", "before",
                       "body", "after", "stopping", "ended"}
    BY DEF Types, WorkerStep, BeginLoop, Prepare, PrepareToWait, FailToCreateSignal, EndWait,
           BeginIteration, OnWorkWake, TestOrder, RunBody, TakeBatch, FinishBatch,
           ThrowFromCallback, AfterThrow, EndSweep
  <2> QED
    BY <1>1, <2>1, <2>2, <2>3 DEF Types, life, registry, broker, policy
<1>4. SignalBeforeWait' /\ NoLostWakeup'
  BY <1>2 DEF Types, SignalBeforeWait, NoLostWakeup, WorkerStep, BeginLoop, Prepare,
         PrepareToWait, FailToCreateSignal, EndWait, BeginIteration, OnWorkWake, TestOrder,
         RunBody, TakeBatch, FinishBatch, ThrowFromCallback, AfterThrow, EndSweep, mailbox,
         signal, broker, policy
<1>5. OneStop' /\ Stopped'
  BY <1>1, <1>2 DEF OneStop, Stopped, life
<1>6. Bounded'
  BY <1>3, BoundKept DEF Next
<1> QED
  BY <1>3, <1>4, <1>5, <1>6

\* The stages, one after the other.
LEMMA StopKeeps ==
  ASSUME IInv, NEW a \in Stoppers, BeginStop(a) \/ StopStep(a) PROVE IInv'
<1> USE DEF IInv
<1>1. Types'
  BY DEF Types, BeginStop, StopStep, Stage, NextStage, StopAcceptingEvents,
         UnregisterAllListeners, OnListenerUnregistered, ClearPendingEvents, EndStop, mailbox,
         signal, worker, iteration, registry, broker, policy
<1>2. SignalBeforeWait' /\ NoLostWakeup'
  BY DEF SignalBeforeWait, NoLostWakeup, BeginStop, StopStep, Stage, StopAcceptingEvents,
         UnregisterAllListeners, OnListenerUnregistered, ClearPendingEvents, EndStop, mailbox,
         signal, worker, broker, policy
<1>3. ASSUME BeginStop(a) PROVE OneStop' /\ Stopped'
  BY <1>3 DEF Types, OneStop, Stopped, Stages, BeginStop, NextStage, mailbox
<1>4. ASSUME StopAcceptingEvents(a) PROVE OneStop' /\ Stopped'
  BY <1>4 DEF Types, OneStop, Stopped, Stages, StopAcceptingEvents, Stage, NextStage
<1>5. ASSUME UnregisterAllListeners(a) PROVE OneStop' /\ Stopped'
  BY <1>5 DEF Types, OneStop, Stopped, Stages, UnregisterAllListeners, NextStage, mailbox
<1>6. ASSUME OnListenerUnregistered(a) PROVE OneStop' /\ Stopped'
  BY <1>6 DEF Types, OneStop, Stopped, Stages, OnListenerUnregistered, Stage, NextStage, mailbox
<1>7. ASSUME ClearPendingEvents(a) PROVE OneStop' /\ Stopped'
  BY <1>7 DEF Types, OneStop, Stopped, Stages, ClearPendingEvents, Stage, NextStage
<1>8. ASSUME EndStop(a) PROVE OneStop' /\ Stopped'
  BY <1>8 DEF Types, OneStop, Stopped, Stages, EndStop, mailbox
<1>9. Bounded'
  BY <1>1, BoundKept DEF Next
<1> QED
  BY <1>1, <1>2, <1>3, <1>4, <1>5, <1>6, <1>7, <1>8, <1>9 DEF StopStep

\* The end of the object: its worker has ended, its mailbox is cleared.
LEMMA DestructorKeeps == ASSUME IInv, Shutdown \/ Destroy PROVE IInv'
<1> USE DEF IInv
<1>1. Types'
  BY DEF Types, Shutdown, Destroy, mailbox, signal, worker, iteration, registry, broker, policy
<1>2. SignalBeforeWait' /\ NoLostWakeup'
  BY DEF SignalBeforeWait, NoLostWakeup, Shutdown, Destroy, mailbox, signal, worker, broker,
         policy
<1>3. OneStop' /\ Stopped'
  BY DEF OneStop, Stopped, Shutdown, Destroy, mailbox
<1>4. Bounded'
  BY <1>1, BoundKept DEF Next
<1> QED
  BY <1>1, <1>2, <1>3, <1>4

\* Registration touches neither the mailbox nor the worker.
LEMMA ClientKeeps == ASSUME IInv, ClientStep PROVE IInv'
<1> USE DEF IInv
<1>1. UNCHANGED <<mailbox, signal, worker, life, broker, policy>>
  BY DEF ClientStep, RegisterListener, UnregisterListener, CallDispatcher
<1>2. Types'
  <2>1. registrations' \in 0 .. MaxRegistrations
    BY BoundsAssumption DEF Types, ClientStep, RegisterListener, UnregisterListener,
           CallDispatcher
  <2>2. listening' \in BOOLEAN /\ routed' \in BOOLEAN /\ client' \in {"idle", "route", "unroute"}
    BY DEF Types, ClientStep, RegisterListener, UnregisterListener, CallDispatcher
  <2> QED
    BY <1>1, <2>1, <2>2 DEF Types, mailbox, signal, worker, iteration, life, broker, policy
<1>3. SignalBeforeWait' /\ NoLostWakeup' /\ OneStop' /\ Stopped'
  BY <1>1 DEF SignalBeforeWait, NoLostWakeup, OneStop, Stopped, mailbox, signal, worker, life,
         broker, policy
<1>4. Bounded'
  BY <1>2, BoundKept DEF Next
<1> QED
  BY <1>2, <1>3, <1>4

\* Nor does a change of order or policy.
LEMMA PolicyKeeps == ASSUME IInv, SetPolicy PROVE IInv'
<1> USE DEF IInv
<1>1. UNCHANGED <<mailbox, signal, worker, life, registry, broker, kind>>
  BY DEF SetPolicy
<1>2. Types'
  <2>1. settings' \in 0 .. MaxSettings
    BY BoundsAssumption DEF Types, SetPolicy
  <2>2. eventsFirst' \in BOOLEAN /\ arrival' \in Arrivals
    BY DEF Types, SetPolicy
  <2> QED
    BY <1>1, <2>1, <2>2 DEF Types, mailbox, signal, worker, iteration, life, registry, broker
<1>3. SignalBeforeWait' /\ NoLostWakeup' /\ OneStop' /\ Stopped'
  BY <1>1 DEF SignalBeforeWait, NoLostWakeup, OneStop, Stopped, mailbox, signal, worker, life,
         broker
<1>4. Bounded'
  BY <1>2, BoundKept DEF Next
<1> QED
  BY <1>2, <1>3, <1>4

\* The broker admits only while the mailbox accepts, and its EventAdded follows.
LEMMA BrokerKeeps == ASSUME IInv, BrokerStep PROVE IInv'
<1> USE DEF IInv
<1>1. UNCHANGED <<workerPC, iteration, batch, life, registry, acceptingPendingEvents,
                  eventSignalExists, policy>>
  BY DEF BrokerStep, LookUpReceiver, TryQueueEvent, Admit, Refuse, EventAdded, mailbox, signal,
         worker
<1>2. Types'
  <2>1. /\ pending' \in SUBSET Events /\ due' \in SUBSET Events
        /\ offered' \in SUBSET Events /\ unsent' \in SUBSET Events
        /\ brokerPC' \in {"idle", "offer", "notify"}
    BY DEF Types, BrokerStep, LookUpReceiver, TryQueueEvent, Admit, Refuse, EventAdded, mailbox,
           worker
  <2>2. eventSignal' \in BOOLEAN /\ bumped' \in BOOLEAN
    <3>1. CASE EventAdded
      <4>1. eventSignal' \in BOOLEAN
        BY <3>1 DEF Types, EventAdded
      <4>2. bumped' \in BOOLEAN
        BY <3>1 DEF Types, EventAdded
      <4> QED
        BY <4>1, <4>2
    <3>2. CASE UNCHANGED signal
      BY <3>2 DEF Types, signal
    <3> QED
      BY <3>1, <3>2 DEF BrokerStep, LookUpReceiver, TryQueueEvent, Admit, Refuse
  <2> QED
    BY <1>1, <2>1, <2>2 DEF Types, worker, iteration, life, registry, policy
<1>3. SignalBeforeWait' /\ NoLostWakeup'
  <2>1. SignalBeforeWait'
    BY <1>1 DEF SignalBeforeWait, worker, policy
  <2>2. ASSUME EventAdded, workerPC' = "wait" PROVE eventSignalExists' /\ eventSignal'
    <3>1. workerPC = "wait" /\ eventSignalExists'
      BY <2>2, <1>1, <2>1 DEF SignalBeforeWait, worker
    <3>2. kind = "EventThread" /\ eventSignalExists
      BY <3>1 DEF SignalBeforeWait
    <3>3. eventSignal'
      BY <2>2, <3>2 DEF EventAdded
    <3> QED
      BY <3>1, <3>3
  <2>3. NoLostWakeup'
    BY <1>1, <2>2 DEF NoLostWakeup, SignalBeforeWait, BrokerStep, LookUpReceiver,
           TryQueueEvent, Admit, Refuse, mailbox, signal, worker
  <2> QED
    BY <2>1, <2>3
<1>4. pending' # pending => acceptingPendingEvents
  BY DEF BrokerStep, LookUpReceiver, TryQueueEvent, Admit, Refuse, EventAdded, mailbox
<1>5. OneStop' /\ Stopped'
  BY <1>1, <1>4 DEF OneStop, Stopped, life
<1>6. Bounded'
  BY <1>2, BoundKept DEF Next
<1> QED
  BY <1>2, <1>3, <1>5, <1>6

LEMMA NextPreserves == IInv /\ [Next]_vars => IInv'
<1> SUFFICES ASSUME IInv, [Next]_vars PROVE IInv'
  OBVIOUS
<1>1. CASE UNCHANGED vars
  BY <1>1 DEF IInv, Types, Bounded, Retained, SignalBeforeWait, NoLostWakeup, OneStop, Stopped, vars, mailbox,
         signal, worker, iteration, life, registry, broker, policy
<1> QED
  BY <1>1, WorkerKeeps, StopKeeps, DestructorKeeps, ClientKeeps, PolicyKeeps, BrokerKeeps
     DEF Next

LEMMA InvariantHolds == Spec => []IInv
BY InitEstablishes, NextPreserves, PTL DEF Spec

\* The type invariant holds for every set of events and every capacity: the events
\* retained never exceed the maximum.
THEOREM TypeCorrect == Spec => []TypeOK
<1>1. IInv => TypeOK
  BY DEF IInv, TypeOK, Bounded
<1> QED
  BY <1>1, InvariantHolds, PTL

\* OnLoop and EventAdded never leave the worker asleep on a mailbox that holds an
\* event, although the signal between them is created only by the first OnLoop.
THEOREM NoWakeupIsLost == Spec => []NoLostWakeup
<1>1. IInv => NoLostWakeup
  BY DEF IInv
<1> QED
  BY <1>1, InvariantHolds, PTL

\* Whoever calls StopReceivingEvents, and however the broker's Try calls fall between
\* its stages, the mailbox is empty once the stop is over.
THEOREM StopLeavesNothing == Spec => []StoppedStaysEmpty
<1>1. IInv => StoppedStaysEmpty
  BY DEF IInv, Stopped, StoppedStaysEmpty, Stages
<1> QED
  BY <1>1, InvariantHolds, PTL

----------------------------------------------------------------------------
\* PrecisionEventThread: its arrivals, as long as none is left to the next iteration.

\* What makes it drain its mailbox again: a WakeForWork, a Bump, or an EventAdded to come.
Told == eventSignal \/ bumped \/ brokerPC = "notify"

\* What nobody tells of is taken by the sweep that runs, or by the one that this Iterate
\* still makes after the body.
Answered ==
    kind = "PrecisionEventThread" =>
        /\ workerPC = "loop" /\ pending # {} => Told
        /\ workerPC \in {"sweep", "batch"} /\ ~(pending \subseteq due) => Told
        /\ workerPC \in {"body", "after"} /\ orderRead /\ pending # {} => Told

EveryArrivalTold == kind = "PrecisionEventThread" => arrival # "ProcessOnNextIteration"

LEMMA AnsweredNext ==
    ASSUME Types, Answered, EveryArrivalTold, [Next]_vars PROVE Answered'
<1> USE DEF Answered, Told
<1>1. CASE BeginLoop \/ Prepare \/ FailToCreateSignal \/ EndWait
  BY <1>1 DEF BeginLoop, Prepare, PrepareToWait, FailToCreateSignal, EndWait, mailbox, signal,
         broker, policy
<1>2. CASE BeginIteration \/ OnWorkWake \/ RunBody
  BY <1>2 DEF BeginIteration, OnWorkWake, RunBody, AfterThrow, mailbox, signal, broker, policy
<1>3. CASE TestOrder
  BY <1>3 DEF TestOrder, mailbox, signal, broker, policy
<1>4. CASE TakeBatch \/ FinishBatch \/ ThrowFromCallback
  BY <1>4 DEF TakeBatch, FinishBatch, ThrowFromCallback, AfterThrow, mailbox, signal, iteration,
         broker, policy
<1>5. CASE EndSweep
  <2>1. workerPC' \in {"loop", "body"} /\ (pending' # {} => ~(pending \subseteq due))
    BY <1>5 DEF EndSweep, mailbox
  <2> QED
    BY <1>5, <2>1 DEF EndSweep, mailbox, signal, broker, policy
<1>6. ASSUME NEW a \in Stoppers, BeginStop(a) \/ StopStep(a) PROVE Answered'
  <2>1. /\ pending' \subseteq pending /\ UNCHANGED <<signal, iteration, due, broker, policy>>
        /\ workerPC' = workerPC \/ workerPC' = "ended"
    BY <1>6 DEF BeginStop, StopStep, Stage, StopAcceptingEvents, UnregisterAllListeners,
           OnListenerUnregistered, ClearPendingEvents, EndStop, mailbox, worker
  <2> QED
    BY <2>1 DEF signal, iteration, broker, policy
<1>7. CASE Shutdown \/ Destroy
  BY <1>7 DEF Shutdown, Destroy, mailbox, signal, worker, iteration, broker, policy
<1>8. CASE ClientStep \/ SetPolicy
  BY <1>8 DEF ClientStep, RegisterListener, UnregisterListener, CallDispatcher, SetPolicy,
         mailbox, signal, worker, iteration, broker, policy
<1>9. CASE BrokerStep
  <2>1. UNCHANGED <<workerPC, iteration, policy>>
    BY <1>9 DEF BrokerStep, LookUpReceiver, TryQueueEvent, Admit, Refuse, EventAdded, worker
  <2>2. CASE EventAdded
    <3>1. kind = "PrecisionEventThread" =>
              arrival \in {"TriggerImmediateIteration", "ProcessImmediately"}
      BY DEF Types, Arrivals, EveryArrivalTold
    <3>2. kind = "PrecisionEventThread" => eventSignal' \/ bumped'
      BY <2>2, <3>1 DEF EventAdded
    <3>3. kind' = kind
      BY <2>1 DEF policy
    <3> QED
      BY <3>2, <3>3
  <2>3. CASE TryQueueEvent
    BY <2>1, <2>3 DEF TryQueueEvent, Admit, Refuse, signal, iteration, policy
  <2>4. ASSUME NEW e \in Events, LookUpReceiver(e) PROVE Answered'
    BY <2>1, <2>4 DEF LookUpReceiver, signal, worker, iteration, policy, mailbox
  <2> QED
    BY <1>9, <2>2, <2>3, <2>4 DEF BrokerStep
<1>10. CASE UNCHANGED vars
  BY <1>10 DEF vars, mailbox, signal, worker, iteration, broker, policy
<1> QED
  BY <1>1, <1>2, <1>3, <1>4, <1>5, <1>6, <1>7, <1>8, <1>9, <1>10 DEF Next, WorkerStep

\* The safety that EventsSettle rests on: with arrival policies that act at once, a
\* PrecisionEventThread never rests between its iterations with an event in the mailbox
\* that it was not told of, nor is to be told of, since its last look; whichever of the
\* policies and orders are chosen, and changed, while events arrive.
THEOREM ArrivalsAreTold ==
    Spec /\ []EveryArrivalTold
        => [](kind = "PrecisionEventThread" /\ workerPC = "loop" /\ pending # {} => Told)
<1>1. Init => Answered
  BY DEF Init, Answered
<1>2. IInv /\ EveryArrivalTold /\ Answered /\ [Next]_vars => Answered'
  BY AnsweredNext DEF IInv
<1>3. Answered => (kind = "PrecisionEventThread" /\ workerPC = "loop" /\ pending # {} => Told)
  BY DEF Answered
<1> QED
  BY <1>1, <1>2, <1>3, InvariantHolds, PTL DEF Spec

----------------------------------------------------------------------------
\* The route of a thread that is destroyed.

\* Nobody registers or unregisters a listener once the thread is being stopped.
ClientsKeepAway == ~acceptingEvents => client = "idle"

Unrouting == \E a \in Stoppers : stop[a] = "unroute"

\* A route without a listener is about to be taken back, and a stop leaves no listener.
RouteOwed ==
    /\ client = "route" => listening
    /\ routed /\ ~listening => client = "unroute" \/ Unrouting
    /\ ~acceptingEvents /\ (\A a \in Stoppers : stop[a] \notin {"stopAccepting", "unregister"})
           => ~listening

\* Stops have come to their end before the bases are destroyed.
EndOfLife ==
    /\ lifecycle # "alive" => workerPC = "ended" /\ stop["worker"] \in {"idle", "done"}
    /\ lifecycle = "destroyed" =>
           ~acceptingEvents /\ \A a \in Stoppers : stop[a] \in {"idle", "done"}

LEMMA EndOfLifeNext == ASSUME Types, OneStop, EndOfLife, [Next]_vars PROVE EndOfLife'
<1> USE DEF EndOfLife
<1>1. CASE WorkerStep
  <2>1. UNCHANGED life /\ workerPC # "ended"
    BY <1>1 DEF WorkerStep, BeginLoop, Prepare, PrepareToWait, FailToCreateSignal, EndWait,
           BeginIteration, OnWorkWake, TestOrder, RunBody, TakeBatch, FinishBatch,
           ThrowFromCallback, EndSweep
  <2> QED
    BY <2>1 DEF life
<1>2. ASSUME NEW a \in Stoppers, BeginStop(a) \/ StopStep(a) PROVE EndOfLife'
  <2>1. lifecycle' = lifecycle /\ (workerPC = "ended" => workerPC' = "ended")
    BY <1>2 DEF BeginStop, StopStep, Stage, StopAcceptingEvents, UnregisterAllListeners,
           OnListenerUnregistered, ClearPendingEvents, EndStop, worker
  <2>2. acceptingEvents' => acceptingEvents
    BY <1>2 DEF BeginStop, StopStep, Stage, StopAcceptingEvents, UnregisterAllListeners,
           OnListenerUnregistered, ClearPendingEvents, EndStop
  <2>3. \A b \in Stoppers : b # a => stop'[b] = stop[b]
    BY <1>2 DEF BeginStop, StopStep, Stage, StopAcceptingEvents, UnregisterAllListeners,
           OnListenerUnregistered, ClearPendingEvents, EndStop, Types
  <2>4. CASE BeginStop(a)
    <3>1. lifecycle = "destroyed" => stop[a] # "idle"
      BY <2>4 DEF BeginStop, Stoppers, EndOfLife
    <3>2. a = "worker" => lifecycle = "alive"
      BY <2>4 DEF BeginStop, EndOfLife, Types
    <3>3. lifecycle # "destroyed"
      BY <2>4, <3>2 DEF BeginStop, Stoppers
    <3> QED
      BY <2>1, <2>3, <3>2, <3>3 DEF Stoppers
  <2>5. CASE StopStep(a)
    <3>1. stop[a] \notin {"idle", "done"}
      BY <2>5 DEF StopStep, Stage, StopAcceptingEvents, UnregisterAllListeners,
             OnListenerUnregistered, ClearPendingEvents, EndStop
    <3>2. lifecycle # "destroyed" /\ (lifecycle # "alive" => a # "worker")
      BY <3>1
    <3> QED
      BY <2>1, <2>3, <3>2 DEF Stoppers
  <2> QED
    BY <1>2, <2>4, <2>5
<1>3. CASE Shutdown
  BY <1>3 DEF Shutdown, Stoppers
<1>4. CASE Destroy
  BY <1>4 DEF Destroy, Stoppers, OneStop, worker
<1>5. CASE ClientStep \/ SetPolicy \/ BrokerStep \/ UNCHANGED vars
  <2>1. UNCHANGED <<life, workerPC>>
    BY <1>5 DEF ClientStep, RegisterListener, UnregisterListener, CallDispatcher, SetPolicy,
           BrokerStep, LookUpReceiver, TryQueueEvent, Admit, Refuse, EventAdded, vars, worker
  <2> QED
    BY <2>1 DEF life
<1> QED
  BY <1>1, <1>2, <1>3, <1>4, <1>5 DEF Next

LEMMA RouteOwedNext ==
    ASSUME Types, OneStop, EndOfLife, ClientsKeepAway, ClientsKeepAway', RouteOwed, [Next]_vars
    PROVE  RouteOwed'
<1> USE DEF RouteOwed, Unrouting
<1>1. CASE WorkerStep \/ SetPolicy \/ BrokerStep \/ UNCHANGED vars \/ Shutdown
  <2>1. UNCHANGED <<acceptingEvents, stop, registry>>
    BY <1>1 DEF WorkerStep, BeginLoop, Prepare, FailToCreateSignal, EndWait, BeginIteration,
           OnWorkWake, TestOrder, RunBody, TakeBatch, FinishBatch, ThrowFromCallback, EndSweep,
           SetPolicy, BrokerStep, LookUpReceiver, TryQueueEvent, Admit, Refuse, EventAdded, Shutdown, vars, life
  <2> QED
    BY <2>1 DEF registry
<1>2. CASE Destroy
  <2>1. ~acceptingEvents /\ client = "idle" /\ UNCHANGED <<stop, acceptingEvents, client, routed>>
    BY <1>2 DEF Destroy, OneStop, Stoppers, ClientsKeepAway
  <2>2. \A a \in Stoppers : stop[a] \in {"idle", "done"}
    BY <1>2 DEF Destroy, EndOfLife, Stoppers
  <2>3. ~listening /\ ~routed
    BY <2>1, <2>2
  <2> QED
    BY <1>2, <2>1, <2>3 DEF Destroy
<1>3. CASE RegisterListener \/ UnregisterListener
  <2>1. client' # "idle" /\ UNCHANGED life
    BY <1>3 DEF RegisterListener, UnregisterListener
  <2>2. acceptingEvents'
    BY <2>1 DEF ClientsKeepAway
  <2> QED
    BY <1>3, <2>1, <2>2 DEF RegisterListener, UnregisterListener, life
<1>4. CASE CallDispatcher
  BY <1>4 DEF CallDispatcher, life, Types
<1>5. ASSUME NEW a \in Stoppers, BeginStop(a) PROVE RouteOwed'
  <2>1. /\ UNCHANGED <<listening, client, routed>> /\ stop[a] = "idle" /\ ~acceptingEvents'
        /\ stop' = [stop EXCEPT ![a] = IF acceptingEvents THEN "stopAccepting" ELSE "stopped"]
    BY <1>5 DEF BeginStop, registry, NextStage
  <2>2. \A b \in Stoppers : stop'[b] =
            IF b = a THEN (IF acceptingEvents THEN "stopAccepting" ELSE "stopped") ELSE stop[b]
    BY <2>1 DEF Types
  <2>3. Unrouting => Unrouting'
    BY <2>1, <2>2
  <2>4. acceptingEvents => stop'[a] = "stopAccepting"
    BY <2>2
  <2>5. ~acceptingEvents /\ (\A b \in Stoppers : stop'[b] \notin {"stopAccepting", "unregister"})
          => \A b \in Stoppers : stop[b] \notin {"stopAccepting", "unregister"}
    BY <2>1, <2>2
  <2> QED
    BY <2>1, <2>3, <2>4, <2>5
<1>6. ASSUME NEW a \in Stoppers, StopStep(a) PROVE RouteOwed'
  <2>1. ~acceptingEvents
    BY <1>6 DEF OneStop, StopStep, Stage, StopAcceptingEvents, UnregisterAllListeners,
           OnListenerUnregistered, ClearPendingEvents, EndStop
  <2>2. acceptingEvents' = acceptingEvents /\ client' = client
    BY <1>6 DEF StopStep, Stage, StopAcceptingEvents, UnregisterAllListeners,
           OnListenerUnregistered, ClearPendingEvents, EndStop, registry
  <2>3. client = "idle"
    BY <2>1 DEF ClientsKeepAway
  <2>4. CASE StopAcceptingEvents(a)
    BY <2>1, <2>2, <2>3, <2>4 DEF StopAcceptingEvents, Stage, NextStage, Types
  <2>5. CASE UnregisterAllListeners(a)
    BY <2>1, <2>2, <2>3, <2>5 DEF UnregisterAllListeners, NextStage, Types
  <2>6. CASE OnListenerUnregistered(a)
    BY <2>1, <2>2, <2>3, <2>6 DEF OnListenerUnregistered, Stage, NextStage, Types
  <2>7. CASE ClearPendingEvents(a)
    BY <2>1, <2>2, <2>3, <2>7 DEF ClearPendingEvents, Stage, NextStage, Types
  <2>8. CASE EndStop(a)
    BY <2>1, <2>2, <2>3, <2>8 DEF EndStop, registry, Types
  <2> QED
    BY <1>6, <2>4, <2>5, <2>6, <2>7, <2>8 DEF StopStep
<1> QED
  BY <1>1, <1>2, <1>3, <1>4, <1>5, <1>6 DEF Next, ClientStep

\* What a client has to do for the first half of NoDanglingReceiver: if no registration call
\* is under way, and none begins, once the thread is being stopped, by whomever, then the
\* broker has no route to it when it is destroyed.  A later registration, or one that
\* overlaps the stop, is the only way to leave one behind.
THEOREM NoRouteToDestroyed ==
    Spec /\ []ClientsKeepAway => [](lifecycle = "destroyed" => ~routed)
<1>1. Init => EndOfLife /\ RouteOwed
  BY DEF Init, EndOfLife, RouteOwed
<1>2. IInv /\ EndOfLife /\ [Next]_vars => EndOfLife'
  BY EndOfLifeNext DEF IInv
<1>3. IInv /\ EndOfLife /\ ClientsKeepAway /\ ClientsKeepAway' /\ RouteOwed /\ [Next]_vars
        => RouteOwed'
  BY RouteOwedNext DEF IInv
<1>4. ClientsKeepAway /\ EndOfLife /\ RouteOwed => (lifecycle = "destroyed" => ~routed)
  BY DEF ClientsKeepAway, EndOfLife, RouteOwed, Unrouting
<1> QED
  BY <1>1, <1>2, <1>3, <1>4, InvariantHolds, PTL DEF Spec

=============================================================================
