-------------------- MODULE EventTransportManagerProofs --------------------
(***************************************************************************)
(* Proofs about EventTransportManager: its types, that reference counts    *)
(* are exact, that no event of remote origin is sent out again, that its   *)
(* loop loses no wake-up, and that flags and executor agree.               *)
(***************************************************************************)
EXTENDS EventTransportManager, TLAPS

\* The types, but for the counts, which need the references to be exact to be natural.
SetTypes ==
    /\ pending \in SUBSET Events /\ due \in SUBSET Events /\ batch \in SUBSET Events
    /\ atBroker \in SUBSET Events /\ offered \in SUBSET Events /\ remote \in SUBSET Events
    /\ sending \in SUBSET Events /\ promised \in SUBSET Events /\ inHand \in SUBSET Events
    /\ targets \in SUBSET Transports /\ admitting \in SUBSET Transports
    /\ outbound \in SUBSET Transports
    /\ queue \in Seq(Events)
    /\ refs \in [Events -> Int]

NumberTypes ==
    /\ left \in 0 .. Collections
    /\ inbound \in 0 .. MaxInbound
    /\ Len(queue) <= QueueDepth
    /\ calls \in 0 .. MaxCalls /\ reroutes \in 0 .. MaxReroutes

FlagTypes ==
    /\ didWork \in BOOLEAN /\ workSignal \in BOOLEAN /\ starting \in BOOLEAN
    /\ executorInitialized \in BOOLEAN /\ executorReady \in BOOLEAN
    /\ initialized \in BOOLEAN /\ routed \in BOOLEAN
    /\ executor \in {"none", "initialized", "started", "stopping"}
    /\ thread \in {"none", "initialized", "running"}

flagVars == <<didWork, workSignal, starting, executor, thread, flags, routed>>

Types == SetTypes /\ NumberTypes /\ FlagTypes

Single(S) == \E e \in Events : S = {e}

\* Whoever is at an event is at one, and has put it down when done.
Hands ==
    /\ brokerPC \in {"idle", "offer", "notify"}
    /\ workerPC \in {"idle", "collect", "serialize", "send"}
    /\ IF brokerPC = "idle" THEN offered = {} ELSE Single(offered)
    /\ IF workerPC = "idle" THEN sending = {} ELSE Single(sending)
    /\ IF loopPC = "submit" THEN Single(inHand) /\ inHand \subseteq batch ELSE inHand = {}

\* The executor's worker has event e and a reference to it.
AtWorker(e) == e \in sending /\ workerPC \in {"collect", "serialize"}

\* The places an event travels through: it is at one of them at most, and in the queue once.
Places(e) ==
    Holds(e \in atBroker) + Holds(e \in offered /\ brokerPC = "offer") + Holds(e \in pending)
        + Holds(e \in batch) + Holds(e \in Queued) + Holds(AtWorker(e))

Count(e) ==
    Holds(e \in atBroker) + Holds(e \in offered) + Holds(e \in pending)
        + Holds(e \in batch) + Holds(e \in Queued) + Holds(AtWorker(e))

OnePlace ==
    /\ \A e \in Events : Places(e) <= 1
    /\ \A i, j \in DOMAIN queue : queue[i] = queue[j] => i = j

Exact == \A e \in Events : refs[e] = Count(e)

\* What came in is known to be remote wherever it is; what is sent was seen not to be.
OriginKnown ==
    /\ \A e \in Remotes : Places(e) > 0 => e \in remote
    /\ workerPC \in {"serialize", "send"} => sending \subseteq Locals

\* What the flags say of the executor at each step of the owner.
Executor ==
    /\ executorInitialized <=> executor # "none"
    /\ executor = "stopping" => ownerPC = "join"
    /\ ownerPC = "join" => executor \in {"none", "stopping"}
    /\ executorReady => executor = "started" \/ ownerPC = "join"
    /\ executor = "started" /\ ownerPC \notin {"unroute", "clear", "abort"} => executorReady
    /\ executor = "none" => workerPC = "idle" /\ queue = <<>>

\* A loop that has looked at the mailbox is told of what came after.
Awake ==
    /\ NoLostWakeup
    /\ loopPC = "lookInbound" /\ pending # {} => workSignal \/ brokerPC = "notify"

IInv == Types /\ Hands /\ OnePlace /\ Exact /\ OriginKnown

----------------------------------------------------------------------------
\* The queue of the executor.

LEMMA Appending ==
  ASSUME Types, NEW x \in Events, queue' = Append(queue, x)
  PROVE  /\ Queued' = Queued \cup {x}
         /\ OnePlace /\ x \notin Queued
              => \A i, j \in DOMAIN queue' : queue'[i] = queue'[j] => i = j
<1>1. queue \in Seq(Events)
  BY DEF Types, SetTypes
<1>2. /\ DOMAIN queue = 1 .. Len(queue) /\ DOMAIN queue' = 1 .. Len(queue) + 1
      /\ \A i \in 1 .. Len(queue) : queue'[i] = queue[i]
      /\ queue'[Len(queue) + 1] = x
      /\ Len(queue) \in Nat
  BY <1>1
<1>3. Queued' = Queued \cup {x}
  <2>1. ASSUME NEW y \in Queued PROVE y \in Queued'
    BY <1>2, <2>1 DEF Queued
  <2>2. x \in Queued'
    BY <1>2 DEF Queued
  <2>3. ASSUME NEW y \in Queued' PROVE y \in Queued \cup {x}
    BY <1>2, <2>3 DEF Queued
  <2> QED
    BY <2>1, <2>2, <2>3
<1>4. ASSUME OnePlace, x \notin Queued, NEW i \in DOMAIN queue', NEW j \in DOMAIN queue',
             queue'[i] = queue'[j]
      PROVE  i = j
  BY <1>2, <1>4 DEF OnePlace, Queued
<1> QED
  BY <1>3, <1>4

LEMMA Taking ==
  ASSUME Types, OnePlace, queue # <<>>, queue' = Tail(queue)
  PROVE  /\ Head(queue) \in Events /\ Head(queue) \in Queued
         /\ Queued' = Queued \ {Head(queue)}
         /\ \A i, j \in DOMAIN queue' : queue'[i] = queue'[j] => i = j
         /\ queue' \in Seq(Events) /\ Len(queue') <= Len(queue)
<1>1. queue \in Seq(Events) /\ queue # <<>>
  BY DEF Types, SetTypes
<1>2. /\ DOMAIN queue = 1 .. Len(queue) /\ DOMAIN queue' = 1 .. Len(queue) - 1
      /\ \A i \in 1 .. Len(queue) - 1 : queue'[i] = queue[i + 1]
      /\ Head(queue) = queue[1] /\ Len(queue) \in Nat \ {0}
      /\ queue' \in Seq(Events) /\ Len(queue') <= Len(queue)
  BY <1>1
<1>3. Head(queue) \in Events /\ Head(queue) \in Queued
  BY <1>1, <1>2 DEF Queued
<1>4. Queued' = Queued \ {Head(queue)}
  <2>1. ASSUME NEW y \in Queued' PROVE y \in Queued \ {Head(queue)}
    <3>1. PICK i \in 1 .. Len(queue) - 1 : y = queue[i + 1]
      BY <1>2 DEF Queued
    <3> QED
      BY <1>2, <3>1 DEF Queued, OnePlace
  <2>2. ASSUME NEW y \in Queued, y # Head(queue) PROVE y \in Queued'
    <3>1. PICK i \in 1 .. Len(queue) : y = queue[i]
      BY <1>2 DEF Queued
    <3>2. i - 1 \in 1 .. Len(queue) - 1 /\ queue'[i - 1] = y
      BY <1>2, <2>2, <3>1
    <3> QED
      BY <1>2, <3>2 DEF Queued
  <2> QED
    BY <2>1, <2>2
<1>5. \A i, j \in DOMAIN queue' : queue'[i] = queue'[j] => i = j
  BY <1>2 DEF OnePlace
<1> QED
  BY <1>2, <1>3, <1>4, <1>5

LEMMA QueuedAreEvents == ASSUME Types PROVE Queued \subseteq Events
  BY DEF Types, SetTypes, Queued

----------------------------------------------------------------------------
\* Types.

LEMMA TypesInit == Init => Types
<1> SUFFICES ASSUME Init PROVE Types
  OBVIOUS
<1>1. SetTypes
  BY DEF Init, SetTypes
<1>2. NumberTypes
  BY BoundsAssumption DEF Init, NumberTypes
<1>3. FlagTypes
  BY DEF Init, FlagTypes
<1> QED
  BY <1>1, <1>2, <1>3 DEF Types

LEMMA CountTypes ==
  ASSUME Types, NEW S
  PROVE  Ref(S) \in [Events -> Int] /\ Unref(S) \in [Events -> Int]
BY DEF Types, SetTypes, Ref, Unref

LEMMA SetTypesKept == ASSUME Types, Hands, OnePlace, Next PROVE SetTypes'
<1> USE DEF mailbox, loop, broker, events, worker, flags, owner, routes, Elsewhere
<1> USE DEF Types
<1>1. CASE ReceivePacket \/ ArrivalStep
  BY <1>1 DEF ReceivePacket, ArrivalStep, SetTypes
<1>2. ASSUME NEW e \in Locals, Publish(e) PROVE SetTypes'
  BY <1>2, CountTypes DEF Publish, SetTypes, Events
<1>3. CASE BrokerStep
  <2>1. ASSUME NEW e \in Events, LookUpReceiver(e) PROVE SetTypes'
    BY <2>1, CountTypes DEF LookUpReceiver, SetTypes
  <2>2. CASE TryQueueEvent
    BY <2>2, CountTypes DEF TryQueueEvent, SetTypes
  <2>3. CASE Wake
    BY <2>3, CountTypes DEF Wake, SetTypes
  <2> QED
    BY <1>3, <2>1, <2>2, <2>3 DEF BrokerStep
<1>4. CASE LoopStep
  <2>1. CASE HasPendingWork \/ EndWait \/ PopInbound \/ EndSweep
    BY <2>1 DEF HasPendingWork, EndWait, PopInbound, EndSweep, SetTypes
  <2>2. CASE ProcessInbound
    <3>1. remote' \in SUBSET Events /\ atBroker' \in SUBSET Events
      BY <2>2 DEF ProcessInbound, WithContext, SetTypes, Events
    <3>2. refs' \in [Events -> Int]
      BY <2>2, CountTypes DEF ProcessInbound, SetTypes
    <3> QED
      BY <2>2, <3>1, <3>2 DEF ProcessInbound, SetTypes
  <2>3. CASE BeginSweep
    BY <2>3 DEF BeginSweep, SetTypes
  <2>4. CASE TakeBatch
    <3>1. batch' \in SUBSET Events /\ pending' \in SUBSET Events /\ due' \in SUBSET Events
      BY <2>4 DEF TakeBatch, SetTypes
    <3> QED
      BY <2>4, <3>1 DEF TakeBatch, SetTypes
  <2>5. ASSUME NEW e \in Events, SubmitOutboundEvent(e) PROVE SetTypes'
    BY <2>5, CountTypes DEF SubmitOutboundEvent, SetTypes
  <2>6. CASE Submit
    <3>1. CASE executor = "started" /\ Len(queue) < QueueDepth
      <4>1. PICK x \in inHand : queue' = Append(queue, x)
        BY <2>6, <3>1 DEF Submit
      <4>2. queue' \in Seq(Events)
        BY <4>1 DEF SetTypes
      <4> QED
        BY <2>6, <3>1, <4>2 DEF Submit, SetTypes
    <3>2. CASE ~(executor = "started" /\ Len(queue) < QueueDepth)
      BY <2>6, <3>2, CountTypes DEF Submit, Refused, SetTypes
    <3> QED
      BY <3>1, <3>2
  <2> QED
    BY <1>4, <2>1, <2>2, <2>3, <2>4, <2>5, <2>6 DEF LoopStep
<1>5. CASE WorkerStep
  <2>1. CASE TakeWork
    <3>1. queue' \in Seq(Events) /\ Head(queue) \in Events
      BY <2>1, Taking DEF TakeWork
    <3> QED
      BY <2>1, <3>1 DEF TakeWork, SetTypes
  <2>2. ASSUME NEW e \in Events, CollectTargets(e) PROVE SetTypes'
    BY <2>2, CountTypes DEF CollectTargets, ReleaseWork, SetTypes
  <2>3. ASSUME NEW e \in Events, SerializeEvent(e) PROVE SetTypes'
    BY <2>3, CountTypes DEF SerializeEvent, ReleaseWork, SetTypes
  <2>4. ASSUME NEW t \in Transports, Send(t) PROVE SetTypes'
    BY <2>4 DEF Send, SetTypes
  <2> QED
    BY <1>5, <2>1, <2>2, <2>3, <2>4 DEF WorkerStep
<1>6. CASE BeginStart \/ BeginShutdown
  BY <1>6 DEF BeginStart, BeginShutdown, SetTypes
<1>7. CASE OwnerStep
  <2>1. CASE InitializeExecutor \/ InitializeThread \/ SetInitialized \/ RegisterReceiver
    BY <2>1 DEF InitializeExecutor, InitializeThread, SetInitialized, RegisterReceiver, SetTypes
  <2>2. CASE StartExecutor \/ StartThread \/ ExecutorNotReady \/ UnregisterReceiver
    BY <2>2 DEF StartExecutor, StartThread, ExecutorNotReady, UnregisterReceiver, SetTypes
  <2>3. CASE ShutdownLocked \/ StopExecutor
    BY <2>3 DEF ShutdownLocked, StopExecutor, SetTypes
  <2>4. CASE ClearPendingEvents
    BY <2>4, CountTypes DEF ClearPendingEvents, SetTypes
  <2>5. CASE ExecutorStopped
    BY <2>5, CountTypes DEF ExecutorStopped, SetTypes
  <2> QED
    BY <1>7, <2>1, <2>2, <2>3, <2>4, <2>5 DEF OwnerStep
<1>8. ASSUME NEW in \in SUBSET Transports, NEW out \in SUBSET Transports,
             NEW kept \in 0 .. inbound, NEW option \in PendingOutbound,
             Reroute(in, out, kept, option)
      PROVE  SetTypes'
  <2>1. promised' \in SUBSET Events
    BY <1>8 DEF Reroute, SetTypes, Events
  <2> QED
    BY <1>8, <2>1 DEF Reroute, SetTypes
<1> QED
  BY <1>1, <1>2, <1>3, <1>4, <1>5, <1>6, <1>7, <1>8 DEF Next

LEMMA NumberTypesKept == ASSUME Types, Hands, OnePlace, Next PROVE NumberTypes'
<1> USE DEF mailbox, loop, broker, events, worker, flags, owner, routes, Elsewhere
<1> USE DEF Types
<1>1. CASE ReceivePacket \/ (\E e \in Locals : Publish(e)) \/ BrokerStep
  BY <1>1 DEF ReceivePacket, Publish, BrokerStep, LookUpReceiver, TryQueueEvent, Wake, NumberTypes
<1>2. CASE ArrivalStep
  <2>1. inbound' \in 0 .. MaxInbound
    BY <1>2, BoundsAssumption DEF ArrivalStep, QueueAndWake, Accepts, NumberTypes
  <2> QED
    BY <1>2, <2>1 DEF ArrivalStep, NumberTypes
<1>3. CASE LoopStep
  <2>1. CASE HasPendingWork \/ EndWait \/ ProcessInbound \/ EndSweep
    BY <2>1 DEF HasPendingWork, EndWait, ProcessInbound, EndSweep, NumberTypes
  <2>2. CASE PopInbound
    <3>1. inbound' \in 0 .. MaxInbound
      <4>1. inbound \in Nat /\ inbound <= MaxInbound /\ MaxInbound \in Nat
        BY BoundsAssumption DEF NumberTypes
      <4>2. inbound' = inbound \/ (inbound # 0 /\ inbound' = inbound - 1)
        BY <2>2 DEF PopInbound
      <4> QED
        BY <4>1, <4>2
    <3> QED
      BY <2>2, <3>1 DEF PopInbound, NumberTypes
  <2>3. CASE BeginSweep \/ TakeBatch
    <3>1. left' \in 0 .. Collections
      BY <2>3, BoundsAssumption DEF BeginSweep, TakeBatch, NumberTypes
    <3> QED
      BY <2>3, <3>1 DEF BeginSweep, TakeBatch, NumberTypes
  <2>4. CASE \E e \in Events : SubmitOutboundEvent(e)
    BY <2>4 DEF SubmitOutboundEvent, NumberTypes
  <2>5. CASE Submit
    <3>1. Len(queue') <= QueueDepth
      <4>1. CASE executor = "started" /\ Len(queue) < QueueDepth
        <5>1. PICK x \in inHand : queue' = Append(queue, x)
          BY <2>5, <4>1 DEF Submit
        <5>2. queue \in Seq(Events) /\ x \in Events
          BY <5>1 DEF SetTypes
        <5> QED
          BY <4>1, <5>1, <5>2, BoundsAssumption
      <4>2. CASE ~(executor = "started" /\ Len(queue) < QueueDepth)
        BY <2>5, <4>2 DEF Submit, NumberTypes
      <4> QED
        BY <4>1, <4>2
    <3> QED
      BY <2>5, <3>1 DEF Submit, NumberTypes
  <2> QED
    BY <1>3, <2>1, <2>2, <2>3, <2>4, <2>5 DEF LoopStep
<1>4. CASE WorkerStep
  <2>1. CASE TakeWork
    <3>1. Len(queue') <= Len(queue) /\ queue \in Seq(Events) /\ queue' \in Seq(Events)
      BY <2>1, Taking DEF TakeWork, SetTypes
    <3>2. Len(queue') <= QueueDepth
      BY <3>1, BoundsAssumption DEF NumberTypes
    <3> QED
      BY <2>1, <3>2 DEF TakeWork, NumberTypes
  <2>2. CASE \E e \in Events : CollectTargets(e) \/ SerializeEvent(e)
    BY <2>2 DEF CollectTargets, SerializeEvent, NumberTypes
  <2>3. CASE \E t \in Transports : Send(t)
    BY <2>3 DEF Send, NumberTypes
  <2> QED
    BY <1>4, <2>1, <2>2, <2>3 DEF WorkerStep
<1>5. CASE BeginStart \/ BeginShutdown
  <2>1. calls' \in 0 .. MaxCalls
    BY <1>5, BoundsAssumption DEF BeginStart, BeginShutdown, OwnerCalls, NumberTypes
  <2> QED
    BY <1>5, <2>1 DEF BeginStart, BeginShutdown, NumberTypes
<1>6. CASE OwnerStep
  <2>1. CASE InitializeExecutor \/ InitializeThread \/ SetInitialized \/ RegisterReceiver
    BY <2>1 DEF InitializeExecutor, InitializeThread, SetInitialized, RegisterReceiver, NumberTypes
  <2>2. CASE StartExecutor \/ StartThread \/ ExecutorNotReady \/ UnregisterReceiver
    BY <2>2 DEF StartExecutor, StartThread, ExecutorNotReady, UnregisterReceiver, NumberTypes
  <2>3. CASE ShutdownLocked
    <3>1. inbound' \in 0 .. MaxInbound
      BY <2>3, BoundsAssumption DEF ShutdownLocked, NumberTypes
    <3> QED
      BY <2>3, <3>1 DEF ShutdownLocked, NumberTypes
  <2>4. CASE ClearPendingEvents \/ StopExecutor
    BY <2>4 DEF ClearPendingEvents, StopExecutor, NumberTypes
  <2>5. CASE ExecutorStopped
    <3>1. Len(queue') <= QueueDepth
      BY <2>5, BoundsAssumption DEF ExecutorStopped
    <3> QED
      BY <2>5, <3>1 DEF ExecutorStopped, NumberTypes
  <2> QED
    BY <1>6, <2>1, <2>2, <2>3, <2>4, <2>5 DEF OwnerStep
<1>7. ASSUME NEW in \in SUBSET Transports, NEW out \in SUBSET Transports,
             NEW kept \in 0 .. inbound, NEW option \in PendingOutbound,
             Reroute(in, out, kept, option)
      PROVE  NumberTypes'
  <2>1. inbound' \in 0 .. MaxInbound /\ reroutes' \in 0 .. MaxReroutes
    BY <1>7, BoundsAssumption DEF Reroute, NumberTypes
  <2> QED
    BY <1>7, <2>1 DEF Reroute, NumberTypes
<1> QED
  BY <1>1, <1>2, <1>3, <1>4, <1>5, <1>6, <1>7 DEF Next

LEMMA FlagsUnchanged == ASSUME Types, UNCHANGED flagVars PROVE FlagTypes'
BY DEF Types, flagVars, flags, FlagTypes

LEMMA FlagTypesKept == ASSUME Types, Next PROVE FlagTypes'
<1> USE DEF mailbox, loop, broker, events, worker, flags, owner, routes, Elsewhere
<1> USE DEF Types
<1>1. CASE ReceivePacket \/ (\E e \in Locals : Publish(e))
  BY <1>1, FlagsUnchanged DEF ReceivePacket, Publish, flagVars
<1>2. CASE ArrivalStep
  BY <1>2, Zenon DEF ArrivalStep, QueueAndWake, FlagTypes
<1>3. CASE BrokerStep
  <2>1. CASE (\E e \in Events : LookUpReceiver(e)) \/ TryQueueEvent
    BY <2>1, FlagsUnchanged DEF LookUpReceiver, TryQueueEvent, flagVars
  <2>2. CASE Wake
    BY <2>2, Zenon DEF Wake, FlagTypes
  <2> QED
    BY <1>3, <2>1, <2>2 DEF BrokerStep
<1>4. CASE LoopStep
  <2>1. didWork' \in BOOLEAN /\ workSignal' \in BOOLEAN
    BY <1>4, Zenon DEF LoopStep, HasPendingWork, EndWait, PopInbound, ProcessInbound, BeginSweep,
                       TakeBatch, SubmitOutboundEvent, Submit, EndSweep, FlagTypes
  <2>2. UNCHANGED <<executor, flags, owner, routed>>
    BY <1>4, Zenon DEF LoopStep, HasPendingWork, EndWait, PopInbound, ProcessInbound, BeginSweep,
                       TakeBatch, SubmitOutboundEvent, Submit, EndSweep
  <2> QED
    BY <2>1, <2>2, Zenon DEF FlagTypes
<1>5. CASE WorkerStep
  BY <1>5, FlagsUnchanged
  DEF WorkerStep, TakeWork, CollectTargets, SerializeEvent, Send, flagVars
<1>6. CASE BeginStart
  BY <1>6, Zenon DEF BeginStart, OwnerCalls, FlagTypes
<1>7. CASE BeginShutdown
  BY <1>7, Zenon DEF BeginShutdown, OwnerCalls, FlagTypes
<1>8. CASE OwnerStep
  <2>1. CASE InitializeExecutor
    BY <2>1, Zenon DEF InitializeExecutor, FlagTypes
  <2>2. CASE InitializeThread
    BY <2>2, Zenon DEF InitializeThread, FlagTypes
  <2>3. CASE SetInitialized
    BY <2>3, Zenon DEF SetInitialized, FlagTypes
  <2>4. CASE RegisterReceiver
    BY <2>4, Zenon DEF RegisterReceiver, FlagTypes
  <2>5. CASE StartExecutor
    BY <2>5, Zenon DEF StartExecutor, FlagTypes
  <2>6. CASE StartThread
    BY <2>6, Zenon DEF StartThread, FlagTypes
  <2>7. CASE ShutdownLocked \/ ClearPendingEvents
    BY <2>7, FlagsUnchanged DEF ShutdownLocked, ClearPendingEvents, flagVars
  <2>8. CASE ExecutorNotReady \/ UnregisterReceiver
    <3>1. CASE ExecutorNotReady
      BY <3>1, Zenon DEF ExecutorNotReady, FlagTypes
    <3>2. CASE UnregisterReceiver
      BY <3>2, Zenon DEF UnregisterReceiver, FlagTypes
    <3> QED
      BY <2>8, <3>1, <3>2
  <2>9. CASE StopExecutor
    BY <2>9, Zenon DEF StopExecutor, FlagTypes
  <2>10. CASE ExecutorStopped
    BY <2>10, Zenon DEF ExecutorStopped, Stopped, FlagTypes
  <2> QED
    BY <1>8, <2>1, <2>2, <2>3, <2>4, <2>5, <2>6, <2>7, <2>8, <2>9, <2>10 DEF OwnerStep
<1>9. CASE \E in, out \in SUBSET Transports, kept \in 0 .. inbound, option \in PendingOutbound :
              Reroute(in, out, kept, option)
  BY <1>9, Zenon DEF Reroute, FlagTypes
<1> QED
  BY <1>1, <1>2, <1>3, <1>4, <1>5, <1>6, <1>7, <1>8, <1>9 DEF Next

LEMMA TypesKept == ASSUME Types, Hands, OnePlace, [Next]_vars PROVE Types'
<1>1. CASE Next
  BY <1>1, SetTypesKept, NumberTypesKept, FlagTypesKept DEF Types
<1>2. CASE UNCHANGED vars
  BY <1>2
  DEF vars, mailbox, loop, broker, events, worker, flags, owner, routes,
      Types, SetTypes, NumberTypes, FlagTypes
<1> QED
  BY <1>1, <1>2

----------------------------------------------------------------------------
\* Hands, places and counts.

LEMMA HandsKept == ASSUME Types, Hands, [Next]_vars PROVE Hands'
<1> USE DEF mailbox, loop, broker, events, worker, flags, owner, routes, Elsewhere
<1>1. CASE UNCHANGED vars \/ ReceivePacket \/ ArrivalStep \/ (\E e \in Locals : Publish(e))
  BY <1>1 DEF vars, ReceivePacket, ArrivalStep, Publish, Hands, Single
<1>2. CASE BrokerStep
  <2>1. ASSUME NEW e \in Events, LookUpReceiver(e) PROVE Hands'
    BY <2>1 DEF LookUpReceiver, Hands, Single
  <2>2. CASE TryQueueEvent \/ Wake
    BY <2>2 DEF TryQueueEvent, Wake, Hands, Single
  <2> QED
    BY <1>2, <2>1, <2>2 DEF BrokerStep
<1>3. CASE LoopStep
  <2>1. CASE HasPendingWork \/ EndWait \/ PopInbound \/ ProcessInbound
    BY <2>1 DEF HasPendingWork, EndWait, PopInbound, ProcessInbound, AfterInbound, Hands, Single
  <2>2. CASE BeginSweep \/ TakeBatch \/ EndSweep
    BY <2>2 DEF BeginSweep, TakeBatch, EndSweep, Hands, Single
  <2>3. ASSUME NEW e \in Events, SubmitOutboundEvent(e) PROVE Hands'
    BY <2>3 DEF SubmitOutboundEvent, Hands, Single
  <2>4. CASE Submit
    BY <2>4 DEF Submit, Hands, Single
  <2> QED
    BY <1>3, <2>1, <2>2, <2>3, <2>4 DEF LoopStep
<1>4. CASE WorkerStep
  <2>1. CASE TakeWork
    <3>1. Head(queue) \in Events
      BY <2>1 DEF TakeWork, Types, SetTypes
    <3> QED
      BY <2>1, <3>1 DEF TakeWork, Hands, Single
  <2>2. ASSUME NEW e \in Events, CollectTargets(e) \/ SerializeEvent(e) PROVE Hands'
    BY <2>2 DEF CollectTargets, SerializeEvent, Hands, Single
  <2>3. ASSUME NEW t \in Transports, Send(t) PROVE Hands'
    BY <2>3 DEF Send, Hands, Single
  <2> QED
    BY <1>4, <2>1, <2>2, <2>3 DEF WorkerStep
<1>5. CASE BeginStart \/ BeginShutdown
  BY <1>5 DEF BeginStart, BeginShutdown, Hands, Single
<1>6. CASE OwnerStep
  BY <1>6 DEF OwnerStep, InitializeExecutor, InitializeThread, SetInitialized, RegisterReceiver,
              StartExecutor, StartThread, ShutdownLocked, ExecutorNotReady, UnregisterReceiver,
              ClearPendingEvents, StopExecutor, ExecutorStopped, Hands, Single
<1>7. ASSUME NEW in \in SUBSET Transports, NEW out \in SUBSET Transports,
             NEW kept \in 0 .. inbound, NEW option \in PendingOutbound,
             Reroute(in, out, kept, option)
      PROVE  Hands'
  BY <1>7 DEF Reroute, Hands, Single
<1> QED
  BY <1>1, <1>2, <1>3, <1>4, <1>5, <1>6, <1>7 DEF Next

\* What has no reference is nowhere.
LEMMA Nowhere ==
  ASSUME Exact, NEW e \in Events, refs[e] = 0
  PROVE  /\ e \notin atBroker \cup offered \cup pending \cup batch \cup Queued
         /\ ~AtWorker(e)
BY DEF Exact, Count, Holds

\* The invariant of one event, which the step is to keep.
Settled(e) == Places(e) <= 1 /\ refs[e] = Count(e)

LEMMA PlacesKept == ASSUME IInv, Types', Next, NEW x \in Events PROVE Settled(x)'
<1> USE DEF mailbox, loop, broker, events, worker, flags, owner, routes, Elsewhere
<1>0. /\ Places(x) <= 1 /\ refs[x] = Count(x)
      /\ refs \in [Events -> Int]
      /\ Hands /\ Types /\ OnePlace /\ Exact
  BY DEF IInv, Exact, OnePlace, Types, SetTypes
<1>1. CASE ReceivePacket \/ ArrivalStep
  BY <1>0, <1>1 DEF ReceivePacket, ArrivalStep, Settled, Places, Count, AtWorker, Queued
<1>2. ASSUME NEW e \in Locals, Publish(e) PROVE Settled(x)'
  BY <1>0, <1>2, Nowhere
  DEF Publish, Ref, Events, Settled, Places, Count, AtWorker, Queued, Holds
<1>3. CASE BrokerStep
  <2>1. ASSUME NEW e \in Events, LookUpReceiver(e) PROVE Settled(x)'
    BY <1>0, <2>1
    DEF LookUpReceiver, Unref, Settled, Places, Count, AtWorker, Queued, Holds, Hands
  <2>2. CASE TryQueueEvent
    BY <1>0, <2>2
    DEF TryQueueEvent, Ref, Unref, Settled, Places, Count, AtWorker, Queued, Holds, Hands
  <2>3. CASE Wake
    BY <1>0, <2>3 DEF Wake, Unref, Settled, Places, Count, AtWorker, Queued, Holds, Hands
  <2> QED
    BY <1>3, <2>1, <2>2, <2>3 DEF BrokerStep
<1>4. CASE LoopStep
  <2>1. CASE HasPendingWork \/ EndWait \/ PopInbound \/ BeginSweep \/ EndSweep
    BY <1>0, <2>1
    DEF HasPendingWork, EndWait, PopInbound, BeginSweep, EndSweep,
        Settled, Places, Count, AtWorker, Queued
  <2>2. CASE ProcessInbound
    <3>1. CASE UNCHANGED <<remote, atBroker, refs>>
      BY <1>0, <2>2, <3>1 DEF ProcessInbound, Settled, Places, Count, AtWorker, Queued
    <3>2. ASSUME NEW e \in Remotes, refs[e] = 0, atBroker' = atBroker \cup {e}, refs' = Ref({e})
          PROVE  Settled(x)'
      BY <1>0, <2>2, <3>2, Nowhere
      DEF ProcessInbound, Ref, Events, Settled, Places, Count, AtWorker, Queued, Holds
    <3> QED
      BY <2>2, <3>1, <3>2 DEF ProcessInbound
  <2>3. CASE TakeBatch
    BY <1>0, <2>3 DEF TakeBatch, Settled, Places, Count, AtWorker, Queued, Holds
  <2>4. ASSUME NEW e \in Events, SubmitOutboundEvent(e) PROVE Settled(x)'
    BY <1>0, <2>4
    DEF SubmitOutboundEvent, Unref, Settled, Places, Count, AtWorker, Queued, Holds
  <2>5. CASE Submit
    <3>1. PICK e \in Events : inHand = {e} /\ e \in batch
      BY <1>0, <2>5 DEF Submit, Hands, Single
    <3>2. CASE executor = "started" /\ Len(queue) < QueueDepth
      <4>1. Queued' = Queued \cup {e}
        BY <1>0, <2>5, <3>1, <3>2, Appending DEF Submit
      <4> QED
        BY <1>0, <2>5, <3>1, <3>2, <4>1
        DEF Submit, Settled, Places, Count, AtWorker, Holds
    <3>3. CASE ~(executor = "started" /\ Len(queue) < QueueDepth)
      BY <1>0, <2>5, <3>1, <3>3
      DEF Submit, Refused, Unref, Settled, Places, Count, AtWorker, Queued, Holds
    <3> QED
      BY <3>2, <3>3
  <2> QED
    BY <1>4, <2>1, <2>2, <2>3, <2>4, <2>5 DEF LoopStep
<1>5. CASE WorkerStep
  <2>1. CASE TakeWork
    <3>1. Head(queue) \in Queued /\ Queued' = Queued \ {Head(queue)} /\ sending = {}
      BY <1>0, <2>1, Taking DEF TakeWork, Hands
    <3> QED
      BY <1>0, <2>1, <3>1 DEF TakeWork, Settled, Places, Count, AtWorker, Holds
  <2>2. ASSUME NEW e \in Events, CollectTargets(e) \/ SerializeEvent(e) PROVE Settled(x)'
    <3>1. sending = {e}
      BY <1>0, <2>2 DEF CollectTargets, SerializeEvent, Hands, Single
    <3> QED
      BY <1>0, <2>2, <3>1
      DEF CollectTargets, SerializeEvent, ReleaseWork, Unref, Settled, Places, Count, AtWorker,
          Queued, Holds
  <2>3. ASSUME NEW t \in Transports, Send(t) PROVE Settled(x)'
    BY <1>0, <2>3 DEF Send, Settled, Places, Count, AtWorker, Queued, Holds
  <2> QED
    BY <1>5, <2>1, <2>2, <2>3 DEF WorkerStep
<1>6. CASE BeginStart \/ BeginShutdown
  BY <1>0, <1>6 DEF BeginStart, BeginShutdown, Settled, Places, Count, AtWorker, Queued
<1>7. CASE OwnerStep
  <2>1. CASE InitializeExecutor \/ InitializeThread \/ SetInitialized \/ RegisterReceiver
    BY <1>0, <2>1
    DEF InitializeExecutor, InitializeThread, SetInitialized, RegisterReceiver,
        Settled, Places, Count, AtWorker, Queued
  <2>2. CASE StartExecutor \/ StartThread \/ ShutdownLocked \/ ExecutorNotReady
    BY <1>0, <2>2
    DEF StartExecutor, StartThread, ShutdownLocked, ExecutorNotReady,
        Settled, Places, Count, AtWorker, Queued
  <2>3. CASE UnregisterReceiver \/ StopExecutor
    BY <1>0, <2>3
    DEF UnregisterReceiver, StopExecutor, Settled, Places, Count, AtWorker, Queued
  <2>4. CASE ClearPendingEvents
    BY <1>0, <2>4
    DEF ClearPendingEvents, Unref, Settled, Places, Count, AtWorker, Queued, Holds
  <2>5. CASE ExecutorStopped
    <3>1. Queued' = {}
      BY <2>5 DEF ExecutorStopped, Queued
    <3> QED
      BY <1>0, <2>5, <3>1
      DEF ExecutorStopped, Unref, Settled, Places, Count, AtWorker, Holds
  <2> QED
    BY <1>7, <2>1, <2>2, <2>3, <2>4, <2>5 DEF OwnerStep
<1>8. ASSUME NEW in \in SUBSET Transports, NEW out \in SUBSET Transports,
             NEW kept \in 0 .. inbound, NEW option \in PendingOutbound,
             Reroute(in, out, kept, option)
      PROVE  Settled(x)'
  BY <1>0, <1>8 DEF Reroute, Settled, Places, Count, AtWorker, Queued
<1> QED
  BY <1>1, <1>2, <1>3, <1>4, <1>5, <1>6, <1>7, <1>8 DEF Next

\* Only three steps touch the queue, and what is in a batch is not in it yet.
LEMMA QueueKept ==
  ASSUME IInv, Next
  PROVE  \A i, j \in DOMAIN queue' : queue'[i] = queue'[j] => i = j
<1> USE DEF mailbox, loop, broker, events, worker, flags, owner, routes, Elsewhere
<1>0. Types /\ Hands /\ OnePlace
  BY DEF IInv
<1>1. CASE queue' = queue
  BY <1>0, <1>1 DEF OnePlace
<1>2. CASE Submit
  <2>1. CASE queue' = queue
    BY <1>1, <2>1
  <2>2. CASE queue' # queue
    <3>1. PICK e \in inHand : queue' = Append(queue, e)
      BY <1>2, <2>2 DEF Submit
    <3>2. e \in Events /\ e \in batch
      BY <1>0, <1>2, <3>1 DEF Submit, Hands, Types, SetTypes
    <3>3. e \notin Queued
      BY <1>0, <3>2 DEF OnePlace, Places, Holds
    <3> QED
      BY <1>0, <3>1, <3>2, <3>3, Appending
  <2> QED
    BY <2>1, <2>2
<1>3. CASE TakeWork
  BY <1>0, <1>3, Taking DEF TakeWork
<1>4. CASE ExecutorStopped
  BY <1>4 DEF ExecutorStopped
<1>5. Submit \/ TakeWork \/ ExecutorStopped \/ queue' = queue
  BY DEF Next, ReceivePacket, ArrivalStep, Publish, BrokerStep, LookUpReceiver, TryQueueEvent, Wake,
         LoopStep, HasPendingWork, EndWait, PopInbound, ProcessInbound, BeginSweep, TakeBatch,
         SubmitOutboundEvent, EndSweep, WorkerStep, CollectTargets, SerializeEvent, Send, BeginStart,
         BeginShutdown, OwnerStep, InitializeExecutor, InitializeThread, SetInitialized,
         RegisterReceiver, StartExecutor, StartThread, ShutdownLocked, ExecutorNotReady,
         UnregisterReceiver, ClearPendingEvents, StopExecutor, Reroute
<1> QED
  BY <1>1, <1>2, <1>3, <1>4, <1>5

----------------------------------------------------------------------------
\* Origins.

\* Event x is marked before it is anywhere, and stays so.
MarkedFirst(x) ==
    /\ remote \subseteq remote'
    /\ Places(x)' > 0 => Places(x) > 0 \/ x \in remote'

LEMMA RemotesAreMarked == ASSUME IInv, Next, NEW x \in Remotes PROVE MarkedFirst(x)
<1> USE DEF mailbox, loop, broker, events, worker, flags, owner, routes, Elsewhere
<1>0. Types /\ Hands /\ OnePlace /\ x \in Events
  BY DEF IInv, Events
<1>1. CASE ReceivePacket \/ ArrivalStep
  BY <1>1 DEF ReceivePacket, ArrivalStep, MarkedFirst, Places, AtWorker, Queued
<1>2. ASSUME NEW e \in Locals, Publish(e) PROVE MarkedFirst(x)
  BY <1>2, EventsAssumption DEF Publish, MarkedFirst, Places, AtWorker, Queued, Holds
<1>3. CASE BrokerStep
  <2>1. ASSUME NEW e \in Events, LookUpReceiver(e) PROVE MarkedFirst(x)
    BY <1>0, <2>1 DEF LookUpReceiver, MarkedFirst, Places, AtWorker, Queued, Holds, Hands
  <2>2. CASE TryQueueEvent
    BY <1>0, <2>2 DEF TryQueueEvent, MarkedFirst, Places, AtWorker, Queued, Holds, Hands
  <2>3. CASE Wake
    BY <1>0, <2>3 DEF Wake, MarkedFirst, Places, AtWorker, Queued, Holds
  <2> QED
    BY <1>3, <2>1, <2>2, <2>3 DEF BrokerStep
<1>4. CASE LoopStep
  <2>1. CASE HasPendingWork \/ EndWait \/ PopInbound \/ BeginSweep \/ EndSweep
    BY <2>1
    DEF HasPendingWork, EndWait, PopInbound, BeginSweep, EndSweep,
        MarkedFirst, Places, AtWorker, Queued
  <2>2. CASE ProcessInbound
    BY <2>2 DEF ProcessInbound, WithContext, MarkedFirst, Places, AtWorker, Queued, Holds
  <2>3. CASE TakeBatch
    BY <2>3 DEF TakeBatch, MarkedFirst, Places, AtWorker, Queued, Holds
  <2>4. ASSUME NEW e \in Events, SubmitOutboundEvent(e) PROVE MarkedFirst(x)
    BY <2>4 DEF SubmitOutboundEvent, MarkedFirst, Places, AtWorker, Queued, Holds
  <2>5. CASE Submit
    <3>1. Queued' \subseteq Queued \cup inHand
      <4>1. CASE queue' = queue
        BY <4>1 DEF Queued
      <4>2. ASSUME NEW e \in inHand, queue' = Append(queue, e)
            PROVE  Queued' \subseteq Queued \cup inHand
        <5>1. e \in Events
          BY <1>0, <4>2 DEF Types, SetTypes
        <5> QED
          BY <1>0, <4>2, <5>1, Appending
      <4> QED
        BY <2>5, <4>1, <4>2 DEF Submit
    <3> QED
      BY <1>0, <2>5, <3>1 DEF Submit, MarkedFirst, Places, AtWorker, Holds, Hands
  <2> QED
    BY <1>4, <2>1, <2>2, <2>3, <2>4, <2>5 DEF LoopStep
<1>5. CASE WorkerStep
  <2>1. CASE TakeWork
    <3>1. Head(queue) \in Queued /\ Queued' = Queued \ {Head(queue)} /\ sending = {}
      BY <1>0, <2>1, Taking DEF TakeWork, Hands
    <3> QED
      BY <2>1, <3>1 DEF TakeWork, MarkedFirst, Places, AtWorker, Holds
  <2>2. ASSUME NEW e \in Events, CollectTargets(e) \/ SerializeEvent(e) PROVE MarkedFirst(x)
    BY <2>2 DEF CollectTargets, SerializeEvent, MarkedFirst, Places, AtWorker, Queued, Holds
  <2>3. ASSUME NEW t \in Transports, Send(t) PROVE MarkedFirst(x)
    BY <2>3 DEF Send, MarkedFirst, Places, AtWorker, Queued, Holds
  <2> QED
    BY <1>5, <2>1, <2>2, <2>3 DEF WorkerStep
<1>6. CASE BeginStart \/ BeginShutdown
  BY <1>6 DEF BeginStart, BeginShutdown, MarkedFirst, Places, AtWorker, Queued
<1>7. CASE OwnerStep
  <2>1. CASE ExecutorStopped
    <3>1. Queued' = {}
      BY <2>1 DEF ExecutorStopped, Queued
    <3> QED
      BY <2>1, <3>1 DEF ExecutorStopped, MarkedFirst, Places, AtWorker, Holds
  <2>2. CASE ClearPendingEvents
    BY <2>2 DEF ClearPendingEvents, MarkedFirst, Places, AtWorker, Queued, Holds
  <2>3. CASE ~ExecutorStopped /\ ~ClearPendingEvents
    BY <1>7, <2>3
    DEF OwnerStep, InitializeExecutor, InitializeThread, SetInitialized, RegisterReceiver,
        StartExecutor, StartThread, ShutdownLocked, ExecutorNotReady, UnregisterReceiver,
        StopExecutor, MarkedFirst, Places, AtWorker, Queued
  <2> QED
    BY <2>1, <2>2, <2>3
<1>8. ASSUME NEW in \in SUBSET Transports, NEW out \in SUBSET Transports,
             NEW kept \in 0 .. inbound, NEW option \in PendingOutbound,
             Reroute(in, out, kept, option)
      PROVE  MarkedFirst(x)
  BY <1>8 DEF Reroute, MarkedFirst, Places, AtWorker, Queued
<1> QED
  BY <1>1, <1>2, <1>3, <1>4, <1>5, <1>6, <1>7, <1>8 DEF Next

LEMMA OriginKept == ASSUME IInv, Next PROVE OriginKnown'
<1> USE DEF mailbox, loop, broker, events, worker, flags, owner, routes, Elsewhere
<1>0. Types /\ Hands /\ OriginKnown
  BY DEF IInv
<1>1. \A e \in Remotes : Places(e)' > 0 => e \in remote'
  BY <1>0, RemotesAreMarked DEF MarkedFirst, OriginKnown
<1>2. workerPC' \in {"serialize", "send"} => sending' \subseteq Locals
  <2>1. ASSUME NEW e \in Events, CollectTargets(e), workerPC' = "serialize"
        PROVE  sending' \subseteq Locals
    <3>1. sending = {e} /\ e \notin remote
      BY <1>0, <2>1 DEF CollectTargets, Hands, Single
    <3>2. Places(e) > 0
      BY <2>1 DEF CollectTargets, Places, AtWorker, Holds
    <3>3. e \in Locals
      BY <1>0, <3>1, <3>2 DEF OriginKnown, Events
    <3> QED
      BY <2>1, <3>1, <3>3 DEF CollectTargets
  <2>2. ASSUME NEW e \in Events, SerializeEvent(e), workerPC' = "send"
        PROVE  sending' \subseteq Locals
    BY <1>0, <2>2 DEF SerializeEvent, OriginKnown
  <2>3. ASSUME NEW t \in Transports, Send(t), workerPC' = "send" PROVE sending' \subseteq Locals
    BY <1>0, <2>3 DEF Send, OriginKnown
  <2>4. CASE UNCHANGED worker
    BY <1>0, <2>4 DEF OriginKnown
  <2>5. \/ UNCHANGED worker
        \/ workerPC' \notin {"serialize", "send"}
        \/ \E e \in Events : CollectTargets(e) /\ workerPC' = "serialize"
        \/ \E e \in Events : SerializeEvent(e) /\ workerPC' = "send"
        \/ \E t \in Transports : Send(t) /\ workerPC' = "send"
    BY DEF Next, ReceivePacket, ArrivalStep, Publish, BrokerStep, LookUpReceiver, TryQueueEvent,
           Wake, LoopStep, HasPendingWork, EndWait, PopInbound, ProcessInbound, BeginSweep,
           TakeBatch, SubmitOutboundEvent, Submit, EndSweep, WorkerStep, TakeWork, CollectTargets,
           SerializeEvent, Send, BeginStart, BeginShutdown, OwnerStep, InitializeExecutor,
           InitializeThread, SetInitialized, RegisterReceiver, StartExecutor, StartThread,
           ShutdownLocked, ExecutorNotReady, UnregisterReceiver, ClearPendingEvents, StopExecutor,
           ExecutorStopped, Reroute
  <2> QED
    BY <2>1, <2>2, <2>3, <2>4, <2>5
<1> QED
  BY <1>1, <1>2 DEF OriginKnown

----------------------------------------------------------------------------
\* The owner and the executor.

LEMMA ExecutorKept == ASSUME Executor, [Next]_vars PROVE Executor'
<1> USE DEF mailbox, loop, broker, events, worker, flags, owner, routes, Elsewhere
<1>1. CASE UNCHANGED <<executor, queue, workerPC, executorInitialized, executorReady, ownerPC>>
  BY <1>1 DEF Executor
<1>2. CASE Submit
  BY <1>2 DEF Submit, Executor
<1>3. CASE WorkerStep
  BY <1>3 DEF WorkerStep, TakeWork, CollectTargets, SerializeEvent, Send, Executor
<1>4. CASE BeginStart \/ BeginShutdown
  BY <1>4 DEF BeginStart, BeginShutdown, OwnerCalls, OwnerAt, Executor
<1>5. CASE OwnerStep
  <2>1. CASE InitializeExecutor
    BY <2>1 DEF InitializeExecutor, OwnerAt, Executor
  <2>2. CASE InitializeThread \/ SetInitialized \/ RegisterReceiver
    BY <2>2 DEF InitializeThread, SetInitialized, RegisterReceiver, OwnerAt, Executor
  <2>3. CASE StartExecutor
    BY <2>3 DEF StartExecutor, OwnerAt, Executor
  <2>4. CASE StartThread
    BY <2>4 DEF StartThread, OwnerAt, Executor
  <2>5. CASE ShutdownLocked \/ ExecutorNotReady \/ UnregisterReceiver \/ ClearPendingEvents
    BY <2>5
    DEF ShutdownLocked, ExecutorNotReady, UnregisterReceiver, ClearPendingEvents, OwnerAt, Executor
  <2>6. CASE StopExecutor
    BY <2>6 DEF StopExecutor, OwnerAt, Executor
  <2>7. CASE ExecutorStopped
    BY <2>7 DEF ExecutorStopped, Stopped, OwnerAt, Executor
  <2> QED
    BY <1>5, <2>1, <2>2, <2>3, <2>4, <2>5, <2>6, <2>7 DEF OwnerStep
<1>6. \/ UNCHANGED <<executor, queue, workerPC, executorInitialized, executorReady, ownerPC>>
      \/ Submit \/ WorkerStep \/ BeginStart \/ BeginShutdown \/ OwnerStep
  BY DEF vars, Next, ReceivePacket, ArrivalStep, Publish, BrokerStep, LookUpReceiver, TryQueueEvent,
         Wake, LoopStep, HasPendingWork, EndWait, PopInbound, ProcessInbound, BeginSweep, TakeBatch,
         SubmitOutboundEvent, EndSweep, Reroute
<1> QED
  BY <1>1, <1>2, <1>3, <1>4, <1>5, <1>6

----------------------------------------------------------------------------
\* The loop and its signal.

LEMMA AwakeKept == ASSUME Types, Awake, [Next]_vars PROVE Awake'
<1> USE DEF mailbox, loop, broker, events, worker, flags, owner, routes, Elsewhere
<1>0. inbound \in Nat
  BY BoundsAssumption DEF Types, NumberTypes
<1>1. CASE /\ UNCHANGED <<loopPC, pending, workSignal, arrivalPC, brokerPC>>
           /\ inbound' = inbound \/ inbound' \in 0 .. inbound
  BY <1>0, <1>1 DEF Awake, NoLostWakeup
<1>2. CASE ReceivePacket
  BY <1>2 DEF ReceivePacket, Awake, NoLostWakeup
<1>3. CASE ArrivalStep
  BY <1>3 DEF ArrivalStep, QueueAndWake, Awake, NoLostWakeup
<1>4. CASE BrokerStep
  <2>1. ASSUME NEW e \in Events, LookUpReceiver(e) PROVE Awake'
    BY <2>1 DEF LookUpReceiver, Awake, NoLostWakeup
  <2>2. CASE TryQueueEvent
    BY <2>2 DEF TryQueueEvent, Awake, NoLostWakeup
  <2>3. CASE Wake
    BY <2>3 DEF Wake, Awake, NoLostWakeup
  <2> QED
    BY <1>4, <2>1, <2>2, <2>3 DEF BrokerStep
<1>5. CASE LoopStep
  <2>1. CASE HasPendingWork
    BY <1>0, <2>1 DEF HasPendingWork, Awake, NoLostWakeup
  <2>2. loopPC' \notin {"wait", "lookInbound"} \/ HasPendingWork
    BY <1>5
    DEF LoopStep, EndWait, PopInbound, ProcessInbound, AfterInbound, BeginSweep, TakeBatch,
        SubmitOutboundEvent, Submit, EndSweep
  <2> QED
    BY <2>1, <2>2 DEF Awake, NoLostWakeup
<1>6. CASE ClearPendingEvents
  BY <1>6 DEF ClearPendingEvents, Awake, NoLostWakeup
<1>7. CASE ShutdownLocked
  BY <1>0, <1>7 DEF ShutdownLocked, Awake, NoLostWakeup
<1>8. \/ ReceivePacket \/ ArrivalStep \/ BrokerStep \/ LoopStep
      \/ ClearPendingEvents \/ ShutdownLocked
      \/ /\ UNCHANGED <<loopPC, pending, workSignal, arrivalPC, brokerPC>>
         /\ inbound' = inbound \/ inbound' \in 0 .. inbound
  BY DEF vars, Next, Publish, WorkerStep, TakeWork, CollectTargets, SerializeEvent, Send, BeginStart,
         BeginShutdown, OwnerStep, InitializeExecutor, InitializeThread, SetInitialized,
         RegisterReceiver, StartExecutor, StartThread, ExecutorNotReady, UnregisterReceiver,
         StopExecutor, ExecutorStopped, Reroute
<1> QED
  BY <1>1, <1>2, <1>3, <1>4, <1>5, <1>6, <1>7, <1>8

----------------------------------------------------------------------------
\* The invariants of the specification.

LEMMA InitEstablishes == Init => IInv /\ Executor /\ Awake
<1> SUFFICES ASSUME Init PROVE IInv /\ Executor /\ Awake
  OBVIOUS
<1>1. Types /\ Hands
  BY TypesInit DEF Init, Hands
<1>2. Queued = {}
  BY DEF Init, Queued
<1>3. /\ \A e \in Events : Places(e) = 0 /\ Count(e) = 0 /\ refs[e] = 0
      /\ \A i, j \in DOMAIN queue : queue[i] = queue[j] => i = j
  BY <1>2 DEF Init, Places, Count, AtWorker, Holds
<1>4. OnePlace /\ Exact /\ OriginKnown
  BY <1>3 DEF Init, OnePlace, Exact, OriginKnown, Events
<1>5. Executor /\ Awake
  BY DEF Init, Executor, Awake, NoLostWakeup
<1> QED
  BY <1>1, <1>4, <1>5 DEF IInv

LEMMA NextPreserves == IInv /\ [Next]_vars => IInv'
<1> SUFFICES ASSUME IInv, [Next]_vars PROVE IInv'
  OBVIOUS
<1>1. Types' /\ Hands'
  BY TypesKept, HandsKept DEF IInv
<1>2. CASE Next
  <2>1. \A x \in Events : Places(x)' <= 1 /\ refs'[x] = Count(x)'
    BY <1>1, <1>2, PlacesKept DEF Settled
  <2>2. OnePlace' /\ Exact'
    BY <1>2, <2>1, QueueKept DEF OnePlace, Exact
  <2> QED
    BY <1>1, <1>2, <2>2, OriginKept DEF IInv
<1>3. CASE UNCHANGED vars
  BY <1>1, <1>3
  DEF IInv, OnePlace, Exact, OriginKnown, Places, Count, AtWorker, Queued, vars, mailbox, broker,
      events, worker
<1> QED
  BY <1>2, <1>3

LEMMA Invariance == Spec => [](IInv /\ Executor /\ Awake)
<1>1. IInv /\ Executor /\ Awake /\ [Next]_vars => (IInv /\ Executor /\ Awake)'
  BY NextPreserves, ExecutorKept, AwakeKept DEF IInv
<1> QED
  BY InitEstablishes, <1>1, PTL DEF Spec

\* The type invariant of the event flow holds: the mailbox, the inbound queue and the
\* executor's queue keep to their limits, and no reference count is ever negative.
THEOREM TypeCorrect == Spec => []TypeOK
<1>1. IInv => TypeOK
  <2> SUFFICES ASSUME IInv PROVE TypeOK
    OBVIOUS
  <2>1. SetTypes /\ NumberTypes /\ FlagTypes
    BY DEF IInv, Types
  <2>2. refs \in [Events -> Nat]
    <3>1. \A e \in Events : refs[e] \in Nat
      BY DEF IInv, Exact, Count, Holds
    <3> QED
      BY <2>1, <3>1 DEF SetTypes
  <2>3. {didWork, workSignal, executorInitialized, executorReady, initialized, starting,
         routed} \subseteq BOOLEAN
    BY <2>1, Zenon DEF FlagTypes
  <2>4. executor \in {"none", "initialized", "started", "stopping"}
        /\ thread \in {"none", "initialized", "running"}
    BY <2>1 DEF FlagTypes
  <2> QED
    BY <2>1, <2>2, <2>3, <2>4 DEF SetTypes, NumberTypes, TypeOK
<1> QED
  BY <1>1, Invariance, PTL

\* An event's reference count is the number of those that hold it, whatever the executor
\* refuses, a shutdown clears, or a stop releases.
THEOREM ReferencesAreExact == Spec => []ReferencesExact
<1>1. IInv => ReferencesExact
  BY DEF IInv, Exact, Count, AtWorker, ReferencesExact
<1> QED
  BY <1>1, Invariance, PTL

\* An event that came in by one transport is never sent out by any.
THEOREM NothingEchoes == Spec => []NoEcho
<1>1. IInv => NoEcho
  BY DEF IInv, OriginKnown, NoEcho
<1> QED
  BY <1>1, Invariance, PTL

\* The one loop that serves both queues never sleeps on a packet or an event.
THEOREM NoWakeupIsLost == Spec => []NoLostWakeup
<1>1. Awake => NoLostWakeup
  BY DEF Awake
<1> QED
  BY <1>1, Invariance, PTL

\* Whatever failed, the flags agree with the executor between the owner's calls.
THEOREM FlagsAgree == Spec => []FlagsFollowExecutor
<1>1. Executor => FlagsFollowExecutor
  BY DEF Executor, FlagsFollowExecutor
<1> QED
  BY <1>1, Invariance, PTL

----------------------------------------------------------------------------
\* One way, once.

\* How much of its way an event has still before it.
Ahead(e) ==
    6 * Holds(e \in atBroker) + 5 * Holds(e \in offered /\ brokerPC = "offer")
        + 4 * Holds(e \in pending) + 3 * Holds(e \in batch) + 2 * Holds(e \in Queued)
        + Holds(AtWorker(e))

\* The step takes no event back, nor anywhere again before it was deleted.
Onward(e) == refs[e] # 0 => Ahead(e)' <= Ahead(e)

LEMMA StaysAhead ==
  ASSUME NEW x, UNCHANGED <<atBroker, offered, pending, batch, queue, sending, workerPC, brokerPC>>
  PROVE  Onward(x)
<1>1. Ahead(x)' = Ahead(x)
  BY DEF Ahead, AtWorker, Queued, Holds
<1>2. Ahead(x) \in Int
  BY DEF Ahead, Holds
<1> QED
  BY <1>1, <1>2 DEF Onward

LEMMA MovesOn == ASSUME IInv, Next, NEW x \in Events PROVE Onward(x)
<1> USE DEF mailbox, loop, broker, events, worker, flags, owner, routes, Elsewhere
<1>0. Types /\ Hands /\ OnePlace /\ Exact
  BY DEF IInv
<1>1. CASE ReceivePacket \/ ArrivalStep
  BY <1>1, StaysAhead DEF ReceivePacket, ArrivalStep
<1>2. ASSUME NEW e \in Locals, Publish(e) PROVE Onward(x)
  BY <1>2 DEF Publish, Onward, Ahead, AtWorker, Queued, Holds
<1>3. CASE BrokerStep
  <2>1. ASSUME NEW e \in Events, LookUpReceiver(e) PROVE Onward(x)
    BY <1>0, <2>1 DEF LookUpReceiver, Onward, Ahead, AtWorker, Queued, Holds, Hands
  <2>2. CASE TryQueueEvent
    BY <1>0, <2>2 DEF TryQueueEvent, Onward, Ahead, AtWorker, Queued, Holds, Hands
  <2>3. CASE Wake
    BY <1>0, <2>3 DEF Wake, Onward, Ahead, AtWorker, Queued, Holds
  <2> QED
    BY <1>3, <2>1, <2>2, <2>3 DEF BrokerStep
<1>4. CASE LoopStep
  <2>1. CASE HasPendingWork \/ EndWait \/ PopInbound \/ BeginSweep \/ EndSweep
    BY <2>1, StaysAhead DEF HasPendingWork, EndWait, PopInbound, BeginSweep, EndSweep
  <2>2. CASE ProcessInbound
    <3>1. CASE atBroker' = atBroker
      BY <2>2, <3>1, StaysAhead DEF ProcessInbound
    <3>2. ASSUME NEW e \in Remotes, refs[e] = 0, atBroker' = atBroker \cup {e} PROVE Onward(x)
      BY <2>2, <3>2 DEF ProcessInbound, Onward, Ahead, AtWorker, Queued, Holds
    <3> QED
      BY <2>2, <3>1, <3>2 DEF ProcessInbound
  <2>3. CASE TakeBatch
    BY <2>3 DEF TakeBatch, Onward, Ahead, AtWorker, Queued, Holds
  <2>4. ASSUME NEW e \in Events, SubmitOutboundEvent(e) PROVE Onward(x)
    BY <2>4 DEF SubmitOutboundEvent, Onward, Ahead, AtWorker, Queued, Holds
  <2>5. CASE Submit
    <3>1. Queued' \subseteq Queued \cup inHand
      <4>1. CASE queue' = queue
        BY <4>1 DEF Queued
      <4>2. ASSUME NEW e \in inHand, queue' = Append(queue, e)
            PROVE  Queued' \subseteq Queued \cup inHand
        <5>1. e \in Events
          BY <1>0, <4>2 DEF Types, SetTypes
        <5> QED
          BY <1>0, <4>2, <5>1, Appending
      <4> QED
        BY <2>5, <4>1, <4>2 DEF Submit
    <3> QED
      BY <1>0, <2>5, <3>1 DEF Submit, Onward, Ahead, AtWorker, Holds, Hands
  <2> QED
    BY <1>4, <2>1, <2>2, <2>3, <2>4, <2>5 DEF LoopStep
<1>5. CASE WorkerStep
  <2>1. CASE TakeWork
    <3>1. Head(queue) \in Queued /\ Queued' = Queued \ {Head(queue)} /\ sending = {}
      BY <1>0, <2>1, Taking DEF TakeWork, Hands
    <3> QED
      BY <2>1, <3>1 DEF TakeWork, Onward, Ahead, AtWorker, Holds
  <2>2. ASSUME NEW e \in Events, CollectTargets(e) \/ SerializeEvent(e) PROVE Onward(x)
    BY <2>2 DEF CollectTargets, SerializeEvent, Onward, Ahead, AtWorker, Queued, Holds
  <2>3. ASSUME NEW t \in Transports, Send(t) PROVE Onward(x)
    BY <2>3 DEF Send, Onward, Ahead, AtWorker, Queued, Holds
  <2> QED
    BY <1>5, <2>1, <2>2, <2>3 DEF WorkerStep
<1>6. CASE BeginStart \/ BeginShutdown
  BY <1>6, StaysAhead DEF BeginStart, BeginShutdown
<1>7. CASE OwnerStep
  <2>1. CASE ExecutorStopped
    <3>1. Queued' = {}
      BY <2>1 DEF ExecutorStopped, Queued
    <3> QED
      BY <2>1, <3>1 DEF ExecutorStopped, Onward, Ahead, AtWorker, Holds
  <2>2. CASE ClearPendingEvents
    BY <2>2 DEF ClearPendingEvents, Onward, Ahead, AtWorker, Queued, Holds
  <2>3. CASE ~ExecutorStopped /\ ~ClearPendingEvents
    BY <1>7, <2>3, StaysAhead
    DEF OwnerStep, InitializeExecutor, InitializeThread, SetInitialized, RegisterReceiver,
        StartExecutor, StartThread, ShutdownLocked, ExecutorNotReady, UnregisterReceiver,
        StopExecutor
  <2> QED
    BY <2>1, <2>2, <2>3
<1>8. ASSUME NEW in \in SUBSET Transports, NEW out \in SUBSET Transports,
             NEW kept \in 0 .. inbound, NEW option \in PendingOutbound,
             Reroute(in, out, kept, option)
      PROVE  Onward(x)
  BY <1>8, StaysAhead DEF Reroute
<1> QED
  BY <1>1, <1>2, <1>3, <1>4, <1>5, <1>6, <1>7, <1>8 DEF Next

\* Between its publication and its deletion an event is at one place at most, and from the
\* broker through the mailbox, a batch and the executor's queue to the worker it only moves
\* on: whatever is refused, stopped, shut down and started again, the transports are not
\* given it twice.
THEOREM EventsPassOnce == Spec => []OnePlace /\ [][\A e \in Events : Onward(e)]_vars
<1>1. IInv => OnePlace
  BY DEF IInv
<1>2. IInv /\ [Next]_vars => [\A e \in Events : Onward(e)]_vars
  BY MovesOn
<1> QED
  BY <1>1, <1>2, Invariance, PTL DEF Spec

=============================================================================
