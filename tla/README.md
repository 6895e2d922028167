# ESPressio-Event in TLA+

Specifications of the concurrent core of ESPressio-Event: the bounded mailbox
every receiver owns, the listener registry, the three kinds of event worker, the
broker with its dispatcher, and the transport manager. TLC checks them on small
instances; the theorems in the `*Proofs` modules and in `EventReceiverRefinement`
are checked by TLAPS for every value of the constants.

    tlc -workers 2 -config MCEventReceiver_overflow.cfg MCEventReceiver
    tlapm EventReceiverProofs.tla

Paths below are relative to `src/src/` unless they say otherwise.

## 1. The system

| Component | State | Operations | Interacts by |
|---|---|---|---|
| **EventReceiver** (`EventReceiver.hpp`) | three priority queues and three stacks, `_pendingEventCount`, `_processingEventCount`, maximum, overflow policy, acceptance flag, `_capacityAvailable` | `Queue/Stack/TryQueue/TryStackEvent`, `WithEvents`, `StopAcceptingEvents`, `ClearPendingEvents`, setters, statistics | references on events; the virtual `EventAdded`; callbacks made unlocked |
| **EventListener** (`EventListener.hpp`) | `_listeners` (records, active flag), `_processingDepth`, `_needsCompaction`, the handles' `_isRegistered` | `RegisterListener`, `Unregister`, `UnregisterAllListeners`, `ProcessEvent` | the virtual `OnListenerRegistered/Unregistered`, called unlocked; callbacks, called unlocked |
| **EventThread**, **EventThreadBase** | `_eventSignal`, `_acceptingEvents` | `OnLoop`, `EventAdded`, `OnEvent`, `StopReceivingEvents`, `Terminate`, destructor | is a mailbox, a registry and a `Thread`; routes through the EventManager |
| **EventThreadWithLoop** | `_processOrder`, `_acceptingEvents` | the same with a custom loop body, no signal | as above |
| **PrecisionEventThread** | arrival and order policy, lifecycle observer | `Iterate`, `OnWorkWake`, `EventAdded` (Bump, WakeForWork) | as above, and observers of its `PrecisionThread` |
| **EventDispatcher** | route records, `_dispatchDepth`, `_needsCompaction` | `RegisterReceiver`, `UnregisterReceiver`, `DispatchEvents` | is a mailbox; Try calls on the receivers, unlocked |
| **EventManager** | signal, observer executor and its two flags | `Initialize`, `Start`, `OnLoop`, `SubmitObserverNotification` | is a dispatcher and a `Thread`; a `TaskExecutor` |
| **EventTransportManager** | registrations by type ID, directions, `_transports`, `_subscriptions`, `_inbound`, outbound executor | registration, subscription, receive, inbound processing, outbound work, `Shutdown` | the EventManager; transports; observers |
| **Event** (`Event.hpp`) | reference count, dispatch time and context | `__ref`, `__unref`, `__dispatch` | shared by all of the above |
| **Bridges, observables, type descriptors, payload types** | none of their own | construct and queue events | the EventManager |

An application thread calls `event->Queue()`. The EventManager's mailbox admits
the event; its worker takes it, looks each receiver with a route for the event's
type up, and makes a Try call on it; the receiver's `EventAdded` wakes its
worker, which delivers to its listeners. Remote transports enter and leave
through the EventTransportManager, itself a receiver: packets go through its
inbound queue to the broker, local events through its mailbox and a bounded
executor to the transports.

### What is hard

* Every mutex is released before anything foreign is called: callbacks,
  releasing references, waiting for capacity, route calls, Try calls, sends. Each
  such point is one where another thread can change what was just decided.
* Counters and references are kept by hand along many exits (refusal, eviction,
  failed insertion, throwing callback, clear, executor that refuses or stops).
* A stop is several separately locked stages, and can come from the owner, an
  exception in the worker, or the destructor; a start can fail half-way.
* Three wake-up protocols: producers wait on a shared binary signal with a 10 ms
  recheck, an event worker waits for ever on a signal created by its first loop,
  and the transport's coordinator looks at two queues before it waits for either.
* Deferred compaction of two registries under nested and concurrent traversal.

The list with source lines and the properties aimed at each is under `hazards`
in `PROJECT.json`; what no property covers says so there.

### What makes each component correct

* **EventReceiver**: counters are exact; every reference has one holder; every
  admitted event has exactly one fate; order within and across collections; the
  maximum; stops that admit nobody new; a waiting producer is let go after a stop, and
  otherwise gets its turn once nobody else takes the room any more.
* **EventListener**: a handle agrees with the registry; a delivery reaches every
  listener that was there and stays, once, and none that came later; inactive
  records go; routes follow the listeners.
* **The workers**: no lost wake-up; nothing left or admitted after a stop; every
  admitted event settles; nobody calls a destroyed thread.
* **EventDispatcher**: as the registry, over receivers; a full receiver never
  holds the broker up, and one that throws ends the fan-out with its depth given back.
* **EventManager**: observer work keeps its event alive; start and stop of the
  executor agree with its flags.
* **EventTransportManager**: the broker's routes follow the registered outbound
  directions; remote events are not echoed; the inbound queue is bounded; neither
  direction starves the other; every event handed to the executor is given back.

## 2. The modules

    Mailbox    <--implemented by--  EventReceiver
    Multicast  <--implemented by--  EventListener, EventManager

    Mailbox
       ^ promise relied on by
    EventThread   EventManager   EventTransportManager    Compaction
                      |               |                       ^
                  (routes)     EventTransportRouting     EventListener, EventManager

A section under a mutex is one action, and what the code does after it has
unlocked is another, in all of them.

### Mailbox and EventReceiver

`EventReceiver` is the mailbox with any number of callers, one owner that sweeps,
and a controlling thread.

| Actions | Code |
|---|---|
| `Offer`, `Reject`, `Block`, `Awake`, `Admit`, `FailToAdmit`, `ReturnRefused`, `ReturnAdmitted` | `AddEvent` from `__ref` to the return: tests before and in the loop, wait and recheck, the four overflow policies, a throwing `push_back` |
| `BeginSweep`, `NextSlot` in `SkipCollection` and `FinishCollection`, `TakeCollection`, `BeginCallback`, `EndCallback`, `ThrowFromCallback` | `WithEvents` and `ProcessCollection` with its two guards |
| `StopAcceptingEvents`, `ClearPendingEvents`, `ReleaseCleared`, the setters, `ResetEventQueueStatistics` | the functions of these names |

The six vectors are a set of entries `[event, priority, method, sequence]`: the
vectors are sorted by sequence number, so front and back are the smallest and the
largest of a class. `sweepMark`, `handled` and `lost` are history variables that
no action reads. Three reductions: the numbers do not saturate (the code's do,
after 2^64 - 1 admissions), `Give` of the capacity signal is joined to the
section before it (every `Wait` on it times out anyway), and the policy that
shrinks vectors is left out. The worker may be a caller, from inside a callback.

`Mailbox` is the abstract specification: one bounded set of numbered admissions,
each handled once or given up, evicted only from a full set, and a sweep that
leaves nothing of what it found unless a callback throws. `EventReceiver`
instantiates it (`M == INSTANCE Mailbox WITH ...`: entries by their numbers, `due`
by the numbers below `sweepMark`), and `ImplementsMailbox` is checked in `overflow`
and proved. The modules below model the mailboxes of their classes by this promise: an
offer to a full one is refused, or evicts any one entry, as its policy has it.

### Compaction and EventListener

`Compaction` gives the erase of inactive records by counting (the n-th record kept
is the n-th active one), which can be reasoned about; an `ASSUME` of
`MCEventListener` compares it with the walk over the records for all sequences of
up to four.

`EventListener` is the registry, its handles, and the routes it asks the dispatcher
for. An actor inside a callback may start any operation, so nested registration,
tear-down and unregistration of oneself are behaviours; a delivery nested in a
callback behaves as one of the other actor that begins and ends meanwhile. Interest
predicates decide either way. `op` holds the route calls an actor still owes the
dispatcher; `routes` is the dispatcher's set of types for this receiver. A route
call may fail (`FailToRoute`), which destroys the handle that was about to be
returned and so unregisters its listener again. History: `disturbed` collects the
types for which two route calls were under way at once, or one failed; `present` and
`visited` record what a delivery met.

### Multicast

The registry of listeners and the broker's dispatcher are two pieces of code that make
one promise, and `Multicast` states it: members of topics come and go; a courier's
event is `due` to the members of its topic when the delivery begins, is taken to one at
a time, and is not due any more to a member that leaves; it ends with nobody due, or by
a member that throws. A member that comes, or comes back, meanwhile waits for the next
event. Indices, compaction and depth are not seen.

Both modules instantiate it and have `ImplementsMulticast`. For `EventListener` members
are registered listeners and couriers the threads that deliver; for `EventManager`
members are pairs of type and receiver with an active record, and the broker's thread is
the one courier. Due are the members that were there when the walk began, have not left since
and have not been looked up yet; a look that passes a record over stutters.

### EventThread

One module for the three classes of worker, told apart by `kind`:

| Kind | Its part |
|---|---|
| `EventThread` | the loop line by line (`ensure`, `look`, `wait` or `poll`, sweep), with the signal its first loop creates |
| `EventThreadWithLoop` | the body between two sweeps, with `_processOrder` read twice, unsynchronised, and changed by `SetPolicy` at any time |
| `PrecisionEventThread` | `Iterate`, `OnWorkWake`, the three arrival policies in `EventAdded`, the lifecycle observer |

Common to them are `StopReceivingEvents` stage by stage for owner and worker, the
destructor, a client of the registry, and the broker between looking a receiver up,
its Try call, and `EventAdded`. The Try call may evict, which settles the victim
(`Evictions`). The registry is one listener with its route. The
bases `Thread` and `PrecisionThread` are not in the repository: the loop is run
until terminated, and `Shutdown` returns once the worker has ended, whatever it was
waiting for (`external` in the map). The step from a destroyed receiver is undefined
behaviour in the code; the broker takes none there.

### EventManager

The broker: the dispatcher's records with depth and deferred compaction
(`RegisterReceiver`, `UnregisterReceiver`, `Compacted`), the fan-out record by
record with its Try calls outside the lock (`BeginDispatch`, `LookUpReceiver`,
`TryOffer`, `OfferThrows`, `FinishDispatch`), the observer executor (`WantsObservation`,
`Submit`, `TakeWork`, `ProcessObserverWork`), `OnLoop`, and `Initialize` and `Start` with each
failure (`BeginStart` to `StopExecutor`). Receivers are bounded mailboxes that nobody has
to empty. A full one refuses, or evicts an event it holds (`Exchange`, `Evictions`); one
whose insertion throws (`OfferThrows`) ends the dispatch by its `catch (...)`, which gives
the depth back and rethrows. The exception then ends `OnLoop`: the guard of the batch
releases what the sweep still held, and the loop's thread is at its end (`EndThread`),
since what the external `Thread` does with an exception is not known. Observers come and
go at any time and only `WantsObservation` asks for them, so it gets either answer. What the mailbox
still held stays there. The `TaskExecutor` is external: a bounded queue, one worker, a `Stop`
that joins it and releases what is queued. `offers`, `present` and `stayed` are
history.

### EventTransportRouting and EventTransportManager

The transport manager is two modules, since the registry of types and the flow of
events meet in few places.

* `EventTransportRouting`: registration of types for all transports or for one,
  overrides, unregistration one by one and in bulk, `RefreshOutboundSubscription`
  (decided under the lock), `SetOutboundSubscription` (the list under the lock, the
  broker's route after it), transports that come and go, `Initialize` and `Shutdown`
  as they bear on routes. A direction may be None: such a call makes or empties a record
  and subscribes nobody. `Initialize` tests its flag unlocked, and `InitializeLocked` is
  the section in which it tests it again and sets it. `job` says what a call has still to
  do and what it is `about`; `disturbed` collects the types and transports that two
  calls were about at once.
* `EventTransportManager`: packets through the bounded inbound queue to the broker,
  events through the mailbox and the executor to the targets, serialization failures
  and sends, the one loop that serves both, `Initialize`, `Start` and `Shutdown` with
  each failure. One event type, whose routes any other thread may change: `Reroute`
  stands for every section of the registry that changes them. An exception out of
  `ProcessInbound`, of the deserializer or of the broker's Try call, ends the loop. An
  event stands for one publication: it is published anew only once nobody holds it
  (the code allows the same live event to be published again, which differs in its
  reference count alone).

## 3. The runs

| Run | Instance | Shows |
|---|---|---|
| `overflow` | 2 producers, 2 events, 3 offers, maximum 2, a policy that blocks or evicts and may change, failing insertions, throwing callbacks, statistics that are reset | counts, references, one fate, FIFO/LIFO, sweep order, and that every step is one of `Mailbox` |
| `owner` | 2 producers that may wait for the same room, callbacks that offer to their own mailbox, maximum 1 raised to 2, blocking or rejecting, stop, clear | the maximum, who gets in after a stop; stopped waiters are let go, waiting producers return once others stop getting in, pending events settle |
| `stop_race` | a blocked producer, stop and clear | **violation**: admission after the stop |
| `priority` | stacked Low, queued High | **violation**: Low is delivered first |
| `registry` | 2 threads that deliver and register, 3 listeners of 2 types, 2 events, tear-down, failing route calls | handles, deliveries, compaction, routes, and that every step is one of `Multicast` |
| `route_race` | 2 threads, 2 listeners of one type | **violation**: a listener without a route |
| `wakeup` | the three kinds of worker, each order and arrival policy, 2 events, capacity 1, one registration, one change of a setting, failures | no lost wake-up, a stop leaves nothing, everything settles |
| `dangling` | an EventThread, 3 events, 2 registrations | **violation**: a route or a call to a destroyed thread |
| `broker` | 2 receivers with room for one event, 2 events of one type, 3 changes of routes, executor queue of 1, 2 calls of the owner that may fail, observers that may be there or not, receivers that refuse, evict or throw | every receiver once, compaction, references, flags, that every step is one of `Multicast`, and that the broker is done with every event although no receiver need take one, unless an exception has ended its loop |
| `routes` | 2 callers, 2 types, 1 transport, 4 calls | routes follow directions, receivers follow transports, nothing queued of a transport that is gone |
| `flow` | packets without end, one local event published over and over, queues of 1, 2 calls of the owner that may fail, one change of routes, exceptions from inbound packets | references, no echo, no lost wake-up, flags, neither direction starves while the loop lasts |
| `pending_outbound` | the same without failures, 2 changes of routes | **violation**: an event queued before an unregistration that asks for completion is dropped |

Why these bounds are enough to be interesting: a maximum of 1 or 2 with three
offers is overflowed, evicted from, and waited on, and two producers retry at
once; an event offered by two threads has more than one holder; three
registrations of two types let one type lose its last listener while the other
keeps one; with two events, two deliveries hold compaction up together; three
changes of routes are enough to take a receiver away and bring it back during a
fan-out, before and behind the position the walk has reached; four calls of two
callers are a registration and an initialization, and two more that overlap. Every
capacity of one is reached and refused at. What a larger instance could add is
covered, for the safety properties, by the theorems, which hold for any sets and
bounds (the `broker` run has one type, `routes` one transport and no type that can be
constructed at run time, whose record stays: their theorems have any of them). So are the
combinations that `overflow` and `owner` leave to one another, which together are too many
states for one run: a clear while a sweep holds a batch, and failing insertions and
evictions before and after it (`ReferencesAreExact`, `EveryAdmissionHasOneFate`,
`CountersAreExact`), and a maximum that shrinks under several callers that retry
(`MaximumIsRespected`). The two runs have the four overflow policies between them.

The larger runs have 10^5 to 10^6 distinct states and take from one to four minutes with
two workers. Symmetry is used for two listeners of one type, and for the callers and the
types of `routes`, in runs without temporal liveness. `CHECK_DEADLOCK FALSE` is set where the system really ends (calls, events
and changes are bounded), and in the runs that look for one violation.

### Fairness

* `EventReceiver`, `CallerFairness`: weak, per thread inside `AddEvent`. The operating
  system schedules it, and its wait ends by the 10 ms timeout without anybody's
  help (`CapacityWaitRecheckMilliseconds`). Weak fairness is enough for a wait
  that is re-entered, since each of its steps stays enabled until taken.
  Nothing is assumed of the owner: `StopReleasesWaiters` holds with a stalled
  one. `WaitersReturn` and `PendingEventsSettle` carry `WorkerRuns` as a
  hypothesis: the owner's thread loops and its callbacks end. `WaitersReturn` has
  `AdmissionsEnd` besides: from some time on nobody is admitted. The code promises no
  more, since a producer that is woken, or rechecks after 10 ms, competes with callers
  that have not waited at all and may find the room taken every time. In the run the bound
  on offers is what ends them, so that the hypothesis always holds there. What
  the run does show is that two waiters on one binary signal, of whom one takes it, both
  come to their end, whatever happened before.
* `EventThread`, `Fairness`: the worker, a stop that has begun, the worker's own stop
  after an exception, the stop of a destructor that runs, a Bump or a WakeForWork that
  was given, and `EventAdded` after an admission are each one thread that is
  scheduled. Nobody is made to stop, terminate, register or send, and iterations of a
  `PrecisionEventThread` that nothing asks for are assumed only by `EventsSettle`, as
  its hypothesis, for the policy that relies on them.
* `EventManager`, `Fairness`: the broker's thread, and a publisher that owes it a
  signal. Nothing is assumed of receivers, observers, or the executor's worker.
  `EventsSettle` excepts a loop that an exception of a receiver has ended.
* `EventTransportManager`, `Fairness`: the coordinator's thread, and the two that owe
  it a signal (`ArrivalStep`, `Wake`). Nothing is assumed of transports, of the
  executor or of the broker. Weak fairness of the loop is one thread being scheduled:
  that it serves both directions is the loop's own doing, and `NeitherDirectionStarves`
  excepts a loop that an exception has ended.

### Findings

1. **A stopped mailbox admits** (`stop_race`). `AddEvent` tests acceptance inside
   the overflow loop; a producer whose wait ends after stop *and* clear finds the
   loop condition false and is admitted. The event is never processed, and is
   released only by the destructor's clear. `StopAdmitsOnlyWaiters` delimits it:
   only blocking calls already past their first test can get in. Proved besides: a
   stop that finds no caller waiting is final (`StopWithoutWaitersIsFinal`), and so is
   every stop of a mailbox that Try calls alone offer to, as the broker's do
   (`TryCallsRespectStop`).
2. **Priority is second to method** (`priority`). All stacks drain before all
   queues, against "higher priorities drain first". With one of the two methods alone
   that is what happens (`PriorityWithinAMethod`).
3. **Routes can be lost** (`route_race`). The registry decides under its lock and
   calls the dispatcher after it. One thread removes the last listener, another
   registers a new one, and the calls arrive in the other order.
   `RoutesFollowListeners` is the guarantee that remains: types whose route calls
   never overlapped, nor failed, are right. (A route call that fails leaves the
   listeners of its type that were registered meanwhile without a route, too.)
   The overlap is all it takes, and nothing else does it: without it, no route is lost
   and none left behind (`RoutesAreRightApart` of `EventListenerProofs`).
4. **A destroyed thread can still be routed to** (`dangling`). A listener
   registered after `Terminate` adds a route; the destructor's stop returns at
   once, and `~EventListener` reaches only the empty base `OnListenerUnregistered`.
   Independently, the broker uses a receiver pointer after it has unlocked. A client
   whose registration calls end before any stop begins, and who makes none after,
   leaves no route behind (`NoRouteToDestroyed`); the second half is beyond a client.
5. **`PendingOutbound = Complete` is not read** (`pending_outbound`). An event in the
   mailbox or the executor when its type is unregistered finds no target and is
   dropped, whatever the options ask for.

Seen while reading, and part of the models' behaviours, but no contradiction of a
stated claim:

* The transport manager has the race of finding 3 as well, between two calls about one
  type and between `Initialize` or `Shutdown` and a subscription; `disturbed` in
  `RoutesFollowDirections` marks it. Without such an overlap subscriptions, routes and
  receivers are right (`RoutesAreRightApart` of `EventTransportRoutingProofs`).
* When `Thread::Start` fails in the transport manager's `Start`, `_initialized` stays
  true while the executor is taken back, so that a later `Start` finds nothing to
  initialize and fails until `Shutdown`.
* `Shutdown` does not end the manager's thread, and clears its mailbox without having
  stopped it: an event in the broker's hands may be admitted after.
* `UnregisterTransport` does not wait for a send in progress, and leaves records that
  have no direction any more.
* The transaction stages `OutboundAccepted`, `InboundAccepted` and
  `InboundDeserialized` are declared and never emitted.
* `EventThreadWithLoop::OnLoop` reads `_processOrder` twice, so a change in between
  drains twice or not at all in that round; `EventsSettle` holds all the same.
* An exception in the loop of the broker or of the transport manager leaves their mailboxes
  accepting: neither has the stop that an event worker makes on its way out.
* The properties of finding 3's kind (`RoutesFollowListeners`, `RoutesFollowDirections`,
  `ReceiversFollowTransports`) except the overlaps and failed route calls in which the code
  does go wrong. They say that nothing else does; they do not catch those.

## 4. The proofs

All theorems are about `Spec`, without fairness, and assume only the named assumptions
of the modules (finite sets, natural bounds, arguments of their types). Each follows from an
inductive invariant: the properties themselves are not inductive.

Seven theorems have a hypothesis of their own. It says what callers have to do, or which
instance is meant, for a promise that the code does not keep in general, and so where a
finding ends:

| Hypothesis | Meaning | Theorem |
|---|---|---|
| `[][StopsWithoutWaiters]_vars` | no stop while a caller waits for capacity | `StopWithoutWaitersIsFinal` |
| no `blocking` offer in `OfferedAs` | Try calls only | `TryCallsRespectStop` |
| one method in `OfferedAs` | only queued to, or only stacked to | `PriorityWithinAMethod` |
| `[]RouteCallsApart`, `~MayFail` | no two route calls for one type at once, none fails | `RoutesAreRightApart` (listeners) |
| `[]CallsApart` | no two calls about one type or transport at once | `RoutesAreRightApart` (transports) |
| `[]ClientsKeepAway` | no registration call during or after a stop | `NoRouteToDestroyed` |
| `[]EveryArrivalTold` | arrival policies that act at once | `ArrivalsAreTold` (EventThread) |

A single caller satisfies those about overlap. None of them takes an operation away,
but for blocking offers (the second), offers by the other method (the third), route
calls that fail (the fourth) and one arrival policy (the last).

**EventReceiverProofs.**

    IInv   == TypeOK /\ FiniteParts /\ CallStructure /\ SweepStructure
              /\ CountsExact /\ SequenceOrder /\ SweepOrder
    RefInv == IInv /\ HoldersApart /\ ReferencesExact

That a batch's guard holds nothing between collections is `SweepStructure`, and
cardinalities need `FiniteParts`. Order needs `SequenceOrder` (numbers are unique, below
`nextSequence`, and a batch is older than what its collection holds now) and
`SweepOrder` (what the sweep found lies in collections still to be visited).
`CallStructure` says that only blocking calls wait. References are counted: holders are
disjoint (`HoldersApart`), so moving entries between them changes no sum.

`OfferedKnown` (everything in the mailbox, the batch and the callers' hands was offered
as `OfferedAs` allows) carries the theorems about one kind of offer: with one method the
sweep's order is the order of priorities. `NobodyWaits` (once stopped, no caller is past
its first test) is kept by every step unless a stop breaks it, and with it a stopped
mailbox only shrinks.

**EventReceiverRefinement.** `FateInv == IInv /\ BatchInHand /\ OneFate` gives one fate
to every number. The refinement then maps every step: entries to their numbers (as
many, since numbers are distinct), what the sweep owes to the numbers below
`sweepMark` that are pending. `Admit` is a Mailbox admission with the victims of the
policy, `TakeCollection` a `Take` of part of what is due, `SkipCollection` a stutter,
or `EndSweep` from the last slot, and the callers' waiting stutters throughout.

**EventThreadProofs.** `IInv == Types /\ Bounded /\ SignalBeforeWait /\ NoLostWakeup /\
OneStop /\ Stopped`. Past `EnsureEventSignal` there is a signal, which makes
`NoLostWakeup` inductive: whoever admits finds it, or is followed by a look. `OneStop`:
the exchange lets one caller through the stages, and past the first the mailbox
accepts nothing, so that `Stopped` survives the broker's Try calls. An eviction leaves
room for what it admits (`EvictionLeavesRoom`), which keeps `Bounded`. `Answered` follows a
PrecisionEventThread through its iteration: what nobody tells of is taken by the sweep
that runs, or by the one that the iteration still makes. `RouteOwed` and `EndOfLife` say
that a route without a listener is about to be taken back by somebody, that no listener
survives a stop, and that stops have come to their end before a thread is destroyed.

**CompactionProofs.** The rank of an active record (how many are active up to it) grows
with its position, so the n-th active record exists and is unique. `CompactKeepsActive`
says what the registries need: the result holds active records only, every one of
them, once, and in their order (a later place in the result is a later place in what
was compacted).

**EventListenerProofs.** `IInv == Registry /\ Deliveries /\ Calls /\ Routed` and a bound.
`Registry`: records have distinct handles, those active are those registered, and
inactive ones imply `needsCompaction`. `Deliveries`: while a delivery is under way
records only grow and go inactive, so what lies before its index was visited, or was
not to be, and its first `count` records are those that were there. `Calls`: what an
actor owes the dispatcher. `Routed`: an undisturbed type has one call at most, and
that call says what its route will be. `Undisturbed` is inductive while route calls stay
apart, so that `Routed` holds of every type.

`RegistryImplementsMulticast` needs `IInv` only: an index that moves over an inactive
record takes nobody from what is due, one that moves over an active one takes exactly
its listener (handles are distinct), an unregistration takes it away from every
delivery, and compaction, which waits for the last delivery, finds nothing due.

**EventManagerProofs.** `IInv == Records /\ Fanout /\ Owner /\ Hands /\ Exact /\ Bounded
/\ Scalars`. `Records` is the registry's argument with pairs of type and receiver.
`Fanout` holds the walk: the first `receiverCount` records never move while it lasts,
no two are of one pair, an offered receiver's record lies before the index, and a
receiver that stayed has an active record which, once passed, was offered. `Hands`
keeps the places of an event apart, from which `Exact` counts references, also when a
receiver exchanges one event for another and when an exception releases a batch. `Owner` says
what the flags are at each step of Initialize and Start.

`BrokerImplementsMulticast` needs more, `KInv == IInv /\ Kept`: `Kept` says that an
active record among those the walk goes through is one of a receiver that stayed, since
one that comes back gets a new record behind them; without it the walk could offer to
somebody who is not due. `ArrivalsAreTold` is the
safety half of `EventsSettle`: the loop sleeps on a pending event only with the signal
given, or about to be. `DeletedStaysDeleted` follows from `Exact`: whoever adds a holder
is one already.

**EventTransportManagerProofs.** An event has one place at most on its way from the
broker to the worker (`OnePlace`), each with its reference (`Exact`). `OriginKnown`: what
came in is marked remote wherever it is. `Executor` says what the flags mean at each
step of the owner, `Awake` that a loop which has looked at the mailbox is told of what
came after. `EventsPassOnce` takes a measure, `Ahead`, of the places an event has still
before it: while the event lives, no step of anybody raises it.

**EventTransportRoutingProofs.** `Solo`: a thing that is not disturbed has one call
about it at most. `RouteInv`: that call still owes whatever is not right (`Owed`), and
what no call is about is right. Each step either pays a debt or passes it on. `DataInv`
types the records and packets, whose routes are maps from some of the transports.

| Module | Theorem | Property |
|---|---|---|
| EventReceiverProofs | `TypeCorrect` | `TypeOK` |
| | `CountersAreExact` | `CountsExact` |
| | `DeliveryInOrder` | `DeliveryOrder` |
| | `SweepInOrder` | `SweepDrainsInOrder` |
| | `SweepIsComplete` | `SweepLeavesNothing` |
| | `OnlyWaitersAfterStop` | `StopAdmitsOnlyWaiters` |
| | `MaximumIsRespected` | `AdmissionRespectsMaximum` |
| | `ReferencesAreExact` | `ReferencesExact` |
| | `PriorityWithinAMethod` | (`HigherPriorityFirst`, one method) |
| | `StopWithoutWaitersIsFinal`, `TryCallsRespectStop` | (`NoAdmissionAfterStop`, nobody waiting) |
| EventReceiverRefinement | `EveryAdmissionHasOneFate` | `OneFate` |
| | `ReceiverImplementsMailbox` | `ImplementsMailbox` |
| EventThreadProofs | `TypeCorrect` | `TypeOK` |
| | `NoWakeupIsLost` | `NoLostWakeup` |
| | `StopLeavesNothing` | `StoppedStaysEmpty` |
| | `ArrivalsAreTold` | (safety core of `EventsSettle`, PrecisionEventThread) |
| | `NoRouteToDestroyed` | (half of `NoDanglingReceiver`) |
| CompactionProofs | `CompactKeepsActive` | |
| EventListenerProofs | `TypeCorrect` | `TypeOK` |
| | `HandlesAreRight` | `HandlesAgree` |
| | `DeliveriesAreApart` | `NoLateNoTwice` |
| | `DeliveriesAreComplete` | `NoneSkipped` |
| | `CompactionIsDone` | `NothingLingers` |
| | `RoutesAreRight` | `RoutesFollowListeners` |
| | `RoutesAreRightApart` | (`NoRouteLost`, no overlap) |
| | `RegistryImplementsMulticast` | `ImplementsMulticast` |
| EventManagerProofs | `TypeCorrect` | `TypeOK` |
| | `RecordsAreExact` | `RecordsExact` |
| | `EachReceiverOnce` | `EveryReceiverOnce` |
| | `ReferencesAreExact` | `ReferencesExact` |
| | `FlagsAgree` | `FlagsFollowExecutor` |
| | `BrokerImplementsMulticast` | `ImplementsMulticast` |
| | `ArrivalsAreTold` | (safety core of `EventsSettle`) |
| | `DeletedStaysDeleted` | |
| EventTransportManagerProofs | `TypeCorrect` | `TypeOK` |
| | `ReferencesAreExact` | `ReferencesExact` |
| | `NothingEchoes` | `NoEcho` |
| | `NoWakeupIsLost` | `NoLostWakeup` |
| | `FlagsAgree` | `FlagsFollowExecutor` |
| | `EventsPassOnce` | |
| EventTransportRoutingProofs | `TypeCorrect` | `TypeOK` |
| | `RoutesAreRight` | `RoutesFollowDirections` |
| | `RoutesAreRightApart` | |
| | `ReceiversAreRight` | `ReceiversFollowTransports` |
| | `QueuedAreFromRegistered` | `QueuedFromRegistered` |

Names in parentheses are properties that the theorem states under a hypothesis, or in
part. Every invariant and every action property of the passing runs is proved.

Only model-checked: the liveness properties `StopReleasesWaiters`, `WaitersReturn`,
`PendingEventsSettle`, `EventsSettle` and `NeitherDirectionStarves` (fairness and ENABLED
are beyond the prover; the safety they rest on is proved where the tables say so). That `Compact` is what a walk over
the records selects is checked for short sequences only: a fold over a sequence can be
proved about by induction alone.

## 5. Not modelled

* **Bridges, payload types, type keys and descriptors**: they construct and queue
  events, or describe them; no steps interleave on a state of theirs.
* **Observables**: that observers come and go, and that a notification keeps its event
  alive, is part of `EventManager`; the transport manager's notifications carry data only.
* Of **EventReceiver**: the storage policy that shrinks vectors (no content changes),
  saturation of sequence numbers, a callback that blocks on its own mailbox.
* Of **EventListener**: a callback that runs on after `Unregister` has returned in another
  thread (it does: the callback is copied, and shared ownership keeps it alive), and the
  unsynchronised read of a handle's registry pointer by two threads that share a handle.
* Of **EventDispatcher**: `ClearEventReceivers`, which its destructor calls.
* Of **Event**: the spin flag that guards the dispatch time and context.
* Of **EventTransportManager**: envelopes, statistics, transactions and observers; what
  an envelope holds is its type and its transport. A broker that evicts a packet's event
  is left to `EventManager` and the mailbox.
* The bases `Thread`, `PrecisionThread` and `TaskExecutor`, the clock, and the transports
  are outside the repository, or interfaces; their parts in the models are marked external.

## 6. What could come next

1. `EventThread`, `EventManager` and `EventTransportManager` joined in one composition
   over `Mailbox` and `Multicast`, now that the code is shown to implement both.
2. Several types in the `broker` run and several transports in `routes`, which need
   reductions to stay within minutes.
3. The transport manager's registry and flow in one module, for properties that need both
   (a subscription, and the event it lets through).
