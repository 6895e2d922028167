--------------------------- MODULE EventListener ---------------------------
(***************************************************************************)
(* The listener registry of src/src/ESPressio_EventListener.hpp and the    *)
(* routes it asks the EventDispatcher for.                                 *)
(*                                                                         *)
(* Actors register listeners, unregister them through their handles, tear  *)
(* all of them down, and deliver events (ProcessEvent).  The recursive     *)
(* mutex is never held across application code, so a callback may do any   *)
(* of that too; an actor that is inside a callback starts an operation as  *)
(* any other, and a delivery nested in a callback behaves as another       *)
(* actor's that begins and ends meanwhile.  A section under                *)
(* _listenersMutex is one action, and so is each call of                   *)
(* OnListenerRegistered and OnListenerUnregistered, which the code makes   *)
(* after it has unlocked.                                                  *)
(*                                                                         *)
(* A registration is named by its handle.  RegisterReceiver ignores a      *)
(* route that is there and UnregisterReceiver one that is not, so for one  *)
(* receiver the active records of the dispatcher are a set of types.       *)
(***************************************************************************)
EXTENDS Integers, Sequences, FiniteSets, SequencesExt, Functions, Compaction

CONSTANTS
    Actors,       \* threads that use the registry
    Processors,   \* those that deliver events
    Handles,      \* the registrations that are made
    Types,        \* event types
    TypeOf,       \* the type each registration is for
    MaxEvents,    \* bound on the number of events delivered
    MayTearDown,  \* UnregisterAllListeners is called at some point
    MayFail,      \* the dispatcher may run out of memory for a route
    None          \* no registration, no type

ASSUME ActorsAssumption == IsFiniteSet(Actors) /\ Processors \subseteq Actors
ASSUME TypeOfAssumption == TypeOf \in [Handles -> Types]
ASSUME BoundsAssumption == MaxEvents \in Nat /\ {MayTearDown, MayFail} \subseteq BOOLEAN
ASSUME NoneAssumption == None \notin Handles \cup Types

VARIABLES
    listeners,        \* the records: [handle, active], oldest first
    processingDepth,
    needsCompaction,
    handleState,      \* "unused", "registered" or "unregistered" (_isRegistered)
    routes,           \* the types the dispatcher routes to this receiver
    op,               \* what each actor's registration call has still to do
    delivery,         \* where each processor is in ProcessEvent
    events,           \* number of events delivered so far
    disturbed         \* history: types whose route calls disturbed, or failed

registry == <<listeners, processingDepth, needsCompaction, handleState>>
vars == <<registry, routes, op, delivery, events, disturbed>>

----------------------------------------------------------------------------
ActiveHandles == {r.handle : r \in {x \in ToSet(listeners) : x.active}}

\* Mutant of HasActive: records that wait for compaction count as well.
HasRecord(s, t) == \E r \in ToSet(s) : TypeOf[r.handle] = t

\* HasActiveListenerLocked: some active record of s is for type t.
HasActive(s, t) == \E r \in ToSet(s) : r.active /\ TypeOf[r.handle] = t

\* A registration call between its section and the route calls it owes the
\* dispatcher: pc is "idle", "register", "unregister" or "rollback" (a handle is
\* about to take the mutex), or "unroute".
Idle == [pc |-> "idle", types |-> {}, handle |-> None]

\* ProcessEvent: "loop" before a record is looked up, "interest" and "callback"
\* outside the mutex with a copy of the callback, "unwind" when it has thrown.
NotDelivering == [pc |-> "idle", type |-> None, index |-> 0, count |-> 0, handle |-> None,
                  present |-> {}, visited |-> <<>>]

Init ==
    /\ listeners = <<>>
    /\ processingDepth = 0
    /\ needsCompaction = FALSE
    /\ handleState = [h \in Handles |-> "unused"]
    /\ routes = {}
    /\ op = [a \in Actors |-> Idle]
    /\ delivery = [a \in Processors |-> NotDelivering]
    /\ events = 0
    /\ disturbed = {}

\* An actor starts an operation outside ProcessEvent, or in the application code
\* (callback or custom interest) that ProcessEvent runs.
MayStart(a) ==
    /\ op[a].pc = "idle"
    /\ a \in Processors => delivery[a].pc \in {"idle", "interest", "callback"}

\* The types whose route is about to change in the dispatcher.
InFlight == UNION {op[a].types : a \in Actors}

\* Every actor that owes the dispatcher a call for a type of T overlaps with it.
Overlap(T) == disturbed' = disturbed \cup (InFlight \cap T)

----------------------------------------------------------------------------
\* Mutant of Compacted: the deferral is forgotten.
CompactedAlways(s) == Compact(s)

\* CompactLocked, put off while events are being delivered.
Compacted(s) == IF processingDepth > 0 THEN s ELSE Compact(s)

\* RegisterTypedListenerErased, the locked section.
RegisterListener(a, h) ==
    /\ MayStart(a)
    /\ handleState[h] = "unused"
    /\ handleState' = [handleState EXCEPT ![h] = "registered"]
    /\ listeners' = Append(listeners, [handle |-> h, active |-> TRUE])
    /\ IF HasActive(listeners, TypeOf[h])
       THEN UNCHANGED <<op, disturbed>>
       ELSE /\ op' = [op EXCEPT ![a] = [pc |-> "register", types |-> {TypeOf[h]}, handle |-> h]]
            /\ Overlap({TypeOf[h]})
    /\ UNCHANGED <<processingDepth, needsCompaction, routes, delivery, events>>

\* OnListenerRegistered: the dispatcher's RegisterReceiver.
OnListenerRegistered(a) ==
    /\ op[a].pc = "register"
    /\ routes' = routes \cup op[a].types
    /\ op' = [op EXCEPT ![a] = Idle]
    /\ UNCHANGED <<registry, delivery, events, disturbed>>

\* RegisterReceiver throws, and the handle that nobody was given yet is destroyed.
FailToRoute(a) ==
    /\ MayFail
    /\ op[a].pc = "register"
    /\ op[a].types \cap routes = {}
    /\ disturbed' = disturbed \cup op[a].types
    /\ op' = [op EXCEPT ![a] = [pc |-> "rollback", types |-> {}, handle |-> op[a].handle]]
    /\ UNCHANGED <<registry, routes, delivery, events>>

\* The caller has its handle only when RegisterListener has returned.
Owned(h) ==
    /\ handleState[h] # "unused"
    /\ \A a \in Actors : op[a].handle = h => op[a].pc = "unregister"

\* IEventListenerHandle::Unregister, or the handle's destructor, finds the handle
\* registered.
BeginUnregister(a, h) ==
    /\ MayStart(a)
    /\ Owned(h)
    /\ handleState[h] = "registered"
    /\ op' = [op EXCEPT ![a] = [pc |-> "unregister", types |-> {}, handle |-> h]]
    /\ UNCHANGED <<registry, routes, delivery, events, disturbed>>

\* Mutant of Deactivate: the search compares event types and not handles.
DeactivateByType(S) ==
    [i \in DOMAIN listeners |->
        [listeners[i] EXCEPT !.active = @ /\ \A h \in S : TypeOf[h] # TypeOf[listeners[i].handle]]]

\* The records of the handles in S are made inactive.
Deactivate(S) ==
    [i \in DOMAIN listeners |->
        IF listeners[i].handle \in S THEN [listeners[i] EXCEPT !.active = FALSE] ELSE listeners[i]]

\* UnregisterListener, the locked section, when the record is still active.
UnregisterListener(a) ==
    LET h == op[a].handle
        last == ~HasActive(Deactivate({h}), TypeOf[h])
    IN  /\ op[a].pc \in {"unregister", "rollback"}
        /\ h \in ActiveHandles
        /\ handleState' = [handleState EXCEPT ![h] = "unregistered"]
        /\ listeners' = Compacted(Deactivate({h}))
        /\ needsCompaction' = (processingDepth > 0)
        /\ IF last
           THEN /\ op' = [op EXCEPT ![a] = [pc |-> "unroute", types |-> {TypeOf[h]},
                                            handle |-> None]]
                /\ Overlap({TypeOf[h]})
           ELSE op' = [op EXCEPT ![a] = Idle] /\ UNCHANGED disturbed
        /\ UNCHANGED <<processingDepth, routes, delivery, events>>

\* Another actor's UnregisterListener or UnregisterAllListeners came first.
AlreadyUnregistered(a) ==
    /\ op[a].pc \in {"unregister", "rollback"}
    /\ op[a].handle \notin ActiveHandles
    /\ op' = [op EXCEPT ![a] = Idle]
    /\ UNCHANGED <<registry, routes, delivery, events, disturbed>>

\* UnregisterAllListeners, the locked section.
UnregisterAllListeners(a) ==
    LET types == {TypeOf[h] : h \in ActiveHandles}
    IN  /\ MayTearDown
        /\ MayStart(a)
        /\ handleState' = [h \in Handles |->
               IF h \in ActiveHandles THEN "unregistered" ELSE handleState[h]]
        /\ listeners' = IF processingDepth = 0 THEN <<>> ELSE Deactivate(ActiveHandles)
        /\ needsCompaction' = (processingDepth > 0)
        /\ op' = [op EXCEPT ![a] = IF types = {} THEN Idle
                       ELSE [pc |-> "unroute", types |-> types, handle |-> None]]
        /\ Overlap(types)
        /\ UNCHANGED <<processingDepth, routes, delivery, events>>

\* OnListenerUnregistered for one type: the dispatcher's UnregisterReceiver.
OnListenerUnregistered(a) ==
    \E t \in op[a].types :
        /\ op[a].pc = "unroute"
        /\ routes' = routes \ {t}
        /\ op' = [op EXCEPT ![a] = IF op[a].types = {t} THEN Idle
                                   ELSE [op[a] EXCEPT !.types = @ \ {t}]]
        /\ UNCHANGED <<registry, delivery, events, disturbed>>

----------------------------------------------------------------------------
\* ProcessEvent.

BeginProcessing(a, t) ==
    /\ events < MaxEvents
    /\ op[a].pc = "idle"
    /\ delivery[a].pc = "idle"
    /\ events' = events + 1
    /\ processingDepth' = processingDepth + 1
    /\ delivery' = [delivery EXCEPT ![a] =
           [pc |-> "loop", type |-> t, index |-> 1, count |-> Len(listeners), handle |-> None,
            present |-> {h \in ActiveHandles : TypeOf[h] = t}, visited |-> <<>>]]
    /\ UNCHANGED <<listeners, needsCompaction, handleState, routes, op, disturbed>>

Advance(d) == [d EXCEPT !.pc = "loop", !.index = @ + 1, !.handle = None]

\* Mutant of InRange: the loop runs to the present end of the deque.
InRangeOfDeque(d) == d.index <= Len(listeners)

\* The loop runs to the size the deque had when it began.
InRange(d) == d.index <= d.count

\* Mutant of Matches: records that went inactive during the delivery count as well.
MatchesInactive(d) ==
    d.index <= Len(listeners) /\ TypeOf[listeners[d.index].handle] = d.type

\* The record at the index is there, active and of the event's type.
Matches(d) ==
    /\ d.index <= Len(listeners)
    /\ listeners[d.index].active
    /\ TypeOf[listeners[d.index].handle] = d.type

SkipRecord(a) ==
    /\ delivery[a].pc = "loop"
    /\ InRange(delivery[a])
    /\ ~Matches(delivery[a])
    /\ delivery' = [delivery EXCEPT ![a] = Advance(@)]
    /\ UNCHANGED <<registry, routes, op, events, disturbed>>

Visiting(d, h) == [d EXCEPT !.pc = "interest", !.handle = h, !.visited = Append(@, h)]

\* Under the mutex the callback is taken by shared ownership; it is used after.
LookUpRecord(a) ==
    /\ delivery[a].pc = "loop"
    /\ InRange(delivery[a])
    /\ Matches(delivery[a])
    /\ LET h == listeners[delivery[a].index].handle
       IN  delivery' = [delivery EXCEPT ![a] = Visiting(@, h)]
    /\ UNCHANGED <<registry, routes, op, events, disturbed>>

\* IsInterested: All, YoungerThan (by the event's age) or Custom decide either way.
Decline(a) ==
    /\ delivery[a].pc = "interest"
    /\ op[a].pc = "idle"
    /\ delivery' = [delivery EXCEPT ![a] = Advance(@)]
    /\ UNCHANGED <<registry, routes, op, events, disturbed>>

InvokeCallback(a) ==
    /\ delivery[a].pc = "interest"
    /\ op[a].pc = "idle"
    /\ delivery' = [delivery EXCEPT ![a].pc = "callback"]
    /\ UNCHANGED <<registry, routes, op, events, disturbed>>

ReturnFromCallback(a) ==
    /\ delivery[a].pc = "callback"
    /\ op[a].pc = "idle"
    /\ delivery' = [delivery EXCEPT ![a] = Advance(@)]
    /\ UNCHANGED <<registry, routes, op, events, disturbed>>

\* The callback or the predicate throws.
Throw(a) ==
    /\ delivery[a].pc \in {"interest", "callback"}
    /\ op[a].pc = "idle"
    /\ delivery' = [delivery EXCEPT ![a].pc = "unwind"]
    /\ UNCHANGED <<registry, routes, op, events, disturbed>>

\* Mutant of CompactsNow: a compaction that was put off is forgotten.
CompactsNever == FALSE

\* FinishProcessingLocked compacts when the last delivery ends.
CompactsNow == processingDepth = 1 /\ needsCompaction

\* Mutant of DepthLeft: the catch block forgets to finish.
DepthLeftUnlessThrown(d) == IF d.pc = "unwind" THEN processingDepth ELSE processingDepth - 1

\* The decrement of FinishProcessingLocked, whichever way the delivery ends.
DepthLeft(d) == IF processingDepth > 0 THEN processingDepth - 1 ELSE 0

\* FinishProcessingLocked, on the normal path or in the catch block.
FinishProcessing(a) ==
    /\ \/ delivery[a].pc = "loop" /\ ~InRange(delivery[a])
       \/ delivery[a].pc = "unwind"
    /\ processingDepth' = DepthLeft(delivery[a])
    /\ listeners' = IF CompactsNow THEN Compact(listeners) ELSE listeners
    /\ needsCompaction' = (needsCompaction /\ ~CompactsNow)
    /\ delivery' = [delivery EXCEPT ![a] = NotDelivering]
    /\ UNCHANGED <<handleState, routes, op, events, disturbed>>

----------------------------------------------------------------------------
RegistrationStep(a) ==
    \/ \E h \in Handles : RegisterListener(a, h) \/ BeginUnregister(a, h)
    \/ OnListenerRegistered(a)
    \/ FailToRoute(a)
    \/ UnregisterListener(a)
    \/ AlreadyUnregistered(a)
    \/ UnregisterAllListeners(a)
    \/ OnListenerUnregistered(a)

DeliveryStep(a) ==
    \/ \E t \in Types : BeginProcessing(a, t)
    \/ SkipRecord(a)
    \/ LookUpRecord(a)
    \/ Decline(a)
    \/ InvokeCallback(a)
    \/ ReturnFromCallback(a)
    \/ Throw(a)
    \/ FinishProcessing(a)

Next ==
    \/ \E a \in Actors : RegistrationStep(a)
    \/ \E a \in Processors : DeliveryStep(a)

Spec == Init /\ [][Next]_vars

----------------------------------------------------------------------------
\* Properties.

\* Type invariant of the registry, its routes and the calls in progress;
\* _processingDepth counts the deliveries in progress, those that throw included.
TypeOK ==
    /\ listeners \in Seq([handle : Handles, active : BOOLEAN])
    /\ processingDepth = Cardinality({a \in Processors : delivery[a].pc # "idle"})
    /\ needsCompaction \in BOOLEAN
    /\ handleState \in [Handles -> {"unused", "registered", "unregistered"}]
    /\ routes \subseteq Types
    /\ op \in [Actors -> [pc : {"idle", "register", "unregister", "rollback", "unroute"},
                          types : SUBSET Types, handle : Handles \cup {None}]]
    /\ delivery \in [Processors ->
           [pc : {"idle", "loop", "interest", "callback", "unwind"}, type : Types \cup {None},
            index : Nat, count : Nat, handle : Handles \cup {None},
            present : SUBSET Handles, visited : Seq(Handles)]]
    /\ events \in 0 .. MaxEvents
    /\ disturbed \subseteq Types

\* IsRegistered() of every handle agrees with the registry: a handle says it is
\* registered exactly while one record of its listener is active, through
\* deactivation, deferred compaction and the tear-down of the whole registry.
HandlesAgree ==
    /\ \A h \in Handles : handleState[h] = "registered" <=> h \in ActiveHandles
    /\ \A i, j \in DOMAIN listeners : listeners[i].handle = listeners[j].handle => i = j

\* A delivery looks each listener up at most once, and only those that were there
\* when it began: what a callback or another thread registers meanwhile has to
\* wait for the next event.
NoLateNoTwice ==
    \A a \in Processors :
        /\ IsInjective(delivery[a].visited)
        /\ ToSet(delivery[a].visited) \subseteq delivery[a].present

\* A delivery that runs to its end has looked up every listener that was there
\* when it began and is there still, whatever was unregistered meanwhile.
NoneSkipped ==
    \A a \in Processors :
        delivery[a].pc = "loop" /\ ~InRange(delivery[a]) =>
            delivery[a].present \cap ActiveHandles \subseteq ToSet(delivery[a].visited)

\* An inactive record stays only while an event is being delivered: the last
\* delivery, even one that throws, removes it, with its callback.
NothingLingers ==
    processingDepth = 0 => \A r \in ToSet(listeners) : r.active

\* No route is about to be asked for or given up for t.
Settled(t) == t \notin InFlight

\* The dispatcher routes a type here exactly while a listener for it is
\* registered, for every type whose route calls never overlapped or failed.
RoutesFollowListeners ==
    \A t \in Types \ disturbed :
        Settled(t) => (t \in routes <=> HasActive(listeners, t))

\* "Thread-safe listener registry" (the class comment): a registered listener is one
\* that the dispatcher routes to, without that proviso.
NoRouteLost ==
    \A t \in Types : Settled(t) /\ HasActive(listeners, t) => t \in routes

\* What the module Multicast sees of this one.  Of those that were there when a delivery
\* began it owes the event to the ones it has not looked up and that are there still.
Due == [a \in Processors |->
    IF delivery[a].pc \in {"loop", "interest", "callback"}
    THEN (delivery[a].present \cap ActiveHandles) \ ToSet(delivery[a].visited) ELSE {}]

Serving == [a \in Processors |->
    IF delivery[a].pc \in {"interest", "callback"} THEN {delivery[a].handle} ELSE {}]

Progress == [a \in Processors |->
    CASE delivery[a].pc = "idle"   -> "idle"
      [] delivery[a].pc = "unwind" -> "failed"
      [] OTHER                     -> "delivering"]

M == INSTANCE Multicast WITH
        Members <- Handles,
        Topics <- Types,
        TopicOf <- TypeOf,
        Couriers <- Processors,
        members <- ActiveHandles,
        due <- Due,
        inHand <- Serving,
        progress <- Progress

\* The registry keeps that promise: walks by index over records that are appended to,
\* deactivated under way and compacted behind the last of them take each listener that is
\* there throughout once and no other, and end early only when application code throws.
ImplementsMulticast == M!Spec

============================================================================
