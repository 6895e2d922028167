----------------------- MODULE EventTransportRouting -----------------------
(***************************************************************************)
(* What src/src/ESPressio_EventTransportManager.hpp routes: the event      *)
(* types registered with it, their directions per transport, the           *)
(* transports themselves, and its subscriptions to the broker.             *)
(*                                                                         *)
(* A section under _mutex is one action.  The calls the manager makes      *)
(* after it has unlocked (the broker's RegisterReceiver and                *)
(* UnregisterReceiver, a transport's SetReceiver) are actions of their     *)
(* own, so that two threads' calls can be carried out in either order.     *)
(* Results, bulk counts and notifications of observers are left out.  Of   *)
(* the inbound queue only which packets it holds some of is kept; see      *)
(* EventTransportManager for the queue itself, and for the ways in which   *)
(* Initialize can fail.                                                    *)
(***************************************************************************)
EXTENDS Integers, FiniteSets

CONSTANTS
    Actors,      \* threads that call the manager
    Types,       \* transportable event types; no two have the same type ID
    Transports,
    Runtime,     \* types that can be constructed at run time, or have properties
    MaxCalls,    \* bound on the number of calls
    None         \* no transport, or no type

ASSUME ActorsAssumption == IsFiniteSet(Actors)
ASSUME TypesAssumption == IsFiniteSet(Types) /\ Runtime \subseteq Types
ASSUME CallsAssumption == MaxCalls \in Nat

\* A direction is a set of flags: | is union, RemoveDirection is set difference.
Directions == SUBSET {"Inbound", "Outbound"}

ASSUME NoneAssumption == None \notin Types \cup Transports
ASSUME ApartAssumption == Types \cap Transports = {}

Records == [default : Directions, routes : UNION {[S -> Directions] : S \in SUBSET Transports}]

VARIABLES
    registrations,  \* the record of each registered type
    transports,
    receiving,      \* by transport: its receiver is the manager
    inbound,        \* the <<type, transport>> of the packets in _inbound
    subscriptions,
    routed,         \* the types the broker routes to the manager
    initialized,
    calls,          \* number of calls so far
    pc,             \* where each actor is in its call
    job,            \* what its call has still to do
    disturbed       \* history: types and transports that two calls were about at once

registry == <<registrations, transports, inbound>>
broker == <<subscriptions, routed>>
actors == <<calls, pc, job, disturbed>>
vars == <<registry, broker, receiving, initialized, actors>>

----------------------------------------------------------------------------
\* Registration records.

Blank == [default |-> {}, routes |-> <<>>]

Registered == DOMAIN registrations

Record(type) == IF type \in Registered THEN registrations[type] ELSE Blank

\* Map f with v for x, and without x.
With(f, x, v) == [y \in DOMAIN f \cup {x} |-> IF y = x THEN v ELSE f[y]]

Without(f, x) == [y \in DOMAIN f \ {x} |-> f[y]]

EffectiveDirection(r, t) == IF t \in DOMAIN r.routes THEN r.routes[t] ELSE r.default

\* Mutant of HasOutboundDirection: the routes of single transports are forgotten.
HasOutboundByDefault(r) == "Outbound" \in r.default

\* The default direction counts, whatever the routes override.
HasOutboundDirection(r) ==
    \/ "Outbound" \in r.default
    \/ \E t \in DOMAIN r.routes : "Outbound" \in r.routes[t]

HasAnyDirection(r) == r.default # {} \/ \E t \in DOMAIN r.routes : r.routes[t] # {}

\* RemoveRegistrationIfUnusedLocked.
Kept(type, r) ==
    IF HasAnyDirection(r) \/ type \in Runtime
    THEN With(registrations, type, r) ELSE Without(registrations, type)

\* Record r without directions d in its default, or in the route of transport t.
WithoutDefault(r, d) == [r EXCEPT !.default = @ \ d]

WithoutRoute(r, t, d) ==
    LET after == EffectiveDirection(r, t) \ d
    IN  [r EXCEPT !.routes = IF after = {} /\ r.default = {}
                             THEN Without(@, t) ELSE With(@, t, after)]

\* DiscardInboundLocked: what goes when directions d are removed for transports S.
Discarded(type, r, S, d, discard) ==
    IF discard /\ "Inbound" \in d
    THEN {<<type, t>> : t \in {s \in S : "Inbound" \notin EffectiveDirection(r, s)}}
    ELSE {}

----------------------------------------------------------------------------
\* Calls.  job: types that are left to do, transports whose SetReceiver is left
\* to call with `value`, the type whose subscription is being set to `value`, the
\* arguments of an unregistration, and `about`: all the call is about.
\* pc names the step that comes next.

Jobs == [types : SUBSET Types, transports : SUBSET Transports, type : Types \cup {None},
         value : BOOLEAN, scope : Transports \cup {None}, direction : Directions,
         discard : BOOLEAN, loop : {"refresh", "unregister", "route", "unroute"},
         about : SUBSET (Types \cup Transports)]

NoJob == [types |-> {}, transports |-> {}, type |-> None, value |-> FALSE, scope |-> None,
          direction |-> {}, discard |-> FALSE, loop |-> "refresh", about |-> {}]

\* Actor a has something to be about; other calls under way about the same disturb it.
Engage(a, step, j) ==
    /\ pc' = [pc EXCEPT ![a] = step]
    /\ job' = [job EXCEPT ![a] = j]
    /\ disturbed' = disturbed \cup (j.about \cap UNION {job[b].about : b \in Actors})

Begin(a, step, j) ==
    /\ pc[a] = "idle"
    /\ calls < MaxCalls
    /\ calls' = calls + 1
    /\ Engage(a, step, j)

Goto(a, step, j) ==
    /\ pc' = [pc EXCEPT ![a] = step]
    /\ job' = [job EXCEPT ![a] = j]
    /\ UNCHANGED <<calls, disturbed>>

\* On to the next type, the transports, or the end of the call.
Continue(a, j) ==
    CASE j.types # {}      -> Goto(a, j.loop, [j EXCEPT !.type = None])
      [] j.types = {} /\ j.transports # {} -> Goto(a, "receiver", [j EXCEPT !.type = None])
      [] OTHER             -> Goto(a, "idle", NoJob)

Init ==
    /\ registrations = <<>>
    /\ transports = {}
    /\ receiving = [t \in Transports |-> FALSE]
    /\ inbound = {}
    /\ subscriptions = {}
    /\ routed = {}
    /\ initialized = FALSE
    /\ calls = 0
    /\ pc = [a \in Actors |-> "idle"]
    /\ job = [a \in Actors |-> NoJob]
    /\ disturbed = {}

----------------------------------------------------------------------------
\* Registration: a section that changes the record, then RefreshOutboundSubscription.

Register(a, type, r) ==
    /\ type \notin Registered \/ r # Record(type)    \* AlreadyRegistered otherwise
    /\ registrations' = With(registrations, type, r)
    /\ Begin(a, "refresh", [NoJob EXCEPT !.types = {type}, !.about = {type}])
    /\ UNCHANGED <<transports, inbound, broker, receiving, initialized>>

RegisterGlobalEvent(a, type, d) ==
    Register(a, type, [Record(type) EXCEPT !.default = @ \cup d])

\* The transport need not be registered.
RegisterTransportEvent(a, type, t, d) ==
    Register(a, type, [Record(type) EXCEPT
                           !.routes = With(@, t, EffectiveDirection(Record(type), t) \cup d)])

\* What RefreshOutboundSubscription goes on to: the subscription of `type`.
Subscribe(a, type, r, rest) ==
    Goto(a, "subscribe", [rest EXCEPT !.type = type, !.value = HasOutboundDirection(r)])

\* Mutant of Refreshed: the type of a record that is gone is null, and used.
RefreshedUnchecked(a, type, rest) ==
    Subscribe(a, IF type \in Registered THEN type ELSE None, Record(type), rest)

\* Nothing to do if the record is gone.
Refreshed(a, type, rest) ==
    IF type \in Registered THEN Subscribe(a, type, Record(type), rest) ELSE Continue(a, rest)

RefreshOutboundSubscription(a) ==
    /\ pc[a] = "refresh"
    /\ \E type \in job[a].types :
        LET rest == [job[a] EXCEPT !.types = @ \ {type}]
        IN  Refreshed(a, type, rest)
    /\ UNCHANGED <<registry, broker, receiving, initialized>>

\* The section of SetOutboundSubscription; the broker is called for an initialized
\* manager only.
SetOutboundSubscription(a) ==
    /\ pc[a] = "subscribe"
    /\ LET j == job[a]
       IN  IF j.value = (j.type \in subscriptions)
           THEN Continue(a, j) /\ UNCHANGED subscriptions
           ELSE /\ subscriptions' = IF j.value THEN subscriptions \cup {j.type}
                                               ELSE subscriptions \ {j.type}
                /\ IF initialized THEN Goto(a, "broker", j) ELSE Continue(a, j)
    /\ UNCHANGED <<registry, routed, receiving, initialized>>

\* RegisterReceiver or UnregisterReceiver of the EventManager.
CallBroker(a) ==
    /\ pc[a] = "broker"
    /\ routed' = IF job[a].value THEN routed \cup {job[a].type} ELSE routed \ {job[a].type}
    /\ Continue(a, job[a])
    /\ UNCHANGED <<registry, subscriptions, receiving, initialized>>

----------------------------------------------------------------------------
\* Unregistration of types S: one section for each, and its SetOutboundSubscription.

BeginUnregister(a, S, scope, d, discard) ==
    /\ S # {}
    /\ Begin(a, "unregister", [NoJob EXCEPT !.types = S, !.scope = scope, !.direction = d,
                                            !.discard = discard, !.loop = "unregister",
                                            !.about = S])
    /\ UNCHANGED <<registry, broker, receiving, initialized>>

\* UnregisterAllEvents takes the list of the types under the lock, once.
BeginUnregisterAll(a, scope, d, discard) ==
    BeginUnregister(a, Registered, scope, d, discard)

\* One type's section: record r replaces the present one, packets D are discarded.
Unregister(a, type, r, D) ==
    LET rest == [job[a] EXCEPT !.types = @ \ {type}]
    IN  IF type \notin Registered \/ r = Record(type)   \* NotRegistered
        THEN Continue(a, rest) /\ UNCHANGED registry
        ELSE /\ registrations' = Kept(type, r)
             /\ inbound' = inbound \ D
             /\ Subscribe(a, type, r, rest)
             /\ UNCHANGED transports

UnregisterEvent(a, type) ==
    /\ type \in job[a].types
    /\ job[a].scope = None
    /\ LET r == WithoutDefault(Record(type), job[a].direction)
       IN  Unregister(a, type, r,
               Discarded(type, r, transports, job[a].direction, job[a].discard))

\* Nothing is removed, too, when the transport has none of these directions.
UnregisterTransportEvent(a, type, t) ==
    /\ type \in job[a].types
    /\ job[a].scope = t
    /\ LET d == job[a].direction \cap EffectiveDirection(Record(type), t)
           r == IF d = {} THEN Record(type) ELSE WithoutRoute(Record(type), t, d)
       IN  Unregister(a, type, r,
               Discarded(type, r, {t}, job[a].direction, job[a].discard))

UnregisterNext(a) ==
    /\ pc[a] = "unregister"
    /\ \E type \in Types :
        \/ UnregisterEvent(a, type)
        \/ \E t \in Transports : UnregisterTransportEvent(a, type, t)
    /\ UNCHANGED <<broker, receiving, initialized>>

----------------------------------------------------------------------------
\* Transports.

RegisterTransport(a, t) ==
    /\ t \notin transports
    /\ transports' = transports \cup {t}
    /\ Begin(a, "receiver", [NoJob EXCEPT !.transports = {t}, !.value = TRUE, !.about = {t}])
    /\ UNCHANGED <<registrations, inbound, broker, receiving, initialized>>

\* Mutant of WithoutTransport: routes of the transport stay behind.
WithoutTransportKept(t) == registrations

\* Every record forgets the transport.
WithoutTransport(t) ==
    [type \in Registered |-> [registrations[type] EXCEPT !.routes = Without(@, t)]]

\* Mutant of PacketsOf: the packets of the transport stay queued.
NoPackets(t) == {}

PacketsOf(t) == {w \in inbound : w[2] = t}

\* Every type is refreshed after SetReceiver(nullptr).
UnregisterTransport(a, t) ==
    /\ t \in transports
    /\ transports' = transports \ {t}
    /\ inbound' = inbound \ PacketsOf(t)
    /\ registrations' = WithoutTransport(t)
    /\ Begin(a, "receiver", [NoJob EXCEPT !.types = Registered, !.transports = {t},
                                          !.about = Registered \cup {t}])
    /\ UNCHANGED <<broker, receiving, initialized>>

SetReceiver(a) ==
    /\ pc[a] = "receiver"
    /\ \E t \in job[a].transports :
        /\ receiving' = [receiving EXCEPT ![t] = job[a].value]
        /\ LET rest == [job[a] EXCEPT !.transports = @ \ {t}]
           IN  Continue(a, rest)
    /\ UNCHANGED <<registry, broker, initialized>>

----------------------------------------------------------------------------
\* Initialize, once its executor and thread are there, and Shutdown.

\* The unlocked test of the flag.
Initialize(a) ==
    /\ ~initialized
    /\ Begin(a, "initialize", NoJob)
    /\ UNCHANGED <<registry, broker, receiving, initialized>>

\* The last section, and then RegisterReceiver for the copied subscriptions; another
\* thread may have initialized the manager since the test, or shut it down.
InitializeLocked(a) ==
    /\ pc[a] = "initialize"
    /\ initialized' = TRUE
    /\ IF subscriptions = {}
       THEN Engage(a, "idle", NoJob)
       ELSE Engage(a, "route", [NoJob EXCEPT !.types = subscriptions, !.value = TRUE,
                                             !.loop = "route", !.about = Types])
    /\ UNCHANGED <<registry, broker, receiving, calls>>

\* The exchange comes before the lock is taken.
Shutdown(a) ==
    /\ initialized' = FALSE
    /\ Begin(a, "shutdown", [NoJob EXCEPT !.discard = initialized, !.loop = "unroute",
                                          !.about = Types \cup Transports])
    /\ UNCHANGED <<registry, broker, receiving>>

\* Mutant of Copied: the list is copied once it was cleared.
CopiedLate == {}

\* The transports whose receiver Shutdown resets.
Copied == transports

\* `discard` holds wasInitialized here.
ShutdownLocked(a) ==
    /\ pc[a] = "shutdown"
    /\ IF ~job[a].discard /\ transports = {}
       THEN Goto(a, "idle", NoJob) /\ UNCHANGED registry
       ELSE /\ transports' = {}
            /\ inbound' = {}
            /\ Continue(a, [job[a] EXCEPT !.types = subscriptions,
                                          !.transports = Copied, !.discard = FALSE])
            /\ UNCHANGED registrations
    /\ UNCHANGED <<broker, receiving, initialized>>

\* One of the copied subscriptions is registered with the broker, or unregistered.
RouteSubscription(a) ==
    /\ pc[a] \in {"route", "unroute"}
    /\ \E type \in job[a].types :
        /\ routed' = IF pc[a] = "route" THEN routed \cup {type} ELSE routed \ {type}
        /\ Continue(a, [job[a] EXCEPT !.types = @ \ {type}])
    /\ UNCHANGED <<registry, subscriptions, receiving, initialized>>

----------------------------------------------------------------------------
\* Packets, as far as the registry lets them in.

\* ReceiveEventTransportPacket: IsInitialized was tested before, unlocked.
ReceivePacket(type, t) ==
    /\ t \in transports
    /\ type \in Registered
    /\ "Inbound" \in EffectiveDirection(Record(type), t)
    /\ inbound' = inbound \cup {<<type, t>>}
    /\ UNCHANGED <<registrations, transports, broker, receiving, initialized, actors>>

\* PopInbound takes the last packet of this kind, or one of several.
PopInbound ==
    /\ \E w \in inbound : inbound' = inbound \ {w}
    /\ UNCHANGED <<registrations, transports, broker, receiving, initialized, actors>>

----------------------------------------------------------------------------
\* To unregister the direction None changes nothing, and is left out; packets are discarded
\* with the direction Inbound alone.
Call(a) ==
    \/ \E type \in Types, d \in Directions :
        \/ RegisterGlobalEvent(a, type, d)
        \/ \E t \in Transports : RegisterTransportEvent(a, type, t, d)
    \/ \E scope \in Transports \cup {None}, d \in Directions \ {{}}, discard \in BOOLEAN :
        /\ discard => "Inbound" \in d
        /\ \/ \E type \in Types : BeginUnregister(a, {type}, scope, d, discard)
           \/ BeginUnregisterAll(a, scope, d, discard)
    \/ \E t \in Transports : RegisterTransport(a, t) \/ UnregisterTransport(a, t)
    \/ Initialize(a)
    \/ Shutdown(a)

Step(a) ==
    \/ RefreshOutboundSubscription(a)
    \/ SetOutboundSubscription(a)
    \/ CallBroker(a)
    \/ UnregisterNext(a)
    \/ SetReceiver(a)
    \/ InitializeLocked(a)
    \/ ShutdownLocked(a)
    \/ RouteSubscription(a)

Next ==
    \/ \E a \in Actors : Call(a) \/ Step(a)
    \/ \E type \in Types, t \in Transports : ReceivePacket(type, t)
    \/ PopInbound

Spec == Init /\ [][Next]_vars

----------------------------------------------------------------------------
\* Properties.

\* Type invariant of the registry and the calls.
TypeOK ==
    /\ Registered \subseteq Types
    /\ \A type \in Registered : registrations[type] \in Records
    /\ transports \subseteq Transports
    /\ receiving \in [Transports -> BOOLEAN]
    /\ inbound \subseteq Types \X Transports
    /\ subscriptions \subseteq Types
    /\ routed \subseteq Types
    /\ initialized \in BOOLEAN
    /\ calls \in 0 .. MaxCalls
    /\ pc \in [Actors -> {"idle", "refresh", "subscribe", "broker", "unregister", "receiver",
                          "initialize", "shutdown", "route", "unroute"}]
    /\ job \in [Actors -> Jobs]
    /\ \A a \in Actors : job[a].type # None <=> pc[a] \in {"subscribe", "broker"}
    /\ disturbed \subseteq Types \cup Transports

UnderWay(x) == \E a \in Actors : x \in job[a].about

\* Unless two calls were about a type at once, an initialized manager has, once no
\* call is under way, its subscription if any registered transport is to send it, has
\* none that no direction asks for, and is routed exactly its subscriptions; so it is
\* through overrides, removals, records and transports that go, and restarts.
RoutesFollowDirections ==
    \A type \in Types \ disturbed : ~UnderWay(type) =>
        LET r == Record(type)
        IN  /\ (\E t \in transports : "Outbound" \in EffectiveDirection(r, t))
                   => type \in subscriptions
            /\ type \in subscriptions
                   => "Outbound" \in r.default \cup UNION {r.routes[t] : t \in DOMAIN r.routes}
            /\ type \in routed <=> initialized /\ type \in subscriptions

\* Unless two calls were about a transport at once, its receiver is the manager,
\* once no call is under way, exactly if it is registered.
ReceiversFollowTransports ==
    \A t \in Transports \ disturbed : ~UnderWay(t) => (receiving[t] <=> t \in transports)

\* Whatever calls overlap, no packet of a transport that was unregistered, or of any
\* after a shutdown, waits to be dispatched.
QueuedFromRegistered == \A w \in inbound : w[2] \in transports

============================================================================
