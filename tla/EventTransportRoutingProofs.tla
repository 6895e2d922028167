-------------------- MODULE EventTransportRoutingProofs --------------------
(***************************************************************************)
(* Proofs about EventTransportRouting: that the broker's routes and the    *)
(* transports' receivers are what the registry asks for, wherever no two   *)
(* calls about the same thing overlap, and that the inbound queue holds    *)
(* packets of registered transports only.                                  *)
(***************************************************************************)
EXTENDS EventTransportRouting, TLAPS

Loops == {"refresh", "unregister", "route", "unroute"}

Steps == Loops \cup {"idle", "subscribe", "broker", "receiver", "initialize",
                      "shutdown"}

CallTypes ==
    /\ pc \in [Actors -> Steps]
    /\ job \in [Actors -> Jobs]

\* What a call has still to do is part of what it is about; where it is says what that may be.
Shape(a) ==
    /\ pc[a] \in {"idle", "initialize"} => job[a] = NoJob
    /\ job[a].types \subseteq job[a].about
    /\ job[a].transports \subseteq job[a].about
    /\ job[a].type # None => job[a].type \in job[a].about \ job[a].types
    /\ job[a].type # None <=> pc[a] \in {"subscribe", "broker"}
    /\ pc[a] \in Loops => pc[a] = job[a].loop
    /\ pc[a] = "shutdown" => job[a].loop = "unroute" /\ job[a].types = {} /\ ~job[a].value
    /\ pc[a] \in {"subscribe", "broker"} => job[a].loop \in {"refresh", "unregister"}
    /\ job[a].transports # {} => pc[a] \in {"receiver", "unroute"}
    /\ pc[a] = "receiver" /\ job[a].types # {} =>
        \A t, u \in job[a].transports : t = u
    /\ job[a].loop \in {"route", "unroute"} => Types \subseteq job[a].about
    /\ job[a].loop = "unroute" => Transports \subseteq job[a].about

\* No two calls are about a thing that is not disturbed.
Solo ==
    \A x \in (Types \cup Transports) \ disturbed, a, b \in Actors :
        x \in job[a].about /\ x \in job[b].about => a = b

\* The subscription that a type's record asks for, and the route that this asks for.
Subscribed(type) == type \in subscriptions <=> HasOutboundDirection(Record(type))
Routed(type) == type \in routed <=> initialized /\ type \in subscriptions

\* What a call about a type owes it: a subscription, or a route, and it knows which.
Owed(type, a) ==
    /\ \/ pc[a] = "subscribe" /\ job[a].type = type
       \/ job[a].loop = "refresh" /\ type \in job[a].types
       \/ Subscribed(type)
    /\ \/ pc[a] = "broker" /\ job[a].type = type
       \/ pc[a] = "shutdown"
       \/ job[a].loop \in {"route", "unroute"} /\ type \in job[a].types
       \/ Routed(type)
    /\ job[a].loop = "refresh" /\ type \in job[a].types => type \in Registered
    /\ job[a].type = type => (job[a].value <=> HasOutboundDirection(Record(type)))
    /\ pc[a] = "broker" /\ job[a].type = type => initialized
    /\ pc[a] = "shutdown" =>
        /\ type \in routed <=> job[a].discard /\ type \in subscriptions
        /\ ~(initialized /\ type \in subscriptions)
    /\ job[a].loop = "unroute" /\ type \in job[a].types =>
        ~(initialized /\ type \in subscriptions)
    /\ job[a].loop = "route" /\ type \in job[a].types =>
        initialized /\ type \in subscriptions

RouteInv ==
    \A type \in Types \ disturbed :
        /\ \A a \in Actors : type \in job[a].about => Owed(type, a)
        /\ ~UnderWay(type) => Subscribed(type) /\ Routed(type)

\* The same for a transport and its receiver.
ReceiverInv ==
    \A t \in Transports \ disturbed :
        /\ \A a \in Actors : t \in job[a].transports => (job[a].value <=> t \in transports)
        /\ (\A a \in Actors : t \notin job[a].transports) => (receiving[t] <=> t \in transports)

IInv ==
    /\ CallTypes
    /\ \A a \in Actors : Shape(a)
    /\ Solo
    /\ subscriptions \subseteq Types /\ Registered \subseteq Types
    /\ transports \subseteq Transports /\ receiving \in [Transports -> BOOLEAN]
    /\ initialized \in BOOLEAN

----------------------------------------------------------------------------
\* How the calls proceed.

\* Only actor a's call changed.
OnlyOf(a) ==
    \A b \in Actors \ {a} : pc'[b] = pc[b] /\ job'[b] = job[b]

LEMMA EngageDoes ==
  ASSUME CallTypes, NEW a \in Actors, NEW step \in Steps, NEW j \in Jobs, Engage(a, step, j)
  PROVE  /\ pc'[a] = step /\ job'[a] = j /\ OnlyOf(a)
         /\ CallTypes'
         /\ disturbed \subseteq disturbed'
         /\ \A b \in Actors : j.about \cap job[b].about \subseteq disturbed'
BY DEF CallTypes, Engage, OnlyOf

LEMMA BeginDoes ==
  ASSUME CallTypes, NEW a \in Actors, NEW step \in Steps, NEW j \in Jobs, Begin(a, step, j)
  PROVE  pc[a] = "idle" /\ pc'[a] = step /\ job'[a] = j
BY EngageDoes DEF Begin

LEMMA GotoDoes ==
  ASSUME CallTypes, NEW a \in Actors, NEW step \in Steps, NEW j \in Jobs, Goto(a, step, j)
  PROVE  /\ pc'[a] = step /\ job'[a] = j /\ OnlyOf(a)
         /\ CallTypes'
         /\ disturbed' = disturbed
BY DEF CallTypes, Goto, OnlyOf

LEMMA NoJobIsJob == NoJob \in Jobs
BY DEF NoJob, Jobs, Directions

LEMMA ContinueDoes ==
  ASSUME CallTypes, NEW a \in Actors, NEW j \in Jobs, Continue(a, j)
  PROVE  /\ OnlyOf(a) /\ CallTypes' /\ disturbed' = disturbed
         /\ j.types = {} /\ j.transports = {} => pc'[a] = "idle" /\ job'[a] = NoJob
         /\ ~(j.types = {} /\ j.transports = {}) =>
                /\ job'[a] = [j EXCEPT !.type = None]
                /\ pc'[a] = IF j.types # {} THEN j.loop ELSE "receiver"
<1>1. [j EXCEPT !.type = None] \in Jobs
  BY DEF Jobs
<1>0. j.loop \in Steps /\ "receiver" \in Steps /\ "idle" \in Steps
  BY DEF Jobs, Steps, Loops
<1>2. CASE j.types # {}
  BY <1>0, <1>1, <1>2, GotoDoes DEF Continue
<1>3. CASE j.types = {} /\ j.transports # {}
  BY <1>0, <1>1, <1>3, GotoDoes DEF Continue
<1>4. CASE j.types = {} /\ j.transports = {}
  BY <1>0, <1>4, GotoDoes, NoJobIsJob DEF Continue
<1> QED
  BY <1>2, <1>3, <1>4

\* A step of actor a moved its own call on, and began none about what others are about.
Moved(a) ==
    /\ OnlyOf(a) /\ CallTypes' /\ Shape(a)'
    /\ disturbed \subseteq disturbed'
    /\ \A b \in Actors \ {a} : job'[a].about \cap job[b].about \subseteq disturbed'

\* A call goes on being about what it was about.
LEMMA GoesOn ==
  ASSUME IInv, NEW a \in Actors, OnlyOf(a), CallTypes', Shape(a)', disturbed' = disturbed,
         job'[a].about \subseteq job[a].about
  PROVE  Moved(a)
<1>1. ASSUME NEW b \in Actors \ {a}, NEW x \in job'[a].about \cap job[b].about
      PROVE  x \in disturbed
  <2>1. job[b] \in Jobs /\ x \in job[a].about
    BY DEF IInv, CallTypes
  <2>2. x \in Types \cup Transports
    BY <2>1 DEF Jobs
  <2> QED
    BY <2>1, <2>2 DEF IInv, Solo
<1> QED
  BY <1>1 DEF Moved

\* A call has found what it is to be about.
LEMMA Engages ==
  ASSUME IInv, NEW a \in Actors, NEW step \in Steps, NEW j \in Jobs, Engage(a, step, j), Shape(a)'
  PROVE  Moved(a)
BY EngageDoes DEF IInv, Moved

\* A call begins.
LEMMA Begins ==
  ASSUME IInv, NEW a \in Actors, NEW step \in Steps, NEW j \in Jobs, Begin(a, step, j), Shape(a)'
  PROVE  Moved(a) /\ pc[a] = "idle" /\ job[a] = NoJob /\ pc'[a] = step /\ job'[a] = j
BY BeginDoes, Engages DEF Begin, IInv, Shape

\* Nothing is left to do, or what is left is a call of the same shape.
LEMMA Continues ==
  ASSUME IInv, NEW a \in Actors, NEW j \in Jobs, Continue(a, j),
         j.about = job[a].about, j.loop = job[a].loop,
         j.types \subseteq job[a].types, j.transports \subseteq j.about,
         j.types # {} => j.transports = {} \/ j.loop = "unroute",
         pc[a] # "idle"
  PROVE  Moved(a)
<1>1. CASE j.types = {} /\ j.transports = {}
  <2>1. job'[a] = NoJob /\ pc'[a] = "idle"
    BY <1>1, ContinueDoes DEF IInv
  <2>2. Shape(a)'
    BY <2>1 DEF Shape, NoJob, Loops
  <2>3. job'[a].about \subseteq job[a].about
    BY <2>1 DEF NoJob
  <2> QED
    BY <2>2, <2>3, ContinueDoes, GoesOn DEF IInv
<1>2. CASE ~(j.types = {} /\ j.transports = {})
  <2>1. /\ job'[a] = [j EXCEPT !.type = None]
        /\ pc'[a] = IF j.types # {} THEN j.loop ELSE "receiver"
    BY <1>2, ContinueDoes DEF IInv
  <2>2. /\ job'[a].type = None /\ job'[a].types = j.types /\ job'[a].transports = j.transports
        /\ job'[a].about = job[a].about /\ job'[a].loop = job[a].loop
        /\ j.loop \in Loops
    BY <2>1 DEF Jobs, Loops
  <2>3. Shape(a)
    BY DEF IInv
  <2>4. Shape(a)'
    BY <1>2, <2>1, <2>2, <2>3 DEF Shape, Loops
  <2> QED
    BY <2>2, <2>4, ContinueDoes, GoesOn DEF IInv
<1> QED
  BY <1>1, <1>2

\* What RefreshOutboundSubscription and the unregistrations go on with.
LEMMA Subscribes ==
  ASSUME IInv, NEW a \in Actors, NEW type \in Types, NEW r, NEW rest \in Jobs,
         Subscribe(a, type, r, rest),
         pc[a] = job[a].loop, pc[a] \in {"refresh", "unregister"}, type \in job[a].types,
         rest = [job[a] EXCEPT !.types = @ \ {type}]
  PROVE  /\ Moved(a) /\ pc'[a] = "subscribe"
         /\ job'[a].type = type /\ job'[a].types = job[a].types \ {type}
         /\ job'[a].loop = job[a].loop /\ job'[a].about = job[a].about
         /\ job'[a].value <=> HasOutboundDirection(r)
<1> DEFINE j == [rest EXCEPT !.type = type, !.value = HasOutboundDirection(r)]
<1>1. j \in Jobs /\ "subscribe" \in Steps
  <2>1. HasOutboundDirection(r) \in BOOLEAN
    BY DEF HasOutboundDirection
  <2> QED
    BY <2>1 DEF Jobs, Steps
<1>2. job'[a] = j /\ pc'[a] = "subscribe" /\ OnlyOf(a) /\ CallTypes' /\ disturbed' = disturbed
  BY <1>1, GotoDoes DEF Subscribe, IInv
<1>3. job[a] \in Jobs
  BY DEF IInv, CallTypes
<1>4. /\ j.type = type /\ j.types = job[a].types \ {type} /\ j.transports = job[a].transports
      /\ j.loop = job[a].loop /\ j.about = job[a].about /\ j.value = HasOutboundDirection(r)
  BY <1>3 DEF Jobs
<1>5. Shape(a)
  BY DEF IInv
<1>6. Shape(a)'
  BY <1>2, <1>4, <1>5, NoneAssumption DEF Shape, Loops
<1>7. Moved(a)
  BY <1>2, <1>4, <1>6, GoesOn
<1> QED
  BY <1>2, <1>4, <1>7

----------------------------------------------------------------------------
\* What a step of actor a does for one type, and for one transport.

Unconcerned(type) ==
    /\ type \in Registered' <=> type \in Registered
    /\ HasOutboundDirection(Record(type))' <=> HasOutboundDirection(Record(type))
    /\ type \in subscriptions' <=> type \in subscriptions
    /\ type \in routed' <=> type \in routed
    /\ (initialized' <=> initialized) \/ (~initialized /\ type \notin subscriptions)

TypeKept(type, a) ==
    CASE type \in job'[a].about -> Owed(type, a)'
      [] type \in job[a].about \ job'[a].about -> Subscribed(type)' /\ Routed(type)'
      [] type \notin job[a].about \cup job'[a].about -> Unconcerned(type)

TransportKept(t, a) ==
    IF t \in job[a].about \cup job'[a].about
    THEN IF t \in job'[a].transports THEN job'[a].value <=> t \in transports'
                                     ELSE receiving'[t] <=> t \in transports'
    ELSE (receiving'[t] <=> receiving[t]) /\ (t \in transports' <=> t \in transports)

\* A step of actor a that does all this keeps the invariants.
Good(a) ==
    /\ Moved(a)
    /\ \A type \in Types \ disturbed' : TypeKept(type, a)
    /\ \A t \in Transports \ disturbed' : TransportKept(t, a)
    /\ subscriptions' \subseteq Types /\ Registered' \subseteq Types
    /\ transports' \subseteq Transports /\ receiving' \in [Transports -> BOOLEAN]
    /\ initialized' \in BOOLEAN

\* A call that did not change is owed the same by a step that is not about the type.
LEMMA OwedStays ==
  ASSUME NEW type \in Types, NEW b, Owed(type, b), Unconcerned(type),
         pc'[b] = pc[b], job'[b] = job[b]
  PROVE  Owed(type, b)'
BY DEF Owed, Unconcerned, Subscribed, Routed

\* Nobody else is about a type or a transport that a step of actor a is about.
LEMMA Alone ==
  ASSUME IInv, NEW a \in Actors, Moved(a), NEW x \in (Types \cup Transports) \ disturbed',
         x \in job[a].about \cup job'[a].about, NEW b \in Actors \ {a}
  PROVE  x \notin job[b].about /\ x \notin job'[b].about
<1>1. job'[b] = job[b] /\ x \notin disturbed
  BY DEF Moved, OnlyOf
<1>2. CASE x \in job'[a].about
  BY <1>1, <1>2 DEF Moved
<1>3. CASE x \in job[a].about
  BY <1>1, <1>3 DEF IInv, Solo
<1> QED
  BY <1>2, <1>3

LEMMA GoodKeeps ==
  ASSUME IInv, RouteInv, ReceiverInv, NEW a \in Actors, Good(a)
  PROVE  IInv' /\ RouteInv' /\ ReceiverInv'
<1>0. Moved(a) /\ OnlyOf(a) /\ disturbed \subseteq disturbed'
  BY DEF Good, Moved
<1>1. IInv'
  <2>1. \A b \in Actors : Shape(b)'
    BY <1>0 DEF Moved, OnlyOf, IInv, Shape
  <2>2. ASSUME NEW x \in (Types \cup Transports) \ disturbed', NEW b \in Actors, NEW c \in Actors,
               x \in job'[b].about, x \in job'[c].about
        PROVE  b = c
    <3>1. CASE b = a \/ c = a
      BY <1>0, <2>2, <3>1, Alone
    <3>2. CASE b # a /\ c # a
      BY <1>0, <2>2, <3>2 DEF OnlyOf, IInv, Solo
    <3> QED
      BY <3>1, <3>2
  <2>3. Solo'
    BY <2>2 DEF Solo
  <2> QED
    BY <2>1, <2>3 DEF Good, Moved, IInv
<1>2. ASSUME NEW type \in Types \ disturbed'
      PROVE  /\ \A b \in Actors : type \in job'[b].about => Owed(type, b)'
             /\ ~UnderWay(type)' => Subscribed(type)' /\ Routed(type)'
  <2>0. type \in Types \ disturbed /\ TypeKept(type, a)
    BY <1>0 DEF Good
  <2>1. CASE type \in job'[a].about
    BY <1>0, <2>0, <2>1, Alone DEF TypeKept, UnderWay
  <2>2. CASE type \in job[a].about \ job'[a].about
    BY <1>0, <2>0, <2>2, Alone DEF TypeKept
  <2>3. CASE type \notin job[a].about \cup job'[a].about
    <3>1. Unconcerned(type)
      BY <2>0, <2>3 DEF TypeKept
    <3>2. \A b \in Actors \ {a} : job'[b] = job[b] /\ pc'[b] = pc[b]
      BY <1>0 DEF OnlyOf
    <3>3. \A b \in Actors : type \in job'[b].about => Owed(type, b)'
      BY <2>0, <2>3, <3>1, <3>2, OwedStays DEF RouteInv
    <3>4. ~UnderWay(type)' => Subscribed(type)' /\ Routed(type)'
      BY <2>0, <2>3, <3>1, <3>2 DEF RouteInv, UnderWay, Unconcerned, Subscribed, Routed
    <3> QED
      BY <3>3, <3>4
  <2> QED
    BY <2>1, <2>2, <2>3
<1>3. ASSUME NEW t \in Transports \ disturbed'
      PROVE  /\ \A b \in Actors : t \in job'[b].transports => (job'[b].value <=> t \in transports')
             /\ (\A b \in Actors : t \notin job'[b].transports)
                    => (receiving'[t] <=> t \in transports')
  <2>0. /\ t \in Transports \ disturbed /\ TransportKept(t, a)
        /\ \A b \in Actors \ {a} : job'[b] = job[b]
        /\ \A b \in Actors : job[b].transports \subseteq job[b].about
    BY <1>0 DEF Good, OnlyOf, IInv, Shape
  <2>1. CASE t \in job[a].about \cup job'[a].about
    BY <1>0, <2>0, <2>1, Alone DEF TransportKept
  <2>2. CASE t \notin job[a].about \cup job'[a].about
    <3>1. job'[a].transports \subseteq job'[a].about
      BY <1>0 DEF Moved, Shape
    <3> QED
      BY <2>0, <2>2, <3>1 DEF TransportKept, ReceiverInv
  <2> QED
    BY <2>1, <2>2
<1> QED
  BY <1>1, <1>2, <1>3 DEF RouteInv, ReceiverInv

\* Before a call begins, a type that it is about and nobody disturbs has what it is owed.
LEMMA BeforeCall ==
  ASSUME IInv, RouteInv, ReceiverInv, NEW a \in Actors, Moved(a), job[a] = NoJob
  PROVE  /\ \A type \in Types \ disturbed' :
                type \in job'[a].about => Subscribed(type) /\ Routed(type)
         /\ \A t \in Transports \ disturbed' :
                t \in job'[a].about => (receiving[t] <=> t \in transports)
<1>0. job[a].about = {} /\ job[a].transports = {} /\ disturbed \subseteq disturbed'
  BY DEF NoJob, Moved
<1>1. ASSUME NEW type \in Types \ disturbed', type \in job'[a].about
      PROVE  Subscribed(type) /\ Routed(type)
  <2>1. ~UnderWay(type)
    BY <1>0, <1>1, Alone DEF UnderWay
  <2> QED
    BY <1>0, <1>1, <2>1 DEF RouteInv
<1>2. ASSUME NEW t \in Transports \ disturbed', t \in job'[a].about
      PROVE  receiving[t] <=> t \in transports
  <2>1. \A b \in Actors : t \notin job[b].transports
    BY <1>0, <1>2, Alone DEF IInv, Shape
  <2> QED
    BY <1>0, <1>2, <2>1 DEF ReceiverInv
<1> QED
  BY <1>1, <1>2

\* A type is not left owed anything by Continue that it was not owed by the job it is given.
LEMMA ContinueOwes ==
  ASSUME IInv, NEW a \in Actors, NEW j \in Jobs, Continue(a, j), NEW type \in Types,
         j.about = job[a].about,
         type \in j.about,
         (j.loop = "refresh" /\ type \in j.types) \/ Subscribed(type)',
         (j.loop \in {"route", "unroute"} /\ type \in j.types) \/ Routed(type)',
         j.loop = "refresh" /\ type \in j.types => type \in Registered',
         j.loop = "unroute" /\ type \in j.types => ~(initialized' /\ type \in subscriptions'),
         j.loop = "route" /\ type \in j.types => initialized' /\ type \in subscriptions'
  PROVE  TypeKept(type, a)
<1>1. CASE j.types = {} /\ j.transports = {}
  <2>1. type \in job[a].about /\ type \notin job'[a].about
    <3>1. job'[a] = NoJob
      BY <1>1, ContinueDoes DEF IInv
    <3> QED
      BY <3>1 DEF NoJob
  <2> QED
    BY <1>1, <2>1 DEF TypeKept
<1>2. CASE ~(j.types = {} /\ j.transports = {})
  <2>1. /\ job'[a] = [j EXCEPT !.type = None]
        /\ pc'[a] = IF j.types # {} THEN j.loop ELSE "receiver"
    BY <1>2, ContinueDoes DEF IInv
  <2>2. /\ job'[a].type = None /\ job'[a].types = j.types /\ job'[a].about = j.about
        /\ job'[a].loop = j.loop /\ j.loop \in Loops
    BY <2>1 DEF Jobs, Loops
  <2>3. pc'[a] \notin {"subscribe", "broker", "shutdown"} /\ None # type
    BY <2>1, <2>2, NoneAssumption DEF Loops
  <2>4. Owed(type, a)'
    BY <2>2, <2>3 DEF Owed
  <2> QED
    BY <2>2, <2>4 DEF TypeKept
<1> QED
  BY <1>1, <1>2

----------------------------------------------------------------------------
\* The beginnings of calls.

\* The record of a type changes only in a map with, or without, that type.
LEMMA OtherRecords ==
  ASSUME NEW x, NEW type, type # x,
         \/ \E r : registrations' = With(registrations, x, r)
         \/ registrations' = Without(registrations, x)
  PROVE  Record(type)' = Record(type)
BY DEF Record, Registered, With, Without

LEMMA RecordWith ==
  ASSUME NEW x, NEW r, registrations' = With(registrations, x, r)
  PROVE  Record(x)' = r /\ Registered' = Registered \cup {x}
BY DEF Record, Registered, With

LEMMA RegisterGood ==
  ASSUME IInv, RouteInv, ReceiverInv, NEW a \in Actors, NEW type \in Types, NEW r,
         Register(a, type, r)
  PROVE  Good(a)
<1> DEFINE j == [NoJob EXCEPT !.types = {type}, !.about = {type}]
<1>1. j \in Jobs /\ "refresh" \in Steps
  BY DEF NoJob, Jobs, Steps, Loops, Directions
<1>2. /\ j.types = {type} /\ j.about = {type} /\ j.transports = {} /\ j.type = None
      /\ j.loop = "refresh"
  BY DEF NoJob
<1>3. job'[a] = j /\ pc'[a] = "refresh"
  BY <1>1, BeginDoes DEF Register, IInv
<1>4. Shape(a)'
  BY <1>2, <1>3, NoneAssumption DEF Shape, Loops
<1>5. Moved(a) /\ job[a] = NoJob
  BY <1>1, <1>4, Begins DEF Register
<1>6. /\ UNCHANGED <<subscriptions, routed, initialized, transports, receiving>>
      /\ registrations' = With(registrations, type, r)
  BY DEF Register, broker
<1>7. ASSUME NEW x \in Types \ disturbed' PROVE TypeKept(x, a)
  <2>1. CASE x = type
    <3>1. Routed(x)'
      BY <1>2, <1>3, <1>5, <1>6, <2>1, BeforeCall DEF Routed
    <3> QED
      BY <1>2, <1>3, <1>6, <2>1, <3>1, RecordWith, NoneAssumption DEF TypeKept, Owed
  <2>2. CASE x # type
    <3>1. Record(x)' = Record(x)
      BY <1>6, <2>2, OtherRecords
    <3>2. x \notin job[a].about \cup job'[a].about
      BY <1>2, <1>3, <1>5, <2>2 DEF NoJob
    <3> QED
      BY <1>6, <2>2, <3>1, <3>2, RecordWith DEF TypeKept, Unconcerned, HasOutboundDirection
  <2> QED
    BY <2>1, <2>2
<1>8. ASSUME NEW t \in Transports \ disturbed' PROVE TransportKept(t, a)
  <2>1. t \notin job[a].about \cup job'[a].about
    BY <1>2, <1>3, <1>5, <1>8, ApartAssumption DEF NoJob
  <2> QED
    BY <1>6, <2>1 DEF TransportKept
<1>9. subscriptions' \subseteq Types /\ Registered' \subseteq Types
      /\ transports' \subseteq Transports /\ receiving' \in [Transports -> BOOLEAN]
      /\ initialized' \in BOOLEAN
  BY <1>6, RecordWith DEF IInv
<1> QED
  BY <1>5, <1>7, <1>8, <1>9 DEF Good

LEMMA BeginUnregisterGood ==
  ASSUME IInv, RouteInv, ReceiverInv, NEW a \in Actors, NEW S \in SUBSET Types,
         NEW scope \in Transports \cup {None}, NEW d \in Directions, NEW discard \in BOOLEAN,
         BeginUnregister(a, S, scope, d, discard)
  PROVE  Good(a)
<1> DEFINE j == [NoJob EXCEPT !.types = S, !.scope = scope, !.direction = d,
                             !.discard = discard, !.loop = "unregister", !.about = S]
<1>1. j \in Jobs /\ "unregister" \in Steps
  BY DEF NoJob, Jobs, Steps, Loops, Directions
<1>2. /\ j.types = S /\ j.about = S /\ j.transports = {} /\ j.type = None
      /\ j.loop = "unregister"
  BY DEF NoJob
<1>3. job'[a] = j /\ pc'[a] = "unregister"
  BY <1>1, BeginDoes DEF BeginUnregister, IInv
<1>4. Shape(a)'
  BY <1>2, <1>3, NoneAssumption DEF Shape, Loops
<1>5. Moved(a) /\ job[a] = NoJob
  BY <1>1, <1>4, Begins DEF BeginUnregister
<1>6. UNCHANGED <<registrations, subscriptions, routed, initialized, transports, receiving>>
  BY DEF BeginUnregister, broker, registry
<1>7. ASSUME NEW x \in Types \ disturbed' PROVE TypeKept(x, a)
  <2>1. CASE x \in S
    <3>1. Subscribed(x) /\ Routed(x)
      <4>1. x \in job'[a].about
        BY <1>2, <1>3, <2>1
      <4> QED
        BY <1>5, <4>1, BeforeCall
    <3>2. Subscribed(x)' /\ Routed(x)'
      BY <1>6, <3>1 DEF Subscribed, Routed, Record, Registered, HasOutboundDirection
    <3> QED
      BY <1>2, <1>3, <2>1, <3>2, NoneAssumption DEF TypeKept, Owed
  <2>2. CASE x \notin S
    BY <1>2, <1>3, <1>5, <1>6, <2>2
    DEF TypeKept, Unconcerned, Record, Registered, HasOutboundDirection, NoJob
  <2> QED
    BY <2>1, <2>2
<1>8. ASSUME NEW t \in Transports \ disturbed' PROVE TransportKept(t, a)
  <2>1. t \notin job[a].about \cup job'[a].about
    BY <1>2, <1>3, <1>5, <1>8, ApartAssumption DEF NoJob
  <2> QED
    BY <1>6, <2>1 DEF TransportKept
<1>9. subscriptions' \subseteq Types /\ Registered' \subseteq Types
      /\ transports' \subseteq Transports /\ receiving' \in [Transports -> BOOLEAN]
      /\ initialized' \in BOOLEAN
  BY <1>6 DEF IInv, Registered
<1> QED
  BY <1>5, <1>7, <1>8, <1>9 DEF Good

\* RegisterTransport.
LEMMA RegisterTransportGood ==
  ASSUME IInv, RouteInv, ReceiverInv, NEW a \in Actors, NEW t \in Transports,
         RegisterTransport(a, t)
  PROVE  Good(a)
<1> DEFINE j == [NoJob EXCEPT !.transports = {t}, !.value = TRUE, !.about = {t}]
<1>1. j \in Jobs /\ "receiver" \in Steps
  BY DEF NoJob, Jobs, Steps, Loops, Directions
<1>2. /\ j.types = {} /\ j.about = {t} /\ j.transports = {t} /\ j.type = None
      /\ j.loop = "refresh" /\ j.value
  BY DEF NoJob
<1>3. job'[a] = j /\ pc'[a] = "receiver"
  BY <1>1, BeginDoes DEF RegisterTransport, IInv
<1>4. Shape(a)'
  BY <1>2, <1>3, NoneAssumption DEF Shape, Loops
<1>5. Moved(a) /\ job[a] = NoJob /\ job[a].about = {}
  <2>1. Moved(a) /\ job[a] = NoJob
    BY <1>1, <1>4, Begins DEF RegisterTransport
  <2> QED
    BY <2>1 DEF NoJob
<1>6. /\ UNCHANGED <<registrations, subscriptions, routed, initialized, receiving>>
      /\ transports' = transports \cup {t}
  BY DEF RegisterTransport, broker
<1>7. ASSUME NEW x \in Types \ disturbed' PROVE TypeKept(x, a)
  <2>1. x \notin job[a].about \cup job'[a].about
    BY <1>2, <1>3, <1>5, ApartAssumption
  <2> QED
    BY <1>6, <2>1 DEF TypeKept, Unconcerned, Record, Registered, HasOutboundDirection
<1>8. ASSUME NEW x \in Transports \ disturbed' PROVE TransportKept(x, a)
  BY <1>2, <1>3, <1>5, <1>6, Zenon DEF TransportKept
<1>9. subscriptions' \subseteq Types /\ Registered' \subseteq Types
      /\ transports' \subseteq Transports /\ receiving' \in [Transports -> BOOLEAN]
      /\ initialized' \in BOOLEAN
  BY <1>6 DEF IInv, Registered
<1> QED
  BY <1>5, <1>7, <1>8, <1>9 DEF Good

\* UnregisterTransport: every type is refreshed once the receiver is reset.
LEMMA UnregisterTransportGood ==
  ASSUME IInv, RouteInv, ReceiverInv, NEW a \in Actors, NEW t \in Transports,
         UnregisterTransport(a, t)
  PROVE  Good(a)
<1> DEFINE j == [NoJob EXCEPT !.types = Registered, !.transports = {t},
                             !.about = Registered \cup {t}]
<1>1. j \in Jobs /\ "receiver" \in Steps
  BY DEF NoJob, Jobs, Steps, Loops, Directions, IInv
<1>2. /\ j.types = Registered /\ j.about = Registered \cup {t} /\ j.transports = {t}
      /\ j.type = None /\ j.loop = "refresh" /\ ~j.value
  BY DEF NoJob
<1>3. job'[a] = j /\ pc'[a] = "receiver"
  BY <1>1, BeginDoes DEF UnregisterTransport, IInv
<1>4. Shape(a)'
  BY <1>2, <1>3, NoneAssumption DEF Shape, Loops
<1>5. Moved(a) /\ job[a] = NoJob /\ job[a].about = {}
  <2>1. Moved(a) /\ job[a] = NoJob
    BY <1>1, <1>4, Begins DEF UnregisterTransport
  <2> QED
    BY <2>1 DEF NoJob
<1>6. /\ UNCHANGED <<subscriptions, routed, initialized, receiving>>
      /\ transports' = transports \ {t} /\ Registered' = Registered
  BY DEF UnregisterTransport, broker, WithoutTransport, Registered
<1>7. ASSUME NEW x \in Types \ disturbed' PROVE TypeKept(x, a)
  <2>1. CASE x \in Registered
    <3>1. x \in job'[a].about /\ x \in job'[a].types
      BY <1>2, <1>3, <2>1
    <3>2. Routed(x)
      BY <1>5, <3>1, BeforeCall
    <3>3. Routed(x)'
      BY <1>6, <3>2 DEF Routed
    <3> QED
      BY <1>2, <1>3, <1>6, <2>1, <3>1, <3>3, NoneAssumption DEF TypeKept, Owed
  <2>2. CASE x \notin Registered
    <3>1. x \notin job[a].about \cup job'[a].about
      BY <1>2, <1>3, <1>5, <2>2, ApartAssumption
    <3>2. Record(x)' = Record(x)
      BY <1>6, <2>2 DEF Record
    <3> QED
      BY <1>6, <3>1, <3>2 DEF TypeKept, Unconcerned, HasOutboundDirection
  <2> QED
    BY <2>1, <2>2
<1>8. ASSUME NEW x \in Transports \ disturbed' PROVE TransportKept(x, a)
  <2>1. CASE x = t
    BY <1>2, <1>3, <1>6, <2>1, Zenon DEF TransportKept
  <2>2. CASE x # t
    <3>1. x \notin job[a].about \cup job'[a].about
      BY <1>2, <1>3, <1>5, <2>2, ApartAssumption DEF IInv
    <3> QED
      BY <1>6, <2>2, <3>1 DEF TransportKept
  <2> QED
    BY <2>1, <2>2
<1>9. subscriptions' \subseteq Types /\ Registered' \subseteq Types
      /\ transports' \subseteq Transports /\ receiving' \in [Transports -> BOOLEAN]
      /\ initialized' \in BOOLEAN
  BY <1>6 DEF IInv
<1> QED
  BY <1>5, <1>7, <1>8, <1>9 DEF Good

\* Initialize, up to the lock.
LEMMA InitializeGood ==
  ASSUME IInv, RouteInv, ReceiverInv, NEW a \in Actors, Initialize(a)
  PROVE  Good(a)
<1>1. NoJob \in Jobs /\ "initialize" \in Steps
  BY NoJobIsJob DEF Steps
<1>2. job'[a] = NoJob /\ pc'[a] = "initialize"
  BY <1>1, BeginDoes DEF Initialize, IInv
<1>3. Shape(a)'
  BY <1>2 DEF Shape, NoJob, Loops
<1>4. Moved(a) /\ job[a] = NoJob
  BY <1>1, <1>3, Begins DEF Initialize
<1>5. UNCHANGED <<registrations, subscriptions, routed, transports, receiving, initialized>>
  BY DEF Initialize, broker, registry
<1>6. job[a].about = {} /\ job'[a].about = {}
  BY <1>2, <1>4 DEF NoJob
<1>7. \A x \in Types : Unconcerned(x)
  BY <1>5 DEF Unconcerned, Record, Registered, HasOutboundDirection
<1> QED
  BY <1>4, <1>5, <1>6, <1>7 DEF Good, TypeKept, TransportKept, IInv, Registered

\* The section of Initialize: a manager without subscriptions has nothing to route.
LEMMA InitializeLockedGood ==
  ASSUME IInv, RouteInv, ReceiverInv, NEW a \in Actors, InitializeLocked(a)
  PROVE  Good(a)
<1> DEFINE j == IF subscriptions = {} THEN NoJob
               ELSE [NoJob EXCEPT !.types = subscriptions, !.value = TRUE, !.loop = "route",
                                  !.about = Types]
<1> DEFINE step == IF subscriptions = {} THEN "idle" ELSE "route"
<1>1. j \in Jobs /\ step \in Steps
  BY DEF NoJob, Jobs, Steps, Loops, Directions, IInv
<1>2. /\ subscriptions = {} => j = NoJob
      /\ subscriptions # {} => /\ j.types = subscriptions /\ j.about = Types
                              /\ j.transports = {} /\ j.type = None /\ j.loop = "route"
  BY DEF NoJob
<1>0. Engage(a, step, j) /\ pc[a] = "initialize"
  BY DEF InitializeLocked
<1>3. job'[a] = j /\ pc'[a] = step
  BY <1>0, <1>1, EngageDoes DEF IInv
<1>4. Shape(a)'
  <2>1. CASE subscriptions = {}
    BY <1>2, <1>3, <2>1 DEF Shape, Loops, NoJob
  <2>2. CASE subscriptions # {}
    BY <1>2, <1>3, <2>2, NoneAssumption DEF Shape, Loops, IInv
  <2> QED
    BY <2>1, <2>2
<1>5. Moved(a) /\ job[a] = NoJob /\ job[a].about = {}
  <2>1. Moved(a) /\ job[a] = NoJob
    BY <1>0, <1>1, <1>4, Engages DEF IInv, Shape
  <2> QED
    BY <2>1 DEF NoJob
<1>6. /\ UNCHANGED <<registrations, subscriptions, routed, transports, receiving>>
      /\ initialized \in BOOLEAN /\ initialized' = TRUE
  BY DEF InitializeLocked, broker, registry, IInv
<1>7. ASSUME NEW x \in Types \ disturbed' PROVE TypeKept(x, a)
  <2>1. CASE subscriptions = {}
    <3>1. x \notin job[a].about \cup job'[a].about
      BY <1>2, <1>3, <1>5, <2>1 DEF NoJob
    <3> QED
      BY <1>6, <2>1, <3>1 DEF TypeKept, Unconcerned, Record, Registered, HasOutboundDirection
  <2>2. CASE subscriptions # {}
    <3>1. x \in job'[a].about
      BY <1>2, <1>3, <2>2
    <3>2. Subscribed(x) /\ Routed(x)
      BY <1>5, <3>1, BeforeCall
    <3>3. Subscribed(x)'
      BY <1>6, <3>2 DEF Subscribed, Record, Registered, HasOutboundDirection
    <3>4. x \in subscriptions \/ Routed(x)'
      BY <1>6, <3>2 DEF Routed
    <3> QED
      BY <1>2, <1>3, <1>6, <2>2, <3>1, <3>3, <3>4, NoneAssumption DEF TypeKept, Owed
  <2> QED
    BY <2>1, <2>2
<1>8. ASSUME NEW t \in Transports \ disturbed' PROVE TransportKept(t, a)
  <2>1. t \notin job[a].about \cup job'[a].about
    BY <1>2, <1>3, <1>5, ApartAssumption DEF NoJob
  <2> QED
    BY <1>6, <2>1 DEF TransportKept
<1>9. subscriptions' \subseteq Types /\ Registered' \subseteq Types
      /\ transports' \subseteq Transports /\ receiving' \in [Transports -> BOOLEAN]
      /\ initialized' \in BOOLEAN
  BY <1>6 DEF IInv, Registered
<1> QED
  BY <1>5, <1>7, <1>8, <1>9 DEF Good

\* Shutdown, up to the lock.
LEMMA ShutdownGood ==
  ASSUME IInv, RouteInv, ReceiverInv, NEW a \in Actors, Shutdown(a)
  PROVE  Good(a)
<1> DEFINE j == [NoJob EXCEPT !.discard = initialized, !.loop = "unroute",
                             !.about = Types \cup Transports]
<1>1. j \in Jobs /\ "shutdown" \in Steps
  BY DEF NoJob, Jobs, Steps, Loops, Directions, IInv
<1>2. /\ j.types = {} /\ j.about = Types \cup Transports /\ j.transports = {} /\ j.type = None
      /\ j.loop = "unroute" /\ j.discard = initialized /\ ~j.value
  BY DEF NoJob
<1>3. job'[a] = j /\ pc'[a] = "shutdown"
  BY <1>1, BeginDoes DEF Shutdown, IInv
<1>4. Shape(a)'
  BY <1>2, <1>3, NoneAssumption DEF Shape, Loops
<1>5. Moved(a) /\ job[a] = NoJob /\ job[a].about = {}
  <2>1. Moved(a) /\ job[a] = NoJob
    BY <1>1, <1>4, Begins DEF Shutdown
  <2> QED
    BY <2>1 DEF NoJob
<1>6. /\ UNCHANGED <<registrations, subscriptions, routed, transports, receiving>>
      /\ initialized' = FALSE
  BY DEF Shutdown, broker, registry
<1>7. ASSUME NEW x \in Types \ disturbed' PROVE TypeKept(x, a)
  <2>1. x \in job'[a].about
    BY <1>2, <1>3
  <2>2. Subscribed(x) /\ Routed(x)
    BY <1>5, <2>1, BeforeCall
  <2>3. Subscribed(x)'
    BY <1>6, <2>2 DEF Subscribed, Record, Registered, HasOutboundDirection
  <2>4. x \in routed' <=> job'[a].discard /\ x \in subscriptions'
    BY <1>2, <1>3, <1>6, <2>2 DEF Routed
  <2> QED
    BY <1>2, <1>3, <1>6, <2>1, <2>3, <2>4, NoneAssumption DEF TypeKept, Owed
<1>8. ASSUME NEW t \in Transports \ disturbed' PROVE TransportKept(t, a)
  <2>1. t \in job'[a].about /\ t \notin job'[a].transports
    BY <1>2, <1>3
  <2>2. receiving[t] <=> t \in transports
    BY <1>5, <2>1, BeforeCall
  <2> QED
    BY <1>6, <2>1, <2>2 DEF TransportKept
<1>9. subscriptions' \subseteq Types /\ Registered' \subseteq Types
      /\ transports' \subseteq Transports /\ receiving' \in [Transports -> BOOLEAN]
      /\ initialized' \in BOOLEAN
  BY <1>6 DEF IInv, Registered
<1> QED
  BY <1>5, <1>7, <1>8, <1>9 DEF Good

----------------------------------------------------------------------------
\* The steps of calls under way.

\* What a call under way is about, and nobody disturbs, is owed what the call says.
LEMMA UnderWayOwed ==
  ASSUME IInv, RouteInv, NEW a \in Actors, disturbed' = disturbed,
         NEW type \in Types \ disturbed', type \in job[a].about
  PROVE  Owed(type, a)
BY DEF RouteInv

\* A step that changes no type's record, subscription or route.
LEMMA NothingForTypes ==
  ASSUME UNCHANGED <<registrations, subscriptions, routed, initialized>>, NEW type
  PROVE  /\ Unconcerned(type)
         /\ Subscribed(type)' <=> Subscribed(type)
         /\ Routed(type)' <=> Routed(type)
         /\ Record(type)' = Record(type)
BY DEF Unconcerned, Subscribed, Routed, Record, Registered, HasOutboundDirection

\* A step that changes no transport, and leaves its call the transports it had.
LEMMA NothingForTransports ==
  ASSUME IInv, ReceiverInv, NEW a \in Actors, Moved(a), disturbed' = disturbed,
         UNCHANGED <<transports, receiving>>,
         job[a].transports = {}, job'[a].transports = {}
  PROVE  \A t \in Transports \ disturbed' : TransportKept(t, a)
<1> SUFFICES ASSUME NEW t \in Transports \ disturbed' PROVE TransportKept(t, a)
  OBVIOUS
<1>1. CASE t \in job[a].about \cup job'[a].about
  <2>1. \A b \in Actors : t \notin job[b].transports
    BY <1>1, Alone DEF IInv, Shape
  <2> QED
    BY <1>1, <2>1 DEF TransportKept, ReceiverInv
<1>2. CASE t \notin job[a].about \cup job'[a].about
  BY <1>2 DEF TransportKept
<1> QED
  BY <1>1, <1>2

\* The call after Continue is about no more than it was, and has the transports it was given.
LEMMA ContinueTransports ==
  ASSUME IInv, NEW a \in Actors, NEW j \in Jobs, Continue(a, j)
  PROVE  /\ job'[a].transports = j.transports \/ job'[a].transports = {}
         /\ job'[a].about \subseteq j.about
         /\ job'[a].transports # {} => job'[a].value = j.value
<1>1. CASE j.types = {} /\ j.transports = {}
  <2>1. job'[a] = NoJob
    BY <1>1, ContinueDoes DEF IInv
  <2> QED
    BY <2>1 DEF NoJob
<1>2. CASE ~(j.types = {} /\ j.transports = {})
  <2>1. job'[a] = [j EXCEPT !.type = None]
    BY <1>2, ContinueDoes DEF IInv
  <2> QED
    BY <2>1 DEF Jobs
<1> QED
  BY <1>1, <1>2

LEMMA RefreshGood ==
  ASSUME IInv, RouteInv, ReceiverInv, NEW a \in Actors, RefreshOutboundSubscription(a)
  PROVE  Good(a)
<1>0. PICK type \in job[a].types : Refreshed(a, type, [job[a] EXCEPT !.types = @ \ {type}])
  BY DEF RefreshOutboundSubscription
<1> DEFINE rest == [job[a] EXCEPT !.types = @ \ {type}]
<1>1. /\ pc[a] = "refresh" /\ job[a] \in Jobs /\ job[a].loop = "refresh" /\ Shape(a)
      /\ job[a].transports = {} /\ job[a].type = None
      /\ UNCHANGED <<registrations, subscriptions, routed, initialized, transports, receiving>>
  BY DEF RefreshOutboundSubscription, IInv, CallTypes, Shape, Loops, registry, broker
<1>2. /\ rest \in Jobs /\ rest.types = job[a].types \ {type} /\ rest.about = job[a].about
      /\ rest.transports = {} /\ rest.loop = "refresh"
  BY <1>1 DEF Jobs
<1>3. type \in Types /\ type \in job[a].about
  BY <1>1 DEF Jobs, Shape
<1>4. CASE type \in Registered
  <2>1. Subscribe(a, type, Record(type), rest)
    BY <1>0, <1>4 DEF Refreshed
  <2>2. /\ Moved(a) /\ pc'[a] = "subscribe"
        /\ job'[a].type = type /\ job'[a].types = job[a].types \ {type}
        /\ job'[a].loop = job[a].loop /\ job'[a].about = job[a].about
        /\ job'[a].value <=> HasOutboundDirection(Record(type))
    BY <1>1, <1>2, <1>3, <2>1, Subscribes
  <2>3. disturbed' = disturbed
    BY <2>1 DEF Subscribe, Goto
  <2>4. job'[a].transports = {}
    BY <2>2 DEF Moved, Shape
  <2>5. ASSUME NEW x \in Types \ disturbed' PROVE TypeKept(x, a)
    <3>1. CASE x \in job[a].about
      <4>1. Owed(x, a)
        BY <2>3, <3>1, UnderWayOwed
      <4>2. /\ HasOutboundDirection(Record(type))' <=> HasOutboundDirection(Record(type))
            /\ Subscribed(x)' <=> Subscribed(x)
            /\ Routed(x)' <=> Routed(x)
        BY <1>1, NothingForTypes DEF Unconcerned
      <4>3. Owed(x, a)'
        BY <1>1, <2>2, <4>1, <4>2 DEF Owed, Registered
      <4> QED
        BY <2>2, <3>1, <4>3 DEF TypeKept
    <3>2. CASE x \notin job[a].about
      BY <1>1, <2>2, <3>2, NothingForTypes DEF TypeKept
    <3> QED
      BY <3>1, <3>2
  <2> QED
    BY <1>1, <2>2, <2>3, <2>4, <2>5, NothingForTransports DEF Good, IInv, Registered
<1>5. CASE type \notin Registered
  <2>1. Continue(a, rest)
    BY <1>0, <1>5 DEF Refreshed
  <2>2. Moved(a) /\ disturbed' = disturbed
    <3>1. Moved(a)
      BY <1>1, <1>2, <2>1, Continues DEF Shape
    <3> QED
      BY <1>2, <2>1, <3>1, ContinueDoes DEF IInv
  <2>3. ASSUME NEW x \in Types \ disturbed' PROVE TypeKept(x, a)
    <3>1. CASE x \in job[a].about
      <4>1. Owed(x, a)
        BY <2>2, <3>1, UnderWayOwed
      <4>2. x = type \/ (x \in rest.types <=> x \in job[a].types)
        BY <1>2
      <4>3. (Subscribed(x)' <=> Subscribed(x)) /\ (Routed(x)' <=> Routed(x))
        BY <1>1, NothingForTypes
      <4>4. x # type /\ Registered' = Registered
        BY <1>0, <1>1, <1>5, <4>1 DEF Owed, Registered
      <4>5. pc[a] \notin {"subscribe", "broker", "shutdown"}
        BY <1>1
      <4> QED
        BY <1>1, <1>2, <2>1, <3>1, <4>1, <4>2, <4>3, <4>4, <4>5, ContinueOwes DEF Owed
    <3>2. CASE x \notin job[a].about
      <4>1. x \notin job'[a].about
        BY <1>2, <2>1, <3>2, ContinueTransports
      <4> QED
        BY <1>1, <3>2, <4>1, NothingForTypes DEF TypeKept
    <3> QED
      BY <3>1, <3>2
  <2>4. job'[a].transports = {}
    BY <1>2, <2>1, ContinueTransports
  <2> QED
    BY <1>1, <2>2, <2>3, <2>4, NothingForTransports DEF Good, IInv, Registered
<1> QED
  BY <1>4, <1>5

LEMMA SetOutboundGood ==
  ASSUME IInv, RouteInv, ReceiverInv, NEW a \in Actors, SetOutboundSubscription(a)
  PROVE  Good(a)
<1> DEFINE j == job[a]
<1> DEFINE type == job[a].type
<1>1. /\ pc[a] = "subscribe" /\ j \in Jobs /\ Shape(a) /\ j.transports = {}
      /\ type \in Types /\ type \in j.about \ j.types /\ j.loop \in {"refresh", "unregister"}
      /\ UNCHANGED <<registrations, routed, initialized, transports, receiving>>
  BY DEF SetOutboundSubscription, IInv, CallTypes, Shape, Loops, registry, Jobs
<1>2. /\ type \in subscriptions' <=> j.value
      /\ \A x \in Types : x # type => (x \in subscriptions' <=> x \in subscriptions)
      /\ subscriptions' \subseteq Types
      /\ \/ Continue(a, j) /\ (~initialized \/ UNCHANGED subscriptions)
         \/ Goto(a, "broker", j) /\ initialized
  BY <1>1 DEF SetOutboundSubscription, IInv
<1>3. \A x \in Types : /\ Record(x)' = Record(x) /\ (x \in Registered' <=> x \in Registered)
                       /\ HasOutboundDirection(Record(x))' <=> HasOutboundDirection(Record(x))
  BY <1>1 DEF Record, Registered, HasOutboundDirection
<1>4. ASSUME disturbed' = disturbed, NEW x \in Types \ disturbed', x \in j.about
      PROVE  /\ Owed(x, a)
             /\ x # type => (Subscribed(x)' <=> Subscribed(x)) /\ (Routed(x)' <=> Routed(x))
             /\ x = type => Subscribed(x)' /\ Routed(x)
  <2>1. Owed(x, a)
    BY <1>4, UnderWayOwed
  <2>2. x # type => (Subscribed(x)' <=> Subscribed(x)) /\ (Routed(x)' <=> Routed(x))
    BY <1>1, <1>2, <1>3 DEF Subscribed, Routed
  <2>3. x = type => Subscribed(x)' /\ Routed(x)
    BY <1>1, <1>2, <1>3, <2>1 DEF Subscribed, Owed
  <2> QED
    BY <2>1, <2>2, <2>3
<1>5. CASE Continue(a, j) /\ (~initialized \/ UNCHANGED subscriptions)
  <2>1. Moved(a) /\ disturbed' = disturbed
    <3>1. Moved(a)
      BY <1>1, <1>5, Continues DEF Shape
    <3> QED
      BY <1>1, <1>5, <3>1, ContinueDoes DEF IInv
  <2>2. ASSUME NEW x \in Types \ disturbed' PROVE TypeKept(x, a)
    <3>1. CASE x \in j.about
      <4>1. /\ Owed(x, a)
            /\ x # type => (Subscribed(x)' <=> Subscribed(x)) /\ (Routed(x)' <=> Routed(x))
            /\ x = type => Subscribed(x)' /\ Routed(x)
        BY <1>4, <2>1, <3>1
      <4>2. x = type => Routed(x)'
        BY <1>1, <1>2, <1>5, <4>1 DEF Routed
      <4>3. (j.loop = "refresh" /\ x \in j.types) \/ Subscribed(x)'
        BY <1>1, <4>1 DEF Owed
      <4>4. Routed(x)'
        BY <1>1, <4>1, <4>2 DEF Owed
      <4>5. j.loop = "refresh" /\ x \in j.types => x \in Registered'
        BY <1>3, <4>1 DEF Owed
      <4> QED
        BY <1>1, <1>5, <3>1, <4>3, <4>4, <4>5, ContinueOwes
    <3>2. CASE x \notin j.about
      <4>1. x \notin job'[a].about
        BY <1>1, <1>5, <3>2, ContinueTransports
      <4> QED
        BY <1>1, <1>2, <1>3, <3>2, <4>1 DEF TypeKept, Unconcerned
    <3> QED
      BY <3>1, <3>2
  <2>3. job'[a].transports = {}
    BY <1>1, <1>5, ContinueTransports
  <2> QED
    BY <1>1, <1>2, <2>1, <2>2, <2>3, NothingForTransports DEF Good, IInv, Registered
<1>6. CASE Goto(a, "broker", j) /\ initialized
  <2>1. /\ job'[a] = j /\ pc'[a] = "broker" /\ OnlyOf(a) /\ CallTypes' /\ disturbed' = disturbed
    <3>1. "broker" \in Steps
      BY DEF Steps
    <3> QED
      BY <1>1, <1>6, <3>1, GotoDoes DEF IInv
  <2>2. Moved(a)
    <3>1. Shape(a)'
      BY <1>1, <2>1 DEF Shape, Loops
    <3> QED
      BY <2>1, <3>1, GoesOn
  <2>3. ASSUME NEW x \in Types \ disturbed' PROVE TypeKept(x, a)
    <3>1. CASE x \in j.about
      <4>1. /\ Owed(x, a)
            /\ x # type => (Subscribed(x)' <=> Subscribed(x)) /\ (Routed(x)' <=> Routed(x))
            /\ x = type => Subscribed(x)' /\ Routed(x)
        BY <1>4, <2>1, <3>1
      <4>2. Owed(x, a)'
        BY <1>1, <1>3, <1>6, <2>1, <4>1 DEF Owed
      <4> QED
        BY <2>1, <3>1, <4>2 DEF TypeKept
    <3>2. CASE x \notin j.about
      BY <1>1, <1>2, <1>3, <2>1, <3>2 DEF TypeKept, Unconcerned
    <3> QED
      BY <3>1, <3>2
  <2> QED
    BY <1>1, <1>2, <2>1, <2>2, <2>3, NothingForTransports DEF Good, IInv, Registered
<1> QED
  BY <1>2, <1>5, <1>6

LEMMA CallBrokerGood ==
  ASSUME IInv, RouteInv, ReceiverInv, NEW a \in Actors, CallBroker(a)
  PROVE  Good(a)
<1> DEFINE j == job[a]
<1> DEFINE type == job[a].type
<1>1. /\ pc[a] = "broker" /\ j \in Jobs /\ Shape(a) /\ j.transports = {}
      /\ type \in Types /\ type \in j.about \ j.types /\ j.loop \in {"refresh", "unregister"}
      /\ UNCHANGED <<registrations, subscriptions, initialized, transports, receiving>>
      /\ Continue(a, j)
  BY DEF CallBroker, IInv, CallTypes, Shape, Loops, registry, Jobs
<1>2. /\ type \in routed' <=> j.value
      /\ \A x \in Types : x # type => (x \in routed' <=> x \in routed)
  BY <1>1 DEF CallBroker
<1>3. \A x \in Types : /\ Record(x)' = Record(x) /\ (x \in Registered' <=> x \in Registered)
                       /\ HasOutboundDirection(Record(x))' <=> HasOutboundDirection(Record(x))
  BY <1>1 DEF Record, Registered, HasOutboundDirection
<1>4. Moved(a) /\ disturbed' = disturbed
  <2>1. Moved(a)
    BY <1>1, Continues DEF Shape
  <2> QED
    BY <1>1, <2>1, ContinueDoes DEF IInv
<1>5. ASSUME NEW x \in Types \ disturbed' PROVE TypeKept(x, a)
  <2>1. CASE x \in j.about
    <3>1. Owed(x, a)
      BY <1>4, <2>1, UnderWayOwed
    <3>2. Subscribed(x)' <=> Subscribed(x)
      BY <1>1, <1>3 DEF Subscribed
    <3>3. Routed(x)'
      <4>1. CASE x = type
        <5>1. Subscribed(x) /\ initialized /\ (j.value <=> HasOutboundDirection(Record(x)))
          BY <1>1, <3>1, <4>1 DEF Owed
        <5> QED
          BY <1>1, <1>2, <4>1, <5>1 DEF Routed, Subscribed
      <4>2. CASE x # type
        <5>1. Routed(x)
          BY <1>1, <3>1, <4>2 DEF Owed
        <5> QED
          BY <1>1, <1>2, <4>2, <5>1 DEF Routed
      <4> QED
        BY <4>1, <4>2
    <3>4. /\ (j.loop = "refresh" /\ x \in j.types) \/ Subscribed(x)'
          /\ j.loop = "refresh" /\ x \in j.types => x \in Registered'
      BY <1>1, <1>3, <3>1, <3>2 DEF Owed
    <3> QED
      BY <1>1, <2>1, <3>3, <3>4, ContinueOwes
  <2>2. CASE x \notin j.about
    <3>1. x \notin job'[a].about /\ x # type
      BY <1>1, <2>2, ContinueTransports
    <3> QED
      BY <1>1, <1>2, <1>3, <2>2, <3>1 DEF TypeKept, Unconcerned
  <2> QED
    BY <2>1, <2>2
<1>6. job'[a].transports = {}
  BY <1>1, ContinueTransports
<1> QED
  BY <1>1, <1>4, <1>5, <1>6, NothingForTransports DEF Good, IInv, Registered

\* What a record that goes leaves behind asks for no more than it did.
LEMMA RecordKept ==
  ASSUME NEW type, NEW r, registrations' = Kept(type, r)
  PROVE  /\ HasOutboundDirection(Record(type))' <=> HasOutboundDirection(r)
         /\ \A x : x # type => Record(x)' = Record(x) /\ (x \in Registered' <=> x \in Registered)
<1>1. CASE HasAnyDirection(r) \/ type \in Runtime
  <2>1. registrations' = With(registrations, type, r)
    BY <1>1 DEF Kept
  <2>2. Record(type)' = r
    BY <2>1, RecordWith
  <2>3. \A x : x # type => Record(x)' = Record(x) /\ (x \in Registered' <=> x \in Registered)
    BY <2>1, RecordWith, OtherRecords
  <2> QED
    BY <2>2, <2>3 DEF HasOutboundDirection
<1>2. CASE ~(HasAnyDirection(r) \/ type \in Runtime)
  <2>1. registrations' = Without(registrations, type)
    BY <1>2 DEF Kept
  <2>2. Record(type)' = Blank /\ Registered' = Registered \ {type}
    BY <2>1 DEF Record, Registered, Without
  <2>3. ~HasOutboundDirection(Blank) /\ ~HasOutboundDirection(r)
    BY <1>2 DEF HasOutboundDirection, HasAnyDirection, Blank
  <2>4. \A x : x # type => Record(x)' = Record(x) /\ (x \in Registered' <=> x \in Registered)
    BY <2>1, <2>2, OtherRecords
  <2> QED
    BY <2>2, <2>3, <2>4 DEF HasOutboundDirection
<1> QED
  BY <1>1, <1>2

\* One type's section of an unregistration.
LEMMA UnregisterGood ==
  ASSUME IInv, RouteInv, ReceiverInv, NEW a \in Actors, NEW type \in Types, NEW r, NEW D,
         pc[a] = "unregister", type \in job[a].types,
         Unregister(a, type, r, D),
         UNCHANGED <<broker, receiving, initialized>>
  PROVE  Good(a)
<1> DEFINE rest == [job[a] EXCEPT !.types = @ \ {type}]
<1>1. /\ job[a] \in Jobs /\ Shape(a) /\ job[a].transports = {} /\ type \in job[a].about
      /\ job[a].loop = "unregister" /\ job[a].type = None
      /\ UNCHANGED <<subscriptions, routed, initialized, transports, receiving>>
  BY DEF Unregister, IInv, CallTypes, Shape, Loops, registry, broker
<1>2. /\ rest \in Jobs /\ rest.types = job[a].types \ {type} /\ rest.about = job[a].about
      /\ rest.transports = {} /\ rest.loop = "unregister"
  BY <1>1 DEF Jobs
<1>3. CASE type \notin Registered \/ r = Record(type)
  <2>1. Continue(a, rest) /\ UNCHANGED registrations
    BY <1>3 DEF Unregister, registry
  <2>2. Moved(a) /\ disturbed' = disturbed
    <3>1. Moved(a)
      BY <1>1, <1>2, <2>1, Continues DEF Shape
    <3> QED
      BY <1>2, <2>1, <3>1, ContinueDoes DEF IInv
  <2>3. ASSUME NEW x \in Types \ disturbed' PROVE TypeKept(x, a)
    <3>1. CASE x \in job[a].about
      <4>1. Owed(x, a)
        BY <2>2, <3>1, UnderWayOwed
      <4>2. (Subscribed(x)' <=> Subscribed(x)) /\ (Routed(x)' <=> Routed(x))
        BY <1>1, <2>1, NothingForTypes
      <4>3. Subscribed(x)' /\ Routed(x)'
        BY <1>1, <4>1, <4>2 DEF Owed
      <4> QED
        BY <1>1, <1>2, <2>1, <3>1, <4>3, ContinueOwes
    <3>2. CASE x \notin job[a].about
      <4>1. x \notin job'[a].about
        BY <1>2, <2>1, <3>2, ContinueTransports
      <4> QED
        BY <1>1, <2>1, <3>2, <4>1, NothingForTypes DEF TypeKept
    <3> QED
      BY <3>1, <3>2
  <2>4. job'[a].transports = {}
    BY <1>2, <2>1, ContinueTransports
  <2> QED
    BY <1>1, <2>1, <2>2, <2>3, <2>4, NothingForTransports DEF Good, IInv, Registered
<1>4. CASE ~(type \notin Registered \/ r = Record(type))
  <2>1. Subscribe(a, type, r, rest) /\ registrations' = Kept(type, r)
    BY <1>4 DEF Unregister
  <2>2. /\ Moved(a) /\ pc'[a] = "subscribe"
        /\ job'[a].type = type /\ job'[a].types = job[a].types \ {type}
        /\ job'[a].loop = job[a].loop /\ job'[a].about = job[a].about
        /\ job'[a].value <=> HasOutboundDirection(r)
    BY <1>1, <1>2, <2>1, Subscribes
  <2>3. disturbed' = disturbed
    BY <2>1 DEF Subscribe, Goto
  <2>4. job'[a].transports = {}
    BY <2>2 DEF Moved, Shape
  <2>5. /\ HasOutboundDirection(Record(type))' <=> HasOutboundDirection(r)
        /\ \A x : x # type => Record(x)' = Record(x) /\ (x \in Registered' <=> x \in Registered)
    BY <2>1, RecordKept
  <2>6. ASSUME NEW x \in Types \ disturbed' PROVE TypeKept(x, a)
    <3>1. CASE x \in job[a].about
      <4>1. Owed(x, a)
        BY <2>3, <3>1, UnderWayOwed
      <4>2. Subscribed(x) /\ Routed(x)
        BY <1>1, <4>1 DEF Owed
      <4>3. Routed(x)' /\ (x # type => Subscribed(x)')
        BY <1>1, <2>5, <4>2 DEF Subscribed, Routed, HasOutboundDirection
      <4>4. Owed(x, a)'
        BY <1>1, <2>2, <2>5, <4>3 DEF Owed
      <4> QED
        BY <2>2, <3>1, <4>4 DEF TypeKept
    <3>2. CASE x \notin job[a].about
      <4>1. x # type
        BY <1>1, <3>2
      <4>2. Unconcerned(x)
        BY <1>1, <2>5, <4>1 DEF Unconcerned, HasOutboundDirection
      <4> QED
        BY <2>2, <3>2, <4>2 DEF TypeKept
    <3> QED
      BY <3>1, <3>2
  <2>7. Registered' \subseteq Types
    BY <2>5 DEF IInv
  <2> QED
    BY <1>1, <2>2, <2>3, <2>4, <2>6, <2>7, NothingForTransports DEF Good, IInv
<1> QED
  BY <1>3, <1>4

LEMMA UnregisterNextGood ==
  ASSUME IInv, RouteInv, ReceiverInv, NEW a \in Actors, UnregisterNext(a)
  PROVE  Good(a)
<1>1. PICK type \in Types : UnregisterEvent(a, type)
                             \/ \E t \in Transports : UnregisterTransportEvent(a, type, t)
  BY DEF UnregisterNext
<1>2. pc[a] = "unregister" /\ UNCHANGED <<broker, receiving, initialized>>
  BY DEF UnregisterNext
<1>3. CASE UnregisterEvent(a, type)
  BY <1>2, <1>3, UnregisterGood DEF UnregisterEvent
<1>4. ASSUME NEW t \in Transports, UnregisterTransportEvent(a, type, t) PROVE Good(a)
  BY <1>2, <1>4, UnregisterGood DEF UnregisterTransportEvent
<1> QED
  BY <1>1, <1>3, <1>4

LEMMA SetReceiverGood ==
  ASSUME IInv, RouteInv, ReceiverInv, NEW a \in Actors, SetReceiver(a)
  PROVE  Good(a)
<1>0. PICK t \in job[a].transports :
        /\ receiving' = [receiving EXCEPT ![t] = job[a].value]
        /\ Continue(a, [job[a] EXCEPT !.transports = @ \ {t}])
  BY DEF SetReceiver
<1> DEFINE rest == [job[a] EXCEPT !.transports = @ \ {t}]
<1>1. /\ pc[a] = "receiver" /\ job[a] \in Jobs /\ Shape(a) /\ job[a].type = None
      /\ t \in Transports /\ t \in job[a].about
      /\ UNCHANGED <<registrations, subscriptions, routed, initialized, transports>>
  BY DEF SetReceiver, IInv, CallTypes, Shape, Jobs, registry, broker
<1>2. /\ rest \in Jobs /\ rest.types = job[a].types /\ rest.about = job[a].about
      /\ rest.transports = job[a].transports \ {t} /\ rest.loop = job[a].loop
      /\ rest.value = job[a].value
  BY <1>1 DEF Jobs
<1>3. Continue(a, rest)
  BY <1>0
<1>4. Moved(a) /\ disturbed' = disturbed
  <2>1. Moved(a)
    BY <1>1, <1>2, <1>3, Continues DEF Shape
  <2> QED
    BY <1>2, <1>3, <2>1, ContinueDoes DEF IInv
<1>5. ASSUME NEW x \in Types \ disturbed' PROVE TypeKept(x, a)
  <2>1. CASE x \in job[a].about
    <3>1. Owed(x, a)
      BY <1>4, <2>1, UnderWayOwed
    <3>2. /\ (Subscribed(x)' <=> Subscribed(x)) /\ (Routed(x)' <=> Routed(x))
          /\ Registered' = Registered
      BY <1>1, NothingForTypes DEF Registered
    <3>3. /\ (job[a].loop = "refresh" /\ x \in job[a].types) \/ Subscribed(x)'
          /\ (job[a].loop \in {"route", "unroute"} /\ x \in job[a].types) \/ Routed(x)'
          /\ job[a].loop = "refresh" /\ x \in job[a].types => x \in Registered'
      BY <1>1, <3>1, <3>2 DEF Owed
    <3>4. /\ job[a].loop = "unroute" /\ x \in job[a].types
                => ~(initialized' /\ x \in subscriptions')
          /\ job[a].loop = "route" /\ x \in job[a].types => initialized' /\ x \in subscriptions'
      BY <1>1, <3>1 DEF Owed
    <3> QED
      BY <1>1, <1>2, <1>3, <2>1, <3>3, <3>4, ContinueOwes
  <2>2. CASE x \notin job[a].about
    <3>1. x \notin job'[a].about
      BY <1>2, <1>3, <2>2, ContinueTransports
    <3> QED
      BY <1>1, <2>2, <3>1, NothingForTypes DEF TypeKept
  <2> QED
    BY <2>1, <2>2
<1>6. ASSUME NEW x \in Transports \ disturbed' PROVE TransportKept(x, a)
  <2>1. /\ job'[a].transports = rest.transports \/ job'[a].transports = {}
        /\ job'[a].about \subseteq job[a].about
        /\ job'[a].transports # {} => job'[a].value = job[a].value
    BY <1>2, <1>3, ContinueTransports
  <2>2. rest.transports # {} => job'[a].transports = rest.transports
    <3>1. rest.transports # {} => job'[a] = [rest EXCEPT !.type = None]
      BY <1>2, <1>3, ContinueDoes DEF IInv
    <3> QED
      BY <1>2, <3>1 DEF Jobs
  <2>3. CASE x \in job[a].about
    <3>1. x \in job[a].transports => (job[a].value <=> x \in transports)
      BY <1>4 DEF ReceiverInv
    <3>2. x \notin job[a].transports => (receiving[x] <=> x \in transports)
      <4>1. \A b \in Actors \ {a} : x \notin job[b].transports
        BY <1>4, <2>3, Alone DEF IInv, Shape
      <4> QED
        BY <1>4, <4>1 DEF ReceiverInv
    <3>3. x # t => receiving'[x] = receiving[x]
      BY <1>0 DEF IInv
    <3>4. receiving'[t] = job[a].value
      BY <1>0, <1>1 DEF IInv
    <3>5. CASE x \in job'[a].transports
      <4>1. x \in job[a].transports /\ job'[a].value = job[a].value
        BY <1>2, <2>1, <3>5
      <4> QED
        BY <1>1, <2>3, <3>1, <3>5, <4>1 DEF TransportKept
    <3>6. CASE x \notin job'[a].transports
      <4>1. x = t \/ x \notin job[a].transports
        BY <1>2, <2>2, <3>6
      <4>2. receiving'[x] <=> x \in transports'
        BY <1>1, <3>1, <3>2, <3>3, <3>4, <4>1
      <4> QED
        BY <2>3, <3>6, <4>2 DEF TransportKept
    <3> QED
      BY <3>5, <3>6
  <2>4. CASE x \notin job[a].about
    <3>1. x # t /\ receiving'[x] = receiving[x]
      BY <1>0, <1>1, <2>4 DEF IInv
    <3> QED
      BY <1>1, <2>1, <2>4, <3>1 DEF TransportKept
  <2> QED
    BY <2>3, <2>4
<1>7. receiving' \in [Transports -> BOOLEAN]
  BY <1>0, <1>1 DEF IInv, Jobs
<1> QED
  BY <1>1, <1>4, <1>5, <1>6, <1>7 DEF Good, IInv, Registered

LEMMA ShutdownLockedGood ==
  ASSUME IInv, RouteInv, ReceiverInv, NEW a \in Actors, ShutdownLocked(a)
  PROVE  Good(a)
<1>1. /\ pc[a] = "shutdown" /\ job[a] \in Jobs /\ Shape(a) /\ job[a].type = None
      /\ job[a].types = {} /\ job[a].transports = {} /\ job[a].loop = "unroute"
      /\ Types \subseteq job[a].about /\ Transports \subseteq job[a].about
      /\ UNCHANGED <<registrations, subscriptions, routed, initialized, receiving>>
  BY DEF ShutdownLocked, IInv, CallTypes, Shape, Loops, registry, broker
<1>2. ASSUME disturbed' = disturbed, NEW x \in Types \ disturbed'
      PROVE  /\ Subscribed(x)'
             /\ x \in routed' <=> job[a].discard /\ x \in subscriptions
             /\ ~(initialized' /\ x \in subscriptions')
  <2>1. Owed(x, a)
    BY <1>1, <1>2, UnderWayOwed
  <2> QED
    BY <1>1, <2>1, NothingForTypes DEF Owed
<1>3. CASE ~job[a].discard /\ transports = {}
  <2>1. Goto(a, "idle", NoJob) /\ UNCHANGED transports
    BY <1>3 DEF ShutdownLocked, registry
  <2>2. job'[a] = NoJob /\ pc'[a] = "idle" /\ OnlyOf(a) /\ CallTypes' /\ disturbed' = disturbed
    BY <2>1, GotoDoes, NoJobIsJob DEF IInv, Steps
  <2>3. NoJob.about = {} /\ NoJob.transports = {}
    BY DEF NoJob
  <2>4. Moved(a)
    <3>1. Shape(a)'
      BY <2>2 DEF Shape, NoJob, Loops
    <3> QED
      BY <2>2, <2>3, <3>1, GoesOn
  <2>5. ASSUME NEW x \in Types \ disturbed' PROVE TypeKept(x, a)
    <3>1. Subscribed(x)' /\ Routed(x)'
      BY <1>2, <1>3, <2>2 DEF Routed
    <3> QED
      BY <1>1, <2>2, <2>3, <3>1 DEF TypeKept
  <2>6. job'[a].transports = {}
    BY <2>2, <2>3
  <2> QED
    BY <1>1, <2>1, <2>2, <2>4, <2>5, <2>6, NothingForTransports DEF Good, IInv, Registered
<1>4. CASE ~(~job[a].discard /\ transports = {})
  <2> DEFINE j == [job[a] EXCEPT !.types = subscriptions, !.transports = Copied, !.discard = FALSE]
  <2>1. Continue(a, j) /\ transports' = {}
    BY <1>4 DEF ShutdownLocked
  <2>2. /\ j \in Jobs /\ j.types = subscriptions /\ j.transports = transports
        /\ j.about = job[a].about /\ j.loop = "unroute" /\ j.value = job[a].value
    BY <1>1 DEF Jobs, IInv, Copied
  <2>3. /\ OnlyOf(a) /\ CallTypes' /\ disturbed' = disturbed
        /\ j.types = {} /\ j.transports = {} => pc'[a] = "idle" /\ job'[a] = NoJob
        /\ ~(j.types = {} /\ j.transports = {}) =>
               /\ job'[a] = [j EXCEPT !.type = None]
               /\ pc'[a] = IF j.types # {} THEN j.loop ELSE "receiver"
    BY <2>1, <2>2, ContinueDoes DEF IInv
  <2>4. ~(j.types = {} /\ j.transports = {}) =>
            /\ job'[a].type = None /\ job'[a].types = subscriptions
            /\ job'[a].transports = transports /\ job'[a].about = job[a].about
            /\ job'[a].loop = "unroute" /\ job'[a].value = job[a].value
    BY <2>2, <2>3 DEF Jobs
  <2>5. Moved(a)
    <3>1. CASE j.types = {} /\ j.transports = {}
      <4>1. Shape(a)' /\ job'[a].about = {}
        BY <2>3, <3>1 DEF Shape, NoJob, Loops
      <4> QED
        BY <2>3, <4>1, GoesOn
    <3>2. CASE ~(j.types = {} /\ j.transports = {})
      <4>1. Shape(a)'
        BY <1>1, <2>2, <2>3, <2>4, <3>2 DEF Shape, Loops, IInv
      <4> QED
        BY <2>3, <2>4, <3>2, <4>1, GoesOn
    <3> QED
      BY <3>1, <3>2
  <2>6. ASSUME NEW x \in Types \ disturbed' PROVE TypeKept(x, a)
    <3>1. /\ Subscribed(x)' /\ ~(initialized' /\ x \in subscriptions')
          /\ x \in subscriptions \/ x \notin routed'
      BY <1>2, <2>3
    <3>2. x \in subscriptions \/ Routed(x)'
      BY <1>1, <3>1 DEF Routed
    <3> QED
      BY <1>1, <2>1, <2>2, <3>1, <3>2, ContinueOwes
  <2>7. ASSUME NEW t \in Transports \ disturbed' PROVE TransportKept(t, a)
    <3>1. t \in job[a].about
      BY <1>1
    <3>2. \A b \in Actors : t \notin job[b].transports
      BY <1>1, <2>5, <3>1, Alone DEF IInv, Shape
    <3>3. receiving[t] <=> t \in transports
      BY <2>3, <3>2 DEF ReceiverInv
    <3>4. CASE t \in transports
      <4>1. t \in job'[a].transports /\ ~job'[a].value
        BY <1>1, <2>2, <2>4, <3>4 DEF Shape
      <4> QED
        BY <2>1, <3>1, <4>1 DEF TransportKept
    <3>5. CASE t \notin transports
      <4>1. t \notin job'[a].transports
        BY <2>1, <2>2, <3>5, ContinueTransports
      <4> QED
        BY <1>1, <2>1, <3>1, <3>3, <3>5, <4>1 DEF TransportKept
    <3> QED
      BY <3>4, <3>5
  <2> QED
    BY <1>1, <2>1, <2>3, <2>5, <2>6, <2>7 DEF Good, IInv, Registered
<1> QED
  BY <1>3, <1>4

\* One route of Initialize or Shutdown.
LEMMA RouteSubscriptionGood ==
  ASSUME IInv, RouteInv, ReceiverInv, NEW a \in Actors, RouteSubscription(a)
  PROVE  Good(a)
<1>0. PICK type \in job[a].types :
        /\ routed' = IF pc[a] = "route" THEN routed \cup {type} ELSE routed \ {type}
        /\ Continue(a, [job[a] EXCEPT !.types = @ \ {type}])
  BY DEF RouteSubscription
<1> DEFINE rest == [job[a] EXCEPT !.types = @ \ {type}]
<1>1. /\ pc[a] \in {"route", "unroute"} /\ pc[a] = job[a].loop
      /\ job[a] \in Jobs /\ Shape(a) /\ job[a].type = None /\ Types \subseteq job[a].about
      /\ UNCHANGED <<registrations, subscriptions, initialized, transports, receiving>>
  BY DEF RouteSubscription, IInv, CallTypes, Shape, Loops, registry
<1>2. /\ rest \in Jobs /\ rest.types = job[a].types \ {type} /\ rest.about = job[a].about
      /\ rest.transports = job[a].transports /\ rest.loop = job[a].loop
      /\ rest.value = job[a].value
  BY <1>1 DEF Jobs
<1>3. Continue(a, rest)
  BY <1>0
<1>4. Moved(a) /\ disturbed' = disturbed
  <2>1. Moved(a)
    BY <1>1, <1>2, <1>3, Continues DEF Shape
  <2> QED
    BY <1>2, <1>3, <2>1, ContinueDoes DEF IInv
<1>5. ASSUME NEW x \in Types \ disturbed' PROVE TypeKept(x, a)
  <2>1. Owed(x, a) /\ x \in job[a].about
    BY <1>1, <1>4, UnderWayOwed
  <2>2. Subscribed(x)' /\ Registered' = Registered
    BY <1>1, <2>1 DEF Owed, Subscribed, Record, Registered, HasOutboundDirection
  <2>3. x \in job[a].types \ {type} \/ Routed(x)'
    <3>1. CASE x = type
      BY <1>0, <1>1, <2>1, <3>1 DEF Owed, Routed
    <3>2. CASE x # type
      BY <1>0, <1>1, <2>1, <3>2 DEF Owed, Routed
    <3> QED
      BY <3>1, <3>2
  <2>4. /\ job[a].loop = "unroute" /\ x \in job[a].types
              => ~(initialized' /\ x \in subscriptions')
        /\ job[a].loop = "route" /\ x \in job[a].types => initialized' /\ x \in subscriptions'
    BY <1>1, <2>1 DEF Owed
  <2> QED
    BY <1>1, <1>2, <1>3, <2>1, <2>2, <2>3, <2>4, ContinueOwes
<1>6. ASSUME NEW t \in Transports \ disturbed' PROVE TransportKept(t, a)
  <2>1. /\ job'[a].transports = rest.transports \/ job'[a].transports = {}
        /\ job'[a].about \subseteq job[a].about
        /\ job'[a].transports # {} => job'[a].value = job[a].value
    BY <1>2, <1>3, ContinueTransports
  <2>2. rest.transports # {} => job'[a].transports = rest.transports
    <3>1. rest.transports # {} => job'[a] = [rest EXCEPT !.type = None]
      BY <1>2, <1>3, ContinueDoes DEF IInv
    <3> QED
      BY <1>2, <3>1 DEF Jobs
  <2>3. CASE t \in job[a].about
    <3>1. \A b \in Actors \ {a} : t \notin job[b].transports
      BY <1>4, <2>3, Alone DEF IInv, Shape
    <3>2. t \in job'[a].transports <=> t \in job[a].transports
      BY <1>2, <2>1, <2>2
    <3>3. /\ t \in job[a].transports => (job[a].value <=> t \in transports)
          /\ t \notin job[a].transports => (receiving[t] <=> t \in transports)
      BY <1>4, <3>1 DEF ReceiverInv
    <3> QED
      BY <1>1, <2>1, <2>3, <3>2, <3>3 DEF TransportKept
  <2>4. CASE t \notin job[a].about
    BY <1>1, <2>1, <2>4 DEF TransportKept
  <2> QED
    BY <2>3, <2>4
<1> QED
  BY <1>1, <1>4, <1>5, <1>6 DEF Good, IInv, Registered

----------------------------------------------------------------------------
\* The invariants of the specification.

LEMMA InitEstablishes == Init => IInv /\ RouteInv /\ ReceiverInv /\ QueuedFromRegistered
<1> SUFFICES ASSUME Init PROVE IInv /\ RouteInv /\ ReceiverInv /\ QueuedFromRegistered
  OBVIOUS
<1>1. CallTypes
  BY NoJobIsJob DEF Init, CallTypes, Steps
<1>2. /\ \A a \in Actors : pc[a] = "idle" /\ job[a] = NoJob
      /\ NoJob.about = {} /\ NoJob.transports = {} /\ NoJob.types = {} /\ NoJob.type = None
      /\ NoJob.loop = "refresh"
  BY DEF Init, NoJob
<1>3. \A a \in Actors : Shape(a)
  BY <1>2 DEF Shape, Loops
<1>4. Solo
  BY <1>2 DEF Solo
<1>5. /\ subscriptions = {} /\ routed = {} /\ transports = {} /\ initialized = FALSE
      /\ Registered = {} /\ inbound = {}
      /\ receiving = [t \in Transports |-> FALSE]
  BY DEF Init, Registered
<1>6. IInv
  BY <1>1, <1>3, <1>4, <1>5 DEF IInv
<1>7. RouteInv
  <2>1. \A type : ~HasOutboundDirection(Record(type))
    BY <1>5 DEF HasOutboundDirection, Record, Blank
  <2> QED
    BY <1>2, <1>5, <2>1 DEF RouteInv, Subscribed, Routed
<1>8. ReceiverInv /\ QueuedFromRegistered
  BY <1>2, <1>5 DEF ReceiverInv, QueuedFromRegistered
<1> QED
  BY <1>6, <1>7, <1>8

LEMMA StepGood ==
  ASSUME IInv, RouteInv, ReceiverInv, NEW a \in Actors, Call(a) \/ Step(a)
  PROVE  Good(a)
<1>1. CASE Step(a)
  BY <1>1, RefreshGood, SetOutboundGood, CallBrokerGood, UnregisterNextGood, SetReceiverGood,
     InitializeLockedGood, ShutdownLockedGood, RouteSubscriptionGood DEF Step
<1>2. CASE Call(a)
  <2>1. ASSUME NEW type \in Types, NEW d \in Directions, RegisterGlobalEvent(a, type, d)
        PROVE  Good(a)
    BY <2>1, RegisterGood DEF RegisterGlobalEvent
  <2>2. ASSUME NEW type \in Types, NEW d \in Directions, NEW t \in Transports,
               RegisterTransportEvent(a, type, t, d)
        PROVE  Good(a)
    BY <2>2, RegisterGood DEF RegisterTransportEvent
  <2>3. ASSUME NEW type \in Types, NEW d \in Directions, NEW scope \in Transports \cup {None},
               NEW discard \in BOOLEAN, BeginUnregister(a, {type}, scope, d, discard)
        PROVE  Good(a)
    BY <2>3, BeginUnregisterGood
  <2>4. ASSUME NEW d \in Directions, NEW scope \in Transports \cup {None},
               NEW discard \in BOOLEAN, BeginUnregisterAll(a, scope, d, discard)
        PROVE  Good(a)
    BY <2>4, BeginUnregisterGood DEF BeginUnregisterAll, IInv
  <2> QED
    BY <1>2, <2>1, <2>2, <2>3, <2>4, RegisterTransportGood, UnregisterTransportGood,
       InitializeGood, ShutdownGood DEF Call
<1> QED
  BY <1>1, <1>2

\* A step that touches neither the calls nor what they are about.
LEMMA PacketsKeep ==
  ASSUME IInv, RouteInv, ReceiverInv,
         UNCHANGED <<registrations, transports, broker, receiving, initialized, actors>>
  PROVE  IInv' /\ RouteInv' /\ ReceiverInv'
<1> USE DEF broker, actors
<1>1. IInv'
  BY DEF IInv, CallTypes, Shape, Solo, Registered
<1>2. ReceiverInv'
  BY DEF ReceiverInv
<1>3. RouteInv'
  BY NothingForTypes DEF RouteInv, Owed, UnderWay, Registered, HasOutboundDirection
<1> QED
  BY <1>1, <1>2, <1>3

LEMMA NextPreserves ==
  IInv /\ RouteInv /\ ReceiverInv /\ [Next]_vars => IInv' /\ RouteInv' /\ ReceiverInv'
<1> SUFFICES ASSUME IInv, RouteInv, ReceiverInv, [Next]_vars
             PROVE  IInv' /\ RouteInv' /\ ReceiverInv'
  OBVIOUS
<1>1. ASSUME NEW a \in Actors, Call(a) \/ Step(a) PROVE IInv' /\ RouteInv' /\ ReceiverInv'
  BY <1>1, StepGood, GoodKeeps
<1>2. CASE (\E type \in Types, t \in Transports : ReceivePacket(type, t)) \/ PopInbound
  BY <1>2, PacketsKeep DEF ReceivePacket, PopInbound
<1>3. CASE UNCHANGED vars
  BY <1>3, PacketsKeep DEF vars, registry
<1> QED
  BY <1>1, <1>2, <1>3 DEF Next

LEMMA Invariance == Spec => [](IInv /\ RouteInv /\ ReceiverInv)
BY InitEstablishes, NextPreserves, PTL DEF Spec

\* For any types, transports and threads: where no two calls about a type overlap, it ends
\* up subscribed exactly if some direction asks for it, and routed exactly if subscribed.
THEOREM RoutesAreRight == Spec => []RoutesFollowDirections
<1>1. RouteInv => RoutesFollowDirections
  <2> SUFFICES ASSUME RouteInv, NEW type \in Types \ disturbed, ~UnderWay(type)
               PROVE  /\ (\E t \in transports :
                             "Outbound" \in EffectiveDirection(Record(type), t))
                            => type \in subscriptions
                      /\ type \in subscriptions
                            => "Outbound" \in Record(type).default \cup
                                   UNION {Record(type).routes[t] : t \in DOMAIN Record(type).routes}
                      /\ type \in routed <=> initialized /\ type \in subscriptions
    BY DEF RoutesFollowDirections
  <2>1. Subscribed(type) /\ Routed(type)
    BY DEF RouteInv
  <2> QED
    BY <2>1 DEF Subscribed, Routed, HasOutboundDirection, EffectiveDirection
<1> QED
  BY <1>1, Invariance, PTL

\* So does a transport's receiver: it is the manager exactly if the transport is registered.
THEOREM ReceiversAreRight == Spec => []ReceiversFollowTransports
<1>1. IInv /\ ReceiverInv => ReceiversFollowTransports
  BY DEF IInv, Shape, ReceiverInv, ReceiversFollowTransports, UnderWay
<1> QED
  BY <1>1, Invariance, PTL

\* Whatever calls overlap, every queued packet is one of a registered transport.
THEOREM QueuedAreFromRegistered == Spec => []QueuedFromRegistered
<1>1. QueuedFromRegistered /\ [Next]_vars => QueuedFromRegistered'
  <2> SUFFICES ASSUME QueuedFromRegistered, [Next]_vars PROVE QueuedFromRegistered'
    OBVIOUS
  <2> DEFINE Fewer == inbound' \subseteq inbound /\ transports \subseteq transports'
  <2>1. Fewer => QueuedFromRegistered'
    BY DEF QueuedFromRegistered
  <2>2. ASSUME NEW a \in Actors, Step(a) PROVE QueuedFromRegistered'
    <3>1. CASE ShutdownLocked(a)
      BY <2>1, <3>1 DEF ShutdownLocked, registry, QueuedFromRegistered
    <3>2. CASE UnregisterNext(a)
      <4>1. ASSUME NEW type, NEW r, NEW D, Unregister(a, type, r, D) PROVE Fewer
        BY <4>1 DEF Unregister, registry
      <4> QED
        BY <2>1, <3>2, <4>1 DEF UnregisterNext, UnregisterEvent, UnregisterTransportEvent
    <3>3. CASE ~ShutdownLocked(a) /\ ~UnregisterNext(a)
      BY <2>1, <2>2, <3>3
      DEF Step, RefreshOutboundSubscription, SetOutboundSubscription, CallBroker, SetReceiver,
          InitializeLocked, RouteSubscription, registry
    <3> QED
      BY <3>1, <3>2, <3>3
  <2>3. ASSUME NEW a \in Actors, Call(a) PROVE QueuedFromRegistered'
    <3>1. ASSUME NEW type, NEW d,
                 \/ RegisterGlobalEvent(a, type, d)
                 \/ \E t \in Transports : RegisterTransportEvent(a, type, t, d)
          PROVE  Fewer
      BY <3>1 DEF RegisterGlobalEvent, RegisterTransportEvent, Register
    <3>2. ASSUME NEW S, NEW scope, NEW d, NEW discard, BeginUnregister(a, S, scope, d, discard)
          PROVE  Fewer
      BY <3>2 DEF BeginUnregister, registry
    <3>3. ASSUME NEW t, RegisterTransport(a, t) PROVE Fewer
      BY <3>3 DEF RegisterTransport
    <3>4. ASSUME NEW t, UnregisterTransport(a, t) PROVE QueuedFromRegistered'
      BY <3>4 DEF UnregisterTransport, PacketsOf, QueuedFromRegistered
    <3>5. CASE Initialize(a) \/ Shutdown(a)
      BY <2>1, <3>5 DEF Initialize, Shutdown, registry
    <3> QED
      BY <2>1, <2>3, <3>1, <3>2, <3>3, <3>4, <3>5 DEF Call, BeginUnregisterAll
  <2>4. ASSUME NEW type \in Types, NEW t \in Transports, ReceivePacket(type, t)
        PROVE  QueuedFromRegistered'
    BY <2>4 DEF ReceivePacket, QueuedFromRegistered
  <2>5. CASE PopInbound \/ UNCHANGED vars
    BY <2>1, <2>5 DEF PopInbound, vars, registry
  <2> QED
    BY <2>2, <2>3, <2>4, <2>5 DEF Next
<1> QED
  BY InitEstablishes, <1>1, PTL DEF Spec

----------------------------------------------------------------------------
\* The records, the packets and the counter.

Routes == UNION {[S -> Directions] : S \in SUBSET Transports}

DataInv ==
    /\ \A type \in Registered : registrations[type] \in Records
    /\ inbound \subseteq Types \X Transports
    /\ routed \subseteq Types
    /\ calls \in 0 .. MaxCalls
    /\ disturbed \subseteq Types \cup Transports

\* The routes of a record are a map from some transports to directions, and stay one.
LEMMA RoutesAreMaps ==
  ASSUME NEW f
  PROVE  f \in Routes <=> \E S \in SUBSET Transports : f \in [S -> Directions]
BY DEF Routes

LEMMA RoutesWith ==
  ASSUME NEW f \in Routes, NEW t \in Transports, NEW d \in Directions
  PROVE  With(f, t, d) \in Routes
<1>1. PICK S \in SUBSET Transports : f \in [S -> Directions]
  BY RoutesAreMaps
<1>2. With(f, t, d) \in [S \cup {t} -> Directions]
  BY <1>1 DEF With
<1> QED
  BY <1>2, RoutesAreMaps

LEMMA RoutesWithout ==
  ASSUME NEW f \in Routes, NEW t
  PROVE  Without(f, t) \in Routes
<1>1. PICK S \in SUBSET Transports : f \in [S -> Directions]
  BY RoutesAreMaps
<1>2. Without(f, t) \in [S \ {t} -> Directions]
  BY <1>1 DEF Without
<1> QED
  BY <1>2, RoutesAreMaps

LEMMA RecordsAre == Records = [default : Directions, routes : Routes]
BY DEF Records, Routes

LEMMA EffectiveIsDirection ==
  ASSUME NEW r \in Records, NEW t
  PROVE  EffectiveDirection(r, t) \in Directions
<1>1. PICK S \in SUBSET Transports : r.routes \in [S -> Directions]
  BY RecordsAre, RoutesAreMaps
<1> QED
  BY <1>1, RecordsAre DEF EffectiveDirection

LEMMA RecordIsRecord ==
  ASSUME DataInv, NEW type
  PROVE  Record(type) \in Records
<1>1. <<>> \in [{} -> Directions] /\ {} \in Directions
  BY DEF Directions
<1>2. Blank \in Records
  BY <1>1, RecordsAre, RoutesAreMaps DEF Blank
<1> QED
  BY <1>2 DEF DataInv, Record

\* The record after a section, when it was one before.
LEMMA RecordsAfter ==
  ASSUME NEW r \in Records, NEW t \in Transports, NEW d \in Directions
  PROVE  /\ [r EXCEPT !.default = @ \cup d] \in Records
         /\ [r EXCEPT !.routes = With(@, t, EffectiveDirection(r, t) \cup d)] \in Records
         /\ [r EXCEPT !.routes = Without(@, t)] \in Records
         /\ WithoutDefault(r, d) \in Records
         /\ WithoutRoute(r, t, d) \in Records
<1>1. r.default \in Directions /\ r.routes \in Routes
  BY RecordsAre
<1>2. /\ r.default \cup d \in Directions /\ r.default \ d \in Directions
      /\ EffectiveDirection(r, t) \cup d \in Directions
      /\ EffectiveDirection(r, t) \ d \in Directions
  BY <1>1, EffectiveIsDirection DEF Directions
<1>3. /\ With(r.routes, t, EffectiveDirection(r, t) \cup d) \in Routes
      /\ With(r.routes, t, EffectiveDirection(r, t) \ d) \in Routes
      /\ Without(r.routes, t) \in Routes
  BY <1>1, <1>2, RoutesWith, RoutesWithout
<1>4. [r EXCEPT !.default = @ \cup d] \in Records /\ WithoutDefault(r, d) \in Records
  BY <1>2, RecordsAre DEF WithoutDefault
<1>5. /\ [r EXCEPT !.routes = With(@, t, EffectiveDirection(r, t) \cup d)] \in Records
      /\ [r EXCEPT !.routes = Without(@, t)] \in Records
  BY <1>3, RecordsAre
<1>6. WithoutRoute(r, t, d) \in Records
  BY <1>3, RecordsAre DEF WithoutRoute
<1> QED
  BY <1>4, <1>5, <1>6

\* All that a step does to the data outside the calls.
DataKept ==
    /\ \A type \in Registered' : registrations'[type] \in Records
    /\ inbound' \subseteq Types \X Transports
    /\ routed' \subseteq Types

LEMMA BeginData ==
  ASSUME IInv, DataInv, NEW a \in Actors, NEW step, NEW j, Begin(a, step, j),
         j.about \subseteq Types \cup Transports
  PROVE  calls' \in 0 .. MaxCalls /\ disturbed' \subseteq Types \cup Transports
BY CallsAssumption DEF Begin, Engage, DataInv

LEMMA RegisterData ==
  ASSUME IInv, DataInv, NEW a \in Actors, NEW type \in Types, NEW r \in Records,
         Register(a, type, r)
  PROVE  DataInv'
<1>1. calls' \in 0 .. MaxCalls /\ disturbed' \subseteq Types \cup Transports
  <2>1. [NoJob EXCEPT !.types = {type}, !.about = {type}].about = {type}
    BY DEF NoJob
  <2> QED
    BY <2>1, BeginData DEF Register
<1>2. /\ registrations' = With(registrations, type, r)
      /\ UNCHANGED <<inbound, routed>>
  BY DEF Register, broker
<1>3. \A x \in Registered' : registrations'[x] \in Records
  BY <1>2 DEF With, DataInv, Registered
<1> QED
  BY <1>1, <1>2, <1>3 DEF DataInv

LEMMA UnregisterData ==
  ASSUME IInv, DataInv, NEW a \in Actors, NEW type \in Types, NEW r \in Records, NEW D,
         Unregister(a, type, r, D)
  PROVE  (\A x \in Registered' : registrations'[x] \in Records) /\ inbound' \subseteq inbound
<1>1. CASE UNCHANGED registry
  BY <1>1 DEF registry, DataInv, Registered
<1>2. CASE registrations' = Kept(type, r) /\ inbound' = inbound \ D
  BY <1>2 DEF Kept, With, Without, DataInv, Registered
<1> QED
  BY <1>1, <1>2 DEF Unregister

\* A call that goes on counts no call and disturbs nothing.
LEMMA ContinueCounts ==
  ASSUME NEW a, NEW j, Continue(a, j)
  PROVE  UNCHANGED <<calls, disturbed>>
<1>1. CASE j.types # {}
  BY <1>1 DEF Continue, Goto
<1>2. CASE j.types = {} /\ j.transports # {}
  BY <1>2 DEF Continue, Goto
<1>3. CASE j.types = {} /\ j.transports = {}
  BY <1>3 DEF Continue, Goto
<1> QED
  BY <1>1, <1>2, <1>3

LEMMA CallData ==
  ASSUME IInv, DataInv, NEW a \in Actors, Call(a)
  PROVE  DataInv'
<1>1. ASSUME NEW type \in Types, NEW d \in Directions, RegisterGlobalEvent(a, type, d)
      PROVE  DataInv'
  <2>1. [Record(type) EXCEPT !.default = @ \cup d] \in Records
    <3>1. Record(type).default \cup d \in Directions
      BY RecordIsRecord, RecordsAre DEF Directions
    <3> QED
      BY <3>1, RecordIsRecord, RecordsAre
  <2> QED
    BY <1>1, <2>1, RegisterData DEF RegisterGlobalEvent
<1>2. ASSUME NEW type \in Types, NEW d \in Directions, NEW t \in Transports,
             RegisterTransportEvent(a, type, t, d)
      PROVE  DataInv'
  BY <1>2, RecordIsRecord, RecordsAfter, RegisterData DEF RegisterTransportEvent
<1>3. ASSUME NEW S \in SUBSET Types, NEW scope, NEW d, NEW discard,
             BeginUnregister(a, S, scope, d, discard)
      PROVE  DataInv'
  <2>1. [NoJob EXCEPT !.types = S, !.scope = scope, !.direction = d, !.discard = discard,
                      !.loop = "unregister", !.about = S].about = S
    BY DEF NoJob
  <2>2. calls' \in 0 .. MaxCalls /\ disturbed' \subseteq Types \cup Transports
    BY <1>3, <2>1, BeginData DEF BeginUnregister
  <2> QED
    BY <1>3, <2>2 DEF BeginUnregister, registry, broker, DataInv, Registered
<1>4. ASSUME NEW t \in Transports, RegisterTransport(a, t) PROVE DataInv'
  <2>1. [NoJob EXCEPT !.transports = {t}, !.value = TRUE, !.about = {t}].about = {t}
    BY DEF NoJob
  <2>2. calls' \in 0 .. MaxCalls /\ disturbed' \subseteq Types \cup Transports
    BY <1>4, <2>1, BeginData DEF RegisterTransport
  <2> QED
    BY <1>4, <2>2 DEF RegisterTransport, broker, DataInv, Registered
<1>5. ASSUME NEW t \in Transports, UnregisterTransport(a, t) PROVE DataInv'
  <2>1. [NoJob EXCEPT !.types = Registered, !.transports = {t},
                      !.about = Registered \cup {t}].about = Registered \cup {t}
    BY DEF NoJob
  <2>2. calls' \in 0 .. MaxCalls /\ disturbed' \subseteq Types \cup Transports
    BY <1>5, <2>1, BeginData DEF UnregisterTransport, IInv
  <2>3. {} \in Directions
    BY DEF Directions
  <2>4. \A type \in Registered' : registrations'[type] \in Records
    <3>1. registrations' = WithoutTransport(t)
      BY <1>5 DEF UnregisterTransport
    <3>2. \A type \in Registered :
              [registrations[type] EXCEPT !.routes = Without(@, t)] \in Records
      BY <2>3, RecordsAfter DEF DataInv
    <3> QED
      BY <3>1, <3>2 DEF WithoutTransport, Registered
  <2> QED
    BY <1>5, <2>2, <2>4 DEF UnregisterTransport, broker, DataInv
<1>6. CASE Initialize(a)
  <2>1. NoJob.about = {}
    BY DEF NoJob
  <2>2. calls' \in 0 .. MaxCalls /\ disturbed' \subseteq Types \cup Transports
    BY <1>6, <2>1, BeginData DEF Initialize
  <2> QED
    BY <1>6, <2>2 DEF Initialize, registry, broker, DataInv, Registered
<1>7. CASE Shutdown(a)
  <2>1. [NoJob EXCEPT !.discard = initialized, !.loop = "unroute",
                      !.about = Types \cup Transports].about = Types \cup Transports
    BY DEF NoJob
  <2>2. calls' \in 0 .. MaxCalls /\ disturbed' \subseteq Types \cup Transports
    BY <1>7, <2>1, BeginData DEF Shutdown
  <2> QED
    BY <1>7, <2>2 DEF Shutdown, registry, broker, DataInv, Registered
<1>8. \A d \in Directions \ {{}} : d \in Directions
  OBVIOUS
<1>9. Registered \in SUBSET Types /\ \A type \in Types : {type} \in SUBSET Types
  BY DEF IInv
<1> QED
  BY <1>1, <1>2, <1>3, <1>4, <1>5, <1>6, <1>7, <1>9 DEF Call, BeginUnregisterAll

LEMMA StepData ==
  ASSUME IInv, DataInv, NEW a \in Actors, Step(a)
  PROVE  DataInv'
<1>0. job[a] \in Jobs /\ job[a].types \subseteq Types /\ job[a].direction \in Directions
      /\ (job[a].type # None <=> pc[a] \in {"subscribe", "broker"})
      /\ job[a].type \in Types \cup {None}
  BY DEF IInv, CallTypes, Shape, Jobs
<1>1. CASE RefreshOutboundSubscription(a)
  <2>1. UNCHANGED <<calls, disturbed>>
    BY <1>1, ContinueCounts
    DEF RefreshOutboundSubscription, Refreshed, Subscribe, Goto
  <2> QED
    BY <1>1, <2>1 DEF RefreshOutboundSubscription, registry, broker, DataInv, Registered
<1>2. CASE SetOutboundSubscription(a)
  <2>1. UNCHANGED <<calls, disturbed>>
    BY <1>2, ContinueCounts DEF SetOutboundSubscription, Goto
  <2> QED
    BY <1>2, <2>1 DEF SetOutboundSubscription, registry, DataInv, Registered
<1>3. CASE CallBroker(a)
  <2>1. UNCHANGED <<calls, disturbed>> /\ job[a].type \in Types
    BY <1>0, <1>3, ContinueCounts DEF CallBroker
  <2> QED
    BY <1>3, <2>1 DEF CallBroker, registry, DataInv, Registered
<1>4. CASE UnregisterNext(a)
  <2>1. PICK type \in Types :
            UnregisterEvent(a, type) \/ \E t \in Transports : UnregisterTransportEvent(a, type, t)
    BY <1>4 DEF UnregisterNext
  <2>2. PICK r \in Records : \E D : Unregister(a, type, r, D)
    <3>1. CASE UnregisterEvent(a, type)
      <4>1. WithoutDefault(Record(type), job[a].direction) \in Records
        <5>1. Record(type).default \ job[a].direction \in Directions
          BY RecordIsRecord, RecordsAre DEF Directions
        <5> QED
          BY <5>1, RecordIsRecord, RecordsAre DEF WithoutDefault
      <4> QED
        BY <3>1, <4>1 DEF UnregisterEvent
    <3>2. ASSUME NEW t \in Transports, UnregisterTransportEvent(a, type, t)
          PROVE  \E r \in Records : \E D : Unregister(a, type, r, D)
      <4> DEFINE d == job[a].direction \cap EffectiveDirection(Record(type), t)
                 r == IF d = {} THEN Record(type) ELSE WithoutRoute(Record(type), t, d)
      <4>1. d \in Directions
        BY <1>0 DEF Directions
      <4>2. r \in Records
        BY <4>1, RecordIsRecord, RecordsAfter
      <4> QED
        BY <3>2, <4>2 DEF UnregisterTransportEvent
    <3> QED
      BY <2>1, <3>1, <3>2
  <2>3. PICK D : Unregister(a, type, r, D)
    BY <2>2
  <2>4. (\A x \in Registered' : registrations'[x] \in Records) /\ inbound' \subseteq inbound
    BY <2>3, UnregisterData
  <2>5. UNCHANGED <<calls, disturbed>>
    BY <2>3, ContinueCounts DEF Unregister, Subscribe, Goto
  <2> QED
    BY <1>4, <2>4, <2>5 DEF UnregisterNext, broker, DataInv
<1>5. CASE SetReceiver(a)
  <2>1. UNCHANGED <<calls, disturbed>>
    BY <1>5, ContinueCounts DEF SetReceiver
  <2> QED
    BY <1>5, <2>1 DEF SetReceiver, registry, broker, DataInv, Registered
<1>6. CASE ShutdownLocked(a)
  <2>1. UNCHANGED <<calls, disturbed>>
    BY <1>6, ContinueCounts DEF ShutdownLocked, Goto
  <2> QED
    BY <1>6, <2>1 DEF ShutdownLocked, registry, broker, DataInv, Registered
<1>7. CASE RouteSubscription(a)
  <2>1. UNCHANGED <<calls, disturbed>>
    BY <1>7, ContinueCounts DEF RouteSubscription
  <2> QED
    BY <1>0, <1>7, <2>1 DEF RouteSubscription, registry, DataInv, Registered
<1>8. CASE InitializeLocked(a)
  <2>1. PICK step, j : Engage(a, step, j) /\ j.about \subseteq Types \cup Transports
    <3>1. /\ NoJob.about = {}
          /\ [NoJob EXCEPT !.types = subscriptions, !.value = TRUE, !.loop = "route",
                           !.about = Types].about = Types
      BY DEF NoJob
    <3>2. CASE subscriptions = {}
      <4>1. Engage(a, "idle", NoJob)
        BY <1>8, <3>2 DEF InitializeLocked
      <4> QED
        BY <3>1, <4>1
    <3>3. CASE subscriptions # {}
      <4>1. Engage(a, "route", [NoJob EXCEPT !.types = subscriptions, !.value = TRUE,
                                             !.loop = "route", !.about = Types])
        BY <1>8, <3>3 DEF InitializeLocked
      <4> QED
        BY <3>1, <4>1
    <3> QED
      BY <3>2, <3>3
  <2>2. disturbed' \subseteq Types \cup Transports
    BY <2>1 DEF Engage, DataInv
  <2> QED
    BY <1>8, <2>2 DEF InitializeLocked, registry, broker, DataInv, Registered
<1> QED
  BY <1>1, <1>2, <1>3, <1>4, <1>5, <1>6, <1>7, <1>8 DEF Step

LEMMA DataPreserved == IInv /\ DataInv /\ [Next]_vars => DataInv'
<1>1. ASSUME DataInv, NEW type \in Types, NEW t \in Transports, ReceivePacket(type, t)
      PROVE  DataInv'
  BY <1>1 DEF ReceivePacket, DataInv, Registered, broker, actors
<1>2. ASSUME DataInv, PopInbound \/ UNCHANGED vars PROVE DataInv'
  BY <1>2 DEF PopInbound, vars, DataInv, Registered, registry, broker, actors
<1> QED
  BY <1>1, <1>2, CallData, StepData DEF Next

\* For any types, transports and threads: records stay maps from transports to sets of
\* directions, only registered types are routed, and a call has a type in hand exactly
\* while it is about to set that type's subscription or to call the broker.
THEOREM TypeCorrect == Spec => []TypeOK
<1>1. Init => DataInv
  BY CallsAssumption DEF Init, DataInv, Registered
<1>2. IInv /\ DataInv => TypeOK
  <2> SUFFICES ASSUME IInv, DataInv PROVE TypeOK
    OBVIOUS
  <2>1. pc \in [Actors -> {"idle", "refresh", "subscribe", "broker", "unregister", "receiver",
                           "initialize", "shutdown", "route", "unroute"}]
    BY DEF IInv, CallTypes, Steps, Loops
  <2>2. \A a \in Actors : job[a].type # None <=> pc[a] \in {"subscribe", "broker"}
    BY DEF IInv, Shape
  <2> QED
    BY <2>1, <2>2 DEF IInv, CallTypes, DataInv, TypeOK
<1> QED
  BY <1>1, <1>2, DataPreserved, Invariance, InitEstablishes, PTL DEF Spec

----------------------------------------------------------------------------
\* What the proviso of the two properties costs.

\* No two threads' calls are about the same type or transport.
CallsApart == \A a, b \in Actors : a # b => job[a].about \cap job[b].about = {}

\* Once no call is about it, a type is subscribed if some registered transport is to send
\* it, only if a direction asks for that, and is routed exactly its subscription.
EveryTypeSettled ==
    \A type \in Types : ~UnderWay(type) =>
        /\ (\E t \in transports : "Outbound" \in EffectiveDirection(Record(type), t))
               => type \in subscriptions
        /\ type \in subscriptions => HasOutboundDirection(Record(type))
        /\ type \in routed <=> initialized /\ type \in subscriptions

\* Once no call is about it, a transport's receiver is the manager exactly if it is registered.
EveryTransportSettled ==
    \A t \in Transports : ~UnderWay(t) => (receiving[t] <=> t \in transports)

Undisturbed == disturbed = {}

LEMMA CallBegins ==
  ASSUME NEW a \in Actors, Call(a)
  PROVE  pc[a] = "idle" /\ \E step, j : Engage(a, step, j)
BY DEF Call, RegisterGlobalEvent, RegisterTransportEvent, Register, BeginUnregister,
       BeginUnregisterAll, RegisterTransport, UnregisterTransport, Initialize, Shutdown, Begin

\* A call that finds what it is about apart from all others disturbs nothing.
LEMMA EngagesApart ==
  ASSUME IInv, CallsApart', NEW a \in Actors, NEW step, NEW j, Engage(a, step, j),
         pc[a] \in {"idle", "initialize"}
  PROVE  disturbed' = disturbed
<1>1. job[a].about = {}
  BY DEF IInv, Shape, NoJob
<1>2. job'[a] = j /\ \A b \in Actors : b # a => job'[b] = job[b]
  BY DEF Engage, IInv, CallTypes
<1>3. j.about \cap UNION {job[b].about : b \in Actors} = {}
  BY <1>1, <1>2 DEF CallsApart
<1> QED
  BY <1>3 DEF Engage

\* So it is with every step of a call.
LEMMA StepsApart ==
  ASSUME IInv, CallsApart', NEW a \in Actors, Step(a)
  PROVE  disturbed' = disturbed
<1>1. CASE RefreshOutboundSubscription(a)
  BY <1>1, ContinueCounts DEF RefreshOutboundSubscription, Refreshed, Subscribe, Goto
<1>2. CASE SetOutboundSubscription(a)
  BY <1>2, ContinueCounts DEF SetOutboundSubscription, Goto
<1>3. CASE CallBroker(a) \/ SetReceiver(a) \/ RouteSubscription(a)
  BY <1>3, ContinueCounts DEF CallBroker, SetReceiver, RouteSubscription
<1>4. ASSUME NEW type, NEW r, NEW D, Unregister(a, type, r, D) PROVE disturbed' = disturbed
  BY <1>4, ContinueCounts DEF Unregister, Subscribe, Goto
<1>5. CASE UnregisterNext(a)
  BY <1>4, <1>5 DEF UnregisterNext, UnregisterEvent, UnregisterTransportEvent
<1>6. CASE ShutdownLocked(a)
  BY <1>6, ContinueCounts DEF ShutdownLocked, Goto
<1>7. CASE InitializeLocked(a)
  BY <1>7, EngagesApart DEF InitializeLocked
<1> QED
  BY <1>1, <1>2, <1>3, <1>5, <1>6, <1>7 DEF Step

\* As long as no two calls that are about the same type or transport overlap, the broker's
\* routes are what the directions ask for and the transports' receivers what the registry
\* says, through registrations, removals, transports that come and go, and restarts of the
\* manager: the calls that it makes after it has unlocked are safe for one caller at a time.
THEOREM RoutesAreRightApart ==
    Spec /\ []CallsApart => [](EveryTypeSettled /\ EveryTransportSettled)
<1>1. Init => Undisturbed
  BY DEF Init, Undisturbed
<1>2. IInv /\ CallsApart' /\ [Next]_vars /\ Undisturbed => Undisturbed'
  <2> SUFFICES ASSUME IInv, CallsApart', [Next]_vars PROVE disturbed' = disturbed
    BY DEF Undisturbed
  <2>1. CASE (\E type \in Types, t \in Transports : ReceivePacket(type, t)) \/ PopInbound
    BY <2>1 DEF ReceivePacket, PopInbound, actors
  <2>2. CASE UNCHANGED vars
    BY <2>2 DEF vars, actors
  <2> QED
    BY <2>1, <2>2, CallBegins, EngagesApart, StepsApart DEF Next
<1>3. Undisturbed /\ RoutesFollowDirections => EveryTypeSettled
  BY DEF RoutesFollowDirections, EveryTypeSettled, HasOutboundDirection, Undisturbed
<1>4. Undisturbed /\ ReceiversFollowTransports => EveryTransportSettled
  BY DEF ReceiversFollowTransports, EveryTransportSettled, Undisturbed
<1> QED
  BY <1>1, <1>2, <1>3, <1>4, Invariance, RoutesAreRight, ReceiversAreRight, PTL DEF Spec

=============================================================================
