------------------------ MODULE EventListenerProofs ------------------------
(***************************************************************************)
(* What the listener registry guarantees for any set of threads, listeners *)
(* and types, and any number of events: handles that agree with it, walks  *)
(* that visit whom they should, compaction that is put off but not         *)
(* forgotten, and routes that follow the listeners.                        *)
(***************************************************************************)
EXTENDS EventListener, CompactionProofs

Record == [handle : Handles, active : BOOLEAN]

Positions(s) == 1 .. Len(s)

\* Registered handles have one record each.
Distinct(s) == \A i, j \in Positions(s) : s[i].handle = s[j].handle => i = j

\* The handles with a record in s, and those with an active one.
Recorded(s) == {s[i].handle : i \in Positions(s)}
Registered(s) == {s[i].handle : i \in ActiveIn(s)}

----------------------------------------------------------------------------
\* What the helpers do to the records.

LEMMA Reading ==
    ASSUME NEW s \in Seq(Record)
    PROVE  /\ \A t : HasActive(s, t) <=> \E h \in Registered(s) : TypeOf[h] = t
           /\ ActiveHandles = Registered(listeners)
           /\ Registered(s) \subseteq Recorded(s)
           /\ Recorded(s) \subseteq Handles
<1>1. ASSUME NEW t PROVE HasActive(s, t) <=> \E h \in Registered(s) : TypeOf[h] = t
  BY DEF HasActive, Registered, ActiveIn, ToSet
<1>2. ActiveHandles = Registered(listeners)
  BY DEF ActiveHandles, Registered, ActiveIn, ToSet
<1>3. Registered(s) \subseteq Recorded(s)
  BY DEF Registered, Recorded, ActiveIn, Positions
<1>4. Recorded(s) \subseteq Handles
  <2>1. \A i \in Positions(s) : s[i] \in Record
    BY DEF Positions
  <2> QED
    BY <2>1 DEF Recorded, Record
<1> QED
  BY <1>1, <1>2, <1>3, <1>4

LEMMA Appending ==
    ASSUME NEW s \in Seq(Record), Distinct(s), NEW h \in Handles, h \notin Recorded(s)
    PROVE  LET a == Append(s, [handle |-> h, active |-> TRUE])
           IN  /\ a \in Seq(Record) /\ Len(a) = Len(s) + 1
               /\ \A i \in Positions(s) : a[i] = s[i]
               /\ Distinct(a)
               /\ Recorded(a) = Recorded(s) \cup {h}
               /\ Registered(a) = Registered(s) \cup {h}
<1> DEFINE r == [handle |-> h, active |-> TRUE]
           a == Append(s, r)
<1>0. r \in Record /\ r.handle = h /\ r.active
  BY DEF Record
<1>1. a \in Seq(Record) /\ Len(a) = Len(s) + 1 /\ Len(s) \in Nat
  <2> HIDE DEF r
  <2> QED
    BY <1>0
<1>2. /\ \A i \in Positions(s) : a[i] = s[i]
      /\ a[Len(s) + 1] = r
  <2> HIDE DEF r
  <2> QED
    BY <1>0 DEF Positions
<1>3. Positions(a) = Positions(s) \cup {Len(s) + 1}
  <2> HIDE DEF a
  <2> QED
    BY <1>1 DEF Positions
<1>4. Distinct(a)
  <2> SUFFICES ASSUME NEW i \in Positions(a), NEW j \in Positions(a),
                      a[i].handle = a[j].handle
               PROVE  i = j
    BY DEF Distinct
  <2> HIDE DEF a, r
  <2>1. \A k \in Positions(s) : a[k].handle # h
    BY <1>2 DEF Recorded
  <2> QED
    BY <1>0, <1>2, <1>3, <2>1 DEF Distinct
<1>5. Recorded(a) = Recorded(s) \cup {h}
  <2> HIDE DEF a, r
  <2> QED
    BY <1>0, <1>2, <1>3 DEF Recorded
<1>6. ActiveIn(a) = ActiveIn(s) \cup {Len(s) + 1}
  <2>1. DOMAIN a = Positions(a) /\ DOMAIN s = Positions(s)
    BY <1>1 DEF Positions
  <2> HIDE DEF a, r
  <2> QED
    BY <1>0, <1>2, <1>3, <2>1 DEF ActiveIn
<1>7. Registered(a) = Registered(s) \cup {h}
  <2>1. ActiveIn(s) \subseteq Positions(s)
    BY DEF ActiveIn, Positions
  <2> HIDE DEF a, r
  <2> QED
    BY <1>0, <1>2, <1>6, <2>1 DEF Registered
<1> QED
  BY <1>1, <1>2, <1>4, <1>5, <1>7

LEMMA Deactivating ==
    ASSUME NEW S, listeners \in Seq(Record), Distinct(listeners)
    PROVE  LET d == Deactivate(S)
           IN  /\ d \in Seq(Record) /\ Len(d) = Len(listeners)
               /\ \A i \in Positions(listeners) :
                    /\ d[i].handle = listeners[i].handle
                    /\ d[i].active => listeners[i].active
               /\ Distinct(d)
               /\ Recorded(d) = Recorded(listeners)
               /\ Registered(d) = Registered(listeners) \ S
<1> DEFINE d == Deactivate(S)
<1>1. \A i \in Positions(listeners) : listeners[i] \in Record
  BY DEF Positions
<1>2. DOMAIN listeners = Positions(listeners) /\ Len(listeners) \in Nat
  BY DEF Positions
<1>3. ASSUME NEW r \in Record
      PROVE  LET q == [r EXCEPT !.active = FALSE]
             IN  q \in Record /\ q.handle = r.handle /\ ~q.active
  BY DEF Record
<1>4. d = [i \in Positions(listeners) |->
             IF listeners[i].handle \in S THEN [listeners[i] EXCEPT !.active = FALSE]
             ELSE listeners[i]]
  BY <1>2 DEF Deactivate
<1>5. \A i \in Positions(listeners) :
        /\ d[i] \in Record
        /\ d[i].handle = listeners[i].handle
        /\ d[i].active <=> listeners[i].active /\ listeners[i].handle \notin S
  <2> SUFFICES ASSUME NEW i \in Positions(listeners)
               PROVE  /\ d[i] \in Record
                      /\ d[i].handle = listeners[i].handle
                      /\ d[i].active <=> listeners[i].active /\ listeners[i].handle \notin S
    OBVIOUS
  <2>1. d[i] = IF listeners[i].handle \in S THEN [listeners[i] EXCEPT !.active = FALSE]
               ELSE listeners[i]
    BY <1>4
  <2>2. CASE listeners[i].handle \in S
    BY <1>1, <1>3, <2>1, <2>2
  <2>3. CASE listeners[i].handle \notin S
    BY <1>1, <2>1, <2>3
  <2> QED
    BY <2>2, <2>3
<1>6. d \in Seq(Record) /\ Len(d) = Len(listeners)
  <2>1. d \in [1 .. Len(listeners) -> Record]
    BY <1>4, <1>5 DEF Positions
  <2> HIDE DEF d
  <2> QED
    BY <1>2, <2>1
<1>7. DOMAIN d = Positions(listeners) /\ Positions(d) = Positions(listeners)
  BY <1>4, <1>6 DEF Positions
<1>8. Distinct(d) /\ Recorded(d) = Recorded(listeners)
  <2> HIDE DEF d
  <2> QED
    BY <1>5, <1>7 DEF Distinct, Recorded
<1>9. Registered(d) = Registered(listeners) \ S
  <2> HIDE DEF d
  <2>1. \A i : i \in ActiveIn(d) <=> i \in ActiveIn(listeners) /\ listeners[i].handle \notin S
    BY <1>2, <1>5, <1>7 DEF ActiveIn
  <2>2. \A i \in ActiveIn(d) : d[i].handle = listeners[i].handle
    BY <1>5, <1>7 DEF ActiveIn
  <2>3. \A h : h \in Registered(d) <=> \E i \in ActiveIn(d) : h = d[i].handle
    BY DEF Registered
  <2>4. \A h : h \in Registered(listeners) <=>
                 \E i \in ActiveIn(listeners) : h = listeners[i].handle
    BY DEF Registered
  <2> QED
    BY <2>1, <2>2, <2>3, <2>4
<1> QED
  BY <1>5, <1>6, <1>8, <1>9

LEMMA Compacting ==
    ASSUME NEW s \in Seq(Record), Distinct(s)
    PROVE  /\ Compact(s) \in Seq(Record)
           /\ Distinct(Compact(s))
           /\ Recorded(Compact(s)) \subseteq Recorded(s)
           /\ Registered(Compact(s)) = Registered(s)
           /\ \A i \in Positions(Compact(s)) : Compact(s)[i].active
<1> DEFINE c == Compact(s)
           at(k) == NthActive(s, k)
<1>1. /\ c \in Seq(Record)
      /\ \A k \in Positions(c) : at(k) \in Positions(s) /\ c[k] = s[at(k)] /\ c[k].active
      /\ \A k, l \in Positions(c) : k < l => at(k) < at(l)
      /\ \A i \in Positions(s) : s[i].active => \E k \in Positions(c) : at(k) = i
  BY CompactKeepsActive DEF Positions
<1>2. DOMAIN c = Positions(c) /\ DOMAIN s = Positions(s)
  BY <1>1 DEF Positions
<1> HIDE DEF c, at
<1>2a. \A k, l \in Positions(c) : at(k) = at(l) => k = l
  <2> SUFFICES ASSUME NEW k \in Positions(c), NEW l \in Positions(c), at(k) = at(l) PROVE k = l
    OBVIOUS
  <2>1. ~(k < l) /\ ~(l < k)
    BY <1>1 DEF Positions
  <2> QED
    BY <2>1 DEF Positions
<1>3. Distinct(c)
  BY <1>1, <1>2a DEF Distinct
<1>4. Recorded(c) \subseteq Recorded(s)
  BY <1>1 DEF Recorded
<1>5. Registered(c) = Registered(s)
  <2>1. ASSUME NEW h \in Registered(c) PROVE h \in Registered(s)
    <3>1. PICK k \in ActiveIn(c) : h = c[k].handle
      BY <2>1 DEF Registered
    <3>2. at(k) \in ActiveIn(s) /\ c[k] = s[at(k)]
      BY <1>1, <1>2, <3>1 DEF ActiveIn
    <3> QED
      BY <3>1, <3>2 DEF Registered
  <2>2. ASSUME NEW h \in Registered(s) PROVE h \in Registered(c)
    <3>1. PICK i \in ActiveIn(s) : h = s[i].handle
      BY <2>2 DEF Registered
    <3>2. PICK k \in Positions(c) : at(k) = i
      BY <1>1, <1>2, <3>1 DEF ActiveIn
    <3>3. k \in ActiveIn(c) /\ c[k] = s[i]
      BY <1>1, <1>2, <3>2 DEF ActiveIn
    <3> QED
      BY <3>1, <3>3 DEF Registered
  <2> QED
    BY <2>1, <2>2
<1> QED
  BY <1>1, <1>3, <1>4, <1>5 DEF c

----------------------------------------------------------------------------
\* The records, their handles, and compaction.

States == {"unused", "registered", "unregistered"}

\* An inactive record waits for a delivery to end.
Pending ==
    (\E i \in Positions(listeners) : ~listeners[i].active) =>
        needsCompaction /\ processingDepth > 0

Registry ==
    /\ listeners \in Seq(Record)
    /\ handleState \in [Handles -> States]
    /\ needsCompaction \in BOOLEAN
    /\ processingDepth \in Nat
    /\ Distinct(listeners)
    /\ \A h \in Handles : handleState[h] = "registered" <=> h \in Registered(listeners)
    /\ \A h \in Recorded(listeners) : handleState[h] # "unused"
    /\ Pending

\* No record goes or moves, and none becomes active again.
Grows ==
    /\ Len(listeners') >= Len(listeners)
    /\ \A i \in Positions(listeners) :
        /\ listeners'[i].handle = listeners[i].handle
        /\ listeners'[i].active => listeners[i].active

LEMMA RegisterKeepsRegistry ==
    ASSUME Registry, NEW a \in Actors, NEW h \in Handles, RegisterListener(a, h)
    PROVE  Registry' /\ Grows /\ Registered(listeners)' = Registered(listeners) \cup {h}
<1> DEFINE s == listeners
           r == [handle |-> h, active |-> TRUE]
<1>1. /\ s \in Seq(Record) /\ Distinct(s)
      /\ handleState \in [Handles -> States]
      /\ handleState[h] = "unused"
      /\ handleState' = [handleState EXCEPT ![h] = "registered"]
      /\ listeners' = Append(s, r)
      /\ UNCHANGED <<processingDepth, needsCompaction>>
  BY DEF Registry, RegisterListener
<1>2. h \notin Recorded(s) /\ Recorded(s) \subseteq Handles
  BY <1>1, Reading DEF Registry
<1>3. /\ listeners' \in Seq(Record) /\ Len(listeners') = Len(s) + 1
      /\ \A i \in Positions(s) : listeners'[i] = s[i]
      /\ Distinct(listeners')
      /\ Recorded(listeners') = Recorded(s) \cup {h}
      /\ Registered(listeners') = Registered(s) \cup {h}
  BY <1>1, <1>2, Appending
<1>4. listeners'[Len(s) + 1] = r /\ r.active
  BY <1>1
<1>5. Pending'
  <2>1. Positions(listeners') = Positions(s) \cup {Len(s) + 1}
    BY <1>1, <1>3 DEF Positions
  <2>2. (\E i \in Positions(listeners') : ~listeners'[i].active) =>
            \E i \in Positions(s) : ~s[i].active
    <3> HIDE DEF r
    <3> QED
      BY <1>3, <1>4, <2>1
  <2> QED
    BY <1>1, <2>2 DEF Registry, Pending
<1>6. /\ handleState' \in [Handles -> States]
      /\ \A g \in Handles : handleState'[g] = "registered" <=> g \in Registered(listeners')
      /\ \A g \in Recorded(listeners') : handleState'[g] # "unused"
  BY <1>1, <1>2, <1>3 DEF Registry, States
<1>7. Grows
  <2>1. Len(s) \in Nat
    BY <1>1
  <2> QED
    BY <1>3, <2>1 DEF Grows
<1> QED
  BY <1>1, <1>3, <1>5, <1>6, <1>7 DEF Registry

\* What UnregisterListener and UnregisterAllListeners do, to the handles in S.
LEMMA RemoveKeepsRegistry ==
    ASSUME Registry, NEW S \in SUBSET Registered(listeners),
           handleState' = [h \in Handles |-> IF h \in S THEN "unregistered" ELSE handleState[h]],
           \/ processingDepth > 0 /\ listeners' = Deactivate(S)
           \/ processingDepth = 0 /\ listeners' = Compact(Deactivate(S))
           \/ processingDepth = 0 /\ listeners' = <<>> /\ S = Registered(listeners),
           needsCompaction' = (processingDepth > 0),
           processingDepth' = processingDepth
    PROVE  /\ Registry'
           /\ Grows \/ processingDepth = 0
           /\ Registered(listeners)' = Registered(listeners) \ S
<1> DEFINE d == Deactivate(S)
<1>1. /\ listeners \in Seq(Record) /\ Distinct(listeners)
      /\ handleState \in [Handles -> States]
      /\ processingDepth \in Nat
  BY DEF Registry
<1>2. /\ d \in Seq(Record) /\ Len(d) = Len(listeners)
      /\ \A i \in Positions(listeners) :
           /\ d[i].handle = listeners[i].handle
           /\ d[i].active => listeners[i].active
      /\ Distinct(d)
      /\ Recorded(d) = Recorded(listeners)
      /\ Registered(d) = Registered(listeners) \ S
  BY <1>1, Deactivating
<1> HIDE DEF d
<1>3. /\ listeners' \in Seq(Record)
      /\ Distinct(listeners')
      /\ Recorded(listeners') \subseteq Recorded(listeners)
      /\ Registered(listeners') = Registered(listeners) \ S
      /\ processingDepth > 0 \/ \A i \in Positions(listeners') : listeners'[i].active
  <2>1. CASE processingDepth > 0 /\ listeners' = d
    BY <1>2, <2>1
  <2>2. CASE listeners' = Compact(d)
    BY <1>2, <2>2, Compacting
  <2>3. CASE listeners' = <<>> /\ S = Registered(listeners)
    <3>1. <<>> \in Seq(Record) /\ Positions(<<>>) = {} /\ ActiveIn(<<>>) = {}
      BY DEF Positions, ActiveIn
    <3> QED
      BY <2>3, <3>1 DEF Distinct, Recorded, Registered
  <2> QED
    BY <2>1, <2>2, <2>3 DEF d
<1>4. Pending'
  BY <1>3 DEF Pending
<1>5. Registered(listeners) \subseteq Recorded(listeners) /\ Recorded(listeners) \subseteq Handles
  BY <1>1, Reading
<1>6. /\ handleState' \in [Handles -> States]
      /\ \A g \in Handles : handleState'[g] = "registered" <=> g \in Registered(listeners')
      /\ \A g \in Recorded(listeners') : handleState'[g] # "unused"
  BY <1>1, <1>3, <1>5 DEF Registry, States
<1>7. Grows \/ processingDepth = 0
  <2>1. CASE processingDepth > 0 /\ listeners' = d
    BY <1>1, <1>2, <2>1 DEF Grows
  <2> QED
    BY <2>1 DEF d
<1>8. needsCompaction' \in BOOLEAN
  OBVIOUS
<1> QED
  BY <1>1, <1>3, <1>4, <1>6, <1>7, <1>8 DEF Registry

----------------------------------------------------------------------------
\* Deliveries.

Delivery ==
    [pc : {"idle", "loop", "interest", "callback", "unwind"}, type : Types \cup {None},
     index : Nat, count : Nat, handle : Handles \cup {None},
     present : SUBSET Handles, visited : Seq(Handles)]

\* The walk of d has the record at i behind it, or in hand.
Past(d, i) == i < d.index \/ (d.pc # "loop" /\ i = d.index)

Walk(d, s) ==
    /\ d.index \in 1 .. d.count + 1 /\ d.count <= Len(s)
    /\ d.pc \in {"interest", "callback"} => d.index <= d.count
    /\ IsInjective(d.visited)
    /\ ToSet(d.visited) \subseteq d.present
    /\ \A h \in ToSet(d.visited) : \E i \in Positions(s) : s[i].handle = h /\ Past(d, i)
    /\ \A h \in d.present : TypeOf[h] = d.type /\ \E i \in 1 .. d.count : s[i].handle = h
    /\ \A i \in 1 .. d.count :
        s[i].active /\ TypeOf[s[i].handle] = d.type =>
            /\ s[i].handle \in d.present
            /\ Past(d, i) => s[i].handle \in ToSet(d.visited)

Delivering == {a \in Processors : delivery[a].pc # "idle"}

Deliveries ==
    /\ delivery \in [Processors -> Delivery]
    /\ processingDepth = Cardinality(Delivering)
    /\ \A a \in Delivering : Walk(delivery[a], listeners)
    /\ \A a \in Processors \ Delivering : delivery[a] = NotDelivering

\* Some listeners are unregistered, and nothing else happens to who is registered.
Departing ==
    \E S \in SUBSET Registered(listeners) : Registered(listeners)' = Registered(listeners) \ S

\* What other threads append or deactivate does not matter to a walk.
LEMMA WalkStays ==
    ASSUME listeners \in Seq(Record), listeners' \in Seq(Record), Grows,
           NEW d \in Delivery, Walk(d, listeners)
    PROVE  Walk(d, listeners')
<1> DEFINE s == listeners
           z == listeners'
<1>1. d.count \in Nat /\ d.index \in Nat /\ Len(s) \in Nat /\ Len(z) \in Nat
  BY DEF Delivery
<1>2. d.index \in 1 .. d.count + 1 /\ d.count <= Len(z)
  BY <1>1 DEF Walk, Grows
<1>3. /\ \A i \in Positions(s) : i \in Positions(z) /\ z[i].handle = s[i].handle
                                  /\ (z[i].active => s[i].active)
      /\ \A i \in 1 .. d.count : i \in Positions(s)
  BY <1>1 DEF Walk, Grows, Positions
<1>4. \A h \in ToSet(d.visited) : \E i \in Positions(z) : z[i].handle = h /\ Past(d, i)
  BY <1>3 DEF Walk
<1>5. \A h \in d.present : TypeOf[h] = d.type /\ \E i \in 1 .. d.count : z[i].handle = h
  BY <1>3 DEF Walk
<1>6. \A i \in 1 .. d.count :
        z[i].active /\ TypeOf[z[i].handle] = d.type =>
            /\ z[i].handle \in d.present
            /\ Past(d, i) => z[i].handle \in ToSet(d.visited)
  BY <1>3 DEF Walk
<1> QED
  BY <1>2, <1>4, <1>5, <1>6 DEF Walk

\* A step changes the delivery of one processor.
LEMMA DeliveryChanges ==
    ASSUME Deliveries, NEW a \in Processors, NEW d \in Delivery,
           delivery' = [delivery EXCEPT ![a] = d]
    PROVE  /\ delivery' \in [Processors -> Delivery]
           /\ delivery'[a] = d
           /\ \A b \in Processors : b # a => delivery'[b] = delivery[b]
           /\ Delivering' = IF d.pc = "idle" THEN Delivering \ {a} ELSE Delivering \cup {a}
           /\ IsFiniteSet(Delivering)
           /\ Cardinality(Delivering) \in Nat
           /\ Cardinality(Delivering') =
                IF d.pc = "idle"
                THEN IF a \in Delivering THEN processingDepth - 1 ELSE processingDepth
                ELSE IF a \in Delivering THEN processingDepth ELSE processingDepth + 1
<1>1. /\ delivery' \in [Processors -> Delivery]
      /\ delivery'[a] = d
      /\ \A b \in Processors : b # a => delivery'[b] = delivery[b]
  BY DEF Deliveries
<1>2. Delivering' = IF d.pc = "idle" THEN Delivering \ {a} ELSE Delivering \cup {a}
  BY <1>1 DEF Delivering
<1>3. IsFiniteSet(Delivering) /\ Cardinality(Delivering) \in Nat
  <2>1. IsFiniteSet(Processors)
    BY ActorsAssumption, FS_Subset
  <2>2. Delivering \in SUBSET Processors
    BY DEF Delivering
  <2> QED
    BY <2>1, <2>2, FS_Subset, FS_CardinalityType
<1>4. Cardinality(Delivering') =
                IF d.pc = "idle"
                THEN IF a \in Delivering THEN processingDepth - 1 ELSE processingDepth
                ELSE IF a \in Delivering THEN processingDepth ELSE processingDepth + 1
  <2>1. processingDepth = Cardinality(Delivering)
    BY DEF Deliveries
  <2>2. CASE d.pc = "idle"
    BY <1>2, <1>3, <2>1, <2>2, FS_RemoveElement
  <2>3. CASE d.pc # "idle"
    BY <1>2, <1>3, <2>1, <2>3, FS_AddElement
  <2> QED
    BY <2>2, <2>3
<1> QED
  BY <1>1, <1>2, <1>3, <1>4

\* Steps of a walk that leave the records alone.
LEMMA WalkStepKeepsDeliveries ==
    ASSUME Registry, Deliveries, NEW a \in Delivering, NEW d \in Delivery, d.pc # "idle",
           delivery' = [delivery EXCEPT ![a] = d], UNCHANGED registry,
           Walk(d, listeners)
    PROVE  Deliveries'
<1>1. a \in Processors
  BY DEF Delivering
<1>2. /\ delivery' \in [Processors -> Delivery]
      /\ delivery'[a] = d
      /\ \A b \in Processors : b # a => delivery'[b] = delivery[b]
      /\ Delivering' = Delivering \cup {a}
      /\ Cardinality(Delivering') = processingDepth
  BY <1>1, DeliveryChanges
<1>3. listeners' = listeners /\ processingDepth' = processingDepth
  BY DEF registry
<1>4. ASSUME NEW b \in Delivering' PROVE Walk(delivery'[b], listeners')
  <2>1. CASE b = a
    BY <1>2, <1>3, <2>1
  <2>2. CASE b # a
    <3>1. b \in Processors /\ b \in Delivering
      BY <1>2, <2>2 DEF Delivering
    <3> QED
      BY <1>2, <1>3, <2>2, <3>1 DEF Deliveries
  <2> QED
    BY <2>1, <2>2
<1> QED
  BY <1>2, <1>3, <1>4 DEF Deliveries

\* The fields of a delivery.
LEMMA Fields ==
    ASSUME NEW d \in Delivery
    PROVE  /\ d = [pc |-> d.pc, type |-> d.type, index |-> d.index, count |-> d.count,
                   handle |-> d.handle, present |-> d.present, visited |-> d.visited]
           /\ d.pc \in {"idle", "loop", "interest", "callback", "unwind"}
           /\ d.type \in Types \cup {None} /\ d.index \in Nat /\ d.count \in Nat
           /\ d.handle \in Handles \cup {None} /\ d.present \in SUBSET Handles
           /\ d.visited \in Seq(Handles)
BY DEF Delivery

LEMMA Advancing ==
    ASSUME NEW d \in Delivery
    PROVE  LET x == Advance(d)
           IN  /\ x \in Delivery /\ x.index = d.index + 1 /\ x.pc = "loop" /\ x.type = d.type
               /\ x.count = d.count /\ x.present = d.present /\ x.visited = d.visited
<1>1. Advance(d) = [pc |-> "loop", type |-> d.type, index |-> d.index + 1,
                    count |-> d.count, handle |-> None, present |-> d.present,
                    visited |-> d.visited]
  <2> DEFINE F == {"pc", "type", "index", "count", "handle", "present", "visited"}
  <2>1. DOMAIN d = F
    BY DEF Delivery
  <2>2. Advance(d) = [f \in F |-> CASE f = "pc" -> "loop" [] f = "index" -> d.index + 1
                                     [] f = "handle" -> None [] OTHER -> d[f]]
    BY <2>1 DEF Advance
  <2> QED
    BY <2>2
<1>2. Advance(d) \in Delivery
  BY <1>1, Fields DEF Delivery
<1> QED
  BY <1>1, <1>2

LEMMA VisitingFields ==
    ASSUME NEW d \in Delivery, NEW h \in Handles
    PROVE  LET x == Visiting(d, h)
           IN  /\ x \in Delivery /\ x.index = d.index /\ x.pc = "interest" /\ x.type = d.type
               /\ x.count = d.count /\ x.present = d.present
               /\ x.visited = Append(d.visited, h)
<1>1. Visiting(d, h) = [pc |-> "interest", type |-> d.type, index |-> d.index,
                        count |-> d.count, handle |-> h, present |-> d.present,
                        visited |-> Append(d.visited, h)]
  <2> DEFINE F == {"pc", "type", "index", "count", "handle", "present", "visited"}
  <2>1. DOMAIN d = F
    BY DEF Delivery
  <2>2. Visiting(d, h) = [f \in F |-> CASE f = "pc" -> "interest" [] f = "handle" -> h
                                        [] f = "visited" -> Append(d.visited, h)
                                        [] OTHER -> d[f]]
    BY <2>1 DEF Visiting
  <2> QED
    BY <2>2
<1>2. d.visited \in Seq(Handles)
  BY Fields
<1>3. Append(d.visited, h) \in Seq(Handles)
  BY <1>2
<1>4. Visiting(d, h) \in Delivery
  BY <1>1, <1>3, Fields DEF Delivery
<1> QED
  BY <1>1, <1>4

LEMMA WalkSteps ==
    ASSUME Registry, Deliveries, NEW a \in Processors,
           \/ SkipRecord(a) \/ LookUpRecord(a) \/ Decline(a) \/ InvokeCallback(a)
           \/ ReturnFromCallback(a) \/ Throw(a)
    PROVE  Deliveries' /\ UNCHANGED registry
<1> DEFINE d == delivery[a]
           s == listeners
<1>1. d \in Delivery /\ s \in Seq(Record) /\ Distinct(s) /\ Len(s) \in Nat
  BY DEF Registry, Deliveries
<1>2. a \in Delivering
  BY DEF Delivering, SkipRecord, LookUpRecord, Decline, InvokeCallback, ReturnFromCallback, Throw
<1>3. Walk(d, s)
  BY <1>2 DEF Deliveries
<1>4. d.index \in Nat \ {0} /\ d.count \in Nat /\ d.index <= d.count + 1 /\ d.count <= Len(s)
  BY <1>1, <1>3 DEF Delivery, Walk
<1>5. \A i \in 1 .. d.count : i \in Positions(s) /\ s[i] \in Record
  BY <1>1, <1>4 DEF Positions
<1>6. UNCHANGED registry
  BY DEF SkipRecord, LookUpRecord, Decline, InvokeCallback, ReturnFromCallback, Throw
<1>7. ASSUME NEW x \in Delivery, x.index = d.index + 1, x.pc = "loop", d.index <= d.count,
             x.type = d.type, x.count = d.count, x.present = d.present,
             x.visited = d.visited,
             \/ d.pc # "loop"
             \/ ~(s[d.index].active /\ TypeOf[s[d.index].handle] = d.type)
      PROVE  Walk(x, s)
  <2>1. \A i \in Nat : Past(x, i) <=> i < d.index \/ i = d.index
    BY <1>4, <1>7 DEF Past
  <2>2. \A i \in Nat : Past(d, i) => Past(x, i)
    BY <2>1 DEF Past
  <2>3. x.index \in 1 .. x.count + 1 /\ x.count <= Len(s)
    BY <1>4, <1>7
  <2>4. \A h \in ToSet(x.visited) : \E i \in Positions(s) : s[i].handle = h /\ Past(x, i)
    BY <1>3, <1>7, <2>2 DEF Walk, Positions
  <2>5. \A i \in 1 .. x.count :
          s[i].active /\ TypeOf[s[i].handle] = x.type =>
              /\ s[i].handle \in x.present
              /\ Past(x, i) => s[i].handle \in ToSet(x.visited)
    <3> SUFFICES ASSUME NEW i \in 1 .. d.count, s[i].active, TypeOf[s[i].handle] = d.type
                 PROVE  /\ s[i].handle \in d.present
                        /\ Past(x, i) => s[i].handle \in ToSet(d.visited)
      BY <1>7
    <3>1. Past(x, i) => Past(d, i)
      BY <1>4, <1>7, <2>1 DEF Past
    <3> QED
      BY <1>3, <3>1 DEF Walk
  <2> QED
    BY <1>3, <1>7, <2>3, <2>4, <2>5 DEF Walk
<1>8. ASSUME NEW x \in Delivery, x.index = d.index, x.pc \in {"callback", "unwind"},
             d.pc \in {"interest", "callback"},
             x.type = d.type, x.count = d.count, x.present = d.present,
             x.visited = d.visited
      PROVE  Walk(x, s)
  <2>1. \A i : Past(x, i) <=> Past(d, i)
    BY <1>8 DEF Past
  <2> QED
    BY <1>3, <1>8, <2>1 DEF Walk
<1>9. CASE SkipRecord(a)
  <2> DEFINE x == Advance(d)
  <2>1. /\ x \in Delivery /\ x.index = d.index + 1 /\ x.pc = "loop" /\ x.type = d.type
        /\ x.count = d.count /\ x.present = d.present /\ x.visited = d.visited
    BY <1>1, Advancing
  <2>2. delivery' = [delivery EXCEPT ![a] = x] /\ d.index <= d.count
    BY <1>9 DEF SkipRecord, InRange
  <2>3. ~(s[d.index].active /\ TypeOf[s[d.index].handle] = d.type)
    BY <1>4, <1>9, <2>2 DEF SkipRecord, Matches
  <2> HIDE DEF x
  <2>4. Walk(x, s)
    BY <1>7, <2>1, <2>2, <2>3
  <2> QED
    BY <1>2, <1>6, <2>1, <2>2, <2>4, WalkStepKeepsDeliveries
<1>10. CASE Decline(a) \/ ReturnFromCallback(a)
  <2> DEFINE x == Advance(d)
  <2>1. /\ x \in Delivery /\ x.index = d.index + 1 /\ x.pc = "loop" /\ x.type = d.type
        /\ x.count = d.count /\ x.present = d.present /\ x.visited = d.visited
    BY <1>1, Advancing
  <2>2. /\ delivery' = [delivery EXCEPT ![a] = x]
        /\ d.pc \in {"interest", "callback"}
    BY <1>10 DEF Decline, ReturnFromCallback
  <2>3. d.index <= d.count /\ d.pc # "loop"
    BY <1>3, <2>2 DEF Walk
  <2> HIDE DEF x
  <2>4. Walk(x, s)
    BY <1>7, <2>1, <2>3
  <2> QED
    BY <1>2, <1>6, <2>1, <2>2, <2>4, WalkStepKeepsDeliveries
<1>11. CASE InvokeCallback(a) \/ Throw(a)
  <2>1. PICK pc \in {"callback", "unwind"} : delivery' = [delivery EXCEPT ![a].pc = pc]
    BY <1>11 DEF InvokeCallback, Throw
  <2> DEFINE x == [d EXCEPT !.pc = pc]
  <2>2. /\ x \in Delivery /\ x.index = d.index /\ x.pc = pc /\ x.type = d.type
        /\ x.count = d.count /\ x.present = d.present /\ x.visited = d.visited
    BY <1>1 DEF Delivery
  <2>3. delivery' = [delivery EXCEPT ![a] = x]
    BY <2>1
  <2>4. d.pc \in {"interest", "callback"}
    BY <1>11 DEF InvokeCallback, Throw
  <2> HIDE DEF x
  <2>5. Walk(x, s)
    BY <1>8, <2>2, <2>4
  <2> QED
    BY <1>2, <1>6, <2>2, <2>3, <2>5, WalkStepKeepsDeliveries
<1>12. CASE LookUpRecord(a)
  <2> DEFINE h == s[d.index].handle
             x == Visiting(d, h)
  <2>1. /\ d.pc = "loop" /\ d.index <= d.count
        /\ s[d.index].active /\ TypeOf[h] = d.type
        /\ delivery' = [delivery EXCEPT ![a] = x]
    <3>1. d.pc = "loop" /\ InRange(d) /\ Matches(d)
      BY <1>12 DEF LookUpRecord
    <3>2. delivery' = [delivery EXCEPT ![a] = x]
      BY <1>12 DEF LookUpRecord, Visiting
    <3> HIDE DEF x
    <3> QED
      BY <3>1, <3>2 DEF InRange, Matches
  <2>2. d.index \in 1 .. d.count /\ d.index \in Positions(s) /\ h \in Handles
    BY <1>4, <1>5, <2>1 DEF Record
  <2>3. d.visited \in Seq(Handles) /\ d.present \in SUBSET Handles
    BY <1>1 DEF Delivery
  <2>4. /\ x \in Delivery /\ x.index = d.index /\ x.pc = "interest" /\ x.type = d.type
        /\ x.count = d.count /\ x.present = d.present /\ x.visited = Append(d.visited, h)
    BY <1>1, <2>2, VisitingFields
  <2>5. h \notin ToSet(d.visited)
    <3>1. \A i \in Positions(s) : Past(d, i) => i < d.index
      BY <2>1 DEF Past
    <3>2. \A i \in Positions(s) : s[i].handle = h => i = d.index
      BY <1>1, <2>2 DEF Distinct
    <3> QED
      BY <1>3, <1>4, <3>1, <3>2 DEF Walk
  <2>6. ToSet(x.visited) = ToSet(d.visited) \cup {h} /\ IsInjective(x.visited)
    <3> HIDE DEF h, x
    <3>1. IsInjective(d.visited)
      BY <1>3 DEF Walk
    <3>2. /\ x.visited \in Seq(Handles) /\ Len(x.visited) = Len(d.visited) + 1
          /\ Len(d.visited) \in Nat
          /\ \A i \in 1 .. Len(d.visited) : x.visited[i] = d.visited[i]
          /\ x.visited[Len(d.visited) + 1] = h
      BY <2>2, <2>3, <2>4
    <3>3. /\ DOMAIN x.visited = DOMAIN d.visited \cup {Len(d.visited) + 1}
          /\ DOMAIN d.visited = 1 .. Len(d.visited)
      BY <2>3, <3>2
    <3>4. ToSet(x.visited) = ToSet(d.visited) \cup {h}
      BY <3>2, <3>3 DEF ToSet
    <3>5. \A i \in DOMAIN d.visited : d.visited[i] # h
      BY <2>5 DEF ToSet
    <3>6. IsInjective(x.visited)
      BY <3>1, <3>2, <3>3, <3>5 DEF IsInjective
    <3> QED
      BY <3>4, <3>6
  <2> HIDE DEF h, x
  <2>7. h \in d.present
    BY <1>3, <2>1, <2>2 DEF Walk, h
  <2>8. \A i : Past(x, i) <=> i < d.index \/ i = d.index
    BY <2>4 DEF Past
  <2>9. \A i : Past(d, i) <=> i < d.index
    BY <2>1 DEF Past
  <2>10. \A g \in ToSet(x.visited) : \E i \in Positions(s) : s[i].handle = g /\ Past(x, i)
    <3> TAKE g \in ToSet(x.visited)
    <3>1. CASE g \in ToSet(d.visited)
      BY <1>3, <2>8, <2>9, <3>1 DEF Walk
    <3>2. CASE g = h
      BY <2>2, <2>8, <3>2 DEF h
    <3> QED
      BY <2>6, <3>1, <3>2
  <2>11. \A i \in 1 .. x.count :
          s[i].active /\ TypeOf[s[i].handle] = x.type =>
              /\ s[i].handle \in x.present
              /\ Past(x, i) => s[i].handle \in ToSet(x.visited)
    <3> SUFFICES ASSUME NEW i \in 1 .. d.count, s[i].active, TypeOf[s[i].handle] = d.type
                 PROVE  /\ s[i].handle \in d.present
                        /\ Past(x, i) => s[i].handle \in ToSet(x.visited)
      BY <2>4
    <3>1. s[i].handle \in d.present
      BY <1>3 DEF Walk
    <3>2. Past(d, i) => s[i].handle \in ToSet(x.visited)
      BY <1>3, <2>6 DEF Walk
    <3>3. i = d.index => s[i].handle \in ToSet(x.visited)
      BY <2>6 DEF h
    <3> QED
      BY <2>8, <2>9, <3>1, <3>2, <3>3
  <2>12. Walk(x, s)
    BY <1>3, <1>4, <2>1, <2>4, <2>6, <2>7, <2>10, <2>11 DEF Walk
  <2> QED
    BY <1>2, <1>6, <2>1, <2>4, <2>12, WalkStepKeepsDeliveries DEF x, h
<1> QED
  BY <1>6, <1>9, <1>10, <1>11, <1>12

LEMMA BeginKeepsDeliveries ==
    ASSUME Registry, Deliveries, NEW a \in Processors, NEW t \in Types, BeginProcessing(a, t)
    PROVE  Registry' /\ Deliveries' /\ listeners' = listeners
<1> DEFINE s == listeners
           x == [pc |-> "loop", type |-> t, index |-> 1, count |-> Len(s), handle |-> None,
                 present |-> {h \in ActiveHandles : TypeOf[h] = t}, visited |-> <<>>]
<1>1. s \in Seq(Record) /\ Len(s) \in Nat /\ processingDepth \in Nat
  BY DEF Registry
<1>2. /\ delivery' = [delivery EXCEPT ![a] = x]
      /\ processingDepth' = processingDepth + 1
      /\ delivery[a].pc = "idle"
      /\ UNCHANGED <<listeners, needsCompaction, handleState>>
  BY DEF BeginProcessing
<1>3. ActiveHandles = Registered(s) /\ Registered(s) \subseteq Handles
  BY <1>1, Reading
<1>4. /\ x.pc = "loop" /\ x.type = t /\ x.index = 1 /\ x.count = Len(s)
      /\ x.present = {h \in Registered(s) : TypeOf[h] = t} /\ x.visited = <<>>
  BY <1>3
<1>5. x \in Delivery
  <2>1. <<>> \in Seq(Handles)
    OBVIOUS
  <2> QED
    BY <1>1, <1>3, <2>1 DEF Delivery
<1> HIDE DEF x
<1>6. Walk(x, s)
  <2>1. ToSet(x.visited) = {} /\ IsInjective(x.visited)
    BY <1>4 DEF ToSet, IsInjective
  <2>2. \A i \in 1 .. x.count : ~Past(x, i)
    BY <1>4 DEF Past
  <2>3. \A h \in x.present : TypeOf[h] = x.type /\ \E i \in 1 .. x.count : s[i].handle = h
    BY <1>1, <1>4 DEF Registered, ActiveIn
  <2>4. \A i \in 1 .. x.count : s[i].active => s[i].handle \in Registered(s)
    BY <1>1, <1>4 DEF Registered, ActiveIn
  <2> QED
    BY <1>1, <1>4, <2>1, <2>2, <2>3, <2>4 DEF Walk
<1>7. Registry'
  <2>1. Pending'
    BY <1>1, <1>2 DEF Registry, Pending, Positions
  <2> QED
    BY <1>1, <1>2, <2>1 DEF Registry
<1>8. /\ delivery' \in [Processors -> Delivery]
      /\ delivery'[a] = x
      /\ \A b \in Processors : b # a => delivery'[b] = delivery[b]
      /\ Delivering' = Delivering \cup {a}
      /\ Cardinality(Delivering') = processingDepth + 1
  <2>1. a \notin Delivering
    BY <1>2 DEF Delivering
  <2> QED
    BY <1>2, <1>4, <1>5, <2>1, DeliveryChanges
<1>9. ASSUME NEW b \in Delivering' PROVE Walk(delivery'[b], listeners')
  <2>1. CASE b = a
    BY <1>2, <1>6, <1>8, <2>1
  <2>2. CASE b # a
    <3>1. b \in Processors /\ b \in Delivering
      BY <1>8, <2>2 DEF Delivering
    <3> QED
      BY <1>2, <1>8, <2>2, <3>1 DEF Deliveries
  <2> QED
    BY <2>1, <2>2
<1> QED
  BY <1>2, <1>7, <1>8, <1>9 DEF Deliveries

LEMMA FinishKeepsDeliveries ==
    ASSUME Registry, Deliveries, NEW a \in Processors, FinishProcessing(a)
    PROVE  Registry' /\ Deliveries' /\ Registered(listeners)' = Registered(listeners)
<1> DEFINE s == listeners
<1>1. /\ s \in Seq(Record) /\ Distinct(s) /\ processingDepth \in Nat
      /\ handleState \in [Handles -> States] /\ needsCompaction \in BOOLEAN
  BY DEF Registry
<1>2. /\ delivery' = [delivery EXCEPT ![a] = NotDelivering]
      /\ processingDepth' = DepthLeft(delivery[a])
      /\ listeners' = IF CompactsNow THEN Compact(s) ELSE s
      /\ needsCompaction' = (needsCompaction /\ ~CompactsNow)
      /\ handleState' = handleState
      /\ delivery[a].pc # "idle"
  BY DEF FinishProcessing
<1>3. NotDelivering \in Delivery /\ NotDelivering.pc = "idle"
  <2>1. <<>> \in Seq(Handles)
    OBVIOUS
  <2> QED
    BY <2>1 DEF NotDelivering, Delivery
<1>4. a \in Delivering
  BY <1>2 DEF Delivering
<1>5. /\ delivery' \in [Processors -> Delivery]
      /\ \A b \in Processors : b # a => delivery'[b] = delivery[b]
      /\ Delivering' = Delivering \ {a}
      /\ Cardinality(Delivering') = processingDepth - 1
      /\ IsFiniteSet(Delivering) /\ processingDepth = Cardinality(Delivering)
  BY <1>2, <1>3, <1>4, DeliveryChanges DEF Deliveries
<1>6. processingDepth # 0
  BY <1>4, <1>5, FS_EmptySet
<1>7. processingDepth' = processingDepth - 1 /\ processingDepth' \in Nat
  BY <1>1, <1>2, <1>6 DEF DepthLeft
<1>8. \A b \in Processors \ Delivering' : delivery'[b] = NotDelivering
  BY <1>2, <1>5 DEF Deliveries
<1>9. CASE CompactsNow
  <2>1. /\ listeners' \in Seq(Record) /\ Distinct(listeners')
        /\ Recorded(listeners') \subseteq Recorded(s)
        /\ Registered(listeners') = Registered(s)
        /\ \A i \in Positions(listeners') : listeners'[i].active
    BY <1>1, <1>2, <1>9, Compacting
  <2>2. Pending'
    BY <2>1 DEF Pending
  <2>3. Registry'
    <3>1. needsCompaction' \in BOOLEAN
      BY <1>2
    <3> QED
      BY <1>1, <1>2, <1>7, <2>1, <2>2, <3>1 DEF Registry
  <2>4. Delivering' = {}
    <3>1. Cardinality(Delivering') = 0
      BY <1>5, <1>9 DEF CompactsNow
    <3>2. IsFiniteSet(Delivering')
      BY <1>5, FS_RemoveElement
    <3> QED
      BY <3>1, <3>2, FS_EmptySet
  <2>5. Deliveries'
    BY <1>5, <1>7, <1>8, <2>4 DEF Deliveries
  <2> QED
    BY <2>1, <2>3, <2>5
<1>10. CASE ~CompactsNow
  <2>1. listeners' = s /\ needsCompaction' = needsCompaction
    BY <1>1, <1>2, <1>10
  <2>2. Pending'
    <3>1. SUFFICES ASSUME \E i \in Positions(s) : ~s[i].active
                   PROVE  needsCompaction /\ processingDepth' > 0
      BY <2>1 DEF Pending, Positions
    <3>2. needsCompaction
      BY <3>1 DEF Registry, Pending
    <3>3. processingDepth # 1
      BY <1>10, <3>2 DEF CompactsNow
    <3> QED
      BY <1>1, <1>6, <1>7, <3>2, <3>3
  <2>3. Registry'
    BY <1>1, <1>2, <1>7, <2>1, <2>2 DEF Registry
  <2>4. ASSUME NEW b \in Delivering' PROVE Walk(delivery'[b], listeners')
    <3>1. b \in Delivering /\ delivery'[b] = delivery[b]
      BY <1>5, <2>4 DEF Delivering
    <3> QED
      BY <2>1, <3>1 DEF Deliveries
  <2>5. Deliveries'
    BY <1>5, <1>7, <1>8, <2>4 DEF Deliveries
  <2> QED
    BY <2>1, <2>3, <2>5
<1> QED
  BY <1>9, <1>10

\* A registration call, made while some are delivering, changes nothing they rely on.
LEMMA OthersKeepDeliveries ==
    ASSUME Registry, Registry', Deliveries, Grows \/ processingDepth = 0,
           UNCHANGED <<delivery, processingDepth>>
    PROVE  Deliveries'
<1>1. Delivering' = Delivering
  BY DEF Delivering
<1>2. listeners \in Seq(Record) /\ listeners' \in Seq(Record)
  BY DEF Registry
<1>3. ASSUME NEW b \in Delivering' PROVE Walk(delivery'[b], listeners')
  <2>1. CASE Grows
    <3>1. b \in Delivering /\ delivery[b] \in Delivery
      BY <1>1, <1>3 DEF Deliveries, Delivering
    <3> QED
      BY <1>2, <2>1, <3>1, WalkStays DEF Deliveries
  <2>2. CASE processingDepth = 0
    <3>1. IsFiniteSet(Delivering)
      <4>1. IsFiniteSet(Processors) /\ Delivering \in SUBSET Processors
        BY ActorsAssumption, FS_Subset DEF Delivering
      <4> QED
        BY <4>1, FS_Subset
    <3>2. Delivering = {}
      BY <2>2, <3>1, FS_EmptySet DEF Deliveries
    <3> QED
      BY <1>1, <1>3, <3>2
  <2> QED
    BY <2>1, <2>2
<1> QED
  BY <1>1, <1>3 DEF Deliveries

----------------------------------------------------------------------------
\* Registration calls and the routes.

Op == [pc : {"idle", "register", "unregister", "rollback", "unroute"},
       types : SUBSET Types, handle : Handles \cup {None}]

Owes(pc) == pc \in {"register", "unroute"}

Calls ==
    /\ op \in [Actors -> Op]
    /\ \A a \in Actors : ~Owes(op[a].pc) => op[a].types = {}

\* Somebody is registered for t.
Wanted(t) == \E h \in Registered(listeners) : TypeOf[h] = t

\* As long as nobody disturbs it, a type has one caller at most, who is about to do what
\* the registry wants.
Routed ==
    /\ routes \subseteq Types /\ disturbed \subseteq Types
    /\ \A t \in Types \ disturbed :
        /\ \A a, b \in Actors : t \in op[a].types /\ t \in op[b].types => a = b
        /\ \A a \in Actors : t \in op[a].types => (op[a].pc = "register" <=> Wanted(t))
        /\ (\A a \in Actors : t \notin op[a].types) => (t \in routes <=> Wanted(t))

\* A call whose section has decided about the types of T.
LEMMA Decided ==
    ASSUME Calls, Routed, NEW a \in Actors, NEW x \in Op, ~Owes(op[a].pc),
           op' = [op EXCEPT ![a] = x], ~Owes(x.pc) => x.types = {},
           disturbed' = disturbed \cup (InFlight \cap x.types), routes' = routes,
           \A t \in Types \ x.types : Wanted(t)' <=> Wanted(t),
           \A t \in x.types : Wanted(t)' <=> x.pc = "register"
    PROVE  Calls' /\ Routed'
<1>1. /\ op' \in [Actors -> Op]
      /\ op'[a] = x
      /\ \A b \in Actors : b # a => op'[b] = op[b]
      /\ op[a].types = {}
  BY DEF Calls
<1>2. Calls'
  BY <1>1 DEF Calls
<1>3. x.types \subseteq Types
  BY DEF Op
<1>4. ASSUME NEW t \in Types \ disturbed'
      PROVE  /\ \A b, c \in Actors : t \in op'[b].types /\ t \in op'[c].types => b = c
             /\ \A b \in Actors : t \in op'[b].types => (op'[b].pc = "register" <=> Wanted(t)')
             /\ (\A b \in Actors : t \notin op'[b].types) => (t \in routes' <=> Wanted(t)')
  <2>1. /\ t \in Types \ disturbed
        /\ t \in x.types => \A b \in Actors : t \notin op[b].types
    BY DEF InFlight
  <2>2. CASE t \in x.types
    BY <1>1, <2>1, <2>2
  <2>3. CASE t \notin x.types
    <3>1. Wanted(t)' <=> Wanted(t)
      BY <2>1, <2>3
    <3> HIDE DEF Wanted
    <3> QED
      BY <1>1, <2>1, <2>3, <3>1 DEF Routed
  <2> QED
    BY <2>2, <2>3
<1>5. routes' \subseteq Types /\ disturbed' \subseteq Types
  BY <1>3 DEF Routed
<1> QED
  BY <1>2, <1>4, <1>5 DEF Routed

\* A call to the dispatcher, which settles the types of T.
LEMMA Settling ==
    ASSUME Calls, Routed, NEW a \in Actors, NEW x \in Op, NEW T \in SUBSET op[a].types,
           op' = [op EXCEPT ![a] = x], ~Owes(x.pc) => x.types = {},
           x.types \subseteq op[a].types \ T,
           op[a].types \ T \subseteq x.types,
           x.types # {} => x.pc = op[a].pc,
           disturbed \subseteq disturbed', disturbed' \subseteq disturbed \cup op[a].types,
           routes' \subseteq Types,
           \A t \in T \ disturbed' : t \in routes' <=> op[a].pc = "register",
           \A t \in Types \ T : t \in routes' <=> t \in routes,
           listeners' = listeners
    PROVE  Calls' /\ Routed'
<1>1. /\ op' \in [Actors -> Op]
      /\ op'[a] = x
      /\ \A b \in Actors : b # a => op'[b] = op[b]
      /\ op[a].types \subseteq Types
  BY DEF Calls, Op
<1>2. Calls'
  BY <1>1 DEF Calls
<1>3. \A t : Wanted(t)' <=> Wanted(t)
  BY DEF Wanted
<1>4. ASSUME NEW t \in Types \ disturbed'
      PROVE  /\ \A b, c \in Actors : t \in op'[b].types /\ t \in op'[c].types => b = c
             /\ \A b \in Actors : t \in op'[b].types => (op'[b].pc = "register" <=> Wanted(t)')
             /\ (\A b \in Actors : t \notin op'[b].types) => (t \in routes' <=> Wanted(t)')
  <2> HIDE DEF Wanted
  <2>1. /\ t \in Types \ disturbed
        /\ \A b \in Actors : t \in op'[b].types => t \in op[b].types
    BY <1>1
  <2>2. \A b, c \in Actors : t \in op'[b].types /\ t \in op'[c].types => b = c
    BY <2>1 DEF Routed
  <2>3. \A b \in Actors : t \in op'[b].types => (op'[b].pc = "register" <=> Wanted(t)')
    BY <1>1, <1>3, <2>1 DEF Routed
  <2>4. (\A b \in Actors : t \notin op'[b].types) => (t \in routes' <=> Wanted(t)')
    <3>1. CASE t \in T
      BY <1>3, <2>1, <3>1 DEF Routed
    <3>2. CASE t \notin T
      <4>1. \A b \in Actors : t \in op[b].types => t \in op'[b].types
        BY <1>1, <3>2
      <4> QED
        BY <1>3, <2>1, <3>2, <4>1 DEF Routed
    <3> QED
      BY <3>1, <3>2
  <2> QED
    BY <2>2, <2>3, <2>4
<1>5. disturbed' \subseteq Types
  BY <1>1 DEF Routed
<1> QED
  BY <1>2, <1>4, <1>5 DEF Routed

LEMMA IdleOp == Idle \in Op /\ ~Owes(Idle.pc) /\ Idle.types = {}
BY DEF Idle, Op, Owes

LEMMA RegisterListenerStep ==
    ASSUME Registry, Deliveries, Calls, Routed,
           NEW a \in Actors, NEW h \in Handles, RegisterListener(a, h)
    PROVE  Registry' /\ Deliveries' /\ Calls' /\ Routed'
<1> DEFINE T == {TypeOf[h]}
           x == [pc |-> "register", types |-> T, handle |-> h]
<1>1. Registry' /\ Grows /\ Registered(listeners)' = Registered(listeners) \cup {h}
  BY RegisterKeepsRegistry
<1>2. Deliveries'
  BY <1>1, OthersKeepDeliveries DEF RegisterListener
<1>3. \A t : HasActive(listeners, t) <=> Wanted(t)
  BY Reading DEF Registry, Wanted
<1>4. \A t : Wanted(t)' <=> Wanted(t) \/ t = TypeOf[h]
  BY <1>1 DEF Wanted
<1>5. op[a].pc = "idle" /\ routes' = routes
  BY DEF RegisterListener, MayStart
<1> HIDE DEF Wanted
<1>6. CASE HasActive(listeners, TypeOf[h])
  <2>1. op' = op /\ disturbed' = disturbed
    BY <1>6 DEF RegisterListener
  <2>2. \A t : Wanted(t)' <=> Wanted(t)
    BY <1>3, <1>4, <1>6
  <2>3. Calls'
    BY <2>1 DEF Calls
  <2>4. Routed'
    BY <1>5, <2>1, <2>2 DEF Routed
  <2> QED
    BY <1>1, <1>2, <2>3, <2>4
<1>7. CASE ~HasActive(listeners, TypeOf[h])
  <2>1. op' = [op EXCEPT ![a] = x] /\ disturbed' = disturbed \cup (InFlight \cap T)
    BY <1>7 DEF RegisterListener, Overlap
  <2>2. x \in Op /\ x.types = T /\ x.pc = "register" /\ Owes(x.pc)
    BY TypeOfAssumption DEF Op, Owes
  <2>3. ~Owes(op[a].pc)
    BY <1>5 DEF Owes
  <2> HIDE DEF x
  <2>4. \A t \in x.types : Wanted(t)' <=> x.pc = "register"
    BY <1>4, <2>2
  <2>5. \A t \in Types \ x.types : Wanted(t)' <=> Wanted(t)
    BY <1>4, <2>2
  <2>6. Calls' /\ Routed'
    BY <1>5, <2>1, <2>2, <2>3, <2>4, <2>5, Decided
  <2> QED
    BY <1>1, <1>2, <2>6
<1> QED
  BY <1>6, <1>7

LEMMA UnregisterListenerStep ==
    ASSUME Registry, Deliveries, Calls, Routed, NEW a \in Actors, UnregisterListener(a)
    PROVE  Registry' /\ Deliveries' /\ Calls' /\ Routed' /\ Departing
<1> DEFINE h == op[a].handle
           S == {h}
           x == [pc |-> "unroute", types |-> {TypeOf[h]}, handle |-> None]
<1>1. /\ listeners \in Seq(Record) /\ Distinct(listeners) /\ processingDepth \in Nat
      /\ handleState \in [Handles -> States]
  BY DEF Registry
<1>2. /\ ActiveHandles = Registered(listeners)
      /\ Registered(listeners) \subseteq Handles
  BY <1>1, Reading
<1>3. /\ op[a].pc \in {"unregister", "rollback"}
      /\ h \in Registered(listeners)
      /\ handleState' = [handleState EXCEPT ![h] = "unregistered"]
      /\ listeners' = Compacted(Deactivate(S))
      /\ needsCompaction' = (processingDepth > 0)
      /\ UNCHANGED <<processingDepth, routes, delivery, events>>
  BY <1>2 DEF UnregisterListener
<1>4. /\ IF ~HasActive(Deactivate(S), TypeOf[h])
         THEN op' = [op EXCEPT ![a] = x] /\ disturbed' = disturbed \cup (InFlight \cap {TypeOf[h]})
         ELSE op' = [op EXCEPT ![a] = Idle] /\ disturbed' = disturbed
  BY DEF UnregisterListener, Overlap
<1> HIDE DEF h
<1>5. handleState' = [g \in Handles |-> IF g \in S THEN "unregistered" ELSE handleState[g]]
  BY <1>1, <1>2, <1>3
<1>6. \/ processingDepth > 0 /\ listeners' = Deactivate(S)
      \/ processingDepth = 0 /\ listeners' = Compact(Deactivate(S))
  BY <1>1, <1>3 DEF Compacted
<1>7. /\ Registry'
      /\ Grows \/ processingDepth = 0
      /\ Registered(listeners)' = Registered(listeners) \ S
  BY <1>3, <1>5, <1>6, RemoveKeepsRegistry
<1>7a. Departing
  BY <1>3, <1>7 DEF Departing
<1>8. Deliveries'
  BY <1>3, <1>7, OthersKeepDeliveries
<1>9. \A t : HasActive(Deactivate(S), t) <=> Wanted(t)'
  <2>1. /\ Deactivate(S) \in Seq(Record)
        /\ Registered(Deactivate(S)) = Registered(listeners) \ S
    BY <1>1, Deactivating
  <2> QED
    BY <1>7, <2>1, Reading DEF Wanted
<1>10. /\ \A t : Wanted(t)' => Wanted(t)
       /\ \A t : Wanted(t) => Wanted(t)' \/ t = TypeOf[h]
       /\ Wanted(TypeOf[h])
  BY <1>3, <1>7 DEF Wanted
<1>11. ~Owes(op[a].pc)
  BY <1>3 DEF Owes
<1> HIDE DEF Wanted
<1>12. CASE ~HasActive(Deactivate(S), TypeOf[h])
  <2>1. op' = [op EXCEPT ![a] = x] /\ disturbed' = disturbed \cup (InFlight \cap {TypeOf[h]})
    BY <1>4, <1>12
  <2>2. x \in Op /\ x.types = {TypeOf[h]} /\ x.pc = "unroute" /\ Owes(x.pc)
    BY <1>2, <1>3, TypeOfAssumption DEF Op, Owes
  <2> HIDE DEF x
  <2>3. \A t \in x.types : Wanted(t)' <=> x.pc = "register"
    BY <1>9, <1>12, <2>2
  <2>4. \A t \in Types \ x.types : Wanted(t)' <=> Wanted(t)
    BY <1>10, <2>2
  <2>5. Calls' /\ Routed'
    BY <1>3, <1>11, <2>1, <2>2, <2>3, <2>4, Decided
  <2> QED
    BY <1>7, <1>8, <1>7a, <2>5
<1>13. CASE HasActive(Deactivate(S), TypeOf[h])
  <2>1. op' = [op EXCEPT ![a] = Idle] /\ disturbed' = disturbed
    BY <1>4, <1>13
  <2>2. \A t : Wanted(t)' <=> Wanted(t)
    BY <1>9, <1>10, <1>13
  <2>3. disturbed' = disturbed \cup (InFlight \cap Idle.types)
    BY <2>1, IdleOp
  <2>4. Calls' /\ Routed'
    BY <1>3, <1>11, <2>1, <2>2, <2>3, IdleOp, Decided
  <2> QED
    BY <1>7, <1>8, <1>7a, <2>4
<1> QED
  BY <1>12, <1>13

LEMMA UnregisterAllStep ==
    ASSUME Registry, Deliveries, Calls, Routed, NEW a \in Actors, UnregisterAllListeners(a)
    PROVE  Registry' /\ Deliveries' /\ Calls' /\ Routed' /\ Departing
<1> DEFINE S == ActiveHandles
           T == {TypeOf[h] : h \in S}
           x == IF T = {} THEN Idle ELSE [pc |-> "unroute", types |-> T, handle |-> None]
<1>1. /\ listeners \in Seq(Record) /\ Distinct(listeners) /\ processingDepth \in Nat
      /\ handleState \in [Handles -> States]
  BY DEF Registry
<1>2. S = Registered(listeners) /\ Registered(listeners) \subseteq Handles
  BY <1>1, Reading
<1>3. /\ op[a].pc = "idle"
      /\ handleState' = [h \in Handles |-> IF h \in S THEN "unregistered" ELSE handleState[h]]
      /\ listeners' = IF processingDepth = 0 THEN <<>> ELSE Deactivate(S)
      /\ needsCompaction' = (processingDepth > 0)
      /\ op' = [op EXCEPT ![a] = x]
      /\ disturbed' = disturbed \cup (InFlight \cap T)
      /\ UNCHANGED <<processingDepth, routes, delivery, events>>
  BY DEF UnregisterAllListeners, MayStart, Overlap
<1> HIDE DEF S
<1>4. \/ processingDepth > 0 /\ listeners' = Deactivate(S)
      \/ processingDepth = 0 /\ listeners' = <<>> /\ S = Registered(listeners)
  BY <1>1, <1>2, <1>3
<1>5. /\ Registry'
      /\ Grows \/ processingDepth = 0
      /\ Registered(listeners)' = {}
  BY <1>2, <1>3, <1>4, RemoveKeepsRegistry
<1>5a. Departing
  BY <1>5 DEF Departing
<1>6. Deliveries'
  BY <1>3, <1>5, OthersKeepDeliveries
<1>7. (\A t : ~Wanted(t)') /\ \A t : Wanted(t) <=> t \in T
  BY <1>2, <1>5 DEF Wanted
<1>8. T \subseteq Types
  BY <1>2, TypeOfAssumption
<1>9. x \in Op /\ x.types = T /\ (~Owes(x.pc) => x.types = {}) /\ x.pc # "register"
  <2>1. CASE T = {}
    BY <2>1, IdleOp DEF Idle
  <2>2. CASE T # {}
    BY <1>8, <2>2 DEF Op, Owes
  <2> QED
    BY <2>1, <2>2
<1>10. ~Owes(op[a].pc)
  BY <1>3 DEF Owes
<1> HIDE DEF Wanted, x, T
<1>11. Calls' /\ Routed'
  BY <1>3, <1>7, <1>9, <1>10, Decided
<1> QED
  BY <1>5, <1>6, <1>11, <1>5a

LEMMA RouteCallSteps ==
    ASSUME Calls, Routed, NEW a \in Actors,
           OnListenerRegistered(a) \/ FailToRoute(a) \/ OnListenerUnregistered(a)
    PROVE  Calls' /\ Routed'
<1>1. op[a] \in Op /\ op[a].types \subseteq Types /\ routes \subseteq Types
  BY DEF Calls, Op, Routed
<1>2. CASE OnListenerRegistered(a)
  <2> DEFINE T == op[a].types
  <2>1. /\ op[a].pc = "register" /\ routes' = routes \cup T
        /\ op' = [op EXCEPT ![a] = Idle]
        /\ disturbed' = disturbed /\ listeners' = listeners
    BY <1>2 DEF OnListenerRegistered, registry
  <2>2. T \in SUBSET op[a].types /\ Idle.types \subseteq op[a].types \ T
        /\ op[a].types \ T \subseteq Idle.types /\ routes' \subseteq Types
    BY <1>1, <2>1, IdleOp
  <2>3. \A t \in T \ disturbed' : t \in routes' <=> op[a].pc = "register"
    BY <2>1
  <2>4. \A t \in Types \ T : t \in routes' <=> t \in routes
    BY <2>1
  <2> HIDE DEF T
  <2> QED
    BY <2>1, <2>2, <2>3, <2>4, IdleOp, Settling
<1>3. CASE FailToRoute(a)
  <2> DEFINE T == op[a].types
             x == [pc |-> "rollback", types |-> {}, handle |-> op[a].handle]
  <2>1. /\ op' = [op EXCEPT ![a] = x]
        /\ disturbed' = disturbed \cup T
        /\ routes' = routes /\ listeners' = listeners
    BY <1>3 DEF FailToRoute, registry
  <2>2. x \in Op /\ x.types = {} /\ ~Owes(x.pc)
    BY <1>1 DEF Op, Owes
  <2> HIDE DEF x
  <2>3. T \in SUBSET op[a].types /\ op[a].types \ T = {}
    OBVIOUS
  <2>4. \A t \in T \ disturbed' : t \in routes' <=> op[a].pc = "register"
    BY <2>1
  <2> HIDE DEF T
  <2> QED
    BY <1>1, <2>1, <2>2, <2>3, <2>4, Settling DEF T
<1>4. CASE OnListenerUnregistered(a)
  <2>1. PICK t \in op[a].types :
          /\ op[a].pc = "unroute"
          /\ routes' = routes \ {t}
          /\ op' = [op EXCEPT ![a] = IF op[a].types = {t} THEN Idle
                                     ELSE [op[a] EXCEPT !.types = @ \ {t}]]
          /\ disturbed' = disturbed /\ listeners' = listeners
    BY <1>4 DEF OnListenerUnregistered, registry
  <2> DEFINE x == IF op[a].types = {t} THEN Idle ELSE [op[a] EXCEPT !.types = @ \ {t}]
             T == {t}
  <2>2. x \in Op /\ x.types = op[a].types \ T /\ (~Owes(x.pc) => x.types = {})
        /\ (x.types # {} => x.pc = op[a].pc)
    <3>1. CASE op[a].types = {t}
      BY <3>1, IdleOp
    <3>2. CASE op[a].types # {t}
      <4>1. x = [op[a] EXCEPT !.types = op[a].types \ {t}]
        BY <3>2
      <4>2. x \in Op /\ x.types = op[a].types \ T /\ x.pc = op[a].pc
        BY <1>1, <4>1 DEF Op
      <4> QED
        BY <2>1, <4>2 DEF Owes
    <3> QED
      BY <3>1, <3>2
  <2>3. op' = [op EXCEPT ![a] = x]
    BY <2>1
  <2> HIDE DEF x
  <2>4. \A u \in T \ disturbed' : u \in routes' <=> op[a].pc = "register"
    BY <2>1
  <2>5. (\A u \in Types \ T : u \in routes' <=> u \in routes) /\ routes' \subseteq Types
    BY <1>1, <2>1
  <2>6. T \in SUBSET op[a].types
    BY <2>1
  <2> HIDE DEF T
  <2> QED
    BY <2>1, <2>2, <2>3, <2>4, <2>5, <2>6, Settling
<1> QED
  BY <1>2, <1>3, <1>4

LEMMA HandleSteps ==
    ASSUME Calls, Routed, NEW a \in Actors,
           AlreadyUnregistered(a) \/ \E h \in Handles : BeginUnregister(a, h)
    PROVE  Calls' /\ Routed'
<1>1. PICK x \in Op :
        /\ op' = [op EXCEPT ![a] = x] /\ ~Owes(x.pc) /\ x.types = {}
        /\ ~Owes(op[a].pc)
        /\ routes' = routes /\ disturbed' = disturbed /\ listeners' = listeners
  <2>1. CASE AlreadyUnregistered(a)
    BY <2>1, IdleOp DEF AlreadyUnregistered, Owes, registry
  <2>2. ASSUME NEW h \in Handles, BeginUnregister(a, h)
        PROVE  \E x \in Op :
                  /\ op' = [op EXCEPT ![a] = x] /\ ~Owes(x.pc) /\ x.types = {}
                  /\ ~Owes(op[a].pc)
                  /\ routes' = routes /\ disturbed' = disturbed /\ listeners' = listeners
    <3> DEFINE x == [pc |-> "unregister", types |-> {}, handle |-> h]
    <3>1. x \in Op /\ ~Owes(x.pc) /\ x.types = {}
      BY DEF Op, Owes
    <3>2. op' = [op EXCEPT ![a] = x] /\ routes' = routes /\ disturbed' = disturbed
          /\ listeners' = listeners /\ op[a].pc = "idle"
      BY <2>2 DEF BeginUnregister, MayStart, registry
    <3> QED
      BY <3>1, <3>2 DEF Owes
  <2> QED
    BY <2>1, <2>2
<1>2. \A t : Wanted(t)' <=> Wanted(t)
  BY <1>1 DEF Wanted
<1>3. disturbed' = disturbed \cup (InFlight \cap x.types)
  BY <1>1
<1> HIDE DEF Wanted
<1> QED
  BY <1>1, <1>2, <1>3, Decided

\* Who delivers asks for no route.
LEMMA DeliveriesKeepRoutes ==
    ASSUME Calls, Routed, Registered(listeners)' = Registered(listeners),
           UNCHANGED <<op, routes, disturbed>>
    PROVE  Calls' /\ Routed'
<1>1. \A t : Wanted(t)' <=> Wanted(t)
  BY DEF Wanted
<1>2. Calls'
  BY DEF Calls
<1> HIDE DEF Wanted
<1>3. Routed'
  BY <1>1 DEF Routed
<1> QED
  BY <1>2, <1>3

----------------------------------------------------------------------------
IInv == Registry /\ Deliveries /\ Calls /\ Routed /\ events \in 0 .. MaxEvents

LEMMA IInvInit == Init => IInv
<1> SUFFICES ASSUME Init PROVE IInv
  OBVIOUS
<1>1. /\ listeners = <<>> /\ Positions(<<>>) = {} /\ ActiveIn(<<>>) = {}
      /\ <<>> \in Seq(Record)
  BY DEF Init, Positions, ActiveIn
<1>2. Recorded(listeners) = {} /\ Registered(listeners) = {} /\ Distinct(listeners)
  BY <1>1 DEF Recorded, Registered, Distinct
<1>3. Registry
  BY <1>1, <1>2 DEF Init, Registry, States, Pending
<1>4. NotDelivering \in Delivery /\ NotDelivering.pc = "idle"
  <2>1. <<>> \in Seq(Handles)
    OBVIOUS
  <2> QED
    BY <2>1 DEF NotDelivering, Delivery
<1>5. Deliveries
  <2>1. Delivering = {}
    BY <1>4 DEF Init, Delivering
  <2> QED
    BY <1>4, <2>1, FS_EmptySet DEF Init, Deliveries
<1>6. Calls
  BY IdleOp DEF Init, Calls
<1>7. Routed
  <2>1. \A t : ~Wanted(t)
    BY <1>2 DEF Wanted
  <2>2. \A a \in Actors : op[a].types = {}
    BY IdleOp DEF Init
  <2> HIDE DEF Wanted
  <2> QED
    BY <2>1, <2>2 DEF Init, Routed
<1> QED
  BY <1>3, <1>5, <1>6, <1>7, BoundsAssumption DEF Init, IInv

LEMMA IInvNext == IInv /\ [Next]_vars => IInv'
<1> SUFFICES ASSUME IInv, [Next]_vars PROVE IInv'
  OBVIOUS
<1> USE DEF IInv
<1>1. ASSUME NEW a \in Actors, NEW h \in Handles, RegisterListener(a, h) PROVE IInv'
  <2>1. Registry' /\ Deliveries' /\ Calls' /\ Routed'
    BY <1>1, RegisterListenerStep
  <2> QED
    BY <1>1, <2>1 DEF RegisterListener
<1>2. ASSUME NEW a \in Actors, UnregisterListener(a) PROVE IInv'
  <2>1. Registry' /\ Deliveries' /\ Calls' /\ Routed'
    BY <1>2, UnregisterListenerStep
  <2> QED
    BY <1>2, <2>1 DEF UnregisterListener
<1>3. ASSUME NEW a \in Actors, UnregisterAllListeners(a) PROVE IInv'
  <2>1. Registry' /\ Deliveries' /\ Calls' /\ Routed'
    BY <1>3, UnregisterAllStep
  <2> QED
    BY <1>3, <2>1 DEF UnregisterAllListeners
<1>4. ASSUME NEW a \in Actors,
             \/ OnListenerRegistered(a) \/ FailToRoute(a) \/ OnListenerUnregistered(a)
             \/ AlreadyUnregistered(a) \/ \E h \in Handles : BeginUnregister(a, h)
      PROVE  IInv'
  <2>1. UNCHANGED <<registry, delivery, events>>
    BY <1>4 DEF OnListenerRegistered, FailToRoute, OnListenerUnregistered,
                AlreadyUnregistered, BeginUnregister
  <2>2. Calls' /\ Routed'
    BY <1>4, RouteCallSteps, HandleSteps
  <2>3. Registry'
    BY <2>1 DEF registry, Registry, Pending
  <2>4. Deliveries'
    BY <2>1 DEF registry, Deliveries, Delivering
  <2> QED
    BY <2>1, <2>2, <2>3, <2>4
<1>5. ASSUME NEW a \in Processors, NEW t \in Types, BeginProcessing(a, t) PROVE IInv'
  <2>1. Registry' /\ Deliveries' /\ listeners' = listeners
    BY <1>5, BeginKeepsDeliveries
  <2>2. Calls' /\ Routed'
    BY <1>5, <2>1, DeliveriesKeepRoutes DEF BeginProcessing
  <2>3. events' \in 0 .. MaxEvents
    BY <1>5, BoundsAssumption DEF BeginProcessing
  <2> QED
    BY <2>1, <2>2, <2>3
<1>6. ASSUME NEW a \in Processors,
             \/ SkipRecord(a) \/ LookUpRecord(a) \/ Decline(a) \/ InvokeCallback(a)
             \/ ReturnFromCallback(a) \/ Throw(a)
      PROVE  IInv'
  <2>1. Deliveries' /\ UNCHANGED registry
    BY <1>6, WalkSteps
  <2>2. UNCHANGED <<op, routes, disturbed, events>>
    BY <1>6 DEF SkipRecord, LookUpRecord, Decline, InvokeCallback, ReturnFromCallback, Throw
  <2>3. Calls' /\ Routed'
    BY <2>1, <2>2, DeliveriesKeepRoutes DEF registry
  <2>4. Registry'
    BY <2>1 DEF registry, Registry, Pending
  <2> QED
    BY <2>1, <2>2, <2>3, <2>4
<1>7. ASSUME NEW a \in Processors, FinishProcessing(a) PROVE IInv'
  <2>1. Registry' /\ Deliveries' /\ Registered(listeners)' = Registered(listeners)
    BY <1>7, FinishKeepsDeliveries
  <2>2. Calls' /\ Routed'
    BY <1>7, <2>1, DeliveriesKeepRoutes DEF FinishProcessing
  <2> QED
    BY <1>7, <2>1, <2>2 DEF FinishProcessing
<1>8. CASE UNCHANGED vars
  BY <1>8 DEF vars, registry, Registry, Pending, Deliveries, Delivering, Calls, Routed, Wanted
<1> QED
  BY <1>1, <1>2, <1>3, <1>4, <1>5, <1>6, <1>7, <1>8 DEF Next, RegistrationStep, DeliveryStep

LEMMA IInvHolds == Spec => []IInv
BY IInvInit, IInvNext, PTL DEF Spec

\* The registry, its routes and everything under way have their types, and
\* _processingDepth counts the deliveries in progress.
THEOREM TypeCorrect == Spec => []TypeOK
<1>1. IInv => TypeOK
  BY DEF IInv, Registry, Deliveries, Delivering, Calls, Routed, TypeOK, Record, States,
         Delivery, Op
<1> QED
  BY <1>1, IInvHolds, PTL

\* A handle says that it is registered exactly while its listener has its one active record.
THEOREM HandlesAreRight == Spec => []HandlesAgree
<1>1. IInv => HandlesAgree
  <2> SUFFICES ASSUME IInv PROVE HandlesAgree
    OBVIOUS
  <2>1. listeners \in Seq(Record) /\ DOMAIN listeners = Positions(listeners)
    BY DEF IInv, Registry, Positions
  <2> QED
    BY <2>1, Reading DEF IInv, Registry, HandlesAgree, Distinct
<1> QED
  BY <1>1, IInvHolds, PTL

\* A delivery visits no listener twice, and none that was registered after it began.
THEOREM DeliveriesAreApart == Spec => []NoLateNoTwice
<1>1. IInv => NoLateNoTwice
  <2> SUFFICES ASSUME IInv, NEW a \in Processors
               PROVE  /\ IsInjective(delivery[a].visited)
                      /\ ToSet(delivery[a].visited) \subseteq delivery[a].present
    BY DEF NoLateNoTwice
  <2> QED
    <3>1. CASE a \in Delivering
      BY <3>1 DEF IInv, Deliveries, Walk
    <3>2. CASE a \notin Delivering
      BY <3>2 DEF IInv, Deliveries, NotDelivering, IsInjective, ToSet
    <3> QED
      BY <3>1, <3>2
<1> QED
  BY <1>1, IInvHolds, PTL

\* A walk that has come to its end has visited all that were there and still are.
LEMMA EndOfWalk ==
    ASSUME IInv, NEW a \in Processors, delivery[a].pc = "loop", ~InRange(delivery[a])
    PROVE  delivery[a].present \cap ActiveHandles \subseteq ToSet(delivery[a].visited)
<1> DEFINE d == delivery[a]
           s == listeners
<1> SUFFICES ASSUME NEW h \in d.present, h \in ActiveHandles PROVE h \in ToSet(d.visited)
  OBVIOUS
<1>1. /\ s \in Seq(Record) /\ Distinct(s) /\ d \in Delivery /\ Walk(d, s)
  BY DEF IInv, Registry, Deliveries, Delivering
<1>2. d.count \in Nat /\ d.index \in Nat /\ d.index > d.count /\ d.count <= Len(s)
      /\ Len(s) \in Nat
  BY <1>1 DEF Delivery, Walk, InRange
<1>3. PICK i \in 1 .. d.count : s[i].handle = h
  BY <1>1 DEF Walk
<1>4. PICK j \in Positions(s) : s[j].active /\ s[j].handle = h
  BY <1>1, Reading DEF Registered, ActiveIn, Positions
<1>5. i = j
  <2>1. i \in Positions(s)
    BY <1>2 DEF Positions
  <2> QED
    BY <1>1, <1>3, <1>4, <2>1 DEF Distinct
<1>6. Past(d, i) /\ TypeOf[h] = d.type
  BY <1>1, <1>2 DEF Past, Walk
<1> QED
  BY <1>1, <1>3, <1>4, <1>5, <1>6 DEF Walk

\* A delivery that has come to its end has visited all that were there and still are.
THEOREM DeliveriesAreComplete == Spec => []NoneSkipped
<1>1. IInv => NoneSkipped
  BY EndOfWalk DEF NoneSkipped
<1> QED
  BY <1>1, IInvHolds, PTL

\* No record of an unregistered listener stays when nothing is being delivered.
THEOREM CompactionIsDone == Spec => []NothingLingers
<1>1. IInv => NothingLingers
  <2> SUFFICES ASSUME IInv, processingDepth = 0, NEW r \in ToSet(listeners)
               PROVE  r.active
    BY DEF NothingLingers
  <2>1. PICK i \in Positions(listeners) : r = listeners[i]
    BY DEF IInv, Registry, ToSet, Positions
  <2> QED
    BY <2>1 DEF IInv, Registry, Pending
<1> QED
  BY <1>1, IInvHolds, PTL

\* The routes are those of the registered listeners' types, but for the disturbed ones.
THEOREM RoutesAreRight == Spec => []RoutesFollowListeners
<1>1. IInv => RoutesFollowListeners
  <2> SUFFICES ASSUME IInv, NEW t \in Types \ disturbed, Settled(t)
               PROVE  t \in routes <=> HasActive(listeners, t)
    BY DEF RoutesFollowListeners
  <2>1. HasActive(listeners, t) <=> Wanted(t)
    BY Reading DEF IInv, Registry, Wanted
  <2>2. \A a \in Actors : t \notin op[a].types
    BY DEF Settled, InFlight
  <2> HIDE DEF Wanted
  <2> QED
    BY <2>1, <2>2 DEF IInv, Routed
<1> QED
  BY <1>1, IInvHolds, PTL

----------------------------------------------------------------------------
\* The registry implements the multicast.

\* What a delivery d owes, serves and has come to, with the listeners A registered.
DueOf(d, A) ==
    IF d.pc \in {"loop", "interest", "callback"} THEN (d.present \cap A) \ ToSet(d.visited)
    ELSE {}

ServingOf(d) == IF d.pc \in {"interest", "callback"} THEN {d.handle} ELSE {}

ProgressOf(d) ==
    CASE d.pc = "idle" -> "idle" [] d.pc = "unwind" -> "failed" [] OTHER -> "delivering"

LEMMA Views ==
    /\ Due = [a \in Processors |-> DueOf(delivery[a], ActiveHandles)]
    /\ Serving = [a \in Processors |-> ServingOf(delivery[a])]
    /\ Progress = [a \in Processors |-> ProgressOf(delivery[a])]
BY DEF Due, Serving, Progress, DueOf, ServingOf, ProgressOf

\* A step of one courier, that no listener comes or goes in.
LEMMA CourierChanges ==
    ASSUME delivery \in [Processors -> Delivery], NEW a \in Processors, NEW d \in Delivery,
           delivery' = [delivery EXCEPT ![a] = d], ActiveHandles' = ActiveHandles
    PROVE  /\ Due' = [Due EXCEPT ![a] = DueOf(d, ActiveHandles)]
           /\ Serving' = [Serving EXCEPT ![a] = ServingOf(d)]
           /\ Progress' = [Progress EXCEPT ![a] = ProgressOf(d)]
<1>1. /\ delivery'[a] = d
      /\ \A b \in Processors : b # a => delivery'[b] = delivery[b]
  OBVIOUS
<1>2. /\ Due' = [b \in Processors |-> DueOf(delivery'[b], ActiveHandles)]
      /\ Serving' = [b \in Processors |-> ServingOf(delivery'[b])]
      /\ Progress' = [b \in Processors |-> ProgressOf(delivery'[b])]
  BY DEF Due, Serving, Progress, DueOf, ServingOf, ProgressOf
<1> QED
  BY <1>1, <1>2, Views

LEMMA ReadingNext ==
    ASSUME listeners' \in Seq(Record)
    PROVE  ActiveHandles' = Registered(listeners')
BY DEF ActiveHandles, Registered, ActiveIn, ToSet

LEMMA RegistrationImplements ==
    ASSUME IInv, NEW a \in Actors, RegistrationStep(a)
    PROVE  [M!Next]_(M!vars)
<1>0. listeners \in Seq(Record) /\ ActiveHandles = Registered(listeners)
  BY Reading DEF IInv, Registry
<1>1. ASSUME NEW h \in Handles, RegisterListener(a, h) PROVE M!Join(h)
  <2>1. /\ Registry' /\ Registered(listeners)' = Registered(listeners) \cup {h}
        /\ handleState[h] = "unused" /\ delivery' = delivery
    BY <1>1, RegisterKeepsRegistry DEF IInv, RegisterListener
  <2>2. ActiveHandles' = ActiveHandles \cup {h}
    <3>1. ActiveHandles' = Registered(listeners')
      BY <2>1, ReadingNext DEF Registry
    <3> QED
      BY <1>0, <2>1, <3>1
  <2>3. h \notin ActiveHandles
    BY <1>0, <2>1 DEF IInv, Registry
  <2>4. \A b \in Processors : h \notin delivery[b].present
    <3> SUFFICES ASSUME NEW b \in Processors, h \in delivery[b].present PROVE FALSE
      OBVIOUS
    <3>1. b \in Delivering
      BY DEF IInv, Deliveries, NotDelivering
    <3>2. delivery[b] \in Delivery /\ Walk(delivery[b], listeners)
      BY <3>1 DEF IInv, Deliveries
    <3>3. PICK i \in 1 .. delivery[b].count : listeners[i].handle = h
      BY <3>2 DEF Walk
    <3>4. i \in Positions(listeners)
      BY <1>0, <3>2, <3>3 DEF Walk, Delivery, Positions
    <3> QED
      BY <2>1, <3>3, <3>4 DEF IInv, Registry, Recorded
  <2>5. Due' = Due /\ Serving' = Serving /\ Progress' = Progress
    BY <2>1, <2>2, <2>4 DEF Due, Serving, Progress
  <2> QED
    BY <2>2, <2>3, <2>5 DEF M!Join, M!round
<1>2. ASSUME NEW S \in SUBSET ActiveHandles, ActiveHandles' = ActiveHandles \ S,
             delivery' = delivery
      PROVE  M!Leave(S)
  <2>1. Due' = [b \in Processors |-> Due[b] \ S] /\ Serving' = Serving /\ Progress' = Progress
    BY <1>2 DEF Due, Serving, Progress
  <2> QED
    BY <1>2, <2>1 DEF M!Leave
<1>3. ASSUME Registry', Departing, delivery' = delivery
      PROVE  \E S \in SUBSET ActiveHandles : M!Leave(S)
  <2>1. PICK S \in SUBSET Registered(listeners) :
            Registered(listeners)' = Registered(listeners) \ S
    BY <1>3 DEF Departing
  <2>2. ActiveHandles' = Registered(listeners')
    BY <1>3, ReadingNext DEF Registry
  <2>3. ActiveHandles' = ActiveHandles \ S
    BY <1>0, <2>1, <2>2
  <2> QED
    BY <1>0, <1>2, <1>3, <2>3
<1>4. CASE UnregisterListener(a)
  <2>1. Registry' /\ Departing
    BY <1>4, UnregisterListenerStep DEF IInv
  <2>2. delivery' = delivery
    BY <1>4 DEF UnregisterListener
  <2> QED
    BY <1>3, <2>1, <2>2 DEF M!Next
<1>5. CASE UnregisterAllListeners(a)
  <2>1. Registry' /\ Departing
    BY <1>5, UnregisterAllStep DEF IInv
  <2>2. delivery' = delivery
    BY <1>5 DEF UnregisterAllListeners
  <2> QED
    BY <1>3, <2>1, <2>2 DEF M!Next
<1>6. CASE \/ OnListenerRegistered(a) \/ FailToRoute(a) \/ OnListenerUnregistered(a)
           \/ AlreadyUnregistered(a) \/ \E h \in Handles : BeginUnregister(a, h)
  <2>1. UNCHANGED <<listeners, delivery>>
    BY <1>6 DEF registry, OnListenerRegistered, FailToRoute, OnListenerUnregistered,
                AlreadyUnregistered, BeginUnregister
  <2>2. UNCHANGED <<ActiveHandles, Due, Serving, Progress>>
    BY <2>1 DEF ActiveHandles, Due, Serving, Progress
  <2> QED
    BY <2>2 DEF M!vars, M!round
<1> QED
  BY <1>1, <1>4, <1>5, <1>6 DEF RegistrationStep, M!Next

\* The record that a walk takes is one the delivery owes the event to.
LEMMA TakenIsDue ==
    ASSUME IInv, NEW a \in Processors, LookUpRecord(a)
    PROVE  LET d == delivery[a]
               h == listeners[d.index].handle
           IN  /\ d.pc = "loop" /\ d \in Delivery
               /\ delivery' = [delivery EXCEPT ![a] = Visiting(d, h)]
               /\ h \in Handles
               /\ h \in DueOf(d, ActiveHandles)
<1> DEFINE d == delivery[a]
           s == listeners
           h == s[d.index].handle
<1>1. d \in Delivery /\ s \in Seq(Record) /\ Distinct(s) /\ Len(s) \in Nat
  BY DEF IInv, Registry, Deliveries
<1>2. d.pc = "loop" /\ InRange(d) /\ Matches(d)
  BY DEF LookUpRecord
<1>3. Walk(d, s)
  BY <1>2 DEF IInv, Deliveries, Delivering
<1>4. /\ d.index \in 1 .. d.count /\ d.index \in Positions(s)
      /\ s[d.index].active /\ TypeOf[h] = d.type
  BY <1>1, <1>2, <1>3 DEF InRange, Matches, Walk, Positions, Delivery
<1>5. h \in Handles
  <2>1. s[d.index] \in Record
    BY <1>1, <1>4 DEF Positions
  <2> QED
    BY <2>1 DEF Record
<1>6. h \in ActiveHandles
  BY <1>1, <1>4, Reading DEF Registered, ActiveIn, Positions
<1>7. h \in d.present
  BY <1>3, <1>4 DEF Walk
<1>8. h \notin ToSet(d.visited)
  <2>1. \A i \in Positions(s) : Past(d, i) => i < d.index
    BY <1>2 DEF Past
  <2>2. \A i \in Positions(s) : s[i].handle = h => i = d.index
    BY <1>1, <1>4 DEF Distinct
  <2>3. d.index \in Nat
    BY <1>1 DEF Delivery
  <2> QED
    BY <1>3, <2>1, <2>2, <2>3 DEF Walk
<1>9. delivery' = [delivery EXCEPT ![a] = Visiting(d, h)]
  BY DEF LookUpRecord, Visiting
<1> HIDE DEF d, h
<1>10. h \in DueOf(d, ActiveHandles)
  BY <1>2, <1>6, <1>7, <1>8 DEF DueOf
<1> QED
  BY <1>1, <1>2, <1>5, <1>9, <1>10 DEF d, h

LEMMA AppendedSet ==
    ASSUME NEW S, NEW q \in Seq(S), NEW h \in S
    PROVE  ToSet(Append(q, h)) = ToSet(q) \cup {h}
<1> DEFINE r == Append(q, h)
<1>1. /\ r \in Seq(S) /\ Len(r) = Len(q) + 1 /\ Len(q) \in Nat
      /\ \A i \in 1 .. Len(q) : r[i] = q[i]
      /\ r[Len(q) + 1] = h
  OBVIOUS
<1>2. DOMAIN r = DOMAIN q \cup {Len(q) + 1} /\ DOMAIN q = 1 .. Len(q)
  BY <1>1
<1> HIDE DEF r
<1> QED
  BY <1>1, <1>2 DEF ToSet, r

LEMMA DeliveryImplements ==
    ASSUME IInv, NEW a \in Processors, DeliveryStep(a)
    PROVE  [M!Next]_(M!vars)
<1> DEFINE d == delivery[a]
           A == ActiveHandles
<1>1. /\ delivery \in [Processors -> Delivery] /\ d \in Delivery
      /\ listeners \in Seq(Record) /\ A = Registered(listeners)
  BY Reading DEF IInv, Registry, Deliveries
<1>2. Due[a] = DueOf(d, A) /\ Serving[a] = ServingOf(d) /\ Progress[a] = ProgressOf(d)
  BY Views
<1>3. ASSUME UNCHANGED registry, NEW x \in Delivery, delivery' = [delivery EXCEPT ![a] = x]
      PROVE  /\ A' = A
             /\ Due' = [Due EXCEPT ![a] = DueOf(x, A)]
             /\ Serving' = [Serving EXCEPT ![a] = ServingOf(x)]
             /\ Progress' = [Progress EXCEPT ![a] = ProgressOf(x)]
  <2>1. A' = A
    BY <1>3 DEF registry, ActiveHandles
  <2> QED
    BY <1>1, <1>3, <2>1, CourierChanges
<1>4. /\ Due \in [Processors -> SUBSET Handles]
      /\ Serving \in [Processors -> SUBSET (Handles \cup {None})]
      /\ Progress \in [Processors -> {"idle", "delivering", "failed"}]
  <2>1. \A b \in Processors : delivery[b] \in Delivery
    BY <1>1
  <2>2. \A x \in Delivery : DueOf(x, A) \subseteq Handles
    BY DEF DueOf, Delivery
  <2>3. \A x \in Delivery : ServingOf(x) \subseteq Handles \cup {None}
    BY DEF ServingOf, Delivery
  <2>4. \A x : ProgressOf(x) \in {"idle", "delivering", "failed"}
    BY DEF ProgressOf
  <2>5. Due \in [Processors -> SUBSET Handles]
    BY <2>1, <2>2, Views
  <2>6. Serving \in [Processors -> SUBSET (Handles \cup {None})]
    BY <2>1, <2>3, Views
  <2>7. Progress \in [Processors -> {"idle", "delivering", "failed"}]
    BY <2>4, Views
  <2> QED
    BY <2>5, <2>6, <2>7
<1>5. ASSUME NEW t \in Types, BeginProcessing(a, t) PROVE M!Begin(a, t)
  <2> DEFINE P == {h \in A : TypeOf[h] = t}
             x == [pc |-> "loop", type |-> t, index |-> 1, count |-> Len(listeners),
                   handle |-> None, present |-> P, visited |-> <<>>]
  <2>1. /\ d.pc = "idle" /\ delivery' = [delivery EXCEPT ![a] = x] /\ listeners' = listeners
    BY <1>5 DEF BeginProcessing
  <2>2. A' = A
    BY <2>1 DEF ActiveHandles
  <2>3. x \in Delivery
    <3>1. <<>> \in Seq(Handles) /\ P \subseteq Handles /\ Len(listeners) \in Nat
      BY <1>1, Reading
    <3> QED
      BY <3>1 DEF Delivery
  <2>4. DueOf(x, A) = P /\ ServingOf(x) = {} /\ ProgressOf(x) = "delivering"
    BY DEF DueOf, ServingOf, ProgressOf, ToSet
  <2>5. Serving[a] = {} /\ Progress[a] = "idle"
    BY <1>2, <2>1 DEF ServingOf, ProgressOf
  <2> HIDE DEF x
  <2>6. /\ Due' = [Due EXCEPT ![a] = P]
        /\ Serving' = [Serving EXCEPT ![a] = {}]
        /\ Progress' = [Progress EXCEPT ![a] = "delivering"]
    <3>1. /\ Due' = [Due EXCEPT ![a] = DueOf(x, A)]
          /\ Serving' = [Serving EXCEPT ![a] = ServingOf(x)]
          /\ Progress' = [Progress EXCEPT ![a] = ProgressOf(x)]
      BY <1>1, <2>1, <2>2, <2>3, CourierChanges
    <3> QED
      BY <2>4, <3>1
  <2>7. Serving' = Serving
    BY <1>4, <2>5, <2>6
  <2> QED
    BY <2>2, <2>5, <2>6, <2>7 DEF M!Begin
<1>6. ASSUME NEW h \in Handles, h \in DueOf(d, A), d.pc = "loop", UNCHANGED registry,
             delivery' = [delivery EXCEPT ![a] = Visiting(d, h)]
      PROVE  M!Take(a, h)
  <2> DEFINE x == Visiting(d, h)
  <2>1. /\ x \in Delivery /\ x.pc = "interest" /\ x.present = d.present
        /\ x.visited = Append(d.visited, h)
        /\ d.visited \in Seq(Handles)
    BY <1>1, VisitingFields, Fields
  <2>2. x.handle = h
    BY <1>1, Fields DEF Visiting
  <2>3. ToSet(x.visited) = ToSet(d.visited) \cup {h}
    BY <2>1, AppendedSet
  <2> HIDE DEF x
  <2>4. DueOf(x, A) = DueOf(d, A) \ {h}
    BY <1>6, <2>1, <2>3 DEF DueOf
  <2>5. ServingOf(x) = {h} /\ ProgressOf(x) = "delivering" /\ ProgressOf(d) = "delivering"
        /\ ServingOf(d) = {}
    BY <1>6, <2>1, <2>2 DEF ServingOf, ProgressOf
  <2>6. /\ A' = A
        /\ Due' = [Due EXCEPT ![a] = Due[a] \ {h}]
        /\ Serving' = [Serving EXCEPT ![a] = {h}]
        /\ Progress' = [Progress EXCEPT ![a] = "delivering"]
    BY <1>2, <1>3, <1>6, <2>1, <2>4, <2>5 DEF x
  <2>7. Progress' = Progress
    BY <1>2, <1>4, <2>5, <2>6
  <2> QED
    BY <1>2, <1>6, <2>5, <2>6, <2>7 DEF M!Take
<1>7. ASSUME NEW x \in Delivery, x.present = d.present, x.visited = d.visited,
             x.pc \in {"loop", "interest", "callback"}, d.pc \in {"loop", "interest", "callback"},
             UNCHANGED registry, delivery' = [delivery EXCEPT ![a] = x]
      PROVE  /\ A' = A /\ Due' = Due /\ Progress' = Progress
             /\ Serving' = [Serving EXCEPT ![a] = ServingOf(x)]
  <2>1. DueOf(x, A) = DueOf(d, A) /\ ProgressOf(x) = ProgressOf(d)
    BY <1>7 DEF DueOf, ProgressOf
  <2>2. /\ A' = A
        /\ Due' = [Due EXCEPT ![a] = DueOf(x, A)]
        /\ Serving' = [Serving EXCEPT ![a] = ServingOf(x)]
        /\ Progress' = [Progress EXCEPT ![a] = ProgressOf(x)]
    BY <1>3, <1>7
  <2>3. Due' = Due /\ Progress' = Progress
    BY <1>2, <1>4, <2>1, <2>2
  <2> QED
    BY <2>2, <2>3
<1>8. CASE SkipRecord(a) \/ Decline(a) \/ ReturnFromCallback(a)
  <2> DEFINE x == Advance(d)
  <2>1. /\ delivery' = [delivery EXCEPT ![a] = x] /\ UNCHANGED registry
        /\ d.pc \in {"loop", "interest", "callback"}
    BY <1>8 DEF SkipRecord, Decline, ReturnFromCallback
  <2>2. /\ x \in Delivery /\ x.pc = "loop" /\ x.present = d.present /\ x.visited = d.visited
    BY <1>1, Advancing
  <2> HIDE DEF x
  <2>3. /\ A' = A /\ Due' = Due /\ Progress' = Progress
        /\ Serving' = [Serving EXCEPT ![a] = {}]
    <3>1. ServingOf(x) = {}
      BY <2>2 DEF ServingOf
    <3> QED
      BY <1>7, <2>1, <2>2, <3>1
  <2>4. CASE d.pc = "loop"
    <3>1. Serving' = Serving
      BY <1>2, <1>4, <2>3, <2>4 DEF ServingOf
    <3> QED
      BY <2>3, <3>1 DEF M!vars, M!round
  <2>5. CASE d.pc \in {"interest", "callback"}
    <3>1. Serving[a] # {}
      BY <1>2, <2>5 DEF ServingOf
    <3>2. M!Serve(a)
      BY <2>3, <3>1 DEF M!Serve
    <3> QED
      BY <3>2 DEF M!Next
  <2> QED
    BY <2>1, <2>4, <2>5
<1>9. CASE InvokeCallback(a)
  <2> DEFINE x == [d EXCEPT !.pc = "callback"]
  <2>1. /\ delivery' = [delivery EXCEPT ![a] = x] /\ UNCHANGED registry /\ d.pc = "interest"
    BY <1>9 DEF InvokeCallback
  <2>2. /\ x \in Delivery /\ x.pc = "callback" /\ x.present = d.present
        /\ x.visited = d.visited /\ x.handle = d.handle
    BY <1>1 DEF Delivery
  <2> HIDE DEF x
  <2>3. ServingOf(x) = ServingOf(d)
    BY <2>1, <2>2 DEF ServingOf
  <2>4. /\ A' = A /\ Due' = Due /\ Progress' = Progress
        /\ Serving' = [Serving EXCEPT ![a] = ServingOf(x)]
    BY <1>7, <2>1, <2>2
  <2>5. Serving' = Serving
    BY <1>2, <1>4, <2>3, <2>4
  <2> QED
    BY <2>4, <2>5 DEF M!vars, M!round
<1>10. CASE Throw(a)
  <2> DEFINE x == [d EXCEPT !.pc = "unwind"]
  <2>1. /\ delivery' = [delivery EXCEPT ![a] = x] /\ UNCHANGED registry
        /\ d.pc \in {"interest", "callback"}
    BY <1>10 DEF Throw
  <2>2. x \in Delivery /\ x.pc = "unwind"
    BY <1>1 DEF Delivery
  <2> HIDE DEF x
  <2>3. DueOf(x, A) = {} /\ ServingOf(x) = {} /\ ProgressOf(x) = "failed"
    BY <2>2 DEF DueOf, ServingOf, ProgressOf
  <2>4. Serving[a] # {}
    BY <1>2, <2>1 DEF ServingOf
  <2>5. M!Fail(a)
    BY <1>3, <2>1, <2>2, <2>3, <2>4 DEF M!Fail
  <2> QED
    BY <2>5 DEF M!Next
<1>11. CASE FinishProcessing(a)
  <2>1. /\ delivery' = [delivery EXCEPT ![a] = NotDelivering]
        /\ (d.pc = "loop" /\ ~InRange(d)) \/ d.pc = "unwind"
    BY <1>11 DEF FinishProcessing
  <2>2. NotDelivering \in Delivery /\ NotDelivering.pc = "idle"
    <3>1. <<>> \in Seq(Handles)
      OBVIOUS
    <3> QED
      BY <3>1 DEF NotDelivering, Delivery
  <2>3. A' = A
    <3>1. Registry' /\ Registered(listeners)' = Registered(listeners)
      BY <1>11, FinishKeepsDeliveries DEF IInv
    <3>2. A' = Registered(listeners')
      BY <3>1, ReadingNext DEF Registry
    <3> QED
      BY <1>1, <3>1, <3>2
  <2>4. DueOf(d, A) = {}
    <3>1. CASE d.pc = "unwind"
      BY <3>1 DEF DueOf
    <3> QED
      BY <2>1, <3>1, EndOfWalk DEF DueOf
  <2>5. ServingOf(d) = {} /\ ProgressOf(d) # "idle"
    BY <2>1 DEF ServingOf, ProgressOf
  <2>6. DueOf(NotDelivering, A) = {} /\ ServingOf(NotDelivering) = {}
        /\ ProgressOf(NotDelivering) = "idle"
    BY <2>2 DEF DueOf, ServingOf, ProgressOf
  <2>7. /\ Due' = [Due EXCEPT ![a] = {}] /\ Serving' = [Serving EXCEPT ![a] = {}]
        /\ Progress' = [Progress EXCEPT ![a] = "idle"]
    <3>1. /\ Due' = [Due EXCEPT ![a] = DueOf(NotDelivering, A)]
          /\ Serving' = [Serving EXCEPT ![a] = ServingOf(NotDelivering)]
          /\ Progress' = [Progress EXCEPT ![a] = ProgressOf(NotDelivering)]
      BY <1>1, <2>1, <2>2, <2>3, CourierChanges
    <3> QED
      BY <2>6, <3>1
  <2>8. Due' = Due /\ Serving' = Serving
    BY <1>2, <1>4, <2>4, <2>5, <2>7
  <2>9. M!End(a)
    BY <1>2, <2>3, <2>4, <2>5, <2>7, <2>8 DEF M!End
  <2> QED
    BY <2>9 DEF M!Next
<1>12. CASE LookUpRecord(a)
  <2>1. UNCHANGED registry
    BY <1>12 DEF LookUpRecord
  <2>2. \E h \in Handles : M!Take(a, h)
    BY <1>6, <1>12, <2>1, TakenIsDue
  <2> QED
    BY <2>2 DEF M!Next
<1> QED
  BY <1>5, <1>8, <1>9, <1>10, <1>11, <1>12 DEF DeliveryStep, M!Next

\* Every walk over the records is a delivery to those that were there when it began and
\* are there still, once each and to nobody else: the registry implements the multicast.
THEOREM RegistryImplementsMulticast == Spec => ImplementsMulticast
<1>1. Init => M!Init
  <2> SUFFICES ASSUME Init PROVE M!Init
    OBVIOUS
  <2>1. ActiveHandles = {}
    BY DEF Init, ActiveHandles, ToSet
  <2>2. \A a \in Processors : delivery[a].pc = "idle"
    BY DEF Init, NotDelivering
  <2>3. /\ Due = [a \in Processors |-> {}] /\ Serving = [a \in Processors |-> {}]
        /\ Progress = [a \in Processors |-> "idle"]
    BY <2>2 DEF Due, Serving, Progress
  <2> QED
    BY <2>1, <2>3 DEF M!Init
<1>2. IInv /\ [Next]_vars => [M!Next]_(M!vars)
  <2> SUFFICES ASSUME IInv, [Next]_vars PROVE [M!Next]_(M!vars)
    OBVIOUS
  <2>1. CASE Next
    BY <2>1, RegistrationImplements, DeliveryImplements DEF Next
  <2>2. CASE UNCHANGED vars
    <3>1. UNCHANGED <<ActiveHandles, Due, Serving, Progress>>
      BY <2>2 DEF vars, registry, ActiveHandles, Due, Serving, Progress
    <3> QED
      BY <3>1 DEF M!vars, M!round
  <2> QED
    BY <2>1, <2>2
<1> QED
  BY <1>1, <1>2, IInvHolds, PTL DEF Spec, ImplementsMulticast, M!Spec

----------------------------------------------------------------------------
\* What the proviso of RoutesFollowListeners costs.  The mutex is released before the
\* dispatcher is called, so nothing in the code keeps two calls for a type apart.

\* No two threads have calls to make to the dispatcher for the same type.
RouteCallsApart == \A a, b \in Actors : a # b => op[a].types \cap op[b].types = {}

\* The dispatcher routes no type here that nobody listens for any more.
NoRouteLeft == \A t \in Types : Settled(t) /\ t \in routes => HasActive(listeners, t)

Undisturbed == disturbed = {}

\* A call that begins apart from all others disturbs none of them.
LEMMA OverlapsNobody ==
    ASSUME Calls, RouteCallsApart', NEW a \in Actors, ~Owes(op[a].pc), NEW x,
           op' = [op EXCEPT ![a] = x], Overlap(x.types)
    PROVE  disturbed' = disturbed
<1>1. op[a].types = {} /\ op'[a] = x /\ \A b \in Actors : b # a => op'[b] = op[b]
  BY DEF Calls
<1>2. InFlight \cap x.types = {}
  <2> SUFFICES ASSUME NEW b \in Actors, NEW t \in op[b].types, t \in x.types PROVE FALSE
    BY DEF InFlight
  <2> QED
    BY <1>1 DEF RouteCallsApart
<1> QED
  BY <1>2 DEF Overlap

LEMMA ApartNext ==
    ASSUME IInv, RouteCallsApart', ~MayFail, [Next]_vars
    PROVE  disturbed' = disturbed
<1>1. ASSUME NEW a \in Actors, NEW h \in Handles, RegisterListener(a, h)
      PROVE  disturbed' = disturbed
  <2> DEFINE x == [pc |-> "register", types |-> {TypeOf[h]}, handle |-> h]
  <2>1. ~Owes(op[a].pc) /\ x.types = {TypeOf[h]}
    BY <1>1 DEF RegisterListener, MayStart, Owes
  <2>2. CASE op' = [op EXCEPT ![a] = x] /\ Overlap({TypeOf[h]})
    <3> HIDE DEF x
    <3> QED
      BY <2>1, <2>2, OverlapsNobody DEF IInv
  <2> QED
    BY <1>1, <2>2 DEF RegisterListener
<1>2. ASSUME NEW a \in Actors, UnregisterListener(a) PROVE disturbed' = disturbed
  <2> DEFINE T == {TypeOf[op[a].handle]}
             x == [pc |-> "unroute", types |-> T, handle |-> None]
  <2>1. ~Owes(op[a].pc) /\ x.types = T
    BY <1>2 DEF UnregisterListener, Owes
  <2>2. CASE op' = [op EXCEPT ![a] = x] /\ Overlap(T)
    <3> HIDE DEF x
    <3> QED
      BY <2>1, <2>2, OverlapsNobody DEF IInv
  <2> QED
    BY <1>2, <2>2 DEF UnregisterListener
<1>3. ASSUME NEW a \in Actors, UnregisterAllListeners(a) PROVE disturbed' = disturbed
  <2> DEFINE T == {TypeOf[h] : h \in ActiveHandles}
             x == IF T = {} THEN Idle ELSE [pc |-> "unroute", types |-> T, handle |-> None]
  <2>1. ~Owes(op[a].pc) /\ op' = [op EXCEPT ![a] = x] /\ Overlap(T)
    BY <1>3 DEF UnregisterAllListeners, MayStart, Owes
  <2>2. x.types = T
    BY IdleOp
  <2> HIDE DEF x, T
  <2> QED
    BY <2>1, <2>2, OverlapsNobody DEF IInv
<1>4. ASSUME NEW a \in Actors,
             \/ OnListenerRegistered(a) \/ OnListenerUnregistered(a)
             \/ AlreadyUnregistered(a) \/ \E h \in Handles : BeginUnregister(a, h)
      PROVE  disturbed' = disturbed
  BY <1>4 DEF OnListenerRegistered, OnListenerUnregistered, AlreadyUnregistered, BeginUnregister
<1>5. ASSUME NEW a \in Processors, DeliveryStep(a) PROVE disturbed' = disturbed
  BY <1>5 DEF DeliveryStep, BeginProcessing, SkipRecord, LookUpRecord, Decline, InvokeCallback,
              ReturnFromCallback, Throw, FinishProcessing
<1> QED
  BY <1>1, <1>2, <1>3, <1>4, <1>5 DEF Next, RegistrationStep, FailToRoute, vars

\* As long as no two threads' calls to the dispatcher for a type overlap, and it always has
\* the memory for a route, a type is routed here exactly while somebody listens for it: no
\* other order of registrations, handles, tear-downs and deliveries loses a route or leaves
\* one behind.  The overlap is all that NoRouteLost fails by.
THEOREM RoutesAreRightApart ==
    ASSUME ~MayFail
    PROVE  Spec /\ []RouteCallsApart => [](NoRouteLost /\ NoRouteLeft)
<1>1. Init => Undisturbed
  BY DEF Init, Undisturbed
<1>2. IInv /\ RouteCallsApart' /\ [Next]_vars /\ Undisturbed => Undisturbed'
  BY ApartNext DEF Undisturbed
<1>3. Undisturbed /\ RoutesFollowListeners => NoRouteLost /\ NoRouteLeft
  BY DEF RoutesFollowListeners, NoRouteLost, NoRouteLeft, Undisturbed
<1> QED
  BY <1>1, <1>2, <1>3, IInvHolds, RoutesAreRight, PTL DEF Spec

=============================================================================
