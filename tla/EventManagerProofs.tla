------------------------- MODULE EventManagerProofs -------------------------
(***************************************************************************)
(* What the broker guarantees for any set of receivers and events and any  *)
(* bounds: that its records stay exact, that an event is offered to each   *)
(* receiver once, that every reference is accounted for, and that the      *)
(* flags follow the executor, whatever fails.                              *)
(***************************************************************************)
EXTENDS EventManager, CompactionProofs

Record == [type : Types, receiver : Receivers, active : BOOLEAN]

Positions(s) == 1 .. Len(s)

\* The record at i is for r and events of type t.
IsFor(s, i, t, r) == s[i].type = t /\ s[i].receiver = r

Same(s, i, j) == s[i].type = s[j].type /\ s[i].receiver = s[j].receiver

\* The types and receivers of the active records.
Active(s) == {<<s[i].type, s[i].receiver>> : i \in {j \in Positions(s) : s[j].active}}

\* No receiver has two active records of one type.
Apart(s) ==
    \A i, j \in Positions(s) : s[i].active /\ s[j].active /\ Same(s, i, j) => i = j

----------------------------------------------------------------------------
\* The records.

Records ==
    /\ records \in Seq(Record)
    /\ dispatchDepth \in {0, 1}
    /\ needsCompaction \in BOOLEAN
    /\ changes \in 0 .. MaxChanges
    /\ Apart(records)
    /\ dispatchDepth = 0 => ~needsCompaction
    /\ ~needsCompaction => \A i \in Positions(records) : records[i].active

\* No record goes or moves, and none becomes active again.
Grows ==
    /\ Len(records') >= Len(records)
    /\ \A i \in Positions(records) :
        /\ records'[i].type = records[i].type
        /\ records'[i].receiver = records[i].receiver
        /\ records'[i].active => records[i].active

LEMMA Reading ==
    ASSUME records \in Seq(Record)
    PROVE  /\ DOMAIN records = Positions(records) /\ Len(records) \in Nat
           /\ \A i \in Positions(records) : records[i] \in Record
           /\ \A i \in Positions(records) : records[i].type \in Types
           /\ \A i \in Positions(records) : records[i].receiver \in Receivers
<1>1. DOMAIN records = Positions(records) /\ Len(records) \in Nat
  BY DEF Positions
<1>2. \A i \in Positions(records) : records[i] \in Record
  BY DEF Positions
<1> QED
  BY <1>1, <1>2 DEF Record

LEMMA Compacting ==
    ASSUME NEW s \in Seq(Record), Apart(s)
    PROVE  /\ Compact(s) \in Seq(Record)
           /\ Apart(Compact(s))
           /\ \A i \in Positions(Compact(s)) : Compact(s)[i].active
           /\ Active(Compact(s)) = Active(s)
<1> DEFINE c == Compact(s)
           at(k) == NthActive(s, k)
<1>1. /\ c \in Seq(Record)
      /\ \A k \in Positions(c) : at(k) \in Positions(s) /\ c[k] = s[at(k)] /\ c[k].active
      /\ \A k, l \in Positions(c) : k < l => at(k) < at(l)
      /\ \A i \in Positions(s) : s[i].active => \E k \in Positions(c) : at(k) = i
  BY CompactKeepsActive DEF Positions
<1> HIDE DEF c, at
<1>1a. \A k, l \in Positions(c) : at(k) = at(l) => k = l
  <2> SUFFICES ASSUME NEW k \in Positions(c), NEW l \in Positions(c), at(k) = at(l) PROVE k = l
    OBVIOUS
  <2>1. ~(k < l) /\ ~(l < k)
    BY <1>1 DEF Positions
  <2> QED
    BY <2>1 DEF Positions
<1>2. Apart(c)
  BY <1>1, <1>1a DEF Apart, Same
<1>3. Active(c) = Active(s)
  <2>1. ASSUME NEW k \in Positions(c)
        PROVE  at(k) \in Positions(s) /\ s[at(k)].active /\ c[k] = s[at(k)]
    BY <1>1
  <2>2. ASSUME NEW i \in Positions(s), s[i].active
        PROVE  \E k \in Positions(c) : c[k].active /\ c[k] = s[i]
    BY <1>1, <2>2
  <2>3. Active(c) \subseteq Active(s)
    BY <2>1 DEF Active
  <2>4. Active(s) \subseteq Active(c)
    BY <2>2 DEF Active
  <2> QED
    BY <2>3, <2>4
<1> QED
  BY <1>1, <1>2, <1>3 DEF c

LEMMA RegisterKeepsRecords ==
    ASSUME Records, NEW t \in Types, NEW r \in Receivers, RegisterReceiver(t, r)
    PROVE  /\ Records' /\ Grows
           /\ <<t, r>> \notin Active(records)
           /\ Active(records)' = Active(records) \cup {<<t, r>>}
           /\ \A i \in Positions(records) : records'[i] = records[i]
<1> DEFINE s == records
           x == [type |-> t, receiver |-> r, active |-> TRUE]
<1>1. /\ s \in Seq(Record) /\ Len(s) \in Nat /\ DOMAIN s = Positions(s)
      /\ records' = Append(s, x)
      /\ UNCHANGED <<dispatchDepth, needsCompaction>>
      /\ changes' \in 0 .. MaxChanges
  BY Reading, BoundsAssumption DEF Records, RegisterReceiver
<1>2. \A i \in Positions(s) : ~(s[i].active /\ s[i].type = t /\ s[i].receiver = r)
  BY <1>1 DEF RegisterReceiver, AlreadyRegistered, IsRecord
<1>3. x \in Record /\ x.type = t /\ x.receiver = r /\ x.active
  BY DEF Record
<1> HIDE DEF x
<1>4. /\ records' \in Seq(Record) /\ Len(records') = Len(s) + 1
      /\ \A i \in Positions(s) : records'[i] = s[i]
      /\ records'[Len(s) + 1] = x
  BY <1>1, <1>3 DEF Positions
<1>5. Positions(records') = Positions(s) \cup {Len(s) + 1}
  BY <1>1, <1>4 DEF Positions
<1>6. Apart(records')
  <2>1. \A i, j \in Positions(s) :
          records'[i].active /\ records'[j].active /\ Same(records', i, j) => i = j
    BY <1>4 DEF Records, Apart, Same
  <2>2. \A i \in Positions(s) : ~(records'[i].active /\ Same(records', i, Len(s) + 1))
    BY <1>2, <1>3, <1>4 DEF Same
  <2>3. \A i \in Positions(s) : ~(records'[i].active /\ Same(records', Len(s) + 1, i))
    BY <1>2, <1>3, <1>4 DEF Same
  <2> QED
    BY <1>5, <2>1, <2>2, <2>3 DEF Apart
<1>7. Grows
  BY <1>1, <1>4 DEF Grows, Same
<1>8. <<t, r>> \notin Active(s)
  BY <1>2 DEF Active
<1>9. Active(records') = Active(s) \cup {<<t, r>>}
  <2>1. \A y : y \in Active(records') <=>
                 \E j \in Positions(records') : records'[j].active
                     /\ y = <<records'[j].type, records'[j].receiver>>
    BY DEF Active
  <2>2. \A y : y \in Active(s) <=>
                 \E j \in Positions(s) : s[j].active /\ y = <<s[j].type, s[j].receiver>>
    BY DEF Active
  <2>3. \A y : y \in Active(records') <=> y \in Active(s) \/ y = <<t, r>>
    BY <1>3, <1>4, <1>5, <2>1, <2>2
  <2> QED
    BY <2>3
<1>10. Records'
  BY <1>1, <1>3, <1>4, <1>5, <1>6, <1>7 DEF Records
<1> QED
  BY <1>4, <1>7, <1>8, <1>9, <1>10

\* The record that UnregisterReceiver finds is the only one it is looking for.
LEMMA UnregisterKeepsRecords ==
    ASSUME Records, NEW t \in Types, NEW r \in Receivers, UnregisterReceiver(t, r)
    PROVE  /\ Records'
           /\ dispatchDepth' = dispatchDepth
           /\ dispatchDepth = 1 =>
                /\ Grows
                /\ \A i \in Positions(records) :
                     records[i].active /\ ~IsFor(records, i, t, r) => records'[i].active
                /\ \A i \in Positions(records) :
                     records'[i].active => ~IsFor(records, i, t, r)
           /\ <<t, r>> \in Active(records)
           /\ Active(records)' = Active(records) \ {<<t, r>>}
<1> DEFINE s == records
<1>1. s \in Seq(Record) /\ Len(s) \in Nat /\ DOMAIN s = Positions(s)
  BY Reading DEF Records
<1>2. PICK i \in Positions(s) :
        /\ IsRecord(i, t, r)
        /\ LET inactive == [s EXCEPT ![i].active = FALSE]
           IN  IF CompactsNow
               THEN records' = Compact(inactive) /\ needsCompaction' = FALSE
               ELSE records' = inactive /\ needsCompaction' = TRUE
  BY <1>1 DEF UnregisterReceiver
<1> DEFINE d == [s EXCEPT ![i].active = FALSE]
<1>3. /\ s[i].active /\ IsFor(s, i, t, r)
      /\ dispatchDepth' = dispatchDepth
      /\ changes' \in 0 .. MaxChanges
  BY <1>2, BoundsAssumption DEF IsRecord, IsFor, UnregisterReceiver, Records
<1>4. /\ \A j \in Positions(s) : j # i => d[j] = s[j]
      /\ d[i] = [s[i] EXCEPT !.active = FALSE]
      /\ DOMAIN d = DOMAIN s
  BY <1>1
<1>5. /\ d[i] \in Record /\ d[i].type = s[i].type /\ d[i].receiver = s[i].receiver
      /\ ~d[i].active
  BY <1>1, <1>4, Reading DEF Record, Records
<1>6. d \in Seq(Record) /\ Len(d) = Len(s)
  <2>1. d \in [1 .. Len(s) -> Record]
    BY <1>1, <1>4, <1>5, Reading DEF Positions, Records
  <2> HIDE DEF d
  <2> QED
    BY <1>1, <2>1
<1> HIDE DEF d
<1>7. Apart(d)
  <2>1. Positions(d) = Positions(s)
    BY <1>6 DEF Positions
  <2>2. \A j \in Positions(s) : (d[j].active => s[j].active) /\ d[j].type = s[j].type
                                /\ d[j].receiver = s[j].receiver
    BY <1>3, <1>4, <1>5
  <2> QED
    BY <2>1, <2>2 DEF Apart, Same, Records
<1>7a. \A j \in Positions(s) : s[j].active /\ IsFor(s, j, t, r) => j = i
  BY <1>3 DEF Records, Apart, Same, IsFor
<1>7b. \A j \in Positions(s) : /\ d[j].type = s[j].type /\ d[j].receiver = s[j].receiver
                               /\ d[j].active <=> s[j].active /\ ~IsFor(s, j, t, r)
  BY <1>3, <1>4, <1>5, <1>7a
<1>7c. <<t, r>> \in Active(s) /\ Active(d) = Active(s) \ {<<t, r>>}
  <2>1. Positions(d) = Positions(s)
    BY <1>6 DEF Positions
  <2>2. <<t, r>> \in Active(s)
    BY <1>3 DEF Active, IsFor
  <2>3. \A x : x \in Active(d) <=>
                 \E j \in Positions(s) : s[j].active /\ ~IsFor(s, j, t, r)
                                        /\ x = <<s[j].type, s[j].receiver>>
    BY <1>7b, <2>1 DEF Active
  <2>4. \A x : x \in Active(s) <=>
                 \E j \in Positions(s) : s[j].active /\ x = <<s[j].type, s[j].receiver>>
    BY DEF Active
  <2>5. \A j \in Positions(s) : IsFor(s, j, t, r) <=> <<s[j].type, s[j].receiver>> = <<t, r>>
    BY DEF IsFor
  <2>6. \A x : x \in Active(d) <=> x \in Active(s) /\ x # <<t, r>>
    BY <2>3, <2>4, <2>5
  <2> QED
    BY <2>2, <2>6
<1>8. CASE dispatchDepth = 0
  <2>1. records' = Compact(d) /\ needsCompaction' = FALSE
    BY <1>2, <1>8 DEF d, CompactsNow
  <2>2. /\ records' \in Seq(Record) /\ Apart(records')
        /\ \A j \in Positions(records') : records'[j].active
        /\ Active(records') = Active(d)
    BY <1>6, <1>7, <2>1, Compacting
  <2>3. dispatchDepth' = 0 /\ needsCompaction' \in BOOLEAN /\ ~needsCompaction'
    BY <1>3, <1>8, <2>1
  <2>4. Records'
    BY <1>3, <2>2, <2>3 DEF Records
  <2> QED
    BY <1>3, <1>7c, <1>8, <2>2, <2>4
<1>9. CASE dispatchDepth = 1
  <2>1. records' = d /\ needsCompaction' = TRUE
    BY <1>2, <1>9 DEF d, CompactsNow
  <2>2. Grows
    <3>1. ASSUME NEW j \in Positions(s)
          PROVE  /\ d[j].type = s[j].type /\ d[j].receiver = s[j].receiver
                 /\ d[j].active => s[j].active
      BY <1>4, <1>5
    <3> QED
      BY <1>1, <1>6, <2>1, <3>1 DEF Grows
  <2>3. \A j \in Positions(records) :
          records[j].active /\ ~IsFor(records, j, t, r) => records'[j].active
    BY <1>3, <1>4, <2>1
  <2>4. \A j \in Positions(records) : records'[j].active => ~IsFor(records, j, t, r)
    BY <1>7b, <2>1
  <2>5. Records'
    BY <1>3, <1>6, <1>7, <1>9, <2>1 DEF Records
  <2>6. Active(records') = Active(d)
    BY <2>1
  <2> QED
    BY <1>3, <1>7c, <1>9, <2>2, <2>3, <2>4, <2>5, <2>6
<1> QED
  BY <1>8, <1>9 DEF Records

----------------------------------------------------------------------------
\* The fan-out of one event.

Walking == {"fanout", "offer"}
Counted == {"fanout", "offer", "catch"}
Walked == {"completion", "submit", "release"}
InHand == {"fanout", "offer", "catch", "unwind", "completion", "submit", "release"}
LoopPCs == {"look", "wait", "poll", "sweep", "ended"} \cup InHand

\* The receiver that was looked up is that of the record at index.
LookedUp(t) ==
    loopPC = "offer" => index <= receiverCount /\ \A r \in receiver : IsFor(records, index, t, r)

\* The walk over the records for an event of type t.
Walk(t) ==
    /\ receiverCount <= Len(records) /\ index \in 1 .. receiverCount + 1
    /\ \A i, j \in 1 .. receiverCount : Same(records, i, j) => i = j
    /\ \A r \in Receivers :
        (\E i \in 1 .. receiverCount : IsFor(records, i, t, r)) => r \in present
    /\ \A r \in Receivers :
        offers[r] = 1 => \E i \in 1 .. receiverCount : i < index /\ IsFor(records, i, t, r)
    /\ \A r \in stayed : \E i \in 1 .. receiverCount :
        records[i].active /\ IsFor(records, i, t, r) /\ (i < index => offers[r] = 1)
    /\ LookedUp(t)

Fanout ==
    /\ loopPC \in LoopPCs
    /\ IF loopPC \in InHand THEN \E e \in Events : current = {e} ELSE current = {}
    /\ dispatchDepth = IF loopPC \in Counted THEN 1 ELSE 0
    /\ receiverCount \in Nat /\ index \in 0 .. receiverCount + 1
    /\ IF loopPC = "offer" THEN \E r \in Receivers : receiver = {r} ELSE receiver = {}
    /\ present \subseteq Receivers /\ stayed \subseteq present
    /\ offers \in [Receivers -> {0, 1}]
    /\ \A r \in Receivers : offers[r] = 1 => r \in present
    /\ loopPC \in Walked => \A r \in stayed : offers[r] = 1
    /\ loopPC \in Walking => \A e \in current : Walk(TypeOf[e])

\* Of the records that a walk goes through, none goes or moves.
LEMMA WalkStays ==
    ASSUME Records, Fanout, Grows, UNCHANGED <<dispatch, dispatchDepth>>,
           stayed' \subseteq stayed,
           \A e \in current : \A r \in stayed' : \A i \in Positions(records) :
               records[i].active /\ IsFor(records, i, TypeOf[e], r) => records'[i].active
    PROVE  Fanout'
<1>1. /\ loopPC' = loopPC /\ current' = current /\ receiverCount' = receiverCount
      /\ index' = index /\ receiver' = receiver /\ offers' = offers /\ present' = present
      /\ dispatchDepth' = dispatchDepth
  BY DEF dispatch
<1>2. ASSUME NEW e \in current, loopPC \in Walking PROVE Walk(TypeOf[e])'
  <2> DEFINE t == TypeOf[e]
             n == receiverCount
  <2>1. Walk(t)
    BY <1>2 DEF Fanout
  <2>2. Len(records) \in Nat /\ n \in Nat /\ n <= Len(records) /\ n <= Len(records')
    BY <2>1, Reading DEF Records, Fanout, Walk, Grows
  <2>3. \A i \in 1 .. n : /\ i \in Positions(records)
                          /\ records'[i].type = records[i].type
                          /\ records'[i].receiver = records[i].receiver
    BY <2>2 DEF Grows, Positions
  <2>4. \A i \in 1 .. n : \A r : IsFor(records', i, t, r) <=> IsFor(records, i, t, r)
    BY <2>3 DEF IsFor
  <2>5. \A i, j \in 1 .. n : Same(records', i, j) => i = j
    BY <2>1, <2>3 DEF Walk, Same
  <2> HIDE DEF t
  <2>6. ASSUME NEW r \in stayed'
        PROVE  \E i \in 1 .. n :
                  records'[i].active /\ IsFor(records', i, t, r) /\ (i < index => offers[r] = 1)
    <3>1. PICK i \in 1 .. n :
            records[i].active /\ IsFor(records, i, t, r) /\ (i < index => offers[r] = 1)
      BY <2>1 DEF Walk
    <3>2. records'[i].active
      BY <2>3, <3>1 DEF t
    <3> QED
      BY <2>4, <3>1, <3>2
  <2>7. ASSUME loopPC = "offer"
        PROVE  index <= n /\ \A r \in receiver : IsFor(records', index, t, r)
    <3>1. index <= n
      BY <2>1, <2>7 DEF Walk, LookedUp
    <3> QED
      BY <2>1, <2>2, <2>4, <2>7, <3>1 DEF Walk, LookedUp
  <2>8. LookedUp(t)'
    BY <1>1, <2>7 DEF LookedUp, t
  <2> QED
    BY <1>1, <2>1, <2>2, <2>4, <2>5, <2>6, <2>8 DEF Walk, t
<1> QED
  BY <1>1, <1>2 DEF Fanout

LEMMA BeginKeepsFanout ==
    ASSUME Records, Fanout, NEW e \in Events, BeginDispatch(e)
    PROVE  Records' /\ Fanout'
<1> DEFINE t == TypeOf[e]
           n == Len(records)
<1>1. /\ loopPC = "sweep" /\ loopPC' = "fanout" /\ current' = {e}
      /\ dispatchDepth = 0 /\ dispatchDepth' = 1
      /\ receiverCount' = n /\ index' = 1 /\ receiver' = receiver /\ receiver = {}
      /\ offers' = [r \in Receivers |-> 0]
      /\ UNCHANGED <<records, needsCompaction, changes>>
  BY DEF BeginDispatch, Fanout, Counted
<1>2. present' = {r \in Receivers : AlreadyRegistered(t, r)} /\ stayed' = present'
  BY DEF BeginDispatch
<1>3. Records'
  BY <1>1 DEF Records
<1>4. /\ n \in Nat /\ Positions(records) = 1 .. n /\ DOMAIN records = 1 .. n
      /\ \A i \in 1 .. n : records[i].active
  BY <1>1, Reading DEF Records, Positions
<1>5. \A r \in Receivers : r \in present' <=> \E i \in 1 .. n : IsFor(records, i, t, r)
  BY <1>2, <1>4 DEF AlreadyRegistered, IsRecord, IsFor
<1>6. Walk(t)'
  <2>1. \A i, j \in 1 .. n : Same(records, i, j) => i = j
    BY <1>4 DEF Records, Apart
  <2>2. \A r \in stayed' : r \in Receivers /\ \E i \in 1 .. n :
          records[i].active /\ IsFor(records, i, t, r) /\ ~(i < 1)
    BY <1>2, <1>4, <1>5
  <2>3. LookedUp(t)'
    BY <1>1 DEF LookedUp
  <2> HIDE DEF t
  <2> QED
    BY <1>1, <1>4, <1>5, <2>1, <2>2, <2>3 DEF Walk
<1> QED
  BY <1>1, <1>2, <1>3, <1>4, <1>6 DEF Fanout, LoopPCs, InHand, Counted, Walked, Walking

LEMMA LookUpKeepsFanout ==
    ASSUME Records, Fanout, NEW e \in Events, LookUpReceiver(e)
    PROVE  Fanout' /\ UNCHANGED routes
<1> DEFINE t == TypeOf[e]
           n == receiverCount
<1>1. /\ loopPC = "fanout" /\ current = {e} /\ current' = current
      /\ receiverCount' = n /\ index <= n /\ n \in Nat
      /\ UNCHANGED <<records, dispatchDepth, needsCompaction, changes>>
      /\ UNCHANGED <<offers, present, stayed>>
      /\ receiver = {}
  BY DEF LookUpReceiver, Fanout, routes, InHand, Walking
<1>2. Walk(t)
  BY <1>1 DEF Fanout, Walking
<1>3. /\ n <= Len(records) /\ index \in 1 .. n /\ index \in DOMAIN records
      /\ index \in Positions(records)
  BY <1>1, <1>2, Reading DEF Walk, Records, Positions
<1>4. CASE records[index].active /\ records[index].type = t
  <2>1. /\ receiver' = {records[index].receiver} /\ loopPC' = "offer" /\ index' = index
    BY <1>3, <1>4 DEF LookUpReceiver, Matches
  <2>2. records[index].receiver \in Receivers
    BY <1>3, Reading DEF Records
  <2>3. LookedUp(t)'
    BY <1>1, <1>3, <1>4, <2>1 DEF LookedUp, IsFor
  <2>4. Walk(t)'
    BY <1>1, <1>2, <2>1, <2>3 DEF Walk
  <2> QED
    BY <1>1, <2>1, <2>2, <2>4 DEF Fanout, LoopPCs, InHand, Counted, Walked, Walking, routes
<1>5. CASE ~(records[index].active /\ records[index].type = t)
  <2>1. index' = index + 1 /\ receiver' = receiver /\ loopPC' = loopPC
    BY <1>3, <1>5 DEF LookUpReceiver, Matches
  <2>2. \A i \in 1 .. n : i < index + 1 => i < index \/ i = index
    BY <1>3
  <2>3. \A r \in stayed : \E i \in 1 .. n :
          records[i].active /\ IsFor(records, i, t, r) /\ (i < index + 1 => offers[r] = 1)
    <3> TAKE r \in stayed
    <3>1. PICK i \in 1 .. n :
            records[i].active /\ IsFor(records, i, t, r) /\ (i < index => offers[r] = 1)
      BY <1>2 DEF Walk
    <3>2. i # index
      BY <1>5, <3>1 DEF IsFor
    <3> QED
      BY <2>2, <3>1, <3>2
  <2>4. \A r \in Receivers :
          offers[r] = 1 => \E i \in 1 .. n : i < index + 1 /\ IsFor(records, i, t, r)
    <3> TAKE r \in Receivers
    <3> HAVE offers[r] = 1
    <3>1. PICK i \in 1 .. n : i < index /\ IsFor(records, i, t, r)
      BY <1>2 DEF Walk
    <3>2. i < index + 1
      BY <1>3, <3>1
    <3> QED
      BY <3>1, <3>2
  <2>5. LookedUp(t)'
    BY <1>1, <2>1 DEF LookedUp
  <2>6. index + 1 \in 1 .. n + 1
    BY <1>1, <1>3
  <2>7. Walk(t)'
    <3> HIDE DEF t
    <3> QED
      BY <1>1, <1>2, <2>1, <2>3, <2>4, <2>5, <2>6 DEF Walk
  <2> QED
    BY <1>1, <2>1, <2>6, <2>7 DEF Fanout, LoopPCs, InHand, Counted, Walked, Walking, routes
<1> QED
  BY <1>4, <1>5

\* Nothing was offered yet to the receiver that was looked up.
LEMMA NotYetOffered ==
    ASSUME Fanout, NEW r \in receiver, loopPC = "offer"
    PROVE  offers[r] = 0 /\ r \in Receivers /\ r \in present
<1>1. PICK e \in Events : current = {e}
  BY DEF Fanout, InHand, Walking
<1>2. Walk(TypeOf[e])
  BY <1>1 DEF Fanout, Walking
<1>3. r \in Receivers
  BY DEF Fanout
<1>4. index \in 1 .. receiverCount /\ IsFor(records, index, TypeOf[e], r)
  BY <1>2 DEF Walk, LookedUp, Fanout
<1>5. offers[r] # 1
  <2> SUFFICES ASSUME offers[r] = 1 PROVE FALSE
    OBVIOUS
  <2>1. PICK i \in 1 .. receiverCount : i < index /\ IsFor(records, i, TypeOf[e], r)
    BY <1>2, <1>3 DEF Walk
  <2>2. Same(records, i, index)
    BY <1>4, <2>1 DEF IsFor, Same
  <2>3. i = index
    BY <1>2, <1>4, <2>2 DEF Walk
  <2> QED
    BY <1>4, <2>1, <2>3
<1>6. offers[r] \in {0, 1}
  BY <1>3 DEF Fanout
<1> QED
  BY <1>2, <1>3, <1>4, <1>5, <1>6 DEF Walk

LEMMA TryOfferKeepsFanout ==
    ASSUME Records, Fanout, NEW r \in Receivers, TryOffer(r)
    PROVE  Fanout' /\ UNCHANGED routes
<1> DEFINE n == receiverCount
<1>1. /\ loopPC = "offer" /\ r \in receiver /\ receiver' = {}
      /\ loopPC' = "fanout" /\ index' = index + 1
      /\ offers' = [offers EXCEPT ![r] = @ + 1]
      /\ UNCHANGED <<records, dispatchDepth, needsCompaction, changes>>
      /\ UNCHANGED <<current, receiverCount, present, stayed>>
  BY DEF TryOffer, routes
<1>2. PICK e \in Events : current = {e}
  BY <1>1 DEF Fanout, InHand, Walking
<1> DEFINE t == TypeOf[e]
<1>3. Walk(t) /\ n \in Nat
  BY <1>1, <1>2 DEF Fanout, Walking
<1>4. offers[r] = 0 /\ r \in present
  BY <1>1, NotYetOffered
<1>5. /\ offers' \in [Receivers -> {0, 1}]
      /\ offers'[r] = 1 /\ \A q \in Receivers : q # r => offers'[q] = offers[q]
  BY <1>1, <1>4 DEF Fanout
<1>6. index \in 1 .. n /\ IsFor(records, index, t, r)
  BY <1>1, <1>3 DEF Walk, LookedUp
<1>7. Walk(t)'
  <2>1. \A q \in Receivers :
          offers'[q] = 1 => \E i \in 1 .. n : i < index + 1 /\ IsFor(records, i, t, q)
    <3> TAKE q \in Receivers
    <3> HAVE offers'[q] = 1
    <3>1. CASE q = r
      BY <1>6, <3>1
    <3>2. CASE q # r
      <4>1. PICK i \in 1 .. n : i < index /\ IsFor(records, i, t, q)
        BY <1>3, <1>5, <3>2 DEF Walk
      <4>2. i < index + 1
        BY <1>6, <4>1
      <4> QED
        BY <4>1, <4>2
    <3> QED
      BY <3>1, <3>2
  <2>2. \A q \in stayed : \E i \in 1 .. n :
          records[i].active /\ IsFor(records, i, t, q) /\ (i < index + 1 => offers'[q] = 1)
    <3> TAKE q \in stayed
    <3>1. PICK i \in 1 .. n :
            records[i].active /\ IsFor(records, i, t, q) /\ (i < index => offers[q] = 1)
      BY <1>3 DEF Walk
    <3>2. q \in Receivers
      BY DEF Fanout
    <3>3. CASE i = index
      <4>1. q = r
        BY <1>6, <3>1, <3>3 DEF IsFor
      <4> QED
        BY <1>5, <3>1, <4>1
    <3>4. CASE i # index
      <4>1. i < index + 1 => i < index
        BY <1>6, <3>4
      <4>2. offers[q] = 1 => offers'[q] = 1
        BY <1>5, <3>2
      <4> QED
        BY <3>1, <4>1, <4>2
    <3> QED
      BY <3>3, <3>4
  <2>3. LookedUp(t)'
    BY <1>1 DEF LookedUp
  <2>4. index + 1 \in 1 .. n + 1
    BY <1>3, <1>6
  <2> HIDE DEF t
  <2> QED
    BY <1>1, <1>3, <2>1, <2>2, <2>3, <2>4 DEF Walk
<1>8. index + 1 \in 0 .. n + 1
  BY <1>3, <1>6
<1>9. \A q \in Receivers : offers'[q] = 1 => q \in present
  BY <1>4, <1>5 DEF Fanout
<1> QED
  BY <1>1, <1>2, <1>5, <1>7, <1>8, <1>9
     DEF Fanout, LoopPCs, InHand, Counted, Walked, Walking, routes

LEMMA OfferThrowsKeepsFanout ==
    ASSUME Records, Fanout, NEW r \in Receivers, OfferThrows(r)
    PROVE  Fanout' /\ UNCHANGED routes
<1>1. /\ loopPC = "offer" /\ loopPC' = "catch" /\ receiver' = {}
      /\ UNCHANGED <<routes, current, receiverCount, index, offers, present, stayed>>
  BY DEF OfferThrows
<1> QED
  BY <1>1 DEF Fanout, LoopPCs, InHand, Counted, Walked, Walking, routes

LEMMA FinishKeepsFanout ==
    ASSUME Records, Fanout, FinishDispatch
    PROVE  Records' /\ Fanout' /\ Active(records)' = Active(records)
<1>1. /\ loopPC \in Counted /\ dispatchDepth = 1 /\ dispatchDepth' = 0
      /\ changes' = changes
      /\ UNCHANGED <<current, receiverCount, index, receiver, offers, present, stayed>>
  BY DEF FinishDispatch, Fanout, Counted
<1>2. ASSUME loopPC = "fanout", NEW r \in stayed PROVE offers[r] = 1
  <2>1. PICK e \in Events : current = {e}
    BY <1>2 DEF Fanout, InHand
  <2>2. Walk(TypeOf[e]) /\ index > receiverCount
    BY <1>2, <2>1 DEF Fanout, Walking, FinishDispatch
  <2>3. PICK i \in 1 .. receiverCount : i < index => offers[r] = 1
    BY <2>2 DEF Walk
  <2>4. i < index
    BY <2>2 DEF Walk, Fanout
  <2> QED
    BY <2>3, <2>4
<1>3. Records' /\ Active(records)' = Active(records)
  <2>1. CASE needsCompaction
    <3>1. records' = Compact(records) /\ needsCompaction' = FALSE
      BY <1>1, <2>1 DEF FinishDispatch, Compacted
    <3>2. /\ records' \in Seq(Record) /\ Apart(records')
          /\ \A j \in Positions(records') : records'[j].active
          /\ Active(records') = Active(records)
      BY <3>1, Compacting DEF Records
    <3>3. needsCompaction' \in BOOLEAN /\ ~needsCompaction'
      BY <3>1
    <3> QED
      BY <1>1, <3>2, <3>3 DEF Records
  <2>2. CASE ~needsCompaction
    <3>1. records' = records /\ needsCompaction' = needsCompaction
      BY <1>1, <2>2 DEF FinishDispatch, Compacted
    <3> QED
      BY <1>1, <2>2, <3>1 DEF Records
  <2> QED
    BY <2>1, <2>2
<1>4. CASE loopPC = "fanout"
  <2>1. loopPC' = "completion" /\ receiver = {}
    BY <1>4 DEF FinishDispatch, Fanout
  <2> QED
    BY <1>1, <1>2, <1>3, <1>4, <2>1 DEF Fanout, LoopPCs, InHand, Counted, Walked, Walking
<1>5. CASE loopPC = "catch"
  <2>1. loopPC' = "unwind" /\ receiver = {}
    BY <1>5 DEF FinishDispatch, Fanout
  <2> QED
    BY <1>1, <1>3, <1>5, <2>1 DEF Fanout, LoopPCs, InHand, Counted, Walked, Walking
<1> QED
  BY <1>4, <1>5 DEF FinishDispatch

LEMMA LoopKeepsFanout ==
    ASSUME Records, Fanout,
           \/ Look \/ EndWait \/ TakeBatch \/ WantsObservation \/ Submit \/ EndDispatch
           \/ EndThread \/ EndSweep
    PROVE  Fanout' /\ UNCHANGED routes
<1>1. CASE Look \/ EndWait \/ TakeBatch \/ EndSweep
  <2>1. /\ loopPC \in {"look", "wait", "poll", "sweep"}
        /\ loopPC' \in {"look", "wait", "poll", "sweep"}
        /\ UNCHANGED <<routes, current, receiverCount, index, receiver, offers, present, stayed>>
    BY <1>1 DEF Look, EndWait, TakeBatch, EndSweep, dispatch
  <2> QED
    BY <2>1 DEF Fanout, LoopPCs, InHand, Counted, Walked, Walking, routes
<1>2. CASE WantsObservation \/ Submit
  <2>1. /\ loopPC \in {"completion", "submit"}
        /\ loopPC' \in {"submit", "release"}
        /\ UNCHANGED <<routes, current, receiverCount, index, receiver, offers, present, stayed>>
    BY <1>2 DEF WantsObservation, Submit
  <2> QED
    BY <2>1 DEF Fanout, LoopPCs, InHand, Counted, Walked, Walking, routes
<1>3. CASE EndDispatch \/ EndThread
  <2>1. /\ loopPC \in {"release", "unwind"} /\ loopPC' \in {"sweep", "ended"}
        /\ current' = {} /\ receiverCount' = 0 /\ index' = 0
        /\ present' = {} /\ stayed' = {} /\ offers' = [r \in Receivers |-> 0]
        /\ UNCHANGED <<routes, receiver>>
    BY <1>3 DEF EndDispatch, EndThread
  <2> QED
    BY <2>1 DEF Fanout, LoopPCs, InHand, Counted, Walked, Walking, routes
<1> QED
  BY <1>1, <1>2, <1>3

LEMMA RegistrationKeepsFanout ==
    ASSUME Records, Fanout, NEW t \in Types, NEW r \in Receivers,
           RegisterReceiver(t, r) \/ UnregisterReceiver(t, r)
    PROVE  Records' /\ Fanout'
<1>1. CASE RegisterReceiver(t, r)
  <2>1. Records' /\ Grows /\ UNCHANGED <<dispatch, dispatchDepth, stayed>>
    BY <1>1, RegisterKeepsRecords DEF RegisterReceiver
  <2>2. \A i \in Positions(records) : records[i].active => records'[i].active
    <3>1. records \in Seq(Record) /\ Len(records) \in Nat
      BY DEF Records
    <3>2. \A i \in Positions(records) : records'[i] = records[i]
      BY <1>1, <3>1 DEF RegisterReceiver, Positions
    <3> QED
      BY <3>2
  <2> QED
    BY <2>1, <2>2, WalkStays
<1>2. CASE UnregisterReceiver(t, r)
  <2>1. /\ Records' /\ dispatchDepth' = dispatchDepth
        /\ dispatchDepth = 1 =>
             /\ Grows
             /\ \A i \in Positions(records) :
                  records[i].active /\ ~IsFor(records, i, t, r) => records'[i].active
    BY <1>2, UnregisterKeepsRecords
  <2>2. /\ UNCHANGED dispatch
        /\ stayed' = IF \E e \in current : TypeOf[e] = t THEN stayed \ {r} ELSE stayed
    BY <1>2 DEF UnregisterReceiver
  <2>3. CASE dispatchDepth = 1
    <3>1. \A e \in current : \A q \in stayed' : \A i \in Positions(records) :
            records[i].active /\ IsFor(records, i, TypeOf[e], q) => records'[i].active
      <4> SUFFICES ASSUME NEW e \in current, NEW q \in stayed', NEW i \in Positions(records),
                          records[i].active, IsFor(records, i, TypeOf[e], q)
                   PROVE  ~IsFor(records, i, t, r)
        BY <2>1, <2>3
      <4> QED
        BY <2>2 DEF IsFor
    <3>2. stayed' \subseteq stayed
      BY <2>2
    <3> QED
      BY <2>1, <2>2, <2>3, <3>1, <3>2, WalkStays
  <2>4. CASE dispatchDepth = 0
    <3>1. loopPC \notin Walking
      BY <2>4 DEF Fanout, Counted, Walking
    <3>2. stayed' \subseteq stayed
      BY <2>2
    <3>3. Fanout'
      BY <2>1, <2>2, <3>1, <3>2 DEF Fanout, dispatch
    <3> QED
      BY <2>1, <3>3
  <2> QED
    BY <2>1, <2>3, <2>4 DEF Records
<1> QED
  BY <1>1, <1>2

----------------------------------------------------------------------------
\* The executor and its flags.

Owner ==
    /\ executor \in {"none", "initialized", "started"}
    /\ thread \in {"none", "initialized", "running"}
    /\ executorInitialized \in BOOLEAN /\ executorReady \in BOOLEAN /\ starting \in BOOLEAN
    /\ ownerPC \in {"idle", "initializeExecutor", "initializeThread", "startExecutor",
                    "startThread", "stop"}
    /\ executorInitialized <=> executor # "none"
    /\ executorReady => executor = "started"
    /\ ownerPC # "stop" /\ executor = "started" => executorReady
    /\ ownerPC \notin {"idle", "initializeExecutor"} => executorInitialized

LEMMA OwnerKeepsOwner ==
    ASSUME Owner, BeginStart \/ OwnerStep
    PROVE  Owner'
<1>1. CASE BeginStart
  <2>1. PICK b \in BOOLEAN :
          /\ starting' = b
          /\ ownerPC = "idle"
          /\ ownerPC' = IF b /\ executorInitialized THEN "startExecutor"
                                                    ELSE "initializeExecutor"
    BY <1>1 DEF BeginStart
  <2>2. UNCHANGED <<executor, executorInitialized, executorReady, thread>>
    BY <1>1 DEF BeginStart, flags
  <2> QED
    BY <2>1, <2>2 DEF Owner
<1>2. CASE InitializeExecutor
  <2>1. /\ ownerPC = "initializeExecutor"
        /\ UNCHANGED <<thread, executorReady>>
        /\ starting' \in BOOLEAN
    BY <1>2 DEF InitializeExecutor, OwnerAt
  <2>2. CASE executorInitialized /\ ownerPC' = "initializeThread"
             /\ UNCHANGED <<executor, executorInitialized>>
    BY <2>1, <2>2 DEF Owner
  <2>3. CASE ~executorInitialized /\ ownerPC' = "initializeThread"
             /\ executor' = "initialized" /\ executorInitialized' = TRUE
    <3>1. executorInitialized' /\ executorInitialized' \in BOOLEAN
      BY <2>3
    <3>2. executor = "none" /\ ~executorReady
      BY <2>3 DEF Owner
    <3>3. executorReady' <=> executorReady
      BY <2>1
    <3>4. executorReady' \in BOOLEAN /\ starting' \in BOOLEAN
      BY <2>1 DEF Owner
    <3> QED
      BY <2>1, <2>3, <3>1, <3>2, <3>3, <3>4 DEF Owner
  <2>4. CASE ownerPC' = "idle" /\ UNCHANGED <<executor, executorInitialized>>
    BY <2>1, <2>4 DEF Owner
  <2> QED
    BY <1>2, <2>2, <2>3, <2>4 DEF InitializeExecutor, OwnerAt
<1>3. CASE InitializeThread
  BY <1>3 DEF InitializeThread, OwnerAt, Owner, flags
<1>4. CASE StartExecutor
  <2>1. /\ ownerPC = "startExecutor"
        /\ UNCHANGED <<thread, executorInitialized>>
        /\ starting' \in BOOLEAN
    BY <1>4 DEF StartExecutor, OwnerAt
  <2>2. CASE executorReady /\ ownerPC' = "startThread" /\ UNCHANGED <<executor, executorReady>>
    BY <2>1, <2>2 DEF Owner
  <2>3. CASE ownerPC' = "startThread" /\ executor' = "started" /\ executorReady' = TRUE
    <3>1. executorReady' /\ executorReady' \in BOOLEAN
      BY <2>3
    <3>2. executorInitialized
      BY <2>1 DEF Owner
    <3>3. executorInitialized' /\ executorInitialized' \in BOOLEAN
      BY <2>1, <3>2
    <3> QED
      BY <2>1, <2>3, <3>1, <3>3 DEF Owner
  <2>4. CASE ownerPC' = "idle" /\ UNCHANGED <<executor, executorReady>>
    BY <2>1, <2>4 DEF Owner
  <2> QED
    BY <1>4, <2>2, <2>3, <2>4 DEF StartExecutor, OwnerAt
<1>5. CASE StartThread
  <2>1. /\ ownerPC = "startThread"
        /\ UNCHANGED <<executor, executorInitialized>>
        /\ starting' \in BOOLEAN
    BY <1>5 DEF StartThread, OwnerAt
  <2>2. CASE ownerPC' = "idle" /\ thread' = "running" /\ UNCHANGED executorReady
    BY <2>1, <2>2 DEF Owner
  <2>3. CASE ownerPC' = "stop" /\ thread' = thread /\ executorReady' = FALSE
    <3>1. ~executorReady' /\ executorReady' \in BOOLEAN
      BY <2>3
    <3>2. executorInitialized' <=> executorInitialized
      BY <2>1
    <3>3. executorInitialized' \in BOOLEAN /\ starting' \in BOOLEAN
      BY <2>1 DEF Owner
    <3> QED
      BY <2>1, <2>3, <3>1, <3>2, <3>3 DEF Owner
  <2> QED
    BY <1>5, <2>2, <2>3 DEF StartThread, OwnerAt
<1>6. CASE StopExecutor
  BY <1>6 DEF StopExecutor, Stopped, OwnerAt, Owner
<1> QED
  BY <1>1, <1>2, <1>3, <1>4, <1>5, <1>6 DEF OwnerStep

----------------------------------------------------------------------------
\* Who holds the events.

\* The events that nobody downstream has seen.
Fresh == unsent \cup pending \cup (batch \ current)

Holders(e) == {r \in Receivers : e \in held[r]}

Observed == Queued \cup observing

InQueueOnce == \A i, j \in 1 .. Len(queue) : queue[i] = queue[j] => i = j

Hands ==
    /\ pending \subseteq Events /\ due \subseteq Events /\ batch \subseteq Events
    /\ unsent \subseteq Events /\ observing \subseteq Events
    /\ held \in [Receivers -> SUBSET Events]
    /\ queue \in Seq(Events)
    /\ unsent \cap pending = {} /\ (unsent \cup pending) \cap batch = {}
    /\ current \subseteq batch
    /\ InQueueOnce
    /\ observing \cap Queued = {}
    /\ \A e \in Fresh : e \notin Observed /\ \A r \in Receivers : e \notin held[r]
    /\ loopPC # "release" => current \cap Observed = {}
    /\ \A e \in current : \A r \in Receivers : e \in held[r] => offers[r] = 1

\* What an event's count should be.
Account(e) ==
    Holds(e \in pending) + Holds(e \in batch) + Holds(e \in Queued) + Holds(e \in observing)
    + Cardinality(Holders(e))

Exact ==
    /\ refs \in [Events -> Nat]
    /\ \A e \in Events : refs[e] = Account(e)

LEMMA HoldersFinite ==
    ASSUME NEW e PROVE IsFiniteSet(Holders(e)) /\ Cardinality(Holders(e)) \in Nat
BY ReceiversAssumption, FS_Subset, FS_CardinalityType DEF Holders

LEMMA HoldsIsNumber == \A b : Holds(b) \in {0, 1}
BY DEF Holds

\* Who is not affected keeps its count.
LEMMA AccountStays ==
    ASSUME NEW e \in Events, refs'[e] = refs[e], refs[e] = Account(e),
           \/ (e \in pending' <=> e \in pending) /\ (e \in batch' <=> e \in batch)
           \/ e \in pending /\ e \notin batch /\ e \notin pending' /\ e \in batch',
           \/ (e \in Queued' <=> e \in Queued) /\ (e \in observing' <=> e \in observing)
           \/ e \in Queued /\ e \notin observing /\ e \notin Queued' /\ e \in observing',
           \A r \in Receivers : e \in held'[r] <=> e \in held[r]
    PROVE  refs'[e] = Account(e)'
<1>1. Holders(e)' = Holders(e)
  BY DEF Holders
<1>2. Cardinality(Holders(e)) \in Nat
  BY HoldersFinite
<1>3. Holds(e \in pending)' + Holds(e \in batch)' = Holds(e \in pending) + Holds(e \in batch)
  BY DEF Holds
<1>4. Holds(e \in Queued)' + Holds(e \in observing)'
        = Holds(e \in Queued) + Holds(e \in observing)
  BY DEF Holds
<1>5. /\ {Holds(e \in pending), Holds(e \in batch), Holds(e \in Queued),
          Holds(e \in observing)} \subseteq Nat
      /\ {Holds(e \in pending)', Holds(e \in batch)', Holds(e \in Queued)',
          Holds(e \in observing)'} \subseteq Nat
  BY DEF Holds
<1> QED
  BY <1>1, <1>2, <1>3, <1>4, <1>5 DEF Account

\* What the account and the hands depend on.
holding == <<pending, batch, unsent, held, refs, queue, observing>>

LEMMA HoldingStays ==
    ASSUME Hands, Exact, UNCHANGED holding, UNCHANGED <<current, offers>>,
           due' \subseteq Events,
           loopPC' # "release" => loopPC # "release" \/ current \cap Observed = {}
    PROVE  Hands' /\ Exact'
<1>1. Queued' = Queued /\ Observed' = Observed /\ Fresh' = Fresh
  BY DEF holding, Queued, Observed, Fresh
<1>2. \A e : Account(e)' = Account(e)
  BY <1>1 DEF Account, Holders, Holds, holding
<1>3. Exact'
  BY <1>2 DEF Exact, holding
<1>4. InQueueOnce'
  BY DEF InQueueOnce, holding, Hands
<1>5. Hands'
  BY <1>1, <1>4 DEF Hands, holding
<1> QED
  BY <1>3, <1>5

LEMMA PublishKeepsHands ==
    ASSUME Hands, Exact, Fanout, NEW x \in Events, Publish(x)
    PROVE  Hands' /\ Exact'
<1>1. /\ x \in unsent /\ unsent' = unsent \ {x} /\ pending' = pending \cup {x}
      /\ refs' = Ref({x})
      /\ UNCHANGED <<due, batch, loopPC, current, offers, held, queue, observing>>
  BY DEF Publish, dispatch, observation
<1>2. Queued' = Queued /\ Observed' = Observed /\ Fresh' = Fresh
  BY <1>1 DEF Queued, Observed, Fresh
<1>3. Hands'
  BY <1>1, <1>2 DEF Hands, InQueueOnce
<1>4. refs' \in [Events -> Nat] /\ refs'[x] = refs[x] + 1
      /\ \A e \in Events : e # x => refs'[e] = refs[e]
  BY <1>1 DEF Ref, Exact
<1>5. refs'[x] = Account(x)'
  <2>1. /\ x \notin pending /\ x \notin batch /\ x \notin Queued /\ x \notin observing
        /\ Holders(x) = {} /\ Holders(x)' = {}
    BY <1>1 DEF Hands, Fresh, Observed, Holders
  <2>2. /\ x \in pending' /\ x \notin batch' /\ x \notin Queued' /\ x \notin observing'
    BY <1>1, <1>2, <2>1
  <2>3. Account(x) = 0
    BY <2>1, FS_EmptySet DEF Account, Holds
  <2>4. Account(x)' = 1
    BY <2>1, <2>2, FS_EmptySet DEF Account, Holds
  <2> QED
    BY <1>4, <2>3, <2>4 DEF Exact
<1>6. ASSUME NEW e \in Events, e # x PROVE refs'[e] = Account(e)'
  BY <1>1, <1>2, <1>4, <1>6, AccountStays DEF Exact
<1> QED
  BY <1>3, <1>4, <1>5, <1>6 DEF Exact

LEMMA TakeBatchKeepsHands ==
    ASSUME Hands, Exact, Fanout, TakeBatch
    PROVE  Hands' /\ Exact'
<1>1. PICK S \in SUBSET pending : batch' = S /\ pending' = pending \ S /\ due' = due \ S
  BY DEF TakeBatch
<1>2. /\ batch = {} /\ loopPC = "sweep"
      /\ UNCHANGED <<unsent, loopPC, current, offers, held, refs, queue, observing>>
  BY DEF TakeBatch, dispatch, observation
<1>3. current = {}
  BY <1>2 DEF Fanout, InHand, Walking
<1>4. Queued' = Queued /\ Observed' = Observed /\ Fresh' = Fresh
  BY <1>1, <1>2, <1>3 DEF Queued, Observed, Fresh
<1>5. Hands'
  BY <1>1, <1>2, <1>3, <1>4 DEF Hands, InQueueOnce
<1>6. ASSUME NEW e \in Events PROVE refs'[e] = Account(e)'
  BY <1>1, <1>2, <1>4, AccountStays DEF Exact
<1> QED
  BY <1>2, <1>5, <1>6 DEF Exact

LEMMA BeginKeepsHands ==
    ASSUME Hands, Exact, Fanout, NEW e \in Events, BeginDispatch(e)
    PROVE  Hands' /\ Exact'
<1>1. /\ e \in batch /\ current' = {e} /\ current = {}
      /\ UNCHANGED holding /\ due' = due
  BY DEF BeginDispatch, mailbox, observation, holding, Fanout, InHand, Walking
<1>2. Queued' = Queued /\ Observed' = Observed /\ Fresh' \subseteq Fresh /\ e \in Fresh
  BY <1>1 DEF holding, Queued, Observed, Fresh
<1>3. \A x : Account(x)' = Account(x)
  BY <1>1, <1>2 DEF Account, Holders, Holds, holding
<1>4. Exact'
  BY <1>1, <1>3 DEF Exact, holding
<1>5. InQueueOnce'
  BY <1>1 DEF InQueueOnce, holding, Hands
<1>6. Hands'
  BY <1>1, <1>2, <1>5 DEF Hands, holding
<1> QED
  BY <1>4, <1>6

\* One event may come to a receiver's mailbox, and one go.
LEMMA ExchangeKeepsExact ==
    ASSUME Hands, Exact, NEW r \in Receivers, NEW out \in SUBSET held[r],
           NEW in \in SUBSET Events, in \cap held[r] = {}, Exchange(r, out, in),
           UNCHANGED <<pending, batch, queue, observing>>
    PROVE  /\ Exact' /\ held' \in [Receivers -> SUBSET Events]
           /\ held'[r] = (held[r] \ out) \cup in
           /\ \A q \in Receivers : q # r => held'[q] = held[q]
<1>1. /\ held' = [held EXCEPT ![r] = (@ \ out) \cup in]
      /\ refs' = [x \in Events |-> refs[x] + Holds(x \in in) - Holds(x \in out)]
  BY DEF Exchange
<1>2. /\ held' \in [Receivers -> SUBSET Events]
      /\ held'[r] = (held[r] \ out) \cup in
      /\ \A q \in Receivers : q # r => held'[q] = held[q]
  BY <1>1 DEF Hands
<1>3. Queued' = Queued
  BY DEF Queued
<1>4. ASSUME NEW x \in Events PROVE refs'[x] = Account(x)' /\ refs'[x] \in Nat
  <2>1. /\ IsFiniteSet(Holders(x)) /\ Cardinality(Holders(x)) \in Nat
        /\ \A q \in Holders(x)' \cup Holders(x) : q \in Receivers
    BY HoldersFinite DEF Holders
  <2>2. Cardinality(Holders(x)') = Cardinality(Holders(x)) + Holds(x \in in) - Holds(x \in out)
        /\ Cardinality(Holders(x)') \in Nat
    <3>1. CASE x \in in
      <4>1. Holders(x)' = Holders(x) \cup {r} /\ r \notin Holders(x) /\ x \notin out
        BY <1>2, <3>1 DEF Holders
      <4>2. Cardinality(Holders(x)') = Cardinality(Holders(x)) + 1
        BY <2>1, <4>1, FS_AddElement
      <4> QED
        BY <2>1, <3>1, <4>1, <4>2 DEF Holds
    <3>2. CASE x \in out
      <4>1. Holders(x)' = Holders(x) \ {r} /\ r \in Holders(x) /\ x \notin in
        BY <1>2, <3>2 DEF Holders
      <4>2. /\ Cardinality(Holders(x)') = Cardinality(Holders(x)) - 1
            /\ IsFiniteSet(Holders(x)')
        BY <2>1, <4>1, FS_RemoveElement
      <4>3. Cardinality(Holders(x)') \in Nat
        BY <4>2, FS_CardinalityType
      <4> QED
        BY <2>1, <3>2, <4>1, <4>2, <4>3 DEF Holds
    <3>3. CASE x \notin in /\ x \notin out
      <4>1. Holders(x)' = Holders(x)
        BY <1>2, <3>3 DEF Holders
      <4> QED
        BY <2>1, <3>3, <4>1 DEF Holds
    <3> QED
      BY <3>1, <3>2, <3>3
  <2>3. Cardinality(Holders(x))' = Cardinality(Holders(x)) + Holds(x \in in) - Holds(x \in out)
        /\ Cardinality(Holders(x))' \in Nat
    BY <2>2
  <2>4. /\ Holds(x \in pending)' = Holds(x \in pending)
        /\ Holds(x \in batch)' = Holds(x \in batch)
        /\ Holds(x \in Queued)' = Holds(x \in Queued)
        /\ Holds(x \in observing)' = Holds(x \in observing)
    BY <1>3
  <2>5. {Holds(x \in pending), Holds(x \in batch), Holds(x \in Queued),
         Holds(x \in observing), Holds(x \in in), Holds(x \in out)} \subseteq Nat
    BY DEF Holds
  <2>6. /\ Account(x)' = Account(x) + Holds(x \in in) - Holds(x \in out)
        /\ Account(x)' \in Nat
    BY <2>1, <2>3, <2>4, <2>5 DEF Account
  <2>7. refs'[x] = refs[x] + Holds(x \in in) - Holds(x \in out)
    BY <1>1
  <2> QED
    BY <2>6, <2>7 DEF Exact
<1>5. Exact'
  <2>1. refs' \in [Events -> Nat]
    BY <1>1, <1>4
  <2> QED
    BY <1>4, <2>1 DEF Exact
<1> QED
  BY <1>2, <1>5

LEMMA EvictionsAreHeld ==
    ASSUME Hands, NEW r \in Receivers, NEW out \in Evictions(r)
    PROVE  out \in SUBSET held[r]
BY DEF Evictions

LEMMA TryOfferKeepsHands ==
    ASSUME Hands, Exact, Fanout, NEW r \in Receivers, TryOffer(r)
    PROVE  Hands' /\ Exact'
<1>1. /\ loopPC = "offer" /\ loopPC' = "fanout" /\ r \in receiver
      /\ offers' = [offers EXCEPT ![r] = @ + 1]
      /\ UNCHANGED <<pending, due, batch, unsent, current, queue, observing>>
  BY DEF TryOffer, mailbox, observation
<1>2. PICK e \in Events : current = {e}
  BY <1>1 DEF Fanout, InHand
<1>3. offers[r] = 0
  BY <1>1, NotYetOffered
<1>4. offers'[r] = 1 /\ \A q \in Receivers : q # r => offers'[q] = offers[q]
  BY <1>1, <1>3 DEF Fanout
<1>5. Queued' = Queued /\ Observed' = Observed /\ Fresh' = Fresh /\ e \notin Fresh
  BY <1>1, <1>2 DEF Queued, Observed, Fresh, Hands
<1>6. InQueueOnce'
  BY <1>1 DEF InQueueOnce, Hands
<1>7. ASSUME NEW out \in Evictions(r), Exchange(r, out, current) PROVE Hands' /\ Exact'
  <2>1. current \in SUBSET Events /\ current \cap held[r] = {}
    BY <1>2, <1>3 DEF Hands
  <2>2. /\ Exact' /\ held' \in [Receivers -> SUBSET Events]
        /\ held'[r] \subseteq held[r] \cup {e}
        /\ \A q \in Receivers : q # r => held'[q] = held[q]
    <3>1. out \in SUBSET held[r]
      BY EvictionsAreHeld
    <3>2. /\ Exact' /\ held' \in [Receivers -> SUBSET Events]
          /\ held'[r] = (held[r] \ out) \cup current
          /\ \A q \in Receivers : q # r => held'[q] = held[q]
      BY <1>1, <1>7, <2>1, <3>1, ExchangeKeepsExact
    <3> QED
      BY <1>2, <3>2
  <2>3. \A x \in Fresh' : x \notin Observed' /\ \A q \in Receivers : x \notin held'[q]
    BY <1>5, <2>2 DEF Hands
  <2>4. \A x \in current' : \A q \in Receivers : x \in held'[q] => offers'[q] = 1
    BY <1>1, <1>4, <2>2 DEF Hands
  <2> QED
    BY <1>1, <1>5, <1>6, <2>2, <2>3, <2>4 DEF Hands
<1>8. CASE UNCHANGED <<held, refs>>
  <2>1. ASSUME NEW x \in Events PROVE refs'[x] = Account(x)'
    BY <1>1, <1>5, <1>8, AccountStays DEF Exact
  <2>2. \A x \in current' : \A q \in Receivers : x \in held'[q] => offers'[q] = 1
    BY <1>1, <1>4, <1>8 DEF Hands
  <2>3. Hands'
    BY <1>1, <1>5, <1>6, <1>8, <2>2 DEF Hands
  <2> QED
    BY <1>8, <2>1, <2>3 DEF Exact
<1> QED
  BY <1>7, <1>8 DEF TryOffer

\* The receiver is left with what it had, but for what was evicted.
LEMMA OfferThrowsKeepsHands ==
    ASSUME Hands, Exact, Fanout, NEW r \in Receivers, OfferThrows(r)
    PROVE  Hands' /\ Exact'
<1>1. /\ loopPC = "offer"
      /\ UNCHANGED <<pending, due, batch, unsent, current, offers, queue, observing>>
  BY DEF OfferThrows, mailbox, observation
<1>2. PICK out \in Evictions(r) : Exchange(r, out, {})
  BY DEF OfferThrows
<1>3. /\ Exact' /\ held' \in [Receivers -> SUBSET Events]
      /\ \A q \in Receivers : held'[q] \subseteq held[q]
  <2>1. out \in SUBSET held[r] /\ {} \in SUBSET Events /\ {} \cap held[r] = {}
    BY <1>2, EvictionsAreHeld
  <2>2. /\ Exact' /\ held' \in [Receivers -> SUBSET Events]
        /\ held'[r] = (held[r] \ out) \cup {}
        /\ \A q \in Receivers : q # r => held'[q] = held[q]
    BY <1>1, <1>2, <2>1, ExchangeKeepsExact
  <2> QED
    BY <2>2
<1>4. Queued' = Queued /\ Observed' = Observed /\ Fresh' = Fresh /\ InQueueOnce'
  BY <1>1 DEF Queued, Observed, Fresh, InQueueOnce, Hands
<1> QED
  BY <1>1, <1>3, <1>4 DEF Hands

\* Taking x, which q held, from it.
LEMMA ConsumeKeepsHands ==
    ASSUME Hands, Exact, Fanout, NEW q \in Receivers, NEW x \in Events, Consume(q, x)
    PROVE  Hands' /\ Exact'
<1>1. /\ x \in held[q] /\ held' = [held EXCEPT ![q] = @ \ {x}] /\ refs' = Unref({x})
      /\ UNCHANGED <<pending, due, batch, unsent, loopPC, current, offers, queue, observing>>
  BY DEF Consume, mailbox, dispatch, observation
<1>2. Queued' = Queued /\ Observed' = Observed /\ Fresh' = Fresh
  BY <1>1 DEF Queued, Observed, Fresh
<1>3. /\ held' \in [Receivers -> SUBSET Events]
      /\ held'[q] = held[q] \ {x}
      /\ \A r \in Receivers : r # q => held'[r] = held[r]
  BY <1>1 DEF Hands
<1>4. Hands'
  <2>1. InQueueOnce'
    BY <1>1 DEF InQueueOnce, Hands
  <2>2. \A r \in Receivers : held'[r] \subseteq held[r]
    BY <1>3
  <2> QED
    BY <1>1, <1>2, <1>3, <2>1, <2>2 DEF Hands
<1>5. /\ refs'[x] = refs[x] - 1
      /\ \A e \in Events : e # x => refs'[e] = refs[e]
      /\ \A e \in Events : refs[e] \in Nat
      /\ refs' = [e \in Events |-> IF e = x THEN refs[e] - 1 ELSE refs[e]]
  BY <1>1 DEF Unref, Exact
<1>6. refs'[x] = Account(x)' /\ refs'[x] \in Nat
  <2>1. Holders(x)' = Holders(x) \ {q} /\ q \in Holders(x)
    BY <1>1, <1>3 DEF Holders
  <2>2. Cardinality(Holders(x)') = Cardinality(Holders(x)) - 1
        /\ Cardinality(Holders(x)) \in Nat /\ Cardinality(Holders(x)') \in Nat
    <3>1. IsFiniteSet(Holders(x)) /\ Cardinality(Holders(x)) \in Nat
      BY HoldersFinite
    <3>2. IsFiniteSet(Holders(x)')
      BY <2>1, <3>1, FS_RemoveElement
    <3> QED
      BY <2>1, <3>1, <3>2, FS_RemoveElement, FS_CardinalityType
  <2>3. /\ Holds(x \in pending)' = Holds(x \in pending)
        /\ Holds(x \in batch)' = Holds(x \in batch)
        /\ Holds(x \in Queued)' = Holds(x \in Queued)
        /\ Holds(x \in observing)' = Holds(x \in observing)
    BY <1>1, <1>2
  <2>4. {Holds(x \in pending), Holds(x \in batch), Holds(x \in Queued),
         Holds(x \in observing)} \subseteq Nat
    BY DEF Holds
  <2>5. Account(x)' = Account(x) - 1 /\ Account(x)' \in Nat
    <3>1. Cardinality(Holders(x))' = Cardinality(Holders(x)) - 1
          /\ Cardinality(Holders(x))' \in Nat
      BY <2>2
    <3> QED
      BY <2>2, <2>3, <2>4, <3>1 DEF Account
  <2> QED
    BY <1>5, <2>5 DEF Exact
<1>7. ASSUME NEW e \in Events, e # x PROVE refs'[e] = Account(e)'
  <2>1. \A r \in Receivers : e \in held'[r] <=> e \in held[r]
    BY <1>3, <1>7
  <2> QED
    BY <1>1, <1>2, <1>5, <1>7, <2>1, AccountStays DEF Exact
<1>8. refs' \in [Events -> Nat]
  BY <1>5, <1>6
<1> QED
  BY <1>4, <1>6, <1>7, <1>8 DEF Exact

\* The places of an event that are not receivers.
Inside(e) ==
    Holds(e \in pending) + Holds(e \in batch) + Holds(e \in Queued) + Holds(e \in observing)

LEMMA AccountFollows ==
    ASSUME NEW e \in Events, held' = held, refs[e] = Account(e),
           refs'[e] = refs[e] + Inside(e)' - Inside(e)
    PROVE  refs'[e] = Account(e)' /\ refs'[e] \in Nat
<1>1. Holders(e)' = Holders(e)
  BY DEF Holders
<1>2. Cardinality(Holders(e)) \in Nat
  BY HoldersFinite
<1>3. Inside(e) \in Nat /\ Inside(e)' \in Nat
  BY DEF Inside, Holds
<1>4. Account(e) = Inside(e) + Cardinality(Holders(e))
  BY DEF Account, Inside
<1>5. Account(e)' = Inside(e)' + Cardinality(Holders(e))
  BY <1>1 DEF Account, Inside
<1> QED
  BY <1>2, <1>3, <1>4, <1>5

\* The executor's queue.
LEMMA QueueReading ==
    ASSUME queue \in Seq(Events)
    PROVE  /\ Queued = {queue[i] : i \in 1 .. Len(queue)} /\ Queued \subseteq Events
           /\ Len(queue) \in Nat
BY DEF Queued

LEMMA SubmitKeepsHands ==
    ASSUME Hands, Exact, Fanout, Submit
    PROVE  Hands' /\ Exact'
<1>1. /\ loopPC = "submit" /\ loopPC' = "release"
      /\ UNCHANGED <<pending, due, batch, unsent, current, offers, held, observing>>
  BY DEF Submit, mailbox
<1>2. PICK e \in Events : current = {e}
  BY <1>1 DEF Fanout, InHand, Walking
<1>3. Fresh' = Fresh /\ e \notin Fresh /\ e \notin Queued /\ e \notin observing
  BY <1>1, <1>2 DEF Fresh, Hands, Observed
<1>4. CASE queue' = Append(queue, e) /\ refs' = Ref({e})
  <2>1. /\ queue' \in Seq(Events) /\ Len(queue') = Len(queue) + 1 /\ Len(queue) \in Nat
        /\ \A i \in 1 .. Len(queue) : queue'[i] = queue[i]
        /\ queue'[Len(queue) + 1] = e
    BY <1>4 DEF Hands
  <2>2. 1 .. Len(queue') = (1 .. Len(queue)) \cup {Len(queue) + 1}
    BY <2>1
  <2>3. /\ Queued = {queue[i] : i \in 1 .. Len(queue)}
        /\ Queued' = {queue'[i] : i \in 1 .. Len(queue')}
    BY <2>1, QueueReading DEF Queued, Hands
  <2>4. Queued' = Queued \cup {e}
    BY <2>1, <2>2, <2>3
  <2>5. \A i \in 1 .. Len(queue) : queue[i] # e
    BY <1>3, <2>3
  <2>6. InQueueOnce'
    BY <2>1, <2>2, <2>5 DEF InQueueOnce, Hands
  <2>7. Hands'
    BY <1>1, <1>2, <1>3, <2>1, <2>4, <2>6 DEF Hands, Observed
  <2>8. /\ refs'[e] = refs[e] + 1 /\ refs[e] \in Nat
        /\ \A x \in Events : x # e => refs'[x] = refs[x]
        /\ refs' \in [Events -> Nat]
    BY <1>4 DEF Ref, Exact
  <2>9. refs'[e] = Account(e)'
    <3>1. Inside(e)' = Inside(e) + 1 /\ Inside(e) \in Nat
      BY <1>1, <1>3, <2>4 DEF Inside, Holds
    <3>2. refs'[e] = refs[e] + Inside(e)' - Inside(e)
      BY <2>8, <3>1
    <3> QED
      BY <1>1, <3>2, AccountFollows DEF Exact
  <2>10. ASSUME NEW x \in Events, x # e PROVE refs'[x] = Account(x)'
    BY <1>1, <2>4, <2>8, <2>10, AccountStays DEF Exact
  <2> QED
    BY <2>7, <2>8, <2>9, <2>10 DEF Exact
<1>5. CASE queue' = queue /\ refs' = refs
  <2>1. Queued' = Queued
    BY <1>5 DEF Queued
  <2>2. ASSUME NEW x \in Events PROVE refs'[x] = Account(x)'
    BY <1>1, <1>5, <2>1, AccountStays DEF Exact
  <2>3. Hands'
    BY <1>1, <1>3, <1>5, <2>1 DEF Hands, Observed, InQueueOnce
  <2> QED
    BY <1>5, <2>2, <2>3 DEF Exact
<1> QED
  BY <1>2, <1>4, <1>5 DEF Submit, Refused

LEMMA EndDispatchKeepsHands ==
    ASSUME Hands, Exact, Fanout, EndDispatch
    PROVE  Hands' /\ Exact'
<1>1. /\ loopPC = "release" /\ refs' = Unref(current) /\ batch' = batch \ current
      /\ current' = {}
      /\ UNCHANGED <<pending, due, unsent, held, queue, observing>>
  BY DEF EndDispatch, observation
<1>2. PICK e \in Events : current = {e}
  BY <1>1 DEF Fanout, InHand, Walking
<1>3. Queued' = Queued /\ Observed' = Observed /\ Fresh' = Fresh /\ e \in batch
  BY <1>1, <1>2 DEF Queued, Observed, Fresh, Hands
<1>4. Hands'
  BY <1>1, <1>3 DEF Hands, InQueueOnce
<1>5. /\ refs'[e] = refs[e] - 1 /\ refs[e] \in Nat
      /\ \A x \in Events : x # e => refs'[x] = refs[x]
      /\ refs' = [x \in Events |-> IF x = e THEN refs[x] - 1 ELSE refs[x]]
  BY <1>1, <1>2 DEF Unref, Exact
<1>6. refs'[e] = Account(e)' /\ refs'[e] \in Nat
  <2>1. Inside(e)' = Inside(e) - 1 /\ Inside(e) \in Nat
    BY <1>1, <1>2, <1>3 DEF Inside, Holds
  <2>2. refs'[e] = refs[e] + Inside(e)' - Inside(e)
    BY <1>5, <2>1
  <2> QED
    BY <1>1, <2>2, AccountFollows DEF Exact
<1>7. ASSUME NEW x \in Events, x # e PROVE refs'[x] = Account(x)'
  BY <1>1, <1>2, <1>3, <1>5, <1>7, AccountStays DEF Exact
<1>8. refs' \in [Events -> Nat]
  BY <1>5, <1>6 DEF Exact
<1> QED
  BY <1>4, <1>6, <1>7, <1>8 DEF Exact

\* The whole batch is dropped, and nothing else.
LEMMA EndThreadKeepsHands ==
    ASSUME Hands, Exact, Fanout, EndThread
    PROVE  Hands' /\ Exact'
<1>1. /\ refs' = Unref(batch) /\ batch' = {} /\ current' = {}
      /\ UNCHANGED <<pending, due, unsent, held, queue, observing>>
  BY DEF EndThread, observation
<1>2. Queued' = Queued /\ Observed' = Observed /\ Fresh' \subseteq Fresh
  BY <1>1 DEF Queued, Observed, Fresh
<1>3. Hands'
  BY <1>1, <1>2 DEF Hands, InQueueOnce
<1>4. \A x \in Events : refs[x] \in Nat /\ refs'[x] = IF x \in batch THEN refs[x] - 1 ELSE refs[x]
  BY <1>1 DEF Unref, Exact
<1>5. ASSUME NEW x \in Events PROVE refs'[x] = Account(x)' /\ refs'[x] \in Nat
  <2>1. Inside(x)' = IF x \in batch THEN Inside(x) - 1 ELSE Inside(x)
    BY <1>1, <1>2 DEF Inside, Holds
  <2>2. Inside(x) \in Nat
    BY DEF Inside, Holds
  <2>3. refs'[x] = refs[x] + Inside(x)' - Inside(x)
    BY <1>4, <2>1, <2>2
  <2> QED
    BY <1>1, <2>3, AccountFollows DEF Exact
<1>6. refs' \in [Events -> Nat]
  BY <1>1, <1>5 DEF Unref, Exact
<1> QED
  BY <1>3, <1>5, <1>6 DEF Exact

LEMMA TakeWorkKeepsHands ==
    ASSUME Hands, Exact, Fanout, TakeWork
    PROVE  Hands' /\ Exact'
<1> DEFINE e == Head(queue)
<1>1. /\ observing = {} /\ queue # <<>> /\ observing' = {e} /\ queue' = Tail(queue)
      /\ UNCHANGED <<pending, due, batch, unsent, current, offers, loopPC, held, refs>>
  BY DEF TakeWork, mailbox, dispatch
<1>2. /\ queue \in Seq(Events) /\ Len(queue) \in Nat /\ Len(queue) > 0
      /\ e = queue[1] /\ e \in Events
      /\ queue' \in Seq(Events) /\ Len(queue') = Len(queue) - 1
      /\ \A i \in 1 .. Len(queue') : queue'[i] = queue[i + 1] /\ i + 1 \in 1 .. Len(queue)
  BY <1>1 DEF Hands
<1> HIDE DEF e
<1>3. /\ Queued = {queue[i] : i \in 1 .. Len(queue)}
      /\ Queued' = {queue'[i] : i \in 1 .. Len(queue')}
  BY <1>2, QueueReading DEF Queued
<1>4. InQueueOnce'
  <2> SUFFICES ASSUME NEW i \in 1 .. Len(queue'), NEW j \in 1 .. Len(queue'),
                      queue'[i] = queue'[j]
               PROVE  i = j
    BY DEF InQueueOnce
  <2>1. i + 1 = j + 1
    BY <1>2 DEF Hands, InQueueOnce
  <2> QED
    BY <1>2, <2>1
<1>5. e \notin Queued' /\ Queued' \subseteq Queued
  <2>1. \A i \in 1 .. Len(queue') : queue'[i] # e
    <3> TAKE i \in 1 .. Len(queue')
    <3>1. queue[i + 1] = queue[1] => i + 1 = 1
      BY <1>2 DEF Hands, InQueueOnce
    <3> QED
      BY <1>2, <3>1
  <2> QED
    BY <1>2, <1>3, <2>1
<1>6. Queued = Queued' \cup {e}
  <2>1. ASSUME NEW i \in 1 .. Len(queue), i # 1 PROVE queue[i] \in Queued'
    <3>1. i - 1 \in 1 .. Len(queue') /\ (i - 1) + 1 = i
      BY <1>2, <2>1
    <3> QED
      BY <1>2, <1>3, <3>1
  <2>2. e \in Queued
    BY <1>2, <1>3
  <2>3. ASSUME NEW x \in Queued PROVE x \in Queued' \cup {e}
    <3>1. PICK i \in 1 .. Len(queue) : x = queue[i]
      BY <1>3
    <3> QED
      BY <1>2, <2>1, <3>1
  <2> QED
    BY <1>5, <2>2, <2>3
<1>7. Observed' = Observed /\ Fresh' = Fresh
  BY <1>1, <1>6 DEF Observed, Fresh
<1>8. Hands'
  BY <1>1, <1>2, <1>4, <1>5, <1>7 DEF Hands
<1>9. ASSUME NEW x \in Events PROVE refs'[x] = Account(x)'
  BY <1>1, <1>5, <1>6, <1>9, AccountStays DEF Exact
<1> QED
  BY <1>1, <1>8, <1>9 DEF Exact

LEMMA ObserverKeepsHands ==
    ASSUME Hands, Exact, Fanout, ProcessObserverWork
    PROVE  Hands' /\ Exact'
<1>1. /\ observing' = {} /\ refs' = Unref(observing)
      /\ UNCHANGED <<pending, due, batch, unsent, current, offers, loopPC, held, queue>>
  BY DEF ProcessObserverWork, mailbox, dispatch
<1>2. Queued' = Queued /\ Observed' \subseteq Observed /\ Fresh' = Fresh
  BY <1>1 DEF Queued, Observed, Fresh
<1>3. Hands'
  BY <1>1, <1>2 DEF Hands, InQueueOnce
<1>4. \A x \in Events : refs[x] \in Nat /\ refs'[x] = IF x \in observing THEN refs[x] - 1 ELSE refs[x]
  BY <1>1 DEF Unref, Exact
<1>5. ASSUME NEW x \in Events PROVE refs'[x] = Account(x)' /\ refs'[x] \in Nat
  <2>1. Inside(x)' = IF x \in observing THEN Inside(x) - 1 ELSE Inside(x)
    BY <1>1, <1>2 DEF Inside, Holds
  <2>2. Inside(x) \in Nat
    BY DEF Inside, Holds
  <2>3. refs'[x] = refs[x] + Inside(x)' - Inside(x)
    BY <1>4, <2>1, <2>2
  <2> QED
    BY <1>1, <2>3, AccountFollows DEF Exact
<1>6. refs' \in [Events -> Nat]
  BY <1>1, <1>5 DEF Unref, Exact
<1> QED
  BY <1>3, <1>5, <1>6 DEF Exact

LEMMA StopKeepsHands ==
    ASSUME Hands, Exact, Fanout, StopExecutor
    PROVE  Hands' /\ Exact'
<1>1. /\ queue' = <<>> /\ refs' = Unref(Queued)
      /\ UNCHANGED <<pending, due, batch, unsent, current, offers, loopPC, held, observing>>
  BY DEF StopExecutor, Elsewhere, mailbox, dispatch
<1>2. Queued' = {} /\ Observed' \subseteq Observed /\ Fresh' = Fresh
  BY <1>1 DEF Queued, Observed, Fresh
<1>3. Hands'
  <2>1. InQueueOnce' /\ queue' \in Seq(Events)
    BY <1>1 DEF InQueueOnce
  <2> QED
    BY <1>1, <1>2, <2>1 DEF Hands
<1>4. \A x \in Events : refs[x] \in Nat /\ refs'[x] = IF x \in Queued THEN refs[x] - 1 ELSE refs[x]
  BY <1>1 DEF Unref, Exact
<1>5. ASSUME NEW x \in Events PROVE refs'[x] = Account(x)' /\ refs'[x] \in Nat
  <2>1. Inside(x)' = IF x \in Queued THEN Inside(x) - 1 ELSE Inside(x)
    BY <1>1, <1>2 DEF Inside, Holds
  <2>2. Inside(x) \in Nat
    BY DEF Inside, Holds
  <2>3. refs'[x] = refs[x] + Inside(x)' - Inside(x)
    BY <1>4, <2>1, <2>2
  <2> QED
    BY <1>1, <2>3, AccountFollows DEF Exact
<1>6. refs' \in [Events -> Nat]
  BY <1>1, <1>5 DEF Unref, Exact
<1> QED
  BY <1>3, <1>5, <1>6 DEF Exact

----------------------------------------------------------------------------
\* Mailboxes and queues within their limits.

Bounded ==
    /\ Len(queue) <= QueueDepth
    /\ \A r \in Receivers : Cardinality(held[r]) <= ReceiverCapacity

LEMMA HeldFinite ==
    ASSUME Hands, NEW r \in Receivers
    PROVE  IsFiniteSet(held[r]) /\ Cardinality(held[r]) \in Nat
BY EventsAssumption, FS_Subset, FS_CardinalityType DEF Hands

\* A full mailbox takes an event only in the place of another.
LEMMA ExchangeKeepsBounds ==
    ASSUME Hands, Bounded, NEW r \in Receivers, NEW out \in Evictions(r),
           NEW in, in = {} \/ (\E e \in Events : in = {e}), Exchange(r, out, in), queue' = queue
    PROVE  Bounded'
<1>1. /\ held'[r] = (held[r] \ out) \cup in
      /\ \A q \in Receivers : q # r => held'[q] = held[q]
  BY DEF Exchange, Hands
<1>2. IsFiniteSet(held[r]) /\ Cardinality(held[r]) \in Nat /\ ReceiverCapacity \in Nat
  BY HeldFinite, BoundsAssumption
<1> DEFINE rest == held[r] \ out
<1>3. IsFiniteSet(rest) /\ Cardinality(rest) \in Nat
      /\ (Cardinality(rest) < ReceiverCapacity)
  <2>1. CASE HasRoom(r)
    <3>1. rest = held[r]
      BY <2>1 DEF Evictions
    <3> QED
      BY <1>2, <2>1, <3>1 DEF HasRoom
  <2>2. CASE ~HasRoom(r)
    <3>1. PICK v \in held[r] : out = {v}
      BY <2>2 DEF Evictions
    <3>2. IsFiniteSet(rest) /\ Cardinality(rest) = Cardinality(held[r]) - 1
      BY <1>2, <3>1, FS_RemoveElement
    <3>3. Cardinality(rest) \in Nat
      BY <3>2, FS_CardinalityType
    <3> QED
      BY <1>2, <3>2, <3>3 DEF Bounded
  <2> QED
    BY <2>1, <2>2
<1> HIDE DEF rest
<1>4. Cardinality(rest \cup in) <= ReceiverCapacity
  <2>1. CASE in = {}
    <3>1. rest \cup in = rest
      BY <2>1
    <3> QED
      BY <1>2, <1>3, <3>1
  <2>2. ASSUME NEW e, in = {e} PROVE Cardinality(rest \cup in) <= ReceiverCapacity
    <3>1. \/ Cardinality(rest \cup {e}) = Cardinality(rest)
          \/ Cardinality(rest \cup {e}) = Cardinality(rest) + 1
      BY <1>3, FS_AddElement
    <3> QED
      BY <1>2, <1>3, <2>2, <3>1
  <2> QED
    BY <2>1, <2>2
<1>5. ASSUME NEW q \in Receivers PROVE Cardinality(held'[q]) <= ReceiverCapacity
  BY <1>1, <1>4 DEF Bounded, rest
<1> QED
  BY <1>5 DEF Bounded

LEMMA TryOfferKeepsBounds ==
    ASSUME Hands, Bounded, Fanout, NEW r \in Receivers, TryOffer(r) \/ OfferThrows(r)
    PROVE  Bounded'
<1>1. queue' = queue /\ loopPC = "offer"
  BY DEF TryOffer, OfferThrows, observation
<1>2. \E e \in Events : current = {e}
  BY <1>1 DEF Fanout, InHand
<1>3. CASE UNCHANGED <<held, refs>>
  BY <1>1, <1>3 DEF Bounded
<1>4. ASSUME NEW out \in Evictions(r), Exchange(r, out, current) \/ Exchange(r, out, {})
      PROVE  Bounded'
  BY <1>1, <1>2, <1>4, ExchangeKeepsBounds
<1> QED
  BY <1>3, <1>4 DEF TryOffer, OfferThrows

LEMMA ConsumeKeepsBounds ==
    ASSUME Hands, Bounded, NEW q \in Receivers, NEW x \in Events, Consume(q, x)
    PROVE  Bounded'
<1>1. queue' = queue /\ held' = [held EXCEPT ![q] = @ \ {x}]
  BY DEF Consume, observation
<1>2. /\ held'[q] = held[q] \ {x}
      /\ \A r \in Receivers : r # q => held'[r] = held[r]
  BY <1>1 DEF Hands
<1>3. Cardinality(held[q] \ {x}) <= ReceiverCapacity
  <2>1. /\ Cardinality(held[q] \ {x}) <= Cardinality(held[q])
        /\ IsFiniteSet(held[q] \ {x})
    BY HeldFinite, FS_Subset
  <2>2. Cardinality(held[q] \ {x}) \in Nat
    BY <2>1, FS_CardinalityType
  <2> QED
    BY <2>1, <2>2, HeldFinite, BoundsAssumption DEF Bounded
<1>4. ASSUME NEW r \in Receivers PROVE Cardinality(held'[r]) <= ReceiverCapacity
  BY <1>2, <1>3 DEF Bounded
<1> QED
  BY <1>1, <1>4 DEF Bounded

LEMMA BoundsStay == ASSUME Bounded, held' = held, queue' = queue PROVE Bounded'
BY DEF Bounded

LEMMA QueueKeepsBounds ==
    ASSUME Hands, Bounded, Fanout, Submit \/ TakeWork \/ StopExecutor
    PROVE  Bounded'
<1>1. queue \in Seq(Events) /\ Len(queue) \in Nat /\ QueueDepth \in Nat /\ Len(queue) <= QueueDepth
  BY BoundsAssumption DEF Hands, Bounded
<1>2. held' = held
  BY DEF Submit, TakeWork, StopExecutor, Elsewhere
<1>3. CASE Submit
  <2>1. CASE queue' = queue
    BY <1>2, <2>1, BoundsStay
  <2>2. CASE queue' # queue
    <3>1. PICK e \in current : queue' = Append(queue, e) /\ Len(queue) < QueueDepth
      BY <1>3, <2>2 DEF Submit
    <3>2. Len(queue') = Len(queue) + 1
      BY <1>1, <3>1
    <3>3. Len(queue') <= QueueDepth
      BY <1>1, <3>1, <3>2
    <3> QED
      BY <1>2, <3>3 DEF Bounded
  <2> QED
    BY <2>1, <2>2
<1>4. CASE TakeWork
  <2>1. queue # <<>> /\ queue' = Tail(queue)
    BY <1>4 DEF TakeWork
  <2>2. Len(queue') = Len(queue) - 1
    BY <1>1, <2>1
  <2>3. Len(queue') <= QueueDepth
    BY <1>1, <2>2
  <2> QED
    BY <1>2, <2>3 DEF Bounded
<1>5. CASE StopExecutor
  <2>1. Len(queue') = 0
    BY <1>5 DEF StopExecutor
  <2> QED
    BY <1>1, <1>2, <2>1 DEF Bounded
<1> QED
  BY <1>3, <1>4, <1>5

\* What depends on nothing else.
Scalars == calls \in 0 .. MaxCalls /\ eventSignal \in BOOLEAN

LEMMA ScalarsStay ==
    ASSUME Scalars, UNCHANGED <<calls, eventSignal>> PROVE Scalars'
BY DEF Scalars

----------------------------------------------------------------------------
IInv == Records /\ Fanout /\ Owner /\ Hands /\ Exact /\ Bounded /\ Scalars

LEMMA IInvInit == Init => IInv
<1> SUFFICES ASSUME Init PROVE IInv
  OBVIOUS
<1>1. Records
  <2>1. records = <<>> /\ <<>> \in Seq(Record) /\ Positions(<<>>) = {}
    BY DEF Init, Positions
  <2> QED
    <3>1. /\ changes = 0 /\ changes \in 0 .. MaxChanges
          /\ dispatchDepth = 0 /\ dispatchDepth \in {0, 1}
      BY BoundsAssumption DEF Init
    <3>2. needsCompaction \in BOOLEAN /\ ~needsCompaction
      BY DEF Init
    <3>3. Positions(records) = {} /\ records \in Seq(Record)
      BY <2>1
    <3> QED
      BY <3>1, <3>2, <3>3 DEF Records, Apart
<1>2. Fanout
  BY DEF Init, Fanout, LoopPCs, InHand, Counted, Walked, Walking
<1>3. Owner
  BY DEF Init, Owner
<1>4. Queued = {} /\ queue = <<>> /\ <<>> \in Seq(Events)
  BY DEF Init, Queued
<1>5. Hands
  BY <1>4 DEF Init, Hands, InQueueOnce, Fresh, Observed
<1>6. Exact
  <2>1. ASSUME NEW e \in Events PROVE refs[e] = Account(e)
    <3>1. Holders(e) = {}
      BY DEF Init, Holders
    <3> QED
      BY <1>4, <3>1, FS_EmptySet DEF Init, Account, Holds
  <2> QED
    BY <2>1 DEF Init, Exact
<1>7. Bounded
  <2>1. ASSUME NEW r \in Receivers PROVE Cardinality(held[r]) <= ReceiverCapacity
    <3>1. held[r] = {}
      BY DEF Init
    <3> QED
      BY <3>1, FS_EmptySet, BoundsAssumption
  <2>2. Len(queue) <= QueueDepth
    BY <1>4, BoundsAssumption
  <2> QED
    BY <2>1, <2>2 DEF Bounded
<1>8. Scalars
  <2>1. calls \in 0 .. MaxCalls
    BY BoundsAssumption DEF Init
  <2>2. eventSignal \in BOOLEAN
    BY DEF Init
  <2> QED
    BY <2>1, <2>2 DEF Scalars
<1> QED
  BY <1>1, <1>2, <1>3, <1>5, <1>6, <1>7, <1>8 DEF IInv

\* What a step leaves alone of the records, the fan-out and the owner.
recordVars == <<records, dispatchDepth, needsCompaction, changes>>
ownerVars == <<executor, executorInitialized, executorReady, thread, ownerPC, starting>>

LEMMA RecordsStay == ASSUME Records, UNCHANGED recordVars PROVE Records'
BY DEF Records, recordVars

LEMMA FanoutStays ==
    ASSUME Fanout, UNCHANGED recordVars, UNCHANGED <<dispatch, stayed>>
    PROVE  Fanout'
BY DEF Fanout, recordVars, dispatch, Walk, LookedUp, Same, IsFor

LEMMA OwnerStays == ASSUME Owner, UNCHANGED ownerVars PROVE Owner'
<1>1. /\ executorInitialized' <=> executorInitialized
      /\ executorReady' <=> executorReady
  BY DEF ownerVars
<1>2. executorInitialized' \in BOOLEAN /\ executorReady' \in BOOLEAN /\ starting' \in BOOLEAN
  BY DEF ownerVars, Owner
<1> QED
  BY <1>1, <1>2 DEF ownerVars, Owner

LEMMA RegistrationStep ==
    ASSUME IInv, NEW t \in Types, NEW r \in Receivers,
           RegisterReceiver(t, r) \/ UnregisterReceiver(t, r)
    PROVE  IInv'
<1> USE DEF IInv
<1>1. Records' /\ Fanout'
  BY RegistrationKeepsFanout
<1>2. UNCHANGED <<mailbox, dispatch, held, refs, observation, flags, owner>>
  BY DEF RegisterReceiver, UnregisterReceiver
<1>3. Owner'
  BY <1>2, OwnerStays DEF ownerVars, owner, flags, observation
<1>4. Hands' /\ Exact'
  <2>1. UNCHANGED holding /\ UNCHANGED <<current, offers, loopPC>> /\ due' \subseteq Events
    BY <1>2 DEF holding, mailbox, dispatch, observation, Hands
  <2> QED
    BY <2>1, HoldingStays
<1>5. Bounded' /\ Scalars'
  BY <1>2, BoundsStay, ScalarsStay DEF mailbox, observation, owner
<1> QED
  BY <1>1, <1>3, <1>4, <1>5

LEMMA LoopKeepsInv == ASSUME IInv, LoopStep PROVE IInv'
<1> USE DEF IInv
<1>1. UNCHANGED ownerVars /\ calls' = calls
  BY DEF LoopStep, Look, EndWait, TakeBatch, BeginDispatch, LookUpReceiver, TryOffer,
         OfferThrows, FinishDispatch, WantsObservation, Submit, EndDispatch, EndThread,
         EndSweep, ownerVars, owner, flags, observation
<1>2. Owner' /\ Scalars'
  <2>1. eventSignal' = eventSignal \/ eventSignal' = FALSE
    BY DEF LoopStep, Look, EndWait, TakeBatch, BeginDispatch, LookUpReceiver, TryOffer,
           OfferThrows, FinishDispatch, WantsObservation, Submit, EndDispatch, EndThread,
           EndSweep, mailbox
  <2>2. eventSignal' \in BOOLEAN
    BY <2>1 DEF Scalars
  <2> QED
    BY <1>1, <2>2, OwnerStays DEF Scalars
<1>3. CASE Look \/ EndWait \/ WantsObservation \/ EndSweep
  <2>1. Fanout' /\ UNCHANGED routes
    BY <1>3, LoopKeepsFanout
  <2>2. Records'
    BY <2>1, RecordsStay DEF routes, recordVars
  <2>3. /\ UNCHANGED holding /\ UNCHANGED <<current, offers>> /\ due' \subseteq Events
        /\ loopPC # "release"
    BY <1>3 DEF Look, EndWait, WantsObservation, EndSweep, holding, mailbox, observation, Hands
  <2>4. Hands' /\ Exact'
    BY <2>3, HoldingStays
  <2>5. Bounded'
    BY <2>3, BoundsStay DEF holding
  <2> QED
    BY <1>2, <2>1, <2>2, <2>4, <2>5
<1>4. CASE TakeBatch \/ EndDispatch \/ EndThread \/ Submit
  <2>1. Fanout' /\ UNCHANGED routes
    BY <1>4, LoopKeepsFanout
  <2>2. Records'
    BY <2>1, RecordsStay DEF routes, recordVars
  <2>3. Hands' /\ Exact'
    BY <1>4, TakeBatchKeepsHands, EndDispatchKeepsHands, EndThreadKeepsHands,
       SubmitKeepsHands
  <2>4. ASSUME TakeBatch \/ EndDispatch \/ EndThread PROVE Bounded'
    <3>1. held' = held /\ queue' = queue
      BY <2>4 DEF TakeBatch, EndDispatch, EndThread, observation
    <3> QED
      BY <3>1, BoundsStay
  <2>5. Bounded'
    BY <1>4, <2>4, QueueKeepsBounds
  <2> QED
    BY <1>2, <2>1, <2>2, <2>3, <2>5
<1>5. ASSUME NEW e \in Events, BeginDispatch(e) PROVE IInv'
  <2>1. Records' /\ Fanout'
    BY <1>5, BeginKeepsFanout
  <2>2. Hands' /\ Exact'
    BY <1>5, BeginKeepsHands
  <2>3. held' = held /\ queue' = queue
    BY <1>5 DEF BeginDispatch, mailbox, observation
  <2>4. Bounded'
    BY <2>3, BoundsStay
  <2> QED
    BY <1>2, <2>1, <2>2, <2>4
<1>6. ASSUME NEW e \in Events, LookUpReceiver(e) PROVE IInv'
  <2>1. Fanout' /\ UNCHANGED routes
    BY <1>6, LookUpKeepsFanout
  <2>2. Records'
    BY <2>1, RecordsStay DEF routes, recordVars
  <2>3. /\ UNCHANGED holding /\ UNCHANGED <<current, offers>> /\ due' \subseteq Events
        /\ loopPC # "release"
    BY <1>6 DEF LookUpReceiver, holding, mailbox, observation, Hands
  <2>4. Hands' /\ Exact'
    BY <2>3, HoldingStays
  <2>5. Bounded'
    BY <2>3, BoundsStay DEF holding
  <2> QED
    BY <1>2, <2>1, <2>2, <2>4, <2>5
<1>7. ASSUME NEW r \in Receivers, TryOffer(r) \/ OfferThrows(r) PROVE IInv'
  <2>1. Fanout' /\ UNCHANGED routes
    BY <1>7, TryOfferKeepsFanout, OfferThrowsKeepsFanout
  <2>2. Records'
    BY <2>1, RecordsStay DEF routes, recordVars
  <2>3. Hands' /\ Exact' /\ Bounded'
    BY <1>7, TryOfferKeepsHands, OfferThrowsKeepsHands, TryOfferKeepsBounds
  <2> QED
    BY <1>2, <2>1, <2>2, <2>3
<1>8. CASE FinishDispatch
  <2>1. Records' /\ Fanout'
    BY <1>8, FinishKeepsFanout
  <2>2. /\ UNCHANGED holding /\ UNCHANGED <<current, offers>> /\ due' \subseteq Events
        /\ loopPC # "release"
    BY <1>8 DEF FinishDispatch, holding, mailbox, observation, Hands
  <2>3. Hands' /\ Exact'
    BY <2>2, HoldingStays
  <2>4. Bounded'
    BY <2>2, BoundsStay DEF holding
  <2> QED
    BY <1>2, <2>1, <2>3, <2>4
<1> QED
  BY <1>3, <1>4, <1>5, <1>6, <1>7, <1>8 DEF LoopStep

\* What a step outside the loop, the registrations and the owner leaves alone.
others == <<routes, dispatch, stayed, ownerVars, calls>>

LEMMA OthersStay ==
    ASSUME IInv, UNCHANGED others
    PROVE  Records' /\ Fanout' /\ Owner' /\ calls' \in 0 .. MaxCalls
<1>1. Records'
  BY RecordsStay DEF IInv, others, routes, recordVars
<1>2. Fanout'
  BY FanoutStays DEF IInv, others, routes, recordVars
<1>3. Owner'
  BY OwnerStays DEF IInv, others
<1>4. calls' \in 0 .. MaxCalls
  BY DEF IInv, others, Scalars
<1> QED
  BY <1>1, <1>2, <1>3, <1>4

LEMMA PublisherStep ==
    ASSUME IInv, (\E e \in Events : Publish(e)) \/ EventAdded
    PROVE  IInv'
<1> USE DEF IInv
<1>1. UNCHANGED others /\ held' = held /\ queue' = queue
  BY DEF Publish, EventAdded, others, ownerVars, owner, flags, observation
<1>2. Records' /\ Fanout' /\ Owner' /\ calls' \in 0 .. MaxCalls
  BY <1>1, OthersStay
<1>3. Bounded'
  BY <1>1, BoundsStay
<1>4. ASSUME NEW e \in Events, Publish(e) PROVE IInv'
  <2>1. Hands' /\ Exact'
    BY <1>4, PublishKeepsHands
  <2>2. eventSignal' = eventSignal
    BY <1>4 DEF Publish
  <2>3. Scalars'
    BY <1>1, <1>2, <2>2 DEF Scalars
  <2> QED
    BY <1>2, <1>3, <2>1, <2>3
<1>5. CASE EventAdded
  <2>1. /\ UNCHANGED holding /\ UNCHANGED <<current, offers, loopPC>> /\ due' \subseteq Events
    BY <1>5 DEF EventAdded, holding, dispatch, observation, Hands
  <2>2. Hands' /\ Exact'
    BY <2>1, HoldingStays
  <2>3. eventSignal' \in BOOLEAN
    BY <1>5 DEF EventAdded
  <2>4. Scalars'
    BY <1>2, <2>3 DEF Scalars
  <2> QED
    BY <1>2, <1>3, <2>2, <2>4
<1> QED
  BY <1>4, <1>5

LEMMA DownstreamStep ==
    ASSUME IInv,
           \/ \E r \in Receivers, e \in Events : Consume(r, e)
           \/ TakeWork \/ ProcessObserverWork
    PROVE  IInv'
<1> USE DEF IInv
<1>1. UNCHANGED others /\ eventSignal' = eventSignal
  BY DEF Consume, TakeWork, ProcessObserverWork, others, ownerVars, owner,
         flags, observation, mailbox
<1>2. Records' /\ Fanout' /\ Owner' /\ calls' \in 0 .. MaxCalls
  BY <1>1, OthersStay
<1>3. Scalars'
  BY <1>1, <1>2 DEF Scalars
<1>4. ASSUME NEW r \in Receivers, NEW e \in Events, Consume(r, e) PROVE IInv'
  BY <1>2, <1>3, <1>4, ConsumeKeepsHands, ConsumeKeepsBounds
<1>5. CASE TakeWork
  BY <1>2, <1>3, <1>5, TakeWorkKeepsHands, QueueKeepsBounds
<1>6. CASE ProcessObserverWork
  <2>1. held' = held /\ queue' = queue
    BY <1>6 DEF ProcessObserverWork
  <2> QED
    BY <1>2, <1>3, <1>6, <2>1, ObserverKeepsHands, BoundsStay
<1> QED
  BY <1>4, <1>5, <1>6

LEMMA OwnerKeepsInv == ASSUME IInv, BeginStart \/ OwnerStep PROVE IInv'
<1> USE DEF IInv
<1>1. UNCHANGED Elsewhere /\ (calls' = calls \/ (calls < MaxCalls /\ calls' = calls + 1))
  <2>1. CASE BeginStart
    BY <2>1 DEF BeginStart
  <2>2. CASE OwnerStep
    <3>1. InitializeExecutor => UNCHANGED Elsewhere /\ calls' = calls
      BY DEF InitializeExecutor
    <3>2. InitializeThread => UNCHANGED Elsewhere /\ calls' = calls
      BY DEF InitializeThread
    <3>3. StartExecutor => UNCHANGED Elsewhere /\ calls' = calls
      BY DEF StartExecutor
    <3>4. StartThread => UNCHANGED Elsewhere /\ calls' = calls
      BY DEF StartThread
    <3>5. StopExecutor => UNCHANGED Elsewhere /\ calls' = calls
      BY DEF StopExecutor
    <3>6. UNCHANGED Elsewhere /\ calls' = calls
      BY <2>2, <3>1, <3>2, <3>3, <3>4, <3>5 DEF OwnerStep
    <3> QED
      BY <3>6
  <2> QED
    BY <2>1, <2>2
<1>2. Records' /\ Fanout'
  BY <1>1, RecordsStay, FanoutStays DEF Elsewhere, routes, recordVars
<1>3. Owner'
  BY OwnerKeepsOwner
<1>4. Scalars'
  <2>1. calls' \in 0 .. MaxCalls
    BY <1>1, BoundsAssumption DEF Scalars
  <2>2. eventSignal' = eventSignal
    BY <1>1 DEF Elsewhere, mailbox
  <2> QED
    BY <2>1, <2>2 DEF Scalars
<1>5. CASE StopExecutor
  BY <1>2, <1>3, <1>4, <1>5, StopKeepsHands, QueueKeepsBounds
<1>6. CASE BeginStart \/ InitializeExecutor \/ InitializeThread \/ StartExecutor \/ StartThread
  <2>1. refs' = refs /\ queue' = queue
    BY <1>6 DEF BeginStart, InitializeExecutor, InitializeThread, StartExecutor, StartThread
  <2>2. /\ UNCHANGED holding /\ UNCHANGED <<current, offers, loopPC>> /\ due' \subseteq Events
    BY <1>1, <2>1 DEF Elsewhere, holding, dispatch, mailbox, Hands
  <2>3. Hands' /\ Exact'
    BY <2>2, HoldingStays
  <2>4. Bounded'
    BY <2>2, BoundsStay DEF holding
  <2> QED
    BY <1>2, <1>3, <1>4, <2>3, <2>4
<1> QED
  BY <1>5, <1>6 DEF OwnerStep

LEMMA IInvNext == ASSUME IInv, [Next]_vars PROVE IInv'
<1>1. CASE UNCHANGED vars
  <2> USE DEF IInv
  <2>1. UNCHANGED others /\ UNCHANGED holding /\ UNCHANGED <<current, offers, loopPC>>
        /\ due' = due /\ UNCHANGED <<calls, eventSignal>>
    BY <1>1 DEF vars, others, ownerVars, owner, flags, observation, holding, dispatch, mailbox
  <2>2. Hands' /\ Exact'
    BY <2>1, HoldingStays DEF Hands
  <2>3. Bounded' /\ Scalars'
    BY <2>1, BoundsStay, ScalarsStay DEF holding
  <2> QED
    BY <2>1, <2>2, <2>3, OthersStay
<1>2. CASE Next
  BY <1>2, RegistrationStep, PublisherStep, LoopKeepsInv, DownstreamStep, OwnerKeepsInv DEF Next
<1> QED
  BY <1>1, <1>2

LEMMA IInvHolds == Spec => []IInv
<1>1. Init => IInv
  BY IInvInit
<1>2. IInv /\ [Next]_vars => IInv'
  BY IInvNext
<1> QED
  BY <1>1, <1>2, PTL DEF Spec

----------------------------------------------------------------------------
\* Every variable of the broker keeps its type, and no mailbox or queue its limit exceeds.
THEOREM TypeCorrect == Spec => []TypeOK
<1>1. IInv => TypeOK
  <2> SUFFICES ASSUME IInv PROVE TypeOK
    OBVIOUS
  <2>1. /\ records \in Seq([type : Types, receiver : Receivers, active : BOOLEAN])
        /\ dispatchDepth \in {0, 1} /\ needsCompaction \in BOOLEAN
        /\ changes \in 0 .. MaxChanges
    BY DEF IInv, Records, Record
  <2>2. index \in 0 .. receiverCount + 1 /\ receiver \subseteq Receivers
    BY DEF IInv, Fanout
  <2>3. current \subseteq Events /\ {pending, due, batch, unsent, observing} \subseteq SUBSET Events
    BY DEF IInv, Hands
  <2>4. held \in [Receivers -> SUBSET Events] /\ queue \in Seq(Events) /\ refs \in [Events -> Nat]
    BY DEF IInv, Hands, Exact
  <2>5. /\ executorInitialized \in BOOLEAN /\ executorReady \in BOOLEAN /\ starting \in BOOLEAN
        /\ executor \in {"none", "initialized", "started"}
        /\ thread \in {"none", "initialized", "running"}
    BY DEF IInv, Owner
  <2>6. eventSignal \in BOOLEAN /\ calls \in 0 .. MaxCalls
    BY DEF IInv, Scalars
  <2>7. /\ Len(queue) <= QueueDepth
        /\ \A r \in Receivers : Cardinality(held[r]) <= ReceiverCapacity
    BY DEF IInv, Bounded
  <2>8. {needsCompaction, eventSignal, executorInitialized, executorReady,
         starting} \subseteq BOOLEAN
    BY <2>1, <2>5, <2>6
  <2>9. {pending, due, batch, unsent, current, observing} \subseteq SUBSET Events
    BY <2>3
  <2> QED
    BY <2>1, <2>2, <2>4, <2>5, <2>6, <2>7, <2>8, <2>9 DEF TypeOK
<1> QED
  BY <1>1, IInvHolds, PTL

\* RegisterReceiver's search keeps a receiver from having two active records of a type, and
\* whatever went inactive during a dispatch is gone when the dispatch is.
THEOREM RecordsAreExact == Spec => []RecordsExact
<1>1. IInv => RecordsExact
  <2> SUFFICES ASSUME IInv PROVE RecordsExact
    OBVIOUS
  <2>1. DOMAIN records = Positions(records)
    BY Reading DEF IInv, Records
  <2>2. ASSUME NEW i \in DOMAIN records, NEW j \in DOMAIN records,
               records[i].active, records[j].active, i # j
        PROVE  <<records[i].type, records[i].receiver>>
                 # <<records[j].type, records[j].receiver>>
    BY <2>1, <2>2 DEF IInv, Records, Apart, Same
  <2>3. dispatchDepth = 0 =>
          ~needsCompaction /\ \A i \in DOMAIN records : records[i].active
    BY <2>1 DEF IInv, Records
  <2> QED
    BY <2>2, <2>3 DEF RecordsExact
<1> QED
  BY <1>1, IInvHolds, PTL

\* Receivers may come and go during a dispatch: the walk by index offers the event at most
\* once to each, to none that came after the dispatch began, and exactly once to all that
\* were routed throughout.
THEOREM EachReceiverOnce == Spec => []EveryReceiverOnce
<1>1. IInv => EveryReceiverOnce
  <2> SUFFICES ASSUME IInv PROVE EveryReceiverOnce
    OBVIOUS
  <2>1. \A r \in Receivers : offers[r] <= 1 /\ (offers[r] = 1 => r \in present)
    BY DEF IInv, Fanout
  <2>2. loopPC = "completion" => \A r \in stayed : offers[r] = 1
    BY DEF IInv, Fanout, Walked
  <2> QED
    BY <2>1, <2>2 DEF EveryReceiverOnce
<1> QED
  BY <1>1, IInvHolds, PTL

\* Every reference has its holder: a receiver or executor that refuses an event, or is
\* stopped with some in its queue, keeps none, and nothing held is deleted.
THEOREM ReferencesAreExact == Spec => []ReferencesExact
<1>1. IInv => ReferencesExact
  BY DEF IInv, Exact, Account, Holders, ReferencesExact
<1> QED
  BY <1>1, IInvHolds, PTL

\* Whatever fails in Initialize and Start, they leave flags that say what the executor is.
THEOREM FlagsAgree == Spec => []FlagsFollowExecutor
<1>1. IInv => FlagsFollowExecutor
  BY DEF IInv, Owner, FlagsFollowExecutor
<1> QED
  BY <1>1, IInvHolds, PTL

----------------------------------------------------------------------------
\* The fan-out implements the multicast.

\* Of the records the walk goes through, those that are active are for receivers that were
\* routed the type throughout.
Kept ==
    loopPC \in Walking => \A e \in current : \A i \in 1 .. receiverCount :
        records[i].active /\ records[i].type = TypeOf[e] => records[i].receiver \in stayed

LEMMA WalkingFacts ==
    ASSUME IInv, loopPC \in Walking
    PROVE  /\ receiverCount \in Nat /\ receiverCount <= Len(records)
           /\ \A i \in 1 .. receiverCount : i \in Positions(records)
           /\ \E e \in Events : current = {e} /\ Walk(TypeOf[e])
<1>1. PICK e \in Events : current = {e}
  BY DEF IInv, Fanout, InHand, Walking
<1>2. Walk(TypeOf[e]) /\ receiverCount \in Nat
  BY <1>1 DEF IInv, Fanout
<1>3. Len(records) \in Nat /\ receiverCount <= Len(records)
  BY <1>2, Reading DEF IInv, Records, Walk
<1> QED
  BY <1>1, <1>2, <1>3 DEF Positions

LEMMA RegistrationKeepsKept ==
    ASSUME IInv, Kept, NEW t \in Types, NEW r \in Receivers,
           RegisterReceiver(t, r) \/ UnregisterReceiver(t, r)
    PROVE  Kept'
<1>1. UNCHANGED <<loopPC, current, receiverCount>>
  BY DEF RegisterReceiver, UnregisterReceiver, dispatch
<1> SUFFICES ASSUME loopPC \in Walking, NEW e \in current, NEW i \in 1 .. receiverCount,
                    records'[i].active, records'[i].type = TypeOf[e]
             PROVE  records'[i].receiver \in stayed'
  BY <1>1 DEF Kept
<1>2. i \in Positions(records)
  BY WalkingFacts
<1>3. CASE RegisterReceiver(t, r)
  <2>1. records'[i] = records[i] /\ stayed' = stayed
    BY <1>2, <1>3, RegisterKeepsRecords DEF IInv, RegisterReceiver
  <2> QED
    BY <2>1 DEF Kept
<1>4. CASE UnregisterReceiver(t, r)
  <2>1. dispatchDepth = 1
    BY DEF IInv, Fanout, Counted, Walking
  <2>2. /\ records'[i].type = records[i].type /\ records'[i].receiver = records[i].receiver
        /\ records[i].active /\ ~IsFor(records, i, t, r)
    BY <1>2, <1>4, <2>1, UnregisterKeepsRecords DEF IInv, Grows
  <2>3. records[i].receiver \in stayed
    BY <2>2 DEF Kept
  <2>4. stayed' = IF \E x \in current : TypeOf[x] = t THEN stayed \ {r} ELSE stayed
    BY <1>4 DEF UnregisterReceiver
  <2>5. current = {e}
    BY DEF IInv, Fanout, InHand, Walking
  <2> QED
    BY <2>2, <2>3, <2>4, <2>5 DEF IsFor
<1> QED
  BY <1>3, <1>4

LEMMA BeginMakesKept ==
    ASSUME IInv, NEW e \in Events, BeginDispatch(e)
    PROVE  Kept'
<1>1. /\ current' = {e} /\ receiverCount' = Len(records) /\ records' = records
      /\ stayed' = {r \in Receivers : AlreadyRegistered(TypeOf[e], r)}
  BY DEF BeginDispatch
<1>2. ASSUME NEW i \in 1 .. Len(records), records[i].active, records[i].type = TypeOf[e]
      PROVE  records[i].receiver \in stayed'
  <2>1. i \in DOMAIN records /\ i \in Positions(records)
    BY Reading DEF IInv, Records, Positions
  <2>2. records[i].receiver \in Receivers
    BY <2>1, Reading DEF IInv, Records
  <2> QED
    BY <1>1, <1>2, <2>1, <2>2 DEF AlreadyRegistered, IsRecord
<1> QED
  BY <1>1, <1>2 DEF Kept

LEMMA LoopKeepsKept == ASSUME IInv, Kept, LoopStep PROVE Kept'
<1>1. ASSUME NEW e \in Events, BeginDispatch(e) PROVE Kept'
  BY <1>1, BeginMakesKept
<1>2. ASSUME NEW e \in Events, LookUpReceiver(e) PROVE Kept'
  <2>1. /\ loopPC \in Walking
        /\ UNCHANGED <<records, current, receiverCount, stayed>>
    BY <1>2 DEF LookUpReceiver, routes, Walking
  <2> QED
    BY <2>1 DEF Kept
<1>3. ASSUME NEW r \in Receivers, TryOffer(r) PROVE Kept'
  <2>1. /\ loopPC \in Walking
        /\ UNCHANGED <<records, current, receiverCount, stayed>>
    BY <1>3 DEF TryOffer, routes, Walking
  <2> QED
    BY <2>1 DEF Kept
<1>4. CASE \/ Look \/ EndWait \/ TakeBatch \/ FinishDispatch \/ WantsObservation \/ Submit
           \/ EndDispatch \/ EndThread \/ EndSweep \/ \E r \in Receivers : OfferThrows(r)
  <2>1. loopPC' \notin Walking
    BY <1>4 DEF Look, EndWait, TakeBatch, FinishDispatch, WantsObservation, Submit,
                EndDispatch, EndThread, EndSweep, OfferThrows, Walking, dispatch
  <2> QED
    BY <2>1 DEF Kept
<1> QED
  BY <1>1, <1>2, <1>3, <1>4 DEF LoopStep

\* The steps that have no part in the fan-out or the registrations.
AsideStep ==
    \/ \E e \in Events : Publish(e)
    \/ EventAdded
    \/ \E r \in Receivers, e \in Events : Consume(r, e)
    \/ TakeWork
    \/ ProcessObserverWork
    \/ BeginStart
    \/ OwnerStep

LEMMA AsideLeaves ==
    ASSUME AsideStep \/ UNCHANGED vars
    PROVE  UNCHANGED <<routes, dispatch, stayed>>
<1>1. CASE UNCHANGED vars
  BY <1>1 DEF vars
<1>2. CASE OwnerStep \/ BeginStart
  <2>1. UNCHANGED Elsewhere
    BY <1>2 DEF OwnerStep, BeginStart, InitializeExecutor, InitializeThread, StartExecutor,
                StartThread, StopExecutor
  <2> QED
    BY <2>1 DEF Elsewhere
<1>3. CASE (\E e \in Events : Publish(e)) \/ EventAdded
  BY <1>3 DEF Publish, EventAdded
<1>4. CASE \/ \E r \in Receivers, e \in Events : Consume(r, e)
           \/ TakeWork \/ ProcessObserverWork
  BY <1>4 DEF Consume, TakeWork, ProcessObserverWork
<1> QED
  BY <1>1, <1>2, <1>3, <1>4 DEF AsideStep

LEMMA NextSplits ==
    ASSUME [Next]_vars
    PROVE  \/ \E t \in Types, r \in Receivers :
                RegisterReceiver(t, r) \/ UnregisterReceiver(t, r)
           \/ LoopStep
           \/ AsideStep \/ UNCHANGED vars
BY DEF Next, AsideStep

KInv == IInv /\ Kept

LEMMA KInvHolds == Spec => []KInv
<1>1. Init => Kept
  BY DEF Init, Kept, Walking
<1>2. IInv /\ Kept /\ [Next]_vars => Kept'
  <2> SUFFICES ASSUME IInv, Kept, [Next]_vars PROVE Kept'
    OBVIOUS
  <2>1. CASE AsideStep \/ UNCHANGED vars
    <3>1. UNCHANGED <<records, loopPC, current, receiverCount, stayed>>
      BY <2>1, AsideLeaves DEF routes, dispatch
    <3> QED
      BY <3>1 DEF Kept
  <2> QED
    BY <2>1, NextSplits, RegistrationKeepsKept, LoopKeepsKept
<1> QED
  BY <1>1, <1>2, IInvHolds, PTL DEF Spec, KInv

\* The registrations are the active records, before a step and after it.
LEMMA RegistrationsAreActive ==
    ASSUME records \in Seq(Record) PROVE Registrations = Active(records)
BY Reading DEF Registrations, Active

LEMMA RegistrationsAreActiveNext ==
    ASSUME records' \in Seq(Record) PROVE Registrations' = Active(records')
<1>1. DOMAIN records' = Positions(records')
  BY DEF Positions
<1> QED
  BY <1>1 DEF Registrations, Active

LEMMA RegistrationImplements ==
    ASSUME KInv, NEW t \in Types, NEW r \in Receivers,
           RegisterReceiver(t, r) \/ UnregisterReceiver(t, r)
    PROVE  M!Next
<1>1. IInv /\ records \in Seq(Record) /\ records' \in Seq(Record)
  BY RegistrationKeepsFanout DEF KInv, IInv, Records
<1>2. Registrations = Active(records) /\ Registrations' = Active(records')
  BY <1>1, RegistrationsAreActive, RegistrationsAreActiveNext
<1>3. UNCHANGED dispatch
  BY DEF RegisterReceiver, UnregisterReceiver
<1>4. Serving' = Serving /\ (Dispatching' <=> Dispatching) /\ Progress' = Progress
  BY <1>3 DEF dispatch, Serving, Dispatching, Progress
<1>5. CASE RegisterReceiver(t, r)
  <2>1. /\ <<t, r>> \notin Registrations
        /\ Registrations' = Registrations \cup {<<t, r>>}
    BY <1>1, <1>2, <1>5, RegisterKeepsRecords DEF IInv
  <2>2. stayed' = stayed
    BY <1>5 DEF RegisterReceiver
  <2>3. Due' = Due
    BY <1>3, <2>2 DEF dispatch, Due, Dispatching
  <2>4. M!Join(<<t, r>>)
    BY <1>4, <2>1, <2>3 DEF M!Join, M!round
  <2> QED
    BY <2>4 DEF M!Next
<1>6. CASE UnregisterReceiver(t, r)
  <2>1. /\ <<t, r>> \in Registrations
        /\ Registrations' = Registrations \ {<<t, r>>}
    BY <1>1, <1>2, <1>6, UnregisterKeepsRecords DEF IInv
  <2>2. stayed' = IF \E e \in current : TypeOf[e] = t THEN stayed \ {r} ELSE stayed
    BY <1>6 DEF UnregisterReceiver
  <2>3. Due' = Due \ {<<t, r>>}
    <3>1. CASE ~Dispatching
      BY <1>4, <3>1 DEF Due
    <3>2. CASE Dispatching
      <4>1. PICK e \in Events : current = {e}
        BY <3>2 DEF KInv, IInv, Fanout, Dispatching, InHand, Walking
      <4>2. Due = {<<TypeOf[e], x>> : x \in {y \in stayed \ receiver : offers[y] = 0}}
        BY <3>2, <4>1 DEF Due
      <4>3. Due' = {<<TypeOf[e], x>> : x \in {y \in stayed' \ receiver : offers[y] = 0}}
        BY <1>3, <1>4, <3>2, <4>1 DEF Due, dispatch
      <4>4. stayed' = IF TypeOf[e] = t THEN stayed \ {r} ELSE stayed
        BY <2>2, <4>1
      <4> QED
        BY <4>2, <4>3, <4>4
    <3> QED
      BY <3>1, <3>2
  <2>4. M!Leave({<<t, r>>})
    <3>1. [c \in {"loop"} |-> Due'] = [c \in {"loop"} |-> [x \in {"loop"} |-> Due][c] \ {<<t, r>>}]
      BY <2>3
    <3> QED
      BY <1>4, <2>1, <3>1 DEF M!Leave
  <2> QED
    BY <2>1, <2>4 DEF M!Next
<1> QED
  BY <1>5, <1>6

LEMMA BeginImplements ==
    ASSUME KInv, NEW e \in Events, BeginDispatch(e)
    PROVE  M!Begin("loop", TypeOf[e])
<1> DEFINE t == TypeOf[e]
<1>1. /\ loopPC = "sweep" /\ loopPC' = "fanout" /\ current' = {e} /\ current = {}
      /\ receiver = {} /\ receiver' = {} /\ records' = records
      /\ offers' = [r \in Receivers |-> 0]
      /\ stayed' = {r \in Receivers : AlreadyRegistered(t, r)}
  BY DEF BeginDispatch, KInv, IInv, Fanout, InHand, Walking
<1>2. Registrations' = Registrations /\ Registrations \subseteq Types \X Receivers
  <2>1. \A i \in DOMAIN records :
          records[i].type \in Types /\ records[i].receiver \in Receivers
    BY Reading DEF KInv, IInv, Records
  <2> QED
    BY <1>1, <2>1 DEF Registrations
<1>3. /\ Dispatching' /\ Serving = {} /\ Serving' = {}
      /\ Progress = "idle" /\ Progress' = "delivering"
  BY <1>1 DEF Dispatching, Serving, Progress
<1>4. Due' = {m \in Registrations : [x \in Types \X Receivers |-> x[1]][m] = t}
  <2>1. Due' = {<<t, x>> : x \in {y \in stayed' : offers'[y] = 0}}
    BY <1>1, <1>3 DEF Due
  <2>2. Due' = {<<t, x>> : x \in stayed'}
    BY <1>1, <2>1
  <2>3. \A x \in Receivers : AlreadyRegistered(t, x) <=> <<t, x>> \in Registrations
    BY DEF AlreadyRegistered, IsRecord, Registrations
  <2>4. \A m \in Registrations : [x \in Types \X Receivers |-> x[1]][m] = m[1]
    BY <1>2
  <2> HIDE DEF t
  <2>5. \A m \in Registrations : m[1] = t <=> \E x \in Receivers : m = <<t, x>>
    BY <1>2
  <2>6. \A x \in stayed' : x \in Receivers /\ <<t, x>> \in Registrations
    BY <1>1, <2>3 DEF t
  <2>7. \A x \in Receivers : <<t, x>> \in Registrations => x \in stayed'
    BY <1>1, <2>3 DEF t
  <2>8. ASSUME NEW m \in Due'
        PROVE  m \in Registrations /\ [x \in Types \X Receivers |-> x[1]][m] = t
    <3>1. PICK x \in stayed' : m = <<t, x>>
      BY <2>2, <2>8 DEF t
    <3> QED
      BY <2>4, <2>5, <2>6, <3>1
  <2>9. ASSUME NEW m \in Registrations, [x \in Types \X Receivers |-> x[1]][m] = t
        PROVE  m \in Due'
    <3>1. PICK x \in Receivers : m = <<t, x>>
      BY <2>4, <2>5, <2>9
    <3> QED
      BY <2>2, <2>7, <3>1 DEF t
  <2> QED
    BY <2>8, <2>9
<1> QED
  BY <1>2, <1>3, <1>4 DEF M!Begin

\* Where nothing is being dispatched, only the registrations are seen.
LEMMA NothingSeen ==
    ASSUME Fanout, loopPC \notin Counted PROVE Due = {} /\ Serving = {} /\ Progress = "idle"
BY DEF Fanout, Due, Serving, Dispatching, Progress, Counted

\* An active record under the walk's index is for a receiver that the event is due to.
LEMMA LookUpImplements ==
    ASSUME KInv, NEW e \in Events, LookUpReceiver(e)
    PROVE  [M!Next]_(M!vars)
<1> DEFINE t == TypeOf[e]
<1>1. /\ loopPC = "fanout" /\ current = {e} /\ current' = {e} /\ receiver = {}
      /\ index <= receiverCount
      /\ UNCHANGED <<records, offers, stayed>>
  BY DEF LookUpReceiver, routes, KInv, IInv, Fanout, InHand, Walking
<1>2. Registrations' = Registrations
  BY <1>1 DEF Registrations
<1>3. Walk(t) /\ receiverCount \in Nat /\ receiverCount <= Len(records)
  BY <1>1, WalkingFacts DEF KInv, Walking
<1>4. index \in 1 .. receiverCount /\ index \in Positions(records) /\ index \in DOMAIN records
  BY <1>1, <1>3, Reading DEF KInv, IInv, Records, Walk, Positions
<1>5. CASE ~Matches(e)
  <2>1. loopPC' = loopPC /\ receiver' = receiver
    BY <1>5 DEF LookUpReceiver
  <2>2. UNCHANGED <<Due, Serving, Progress>>
    BY <1>1, <2>1 DEF Due, Serving, Dispatching, Progress
  <2> QED
    BY <1>2, <2>2 DEF M!vars, M!round
<1>6. CASE Matches(e)
  <2> DEFINE r == records[index].receiver
             m == <<t, r>>
  <2>1. receiver' = {r} /\ loopPC' = "offer"
    BY <1>6 DEF LookUpReceiver
  <2>2. r \in stayed /\ r \in Receivers
    BY <1>1, <1>4, <1>6, Reading DEF KInv, Kept, Walking, Matches, IInv, Records
  <2>3. offers[r] = 0
    <3>1. ASSUME offers[r] = 1 PROVE FALSE
      <4>1. PICK i \in 1 .. receiverCount : i < index /\ IsFor(records, i, t, r)
        BY <1>3, <2>2, <3>1 DEF Walk
      <4>2. Same(records, i, index)
        BY <1>6, <4>1 DEF Matches, IsFor, Same
      <4>3. i = index
        BY <1>3, <1>4, <4>2 DEF Walk
      <4> QED
        BY <1>4, <4>1, <4>3
    <3>2. offers[r] \in {0, 1}
      BY <2>2 DEF KInv, IInv, Fanout
    <3> QED
      BY <3>1, <3>2
  <2>4. /\ Dispatching /\ Dispatching'
        /\ Progress = "delivering" /\ Progress' = Progress
    BY <1>1, <2>1 DEF Dispatching, Progress
  <2> HIDE DEF r, t
  <2>5. Serving = {} /\ Serving' = {m}
    BY <1>1, <2>1 DEF Serving, t
  <2>6. Due = {<<t, x>> : x \in {y \in stayed : offers[y] = 0}}
    BY <1>1, <2>4 DEF Due, t
  <2>7. Due' = {<<t, x>> : x \in {y \in stayed \ {r} : offers[y] = 0}}
    BY <1>1, <2>1, <2>4 DEF Due, t
  <2>8. m \in Due /\ Due' = Due \ {m}
    BY <2>2, <2>3, <2>6, <2>7
  <2>9. m \in Types \X Receivers
    BY <2>2, EventsAssumption DEF t
  <2> HIDE DEF m
  <2>10. M!Take("loop", m)
    BY <1>2, <2>4, <2>5, <2>8 DEF M!Take
  <2> QED
    BY <2>9, <2>10 DEF M!Next
<1> QED
  BY <1>5, <1>6

LEMMA OfferImplements ==
    ASSUME KInv, NEW r \in Receivers, TryOffer(r)
    PROVE  M!Serve("loop")
<1>1. /\ loopPC = "offer" /\ loopPC' = "fanout" /\ r \in receiver /\ receiver' = {}
      /\ offers' = [offers EXCEPT ![r] = @ + 1]
      /\ UNCHANGED <<records, current, stayed>>
  BY DEF TryOffer, routes
<1>2. PICK e \in Events : current = {e}
  BY <1>1 DEF KInv, IInv, Fanout, InHand
<1>3. receiver = {r} /\ offers[r] = 0
  BY <1>1, NotYetOffered DEF KInv, IInv, Fanout
<1>4. stayed \subseteq Receivers /\ offers' [r] = 1
      /\ \A q \in Receivers : q # r => offers'[q] = offers[q]
  BY <1>1, <1>3 DEF KInv, IInv, Fanout
<1>5. Registrations' = Registrations
  BY <1>1 DEF Registrations
<1>6. /\ Dispatching /\ Dispatching' /\ Serving # {} /\ Serving' = {}
      /\ Progress' = Progress
  <2>1. Dispatching /\ Dispatching' /\ Progress' = Progress
    BY <1>1 DEF Dispatching, Progress
  <2>2. <<TypeOf[e], r>> \in Serving
    BY <1>1, <1>2 DEF Serving
  <2>3. Serving' = {}
    BY <1>1 DEF Serving
  <2> QED
    BY <2>1, <2>2, <2>3
<1>7. Due' = Due
  <2>1. Due = {<<TypeOf[e], x>> : x \in {y \in stayed \ {r} : offers[y] = 0}}
    BY <1>2, <1>3, <1>6 DEF Due
  <2>2. Due' = {<<TypeOf[e], x>> : x \in {y \in stayed : offers'[y] = 0}}
    BY <1>1, <1>2, <1>6 DEF Due
  <2>3. {y \in stayed \ {r} : offers[y] = 0} = {y \in stayed : offers'[y] = 0}
    BY <1>4
  <2> QED
    BY <2>1, <2>2, <2>3
<1> QED
  BY <1>5, <1>6, <1>7 DEF M!Serve

\* The call that throws takes from the others what was due to them.
LEMMA ThrowImplements ==
    ASSUME KInv, NEW r \in Receivers, OfferThrows(r)
    PROVE  M!Fail("loop")
<1>1. /\ loopPC = "offer" /\ loopPC' = "catch" /\ r \in receiver /\ receiver' = {}
      /\ UNCHANGED records
  BY DEF OfferThrows, routes
<1>2. PICK e \in Events : current = {e}
  BY <1>1 DEF KInv, IInv, Fanout, InHand
<1>3. Registrations' = Registrations
  BY <1>1 DEF Registrations
<1>4. <<TypeOf[e], r>> \in Serving /\ Serving' = {}
  BY <1>1, <1>2 DEF Serving
<1>5. Due' = {} /\ Progress' = "failed"
  BY <1>1 DEF Due, Dispatching, Progress
<1> QED
  BY <1>3, <1>4, <1>5 DEF M!Fail

\* At the end of the walk, and after a throw, the event is due to nobody any more.
LEMMA FinishImplements ==
    ASSUME KInv, FinishDispatch
    PROVE  M!End("loop")
<1>1. /\ loopPC \in {"fanout", "catch"} /\ loopPC' \in {"completion", "unwind"}
      /\ receiver = {} /\ receiver' = {}
      /\ UNCHANGED <<offers, stayed>>
  BY DEF FinishDispatch, KInv, IInv, Fanout
<1>2. Records' /\ Fanout' /\ Active(records)' = Active(records)
  BY FinishKeepsFanout DEF KInv, IInv
<1>3. Registrations' = Registrations
  BY <1>2, RegistrationsAreActive, RegistrationsAreActiveNext DEF KInv, IInv, Records
<1>4. Progress # "idle" /\ Progress' = "idle" /\ Serving = {} /\ Serving' = {}
  BY <1>1 DEF Dispatching, Progress, Serving
<1>5. Due' = {}
  BY <1>1 DEF Due, Dispatching
<1>6. Due = {}
  <2>1. CASE loopPC = "catch"
    BY <2>1 DEF Due, Dispatching
  <2>2. CASE loopPC = "fanout"
    <3>1. loopPC' = "completion"
      BY <2>2 DEF FinishDispatch
    <3>2. \A r \in stayed : offers[r] = 1
      BY <1>1, <1>2, <3>1 DEF Fanout, Walked
    <3> QED
      BY <3>2 DEF Due
  <2> QED
    BY <1>1, <2>1, <2>2
<1> QED
  BY <1>3, <1>4, <1>5, <1>6 DEF M!End

LEMMA LoopImplements ==
    ASSUME KInv, LoopStep
    PROVE  [M!Next]_(M!vars)
<1>1. ASSUME NEW e \in Events, BeginDispatch(e) PROVE M!Next
  <2>1. M!Begin("loop", TypeOf[e]) /\ TypeOf[e] \in Types
    BY <1>1, BeginImplements, EventsAssumption
  <2> QED
    BY <2>1 DEF M!Next
<1>2. ASSUME NEW r \in Receivers, TryOffer(r) PROVE M!Next
  BY <1>2, OfferImplements DEF M!Next
<1>2a. ASSUME NEW r \in Receivers, OfferThrows(r) PROVE M!Next
  BY <1>2a, ThrowImplements DEF M!Next
<1>3. CASE FinishDispatch
  BY <1>3, FinishImplements DEF M!Next
<1>4. CASE \/ Look \/ EndWait \/ TakeBatch \/ WantsObservation \/ Submit \/ EndDispatch
           \/ EndThread \/ EndSweep
  <2>1. /\ loopPC \notin Counted /\ loopPC' \notin Counted
    BY <1>4 DEF Look, EndWait, TakeBatch, WantsObservation, Submit, EndDispatch, EndThread,
                EndSweep, Counted, dispatch
  <2>2. IInv' /\ UNCHANGED routes
    BY <1>4, LoopKeepsInv, LoopKeepsFanout DEF KInv, IInv
  <2>3. Due = {} /\ Serving = {} /\ Progress = "idle"
    BY <2>1, NothingSeen DEF KInv, IInv
  <2>4. Due' = {} /\ Serving' = {} /\ Progress' = "idle"
    <3>1. Fanout'
      BY <2>2 DEF IInv
    <3> QED
      BY <2>1, <3>1 DEF Fanout, Due, Serving, Dispatching, Progress, Counted
  <2>5. Registrations' = Registrations
    BY <2>2 DEF routes, Registrations
  <2> QED
    BY <2>3, <2>4, <2>5 DEF M!vars, M!round
<1> QED
  BY <1>1, <1>2, <1>2a, <1>3, <1>4, LookUpImplements DEF LoopStep

\* Receivers may come, leave and come back while the loop walks over the records: every
\* event goes once to each that was routed its type when the dispatch began and has not
\* left, and to nobody else.
THEOREM BrokerImplementsMulticast == Spec => ImplementsMulticast
<1>1. Init => M!Init
  <2> SUFFICES ASSUME Init PROVE M!Init
    OBVIOUS
  <2>1. Registrations = {}
    BY DEF Init, Registrations
  <2>2. Due = {} /\ Serving = {} /\ Progress = "idle"
    BY DEF Init, Due, Serving, Dispatching, Progress
  <2> QED
    BY <2>1, <2>2 DEF M!Init
<1>2. KInv /\ [Next]_vars => [M!Next]_(M!vars)
  <2> SUFFICES ASSUME KInv, [Next]_vars PROVE [M!Next]_(M!vars)
    OBVIOUS
  <2>1. CASE AsideStep \/ UNCHANGED vars
    <3>1. UNCHANGED <<records, loopPC, current, receiver, offers, stayed>>
      BY <2>1, AsideLeaves DEF routes, dispatch
    <3>2. UNCHANGED <<Registrations, Due, Serving, Progress>>
      BY <3>1 DEF Registrations, Due, Serving, Dispatching, Progress
    <3> QED
      BY <3>2 DEF M!vars, M!round
  <2> QED
    BY <2>1, NextSplits, RegistrationImplements, LoopImplements
<1> QED
  BY <1>1, <1>2, KInvHolds, PTL DEF Spec, ImplementsMulticast, M!Spec

----------------------------------------------------------------------------
\* Signals, and what is deleted.

\* The loop has been told of every event that waits, or is about to be.
Told == eventSignal \/ publisher = "notify"

\* The safety core of EventsSettle: the loop that sleeps without a limit never does so on an
\* event nobody will wake it for, whenever the event came between its look at the mailbox
\* and its wait, during a sweep, or before the thread ran.
THEOREM ArrivalsAreTold == Spec => [](loopPC = "wait" /\ pending # {} => Told)
<1> DEFINE TInv == loopPC = "wait" /\ pending # {} => Told
<1>1. Init => TInv
  BY DEF Init
<1>2. TInv /\ [Next]_vars => TInv'
  <2> SUFFICES ASSUME TInv, [Next]_vars PROVE TInv'
    OBVIOUS
  <2>1. CASE LoopStep
    BY <2>1 DEF LoopStep, Look, EndWait, TakeBatch, BeginDispatch, LookUpReceiver, TryOffer,
                OfferThrows, FinishDispatch, WantsObservation, Submit, EndDispatch, EndThread,
                EndSweep, Told, mailbox, dispatch
  <2>2. CASE EventAdded \/ \E e \in Events : Publish(e)
    BY <2>2 DEF Publish, EventAdded, Told, dispatch
  <2>3. CASE UNCHANGED <<mailbox, dispatch>>
    BY <2>3 DEF Told, mailbox, dispatch
  <2>4. CASE BeginStart \/ OwnerStep
    BY <2>3, <2>4 DEF BeginStart, OwnerStep, InitializeExecutor, InitializeThread,
                      StartExecutor, StartThread, StopExecutor, Elsewhere
  <2>5. ASSUME NEW type \in Types, NEW r \in Receivers,
               RegisterReceiver(type, r) \/ UnregisterReceiver(type, r)
        PROVE  TInv'
    BY <2>3, <2>5 DEF RegisterReceiver, UnregisterReceiver
  <2>6. ASSUME NEW r \in Receivers, NEW e \in Events, Consume(r, e) PROVE TInv'
    BY <2>3, <2>6 DEF Consume
  <2>7. CASE TakeWork \/ ProcessObserverWork \/ UNCHANGED vars
    BY <2>3, <2>7 DEF TakeWork, ProcessObserverWork, vars
  <2> QED
    BY <2>1, <2>2, <2>4, <2>5, <2>6, <2>7 DEF Next
<1> QED
  BY <1>1, <1>2, PTL DEF Spec

\* What is being dispatched is in the broker's hands.
LEMMA CurrentIsAlive ==
    ASSUME IInv, NEW e \in Events, e \in current
    PROVE  refs[e] # 0
<1>1. e \in batch
  BY DEF IInv, Fanout, Hands
<1>2. Holds(e \in batch) = 1
  BY <1>1 DEF Holds
<1>3. {Holds(e \in pending), Holds(e \in Queued), Holds(e \in observing)} \subseteq Nat
  BY DEF Holds
<1>4. Account(e) # 0
  BY <1>2, <1>3, HoldersFinite DEF Account
<1> QED
  BY <1>4 DEF IInv, Exact

\* An event whose last holder has let go of it is deleted there; nobody finds it again and
\* takes a reference, though receivers and the executor take theirs from the loop's copy,
\* outside any mutex, and others give theirs back meanwhile.
THEOREM DeletedStaysDeleted ==
    Spec => [][\A e \in Events : e \notin unsent /\ refs[e] = 0 => refs'[e] = 0]_vars
<1>1. ASSUME IInv, IInv', [Next]_vars, NEW e \in Events, e \notin unsent, refs[e] = 0
      PROVE  refs'[e] = 0
  <2>0. refs' \in [Events -> Nat] /\ e \notin current
    BY <1>1, CurrentIsAlive DEF IInv, Exact
  <2>1. ASSUME NEW S, refs' = Unref(S) PROVE refs'[e] = 0
    <3>1. refs'[e] = 0 - 1 \/ refs'[e] = 0
      BY <1>1, <2>1 DEF Unref
    <3>2. refs'[e] \in Nat
      BY <2>0
    <3> QED
      BY <3>1, <3>2
  <2>2. ASSUME NEW S, refs' = Ref(S), e \notin S PROVE refs'[e] = 0
    BY <1>1, <2>2 DEF Ref
  <2>3. CASE refs' = refs
    BY <1>1, <2>3
  <2>4. CASE LoopStep
    <3>1. ASSUME NEW r \in Receivers, NEW out, Exchange(r, out, current) \/ Exchange(r, out, {})
          PROVE  refs'[e] = 0
      <4>1. refs'[e] = 0 - Holds(e \in out)
        <5>1. ASSUME NEW in, Exchange(r, out, in), e \notin in
              PROVE  refs'[e] = 0 - Holds(e \in out)
          BY <1>1, <5>1 DEF Exchange, Holds
        <5> QED
          BY <2>0, <3>1, <5>1
      <4>2. refs'[e] \in Nat
        BY <2>0
      <4>3. Holds(e \in out) \in {0, 1}
        BY HoldsIsNumber
      <4>4. ASSUME NEW h \in {0, 1}, refs'[e] = 0 - h PROVE refs'[e] = 0
        BY <4>2, <4>4
      <4> QED
        BY <4>1, <4>3, <4>4
    <3>2. \/ refs' = refs \/ refs' = Ref(current) \/ refs' = Unref(current)
          \/ refs' = Unref(batch)
          \/ \E r \in Receivers : \E out \in Evictions(r) :
                Exchange(r, out, current) \/ Exchange(r, out, {})
      BY <2>4 DEF LoopStep, Look, EndWait, TakeBatch, BeginDispatch, LookUpReceiver, TryOffer,
                  OfferThrows, FinishDispatch, WantsObservation, Submit, Refused, EndDispatch,
                  EndThread, EndSweep
    <3> QED
      BY <2>0, <2>1, <2>2, <2>3, <3>1, <3>2
  <2>5. ASSUME NEW x \in Events, Publish(x) PROVE refs'[e] = 0
    BY <1>1, <2>2, <2>5 DEF Publish
  <2>6. ASSUME NEW r \in Receivers, NEW x \in Events, Consume(r, x) PROVE refs'[e] = 0
    BY <2>1, <2>6 DEF Consume
  <2>7. CASE BeginStart \/ OwnerStep
    <3>1. refs' = refs \/ refs' = Unref(Queued)
      BY <2>7 DEF BeginStart, OwnerStep, InitializeExecutor, InitializeThread, StartExecutor,
                  StartThread, StopExecutor
    <3> QED
      BY <2>1, <2>3, <3>1
  <2>8. CASE TakeWork \/ ProcessObserverWork \/ EventAdded \/ UNCHANGED vars
    BY <2>1, <2>3, <2>8 DEF TakeWork, ProcessObserverWork, EventAdded, vars
  <2>9. ASSUME NEW type \in Types, NEW r \in Receivers,
               RegisterReceiver(type, r) \/ UnregisterReceiver(type, r)
        PROVE  refs'[e] = 0
    BY <2>3, <2>9 DEF RegisterReceiver, UnregisterReceiver
  <2> QED
    BY <1>1, <2>4, <2>5, <2>6, <2>7, <2>8, <2>9 DEF Next
<1>2. IInv /\ IInv' /\ [Next]_vars =>
          \A e \in Events : e \notin unsent /\ refs[e] = 0 => refs'[e] = 0
  BY <1>1
<1> QED
  BY <1>2, IInvHolds, PTL DEF Spec

=============================================================================
