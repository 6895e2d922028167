------------------------------ MODULE Mailbox ------------------------------
(***************************************************************************)
(* What EventReceiver promises to the classes that are built on it: a      *)
(* bounded set of admissions, each of which is handled once or given up,   *)
(* and a sweep that leaves nothing of what it found.  Priorities, methods, *)
(* overflow policies, counters, threads and references are not seen here.  *)
(* EventReceiver is shown to implement it; EventThread, EventManager and   *)
(* EventTransportManager model their mailboxes by it.                      *)
(*                                                                         *)
(* An admission is the number it was given.                                *)
(***************************************************************************)
EXTENDS Integers, FiniteSets

VARIABLES
    maximum,   \* how many events may be held, 0 for any number
    issued,    \* number of admissions tried so far
    pending,   \* those that wait for a sweep
    taken,     \* those of the batch a sweep has in hand
    counted,   \* what that batch counts against the maximum, until it is done with
    handled,   \* those whose callback has begun
    gone,      \* those given up: evicted, failed, cleared, or left by a throw
    due,       \* of those pending, the ones the present sweep has found
    sweeping   \* "idle", "sweep", "unwind" after a callback has thrown

fates == <<handled, gone>>
batch == <<taken, counted>>
vars == <<maximum, issued, pending, fates, batch, due, sweeping>>

Init ==
    /\ maximum \in Nat
    /\ issued = 0
    /\ pending = {}
    /\ taken = {}
    /\ counted = 0
    /\ handled = {}
    /\ gone = {}
    /\ due = {}
    /\ sweeping = "idle"

HasRoom == maximum = 0 \/ Cardinality(pending) + counted < maximum

\* What goes to make room: nothing when there is room, one admission when there is not.
Victims == IF HasRoom THEN {{}} ELSE {{n} : n \in pending}

Admit ==
    /\ \E V \in Victims :
        /\ pending' = (pending \ V) \cup {issued}
        /\ gone' = gone \cup V
        /\ due' = due \ V
    /\ issued' = issued + 1
    /\ UNCHANGED <<maximum, handled, batch, sweeping>>

\* An admission that fails after room was made for it.
FailToAdmit ==
    /\ \E V \in Victims :
        /\ pending' = pending \ V
        /\ gone' = gone \cup V \cup {issued}
        /\ due' = due \ V
    /\ issued' = issued + 1
    /\ UNCHANGED <<maximum, handled, batch, sweeping>>

BeginSweep ==
    /\ sweeping = "idle"
    /\ sweeping' = "sweep"
    /\ due' = pending
    /\ UNCHANGED <<maximum, issued, pending, fates, batch>>

\* A batch is in hand from Take to FinishBatch.
Take ==
    /\ sweeping = "sweep"
    /\ counted = 0
    /\ \E S \in (SUBSET pending) \ {{}} :
        /\ taken' = S
        /\ counted' = Cardinality(S)
        /\ pending' = pending \ S
        /\ due' = due \ S
    /\ UNCHANGED <<maximum, issued, fates, sweeping>>

Running == taken \cap handled

BeginCallback ==
    /\ Running = {}
    /\ \E n \in taken : handled' = handled \cup {n}
    /\ UNCHANGED <<maximum, issued, pending, gone, batch, due, sweeping>>

EndCallback ==
    /\ Running # {}
    /\ taken' = taken \ Running
    /\ UNCHANGED <<maximum, issued, pending, fates, counted, due, sweeping>>

ThrowFromCallback ==
    /\ Running # {}
    /\ taken' = {}
    /\ gone' = gone \cup (taken \ Running)
    /\ sweeping' = "unwind"
    /\ UNCHANGED <<maximum, issued, pending, handled, counted, due>>

\* A sweep that was not thrown out of ends when nothing is due any more.
MayEnd == sweeping = "unwind" \/ due = {}

FinishBatch ==
    /\ counted # 0
    /\ taken = {}
    /\ counted' = 0
    /\ \/ sweeping = "sweep" /\ UNCHANGED <<due, sweeping>>
       \/ MayEnd /\ sweeping' = "idle" /\ due' = {}
    /\ UNCHANGED <<maximum, issued, pending, fates, taken>>

EndSweep ==
    /\ sweeping = "sweep"
    /\ counted = 0
    /\ MayEnd
    /\ sweeping' = "idle"
    /\ UNCHANGED <<maximum, issued, pending, fates, batch, due>>

Clear ==
    /\ pending' = {}
    /\ gone' = gone \cup pending
    /\ due' = {}
    /\ UNCHANGED <<maximum, issued, handled, batch, sweeping>>

SetMaximum ==
    /\ maximum' \in Nat
    /\ UNCHANGED <<issued, pending, fates, batch, due, sweeping>>

Next ==
    \/ Admit
    \/ FailToAdmit
    \/ BeginSweep
    \/ Take
    \/ BeginCallback
    \/ EndCallback
    \/ ThrowFromCallback
    \/ FinishBatch
    \/ EndSweep
    \/ Clear
    \/ SetMaximum

Spec == Init /\ [][Next]_vars

============================================================================
