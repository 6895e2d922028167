----------------------------- MODULE Multicast -----------------------------
(***************************************************************************)
(* What EventListener promises its listeners and EventDispatcher its       *)
(* receivers: an event goes, once, to each member of its topic that was    *)
(* there when its delivery began and has not left since, and to nobody     *)
(* else.  Records, indices, compaction, handles and routes are not seen    *)
(* here.  A member that has been taken is served though it leaves before;  *)
(* whoever comes, or comes back, waits for the next event.                 *)
(***************************************************************************)
CONSTANTS
    Members,   \* who may be registered
    Topics,
    TopicOf,   \* function: the topic each member is registered for
    Couriers   \* who delivers events

VARIABLES
    members,   \* those registered at present
    due,       \* by courier: the members its event has still to go to
    inHand,    \* by courier: the member that is being served, at most one
    progress   \* by courier: "idle", "delivering", "failed"

round == <<due, inHand, progress>>
vars == <<members, round>>

Init ==
    /\ members = {}
    /\ due = [c \in Couriers |-> {}]
    /\ inHand = [c \in Couriers |-> {}]
    /\ progress = [c \in Couriers |-> "idle"]

Join(m) ==
    /\ m \notin members
    /\ members' = members \cup {m}
    /\ UNCHANGED round

\* Some members leave, and no delivery that has not taken them owes them anything.
Leave(S) ==
    /\ members' = members \ S
    /\ due' = [c \in Couriers |-> due[c] \ S]
    /\ UNCHANGED <<inHand, progress>>

Begin(c, topic) ==
    /\ progress[c] = "idle"
    /\ progress' = [progress EXCEPT ![c] = "delivering"]
    /\ due' = [due EXCEPT ![c] = {m \in members : TopicOf[m] = topic}]
    /\ UNCHANGED <<members, inHand>>

Take(c, m) ==
    /\ progress[c] = "delivering"
    /\ inHand[c] = {}
    /\ m \in due[c]
    /\ inHand' = [inHand EXCEPT ![c] = {m}]
    /\ due' = [due EXCEPT ![c] = due[c] \ {m}]
    /\ UNCHANGED <<members, progress>>

Serve(c) ==
    /\ inHand[c] # {}
    /\ inHand' = [inHand EXCEPT ![c] = {}]
    /\ UNCHANGED <<members, due, progress>>

\* The member throws: those that are due still get nothing.
Fail(c) ==
    /\ inHand[c] # {}
    /\ inHand' = [inHand EXCEPT ![c] = {}]
    /\ due' = [due EXCEPT ![c] = {}]
    /\ progress' = [progress EXCEPT ![c] = "failed"]
    /\ UNCHANGED members

\* Only with nobody due any more.
End(c) ==
    /\ progress[c] # "idle"
    /\ inHand[c] = {}
    /\ due[c] = {}
    /\ progress' = [progress EXCEPT ![c] = "idle"]
    /\ UNCHANGED <<members, due, inHand>>

Next ==
    \/ \E S \in SUBSET members : Leave(S)
    \/ \E m \in Members : Join(m)
    \/ \E c \in Couriers :
        \/ \E topic \in Topics : Begin(c, topic)
        \/ \E m \in Members : Take(c, m)
        \/ Serve(c)
        \/ Fail(c)
        \/ End(c)

Spec == Init /\ [][Next]_vars

============================================================================
