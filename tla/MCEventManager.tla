--------------------------- MODULE MCEventManager ---------------------------
(* Instances of EventManager for TLC. *)
EXTENDS EventManager, TLC

CONSTANTS A, r1, r2, e1, e2

OfTypeA == [e \in {e1, e2} |-> A]

============================================================================
