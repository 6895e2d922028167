---------------------- MODULE MCEventTransportRouting ----------------------
(* Instances of EventTransportRouting for TLC. *)
EXTENDS EventTransportRouting, TLC

CONSTANTS a1, a2, A, B, t1

\* Threads are interchangeable, and so are types, none of which is in Runtime.
ActorTypeSymmetry ==
    {f @@ g : f \in Permutations({a1, a2}), g \in Permutations({A, B})}

============================================================================
