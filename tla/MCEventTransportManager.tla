---------------------- MODULE MCEventTransportManager ----------------------
(* Instances of EventTransportManager for TLC. *)
EXTENDS EventTransportManager, TLC

CONSTANTS e1, r1, t1

============================================================================
