--------------------------- MODULE MCEventThread ---------------------------
(* Instances of EventThread for TLC. *)
EXTENDS EventThread, TLC

CONSTANTS e1, e2, e3
============================================================================
