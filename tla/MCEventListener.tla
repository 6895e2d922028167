-------------------------- MODULE MCEventListener --------------------------
(***************************************************************************)
(* Instances of EventListener: two registrations for one event type and    *)
(* one for another, a delivering thread w and a client thread c.           *)
(***************************************************************************)
EXTENDS EventListener, TLC

CONSTANTS w, c, h1, h2, h3, tick, alarm

TwoTypes == (h1 :> tick) @@ (h2 :> tick) @@ (h3 :> alarm)

OneType == (h1 :> tick) @@ (h2 :> tick)

\* What Compact counts out is what a walk over the records selects.
ASSUME CompactSelects ==
    \A s \in UNION {[1 .. n -> [handle : {h1, h2, h3}, active : BOOLEAN]] : n \in 0 .. 4} :
        Compact(s) = SelectSeq(s, LAMBDA r : r.active)

Alike == Permutations({h1, h2})
============================================================================
