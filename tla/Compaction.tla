----------------------------- MODULE Compaction -----------------------------
(***************************************************************************)
(* std::remove_if and erase, as CompactLocked of                           *)
(* src/src/ESPressio_EventListener.hpp and of                              *)
(* src/src/ESPressio_EventDispatcher.hpp call them on their records: the   *)
(* active ones, in their order.  That is SelectSeq, which the provers do   *)
(* not know; here the k-th active record is the one up to which k are      *)
(* active.  MCEventListener compares the two.                              *)
(***************************************************************************)
EXTENDS Integers, Sequences, FiniteSets

ActiveIn(s) == {i \in DOMAIN s : s[i].active}

ActiveUpTo(s, i) == {j \in ActiveIn(s) : j <= i}

\* Where the k-th active record of s is.
NthActive(s, k) == CHOOSE i \in ActiveIn(s) : Cardinality(ActiveUpTo(s, i)) = k

Compact(s) == [k \in 1 .. Cardinality(ActiveIn(s)) |-> s[NthActive(s, k)]]

=============================================================================
