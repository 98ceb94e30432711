------------------------------- MODULE InOrder --------------------------------
(* A part of a sequence, in the order of the whole: what a `filter` and a      *)
(* `collect` leave (auction_tick of obc-fleet, evaluate of obc-reflex, the poll *)
(* of obc-vision, the facts boot_snapshot reads).                              *)
EXTENDS Integers, FiniteSets

\* The indices in a set, in order.
Ascending(is) ==
  {r \in [1 .. Cardinality(is) -> is] : \A i, j \in DOMAIN r : i < j => r[i] < r[j]}
===============================================================================
