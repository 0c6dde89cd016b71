------------------------------- MODULE Selections -------------------------------
(***************************************************************************)
(* Part of a sequence, in the order it has there: what a comprehension     *)
(* with a condition and a loop that skips elements keep.                   *)
(***************************************************************************)
EXTENDS Integers, FiniteSets

\* Some of the places of a sequence, from the first to the last.
Ascending(places) ==
  [k \in 1 .. Cardinality(places) |->
     CHOOSE x \in places : Cardinality({y \in places : y < x}) = k - 1]

\* The elements of s at these places.
Chosen(s, places) == LET order == Ascending(places) IN [k \in DOMAIN order |-> s[order[k]]]
================================================================================
