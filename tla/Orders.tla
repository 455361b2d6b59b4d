-------------------------------- MODULE Orders --------------------------------
(***************************************************************************)
(* The elements of a finite set in an order: what an ORDER BY or a sorted  *)
(* call gives.  Each element stands where as many come before it.          *)
(***************************************************************************)
EXTENDS Integers, FiniteSets

Ordered(S, Before(_, _)) ==
  [i \in 1..Cardinality(S) |->
     CHOOSE x \in S : Cardinality({y \in S : Before(y, x)}) = i - 1]
===============================================================================
