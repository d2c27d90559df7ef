---------------------------- MODULE MCMemoization ----------------------------
(* Memoization on a small instance: one document type with one property. *)
EXTENDS Memoization

CONSTANTS p1

MCPropsOf == [d \in DocTypes |-> <<p1>>]
=============================================================================
