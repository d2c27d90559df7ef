------------------------------- MODULE MCDSL -------------------------------
(* Trees of fluent queries of up to MaxSteps steps; the connections are      *)
(* interchangeable.                                                          *)
EXTENDS DSL, TLC

MCSymmetry == Permutations(Conns)
=============================================================================
