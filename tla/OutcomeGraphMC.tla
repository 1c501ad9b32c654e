--------------------------- MODULE OutcomeGraphMC ---------------------------
(***************************************************************************)
(* Model checking of OutcomeGraph: work items are interchangeable.         *)
(***************************************************************************)
EXTENDS OutcomeGraph, TLC

WorkSymmetry == Permutations(Works)
=============================================================================
