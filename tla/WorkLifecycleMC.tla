-------------------------- MODULE WorkLifecycleMC --------------------------
(***************************************************************************)
(* WorkLifecycle for model checking: sessions and attempt identifiers are  *)
(* interchangeable.                                                        *)
(***************************************************************************)
EXTENDS WorkLifecycle, TLC

Symmetry == Permutations(Sessions) \cup Permutations(AttemptIds)
=============================================================================
