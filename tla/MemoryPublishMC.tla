-------------------------- MODULE MemoryPublishMC --------------------------
(***************************************************************************)
(* MemoryPublish with three operations, which are as alike as the entries  *)
(* and the processes are: no definition names or orders one of them.       *)
(***************************************************************************)
EXTENDS MemoryPublish

Symmetry == Permutations(Ops) \cup Permutations(Entries) \cup Permutations(Procs)
=============================================================================
