-------------------------- MODULE MCVFSInstances --------------------------
(***************************************************************************)
(* VFSInstances for TLC: the threads, and the configurations of the hosts  *)
(* without a parent, are interchangeable.                                  *)
(***************************************************************************)
EXTENDS VFSInstances, TLC

Symmetry == Permutations(Threads) \cup Permutations(Roots)

=============================================================================
