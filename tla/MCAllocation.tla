---------------------------- MODULE MCAllocation ----------------------------
(* TLC instances of the allocation of a claim. *)
EXTENDS AllocationProperties, TLC

Symmetry == Permutations(Worker) \union Permutations(Arena)
=============================================================================
