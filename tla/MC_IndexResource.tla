-------------------------- MODULE MC_IndexResource --------------------------
(* IndexResource for TLC: the index of the entry and one that a rollover     *)
(* made.                                                                     *)
EXTENDS IndexResource, TLC

Symmetric == Permutations(Indices)
=============================================================================
