---------------------------- MODULE MC_MLModel ----------------------------
(* Instances of MLModel for TLC. *)
EXTENDS MLModel, TLC

CONSTANTS m1, m2
MCIds == {m1, m2}
MCOneId == {m1}
Symmetry == Permutations(MCIds)
=============================================================================
