------------------------ MODULE MC_PolicyVersioning ------------------------
(* Instances of PolicyVersioning for TLC. *)
EXTENDS PolicyVersioning, TLC

CONSTANTS a1, a2, b1, b2
MCTwoActors == {a1, a2}
MCOneActor  == {a1}
MCBodies    == {b1, b2}
Symmetry    == Permutations(MCTwoActors) \cup Permutations(MCBodies)
=============================================================================
