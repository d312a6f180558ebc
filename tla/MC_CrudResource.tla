-------------------------- MODULE MC_CrudResource --------------------------
(* Instances of CrudResource for TLC. *)
EXTENDS CrudResource, TLC

CONSTANTS name, i2, i3, b1, b2
MCIds    == {name, i2, i3}
MCBodies == {b1, b2}
Symmetry == Permutations({i2, i3}) \cup Permutations(MCBodies)
=============================================================================
