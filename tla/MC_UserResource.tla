--------------------------- MODULE MC_UserResource ---------------------------
(* UserResource for TLC: two names suffice for a rename, two profiles and    *)
(* two passwords for an update of the one without the other.                 *)
EXTENDS UserResource, TLC

Symmetric == Permutations(Names) \cup Permutations(Profiles) \cup Permutations(Passwords)
=============================================================================
