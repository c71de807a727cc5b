---------------------------- MODULE MCUserCache ----------------------------
(* UserCache with its symmetry, for TLC.                                   *)
EXTENDS UserCache, TLC

Symmetry == Permutations(Users) \cup Permutations(Requests)
=============================================================================
