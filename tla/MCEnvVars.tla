---------------------------- MODULE MCEnvVars ----------------------------
EXTENDS EnvVars, TLC

(* No definition tells one name from another, nor, without admins, users. *)
Symmetry == Permutations(Keys) \cup Permutations(Users)
=============================================================================
