------------------------------- MODULE MCRbac -------------------------------
(* Small instances of Rbac for TLC. *)
EXTENDS Rbac, TLC

CallSymmetry == Permutations(Users) \union Permutations(Handlers)
=============================================================================
