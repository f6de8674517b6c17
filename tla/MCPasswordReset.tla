-------------------------- MODULE MCPasswordReset --------------------------
(* Small instances of PasswordReset for TLC. *)
EXTENDS PasswordReset, TLC

CallSymmetry == Permutations(Requests) \union Permutations(Verifies)
                    \union Permutations(Codes)
=============================================================================
