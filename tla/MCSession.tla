----------------------------- MODULE MCSession -----------------------------
(* Small instances of Session for TLC. *)
EXTENDS Session, TLC

\* Calls of one kind are interchangeable.
CallSymmetry ==
    Permutations(Logins) \union Permutations(Requests)
        \union Permutations(Changes) \union Permutations(Admins)
=============================================================================
