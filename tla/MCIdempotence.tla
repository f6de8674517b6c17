--------------------------- MODULE MCIdempotence ---------------------------
(* Small instances of Idempotence for TLC. *)
EXTENDS Idempotence, TLC

RequestSymmetry == Permutations(Requests)
=============================================================================
