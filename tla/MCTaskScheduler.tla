-------------------------- MODULE MCTaskScheduler --------------------------
(* Small instances of TaskScheduler for TLC. *)
EXTENDS TaskScheduler, TLC

CONSTANTS every1, every2

\* One schedule without a limit, one of two runs.
Period2 == (every1 :> 1) @@ (every2 :> 2)
Runs2 == (every1 :> 0) @@ (every2 :> 1)

\* Calls and starts of a process in one history: four, and one call at most when a start
\* overlapped with another call or one died.
Begun == {t \in Calls \union Boots : thread[t].pc # "idle"}
Explored == Cardinality(Begun) <= 4 /\ (Undisturbed \/ Cardinality(Begun \ Boots) <= 1)

CallSymmetry == Permutations(Calls) \union Permutations(Boots) \union Permutations(Workers)
=============================================================================
