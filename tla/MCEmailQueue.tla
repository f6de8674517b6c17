---------------------------- MODULE MCEmailQueue ----------------------------
(* A small instance of EmailQueue for TLC, and of NotifyManager, the other   *)
(* part that promises something will happen.  `part` says what moves: one of *)
(* the jobs, as two jobs share no state, or the scheduler.                   *)
EXTENDS EmailQueue, NotifyManager

CONSTANTS bulk, single, r1, r2

Recipients2 == [j \in Jobs |-> IF j \in Bulk THEN {r1, r2} ELSE {r1}]

VARIABLE part

MCInit == part \in Jobs \cup {"notify"} /\ Init /\ NotifyInit

MCNext ==
    \/ part \in Jobs /\ JobNext(part) /\ UNCHANGED <<part, notifyVars>>
    \/ part = "notify" /\ NotifyNext /\ UNCHANGED <<part, vars>>

MCSpec == MCInit /\ [][MCNext]_<<part, vars, notifyVars>> /\ Fairness /\ NotifyFairness

-----------------------------------------------------------------------------
(* Properties *)

(* The types of the email queue and of the scheduler: a job is started once  *)
(* per attempt and stall and once more at most; outside a batch no callback  *)
(* is left in the scheduler's queue, where nobody would come for it.         *)
BothTypeOK == TypeOK /\ NotifyTypeOK
=============================================================================
