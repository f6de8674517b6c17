---------------------------- MODULE MailDelivery ----------------------------
(***************************************************************************)
(* What the email queue promises of a job: every recipient it reports as   *)
(* served was served at least once, a job ends completed or failed and     *)
(* stays so, and every job ends.  How often a recipient was served, and in *)
(* which attempt, is not said.                                             *)
(***************************************************************************)
CONSTANTS Jobs, To    \* To[j]: the recipients of job j

VARIABLES
    status,    \* "none", "pending", "completed", "failed"
    got        \* the recipients served so far

vars == <<status, got>>

Init ==
    /\ status = [j \in Jobs |-> "none"]
    /\ got = [j \in Jobs |-> {}]

Submit(j) ==
    /\ status[j] = "none"
    /\ status' = [status EXCEPT ![j] = "pending"]
    /\ UNCHANGED got

\* An attempt that was given up may still serve somebody after the job ended.
Deliver(j, r) ==
    /\ status[j] # "none"
    /\ r \in To[j]
    /\ got' = [got EXCEPT ![j] = @ \union {r}]
    /\ UNCHANGED status

Complete(j) ==
    /\ status[j] = "pending"
    /\ got[j] = To[j]
    /\ status' = [status EXCEPT ![j] = "completed"]
    /\ UNCHANGED got

Fail(j) ==
    /\ status[j] = "pending"
    /\ status' = [status EXCEPT ![j] = "failed"]
    /\ UNCHANGED got

End(j) == Complete(j) \/ Fail(j)

Next == \E j \in Jobs : Submit(j) \/ End(j) \/ \E r \in To[j] : Deliver(j, r)

Safety == Init /\ [][Next]_vars
Spec == Safety /\ \A j \in Jobs : WF_vars(End(j))

=============================================================================
