----------------------------- MODULE EmailQueue -----------------------------
(***************************************************************************)
(* The Bull queue of emails: EmailQueueService adds jobs,                  *)
(* EmailQueueProcessor runs their handlers, and Bull (external) retries    *)
(* them: three attempts with a backoff, a job timeout for bulk emails, and *)
(* a job whose lock ran out is stalled and put back once, whether its      *)
(* worker died or lives and could not renew the lock.  Bull does not       *)
(* cancel a handler: one that timed out, or lost its lock, goes on beside  *)
(* the next invocation.                                                    *)
(***************************************************************************)
EXTENDS Integers, FiniteSets

CONSTANTS
    Jobs,          \* the jobs that may be queued
    To,            \* the recipients the handler of each job writes to: those of
                   \* the job, and none for handleSendTemplate, a stub
    Bulk,          \* the jobs queued by queueBulkEmail, with a timeout
    MaxAttempts,   \* getDefaultJobOptions: attempts
    MaxStalled     \* Bull's maxStalledCount

ASSUME QueueAssumption ==
    /\ Bulk \subseteq Jobs
    /\ MaxAttempts \in Nat \ {0} /\ MaxStalled \in Nat

VARIABLES
    job,     \* the jobs as Bull has them
    run,     \* the invocations of their handlers
    sent     \* how often the mail server accepted each email

vars == <<job, run, sent>>

\* Every invocation but the last ends in a failed attempt or a stall.
Invocations == 1 .. MaxAttempts + MaxStalled
Recipients == UNION {To[j] : j \in Jobs}

\* made: attemptsMade; stalls: stalledCounter; started: invocations so far.
NewJob == [state |-> "none", made |-> 0, stalls |-> 0, started |-> 0]
NoRun == [pc |-> "none", todo |-> {}, failed |-> FALSE]
Over(pc) == [NoRun EXCEPT !.pc = pc]

Init ==
    /\ job = [j \in Jobs |-> NewJob]
    /\ run = [j \in Jobs |-> [n \in Invocations |-> NoRun]]
    /\ sent = [j \in Jobs |-> [r \in To[j] |-> 0]]

Running(j, n) == run[j][n].pc = "running"
Current(j, n) == job[j].state = "active" /\ job[j].started = n
JobGoto(j, state) == job' = [job EXCEPT ![j].state = state]

-----------------------------------------------------------------------------
(* EmailQueueService.queue...: emailQueue.add *)

Add(j) ==
    /\ job[j].state = "none"
    /\ JobGoto(j, "waiting")
    /\ UNCHANGED <<run, sent>>

(* Bull takes a job from the wait list and calls its handler.                *)
Take(j) ==
    LET n == job[j].started + 1
    IN  /\ job[j].state = "waiting"
        /\ job' = [job EXCEPT ![j].state = "active", ![j].started = n]
        /\ run' = [run EXCEPT ![j][n] =
                      [pc |-> "running", todo |-> To[j], failed |-> FALSE]]
        /\ UNCHANGED sent

(* EmailQueueProcessor: each recipient in turn; an error is noted, and the   *)
(* loop of a bulk email goes on.                                             *)
NotAdvanced(todo, r) == todo
Advanced(todo, r) == todo \ {r}

SendOk(j, n, r) ==
    /\ Running(j, n) /\ r \in run[j][n].todo
    /\ sent' = [sent EXCEPT ![j][r] = @ + 1]
    /\ run' = [run EXCEPT ![j][n].todo = Advanced(@, r)]
    /\ UNCHANGED job

\* sendMail rejects; the server may have accepted the email all the same.
ErrorIgnored == FALSE
ErrorNoted == TRUE

SendFail(j, n, r) ==
    /\ Running(j, n) /\ r \in run[j][n].todo
    /\ \/ UNCHANGED sent
       \/ sent' = [sent EXCEPT ![j][r] = @ + 1]
    /\ run' = [run EXCEPT ![j][n].todo = Advanced(@, r), ![j][n].failed = ErrorNoted]
    /\ UNCHANGED job

(* The handler returns or throws; Bull looks at it only if it still waits.   *)
AttemptKept(j) == job[j].made
AttemptMade(j) == job[j].made + 1

AttemptFailed(j) ==
    LET made == AttemptMade(j)
    IN  job' = [job EXCEPT ![j].made = made,
                           ![j].state = IF made < MaxAttempts THEN "delayed" ELSE "failed"]

Return(j, n) ==
    /\ Running(j, n) /\ run[j][n].todo = {}
    /\ run' = [run EXCEPT ![j][n] = Over("ended")]
    /\ IF ~Current(j, n) THEN UNCHANGED job
       ELSE IF run[j][n].failed THEN AttemptFailed(j) ELSE JobGoto(j, "completed")
    /\ UNCHANGED sent

(* Bull: the timeout of a job, the end of its backoff, a worker that died,   *)
(* and the check for stalled jobs, which finds those whose lock ran out: of  *)
(* a dead worker, or of a live one whose event loop was blocked or which did *)
(* not reach Redis in time.                                                  *)
AnyTimed(j) == TRUE
Timed(j) == j \in Bulk

TimeOut(j) ==
    /\ Timed(j)
    /\ \E n \in Invocations : Current(j, n) /\ Running(j, n)
    /\ AttemptFailed(j)
    /\ UNCHANGED <<run, sent>>

Backoff(j) ==
    /\ job[j].state = "delayed"
    /\ JobGoto(j, "waiting")
    /\ UNCHANGED <<run, sent>>

Crash(j, n) ==
    /\ Running(j, n)
    /\ run' = [run EXCEPT ![j][n] = Over("dead")]
    /\ UNCHANGED <<job, sent>>

PutBack(j) ==
    job' = [job EXCEPT ![j].stalls = @ + 1,
                       ![j].state = IF job[j].stalls < MaxStalled THEN "waiting" ELSE "failed"]

Stalled(j) ==
    /\ \E n \in Invocations : Current(j, n) /\ run[j][n].pc = "dead"
    /\ PutBack(j)
    /\ UNCHANGED <<run, sent>>

LockLost(j) ==
    /\ \E n \in Invocations : Current(j, n) /\ Running(j, n)
    /\ PutBack(j)
    /\ UNCHANGED <<run, sent>>

-----------------------------------------------------------------------------

Send(j, n) == \E r \in run[j][n].todo : SendOk(j, n, r) \/ SendFail(j, n, r)
Handle(j, n) == Send(j, n) \/ Return(j, n)
Manage(j) == Take(j) \/ Backoff(j) \/ Stalled(j)

\* Two jobs share nothing but the mail server.
JobNext(j) ==
    \/ Add(j) \/ Manage(j) \/ TimeOut(j) \/ LockLost(j)
    \/ \E n \in Invocations : Handle(j, n) \/ Crash(j, n)

Next == \E j \in Jobs : JobNext(j)

\* Bull polls its lists, and the mail client gives every send an answer in the
\* end (nodemailer has connection and socket timeouts).
Fairness ==
    \A j \in Jobs :
        /\ WF_vars(Manage(j))
        /\ \A n \in Invocations : WF_vars(Handle(j, n))

Spec == Init /\ [][Next]_vars /\ Fairness

-----------------------------------------------------------------------------
(* Properties *)

JobState == [state : {"none", "waiting", "active", "delayed", "completed", "failed"},
             made : 0 .. MaxAttempts, stalls : 0 .. MaxStalled + 1,
             started : 0 .. MaxAttempts + MaxStalled]
RunState == [pc : {"none", "running", "ended", "dead"}, todo : SUBSET Recipients,
             failed : BOOLEAN]

(* Types; an invocation more than the failed attempts and stalls is never    *)
(* started, so no job is tried more often than attempts and stalls allow.    *)
TypeOK ==
    /\ job \in [Jobs -> JobState]
    /\ run \in [Jobs -> [Invocations -> RunState]]
    /\ \A j \in Jobs :
          /\ sent[j] \in [To[j] -> Nat]
          /\ job[j].started <= job[j].made + job[j].stalls + 1

(* Nobody gets an email twice unless an attempt at the job failed, was timed *)
(* out or stalled in between, and then at most once more for each: a retry   *)
(* of a bulk job sends it again to those who had it.                         *)
DuplicatesHaveCause ==
    \A j \in Jobs : \A r \in To[j] : sent[j][r] <= job[j].made + job[j].stalls + 1

(* More than one invocation of the handler of a job runs at a time only if   *)
(* the job lost its lock, once for each one too many, or is a bulk email     *)
(* that timed out: an attempt at a single email that fails has ended its     *)
(* handler before the retry starts.                                          *)
OverlapHasCause ==
    \A j \in Jobs :
        Cardinality({n \in Invocations : Running(j, n)})
            <= 1 + job[j].stalls + (IF j \in Bulk THEN job[j].made ELSE 0)

(* The queue implements MailDelivery: a completed job reached everyone, an   *)
(* ended one stays ended, and every job that was added ends.                 *)
statusOf ==
    [j \in Jobs |-> CASE job[j].state = "none" -> "none"
                      [] job[j].state \in {"waiting", "active", "delayed"} -> "pending"
                      [] OTHER -> job[j].state]
gotOf == [j \in Jobs |-> {r \in To[j] : sent[j][r] > 0}]

Delivery == INSTANCE MailDelivery WITH status <- statusOf, got <- gotOf
ImplementsDelivery == Delivery!Spec

=============================================================================
