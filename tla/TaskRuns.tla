-------------------------------- MODULE TaskRuns --------------------------------
(***************************************************************************)
(* What becomes of a job of a task: TaskConsumer.handle calls the service  *)
(* the task names and logs how that went.  Whether the service is a        *)
(* mission is checked when the task is saved and again at every run: a new *)
(* version of the program may not have it any more.  The second log entry, *)
(* of status 0, is written when the service or the first entry fails.      *)
(***************************************************************************)
EXTENDS Integers, FiniteSets

CONSTANTS
    Tasks,
    Jobs,       \* each is run, and run again when its worker died; or two of them are
                \* the runs of one job whose worker lost its lock
    Services    \* "Service.method" as a task names it

VARIABLES
    provided,   \* what this version of the program has of each service
    serviceOf,  \* the rows of sys_task: the service of a task
    job,        \* the jobs, see NoJob
    taskLog     \* the rows of sys_task_log

runVars == <<provided, serviceOf, job, taskLog>>

\* A mission; a provider that is none; no such provider, or method.
Provisions == {"mission", "plain", "absent"}

NoService == "none"

ASSUME ServicesAssumption == NoService \notin Services

\* calls: how often the method was called; returned: how often it did; rows: what was
\* logged; trouble: a write was refused, or lost its answer.
NoJob == [pc |-> "idle", task |-> "none", service |-> NoService, calls |-> 0, returned |-> 0,
          rows |-> <<0, 0>>, trouble |-> FALSE, stalled |-> FALSE]

RunInit ==
    /\ provided = [s \in Services |-> "mission"]
    /\ serviceOf = [t \in Tasks |-> NoService]
    /\ job = [j \in Jobs |-> NoJob]
    /\ taskLog = {}

To(j, pc) == job' = [job EXCEPT ![j].pc = pc]

\* checkHasMissionMeta
IsMission(s) == provided[s] = "mission"

-----------------------------------------------------------------------------
(* TaskController.create and update, delete; the queue; a new version *)

SaveTask(t, s) ==
    /\ IsMission(s)
    /\ serviceOf' = [serviceOf EXCEPT ![t] = s]
    /\ UNCHANGED <<provided, job, taskLog>>

\* Refused while the task has logs.
DropTask(t) ==
    /\ serviceOf[t] # NoService
    /\ \A row \in taskLog : row.task # t
    /\ serviceOf' = [serviceOf EXCEPT ![t] = NoService]
    /\ UNCHANGED <<provided, job, taskLog>>

\* The job keeps the service the task had when it was added.
AddJob(j, t) ==
    /\ job[j].pc = "idle" /\ serviceOf[t] # NoService
    /\ job' = [job EXCEPT ![j] = [NoJob EXCEPT !.pc = "queued", !.task = t, !.service = serviceOf[t]]]
    /\ UNCHANGED <<provided, serviceOf, taskLog>>

Deploy(s, p) ==
    /\ provided[s] # p
    /\ provided' = [provided EXCEPT ![s] = p]
    /\ UNCHANGED <<serviceOf, job, taskLog>>

-----------------------------------------------------------------------------
(* TaskConsumer.handle *)

\* callService: split, get, checkHasMissionMeta, call; anything else throws.
CallService(j) ==
    LET s == job[j].service
    IN  /\ job[j].pc = "queued"
        /\ job' = IF IsMission(s)
                  THEN [job EXCEPT ![j].pc = "method", ![j].calls = @ + 1]
                  ELSE [job EXCEPT ![j].pc = "logFailure"]
        /\ UNCHANGED <<provided, serviceOf, taskLog>>

\* HttpRequestJob.handle and EmailJob.send return what they were told, or throw.
Returned(j) ==
    /\ job[j].pc = "method"
    /\ job' = [job EXCEPT ![j].pc = "logSuccess", ![j].returned = @ + 1]
    /\ UNCHANGED <<provided, serviceOf>>

Returns(j) == Returned(j) /\ UNCHANGED taskLog

\* LogClearJob.clearTaskLog
ClearsTaskLog(j) == Returned(j) /\ taskLog' = {}

Throws(j) ==
    /\ job[j].pc = "method"
    /\ To(j, "logFailure")
    /\ UNCHANGED <<provided, serviceOf, taskLog>>

\* taskLogService.create refers to the task's row.
Referred(j) == serviceOf[job[j].task] # NoService

WriteRow(j, status, pc) ==
    /\ Referred(j)
    /\ taskLog' = taskLog \union {[job |-> j, task |-> job[j].task, status |-> status]}
    /\ job' = [job EXCEPT ![j].pc = pc, ![j].rows[status + 1] = @ + 1,
                          ![j].trouble = @ \/ pc \notin {"completed"}]
    /\ UNCHANGED <<provided, serviceOf>>

WriteRefused(j, pc) ==
    /\ job' = [job EXCEPT ![j].pc = pc, ![j].trouble = TRUE]
    /\ UNCHANGED <<provided, serviceOf, taskLog>>

\* Inside the try: what goes wrong with the first entry is logged by the second.
LogSuccess(j) ==
    /\ job[j].pc = "logSuccess"
    /\ WriteRow(j, 1, "completed") \/ WriteRow(j, 1, "logFailure") \/ WriteRefused(j, "logFailure")

\* Inside the catch: what goes wrong fails the job.
SuccessStatus == 1
CatchStatus == 0

LogFailure(j) ==
    /\ job[j].pc = "logFailure"
    /\ \/ WriteRow(j, CatchStatus, "completed") \/ WriteRow(j, CatchStatus, "failed")
       \/ WriteRefused(j, "failed")

\* The worker dies; Bull hands the job out once more.
Stall(j) ==
    /\ job[j].pc \in {"queued", "method", "logSuccess", "logFailure"} /\ ~job[j].stalled
    /\ job' = [job EXCEPT ![j].pc = "queued", ![j].stalled = TRUE]
    /\ UNCHANGED <<provided, serviceOf, taskLog>>

\* The worker lives but could not renew its lock: the job is run again, as k, beside it.
LockLost(j, k) ==
    /\ job[j].pc \in {"method", "logSuccess", "logFailure"} /\ ~job[j].stalled
    /\ job[k].pc = "idle"
    /\ job' = [job EXCEPT ![j].stalled = TRUE,
                          ![k] = [NoJob EXCEPT !.pc = "queued", !.task = job[j].task,
                                               !.service = job[j].service, !.stalled = TRUE]]
    /\ UNCHANGED <<provided, serviceOf, taskLog>>

RunNext ==
    \/ \E t \in Tasks : DropTask(t) \/ (\E s \in Services : SaveTask(t, s)) \/ (\E j \in Jobs : AddJob(j, t))
    \/ \E s \in Services, p \in Provisions : Deploy(s, p)
    \/ \E j \in Jobs : CallService(j) \/ Returns(j) \/ ClearsTaskLog(j) \/ Throws(j)
                       \/ LogSuccess(j) \/ LogFailure(j) \/ Stall(j)
                       \/ \E k \in Jobs : LockLost(j, k)

RunSpec == RunInit /\ [][RunNext]_runVars

-----------------------------------------------------------------------------
(* Properties *)

RunTypeOK ==
    /\ provided \in [Services -> Provisions]
    /\ serviceOf \in [Tasks -> Services \union {NoService}]
    /\ \A j \in Jobs :
         /\ job[j].pc \in {"idle", "queued", "method", "logSuccess", "logFailure", "completed", "failed"}
         /\ job[j].calls \in 0..2 /\ job[j].returned \in 0..job[j].calls
    /\ \A row \in taskLog : row.job \in Jobs /\ serviceOf[row.task] # NoService

(* The log of the tasks can be trusted: "success" is logged only of a       *)
(* service that returned, and of a completed job one entry, that of its     *)
(* outcome, but for a log entry that met with trouble or a job run twice.   *)
RunsAreLogged ==
    \A j \in Jobs :
        /\ job[j].rows[2] <= job[j].returned
        /\ job[j].pc = "completed" /\ ~job[j].trouble /\ ~job[j].stalled
             => job[j].rows = IF job[j].returned = 1 THEN <<0, 1>> ELSE <<1, 0>>

=============================================================================
