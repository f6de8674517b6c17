---------------------------- MODULE TaskScheduler ----------------------------
(***************************************************************************)
(* One scheduled task: its row in sys_task, the repeatable jobs Bull       *)
(* (external) keeps for it, the jobs queued for it, and the calls of       *)
(* TaskService on it.  A call is a chain of awaits with no lock:           *)
(*                                                                         *)
(*   create, update    write the row, read it back, then start or stop     *)
(*   stop              any repeatable?  list the jobs; remove them and the *)
(*                     repeatable of the job options it read; disable      *)
(*   start             stop, add a repeatable, save its options and enable *)
(*   delete            stop, then delete the row                           *)
(*   initTask          at the start of a process, under a lock in Redis:   *)
(*                     remove all jobs, start the enabled task             *)
(*   updateTaskCompleteStatus   after a job: stop a task that is over      *)
(*                                                                         *)
(* A schedule is what makes a repeatable job's key in Bull: the task's id  *)
(* with its cron expression or period and its end date.                    *)
(***************************************************************************)
EXTENDS Integers, FiniteSets

CONSTANTS
    Schedules,   \* the schedules the task may be given
    Period,      \* Period[s]: time between two runs
    Runs,        \* Runs[s]: its limit, 0 for none
    Calls,       \* API calls, each used at most once
    Boots,       \* starts of a process, each used at most once
    Workers,     \* the queue's consumers, one per process
    MaxNow       \* bound of the clock

None == "none"

ASSUME ScheduleAssumption ==
    /\ None \notin Schedules \union Boots
    /\ Period \in [Schedules -> Nat \ {0}] /\ Runs \in [Schedules -> Nat]
    /\ Calls \intersect Boots = {} /\ Calls \intersect Workers = {}
    /\ Boots \intersect Workers = {} /\ MaxNow \in Nat

VARIABLES
    now,       \* the clock
    row,       \* the row of the task: its schedule, status and jobOpts
    logged,    \* sys_task_log has a row of the task
    repeat,    \* Bull: the repeatable jobs of the task, with the next run
    queue,     \* Bull: the jobs waiting or delayed
    lock,      \* the key system:sys:task:init: the process that set it
    thread,    \* the calls, and the completion check of each worker
    active,    \* the job each worker runs, or NoJob
    raced,     \* history: a call that starts the task overlapped with another
    crashed    \* history: a process died during a call

vars == <<now, row, logged, repeat, queue, lock, thread, active, raced, crashed>>
bull == <<repeat, queue>>
histories == <<raced, crashed>>

Threads == Calls \union Boots \union Workers

\* n: which run of its schedule a job is; manual runs are no run of any.
NoJob == [s |-> None, at |-> 0, n |-> 0]
Once == [s |-> None, at |-> 0, n |-> 1]

NoRow == [here |-> FALSE, s |-> None, status |-> 0, opts |-> None]

\* then: what the call does with the task; s, opts: of the entity it read;
\* jobs: those it listed.
Idle == [pc |-> "idle", then |-> "stop", s |-> None, opts |-> None, jobs |-> {}]

Init ==
    /\ now = 0
    /\ row = NoRow
    /\ logged = FALSE
    /\ repeat = [s \in Schedules |-> [on |-> FALSE, next |-> 0]]
    /\ queue = {}
    /\ lock = None
    /\ thread = [t \in Threads |-> Idle]
    /\ active = [w \in Workers |-> NoJob]
    /\ raced = FALSE /\ crashed = FALSE

Resting == {"idle", "completed", "find", "done", "failed", "stuck", "dead"}
Busy(t) == thread[t].pc \notin Resting
Starter(t) == thread[t].then \in {"start", "boot"}

Goto(t, pc) == thread' = [thread EXCEPT ![t].pc = pc]

\* t begins to do what then says.
Begin(t, pc, then) ==
    /\ thread' = [thread EXCEPT ![t] = [pc |-> pc, then |-> then, s |-> row.s,
                                        opts |-> row.opts, jobs |-> {}]]
    /\ raced' = (raced \/ \E u \in Threads \ {t} :
                              Busy(u) /\ (Starter(u) \/ then \in {"start", "boot"}))

Tick ==
    /\ now < MaxNow
    /\ now' = now + 1
    /\ UNCHANGED <<row, logged, bull, lock, thread, active, histories>>

-----------------------------------------------------------------------------
(* TaskController: the routes.  A status that update is not given stays.   *)

Write(c, s, status, pc) ==
    /\ thread[c].pc = "idle"
    /\ row' = [here |-> TRUE, s |-> s, status |-> status, opts |-> row.opts]
    /\ Begin(c, pc, IF status = 1 THEN "start" ELSE "stop")
    /\ UNCHANGED <<now, logged, bull, lock, active, crashed>>

Create(c, s, status) == row = NoRow /\ Write(c, s, status, "info")
Update(c, s, status) == row.here /\ Write(c, s, status, "reread")

Route(c, then) ==
    /\ thread[c].pc = "idle"
    /\ then \in {"start", "stop", "delete", "once"}
    /\ Begin(c, "info", then)
    /\ UNCHANGED <<now, row, logged, bull, lock, active, crashed>>

\* info: the entity the call goes on with; update looks at its status now, create
\* at the one it saved.
Reread(c) == thread[c].pc = "reread"
ByStatus == IF row.status = 1 THEN "start" ELSE "stop"

Info(c) ==
    LET then == IF Reread(c) THEN ByStatus ELSE thread[c].then
        pc == IF ~row.here THEN "failed" ELSE IF then = "once" THEN "once" ELSE "exist"
    IN  /\ Reread(c) \/ thread[c].pc = "info"
        /\ thread' = [thread EXCEPT ![c] = [Idle EXCEPT !.pc = pc, !.then = then,
                                                       !.s = row.s, !.opts = row.opts]]
        /\ UNCHANGED <<now, row, logged, bull, lock, active, histories>>

\* once: a job with the task's id, unless there is one.
RunOnce(c) ==
    /\ thread[c].pc = "once"
    /\ queue' = IF \E w \in Workers : active[w] = Once THEN queue ELSE queue \union {Once}
    /\ Goto(c, "done")
    /\ UNCHANGED <<now, row, logged, repeat, lock, active, histories>>

-----------------------------------------------------------------------------
(* TaskService.stop *)

Scheduled == {s \in Schedules : repeat[s].on}

\* Where a call goes on when stop returns.
AfterStop(then) ==
    CASE then \in {"start", "boot"} -> "add"
      [] then = "delete" -> "delete"
      [] then = "check" -> "idle"
      [] OTHER -> "done"

Disable == row' = [row EXCEPT !.status = 0]

\* existJob; without a repeatable the task is only disabled.
Exist(t) ==
    /\ thread[t].pc = "exist"
    /\ Goto(t, IF Scheduled = {} THEN "disable" ELSE "list")
    /\ UNCHANGED <<now, row, logged, bull, lock, active, histories>>

ListJobs(t) ==
    /\ thread[t].pc = "list"
    /\ thread' = [thread EXCEPT ![t].pc = "remove", ![t].jobs = queue]
    /\ UNCHANGED <<now, row, logged, bull, lock, active, histories>>

\* The listed jobs go, but for one that is active by now, and removeRepeatable
\* takes the key with the job delayed for its next run.  JSON.parse(null) has no
\* properties to make a key of: the call fails.
ByRow(t) == thread[t].s
Parsed(t) == thread[t].opts

Remove(t) ==
    LET s == Parsed(t)
        left == queue \ thread[t].jobs
    IN  /\ thread[t].pc = "remove"
        /\ IF s = None
           THEN queue' = left /\ Goto(t, "stuck") /\ UNCHANGED repeat
           ELSE /\ queue' = {j \in left : ~(repeat[s].on /\ j.s = s /\ j.at = repeat[s].next
                                                /\ j.at > now)}
                /\ repeat' = [repeat EXCEPT ![s].on = FALSE]
                /\ Goto(t, "disable")
        /\ UNCHANGED <<now, row, logged, lock, active, histories>>

SetDisabled(t) ==
    /\ thread[t].pc = "disable"
    /\ Disable
    /\ Goto(t, AfterStop(thread[t].then))
    /\ UNCHANGED <<now, logged, bull, lock, active, histories>>

-----------------------------------------------------------------------------
(* TaskService.start and delete, after their stop *)

\* The next multiple of the period.
NextRun(s, t) == (t \div Period[s] + 1) * Period[s]

\* taskQueue.add with repeat; the queue knows a job by its schedule and time.
Queued(s, at) == \E j \in queue : j.s = s /\ j.at = at
Enqueue(jobs, s, at, n) ==
    /\ repeat' = [repeat EXCEPT ![s] = [on |-> TRUE, next |-> at]]
    /\ queue' = IF Queued(s, at) THEN jobs ELSE jobs \union {[s |-> s, at |-> at, n |-> n]}

Add(t) ==
    /\ thread[t].pc = "add"
    /\ Enqueue(queue, thread[t].s, NextRun(thread[t].s, now), 1)
    /\ Goto(t, "save")
    /\ UNCHANGED <<now, row, logged, lock, active, histories>>

OptsKept(t) == row.opts
JobOpts(t) == thread[t].s

Save(t) ==
    /\ thread[t].pc = "save"
    /\ row' = IF row.here THEN [row EXCEPT !.status = 1, !.opts = JobOpts(t)] ELSE row
    /\ Goto(t, IF thread[t].then = "boot" THEN "unlock" ELSE "done")
    /\ UNCHANGED <<now, logged, bull, lock, active, histories>>

\* The foreign key of the logs forbids to delete a task that ran.
Delete(t) ==
    /\ thread[t].pc = "delete"
    /\ IF logged THEN Goto(t, "failed") /\ UNCHANGED row
       ELSE Goto(t, "done") /\ row' = [NoRow EXCEPT !.s = row.s]
    /\ UNCHANGED <<now, logged, bull, lock, active, histories>>

\* The logs of tasks are cleared by a route and by a task.
ClearLog ==
    /\ logged
    /\ logged' = FALSE
    /\ UNCHANGED <<now, row, bull, lock, thread, active, histories>>

-----------------------------------------------------------------------------
(* TaskService.initTask *)

NeverHeld == FALSE
LockHeld == lock # None

Boot(b) ==
    /\ thread[b].pc = "idle"
    /\ IF LockHeld
       THEN Goto(b, "done") /\ UNCHANGED <<lock, raced>>
       ELSE lock' = b /\ Begin(b, "listAll", "boot")
    /\ UNCHANGED <<now, row, logged, bull, active, crashed>>

ListAll(b) ==
    /\ thread[b].pc = "listAll"
    /\ thread' = [thread EXCEPT ![b].pc = "clear", ![b].jobs = queue]
    /\ UNCHANGED <<now, row, logged, bull, lock, active, histories>>

Clear(b) ==
    /\ thread[b].pc = "clear"
    /\ queue' = queue \ thread[b].jobs
    /\ thread' = [thread EXCEPT ![b].pc = IF row.status = 1 THEN "exist" ELSE "unlock",
                                ![b].s = row.s, ![b].opts = row.opts]
    /\ UNCHANGED <<now, row, logged, repeat, lock, active, histories>>

StillLocked == lock
Unlocked == None

Unlock(b) ==
    /\ thread[b].pc = "unlock"
    /\ lock' = Unlocked
    /\ Goto(b, "done")
    /\ UNCHANGED <<now, row, logged, bull, active, histories>>

\* The process dies: Bull puts the job it ran back, and half an hour later its
\* lock is gone.
Crash(t) ==
    LET job == {active[w] : w \in Workers \intersect {t}} \ {NoJob}
    IN  /\ Busy(t) \/ job # {}
        /\ Goto(t, "dead")
        /\ queue' = queue \union job
        /\ active' = [w \in Workers |-> IF w = t THEN NoJob ELSE active[w]]
        /\ crashed' = (crashed \/ Busy(t))
        /\ UNCHANGED <<now, row, logged, repeat, lock, raced>>

LockExpire ==
    /\ LockHeld
    /\ thread[lock].pc \in {"dead", "stuck"}
    /\ lock' = None
    /\ UNCHANGED <<now, row, logged, bull, thread, active, histories>>

-----------------------------------------------------------------------------
(* TaskConsumer.  Bull hands out a job that is due and, if its repeatable  *)
(* still exists and has runs left, queues the next one.                    *)

HasRunsLeft(s, n) == Runs[s] = 0 \/ n < Runs[s]

Take(w, j) ==
    LET rest == queue \ {j}
    IN  /\ active[w] = NoJob /\ thread[w].pc # "dead"
        /\ j.at <= now
        /\ active' = [active EXCEPT ![w] = j]
        /\ IF j.s \in Scheduled /\ HasRunsLeft(j.s, j.n)
           THEN Enqueue(rest, j.s, NextRun(j.s, now), j.n + 1)
           ELSE queue' = rest /\ UNCHANGED repeat
        /\ UNCHANGED <<now, row, logged, lock, thread, histories>>

\* handle: the service returned or threw, which is logged; without the task's row
\* the log is refused, the job fails, and nothing is checked.  (A worker checks one
\* completion at a time.)
Finish(w) ==
    /\ active[w] # NoJob /\ thread[w].pc = "idle"
    /\ active' = [active EXCEPT ![w] = NoJob]
    /\ logged' = (logged \/ row.here)
    /\ IF row.here THEN Goto(w, "completed") ELSE UNCHANGED thread
    /\ UNCHANGED <<now, row, bull, lock, histories>>

\* updateTaskCompleteStatus: list the repeatables, find the row, and only then
\* compare the next runs listed with the clock.
ListRepeatables(w) ==
    /\ thread[w].pc = "completed"
    /\ thread' = [thread EXCEPT ![w].pc = "find",
                      ![w].jobs = {[s |-> s, at |-> repeat[s].next, n |-> 0] : s \in Scheduled}]
    /\ UNCHANGED <<now, row, logged, bull, lock, active, histories>>

Completed(w) == \E j \in thread[w].jobs : j.at < now

Find(w) ==
    /\ thread[w].pc = "find"
    /\ IF row.here /\ Completed(w)
       THEN Begin(w, "exist", "check")
       ELSE thread' = [thread EXCEPT ![w] = Idle] /\ UNCHANGED raced
    /\ UNCHANGED <<now, row, logged, bull, lock, active, crashed>>

-----------------------------------------------------------------------------

Call(c) ==
    \/ \E s \in Schedules, status \in {0, 1} : Create(c, s, status) \/ Update(c, s, status)
    \/ \E then \in {"start", "stop", "delete", "once"} : Route(c, then)
    \/ Info(c) \/ RunOnce(c) \/ Delete(c)

Stop(t) == Exist(t) \/ ListJobs(t) \/ Remove(t) \/ SetDisabled(t)
Start(t) == Add(t) \/ Save(t)
InitTask(b) == Boot(b) \/ ListAll(b) \/ Clear(b) \/ Unlock(b)

Consume(w) ==
    \/ \E j \in queue : Take(w, j)
    \/ Finish(w) \/ ListRepeatables(w) \/ Find(w)

Next ==
    \/ Tick \/ LockExpire \/ ClearLog
    \/ \E c \in Calls : Call(c)
    \/ \E b \in Boots : InitTask(b)
    \/ \E w \in Workers : Consume(w)
    \/ \E t \in Threads : Stop(t) \/ Start(t) \/ Crash(t)

Spec == Init /\ [][Next]_vars

-----------------------------------------------------------------------------
(* Properties *)

Job == [s : Schedules \union {None}, at : Nat, n : Nat]
ThreadState ==
    [pc : {"idle", "reread", "info", "once", "exist", "list", "remove", "disable", "add",
           "save", "delete", "listAll", "clear", "unlock", "completed", "find", "done",
           "failed", "stuck", "dead"},
     then : {"start", "stop", "delete", "once", "boot", "check"},
     s : Schedules \union {None}, opts : Schedules \union {None}, jobs : SUBSET Job]

(* Types; and who holds the initialisation lock is still initialising, or    *)
(* died or failed while it did.                                              *)
TypeOK ==
    /\ now \in Nat /\ logged \in BOOLEAN /\ raced \in BOOLEAN /\ crashed \in BOOLEAN
    /\ row \in [here : BOOLEAN, s : Schedules \union {None}, status : {0, 1},
                opts : Schedules \union {None}]
    /\ repeat \in [Schedules -> [on : BOOLEAN, next : Nat]]
    /\ queue \subseteq Job
    /\ thread \in [Threads -> ThreadState]
    /\ active \in [Workers -> Job]
    /\ lock \in Boots \union {None}
    /\ LockHeld => thread[lock].pc \notin {"idle", "done"}

Undisturbed == ~raced /\ ~crashed
Quiet == \A t \in Threads : ~Busy(t)

(* A task that is disabled or deleted has no repeatable job left, whatever   *)
(* its schedule was changed to before and whatever the workers did           *)
(* meanwhile, unless a start overlapped with another call or one died.       *)
StoppedMeansQuiet ==
    Undisturbed /\ Quiet /\ row.status = 0 => Scheduled = {}

(* An enabled task has exactly one repeatable job, that of its schedule and  *)
(* of its job options, and without a limit its next run is queued: no        *)
(* restart, update or initialisation loses it or leaves an old one behind.   *)
StartedMeansScheduled ==
    Undisturbed /\ Quiet /\ row.status = 1 =>
        /\ row.opts = row.s /\ Scheduled = {row.s}
        /\ Runs[row.s] = 0 => Queued(row.s, repeat[row.s].next)

(* stop never fails on job options that were not saved: no legal sequence of *)
(* calls makes a task that can neither be stopped, started nor deleted.      *)
NeverStuck ==
    Undisturbed => \A t \in Threads : thread[t].pc # "stuck"

(* Two processes are never in initTask at once, however often they restart.  *)
InitExclusive ==
    \A b, d \in Boots : Busy(b) /\ Busy(d) => b = d

(* updateTaskCompleteStatus: "If next execution time is less than current    *)
(* time, it means execution is completed": no task is stopped as completed   *)
(* while its next run is in the queue.                                       *)
NotStoppedEarly ==
    [][\A w \in Workers :
          thread[w].pc = "find" /\ thread'[w].pc = "exist"
              => \A s \in Scheduled : ~Queued(s, repeat[s].next)]_vars

=============================================================================
