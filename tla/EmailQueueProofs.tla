-------------------------- MODULE EmailQueueProofs --------------------------
(***************************************************************************)
(* Proofs about EmailQueue, for any jobs and recipients and any number of  *)
(* attempts and stalls; and that it implements the safety part of          *)
(* MailDelivery.  At the end the notification scheduler, for any callbacks *)
(* and any nesting: it implements the safety part of Notifications; and    *)
(* both for the composition that TLC checks (MCEmailQueue).  That every    *)
(* job ends and every callback is called is left to TLC.                   *)
(***************************************************************************)
EXTENDS MCEmailQueue, FiniteSetTheorems, SequenceTheorems, NaturalsInduction, TLAPS

USE QueueAssumption

-----------------------------------------------------------------------------
(* The inductive invariant of the counters: a job that waits was started     *)
(* once for each attempt made and each stall; one that is active once more.  *)

States == {"none", "waiting", "active", "delayed", "completed", "failed"}
AnyJob == [state : States, made : Nat, stalls : Nat, started : Nat]

TriesLeft(j) == job[j].made < MaxAttempts /\ job[j].stalls <= MaxStalled
JobCounts(j) ==
    /\ job[j].state = "none" =>
          job[j].made = 0 /\ job[j].stalls = 0 /\ job[j].started = 0
    /\ job[j].state \in {"waiting", "delayed"} =>
          TriesLeft(j) /\ job[j].started = job[j].made + job[j].stalls
    /\ job[j].state \in {"active", "completed"} =>
          TriesLeft(j) /\ job[j].started = job[j].made + job[j].stalls + 1
    /\ job[j].state = "failed" =>
          /\ job[j].made <= MaxAttempts /\ job[j].stalls <= MaxStalled + 1
          /\ job[j].made < MaxAttempts \/ job[j].stalls <= MaxStalled
          /\ job[j].started = job[j].made + job[j].stalls

JobInv == job \in [Jobs -> AnyJob] /\ \A j \in Jobs : JobCounts(j)

RunFits(j) ==
    \A n \in Invocations :
        /\ (run[j][n].pc = "none") <=> (n > job[j].started)
        /\ run[j][n].pc # "running" => run[j][n].todo = {}
        /\ run[j][n].todo \subseteq To[j]
RunInv == run \in [Jobs -> [Invocations -> RunState]] /\ \A j \in Jobs : RunFits(j)

SentInv ==
    /\ sent = [j \in Jobs |-> sent[j]]
    /\ \A j \in Jobs : sent[j] \in [To[j] -> Nat]

TypeInv == JobInv /\ RunInv /\ SentInv

(* What a step does to a job, to an invocation and to the emails.            *)

JobSet(j, state, made, stalls, started) ==
    /\ job' \in [Jobs -> AnyJob]
    /\ job'[j].state = state /\ job'[j].made = made /\ job'[j].stalls = stalls
    /\ job'[j].started = started
    /\ \A i \in Jobs \ {j} : job'[i] = job[i]
RunSet(j, n, pc, todo, failed) ==
    /\ run' \in [Jobs -> [Invocations -> RunState]]
    /\ run'[j][n].pc = pc /\ run'[j][n].todo = todo /\ run'[j][n].failed = failed
    /\ \A m \in Invocations \ {n} : run'[j][m] = run[j][m]
    /\ \A i \in Jobs \ {j} : run'[i] = run[i]
SentMore(j, r) ==
    /\ SentInv'
    /\ sent'[j][r] = sent[j][r] + 1
    /\ \A q \in To[j] \ {r} : sent'[j][q] = sent[j][q]
    /\ \A i \in Jobs \ {j} : sent'[i] = sent[i]

LEMMA SetJob ==
    ASSUME JobInv, NEW j \in Jobs, NEW rec \in AnyJob, job' = [job EXCEPT ![j] = rec]
    PROVE  JobSet(j, rec.state, rec.made, rec.stalls, rec.started)
BY DEF JobInv, JobSet

LEMMA SetRun ==
    ASSUME RunInv, NEW j \in Jobs, NEW n \in Invocations, NEW rec \in RunState,
           run' = [run EXCEPT ![j][n] = rec]
    PROVE  RunSet(j, n, rec.pc, rec.todo, rec.failed)
<1>1. run[j] \in [Invocations -> RunState]
  BY DEF RunInv
<1>2. [run[j] EXCEPT ![n] = rec] \in [Invocations -> RunState]
  BY <1>1
<1>3. run'[j] = [run[j] EXCEPT ![n] = rec] /\ \A i \in Jobs \ {j} : run'[i] = run[i]
  BY DEF RunInv
<1>4. run' \in [Jobs -> [Invocations -> RunState]]
  BY <1>2 DEF RunInv
<1> QED
  BY <1>1, <1>3, <1>4 DEF RunSet

LEMMA SendMore ==
    ASSUME SentInv, NEW j \in Jobs, NEW r \in To[j], sent' = [sent EXCEPT ![j][r] = @ + 1]
    PROVE  SentMore(j, r)
<1>1. sent[j] \in [To[j] -> Nat]
  BY DEF SentInv
<1>2. [sent[j] EXCEPT ![r] = @ + 1] \in [To[j] -> Nat]
  BY <1>1
<1>3. sent'[j] = [sent[j] EXCEPT ![r] = @ + 1] /\ \A i \in Jobs \ {j} : sent'[i] = sent[i]
  BY DEF SentInv
<1>4. sent' = [i \in Jobs |-> sent'[i]]
  BY DEF SentInv
<1>5. \A i \in Jobs : sent'[i] \in [To[i] -> Nat]
  BY <1>2, <1>3 DEF SentInv
<1>6. SentInv'
  BY <1>4, <1>5 DEF SentInv
<1> QED
  BY <1>1, <1>3, <1>6 DEF SentMore

LEMMA GotoJob ==
    ASSUME JobInv, NEW j \in Jobs, NEW state \in States, JobGoto(j, state)
    PROVE  JobSet(j, state, job[j].made, job[j].stalls, job[j].started)
<1> DEFINE new == [job[j] EXCEPT !.state = state]
<1>1. job[j] \in AnyJob
  BY DEF JobInv
<1>2. /\ new \in AnyJob /\ new.state = state /\ new.made = job[j].made
      /\ new.stalls = job[j].stalls /\ new.started = job[j].started
  BY <1>1 DEF AnyJob
<1>3. job' = [job EXCEPT ![j] = new]
  BY DEF JobGoto, JobInv
<1> HIDE DEF new
<1> QED
  BY <1>2, <1>3, SetJob

LEMMA FailAttempt ==
    ASSUME JobInv, NEW j \in Jobs, AttemptFailed(j)
    PROVE  JobSet(j, IF job[j].made + 1 < MaxAttempts THEN "delayed" ELSE "failed",
                  job[j].made + 1, job[j].stalls, job[j].started)
<1> DEFINE state == IF job[j].made + 1 < MaxAttempts THEN "delayed" ELSE "failed"
           new == [job[j] EXCEPT !.made = job[j].made + 1, !.state = state]
<1>1. job[j] \in AnyJob /\ state \in States /\ job[j].made + 1 \in Nat
  BY DEF JobInv, States, AnyJob
<1>2. /\ new \in AnyJob /\ new.state = state /\ new.made = job[j].made + 1
      /\ new.stalls = job[j].stalls /\ new.started = job[j].started
  <2> HIDE DEF state
  <2> QED
    BY <1>1 DEF AnyJob
<1>3. job' = [job EXCEPT ![j] = new]
  BY DEF AttemptFailed, AttemptMade, JobInv
<1> HIDE DEF new
<1> QED
  BY <1>2, <1>3, SetJob

(* The actions, in these terms.                                              *)

LEMMA TakeEffect ==
    ASSUME TypeInv, NEW j \in Jobs, Take(j)
    PROVE  LET n == job[j].started + 1
           IN  /\ job[j].state = "waiting" /\ n \in Invocations /\ UNCHANGED sent
               /\ JobSet(j, "active", job[j].made, job[j].stalls, n)
               /\ RunSet(j, n, "running", To[j], FALSE)
<1> DEFINE n == job[j].started + 1
           new == [job[j] EXCEPT !.state = "active", !.started = n]
           rec == [pc |-> "running", todo |-> To[j], failed |-> FALSE]
<1>1. job[j] \in AnyJob /\ job[j].state = "waiting" /\ "active" \in States
  BY DEF TypeInv, JobInv, Take, States
<1>1a. n \in Nat
  BY <1>1 DEF AnyJob
<1>2. /\ new \in AnyJob /\ new.state = "active" /\ new.made = job[j].made
      /\ new.stalls = job[j].stalls /\ new.started = n
  <2> HIDE DEF n
  <2> QED
    BY <1>1, <1>1a DEF AnyJob
<1>3. job' = [job EXCEPT ![j] = new]
  BY DEF Take, TypeInv, JobInv
<1>4. JobSet(j, "active", job[j].made, job[j].stalls, n)
  <2> HIDE DEF new, n
  <2> QED
    BY <1>2, <1>3, SetJob DEF TypeInv
<1>5. n \in Invocations
  BY <1>1 DEF TypeInv, JobInv, JobCounts, TriesLeft, Invocations, AnyJob
<1>6. To[j] \subseteq Recipients
  BY DEF Recipients
<1>7. rec \in RunState
  BY <1>6 DEF RunState
<1>8. run' = [run EXCEPT ![j][n] = rec]
  BY DEF Take
<1>9. RunSet(j, n, rec.pc, rec.todo, rec.failed)
  <2> HIDE DEF rec, n
  <2> QED
    BY <1>5, <1>7, <1>8, SetRun DEF TypeInv
<1> QED
  BY <1>1, <1>4, <1>5, <1>9 DEF Take

LEMMA SendEffect ==
    ASSUME TypeInv, NEW j \in Jobs, NEW n \in Invocations, NEW r \in run[j][n].todo,
           SendOk(j, n, r) \/ SendFail(j, n, r)
    PROVE  /\ Running(j, n) /\ UNCHANGED job
           /\ \E failed \in BOOLEAN :
                 /\ RunSet(j, n, "running", run[j][n].todo \ {r}, failed)
                 /\ ~failed => SendOk(j, n, r)
<1>1. run[j][n] \in RunState /\ run[j] \in [Invocations -> RunState]
  BY DEF TypeInv, RunInv
<1>2. ASSUME NEW failed \in BOOLEAN, Running(j, n),
             run' = [run EXCEPT ![j][n] =
                        [run[j][n] EXCEPT !.todo = run[j][n].todo \ {r}, !.failed = failed]]
      PROVE  RunSet(j, n, "running", run[j][n].todo \ {r}, failed)
  <2> DEFINE rec == [run[j][n] EXCEPT !.todo = run[j][n].todo \ {r}, !.failed = failed]
  <2>1. run[j][n].todo \ {r} \in SUBSET Recipients
    BY <1>1 DEF RunState
  <2>2. /\ rec \in RunState /\ rec.pc = "running"
        /\ rec.todo = run[j][n].todo \ {r} /\ rec.failed = failed
    BY <1>1, <1>2, <2>1 DEF RunState, Running
  <2>3. run' = [run EXCEPT ![j][n] = rec]
    BY <1>2
  <2> HIDE DEF rec
  <2>4. RunSet(j, n, rec.pc, rec.todo, rec.failed)
    BY <2>2, <2>3, SetRun DEF TypeInv
  <2> QED
    BY <2>2, <2>4
<1>3. CASE SendOk(j, n, r)
  <2>1. Running(j, n) /\ UNCHANGED job /\ run[j][n].failed \in BOOLEAN
    BY <1>1, <1>3 DEF SendOk, RunState
  <2>2. run' = [run EXCEPT ![j][n] =
                   [run[j][n] EXCEPT !.todo = run[j][n].todo \ {r}, !.failed = run[j][n].failed]]
    BY <1>1, <1>3 DEF SendOk, Advanced, RunState, TypeInv, RunInv
  <2> QED
    BY <1>2, <1>3, <2>1, <2>2
<1>4. CASE SendFail(j, n, r)
  <2>1. Running(j, n) /\ UNCHANGED job
    BY <1>4 DEF SendFail
  <2>2. run' = [run EXCEPT ![j][n] =
                   [run[j][n] EXCEPT !.todo = run[j][n].todo \ {r}, !.failed = TRUE]]
    BY <1>1, <1>4 DEF SendFail, Advanced, ErrorNoted, RunState, TypeInv, RunInv
  <2> QED
    BY <1>2, <2>1, <2>2
<1> QED
  BY <1>3, <1>4

LEMMA SendSent ==
    ASSUME TypeInv, NEW j \in Jobs, NEW n \in Invocations, NEW r \in To[j],
           SendOk(j, n, r) \/ SendFail(j, n, r)
    PROVE  /\ SentMore(j, r) \/ UNCHANGED sent
           /\ SendOk(j, n, r) => SentMore(j, r)
BY SendMore DEF TypeInv, SendOk, SendFail

(* Return, and a crash, end an invocation.                                   *)
LEMMA OverEffect ==
    ASSUME TypeInv, NEW j \in Jobs, NEW n \in Invocations, NEW pc \in {"ended", "dead"},
           run' = [run EXCEPT ![j][n] = Over(pc)]
    PROVE  RunSet(j, n, pc, {}, FALSE)
<1>1. Over(pc).pc = pc /\ Over(pc).todo = {} /\ Over(pc).failed = FALSE
  BY DEF Over, NoRun
<1>2. Over(pc) \in RunState
  BY DEF Over, NoRun, RunState
<1>3. RunSet(j, n, Over(pc).pc, Over(pc).todo, Over(pc).failed)
  BY <1>2, SetRun DEF TypeInv
<1> QED
  BY <1>1, <1>3

(* The check for stalled jobs, whether the worker is dead or not.            *)
LEMMA StalledEffect ==
    ASSUME TypeInv, NEW j \in Jobs, Stalled(j) \/ LockLost(j)
    PROVE  /\ job[j].state = "active" /\ UNCHANGED <<run, sent>>
           /\ JobSet(j, IF job[j].stalls < MaxStalled THEN "waiting" ELSE "failed",
                     job[j].made, job[j].stalls + 1, job[j].started)
<1> DEFINE state == IF job[j].stalls < MaxStalled THEN "waiting" ELSE "failed"
           new == [job[j] EXCEPT !.stalls = job[j].stalls + 1, !.state = state]
<1>1. job[j] \in AnyJob /\ state \in States /\ job[j].stalls + 1 \in Nat
  BY DEF TypeInv, JobInv, States, AnyJob
<1>2. /\ new \in AnyJob /\ new.state = state /\ new.made = job[j].made
      /\ new.stalls = job[j].stalls + 1 /\ new.started = job[j].started
  <2> HIDE DEF state
  <2> QED
    BY <1>1 DEF AnyJob
<1>3. job' = [job EXCEPT ![j] = new]
  BY DEF Stalled, LockLost, PutBack, TypeInv, JobInv
<1>4. job[j].state = "active" /\ UNCHANGED <<run, sent>>
  BY DEF Stalled, LockLost, Current
<1> HIDE DEF new
<1> QED
  BY <1>2, <1>3, <1>4, SetJob DEF TypeInv

-----------------------------------------------------------------------------
(* The counters and the types.                                               *)

(* A step that changes one job and no invocation keeps the type invariant if *)
(* the counters of the job fit its new state.                                *)
LEMMA JobOnly ==
    ASSUME TypeInv, NEW j \in Jobs, NEW state, NEW made, NEW stalls,
           JobSet(j, state, made, stalls, job[j].started), JobCounts(j)', UNCHANGED <<run, sent>>
    PROVE  TypeInv'
<1>1. \A i \in Jobs \ {j} : JobCounts(i)'
  BY DEF TypeInv, JobInv, JobSet, JobCounts, TriesLeft
<1>2. JobInv'
  BY <1>1 DEF JobInv, JobSet
<1>3. \A i \in Jobs : job'[i].started = job[i].started
  BY DEF JobSet
<1> QED
  BY <1>2, <1>3 DEF TypeInv, RunInv, RunFits, SentInv

LEMMA TypeInit == Init => TypeInv
<1> SUFFICES ASSUME Init PROVE TypeInv
  OBVIOUS
<1>1. NewJob \in AnyJob /\ NewJob.state = "none"
      /\ NewJob.made = 0 /\ NewJob.stalls = 0 /\ NewJob.started = 0
  BY DEF NewJob, AnyJob, States
<1>2. JobInv /\ \A j \in Jobs : job[j].started = 0
  BY <1>1 DEF Init, JobInv, JobCounts
<1>3. NoRun \in RunState /\ NoRun.pc = "none" /\ NoRun.todo = {}
  BY DEF NoRun, RunState
<1>4. RunInv
  BY <1>2, <1>3 DEF Init, RunInv, RunFits, Invocations
<1>5. SentInv
  BY DEF Init, SentInv
<1> QED
  BY <1>2, <1>4, <1>5 DEF TypeInv

LEMMA TypeStep == TypeInv /\ [Next]_vars => TypeInv'
<1> SUFFICES ASSUME TypeInv, [Next]_vars PROVE TypeInv'
  OBVIOUS
<1>1. CASE UNCHANGED vars
  BY <1>1 DEF vars, TypeInv, JobInv, JobCounts, TriesLeft, RunInv, RunFits, SentInv
<1> SUFFICES ASSUME NEW j \in Jobs,
                    \/ Add(j) \/ Manage(j) \/ TimeOut(j) \/ LockLost(j)
                    \/ \E n \in Invocations : Handle(j, n) \/ Crash(j, n)
             PROVE  TypeInv'
  BY <1>1 DEF Next, JobNext
<1>2. JobInv /\ RunInv /\ SentInv /\ JobCounts(j)
      /\ job[j].made \in Nat /\ job[j].stalls \in Nat /\ job[j].started \in Nat
  BY DEF TypeInv, JobInv, AnyJob
<1>3. CASE Add(j)
  <2>1. JobSet(j, "waiting", job[j].made, job[j].stalls, job[j].started)
    BY <1>2, <1>3, GotoJob DEF Add, States
  <2>2. JobCounts(j)'
    BY <1>2, <1>3, <2>1 DEF Add, JobSet, JobCounts, TriesLeft
  <2> QED
    BY <1>3, <2>1, <2>2, JobOnly DEF Add
<1>4. CASE Take(j)
  <2> DEFINE n == job[j].started + 1
  <2>1. /\ job[j].state = "waiting" /\ n \in Invocations /\ UNCHANGED sent
        /\ JobSet(j, "active", job[j].made, job[j].stalls, n)
        /\ RunSet(j, n, "running", To[j], FALSE)
    BY <1>4, TakeEffect
  <2>2. JobCounts(j)'
    BY <1>2, <2>1 DEF JobSet, JobCounts, TriesLeft
  <2>3. \A i \in Jobs \ {j} : JobCounts(i)'
    BY <1>2, <2>1 DEF JobSet, JobInv, JobCounts, TriesLeft
  <2>4. JobInv'
    BY <2>1, <2>2, <2>3 DEF JobSet, JobInv
  <2>5. \A i \in Jobs \ {j} : job'[i] = job[i] /\ run'[i] = run[i]
    BY <2>1 DEF JobSet, RunSet
  <2>6. RunFits(j)'
    <3>1. /\ run'[j][n].pc = "running" /\ run'[j][n].todo = To[j]
          /\ \A m \in Invocations \ {n} : run'[j][m] = run[j][m]
          /\ job'[j].started = n
      BY <2>1 DEF RunSet, JobSet
    <3>2. RunFits(j) /\ \A m \in Invocations : m \in Nat
      BY <1>2 DEF RunInv, Invocations
    <3> QED
      BY <1>2, <2>1, <3>1, <3>2 DEF RunFits
  <2>7. RunInv'
    BY <1>2, <2>1, <2>5, <2>6 DEF RunSet, RunInv, RunFits
  <2> QED
    BY <1>2, <2>1, <2>4, <2>7 DEF TypeInv, SentInv
<1>5. CASE Backoff(j)
  <2>1. JobSet(j, "waiting", job[j].made, job[j].stalls, job[j].started)
    BY <1>2, <1>5, GotoJob DEF Backoff, States
  <2>2. JobCounts(j)'
    BY <1>2, <1>5, <2>1 DEF Backoff, JobSet, JobCounts, TriesLeft
  <2> QED
    BY <1>5, <2>1, <2>2, JobOnly DEF Backoff
<1>6. CASE Stalled(j) \/ LockLost(j)
  <2>1. /\ job[j].state = "active" /\ UNCHANGED <<run, sent>>
        /\ JobSet(j, IF job[j].stalls < MaxStalled THEN "waiting" ELSE "failed",
                  job[j].made, job[j].stalls + 1, job[j].started)
    BY <1>6, StalledEffect
  <2>2. JobCounts(j)'
    BY <1>2, <2>1 DEF JobSet, JobCounts, TriesLeft
  <2> QED
    BY <2>1, <2>2, JobOnly
<1>7. ASSUME AttemptFailed(j), job[j].state = "active"
      PROVE  /\ JobSet(j, IF job[j].made + 1 < MaxAttempts THEN "delayed" ELSE "failed",
                       job[j].made + 1, job[j].stalls, job[j].started)
             /\ JobCounts(j)'
  <2>1. JobSet(j, IF job[j].made + 1 < MaxAttempts THEN "delayed" ELSE "failed",
               job[j].made + 1, job[j].stalls, job[j].started)
    BY <1>2, <1>7, FailAttempt
  <2>2. JobCounts(j)'
    BY <1>2, <1>7, <2>1 DEF JobSet, JobCounts, TriesLeft
  <2> QED
    BY <2>1, <2>2
<1>8. CASE TimeOut(j)
  BY <1>7, <1>8, JobOnly DEF TimeOut, Current
(* An invocation that goes on or ends.                                       *)
<1>9. ASSUME NEW n \in Invocations, Running(j, n),
             NEW pc \in {"running", "ended", "dead"}, NEW todo \in SUBSET To[j], NEW failed,
             RunSet(j, n, pc, todo, failed), pc # "running" => todo = {},
             JobInv', \A i \in Jobs : job'[i].started = job[i].started
      PROVE  JobInv' /\ RunInv'
  <2>1. RunFits(j)'
    <3>1. /\ run'[j][n].pc = pc /\ run'[j][n].todo = todo
          /\ \A m \in Invocations \ {n} : run'[j][m] = run[j][m]
          /\ job'[j].started = job[j].started
      BY <1>9 DEF RunSet
    <3>2. RunFits(j) /\ run[j][n].pc = "running"
      BY <1>2, <1>9 DEF RunInv, Running
    <3> QED
      BY <1>9, <3>1, <3>2 DEF RunFits
  <2>2. \A i \in Jobs \ {j} : run'[i] = run[i] /\ job'[i].started = job[i].started
    BY <1>9 DEF RunSet
  <2>3. \A i \in Jobs \ {j} : RunFits(i)'
    BY <1>2, <2>2 DEF RunInv, RunFits
  <2>4. run' \in [Jobs -> [Invocations -> RunState]]
    BY <1>9 DEF RunSet
  <2> QED
    BY <1>9, <2>1, <2>3, <2>4 DEF RunInv
<1>9a. {} \in SUBSET To[j] /\ FALSE \in BOOLEAN
  OBVIOUS
<1>10. ASSUME NEW n \in Invocations, Send(j, n) PROVE TypeInv'
  <2>1. PICK r \in run[j][n].todo : SendOk(j, n, r) \/ SendFail(j, n, r)
    BY <1>10 DEF Send
  <2>2. Running(j, n) /\ UNCHANGED job /\
        \E failed \in BOOLEAN : RunSet(j, n, "running", run[j][n].todo \ {r}, failed)
    BY <2>1, SendEffect
  <2>3. run[j][n].todo \subseteq To[j]
    BY <1>2 DEF RunInv, RunFits
  <2>4. SentInv'
    BY <1>2, <2>1, <2>3, SendSent DEF SentMore, SentInv
  <2>5. JobInv' /\ RunInv'
    BY <1>2, <1>9, <2>2, <2>3 DEF JobInv, JobCounts, TriesLeft
  <2> QED
    BY <2>4, <2>5 DEF TypeInv
<1>11. ASSUME NEW n \in Invocations, Return(j, n) PROVE TypeInv'
  <2>1. Running(j, n) /\ RunSet(j, n, "ended", {}, FALSE) /\ UNCHANGED sent
    BY <1>11, OverEffect DEF Return
  <2>2. CASE UNCHANGED job
    <3>1. JobInv' /\ \A i \in Jobs : job'[i].started = job[i].started
      BY <1>2, <2>2 DEF JobInv, JobCounts, TriesLeft
    <3>2. JobInv' /\ RunInv'
      BY <1>9, <1>9a, <2>1, <3>1
    <3> QED
      BY <1>2, <2>1, <3>2 DEF TypeInv, SentInv
  <2>3. ASSUME NEW state, NEW made, JobSet(j, state, made, job[j].stalls, job[j].started),
               JobCounts(j)'
        PROVE  TypeInv'
    <3>1. \A i \in Jobs \ {j} : JobCounts(i)'
      BY <1>2, <2>3 DEF JobInv, JobSet, JobCounts, TriesLeft
    <3>2. JobInv' /\ \A i \in Jobs : job'[i].started = job[i].started
      BY <2>3, <3>1 DEF JobInv, JobSet
    <3>3. JobInv' /\ RunInv'
      BY <1>9, <1>9a, <2>1, <3>2
    <3> QED
      BY <1>2, <2>1, <3>3 DEF TypeInv, SentInv
  <2>4. CASE job[j].state = "active" /\ AttemptFailed(j)
    BY <1>7, <2>3, <2>4
  <2>5. CASE job[j].state = "active" /\ JobGoto(j, "completed")
    <3>1. JobSet(j, "completed", job[j].made, job[j].stalls, job[j].started)
      BY <1>2, <2>5, GotoJob DEF States
    <3>2. JobCounts(j)'
      BY <1>2, <2>5, <3>1 DEF JobSet, JobCounts, TriesLeft
    <3> QED
      BY <2>3, <3>1, <3>2
  <2> QED
    BY <1>11, <2>2, <2>4, <2>5 DEF Return, Current
<1>12. ASSUME NEW n \in Invocations, Crash(j, n) PROVE TypeInv'
  <2>1. Running(j, n) /\ RunSet(j, n, "dead", {}, FALSE) /\ UNCHANGED <<job, sent>>
    BY <1>12, OverEffect DEF Crash
  <2>2. JobInv' /\ \A i \in Jobs : job'[i].started = job[i].started
    BY <1>2, <2>1 DEF JobInv, JobCounts, TriesLeft
  <2>3. JobInv' /\ RunInv'
    BY <1>9, <1>9a, <2>1, <2>2
  <2> QED
    BY <1>2, <2>1, <2>3 DEF TypeInv, SentInv
<1> QED
  BY <1>3, <1>4, <1>5, <1>6, <1>8, <1>10, <1>11, <1>12 DEF Manage, Handle

(* TypeOK: and a job is invoked no more often than its failed attempts and   *)
(* its stalls, and once (email-queue.service.ts: getDefaultJobOptions).      *)
THEOREM TypeCorrect == Spec => []TypeOK
<1>1. TypeInv => TypeOK
  <2> SUFFICES ASSUME TypeInv PROVE TypeOK
    OBVIOUS
  <2>1. ASSUME NEW j \in Jobs
        PROVE  job[j] \in JobState /\ job[j].started <= job[j].made + job[j].stalls + 1
    <3>1. job[j] \in AnyJob /\ JobCounts(j)
      BY DEF TypeInv, JobInv
    <3>2. /\ job[j].made \in 0 .. MaxAttempts /\ job[j].stalls \in 0 .. MaxStalled + 1
          /\ job[j].started \in 0 .. MaxAttempts + MaxStalled
          /\ job[j].started <= job[j].made + job[j].stalls + 1
      BY <3>1 DEF JobCounts, TriesLeft, AnyJob, States
    <3> QED
      BY <3>1, <3>2 DEF AnyJob, JobState, States
  <2> QED
    BY <2>1 DEF TypeInv, JobInv, RunInv, SentInv, TypeOK
<1> QED
  BY <1>1, TypeInit, TypeStep, PTL DEF Spec

-----------------------------------------------------------------------------
(* One step of one job, in the terms above: what the other invariants need.  *)

Started(j) == \E n \in Invocations :
    /\ job[j].state = "waiting" /\ job'[j].state = "active"
    /\ n = job[j].started + 1 /\ job'[j].started = n /\ job'[j].stalls = job[j].stalls
    /\ RunSet(j, n, "running", To[j], FALSE) /\ UNCHANGED sent
Sending(j) == \E n \in Invocations, r \in To[j], failed \in BOOLEAN :
    /\ Running(j, n) /\ r \in run[j][n].todo /\ UNCHANGED job
    /\ RunSet(j, n, "running", run[j][n].todo \ {r}, failed)
    /\ SentMore(j, r) \/ (failed /\ UNCHANGED sent)
    /\ ~failed => ~run[j][n].failed
Ending(j) == \E n \in Invocations, pc \in {"ended", "dead"} :
    /\ Running(j, n) /\ RunSet(j, n, pc, {}, FALSE) /\ UNCHANGED sent
    /\ job'[j].started = job[j].started /\ job'[j].stalls = job[j].stalls
    /\ \/ UNCHANGED job
       \/ /\ pc = "ended" /\ Current(j, n)
          /\ \/ job'[j].state \in {"delayed", "failed"}
             \/ /\ job'[j].state = "completed" /\ ~run[j][n].failed
                /\ run[j][n].todo = {}
Moving(j) ==
    /\ UNCHANGED <<run, sent>> /\ job'[j].started = job[j].started
    /\ \/ /\ job'[j].stalls = job[j].stalls
          /\ \/ job[j].state = "none" /\ job'[j].state = "waiting"
             \/ job[j].state = "delayed" /\ job'[j].state = "waiting"
             \/ Timed(j) /\ job[j].state = "active" /\ job'[j].state \in {"delayed", "failed"}
       \/ /\ job'[j].stalls = job[j].stalls + 1
          /\ job[j].state = "active" /\ job'[j].state \in {"waiting", "failed"}

JobStep(j) ==
    /\ job' \in [Jobs -> AnyJob]
    /\ \A i \in Jobs \ {j} : job'[i] = job[i]
    /\ Started(j) \/ Sending(j) \/ Ending(j) \/ Moving(j)

LEMMA NextIsJobStep ==
    ASSUME TypeInv, Next
    PROVE  \E j \in Jobs : JobStep(j)
<1> SUFFICES ASSUME NEW j \in Jobs,
                    \/ Add(j) \/ Manage(j) \/ TimeOut(j) \/ LockLost(j)
                    \/ \E n \in Invocations : Handle(j, n) \/ Crash(j, n)
             PROVE  JobStep(j)
  BY DEF Next, JobNext
<1>1. JobInv /\ RunInv /\ job \in [Jobs -> AnyJob] /\ RunFits(j)
  BY DEF TypeInv, JobInv, RunInv
<1>2. CASE Add(j) \/ Backoff(j)
  <2>1. JobSet(j, "waiting", job[j].made, job[j].stalls, job[j].started)
    BY <1>1, <1>2, GotoJob DEF Add, Backoff, States
  <2> QED
    BY <1>2, <2>1 DEF Add, Backoff, JobSet, JobStep, Moving
<1>3. CASE Take(j)
  <2>1. Started(j)
    BY <1>3, TakeEffect DEF JobSet, Started
  <2> QED
    BY <1>3, <2>1, TakeEffect DEF JobSet, JobStep
<1>4. CASE Stalled(j) \/ LockLost(j)
  BY <1>4, StalledEffect DEF JobSet, JobStep, Moving
<1>5. CASE TimeOut(j)
  <2>1. AttemptFailed(j) /\ Timed(j) /\ job[j].state = "active" /\ UNCHANGED <<run, sent>>
    BY <1>5 DEF TimeOut, Current
  <2> QED
    BY <1>1, <2>1, FailAttempt DEF JobSet, JobStep, Moving
<1>6. ASSUME NEW n \in Invocations, Send(j, n) PROVE JobStep(j)
  <2>1. PICK r \in run[j][n].todo : SendOk(j, n, r) \/ SendFail(j, n, r)
    BY <1>6 DEF Send
  <2>2. r \in To[j]
    BY <1>1 DEF RunFits
  <2>3. run[j][n].failed \in BOOLEAN
    BY <1>1 DEF RunInv, RunState
  <2>4. CASE SendFail(j, n, r)
    <3>1. run' = [run EXCEPT ![j][n].todo = run[j][n].todo \ {r}, ![j][n].failed = TRUE]
      BY <2>4 DEF SendFail, Advanced, ErrorNoted
    <3>2. run'[j][n].failed = TRUE
      BY <1>1, <3>1 DEF RunInv, RunState
    <3>3. RunSet(j, n, "running", run[j][n].todo \ {r}, TRUE)
      BY <2>1, <3>2, SendEffect DEF RunSet
    <3>4. Sending(j)
      BY <2>1, <2>2, <3>3, SendEffect, SendSent DEF Sending
    <3> QED
      BY <1>1, <2>1, <3>4, SendEffect DEF JobStep
  <2>5. CASE SendOk(j, n, r)
    <3>1. run'[j][n].failed = run[j][n].failed
      BY <1>1, <2>5 DEF SendOk, RunInv, RunState
    <3>2. RunSet(j, n, "running", run[j][n].todo \ {r}, run[j][n].failed)
      BY <2>1, <3>1, SendEffect DEF RunSet
    <3>3. Sending(j)
      BY <2>1, <2>2, <2>3, <2>5, <3>2, SendEffect, SendSent DEF Sending
    <3> QED
      BY <1>1, <2>1, <3>3, SendEffect DEF JobStep
  <2> QED
    BY <2>1, <2>4, <2>5
<1>7. ASSUME NEW n \in Invocations, Return(j, n) PROVE JobStep(j)
  <2>1. Running(j, n) /\ RunSet(j, n, "ended", {}, FALSE) /\ UNCHANGED sent
        /\ run[j][n].todo = {}
    BY <1>7, OverEffect DEF Return
  <2>2. CASE UNCHANGED job
    <3>1. Ending(j)
      BY <2>1, <2>2 DEF Ending
    <3> QED
      BY <1>1, <2>2, <3>1 DEF JobStep
  <2>3. CASE Current(j, n) /\ AttemptFailed(j)
    <3>1. Ending(j)
      BY <1>1, <2>1, <2>3, FailAttempt DEF JobSet, Ending
    <3> QED
      BY <1>1, <2>3, <3>1, FailAttempt DEF JobSet, JobStep
  <2>4. CASE Current(j, n) /\ ~run[j][n].failed /\ JobGoto(j, "completed")
    <3>1. JobSet(j, "completed", job[j].made, job[j].stalls, job[j].started)
      BY <1>1, <2>4, GotoJob DEF States
    <3>2. Ending(j)
      BY <2>1, <2>4, <3>1 DEF JobSet, Ending
    <3> QED
      BY <3>1, <3>2 DEF JobSet, JobStep
  <2> QED
    BY <1>7, <2>2, <2>3, <2>4 DEF Return
<1>8. ASSUME NEW n \in Invocations, Crash(j, n) PROVE JobStep(j)
  <2>1. Ending(j)
    BY <1>8, OverEffect DEF Crash, Ending
  <2> QED
    BY <1>1, <1>8, <2>1 DEF Crash, JobStep
<1> QED
  BY <1>2, <1>3, <1>4, <1>5, <1>6, <1>7, <1>8 DEF Manage, Handle

-----------------------------------------------------------------------------
(* Overlap.  The invocations of a job without a timeout that run although    *)
(* Bull does not wait for them: each one lost its lock, a stall of the job.  *)

Orphans(j) == {n \in Invocations : Running(j, n) /\ ~Current(j, n)}
OrphanInv == \A j \in Jobs \ Bulk : Cardinality(Orphans(j)) <= job[j].stalls

LEMMA InvocationsFinite ==
    ASSUME NEW S \in SUBSET Invocations
    PROVE  IsFiniteSet(S) /\ Cardinality(S) \in Nat
<1>1. IsFiniteSet(Invocations)
  BY FS_Interval DEF Invocations
<1> QED
  BY <1>1, FS_Subset, FS_CardinalityType

LEMMA OrphanInit == Init => OrphanInv
<1> SUFFICES ASSUME Init, NEW j \in Jobs PROVE Cardinality(Orphans(j)) <= job[j].stalls
  BY DEF OrphanInv
<1>1. Orphans(j) = {} /\ job[j].stalls = 0
  BY DEF Init, Orphans, Running, NoRun, NewJob
<1> QED
  BY <1>1, FS_EmptySet

LEMMA OrphanStep == TypeInv /\ OrphanInv /\ [Next]_vars => OrphanInv'
<1> SUFFICES ASSUME TypeInv, OrphanInv, [Next]_vars PROVE OrphanInv'
  OBVIOUS
<1>1. CASE UNCHANGED vars
  BY <1>1 DEF vars, OrphanInv, Orphans, Running, Current
<1> SUFFICES ASSUME NEW j \in Jobs, JobStep(j) PROVE OrphanInv'
  BY <1>1, NextIsJobStep
<1>2. ASSUME NEW i \in Jobs \ Bulk, i # j
      PROVE  Cardinality(Orphans(i))' <= job'[i].stalls
  <2>1. job'[i] = job[i] /\ run'[i] = run[i]
    BY <1>2 DEF JobStep, Started, Sending, Ending, Moving, RunSet
  <2>2. Orphans(i)' = Orphans(i)
    BY <2>1 DEF Orphans, Running, Current
  <2> QED
    BY <1>2, <2>1, <2>2 DEF OrphanInv
<1>3. ASSUME j \notin Bulk PROVE Cardinality(Orphans(j))' <= job'[j].stalls
  <2> DEFINE old == Orphans(j)
             new == Orphans(j)'
  <2>1. /\ job[j].stalls \in Nat /\ old \subseteq Invocations /\ new \subseteq Invocations
        /\ Cardinality(old) <= job[j].stalls
    BY <1>3 DEF TypeInv, JobInv, AnyJob, Orphans, OrphanInv
  <2>2. IsFiniteSet(old) /\ Cardinality(old) \in Nat /\ Cardinality(new) \in Nat
    BY <2>1, InvocationsFinite
  <2>3. ASSUME new \subseteq old, job'[j].stalls = job[j].stalls
        PROVE  Cardinality(new) <= job'[j].stalls
    <3> HIDE DEF old, new
    <3>1. Cardinality(new) <= Cardinality(old)
      BY <2>2, <2>3, FS_Subset
    <3> QED
      BY <2>1, <2>2, <2>3, <3>1
  <2>4. CASE Started(j)
    <3>1. PICK n \in Invocations :
            /\ job[j].state = "waiting" /\ job'[j].state = "active" /\ job'[j].started = n
            /\ job'[j].stalls = job[j].stalls /\ RunSet(j, n, "running", To[j], FALSE)
      BY <2>4 DEF Started
    <3>2. new \subseteq old
      BY <3>1 DEF RunSet, Orphans, Running, Current
    <3> QED
      BY <2>3, <3>1, <3>2
  <2>5. CASE Sending(j)
    <3>1. new \subseteq old /\ job'[j].stalls = job[j].stalls
      BY <2>5 DEF Sending, RunSet, Orphans, Running, Current
    <3> QED
      BY <2>3, <3>1
  <2>6. CASE Ending(j)
    <3>1. PICK n \in Invocations, pc \in {"ended", "dead"} :
            /\ Running(j, n) /\ RunSet(j, n, pc, {}, FALSE)
            /\ job'[j].started = job[j].started /\ job'[j].stalls = job[j].stalls
            /\ UNCHANGED job \/ Current(j, n)
      BY <2>6 DEF Ending
    <3>2. ASSUME NEW m \in new PROVE m \in old
      <4>1. m \in Invocations /\ Running(j, m)' /\ ~Current(j, m)'
        BY <3>2 DEF Orphans
      <4>2. m # n /\ Running(j, m)
        BY <3>1, <4>1 DEF RunSet, Running
      <4>3. ~Current(j, m)
        BY <3>1, <4>1, <4>2 DEF Current
      <4> QED
        BY <4>1, <4>2, <4>3 DEF Orphans
    <3> QED
      BY <2>3, <3>1, <3>2
  <2>7. CASE Moving(j)
    <3>1. \A m \in Invocations : Running(j, m)' <=> Running(j, m)
      BY <2>7 DEF Moving, Running
    <3>2. CASE job'[j].stalls = job[j].stalls /\ job[j].state # "active"
      <4>1. new \subseteq old
        BY <3>1, <3>2 DEF Orphans, Current
      <4> QED
        BY <2>3, <3>2, <4>1
    <3>3. CASE job'[j].stalls = job[j].stalls + 1
      <4>1. new \subseteq old \union {job[j].started}
        BY <2>7, <3>1, <3>3 DEF Orphans, Current, Moving
      <4> HIDE DEF old, new
      <4>2. /\ IsFiniteSet(old \union {job[j].started})
            /\ Cardinality(old \union {job[j].started}) <= Cardinality(old) + 1
        BY <2>2, FS_AddElement
      <4>3. Cardinality(new) <= Cardinality(old \union {job[j].started})
        BY <4>1, <4>2, FS_Subset
      <4>4. Cardinality(old \union {job[j].started}) \in Nat
        BY <4>2, FS_CardinalityType
      <4>5. Cardinality(new) <= job'[j].stalls
        BY <2>1, <2>2, <3>3, <4>2, <4>3, <4>4
      <4> QED
        BY <4>5 DEF new
    <3> QED
      BY <1>3, <2>7, <3>2, <3>3 DEF Moving, Timed
  <2> QED
    BY <2>4, <2>5, <2>6, <2>7 DEF JobStep
<1> QED
  BY <1>2, <1>3 DEF OrphanInv

(* OverlapHasCause: beside the invocation Bull waits for, a job runs again   *)
(* only once for each lock it lost; a bulk email also once for each attempt  *)
(* that timed out (email-queue.processor.ts: handleSendEmail,                *)
(* handleSendBulkEmail; email-queue.service.ts: the timeout of a bulk job).  *)
THEOREM OverlapsExplained == Spec => []OverlapHasCause
<1>1. ASSUME TypeInv, OrphanInv PROVE OverlapHasCause
  <2> SUFFICES ASSUME NEW j \in Jobs
               PROVE  Cardinality({n \in Invocations : Running(j, n)})
                        <= 1 + job[j].stalls + (IF j \in Bulk THEN job[j].made ELSE 0)
    BY DEF OverlapHasCause
  <2> DEFINE All == {n \in Invocations : Running(j, n)}
  <2>1. /\ job[j].started \in Nat /\ job[j].made \in Nat /\ job[j].stalls \in Nat
        /\ job[j].started <= job[j].made + job[j].stalls + 1
    BY <1>1 DEF TypeInv, JobInv, AnyJob, States, JobCounts
  <2>2. All \subseteq Invocations /\ Orphans(j) \subseteq Invocations
    BY DEF Orphans
  <2>3. /\ IsFiniteSet(Orphans(j)) /\ Cardinality(Orphans(j)) \in Nat
        /\ Cardinality(All) \in Nat
    BY <2>2, InvocationsFinite
  <2>4. CASE j \in Bulk
    <3>1. All \subseteq 1 .. job[j].started
      <4>1. \A n \in Invocations : n \in Nat /\ n >= 1
        BY DEF Invocations
      <4> QED
        BY <1>1, <2>1, <4>1 DEF Running, TypeInv, RunInv, RunFits
    <3>2. /\ IsFiniteSet(1 .. job[j].started)
          /\ Cardinality(1 .. job[j].started) = job[j].started
      <4>1. 1 \in Int /\ job[j].started \in Int /\ (1 > job[j].started <=> job[j].started = 0)
        BY <2>1
      <4>2. /\ IsFiniteSet(1 .. job[j].started)
            /\ Cardinality(1 .. job[j].started)
                 = IF 1 > job[j].started THEN 0 ELSE job[j].started - 1 + 1
        BY <4>1, FS_Interval
      <4> QED
        BY <2>1, <4>1, <4>2
    <3> HIDE DEF All
    <3>3. Cardinality(All) <= job[j].started
      BY <3>1, <3>2, FS_Subset
    <3> QED
      BY <2>1, <2>3, <2>4, <3>3 DEF All
  <2>5. CASE j \notin Bulk
    <3>1. All \subseteq Orphans(j) \union {job[j].started}
      BY DEF Orphans, Current
    <3> HIDE DEF All
    <3>2. /\ IsFiniteSet(Orphans(j) \union {job[j].started})
          /\ Cardinality(Orphans(j) \union {job[j].started}) <= Cardinality(Orphans(j)) + 1
      BY <2>3, FS_AddElement
    <3>3. Cardinality(All) <= Cardinality(Orphans(j) \union {job[j].started})
      BY <3>1, <3>2, FS_Subset
    <3>4. Cardinality(Orphans(j) \union {job[j].started}) \in Nat
      BY <3>2, FS_CardinalityType
    <3>5. Cardinality(Orphans(j)) <= job[j].stalls
      BY <1>1, <2>5 DEF OrphanInv
    <3> QED
      BY <2>1, <2>3, <2>5, <3>2, <3>3, <3>4, <3>5 DEF All
  <2> QED
    BY <2>4, <2>5
<1> QED
  BY <1>1, TypeInit, TypeStep, OrphanInit, OrphanStep, PTL DEF Spec

-----------------------------------------------------------------------------
(* Duplicates.  Each invocation sends a recipient at most one email: they    *)
(* are counted by the invocations that have the recipient behind them.       *)

Served(j, r) == {n \in Invocations : run[j][n].pc # "none" /\ r \notin run[j][n].todo}
CountInv == \A j \in Jobs : \A r \in To[j] : sent[j][r] <= Cardinality(Served(j, r))

LEMMA ServedFinite ==
    ASSUME NEW j \in Jobs, NEW r \in To[j]
    PROVE  IsFiniteSet(Served(j, r)) /\ Cardinality(Served(j, r)) \in Nat
<1>1. Served(j, r) \in SUBSET Invocations
  BY DEF Served
<1> QED
  BY <1>1, InvocationsFinite

LEMMA CountInit == Init => CountInv
<1> SUFFICES ASSUME Init, NEW j \in Jobs, NEW r \in To[j]
             PROVE  sent[j][r] <= Cardinality(Served(j, r))
  BY DEF CountInv
<1>1. sent[j][r] = 0
  BY DEF Init
<1> QED
  BY <1>1, ServedFinite

LEMMA CountStep == TypeInv /\ CountInv /\ [Next]_vars => CountInv'
<1> SUFFICES ASSUME TypeInv, CountInv, [Next]_vars PROVE CountInv'
  OBVIOUS
<1>1. CASE UNCHANGED vars
  BY <1>1 DEF vars, CountInv, Served
<1> SUFFICES ASSUME NEW j \in Jobs, JobStep(j) PROVE CountInv'
  BY <1>1, NextIsJobStep
<1>2. ASSUME NEW i \in Jobs, NEW r \in To[i], sent'[i][r] = sent[i][r],
             Served(i, r) \subseteq Served(i, r)', IsFiniteSet(Served(i, r)')
      PROVE  sent'[i][r] <= Cardinality(Served(i, r))'
  <2>1. /\ Cardinality(Served(i, r)) \in Nat /\ Cardinality(Served(i, r)') \in Nat
        /\ Cardinality(Served(i, r)) <= Cardinality(Served(i, r)')
    BY <1>2, ServedFinite, FS_Subset, FS_CardinalityType
  <2>2. sent[i][r] \in Nat /\ sent[i][r] <= Cardinality(Served(i, r))
    BY DEF TypeInv, SentInv, CountInv
  <2> QED
    BY <1>2, <2>1, <2>2
<1>3. \A i \in Jobs : \A r \in To[i] : IsFiniteSet(Served(i, r)')
  <2>1. IsFiniteSet(Invocations)
    BY FS_Interval DEF Invocations
  <2> QED
    BY <2>1, FS_Subset DEF Served
<1>4. ASSUME NEW i \in Jobs \ {j}, NEW r \in To[i]
      PROVE  sent'[i][r] <= Cardinality(Served(i, r))'
  <2>1. run'[i] = run[i] /\ sent'[i] = sent[i]
    BY DEF JobStep, Started, Sending, Ending, Moving, RunSet, SentMore
  <2> QED
    BY <1>2, <1>3, <2>1 DEF Served
<1>5. ASSUME NEW r \in To[j] PROVE sent'[j][r] <= Cardinality(Served(j, r))'
  <2>1. CASE Started(j)
    <3>1. PICK n \in Invocations :
            /\ n = job[j].started + 1
            /\ RunSet(j, n, "running", To[j], FALSE) /\ UNCHANGED sent
      BY <2>1 DEF Started
    <3>2. run[j][n].pc = "none"
      BY <3>1 DEF TypeInv, JobInv, AnyJob, RunInv, RunFits
    <3>3. Served(j, r) \subseteq Served(j, r)'
      BY <3>1, <3>2 DEF RunSet, Served
    <3> QED
      BY <1>2, <1>3, <3>1, <3>3
  <2>2. CASE Sending(j)
    <3>1. PICK n \in Invocations, q \in To[j] :
            /\ Running(j, n) /\ q \in run[j][n].todo
            /\ \E failed \in BOOLEAN : RunSet(j, n, "running", run[j][n].todo \ {q}, failed)
            /\ SentMore(j, q) \/ UNCHANGED sent
      BY <2>2 DEF Sending
    <3>2. Served(j, r) \subseteq Served(j, r)'
      BY <3>1 DEF RunSet, Served
    <3>3. CASE sent'[j][r] = sent[j][r]
      BY <1>2, <1>3, <3>2, <3>3
    <3>4. CASE q = r /\ SentMore(j, q)
      <4>1. n \notin Served(j, r) /\ Served(j, r)' = Served(j, r) \union {n}
        BY <3>1, <3>4 DEF RunSet, Served, Running
      <4>2. Cardinality(Served(j, r) \union {n}) = Cardinality(Served(j, r)) + 1
        BY <4>1, ServedFinite, FS_AddElement
      <4>3. Cardinality(Served(j, r)') = Cardinality(Served(j, r)) + 1
        BY <4>1, <4>2
      <4>4. sent'[j][r] = sent[j][r] + 1 /\ sent[j][r] \in Nat
            /\ sent[j][r] <= Cardinality(Served(j, r))
        BY <3>4 DEF SentMore, TypeInv, SentInv, CountInv
      <4> QED
        BY <4>3, <4>4, ServedFinite
    <3> QED
      BY <3>1, <3>3, <3>4 DEF SentMore
  <2>3. CASE Ending(j)
    <3>1. PICK n \in Invocations, pc \in {"ended", "dead"} :
            Running(j, n) /\ RunSet(j, n, pc, {}, FALSE) /\ UNCHANGED sent
      BY <2>3 DEF Ending
    <3>2. Served(j, r) \subseteq Served(j, r)'
      BY <3>1 DEF RunSet, Served
    <3> QED
      BY <1>2, <1>3, <3>1, <3>2
  <2>4. CASE Moving(j)
    BY <1>2, <1>3, <2>4 DEF Moving, Served
  <2> QED
    BY <2>1, <2>2, <2>3, <2>4 DEF JobStep
<1> QED
  BY <1>4, <1>5 DEF CountInv

(* DuplicatesHaveCause: for any number of attempts, a recipient gets at most *)
(* one email, and one more for each attempt that failed or timed out and     *)
(* each stall (email-queue.processor.ts: handleSendBulkEmail).               *)
THEOREM FewDuplicates == Spec => []DuplicatesHaveCause
<1>1. ASSUME TypeInv, CountInv PROVE DuplicatesHaveCause
  <2> SUFFICES ASSUME NEW j \in Jobs, NEW r \in To[j]
               PROVE  sent[j][r] <= job[j].made + job[j].stalls + 1
    BY DEF DuplicatesHaveCause
  <2>1. /\ job[j].started \in Nat /\ job[j].made \in Nat /\ job[j].stalls \in Nat
        /\ job[j].started <= job[j].made + job[j].stalls + 1
    BY <1>1 DEF TypeInv, JobInv, AnyJob, States, JobCounts
  <2>2. Served(j, r) \subseteq 1 .. job[j].started
    <3>1. \A n \in Invocations : n \in Nat /\ n >= 1
      BY DEF Invocations
    <3> QED
      BY <1>1, <2>1, <3>1 DEF Served, TypeInv, RunInv, RunFits
  <2>3. /\ IsFiniteSet(1 .. job[j].started)
        /\ Cardinality(1 .. job[j].started) = job[j].started
    <3>1. 1 \in Int /\ job[j].started \in Int /\ (1 > job[j].started <=> job[j].started = 0)
      BY <2>1
    <3>2. /\ IsFiniteSet(1 .. job[j].started)
          /\ Cardinality(1 .. job[j].started)
               = IF 1 > job[j].started THEN 0 ELSE job[j].started - 1 + 1
      BY <3>1, FS_Interval
    <3> QED
      BY <2>1, <3>1, <3>2
  <2>4. Cardinality(Served(j, r)) <= job[j].started
    BY <2>2, <2>3, FS_Subset
  <2>5. sent[j][r] \in Nat /\ sent[j][r] <= Cardinality(Served(j, r))
    BY <1>1 DEF TypeInv, SentInv, CountInv
  <2> QED
    BY <2>1, <2>4, <2>5, ServedFinite
<1> QED
  BY <1>1, TypeInit, TypeStep, CountInit, CountStep, PTL DEF Spec

-----------------------------------------------------------------------------
(* The refinement.  An invocation without an error has served everybody it   *)
(* does not still have to do.                                                *)

ServedInv ==
    \A j \in Jobs, n \in Invocations :
        Running(j, n) /\ ~run[j][n].failed =>
            \A r \in To[j] \ run[j][n].todo : sent[j][r] > 0

LEMMA ServedInit == Init => ServedInv
BY DEF Init, ServedInv, Running, NoRun

LEMMA ServedStep == TypeInv /\ ServedInv /\ [Next]_vars => ServedInv'
<1> SUFFICES ASSUME TypeInv, ServedInv, [Next]_vars PROVE ServedInv'
  OBVIOUS
<1>1. CASE UNCHANGED vars
  BY <1>1 DEF vars, ServedInv, Running
<1> SUFFICES ASSUME NEW j \in Jobs, JobStep(j) PROVE ServedInv'
  BY <1>1, NextIsJobStep
<1>2. ASSUME NEW i \in Jobs, NEW r \in To[i], sent[i][r] > 0 PROVE sent'[i][r] > 0
  <2>1. sent[i][r] \in Nat
    BY DEF TypeInv, SentInv
  <2>2. CASE UNCHANGED sent
    BY <1>2, <2>2
  <2>3. ASSUME NEW q \in To[j], SentMore(j, q) PROVE sent'[i][r] > 0
    <3>1. i # j \/ r # q => sent'[i][r] = sent[i][r]
      BY <2>3 DEF SentMore
    <3>2. i = j /\ r = q => sent'[i][r] = sent[i][r] + 1
      BY <2>3 DEF SentMore
    <3> QED
      BY <1>2, <2>1, <3>1, <3>2
  <2> QED
    BY <2>2, <2>3 DEF JobStep, Started, Sending, Ending, Moving
<1>3. ASSUME NEW i \in Jobs, NEW n \in Invocations, run'[i][n] = run[i][n],
             Running(i, n)', ~run'[i][n].failed,
             NEW r \in To[i] \ run'[i][n].todo
      PROVE  sent'[i][r] > 0
  BY <1>2, <1>3 DEF ServedInv, Running
<1>4. ASSUME NEW i \in Jobs \ {j} PROVE run'[i] = run[i]
  BY DEF JobStep, Started, Sending, Ending, Moving, RunSet
<1>5. ASSUME NEW m \in Invocations, Running(j, m)', ~run'[j][m].failed,
             NEW q \in To[j] \ run'[j][m].todo
      PROVE  sent'[j][q] > 0
  <2>1. CASE Started(j)
    <3>1. PICK n \in Invocations : RunSet(j, n, "running", To[j], FALSE)
      BY <2>1 DEF Started
    <3> QED
      BY <1>3, <1>5, <3>1 DEF RunSet
  <2>2. CASE Sending(j)
    <3>1. PICK n \in Invocations, r \in To[j], failed \in BOOLEAN :
            /\ Running(j, n) /\ r \in run[j][n].todo
            /\ RunSet(j, n, "running", run[j][n].todo \ {r}, failed)
            /\ SentMore(j, r) \/ (failed /\ UNCHANGED sent)
            /\ ~failed => ~run[j][n].failed
      BY <2>2 DEF Sending
    <3>2. CASE m # n
      BY <1>3, <1>5, <3>1, <3>2 DEF RunSet
    <3>3. CASE m = n
      <4>1. ~failed /\ run'[j][n].todo = run[j][n].todo \ {r}
        BY <1>5, <3>1, <3>3 DEF RunSet
      <4>2. SentMore(j, r) /\ sent[j][r] \in Nat
        BY <3>1, <4>1 DEF TypeInv, SentInv
      <4>3. q # r => sent[j][q] > 0
        BY <1>5, <3>1, <3>3, <4>1 DEF ServedInv
      <4>4. sent'[j][r] > 0
        BY <4>2 DEF SentMore
      <4> QED
        BY <1>2, <4>3, <4>4
    <3> QED
      BY <3>2, <3>3
  <2>3. CASE Ending(j)
    <3>1. PICK n \in Invocations, pc \in {"ended", "dead"} : RunSet(j, n, pc, {}, FALSE)
      BY <2>3 DEF Ending
    <3> QED
      BY <1>3, <1>5, <3>1 DEF RunSet, Running
  <2>4. CASE Moving(j)
    BY <1>3, <1>5, <2>4 DEF Moving
  <2> QED
    BY <2>1, <2>2, <2>3, <2>4 DEF JobStep
<1> QED
  BY <1>3, <1>4, <1>5 DEF ServedInv

LEMMA RefineInit == Init => Delivery!Init
<1> SUFFICES ASSUME Init PROVE Delivery!Init
  OBVIOUS
<1>1. \A j \in Jobs : job[j].state = "none"
  BY DEF Init, NewJob
<1>2. statusOf = [j \in Jobs |-> "none"]
  BY <1>1 DEF statusOf
<1>3. \A j \in Jobs : {r \in To[j] : sent[j][r] > 0} = {}
  BY DEF Init
<1>4. gotOf = [j \in Jobs |-> {}]
  BY <1>3 DEF gotOf
<1> QED
  BY <1>2, <1>4 DEF Delivery!Init

(* How a step of one job looks from outside.                                 *)
LEMMA StatusOf ==
    ASSUME NEW j \in Jobs
    PROVE  /\ job[j].state = "none" => statusOf[j] = "none"
           /\ job[j].state \in {"waiting", "active", "delayed"} => statusOf[j] = "pending"
           /\ job[j].state = "completed" => statusOf[j] = "completed"
           /\ job[j].state = "failed" => statusOf[j] = "failed"
BY DEF statusOf

LEMMA RefineStep == TypeInv /\ ServedInv /\ [Next]_vars => [Delivery!Next]_(Delivery!vars)
<1> SUFFICES ASSUME TypeInv, ServedInv, [Next]_vars PROVE [Delivery!Next]_(Delivery!vars)
  OBVIOUS
<1>1. CASE UNCHANGED vars
  BY <1>1 DEF vars, Delivery!vars, statusOf, gotOf
<1> SUFFICES ASSUME NEW j \in Jobs, JobStep(j) PROVE [Delivery!Next]_(Delivery!vars)
  BY <1>1, NextIsJobStep
<1>2. /\ job \in [Jobs -> AnyJob] /\ job' \in [Jobs -> AnyJob]
      /\ \A i \in Jobs \ {j} : job'[i] = job[i] /\ sent'[i] = sent[i]
  BY DEF TypeInv, JobInv, JobStep, Started, Sending, Ending, Moving, SentMore
<1>3. statusOf' = [statusOf EXCEPT ![j] = statusOf'[j]]
  BY <1>2 DEF statusOf
<1>4. /\ job'[j].state = "none" => statusOf'[j] = "none"
      /\ job'[j].state \in {"waiting", "active", "delayed"} => statusOf'[j] = "pending"
      /\ job'[j].state = "completed" => statusOf'[j] = "completed"
      /\ job'[j].state = "failed" => statusOf'[j] = "failed"
  BY DEF statusOf
<1>5. statusOf'[j] = statusOf[j] => UNCHANGED statusOf
  <2>1. PICK f : f = statusOf /\ f = [i \in Jobs |-> f[i]]
    BY DEF statusOf
  <2>2. statusOf'[j] = f[j] => statusOf' = [f EXCEPT ![j] = f[j]]
    BY <1>3, <2>1
  <2>3. [f EXCEPT ![j] = f[j]] = f
    BY <2>1
  <2> QED
    BY <2>1, <2>2, <2>3
<1>6. UNCHANGED sent => UNCHANGED gotOf
  BY DEF gotOf
<1>7. ASSUME statusOf[j] = "pending", statusOf'[j] = "failed", UNCHANGED sent
      PROVE  Delivery!Next
  <2>1. Delivery!Fail(j)
    BY <1>3, <1>6, <1>7 DEF Delivery!Fail
  <2> QED
    BY <2>1 DEF Delivery!Next, Delivery!End
<1>8. CASE Started(j)
  BY <1>4, <1>5, <1>6, <1>8, StatusOf DEF Started, Delivery!vars
<1>9. CASE Sending(j)
  <2>1. PICK n \in Invocations, r \in To[j] :
          /\ Running(j, n) /\ r \in run[j][n].todo /\ UNCHANGED job
          /\ SentMore(j, r) \/ UNCHANGED sent
    BY <1>9 DEF Sending
  <2>2. UNCHANGED statusOf
    BY <2>1 DEF statusOf
  <2>3. statusOf[j] # "none"
    <3>1. job[j].state # "none"
      BY <2>1 DEF Running, TypeInv, JobInv, JobCounts, RunInv, RunFits, Invocations
    <3> QED
      BY <1>2, <3>1, StatusOf DEF AnyJob, States
  <2>4. CASE SentMore(j, r)
    <3>1. /\ gotOf'[j] = gotOf[j] \union {r}
      BY <2>4 DEF gotOf, SentMore, TypeInv, SentInv
    <3>2. \A i \in Jobs \ {j} : gotOf'[i] = gotOf[i]
      BY <2>4 DEF gotOf, SentMore
    <3>3. gotOf' = [gotOf EXCEPT ![j] = @ \union {r}]
      BY <3>1, <3>2 DEF gotOf
    <3>4. Delivery!Deliver(j, r)
      BY <2>2, <2>3, <3>3 DEF Delivery!Deliver
    <3> QED
      BY <3>4 DEF Delivery!Next
  <2>5. CASE UNCHANGED sent
    BY <1>6, <2>2, <2>5 DEF Delivery!vars
  <2> QED
    BY <2>1, <2>4, <2>5
<1>10. CASE Ending(j)
  <2>1. PICK n \in Invocations :
          /\ Running(j, n) /\ UNCHANGED sent
          /\ \/ UNCHANGED job
             \/ /\ Current(j, n)
                /\ \/ job'[j].state \in {"delayed", "failed"}
                   \/ /\ job'[j].state = "completed" /\ ~run[j][n].failed
                      /\ run[j][n].todo = {}
    BY <1>10 DEF Ending
  <2>2. CASE UNCHANGED job
    BY <1>6, <2>1, <2>2 DEF statusOf, Delivery!vars
  <2>3. CASE Current(j, n)
    <3>1. statusOf[j] = "pending" /\ UNCHANGED gotOf
      BY <1>6, <2>1, <2>3, StatusOf DEF Current
    <3>2. CASE job'[j].state = "delayed"
      BY <1>4, <1>5, <3>1, <3>2 DEF Delivery!vars
    <3>3. CASE job'[j].state = "failed"
      BY <1>4, <1>7, <2>1, <3>1, <3>3
    <3>4. CASE job'[j].state = "completed" /\ ~run[j][n].failed /\ run[j][n].todo = {}
      <4>1. \A r \in To[j] : sent[j][r] > 0
        BY <2>1, <3>4 DEF ServedInv
      <4>2. gotOf[j] = To[j]
        BY <4>1 DEF gotOf
      <4>3. Delivery!Complete(j)
        BY <1>3, <1>4, <3>1, <3>4, <4>2 DEF Delivery!Complete
      <4> QED
        BY <4>3 DEF Delivery!Next, Delivery!End
    <3> QED
      BY <1>6, <2>1, <2>2, <3>2, <3>3, <3>4
  <2> QED
    BY <2>1, <2>2, <2>3
<1>11. CASE Moving(j)
  <2>1. UNCHANGED sent /\ UNCHANGED gotOf
    BY <1>6, <1>11 DEF Moving
  <2>2. CASE job[j].state = "none" /\ job'[j].state = "waiting"
    <3>1. Delivery!Submit(j)
      BY <1>3, <1>4, <2>1, <2>2, StatusOf DEF Delivery!Submit
    <3> QED
      BY <3>1 DEF Delivery!Next
  <2>3. CASE job[j].state \in {"active", "delayed"} /\ job'[j].state \in {"waiting", "delayed"}
    BY <1>4, <1>5, <2>1, <2>3, StatusOf DEF Delivery!vars
  <2>4. CASE job[j].state = "active" /\ job'[j].state = "failed"
    BY <1>4, <1>7, <2>1, <2>4, StatusOf
  <2> QED
    BY <1>11, <2>2, <2>3, <2>4 DEF Moving
<1> QED
  BY <1>8, <1>9, <1>10, <1>11 DEF JobStep

(* The queue implements MailDelivery but for its liveness: a job reported    *)
(* completed reached every recipient, and a job that ended stays ended       *)
(* (email-queue.processor.ts: handleSendBulkEmail).                          *)
THEOREM ImplementsSafely == Spec => Delivery!Safety
<1> QED
  BY TypeInit, TypeStep, ServedInit, ServedStep, RefineInit, RefineStep, PTL
     DEF Spec, Delivery!Safety

HIDE QueueAssumption

-----------------------------------------------------------------------------
(* The notification scheduler: besides the types, no timer is empty, so that *)
(* the one that fires has a first callback; what is left of a batch stands   *)
(* behind a callback that was called.                                        *)

NotifyInv ==
    /\ NotifyTypeOK
    /\ \A i \in DOMAIN timers : timers[i] # <<>>
    /\ running # <<>> => called # {}

LEMMA NotifyInvInit == NotifyInit => NotifyInv
BY NotifyAssumption DEF NotifyInit, NotifyInv, NotifyTypeOK

\* A timer appended is the last; the others keep their places.
LEMMA TimerAppended ==
  ASSUME NEW t \in Seq(Callbacks), t # <<>>, NotifyInv, timers' = Append(timers, t)
  PROVE  timers' \in Seq(Seq(Callbacks)) /\ \A i \in DOMAIN timers' : timers'[i] # <<>>
<1>1. timers \in Seq(Seq(Callbacks)) /\ \A i \in DOMAIN timers : timers[i] # <<>>
  BY DEF NotifyInv, NotifyTypeOK
<1>2. timers' \in Seq(Seq(Callbacks))
  BY <1>1
<1>3. ASSUME NEW i \in DOMAIN timers' PROVE timers'[i] # <<>>
  <2>1. i \in 1..Len(timers) + 1
    BY <1>1, <1>3
  <2>2. CASE i = Len(timers) + 1
    BY <1>1, <2>2
  <2>3. CASE i \in 1..Len(timers)
    <3>1. timers'[i] = timers[i] /\ i \in DOMAIN timers
      BY <1>1, <2>3
    <3> QED
      BY <1>1, <3>1
  <2> QED
    BY <2>1, <2>2, <2>3
<1> QED
  BY <1>2, <1>3

LEMMA FlushKeeps ==
  ASSUME NotifyInv, Flush
  PROVE  /\ queue' = <<>>
         /\ timers' \in Seq(Seq(Callbacks)) /\ \A i \in DOMAIN timers' : timers'[i] # <<>>
<1>1. CASE queue = <<>>
  BY <1>1 DEF Flush, NotifyInv, NotifyTypeOK
<1>2. CASE queue # <<>>
  BY <1>2, TimerAppended DEF Flush, NotifyInv, NotifyTypeOK
<1> QED
  BY <1>1, <1>2

LEMMA NotifyInvStep == NotifyInv /\ [NotifyNext]_notifyVars => NotifyInv'
<1> SUFFICES ASSUME NotifyInv, [NotifyNext]_notifyVars PROVE NotifyInv'
  OBVIOUS
<1> USE NotifyAssumption
<1>1. /\ transactions \in 0..Depth /\ queue \in Seq(Callbacks)
      /\ timers \in Seq(Seq(Callbacks)) /\ running \in Seq(Callbacks)
      /\ called \subseteq Callbacks /\ lost \subseteq Callbacks
      /\ transactions = 0 => queue = <<>>
      /\ \A i \in DOMAIN timers : timers[i] # <<>>
      /\ running # <<>> => called # {}
  BY DEF NotifyInv, NotifyTypeOK
<1>2. CASE BatchBegin
  BY <1>1, <1>2 DEF BatchBegin, NotifyInv, NotifyTypeOK
<1>3. CASE BatchEnd
  <2>1. CASE transactions = 1
    <3>1. Flush /\ transactions' = 0 /\ UNCHANGED <<running, called, lost>>
      BY <1>3, <2>1 DEF BatchEnd
    <3>2. /\ queue' = <<>>
          /\ timers' \in Seq(Seq(Callbacks)) /\ \A i \in DOMAIN timers' : timers'[i] # <<>>
      BY <3>1, FlushKeeps
    <3> QED
      BY <1>1, <3>1, <3>2 DEF NotifyInv, NotifyTypeOK
  <2>2. CASE transactions # 1
    <3>1. /\ transactions' = transactions - 1 /\ transactions' \in 1..Depth
          /\ UNCHANGED <<queue, timers, running, called, lost>>
      BY <1>1, <1>3, <2>2 DEF BatchEnd
    <3> QED
      BY <1>1, <3>1 DEF NotifyInv, NotifyTypeOK
  <2> QED
    BY <2>1, <2>2
<1>4. CASE Throw
  <2>1. Flush /\ transactions' = 0 /\ running' = <<>> /\ UNCHANGED called
    BY <1>4 DEF Throw, InFinally
  <2>2. lost' \subseteq Callbacks
    BY <1>1, <1>4 DEF Throw, Range
  <2>3. /\ queue' = <<>>
        /\ timers' \in Seq(Seq(Callbacks)) /\ \A i \in DOMAIN timers' : timers'[i] # <<>>
    BY <2>1, FlushKeeps
  <2> QED
    BY <1>1, <2>1, <2>2, <2>3 DEF NotifyInv, NotifyTypeOK
<1>5. ASSUME NEW c \in Callbacks, Schedule(c) PROVE NotifyInv'
  <2>1. UNCHANGED <<transactions, running, called, lost>>
    BY <1>5 DEF Schedule
  <2>2. CASE InBatch
    <3>1. queue' = Append(queue, c) /\ UNCHANGED timers /\ transactions > 0
      BY <1>5, <2>2 DEF Schedule, InBatch
    <3> QED
      BY <1>1, <2>1, <3>1 DEF NotifyInv, NotifyTypeOK
  <2>3. CASE ~InBatch
    <3>1. timers' = Append(timers, <<c>>) /\ UNCHANGED queue
      BY <1>5, <2>3 DEF Schedule
    <3>2. <<c>> \in Seq(Callbacks) /\ <<c>> # <<>>
      OBVIOUS
    <3> QED
      BY <1>1, <2>1, <3>1, <3>2, TimerAppended DEF NotifyInv, NotifyTypeOK
  <2> QED
    BY <2>2, <2>3
<1>6. CASE Fire
  <2>1. /\ timers # <<>> /\ UNCHANGED <<transactions, queue, lost>>
        /\ called' = called \union {Head(Head(timers))}
        /\ running' = Tail(Head(timers)) /\ timers' = Tail(timers)
    BY <1>6 DEF Fire
  <2>2. Head(timers) \in Seq(Callbacks) /\ Head(timers) # <<>>
    BY <1>1, <2>1
  <2>3. Head(Head(timers)) \in Callbacks /\ Tail(Head(timers)) \in Seq(Callbacks)
    BY <2>2
  <2>4. timers' \in Seq(Seq(Callbacks)) /\ \A i \in DOMAIN timers' : timers'[i] # <<>>
    BY <1>1, <2>1
  <2> QED
    BY <1>1, <2>1, <2>3, <2>4 DEF NotifyInv, NotifyTypeOK
<1>7. CASE CallNext
  BY <1>1, <1>7 DEF CallNext, NotifyInv, NotifyTypeOK
<1>8. CASE UNCHANGED notifyVars
  BY <1>8 DEF notifyVars, NotifyInv, NotifyTypeOK
<1> QED
  BY <1>2, <1>3, <1>4, <1>5, <1>6, <1>7, <1>8 DEF NotifyNext

(* However batches nest and whatever throws, outside a batch nothing is left *)
(* in the queue, where no timer would call it (schedule.util.ts: batch and   *)
(* flush).                                                                   *)
THEOREM NothingForgotten == NotifySpec => []NotifyTypeOK
<1>1. NotifyInv => NotifyTypeOK
  BY DEF NotifyInv
<1> QED
  BY <1>1, NotifyInvInit, NotifyInvStep, PTL DEF NotifySpec

-----------------------------------------------------------------------------
(* FlattenSeq, which the refinement of Notifications rests on.  The library  *)
(* gives induction for an operator; that a set of numbers has a least        *)
(* element gives it for a set, which is all that is needed here.             *)

LEMMA NatSetInduction ==
  ASSUME NEW A \in SUBSET Nat, 0 \in A, \A n \in A : n + 1 \in A
  PROVE  A = Nat
<1> SUFFICES ASSUME Nat \ A # {} PROVE FALSE
  OBVIOUS
<1> DEFINE Less == {ss \in Nat \X Nat : ss[1] < ss[2]}
<1>1. IsWellFoundedOn(Less, Nat)
  BY NatLessThanWellFounded DEF OpToRel
<1> HIDE DEF Less
<1>2. PICK m \in Nat \ A : \A y \in Nat \ A : <<y, m>> \notin Less
  BY <1>1, WFMin
<1>3. \A y \in Nat \ A : ~(y < m)
  BY <1>2 DEF Less
<1>4. m # 0
  OBVIOUS
<1>5. m - 1 \in Nat /\ m - 1 < m
  BY <1>4
<1>6. m - 1 \in A
  BY <1>3, <1>5
<1>7. m - 1 + 1 \in A
  BY <1>6
<1> QED
  BY <1>7

\* f is the function that FlattenSeq(ts) defines, as far as n.
Flattens(h, xs, k) ==
    \A j \in 1..k : h[j] = IF j = 1 THEN xs[j] ELSE h[j - 1] \o xs[j]

Agree(xs, ys, k) == \A i \in 1..k : xs[i] = ys[i]

LEMMA FlattensFirst ==
  ASSUME NEW h, NEW xs, NEW k \in Nat \ {0}, Flattens(h, xs, k)
  PROVE  h[1] = xs[1]
<1>1. 1 \in 1..k
  OBVIOUS
<1> QED
  BY <1>1 DEF Flattens

LEMMA FlattensNext ==
  ASSUME NEW h, NEW xs, NEW k, Flattens(h, xs, k),
         NEW j \in Nat, j # 0, j + 1 \in 1..k
  PROVE  h[j + 1] = h[j] \o xs[j + 1]
<1>1. j + 1 # 1 /\ j + 1 - 1 = j
  OBVIOUS
<1>2. h[j + 1] = IF j + 1 = 1 THEN xs[j + 1] ELSE h[j + 1 - 1] \o xs[j + 1]
  BY DEF Flattens
<1> QED
  BY <1>1, <1>2

LEMMA FlattenUnique ==
  ASSUME NEW h1, NEW h2, NEW xs, NEW ys, NEW k \in Nat \ {0},
         Flattens(h1, xs, k), Flattens(h2, ys, k), Agree(xs, ys, k)
  PROVE  h1[k] = h2[k]
<1> DEFINE A == {m \in Nat : m \in 1..k => h1[m] = h2[m]}
<1>1. 0 \in A
  OBVIOUS
<1>2. ASSUME NEW m \in A PROVE m + 1 \in A
  <2>1. CASE m + 1 \in 1..k
    <3>1. h1[m + 1] = (IF m + 1 = 1 THEN xs[m + 1] ELSE h1[m + 1 - 1] \o xs[m + 1])
      BY <2>1 DEF Flattens
    <3>2. h2[m + 1] = (IF m + 1 = 1 THEN ys[m + 1] ELSE h2[m + 1 - 1] \o ys[m + 1])
      BY <2>1 DEF Flattens
    <3>3. m + 1 - 1 = m /\ xs[m + 1] = ys[m + 1] /\ (m + 1 # 1 => h1[m] = h2[m])
      BY <2>1 DEF Agree
    <3> QED
      BY <3>1, <3>2, <3>3
  <2> QED
    BY <2>1
<1> HIDE DEF A
<1>3. A \in SUBSET Nat
  BY DEF A
<1>4. A = Nat
  BY <1>1, <1>2, <1>3, NatSetInduction
<1>5. k \in A /\ k \in 1..k
  BY <1>4
<1> QED
  BY <1>5 DEF A

LEMMA FlattenExists ==
  ASSUME NEW S, NEW ts \in Seq(Seq(S)), NEW k \in 0..Len(ts)
  PROVE  \E f \in [1..k -> Seq(S)] : Flattens(f, ts, k)
<1> DEFINE A == {n \in Nat : n <= Len(ts) => \E f \in [1..n -> Seq(S)] : Flattens(f, ts, n)}
<1>1. 0 \in A
  <2>1. [i \in 1..0 |-> <<>>] \in [1..0 -> Seq(S)] /\ Flattens([i \in 1..0 |-> <<>>], ts, 0)
    BY DEF Flattens
  <2> QED
    BY <2>1
<1>2. ASSUME NEW n \in A PROVE n + 1 \in A
  <2> SUFFICES ASSUME n + 1 <= Len(ts)
               PROVE  \E f \in [1..n + 1 -> Seq(S)] : Flattens(f, ts, n + 1)
    OBVIOUS
  <2>1. PICK f \in [1..n -> Seq(S)] : Flattens(f, ts, n)
    OBVIOUS
  <2>2. PICK t \in Seq(S) : t = ts[n + 1]
    OBVIOUS
  <2>3. PICK u \in Seq(S) : u = IF n = 0 THEN t ELSE f[n] \o t
    <3>1. CASE n = 0
      BY <3>1
    <3>2. CASE n # 0
      <4>1. f[n] \in Seq(S)
        BY <3>2
      <4>2. f[n] \o t \in Seq(S)
        BY <4>1
      <4> QED
        BY <3>2, <4>2
    <3> QED
      BY <3>1, <3>2
  <2> DEFINE g == [i \in 1..n + 1 |-> IF i = n + 1 THEN u ELSE f[i]]
  <2>4. g \in [1..n + 1 -> Seq(S)]
    OBVIOUS
  <2>5. g[n + 1] = u /\ \A i \in 1..n : g[i] = f[i]
    OBVIOUS
  <2> HIDE DEF g
  <2>6. ASSUME NEW i \in 1..n + 1
        PROVE  g[i] = IF i = 1 THEN ts[i] ELSE g[i - 1] \o ts[i]
    <3>1. CASE i \in 1..n
      <4>1. f[i] = IF i = 1 THEN ts[i] ELSE f[i - 1] \o ts[i]
        BY <2>1, <3>1 DEF Flattens
      <4>2. i # 1 => i - 1 \in 1..n
        BY <3>1
      <4> QED
        BY <2>5, <3>1, <4>1, <4>2
    <3>2. CASE i = n + 1
      <4>1. i # 1 => n # 0 /\ i - 1 = n /\ n \in 1..n
        BY <3>2
      <4> QED
        BY <2>2, <2>3, <2>5, <3>2, <4>1
    <3> QED
      BY <3>1, <3>2
  <2> QED
    BY <2>4, <2>6 DEF Flattens
<1> HIDE DEF A
<1>3. A \in SUBSET Nat
  BY DEF A
<1>4. A = Nat
  BY <1>1, <1>2, <1>3, NatSetInduction
<1>5. k \in A /\ k <= Len(ts)
  BY <1>4
<1> QED
  BY <1>5 DEF A

LEMMA FlattenedBy ==
  ASSUME NEW S, NEW ts \in Seq(Seq(S)), ts # <<>>
  PROVE  \E f \in [1..Len(ts) -> Seq(S)] :
           Flattens(f, ts, Len(ts)) /\ FlattenSeq(ts) = f[Len(ts)]
<1> DEFINE Def(f) == [i \in 1..Len(ts) |-> IF i = 1 THEN ts[i] ELSE f[i - 1] \o ts[i]]
           F == CHOOSE f : f = Def(f)
<1>1. Len(ts) \in Nat /\ Len(ts) # 0 /\ Len(ts) \in 0..Len(ts)
  OBVIOUS
<1>2. PICK g \in [1..Len(ts) -> Seq(S)] : Flattens(g, ts, Len(ts))
  BY <1>1, FlattenExists
<1>3. g = Def(g)
  BY <1>2 DEF Flattens
<1>4. F = Def(F)
  BY <1>3, Zenon
<1>5. FlattenSeq(ts) = F[Len(ts)]
  BY <1>1 DEF FlattenSeq
<1> HIDE DEF F
<1>6. Flattens(F, ts, Len(ts))
  BY <1>4 DEF Flattens
<1>7. Agree(ts, ts, Len(ts)) /\ Len(ts) \in Nat \ {0}
  BY <1>1 DEF Agree
<1>8. F[Len(ts)] = g[Len(ts)]
  BY <1>2, <1>6, <1>7, FlattenUnique
<1>9. FlattenSeq(ts) = g[Len(ts)]
  BY <1>5, <1>8
<1> QED
  BY <1>2, <1>9

LEMMA FlattenEmpty == FlattenSeq(<<>>) = <<>>
BY DEF FlattenSeq

LEMMA FlattenTyped ==
  ASSUME NEW S, NEW ts \in Seq(Seq(S)) PROVE FlattenSeq(ts) \in Seq(S)
<1>1. CASE ts = <<>>
  <2>1. FlattenSeq(ts) = <<>>
    BY <1>1, FlattenEmpty, Zenon
  <2> QED
    BY <2>1
<1>2. CASE ts # <<>>
  <2>1. PICK f \in [1..Len(ts) -> Seq(S)] : FlattenSeq(ts) = f[Len(ts)]
    BY <1>2, FlattenedBy
  <2>2. Len(ts) \in 1..Len(ts)
    BY <1>2
  <2> QED
    BY <2>1, <2>2
<1> QED
  BY <1>1, <1>2

\* What is appended comes last.
LEMMA FlattenAppend ==
  ASSUME NEW S, NEW ts \in Seq(Seq(S)), NEW t \in Seq(S)
  PROVE  FlattenSeq(Append(ts, t)) = FlattenSeq(ts) \o t
<1>1. PICK us \in Seq(Seq(S)) : us = Append(ts, t)
  BY AppendProperties
<1>2. PICK n \in Nat : n = Len(ts)
  OBVIOUS
<1>3. us # <<>> /\ Len(us) = n + 1
  BY <1>1, <1>2, AppendProperties
<1>4. us[n + 1] = t /\ \A i \in 1..n : us[i] = ts[i]
  BY <1>1, <1>2, AppendProperties
<1>5. n + 1 \in 1..n + 1
  OBVIOUS
<1>6. PICK g \in [1..n + 1 -> Seq(S)] :
        Flattens(g, us, n + 1) /\ FlattenSeq(us) = g[n + 1]
  <2>1. \E g \in [1..Len(us) -> Seq(S)] :
          Flattens(g, us, Len(us)) /\ FlattenSeq(us) = g[Len(us)]
    BY <1>3, FlattenedBy
  <2> QED
    BY <1>3, <2>1
<1>7. Flattens(g, us, n + 1)
  BY <1>6
<1>8. CASE n = 0
  <2>1. ts = <<>>
    BY <1>2, <1>8, EmptySeq
  <2>2. FlattenSeq(us) = t
    <3>1. n + 1 \in Nat \ {0}
      OBVIOUS
    <3>2. g[1] = us[1]
      BY <1>7, <3>1, FlattensFirst
    <3> QED
      BY <1>4, <1>6, <1>8, <3>2
  <2>3. FlattenSeq(ts) = <<>>
    BY <2>1, FlattenEmpty, Zenon
  <2>4. <<>> \o t = t
    BY ConcatEmptySeq
  <2> QED
    BY <1>1, <2>2, <2>3, <2>4
<1>9. CASE n # 0
  <2>1. ts # <<>>
    BY <1>2, <1>9
  <2>2. PICK f \in [1..n -> Seq(S)] : Flattens(f, ts, n) /\ FlattenSeq(ts) = f[n]
    BY <1>2, <2>1, FlattenedBy
  <2>3. Flattens(g, us, n)
    <3>1. \A i \in 1..n : i \in 1..n + 1
      OBVIOUS
    <3> QED
      BY <1>6, <3>1 DEF Flattens
  <2>4. Flattens(f, ts, n) /\ n \in Nat \ {0}
    BY <1>9, <2>2
  <2>5. g[n] = f[n]
    <3>1. Agree(us, ts, n)
      BY <1>4 DEF Agree
    <3> QED
      BY <2>3, <2>4, <3>1, FlattenUnique
  <2>6. g[n + 1] = g[n] \o us[n + 1]
    BY <1>5, <1>7, <1>9, FlattensNext
  <2>7. FlattenSeq(us) = f[n] \o t
    BY <1>4, <1>6, <2>5, <2>6
  <2> QED
    BY <1>1, <2>2, <2>7
<1> QED
  BY <1>8, <1>9

\* The first comes first.
LEMMA FlattenHead ==
  ASSUME NEW S, NEW ts \in Seq(Seq(S)), ts # <<>>
  PROVE  FlattenSeq(ts) = Head(ts) \o FlattenSeq(Tail(ts))
<1>1. PICK us \in Seq(Seq(S)) : us = Tail(ts)
  BY HeadTailProperties
<1>2. PICK n \in Nat : n = Len(us) /\ Len(ts) = n + 1
  <2>1. Len(us) = Len(ts) - 1 /\ Len(us) \in Nat /\ Len(ts) \in Nat
    BY <1>1, HeadTailProperties, LenProperties
  <2> QED
    BY <2>1
<1>3. PICK t \in Seq(S) : t = Head(ts) /\ t = ts[1]
  BY HeadTailProperties
<1>4. \A i \in 1..n : us[i] = ts[i + 1] /\ us[i] \in Seq(S)
  BY <1>1, <1>2, HeadTailProperties, ElementOfSeq
<1>5. PICK f \in [1..n + 1 -> Seq(S)] :
        Flattens(f, ts, n + 1) /\ FlattenSeq(ts) = f[n + 1]
  <2>1. \E f \in [1..Len(ts) -> Seq(S)] :
          Flattens(f, ts, Len(ts)) /\ FlattenSeq(ts) = f[Len(ts)]
    BY FlattenedBy
  <2> QED
    BY <1>2, <2>1
<1>6. f[1] = t
  <2>1. n + 1 \in Nat \ {0}
    OBVIOUS
  <2>2. f[1] = ts[1]
    BY <1>5, <2>1, FlattensFirst
  <2> QED
    BY <1>3, <2>2
<1>7. CASE n = 0
  <2>1. FlattenSeq(ts) = t
    BY <1>5, <1>6, <1>7
  <2>2. us = <<>>
    BY <1>2, <1>7, EmptySeq
  <2>3. FlattenSeq(us) = <<>>
    BY <2>2, FlattenEmpty, Zenon
  <2>4. t \o <<>> = t
    BY ConcatEmptySeq
  <2> QED
    BY <1>1, <1>3, <2>1, <2>3, <2>4
<1>8. CASE n # 0
  <2>1. us # <<>>
    BY <1>2, <1>8
  <2>2. PICK g \in [1..n -> Seq(S)] : Flattens(g, us, n) /\ FlattenSeq(us) = g[n]
    BY <1>2, <2>1, FlattenedBy
  <2> DEFINE A == {m \in Nat : m \in 1..n => f[m + 1] = t \o g[m]}
  <2>3. 0 \in A
    OBVIOUS
  <2>4. ASSUME NEW m \in A PROVE m + 1 \in A
    <3>1. m \in Nat /\ (m \in 1..n => f[m + 1] = t \o g[m])
      OBVIOUS
    <3> HIDE DEF A
    <3>2. ASSUME m + 1 \in 1..n PROVE f[m + 2] = t \o g[m + 1]
      <4>1. /\ m + 1 \in Nat /\ m + 1 # 0 /\ m + 1 + 1 \in 1..n + 1
            /\ m + 1 + 1 = m + 2
        BY <3>1, <3>2
      <4>2. f[m + 2] = f[m + 1] \o ts[m + 2]
        <5>1. f[m + 1 + 1] = f[m + 1] \o ts[m + 1 + 1]
          BY <1>5, <4>1, FlattensNext
        <5> QED
          BY <4>1, <5>1
      <4>3. Flattens(g, us, n)
        BY <2>2
      <4>4. PICK u \in Seq(S) : us[m + 1] = u /\ ts[m + 2] = u
        <5>1. us[m + 1] \in Seq(S) /\ ts[m + 1 + 1] = us[m + 1]
          BY <1>4, <4>1, <3>2
        <5> QED
          BY <4>1, <5>1
      <4>5. CASE m = 0
        <5>1. n \in Nat \ {0}
          BY <1>8
        <5>2. g[1] = us[1]
          BY <4>3, <5>1, FlattensFirst
        <5>3. m + 1 = 1 /\ f[m + 1] = t /\ g[m + 1] = u
          BY <1>6, <4>4, <4>5, <5>2
        <5> QED
          BY <4>2, <4>4, <5>3
      <4>6. CASE m # 0
        <5>1. m \in 1..n
          BY <3>1, <3>2, <4>6
        <5>2. PICK v \in Seq(S) : v = g[m]
          BY <5>1
        <5>3. f[m + 1] = t \o v
          BY <3>1, <5>1, <5>2
        <5>4. g[m + 1] = g[m] \o us[m + 1]
          BY <3>1, <3>2, <4>3, <4>6, FlattensNext
        <5>5. g[m + 1] = v \o u
          BY <4>4, <5>2, <5>4
        <5>6. (t \o v) \o u = t \o (v \o u)
          BY ConcatAssociative, SMTT(30)
        <5> QED
          BY <4>2, <4>4, <5>3, <5>5, <5>6
      <4> QED
        BY <4>5, <4>6
    <3>3. m + 1 \in Nat /\ m + 1 + 1 = m + 2
      BY <3>1
    <3> QED
      BY <3>2, <3>3 DEF A
  <2> HIDE DEF A
  <2>5. A \in SUBSET Nat
    BY DEF A
  <2>6. A = Nat
    BY <2>3, <2>4, <2>5, NatSetInduction
  <2>7. n \in A /\ n \in 1..n
    BY <1>8, <2>6
  <2>8. f[n + 1] = t \o g[n]
    BY <2>7 DEF A
  <2> QED
    BY <1>1, <1>3, <1>5, <2>2, <2>8
<1> QED
  BY <1>7, <1>8

\* Taking the first off a concatenation.
LEMMA HeadOfConcat ==
  ASSUME NEW S, NEW s \in Seq(S), NEW t \in Seq(S), s # <<>>
  PROVE  /\ s \o t # <<>>
         /\ Head(s \o t) = Head(s) /\ Tail(s \o t) = Tail(s) \o t
<1>1. s \o t # <<>> /\ Head(s \o t) = Head(s)
  OBVIOUS
<1>2. Tail(s \o t) = Tail(s) \o t
  OBVIOUS
<1> QED
  BY <1>1, <1>2

\* Cutting a concatenation where it was joined.
LEMMA CutOfConcat ==
  ASSUME NEW S, NEW s \in Seq(S), NEW t \in Seq(S)
  PROVE  /\ SubSeq(s \o t, 1, Len(s)) = s
         /\ SubSeq(s \o t, Len(s) + 1, Len(s \o t)) = t
<1>1. SubSeq(s \o t, 1, Len(s)) = s
  OBVIOUS
<1>2. SubSeq(s \o t, Len(s) + 1, Len(s \o t)) = t
  OBVIOUS
<1> QED
  BY <1>1, <1>2

\* A list flushed, or begun, changes no order.
LEMMA Regroup ==
  ASSUME NEW S, NEW r \in Seq(S), NEW f \in Seq(S), NEW q \in Seq(S)
  PROVE  /\ (r \o (f \o q)) \o <<>> = (r \o f) \o q
         /\ (r \o f) \o q = r \o (f \o q)
         /\ (<<>> \o f) \o q = f \o q
<1>1. r \o (f \o q) \in Seq(S)
  BY ConcatProperties
<1>2. (r \o f) \o q = r \o (f \o q)
  BY ConcatAssociative
<1>3. (r \o (f \o q)) \o <<>> = r \o (f \o q)
  BY <1>1, ConcatEmptySeq
<1>4. <<>> \o f = f
  BY ConcatEmptySeq
<1> QED
  BY <1>2, <1>3, <1>4

-----------------------------------------------------------------------------
(* What each kind of step does to what waits. *)

LEMMA WaitingTyped ==
  ASSUME NotifyInv
  PROVE  /\ FlattenSeq(timers) \in Seq(Callbacks) /\ Waiting \in Seq(Callbacks)
         /\ Waiting = (running \o FlattenSeq(timers)) \o queue
<1>1. timers \in Seq(Seq(Callbacks)) /\ running \in Seq(Callbacks) /\ queue \in Seq(Callbacks)
  BY DEF NotifyInv, NotifyTypeOK
<1>2. FlattenSeq(timers) \in Seq(Callbacks)
  BY <1>1, FlattenTyped
<1>3. Waiting = (running \o FlattenSeq(timers)) \o queue
  BY DEF Waiting
<1>4. running \o FlattenSeq(timers) \in Seq(Callbacks)
  BY <1>1, <1>2, ConcatProperties
<1> QED
  BY <1>1, <1>2, <1>3, <1>4, ConcatProperties

\* A flush moves what is queued to the end of the timers.
LEMMA FlushMoves ==
  ASSUME NotifyInv, Flush
  PROVE  queue' = <<>> /\ FlattenSeq(timers') = FlattenSeq(timers) \o queue
<1>1. timers \in Seq(Seq(Callbacks)) /\ queue \in Seq(Callbacks)
  BY DEF NotifyInv, NotifyTypeOK
<1>2. FlattenSeq(timers) \in Seq(Callbacks)
  BY WaitingTyped
<1>3. CASE queue = <<>>
  <2>1. queue' = <<>> /\ timers' = timers
    BY <1>3 DEF Flush
  <2>2. FlattenSeq(timers) \o <<>> = FlattenSeq(timers)
    BY <1>2, ConcatEmptySeq
  <2> QED
    BY <1>3, <2>1, <2>2
<1>4. CASE queue # <<>>
  <2>1. queue' = <<>> /\ timers' = Append(timers, queue)
    BY <1>4 DEF Flush
  <2> QED
    BY <1>1, <2>1, FlattenAppend
<1> QED
  BY <1>3, <1>4

LEMMA EndKeepsOrder ==
  ASSUME NotifyInv, BatchEnd PROVE UNCHANGED <<Waiting, called, lost>>
<1>1. UNCHANGED <<running, called, lost>>
  BY DEF BatchEnd
<1>2. CASE transactions = 1
  <2>1. queue' = <<>> /\ FlattenSeq(timers') = FlattenSeq(timers) \o queue
    BY <1>2, FlushMoves DEF BatchEnd
  <2>2. Waiting' = (running \o (FlattenSeq(timers) \o queue)) \o <<>>
    BY <1>1, <2>1 DEF Waiting
  <2>3. running \in Seq(Callbacks) /\ queue \in Seq(Callbacks)
    BY DEF NotifyInv, NotifyTypeOK
  <2>4. FlattenSeq(timers) \in Seq(Callbacks)
    BY WaitingTyped
  <2>5. Waiting' = (running \o FlattenSeq(timers)) \o queue
    BY <2>2, <2>3, <2>4, Regroup
  <2> QED
    BY <1>1, <2>5, WaitingTyped
<1>3. CASE transactions # 1
  BY <1>1, <1>3 DEF BatchEnd, Waiting
<1> QED
  BY <1>2, <1>3

LEMMA ThrowGivesUp ==
  ASSUME NotifyInv, Throw
  PROVE  \/ UNCHANGED <<Waiting, called, lost>>
         \/ \E n \in 1..Len(Waiting) : Promised!GiveUp(n)
<1>1. /\ Flush /\ running' = <<>> /\ lost' = lost \union Range(running) /\ UNCHANGED called
  BY DEF Throw, InFinally
<1>2. PICK r \in Seq(Callbacks) : r = running
  BY DEF NotifyInv, NotifyTypeOK
<1>3. PICK f \in Seq(Callbacks) : f = FlattenSeq(timers)
  BY WaitingTyped
<1>4. PICK q \in Seq(Callbacks) : q = queue
  BY DEF NotifyInv, NotifyTypeOK
<1>5. PICK t \in Seq(Callbacks) : t = f \o q
  BY ConcatProperties
<1>6. Waiting = r \o t
  <2>1. Waiting = (r \o f) \o q
    BY <1>2, <1>3, <1>4, WaitingTyped
  <2> QED
    BY <1>5, <2>1, Regroup
<1>7. Waiting' = t
  <2>1. Waiting' = (<<>> \o t) \o <<>>
    BY <1>1, <1>3, <1>4, <1>5, FlushMoves DEF Waiting
  <2> QED
    BY <2>1, ConcatEmptySeq
<1>8. CASE r = <<>>
  <2>1. Waiting = t
    BY <1>6, <1>8, ConcatEmptySeq
  <2>2. lost' = lost
    BY <1>1, <1>2, <1>8 DEF Range
  <2> QED
    BY <1>1, <1>7, <2>1, <2>2
<1>9. CASE r # <<>>
  <2>1. Len(r) \in 1..Len(r \o t)
    BY <1>9
  <2>2. SubSeq(r \o t, 1, Len(r)) = r /\ SubSeq(r \o t, Len(r) + 1, Len(r \o t)) = t
    BY CutOfConcat
  <2>3. called # {}
    BY <1>2, <1>9 DEF NotifyInv
  <2>4. lost' = lost \union ToSet(r)
    BY <1>1, <1>2 DEF Range, ToSet
  <2>5. Promised!GiveUp(Len(r))
    BY <1>1, <1>6, <1>7, <2>2, <2>3, <2>4 DEF Promised!GiveUp, ToSet, Promised!ToSet
  <2> QED
    BY <1>6, <2>1, <2>5
<1> QED
  BY <1>8, <1>9

(* Two ways to append o to what waits: to the queue, or as a timer of its own. *)
LEMMA AppendedToQueue ==
  ASSUME NEW p \in Seq(Callbacks), NEW q \in Seq(Callbacks), NEW o \in Seq(Callbacks)
  PROVE  (p \o q) \o o = p \o (q \o o)
BY ConcatAssociative

LEMMA AppendedTimer ==
  ASSUME NEW r \in Seq(Callbacks), NEW f \in Seq(Callbacks), NEW o \in Seq(Callbacks)
  PROVE  (r \o (f \o o)) \o <<>> = (r \o f) \o o
BY Regroup

LEMMA ScheduleAppends ==
  ASSUME NotifyInv, NEW c \in Callbacks, Schedule(c) PROVE Promised!Promise(c)
<1>1. c \notin Range(Waiting) \union called \union lost /\ UNCHANGED <<running, called, lost>>
  BY DEF Schedule
<1>2. PICK r \in Seq(Callbacks) : r = running
  BY DEF NotifyInv, NotifyTypeOK
<1>3. PICK f \in Seq(Callbacks) : f = FlattenSeq(timers)
  BY WaitingTyped
<1>4. PICK q \in Seq(Callbacks) : q = queue
  BY DEF NotifyInv, NotifyTypeOK
<1>5. PICK o \in Seq(Callbacks) : o = <<c>>
  <2>1. <<c>> \in Seq(Callbacks)
    OBVIOUS
  <2> QED
    BY <2>1
<1>6. PICK p \in Seq(Callbacks) : p = r \o f
  BY ConcatProperties
<1>7. Waiting = p \o q
  BY <1>2, <1>3, <1>4, <1>6, WaitingTyped
<1>8. Waiting' = (p \o q) \o o
  <2>1. CASE InBatch
    <3>1. queue' = Append(queue, c) /\ timers' = timers
      BY <2>1 DEF Schedule
    <3>2. queue' = q \o o
      BY <1>4, <1>5, <3>1, AppendIsConcat
    <3>3. Waiting' = p \o (q \o o)
      <4>1. running' \o FlattenSeq(timers') = p
        BY <1>1, <1>2, <1>3, <1>6, <3>1
      <4> QED
        BY <3>2, <4>1 DEF Waiting
    <3>4. (p \o q) \o o = p \o (q \o o)
      BY AppendedToQueue, Zenon
    <3> QED
      BY <3>3, <3>4
  <2>2. CASE ~InBatch
    <3>1. timers' = Append(timers, o) /\ queue' = queue
      BY <1>5, <2>2 DEF Schedule
    <3>2. q = <<>>
      BY <1>4, <2>2 DEF InBatch, NotifyInv, NotifyTypeOK
    <3>3. FlattenSeq(timers') = f \o o
      <4>1. timers \in Seq(Seq(Callbacks))
        BY DEF NotifyInv, NotifyTypeOK
      <4> QED
        BY <1>3, <3>1, <4>1, FlattenAppend
    <3>4. Waiting' = (r \o (f \o o)) \o <<>>
      <4>1. running' = r /\ queue' = <<>>
        BY <1>1, <1>2, <1>4, <3>1, <3>2
      <4> QED
        BY <3>3, <4>1 DEF Waiting
    <3>5. (r \o (f \o o)) \o <<>> = p \o o
      <4>1. (r \o (f \o o)) \o <<>> = (r \o f) \o o
        BY AppendedTimer, Zenon
      <4> QED
        BY <1>6, <4>1
    <3>6. p \o q = p
      BY <3>2, ConcatEmptySeq
    <3> QED
      BY <3>4, <3>5, <3>6
  <2> QED
    BY <2>1, <2>2
<1>9. p \o q \in Seq(Callbacks)
  BY ConcatProperties
<1>10. Waiting' = Append(Waiting, c)
  BY <1>5, <1>7, <1>8, <1>9, AppendIsConcat
<1>11. c \notin ToSet(Waiting)
  BY <1>1 DEF Range, ToSet
<1> QED
  BY <1>1, <1>10, <1>11 DEF Promised!Promise, ToSet, Promised!ToSet

LEMMA FireCalls == ASSUME NotifyInv, Fire PROVE Promised!Call
<1>1. /\ running = <<>> /\ queue = <<>> /\ timers # <<>> /\ timers \in Seq(Seq(Callbacks))
      /\ \A i \in DOMAIN timers : timers[i] # <<>>
      /\ called' = called \union {Head(Head(timers))}
      /\ running' = Tail(Head(timers)) /\ timers' = Tail(timers) /\ UNCHANGED <<queue, lost>>
  BY DEF Fire, NotifyInv, NotifyTypeOK
<1>2. PICK h \in Seq(Callbacks) : h = Head(timers)
  BY <1>1, HeadTailProperties
<1>3. h # <<>>
  BY <1>1, <1>2
<1>4. PICK f \in Seq(Callbacks) : f = FlattenSeq(Tail(timers))
  BY <1>1, HeadTailProperties, FlattenTyped
<1>5. h \o f \in Seq(Callbacks) /\ Tail(h) \in Seq(Callbacks) /\ Tail(h) \o f \in Seq(Callbacks)
  BY <1>3, ConcatProperties, HeadTailProperties
<1>6. FlattenSeq(timers) = h \o f
  BY <1>1, <1>2, <1>4, FlattenHead
<1>7. Waiting = h \o f
  <2>1. Waiting = (<<>> \o (h \o f)) \o <<>>
    BY <1>1, <1>6 DEF Waiting
  <2> QED
    BY <1>5, <2>1, ConcatEmptySeq
<1>8. Waiting' = Tail(h) \o f
  <2>1. Waiting' = (Tail(h) \o f) \o <<>>
    BY <1>1, <1>2, <1>4 DEF Waiting
  <2> QED
    BY <1>5, <2>1, ConcatEmptySeq
<1>9. Waiting # <<>> /\ Head(Waiting) = Head(h) /\ Waiting' = Tail(Waiting)
  BY <1>3, <1>7, <1>8, HeadOfConcat
<1> QED
  BY <1>1, <1>2, <1>9 DEF Promised!Call

LEMMA NextCalls == ASSUME NotifyInv, CallNext PROVE Promised!Call
<1>1. /\ running # <<>> /\ called' = called \union {Head(running)}
      /\ running' = Tail(running) /\ UNCHANGED <<timers, queue, lost>>
  BY DEF CallNext
<1>2. PICK r \in Seq(Callbacks) : r = running
  BY DEF NotifyInv, NotifyTypeOK
<1>3. PICK f \in Seq(Callbacks) : f = FlattenSeq(timers)
  BY WaitingTyped
<1>4. PICK q \in Seq(Callbacks) : q = queue
  BY DEF NotifyInv, NotifyTypeOK
<1>5. PICK t \in Seq(Callbacks) : t = f \o q
  BY ConcatProperties
<1>6. PICK l \in Seq(Callbacks) : l = Tail(r)
  BY <1>1, <1>2, HeadTailProperties
<1>7. Waiting = r \o t
  <2>1. Waiting = (r \o f) \o q
    BY <1>2, <1>3, <1>4, WaitingTyped
  <2> QED
    BY <1>5, <2>1, Regroup
<1>8. Waiting' = l \o t
  <2>1. Waiting' = (l \o f) \o q
    BY <1>1, <1>2, <1>3, <1>4, <1>6 DEF Waiting
  <2> QED
    BY <1>5, <2>1, Regroup
<1>9. Waiting # <<>> /\ Head(Waiting) = Head(r) /\ Waiting' = Tail(Waiting)
  BY <1>1, <1>2, <1>6, <1>7, <1>8, HeadOfConcat
<1> QED
  BY <1>1, <1>2, <1>9 DEF Promised!Call

LEMMA PromiseInit == NotifyInit => Promised!Init
<1> SUFFICES ASSUME NotifyInit PROVE Promised!Init
  OBVIOUS
<1>1. Waiting = (<<>> \o FlattenSeq(<<>>)) \o <<>>
  BY DEF NotifyInit, Waiting
<1>2. Waiting = <<>>
  BY <1>1, FlattenEmpty
<1> QED
  BY <1>2 DEF NotifyInit, Promised!Init

LEMMA PromiseStep ==
  NotifyInv /\ [NotifyNext]_notifyVars => [Promised!Next]_(Promised!notifications)
<1> SUFFICES ASSUME NotifyInv, [NotifyNext]_notifyVars
             PROVE  [Promised!Next]_(Promised!notifications)
  OBVIOUS
<1>1. CASE BatchBegin \/ UNCHANGED notifyVars
  BY <1>1 DEF BatchBegin, notifyVars, Waiting, Promised!notifications
<1>2. CASE BatchEnd
  BY <1>2, EndKeepsOrder DEF Promised!notifications
<1>3. CASE Throw
  BY <1>3, ThrowGivesUp DEF Promised!Next, Promised!notifications
<1>4. ASSUME NEW c \in Callbacks, Schedule(c) PROVE Promised!Next
  BY <1>4, ScheduleAppends DEF Promised!Next
<1>5. CASE Fire \/ CallNext
  BY <1>5, FireCalls, NextCalls DEF Promised!Next
<1> QED
  BY <1>1, <1>2, <1>3, <1>4, <1>5 DEF NotifyNext

(* The scheduler implements Notifications but for its liveness: a callback   *)
(* is called once, in the order of scheduling, and given up only behind one  *)
(* that threw (schedule.util.ts: createNotifyManager).                       *)
THEOREM InOrder == NotifySpec => Promised!Safety
<1> QED
  BY NotifyInvInit, NotifyInvStep, PromiseInit, PromiseStep, PTL
     DEF NotifySpec, Promised!Safety

-----------------------------------------------------------------------------
(* The two as MCEmailQueue composes them: a step of one leaves the variables *)
(* of the other alone, so a behaviour of both is a behaviour of each.        *)

LEMMA StepOfOne ==
    [MCNext]_<<part, vars, notifyVars>> => [Next]_vars /\ [NotifyNext]_notifyVars
BY Zenon DEF MCNext, Next

LEMMA BothBehave ==
    MCSpec => /\ Init /\ [][Next]_vars /\ Fairness
              /\ NotifySpec
<1>1. MCInit => Init /\ NotifyInit
  BY Zenon DEF MCInit
<1> QED
  BY <1>1, StepOfOne, PTL DEF MCSpec, NotifySpec

(* BothTypeOK: the types of the queue and of the scheduler, whichever moves. *)
THEOREM BothTyped == MCSpec => []BothTypeOK
<1>1. TypeOK /\ NotifyTypeOK => BothTypeOK
  BY DEF BothTypeOK
<1> QED
  BY <1>1, BothBehave, TypeCorrect, NothingForgotten, PTL DEF Spec

(* Of the composition: mails are doubled, and the invocations of a job       *)
(* overlap, with a cause only, and both parts implement the safety of their  *)
(* abstract specifications (email-queue.processor.ts, schedule.util.ts).     *)
THEOREM BothSafe ==
    MCSpec => /\ [](DuplicatesHaveCause /\ OverlapHasCause)
              /\ Delivery!Safety /\ Promised!Safety
BY BothBehave, FewDuplicates, OverlapsExplained, ImplementsSafely, InOrder, PTL DEF Spec

=============================================================================
