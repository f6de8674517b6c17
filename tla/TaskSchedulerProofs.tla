------------------------- MODULE TaskSchedulerProofs -------------------------
(***************************************************************************)
(* Proofs about TaskScheduler, for any schedules, calls and processes.     *)
(***************************************************************************)
EXTENDS TaskScheduler, TLAPS

USE ScheduleAssumption DEF bull, histories

-----------------------------------------------------------------------------
(* The next run of a schedule is later than now.                             *)

LEMMA NextRunLater ==
    ASSUME NEW s \in Schedules, NEW t \in Nat
    PROVE  NextRun(s, t) \in Nat /\ NextRun(s, t) > t
<1> DEFINE p == Period[s]
           q == t \div p
           r == t % p
<1>1. p \in Nat \ {0}
  OBVIOUS
<1> HIDE DEF p
<1>2. q \in Nat /\ r \in Nat /\ r < p /\ t = q * p + r
  BY <1>1
<1> HIDE DEF q, r
<1>3. (q + 1) * p = q * p + p
  BY <1>1, <1>2
<1>4. q * p \in Nat
  BY <1>1, <1>2
<1> QED
  BY <1>1, <1>2, <1>3, <1>4 DEF NextRun, p, q

-----------------------------------------------------------------------------
(* The type invariant: what a call has read at each of its steps, and who    *)
(* holds the lock of initTask.                                               *)

Pcs == {"idle", "reread", "info", "once", "exist", "list", "remove", "disable", "add",
        "save", "delete", "listAll", "clear", "unlock", "completed", "find", "done",
        "failed", "stuck", "dead"}
Acting == {"exist", "list", "remove", "disable", "add", "save"}

WorldOK ==
    /\ now \in Nat /\ logged \in BOOLEAN /\ raced \in BOOLEAN /\ crashed \in BOOLEAN
    /\ repeat \in [Schedules -> [on : BOOLEAN, next : Nat]]
    /\ queue \subseteq Job /\ active \in [Workers -> Job]
RowOK ==
    /\ row \in [here : BOOLEAN, s : Schedules \union {None}, status : {0, 1},
                opts : Schedules \union {None}]
    /\ row.here => row.s \in Schedules
    /\ ~row.here => row.opts = None /\ row.status = 0
ThreadOK(t) ==
    /\ thread[t].pc \in {"add", "save"} => Starter(t)
    /\ Starter(t) /\ thread[t].pc \in Acting => thread[t].s \in Schedules
    /\ thread[t].pc = "reread" => thread[t].then \in {"start", "stop"}
ThreadsOK == thread \in [Threads -> ThreadState] /\ \A t \in Threads : ThreadOK(t)
LockOK ==
    /\ lock \in Boots \union {None}
    /\ \A b \in Boots : Busy(b) => lock = b /\ thread[b].then = "boot"
    /\ LockHeld => thread[lock].pc \notin {"idle", "done"}

TypeInv == WorldOK /\ RowOK /\ ThreadsOK /\ LockOK

LEMMA JobsTyped ==
    /\ NoJob \in Job /\ Once \in Job /\ Idle \in ThreadState
    /\ Idle.pc = "idle" /\ Idle.then = "stop"
BY DEF NoJob, Once, Job, Idle, ThreadState

LEMMA TypeInit == Init => TypeInv
<1> SUFFICES ASSUME Init PROVE TypeInv
  OBVIOUS
<1>1. WorldOK
  <2>1. [s \in Schedules |-> [on |-> FALSE, next |-> 0]] \in [Schedules -> [on : BOOLEAN, next : Nat]]
    OBVIOUS
  <2> QED
    BY <2>1, JobsTyped DEF Init, WorldOK
<1>2. RowOK
  BY DEF Init, RowOK, NoRow
<1>3. ThreadsOK
  BY JobsTyped DEF Init, ThreadsOK, ThreadOK, Starter, Acting
<1>4. LockOK
  BY JobsTyped DEF Init, LockOK, Busy, Resting, LockHeld, Threads
<1> QED
  BY <1>1, <1>2, <1>3, <1>4 DEF TypeInv

(* What a step does to its thread.                                           *)

Only(t) == thread' \in [Threads -> ThreadState] /\ \A u \in Threads \ {t} : thread'[u] = thread[u]

Went(t, pc) ==
    /\ Only(t)
    /\ thread'[t].pc = pc /\ thread'[t].then = thread[t].then
    /\ thread'[t].s = thread[t].s /\ thread'[t].opts = thread[t].opts

Read(t, pc, then) ==
    /\ Only(t)
    /\ thread'[t].pc = pc /\ thread'[t].then = then
    /\ thread'[t].s = row.s /\ thread'[t].opts = row.opts

LEMMA GotoWent ==
    ASSUME TypeInv, NEW t \in Threads, NEW pc \in Pcs, Goto(t, pc)
    PROVE  Went(t, pc)
<1> DEFINE new == [thread[t] EXCEPT !.pc = pc]
<1>1. thread \in [Threads -> ThreadState] /\ thread[t] \in ThreadState
  BY DEF TypeInv, ThreadsOK
<1>2. /\ new \in ThreadState
      /\ new.pc = pc /\ new.then = thread[t].then /\ new.s = thread[t].s /\ new.opts = thread[t].opts
  BY <1>1 DEF ThreadState, Pcs
<1>3. thread' = [thread EXCEPT ![t] = new]
  BY DEF Goto
<1> HIDE DEF new
<1> QED
  BY <1>1, <1>2, <1>3 DEF Went, Only

LEMMA ListedWent ==
    ASSUME TypeInv, NEW t \in Threads, NEW pc \in Pcs, NEW jobs \in SUBSET Job,
           thread' = [thread EXCEPT ![t].pc = pc, ![t].jobs = jobs]
    PROVE  Went(t, pc)
<1> DEFINE new == [[thread[t] EXCEPT !.pc = pc] EXCEPT !.jobs = jobs]
<1>1. thread \in [Threads -> ThreadState] /\ thread[t] \in ThreadState
  BY DEF TypeInv, ThreadsOK
<1>2. /\ new \in ThreadState
      /\ new.pc = pc /\ new.then = thread[t].then /\ new.s = thread[t].s /\ new.opts = thread[t].opts
  BY <1>1 DEF ThreadState, Pcs
<1>3. thread' = [thread EXCEPT ![t] = new]
  BY <1>1
<1> HIDE DEF new
<1> QED
  BY <1>1, <1>2, <1>3 DEF Went, Only

Thens == {"start", "stop", "delete", "once", "boot", "check"}

LEMMA SetRead ==
    ASSUME TypeInv, NEW t \in Threads, NEW pc \in Pcs, NEW then \in Thens, NEW jobs \in SUBSET Job,
           thread' = [thread EXCEPT ![t] = [pc |-> pc, then |-> then, s |-> row.s,
                                            opts |-> row.opts, jobs |-> jobs]]
    PROVE  Read(t, pc, then)
<1> DEFINE new == [pc |-> pc, then |-> then, s |-> row.s, opts |-> row.opts, jobs |-> jobs]
<1>1. /\ new \in ThreadState
      /\ new.pc = pc /\ new.then = then /\ new.s = row.s /\ new.opts = row.opts
  BY DEF ThreadState, Pcs, Thens, TypeInv, RowOK
<1>2. thread' = [thread EXCEPT ![t] = new] /\ thread \in [Threads -> ThreadState]
  BY DEF TypeInv, ThreadsOK
<1> HIDE DEF new
<1> QED
  BY <1>1, <1>2 DEF Read, Only

LEMMA BeginRead ==
    ASSUME TypeInv, NEW t \in Threads, NEW pc \in Pcs, NEW then \in Thens, Begin(t, pc, then)
    PROVE  Read(t, pc, then) /\ raced' \in BOOLEAN
BY SetRead DEF Begin, TypeInv, WorldOK

(* Info keeps no list of jobs, and the row it reads is that of the entity.   *)
LEMMA InfoRead ==
    ASSUME TypeInv, NEW c \in Calls, Info(c)
    PROVE  /\ thread[c].pc \in {"info", "reread"}
           /\ LET then == IF thread[c].pc = "reread" THEN ByStatus ELSE thread[c].then
              IN  \E pc \in {"failed", "once", "exist"} :
                    /\ Read(c, pc, then)
                    /\ pc = "failed" <=> ~row.here
                    /\ pc = "once" => then = "once"
                    /\ then = "once" => pc # "exist"
<1> DEFINE then == IF thread[c].pc = "reread" THEN ByStatus ELSE thread[c].then
           pc == IF ~row.here THEN "failed" ELSE IF then = "once" THEN "once" ELSE "exist"
<1>1. thread[c].pc \in {"info", "reread"}
  BY DEF Info, Reread
<1>2. thread' = [thread EXCEPT ![c] = [Idle EXCEPT !.pc = pc, !.then = then,
                                                   !.s = row.s, !.opts = row.opts]]
  BY DEF Info, Reread
<1>3. then \in Thens
  BY DEF ByStatus, TypeInv, ThreadsOK, ThreadState, Thens, Threads
<1>4. /\ pc \in {"failed", "once", "exist"} /\ (pc = "failed" <=> ~row.here)
      /\ pc = "once" => then = "once"
      /\ then = "once" => pc # "exist"
  OBVIOUS
<1> HIDE DEF pc, then
<1> DEFINE new == [Idle EXCEPT !.pc = pc, !.then = then, !.s = row.s, !.opts = row.opts]
<1>5. /\ new \in ThreadState
      /\ new.pc = pc /\ new.then = then /\ new.s = row.s /\ new.opts = row.opts
  BY <1>3, <1>4 DEF Idle, ThreadState, Thens, TypeInv, RowOK
<1> HIDE DEF new
<1>6. Read(c, pc, then)
  <2>1. thread' = [thread EXCEPT ![c] = new] /\ thread \in [Threads -> ThreadState] /\ c \in Threads
    BY <1>2 DEF new, TypeInv, ThreadsOK, Threads
  <2> QED
    BY <1>5, <2>1 DEF Read, Only
<1> QED
  BY <1>1, <1>4, <1>6 DEF then

LEMMA ClearRead ==
    ASSUME TypeInv, NEW b \in Boots, Clear(b)
    PROVE  Read(b, IF row.status = 1 THEN "exist" ELSE "unlock", thread[b].then)
<1> DEFINE pc == IF row.status = 1 THEN "exist" ELSE "unlock"
           new == [[[thread[b] EXCEPT !.pc = pc] EXCEPT !.s = row.s] EXCEPT !.opts = row.opts]
<1>1. pc \in {"exist", "unlock"}
  OBVIOUS
<1> HIDE DEF pc
<1>2. thread \in [Threads -> ThreadState] /\ thread[b] \in ThreadState /\ b \in Threads
  BY DEF TypeInv, ThreadsOK, Threads
<1>3. thread' = [thread EXCEPT ![b] = new]
  BY <1>2 DEF Clear, pc
<1>4. /\ new \in ThreadState
      /\ new.pc = pc /\ new.then = thread[b].then /\ new.s = row.s /\ new.opts = row.opts
  BY <1>1, <1>2 DEF ThreadState, TypeInv, RowOK
<1> HIDE DEF new
<1>5. Read(b, pc, thread[b].then)
  BY <1>2, <1>3, <1>4 DEF Read, Only
<1> QED
  BY <1>5 DEF pc

(* A step of one thread that leaves the lock alone.                          *)
LEMMA ThreadTyped ==
    ASSUME TypeInv, NEW t \in Threads, Only(t), ThreadOK(t)', lock' = lock,
           t \in Boots => /\ Busy(t) /\ thread'[t].pc \notin {"idle", "done"}
                          /\ thread'[t].then = thread[t].then
    PROVE  ThreadsOK' /\ LockOK'
<1>1. ThreadsOK'
  BY DEF TypeInv, ThreadsOK, ThreadOK, Starter, Only
<1>2. LockOK'
  <2>1. \A b \in Boots : Busy(b)' => lock' = b /\ thread'[b].then = "boot"
    BY DEF TypeInv, LockOK, Busy, Only, Threads
  <2>2. LockHeld' => thread'[lock'].pc \notin {"idle", "done"}
    BY DEF TypeInv, LockOK, LockHeld, Only, Threads
  <2> QED
    BY <2>1, <2>2 DEF TypeInv, LockOK
<1> QED
  BY <1>1, <1>2

LEMMA WentTyped ==
    ASSUME TypeInv, NEW t \in Threads, NEW pc \in Pcs, Went(t, pc), lock' = lock,
           pc \in {"add", "save"} => Starter(t), pc # "reread",
           Starter(t) /\ pc \in Acting => thread[t].pc \in Acting,
           t \in Boots => Busy(t) /\ pc \notin {"idle", "done"}
    PROVE  ThreadsOK' /\ LockOK'
<1>1. ThreadOK(t)'
  BY DEF Went, ThreadOK, Starter, TypeInv, ThreadsOK
<1> QED
  BY <1>1, ThreadTyped DEF Went

LEMMA ReadTyped ==
    ASSUME TypeInv, NEW t \in Threads, NEW pc \in Pcs, NEW then, Read(t, pc, then), lock' = lock,
           pc \notin {"add", "save"}, pc = "reread" => then \in {"start", "stop"},
           then \in {"start", "boot"} /\ pc \in Acting => row.here,
           t \in Boots => Busy(t) /\ pc \notin {"idle", "done"} /\ then = thread[t].then
    PROVE  ThreadsOK' /\ LockOK'
<1>1. ThreadOK(t)'
  BY DEF Read, ThreadOK, Starter, TypeInv, RowOK
<1> QED
  BY <1>1, ThreadTyped DEF Read

LEMMA Apart ==
    ASSUME TypeInv
    PROVE  /\ \A c \in Calls : c \in Threads /\ c \notin Boots
           /\ \A w \in Workers : w \in Threads /\ w \notin Boots
           /\ \A b \in Boots : b \in Threads /\ b # None
           /\ \A t \in Threads : thread[t] \in ThreadState /\ ThreadOK(t)
           /\ \A b \in Boots : Busy(b) => lock = b /\ thread[b].then = "boot"
BY DEF Threads, TypeInv, ThreadsOK, LockOK

LEMMA EnqueueTyped ==
    ASSUME TypeInv, NEW s \in Schedules, NEW n \in Nat, NEW jobs \in SUBSET Job,
           Enqueue(jobs, s, NextRun(s, now), n)
    PROVE  repeat' \in [Schedules -> [on : BOOLEAN, next : Nat]] /\ queue' \subseteq Job
<1>1. NextRun(s, now) \in Nat
  BY NextRunLater DEF TypeInv, WorldOK
<1> HIDE DEF NextRun
<1>2. [s |-> s, at |-> NextRun(s, now), n |-> n] \in Job
  BY <1>1 DEF Job
<1> QED
  BY <1>1, <1>2 DEF Enqueue, TypeInv, WorldOK

(* The calls of the controller, and initTask.                                *)
LEMMA CallTyped ==
    ASSUME TypeInv, NEW c \in Calls, Call(c)
    PROVE  TypeInv'
<1>a. c \in Threads /\ c \notin Boots
  BY Apart
<1>1. ASSUME NEW s \in Schedules, NEW status \in {0, 1}, Create(c, s, status) \/ Update(c, s, status)
      PROVE  TypeInv'
  <2>1. PICK pc \in {"info", "reread"} : Write(c, s, status, pc)
    BY <1>1 DEF Create, Update
  <2>2. row' = [here |-> TRUE, s |-> s, status |-> status, opts |-> row.opts]
    BY <2>1 DEF Write
  <2>3. RowOK'
    BY <2>2 DEF TypeInv, RowOK
  <2>4. PICK then \in {"start", "stop"} : Begin(c, pc, then)
    BY <2>1 DEF Write
  <2>5. Read(c, pc, then) /\ raced' \in BOOLEAN
    BY <1>a, <2>4, BeginRead DEF Pcs, Thens
  <2>6. lock' = lock /\ UNCHANGED <<now, logged, repeat, queue, active, crashed>>
    BY <2>1 DEF Write
  <2>7. ThreadsOK' /\ LockOK'
    BY <1>a, <2>1, <2>5, <2>6, ReadTyped DEF Pcs, Acting
  <2> QED
    BY <2>3, <2>5, <2>6, <2>7 DEF TypeInv, WorldOK
<1>2. ASSUME NEW then \in {"start", "stop", "delete", "once"}, Route(c, then) PROVE TypeInv'
  <2>1. Read(c, "info", then) /\ raced' \in BOOLEAN
    BY <1>a, <1>2, BeginRead DEF Route, Pcs, Thens
  <2>2. lock' = lock /\ UNCHANGED <<now, row, logged, repeat, queue, active, crashed>>
    BY <1>2 DEF Route
  <2>3. ThreadsOK' /\ LockOK'
    BY <1>a, <2>1, <2>2, ReadTyped DEF Pcs, Acting
  <2> QED
    BY <2>1, <2>2, <2>3 DEF TypeInv, WorldOK, RowOK
<1>3. CASE Info(c)
  <2>0. PICK pc \in {"failed", "once", "exist"} :
          (\E then : Read(c, pc, then)) /\ (pc = "failed" <=> ~row.here)
    BY <1>3, InfoRead
  <2>1. PICK then : Read(c, pc, then)
    BY <2>0
  <2>2. lock' = lock /\ UNCHANGED <<now, row, logged, repeat, queue, active, raced, crashed>>
    BY <1>3 DEF Info
  <2>3. ThreadsOK' /\ LockOK'
    BY <1>a, <2>0, <2>1, <2>2, ReadTyped DEF Pcs, Acting
  <2> QED
    BY <2>2, <2>3 DEF TypeInv, WorldOK, RowOK
<1>4. CASE RunOnce(c)
  <2>1. Went(c, "done")
    BY <1>a, <1>4, GotoWent DEF RunOnce, Pcs
  <2>2. lock' = lock /\ UNCHANGED <<now, row, logged, repeat, active, raced, crashed>>
    BY <1>4 DEF RunOnce
  <2>3. queue' \subseteq Job
    BY <1>4, JobsTyped DEF RunOnce, TypeInv, WorldOK
  <2>4. ThreadsOK' /\ LockOK'
    BY <1>a, <2>1, <2>2, WentTyped DEF Pcs, Acting
  <2> QED
    BY <2>2, <2>3, <2>4 DEF TypeInv, WorldOK, RowOK
<1>5. CASE Delete(c)
  <2>1. PICK pc \in {"done", "failed"} : Went(c, pc)
    BY <1>a, <1>5, GotoWent DEF Delete, Pcs
  <2>2. lock' = lock /\ UNCHANGED <<now, logged, repeat, queue, active, raced, crashed>>
    BY <1>5 DEF Delete
  <2>3. RowOK'
    <3>1. row' = row \/ row' = [NoRow EXCEPT !.s = row.s]
      BY <1>5 DEF Delete
    <3> QED
      BY <3>1 DEF TypeInv, RowOK, NoRow
  <2>4. ThreadsOK' /\ LockOK'
    BY <1>a, <2>1, <2>2, WentTyped DEF Pcs, Acting
  <2> QED
    BY <2>2, <2>3, <2>4 DEF TypeInv, WorldOK
<1> QED
  BY <1>1, <1>2, <1>3, <1>4, <1>5 DEF Call

LEMMA InitTaskTyped ==
    ASSUME TypeInv, NEW b \in Boots, InitTask(b)
    PROVE  TypeInv'
<1>a. b \in Threads /\ b # None
  BY Apart
<1>1. CASE Boot(b)
  <2>0. thread[b].pc = "idle" /\ UNCHANGED <<now, row, logged, repeat, queue, active, crashed>>
    BY <1>1 DEF Boot
  <2>1. CASE LockHeld
    <3>1. Went(b, "done") /\ UNCHANGED <<lock, raced>>
      BY <1>a, <1>1, <2>1, GotoWent DEF Boot, Pcs
    <3>2. ThreadsOK'
      BY <3>1 DEF TypeInv, ThreadsOK, ThreadOK, Starter, Went, Only, Acting
    <3>3. lock # b
      BY <1>a, <2>0 DEF TypeInv, LockOK, LockHeld
    <3>4. LockOK'
      BY <3>1, <3>3 DEF TypeInv, LockOK, LockHeld, Busy, Resting, Went, Only, Threads
    <3> QED
      BY <2>0, <3>1, <3>2, <3>4 DEF TypeInv, WorldOK, RowOK
  <2>2. CASE ~LockHeld
    <3>1. Read(b, "listAll", "boot") /\ raced' \in BOOLEAN /\ lock' = b
      BY <1>a, <1>1, <2>2, BeginRead DEF Boot, Pcs, Thens
    <3>2. ThreadsOK'
      BY <3>1 DEF TypeInv, ThreadsOK, ThreadOK, Starter, Read, Only, Acting
    <3>3. \A d \in Boots : ~Busy(d)
      BY <2>2, Apart DEF LockHeld
    <3>4. LockOK'
      BY <3>1, <3>3 DEF TypeInv, LockOK, LockHeld, Busy, Read, Only, Threads
    <3> QED
      BY <2>0, <3>1, <3>2, <3>4 DEF TypeInv, WorldOK, RowOK
  <2> QED
    BY <2>1, <2>2
<1>2. CASE ListAll(b)
  <2>1. Went(b, "clear") /\ thread[b].pc = "listAll"
    BY <1>a, <1>2, ListedWent DEF ListAll, Pcs, TypeInv, WorldOK
  <2>2. lock' = lock /\ UNCHANGED <<now, row, logged, repeat, queue, active, raced, crashed>>
    BY <1>2 DEF ListAll
  <2>3. ThreadsOK' /\ LockOK'
    BY <1>a, <2>1, <2>2, WentTyped DEF Pcs, Acting, Busy, Resting
  <2> QED
    BY <2>2, <2>3 DEF TypeInv, WorldOK, RowOK
<1>3. CASE Clear(b)
  <2>1. PICK pc \in {"exist", "unlock"} :
          Read(b, pc, thread[b].then) /\ (pc = "exist" => row.status = 1)
    BY <1>3, ClearRead
  <2>2. /\ thread[b].pc = "clear" /\ lock' = lock /\ queue' \subseteq queue
        /\ UNCHANGED <<now, row, logged, repeat, active, raced, crashed>>
    BY <1>3 DEF Clear
  <2>3. row.status = 1 => row.here
    BY DEF TypeInv, RowOK
  <2>4. ThreadsOK' /\ LockOK'
    BY <1>a, <2>1, <2>2, <2>3, ReadTyped DEF Pcs, Acting, Busy, Resting
  <2> QED
    BY <2>2, <2>4 DEF TypeInv, WorldOK, RowOK
<1>4. CASE Unlock(b)
  <2>1. Went(b, "done") /\ lock' = None /\ thread[b].pc = "unlock"
    BY <1>a, <1>4, GotoWent DEF Unlock, Unlocked, Pcs
  <2>2. UNCHANGED <<now, row, logged, repeat, queue, active, raced, crashed>>
    BY <1>4 DEF Unlock
  <2>3. ThreadsOK'
    BY <2>1 DEF TypeInv, ThreadsOK, ThreadOK, Starter, Went, Only, Acting
  <2>4. LockOK'
    BY <2>1, Apart DEF LockOK, LockHeld, Busy, Resting, Went, Only
  <2> QED
    BY <2>2, <2>3, <2>4 DEF TypeInv, WorldOK, RowOK
<1> QED
  BY <1>1, <1>2, <1>3, <1>4 DEF InitTask

(* stop, start, and the death of a process.                                  *)
LEMMA AfterStopPc ==
    ASSUME NEW then \in Thens
    PROVE  /\ AfterStop(then) \in {"add", "delete", "idle", "done"}
           /\ AfterStop(then) = "add" <=> then \in {"start", "boot"}
           /\ AfterStop(then) = "delete" <=> then = "delete"
BY DEF AfterStop, Thens

LEMMA RemoveShape ==
    ASSUME TypeInv, NEW t \in Threads, Remove(t)
    PROVE  /\ thread[t].pc = "remove" /\ lock' = lock /\ queue' \subseteq queue
           /\ UNCHANGED <<now, row, logged, active, raced, crashed>>
           /\ \/ thread[t].opts = None /\ Went(t, "stuck") /\ repeat' = repeat
              \/ /\ thread[t].opts \in Schedules /\ Went(t, "disable")
                 /\ repeat' \in [Schedules -> [on : BOOLEAN, next : Nat]]
                 /\ Scheduled' = Scheduled \ {thread[t].opts}
<1> DEFINE s == thread[t].opts
<1>1. /\ thread[t].pc = "remove" /\ lock' = lock /\ queue' \subseteq queue
      /\ UNCHANGED <<now, row, logged, active, raced, crashed>>
  BY DEF Remove
<1>2. CASE s = None
  BY <1>1, <1>2, GotoWent DEF Remove, Parsed, Pcs
<1>3. CASE s # None
  <2>1. s \in Schedules
    BY <1>3, Apart DEF ThreadState
  <2>2. repeat' = [repeat EXCEPT ![s].on = FALSE] /\ Went(t, "disable")
    BY <1>3, GotoWent DEF Remove, Parsed, Pcs
  <2> HIDE DEF s
  <2>3. repeat \in [Schedules -> [on : BOOLEAN, next : Nat]]
    BY DEF TypeInv, WorldOK
  <2> DEFINE new == [repeat[s] EXCEPT !.on = FALSE]
  <2>4. new \in [on : BOOLEAN, next : Nat] /\ ~new.on
    BY <2>1, <2>3
  <2>5. repeat' = [repeat EXCEPT ![s] = new]
    BY <2>2
  <2> HIDE DEF new
  <2>6. /\ repeat' \in [Schedules -> [on : BOOLEAN, next : Nat]]
        /\ ~repeat'[s].on /\ \A r \in Schedules : r # s => repeat'[r] = repeat[r]
    BY <2>1, <2>3, <2>4, <2>5
  <2>7. Scheduled' = Scheduled \ {s}
    BY <2>6 DEF Scheduled
  <2> QED
    BY <1>1, <2>1, <2>2, <2>6, <2>7 DEF s
<1> QED
  BY <1>2, <1>3

LEMMA StopTyped ==
    ASSUME TypeInv, NEW t \in Threads, Stop(t)
    PROVE  TypeInv'
<1>1. CASE Exist(t)
  <2>1. PICK pc \in {"disable", "list"} : Went(t, pc)
    BY <1>1, GotoWent DEF Exist, Pcs
  <2>2. /\ thread[t].pc = "exist" /\ lock' = lock
        /\ UNCHANGED <<now, row, logged, repeat, queue, active, raced, crashed>>
    BY <1>1 DEF Exist
  <2>3. ThreadsOK' /\ LockOK'
    BY <2>1, <2>2, WentTyped DEF Pcs, Acting, Busy, Resting
  <2> QED
    BY <2>2, <2>3 DEF TypeInv, WorldOK, RowOK
<1>2. CASE ListJobs(t)
  <2>1. Went(t, "remove")
    BY <1>2, ListedWent DEF ListJobs, Pcs, TypeInv, WorldOK
  <2>2. /\ thread[t].pc = "list" /\ lock' = lock
        /\ UNCHANGED <<now, row, logged, repeat, queue, active, raced, crashed>>
    BY <1>2 DEF ListJobs
  <2>3. ThreadsOK' /\ LockOK'
    BY <2>1, <2>2, WentTyped DEF Pcs, Acting, Busy, Resting
  <2> QED
    BY <2>2, <2>3 DEF TypeInv, WorldOK, RowOK
<1>3. CASE Remove(t)
  <2>1. /\ thread[t].pc = "remove" /\ lock' = lock /\ queue' \subseteq queue
        /\ UNCHANGED <<now, row, logged, active, raced, crashed>>
        /\ repeat' \in [Schedules -> [on : BOOLEAN, next : Nat]]
        /\ \E pc \in {"stuck", "disable"} : Went(t, pc)
    BY <1>3, RemoveShape DEF TypeInv, WorldOK
  <2>2. ThreadsOK' /\ LockOK'
    BY <2>1, WentTyped DEF Pcs, Acting, Busy, Resting
  <2> QED
    BY <2>1, <2>2 DEF TypeInv, WorldOK, RowOK
<1>4. CASE SetDisabled(t)
  <2>0. thread[t].then \in Thens /\ (t \in Boots /\ Busy(t) => thread[t].then = "boot")
    BY Apart DEF ThreadState, Thens
  <2>1. /\ AfterStop(thread[t].then) \in {"add", "delete", "idle", "done"}
        /\ AfterStop(thread[t].then) = "add" <=> thread[t].then \in {"start", "boot"}
    BY <2>0, AfterStopPc
  <2>2. Went(t, AfterStop(thread[t].then))
    BY <1>4, <2>1, GotoWent DEF SetDisabled, Pcs
  <2>3. /\ thread[t].pc = "disable" /\ lock' = lock /\ row' = [row EXCEPT !.status = 0]
        /\ UNCHANGED <<now, logged, repeat, queue, active, raced, crashed>>
    BY <1>4 DEF SetDisabled, Disable
  <2>4. Busy(t)
    BY <2>3 DEF Busy, Resting
  <2>5. ThreadsOK' /\ LockOK'
    <3> DEFINE pc == AfterStop(thread[t].then)
    <3>1. pc \in Pcs /\ pc # "reread" /\ (pc \in {"add", "save"} => Starter(t))
      BY <2>1 DEF Pcs, Starter
    <3>2. t \in Boots => pc \notin {"idle", "done"}
      BY <2>0, <2>1, <2>4
    <3>3. Starter(t) /\ pc \in Acting => thread[t].pc \in Acting
      BY <2>3 DEF Acting
    <3> HIDE DEF pc
    <3>4. Went(t, pc) /\ lock' = lock
      BY <2>2, <2>3 DEF pc
    <3> QED
      BY <2>4, <3>1, <3>2, <3>3, <3>4, WentTyped
  <2>6. RowOK'
    BY <2>3 DEF TypeInv, RowOK
  <2> QED
    BY <2>3, <2>5, <2>6 DEF TypeInv, WorldOK
<1> QED
  BY <1>1, <1>2, <1>3, <1>4 DEF Stop

LEMMA StartTyped ==
    ASSUME TypeInv, NEW t \in Threads, Start(t)
    PROVE  TypeInv'
<1>1. CASE Add(t)
  <2>1. Went(t, "save")
    BY <1>1, GotoWent DEF Add, Pcs
  <2>2. /\ thread[t].pc = "add" /\ lock' = lock
        /\ UNCHANGED <<now, row, logged, active, raced, crashed>>
    BY <1>1 DEF Add
  <2>3. Starter(t) /\ thread[t].s \in Schedules
    BY <2>2, Apart DEF ThreadOK, Acting
  <2>4. ThreadsOK' /\ LockOK'
    BY <2>1, <2>2, <2>3, WentTyped DEF Pcs, Acting, Busy, Resting
  <2>5. repeat' \in [Schedules -> [on : BOOLEAN, next : Nat]] /\ queue' \subseteq Job
    BY <1>1, <2>3, EnqueueTyped DEF Add, TypeInv, WorldOK
  <2> QED
    BY <2>2, <2>4, <2>5 DEF TypeInv, WorldOK, RowOK
<1>2. CASE Save(t)
  <2>1. /\ Went(t, IF thread[t].then = "boot" THEN "unlock" ELSE "done")
        /\ thread[t].pc = "save" /\ lock' = lock
    BY <1>2, GotoWent DEF Save, Pcs
  <2>2. Starter(t) /\ thread[t].s \in Schedules /\ (t \in Boots => thread[t].then = "boot")
    BY <2>1, Apart DEF ThreadOK, Acting, Busy, Resting
  <2>3. ThreadsOK' /\ LockOK'
    BY <2>1, <2>2, WentTyped DEF Pcs, Acting, Busy, Resting
  <2>4. UNCHANGED <<now, logged, repeat, queue, active, raced, crashed>>
    BY <1>2 DEF Save
  <2>5. RowOK'
    BY <1>2, <2>2 DEF Save, JobOpts, TypeInv, RowOK
  <2> QED
    BY <2>3, <2>4, <2>5 DEF TypeInv, WorldOK
<1> QED
  BY <1>1, <1>2 DEF Start

LEMMA CrashTyped ==
    ASSUME TypeInv, NEW t \in Threads, Crash(t)
    PROVE  TypeInv'
<1>1. Went(t, "dead") /\ (t \in Boots => Busy(t))
  BY GotoWent, Apart DEF Crash, Pcs
<1>2. lock' = lock /\ UNCHANGED <<now, row, logged, repeat, raced>> /\ crashed' \in BOOLEAN
  BY DEF Crash
<1>3. ThreadsOK' /\ LockOK'
  BY <1>1, <1>2, WentTyped DEF Pcs, Acting
<1>4. queue' \subseteq Job /\ active' \in [Workers -> Job]
  BY JobsTyped DEF Crash, TypeInv, WorldOK
<1> QED
  BY <1>2, <1>3, <1>4 DEF TypeInv, WorldOK, RowOK

LEMMA ConsumeTyped ==
    ASSUME TypeInv, NEW w \in Workers, Consume(w)
    PROVE  TypeInv'
<1>a. w \in Threads /\ w \notin Boots
  BY Apart
<1>1. ASSUME NEW j \in queue, Take(w, j) PROVE TypeInv'
  <2>1. UNCHANGED <<now, row, logged, lock, thread, raced, crashed>>
    BY <1>1 DEF Take
  <2>2. j \in Job /\ active' = [active EXCEPT ![w] = j]
    BY <1>1 DEF Take, TypeInv, WorldOK
  <2>3. repeat' \in [Schedules -> [on : BOOLEAN, next : Nat]] /\ queue' \subseteq Job
    <3>1. CASE j.s \in Scheduled /\ HasRunsLeft(j.s, j.n)
      <4>1. j.s \in Schedules /\ j.n + 1 \in Nat /\ queue \ {j} \in SUBSET Job
        BY <2>2, <3>1 DEF Scheduled, Job, TypeInv, WorldOK
      <4>2. Enqueue(queue \ {j}, j.s, NextRun(j.s, now), j.n + 1)
        BY <1>1, <3>1 DEF Take
      <4> QED
        BY <4>1, <4>2, EnqueueTyped
    <3>2. CASE ~(j.s \in Scheduled /\ HasRunsLeft(j.s, j.n))
      BY <1>1, <3>2 DEF Take, TypeInv, WorldOK
    <3> QED
      BY <3>1, <3>2
  <2> QED
    BY <2>1, <2>2, <2>3 DEF TypeInv, WorldOK, RowOK, ThreadsOK, ThreadOK, Starter, LockOK, Busy, LockHeld
<1>2. CASE Finish(w)
  <2>1. /\ active' = [active EXCEPT ![w] = NoJob] /\ logged' \in BOOLEAN /\ lock' = lock
        /\ UNCHANGED <<now, row, repeat, queue, raced, crashed>>
    BY <1>2 DEF Finish, TypeInv, WorldOK, RowOK
  <2>2. CASE UNCHANGED thread
    BY <2>1, <2>2, JobsTyped
    DEF TypeInv, WorldOK, RowOK, ThreadsOK, ThreadOK, Starter, LockOK, Busy, LockHeld
  <2>3. CASE Goto(w, "completed")
    <3>1. Went(w, "completed")
      BY <1>a, <2>3, GotoWent DEF Pcs
    <3>2. ThreadsOK' /\ LockOK'
      BY <1>a, <2>1, <3>1, WentTyped DEF Pcs, Acting
    <3> QED
      BY <2>1, <3>2, JobsTyped DEF TypeInv, WorldOK, RowOK
  <2> QED
    BY <1>2, <2>2, <2>3 DEF Finish
<1>3. CASE ListRepeatables(w)
  <2> DEFINE jobs == {[s |-> s, at |-> repeat[s].next, n |-> 0] : s \in Scheduled}
  <2>1. jobs \in SUBSET Job
    BY DEF Scheduled, Job, TypeInv, WorldOK
  <2>2. thread' = [thread EXCEPT ![w].pc = "find", ![w].jobs = jobs]
    BY <1>3 DEF ListRepeatables
  <2> HIDE DEF jobs
  <2>3. Went(w, "find")
    BY <1>a, <2>1, <2>2, ListedWent DEF Pcs
  <2>4. lock' = lock /\ UNCHANGED <<now, row, logged, repeat, queue, active, raced, crashed>>
    BY <1>3 DEF ListRepeatables
  <2>5. ThreadsOK' /\ LockOK'
    BY <1>a, <2>3, <2>4, WentTyped DEF Pcs, Acting
  <2> QED
    BY <2>4, <2>5 DEF TypeInv, WorldOK, RowOK
<1>4. CASE Find(w)
  <2>1. lock' = lock /\ UNCHANGED <<now, row, logged, repeat, queue, active, crashed>>
    BY <1>4 DEF Find
  <2>2. CASE row.here /\ Completed(w)
    <3>1. Read(w, "exist", "check") /\ raced' \in BOOLEAN
      BY <1>a, <1>4, <2>2, BeginRead DEF Find, Pcs, Thens
    <3>2. ThreadsOK' /\ LockOK'
      BY <1>a, <2>1, <3>1, ReadTyped DEF Pcs
    <3> QED
      BY <2>1, <3>1, <3>2 DEF TypeInv, WorldOK, RowOK
  <2>3. CASE ~(row.here /\ Completed(w))
    <3>1. thread' = [thread EXCEPT ![w] = Idle] /\ UNCHANGED raced
      BY <1>4, <2>3 DEF Find
    <3>2. Only(w) /\ thread'[w] = Idle
      BY <1>a, <3>1, JobsTyped DEF Only, TypeInv, ThreadsOK
    <3>3. ThreadOK(w)'
      BY <3>2, JobsTyped DEF ThreadOK, Starter, Acting
    <3>4. ThreadsOK' /\ LockOK'
      BY <1>a, <2>1, <3>2, <3>3, ThreadTyped
    <3> QED
      BY <2>1, <3>1, <3>4 DEF TypeInv, WorldOK, RowOK
  <2> QED
    BY <2>2, <2>3
<1> QED
  BY <1>1, <1>2, <1>3, <1>4 DEF Consume

LEMMA TypeStep == TypeInv /\ [Next]_vars => TypeInv'
<1> SUFFICES ASSUME TypeInv, [Next]_vars PROVE TypeInv'
  OBVIOUS
<1>1. CASE UNCHANGED vars
  BY <1>1 DEF vars, TypeInv, WorldOK, RowOK, ThreadsOK, ThreadOK, Starter, LockOK, Busy, LockHeld
<1>2. CASE Tick
  BY <1>2 DEF Tick, TypeInv, WorldOK, RowOK, ThreadsOK, ThreadOK, Starter, LockOK, Busy, LockHeld
<1>3. CASE ClearLog
  BY <1>3 DEF ClearLog, TypeInv, WorldOK, RowOK, ThreadsOK, ThreadOK, Starter, LockOK, Busy, LockHeld
<1>4. CASE LockExpire
  <2>1. lock' = None /\ UNCHANGED <<now, row, logged, repeat, queue, thread, active, raced, crashed>>
    BY <1>4 DEF LockExpire
  <2>2. \A b \in Boots : ~Busy(b)
    BY <1>4, Apart DEF LockExpire, Busy, Resting
  <2> QED
    BY <2>1, <2>2 DEF TypeInv, WorldOK, RowOK, ThreadsOK, ThreadOK, Starter, LockOK, Busy, LockHeld
<1> QED
  BY <1>1, <1>2, <1>3, <1>4, CallTyped, InitTaskTyped, ConsumeTyped, StopTyped, StartTyped,
     CrashTyped DEF Next

(* TypeOK: whoever holds the lock of initTask is still initialising, or died *)
(* or failed while it did (task.service.ts: initTask).                       *)
THEOREM TypeCorrect == Spec => []TypeOK
<1>1. TypeInv => TypeOK
  BY DEF TypeInv, TypeOK, WorldOK, RowOK, ThreadsOK, LockOK
<1> QED
  BY <1>1, TypeInit, TypeStep, PTL DEF Spec

(* InitExclusive: two processes are never in initTask at once, whatever died *)
(* or failed while it held the lock (task.service.ts: initTask).             *)
THEOREM OneInitialises == Spec => []InitExclusive
<1>1. TypeInv => InitExclusive
  BY DEF TypeInv, LockOK, InitExclusive
<1> QED
  BY <1>1, TypeInit, TypeStep, PTL DEF Spec

-----------------------------------------------------------------------------
(* The repeatable jobs.  As long as a call that starts the task has it to    *)
(* itself, what a call has read is still true when it acts on it: the job    *)
(* options name the only repeatable there can be (StopOK), stop leaves none  *)
(* behind, and whoever finds the row and the repeatables apart is not done   *)
(* yet (Stops, Starts).                                                      *)

Live(s) == Scheduled = {s} /\ (Runs[s] = 0 => Queued(s, repeat[s].next))

Alone == \A t, u \in Threads : t # u /\ Busy(t) /\ Busy(u) => ~Starter(t)
RereadOK == \A t \in Threads : thread[t].pc = "reread" => (Starter(t) <=> row.status = 1)
StartOK ==
    \A t \in Threads : Starter(t) /\ thread[t].pc \in Acting => row.here /\ thread[t].s = row.s
StopOKOf(t) ==
    /\ thread[t].pc \in {"exist", "list", "remove"} => Scheduled \subseteq {thread[t].opts}
    /\ thread[t].pc \in {"list", "remove"} => thread[t].opts # None
    /\ thread[t].pc \in {"disable", "add", "delete"} => Scheduled = {}
    /\ thread[t].pc = "save" => Live(thread[t].s)
    /\ thread[t].pc # "stuck"
StopOK == \A t \in Threads : StopOKOf(t)
OptsOK == Scheduled \subseteq {row.opts} \/ \E t \in Threads : thread[t].pc = "save"

Ending(t) == thread[t].pc \in {"reread", "exist", "list", "remove", "save"}
Stops == row.status = 0 /\ Scheduled # {} => \E t \in Threads : Ending(t)

Starting(t) ==
    \/ thread[t].pc = "disable"
    \/ Starter(t) /\ thread[t].pc \in {"reread", "info", "exist", "list", "remove"}
Starts ==
    row.status = 1 => \/ row.opts = row.s /\ Live(row.s)
                      \/ \E t \in Threads : Starting(t)

Parts == Alone /\ RereadOK /\ StartOK /\ StopOK /\ OptsOK /\ Stops /\ Starts
SafeInv == Undisturbed => Parts

LEMMA SafeInit == Init => SafeInv
<1> SUFFICES ASSUME Init PROVE Parts
  BY DEF SafeInv
<1>1. \A t \in Threads : thread[t].pc = "idle"
  BY JobsTyped DEF Init
<1>2. Scheduled = {} /\ row.status = 0
  BY DEF Init, Scheduled, NoRow
<1> QED
  BY <1>1, <1>2 DEF Parts, Alone, Busy, Resting, RereadOK, StartOK, Acting, StopOK, StopOKOf,
     OptsOK, Stops, Starts

Claimed == {"reread", "info", "exist", "list", "remove", "disable", "add", "save", "delete"}

LEMMA ClaimedBusy ==
    ASSUME NEW t \in Threads, thread[t].pc \in Claimed \/ thread[t].pc \in Acting
    PROVE  Busy(t)
BY DEF Claimed, Acting, Busy, Resting

(* A call that starts the task is the only one.                              *)
LEMMA StarterAlone ==
    ASSUME Alone, NEW t \in Threads, Busy(t), NEW u \in Threads, Busy(u), u # t
    PROVE  ~Starter(t) /\ ~Starter(u) /\ (TypeInv => thread[u].pc # "save" /\ thread[t].pc # "save")
BY DEF Alone, TypeInv, ThreadsOK, ThreadOK

(* A step that touches neither the row nor what is scheduled, of threads     *)
(* that have nothing under way.                                              *)
LEMMA Frame ==
    ASSUME TypeInv, Parts, row' = row, Scheduled' = Scheduled,
           \A s \in Schedules : Live(s) => Live(s)',
           \A t \in Threads :
              \/ thread'[t] = thread[t]
              \/ /\ thread[t].pc \notin Claimed /\ thread'[t].pc \notin Claimed \union {"stuck"}
                 /\ Busy(t)' => Busy(t)
                 /\ Starter(t)' => Starter(t)
    PROVE  Parts'
<1>1. Alone'
  BY DEF Parts, Alone, Busy, Starter
<1>2. RereadOK' /\ StartOK'
  BY DEF Parts, RereadOK, StartOK, Claimed, Acting, Starter
<1>3. StopOK'
  <2> SUFFICES ASSUME NEW t \in Threads PROVE StopOKOf(t)'
    BY DEF StopOK
  <2>1. CASE thread'[t] = thread[t]
    <3>1. thread[t].pc = "save" => thread[t].s \in Schedules
      BY DEF TypeInv, ThreadsOK, ThreadOK, Acting
    <3> QED
      BY <2>1, <3>1 DEF Parts, StopOK, StopOKOf
  <2>2. CASE thread'[t].pc \notin Claimed \union {"stuck"}
    BY <2>2 DEF StopOKOf, Claimed
  <2> QED
    BY <2>1, <2>2
<1>4. OptsOK' /\ Stops'
  <2>1. \A t \in Threads : Ending(t) => Ending(t)'
    BY DEF Ending, Claimed
  <2>2. \A t \in Threads : thread[t].pc = "save" => thread'[t].pc = "save"
    BY DEF Claimed
  <2> QED
    BY <2>1, <2>2 DEF Parts, OptsOK, Stops
<1>5. Starts'
  <2>1. \A t \in Threads : Starting(t) => Starting(t)'
    BY DEF Starting, Starter, Claimed
  <2>2. row.status = 1 => row.s \in Schedules
    BY DEF TypeInv, RowOK
  <2> QED
    BY <2>1, <2>2 DEF Parts, Starts
<1> QED
  BY <1>1, <1>2, <1>3, <1>4, <1>5 DEF Parts

LEMMA LiveKept ==
    ASSUME repeat' = repeat, queue \subseteq queue'
    PROVE  Scheduled' = Scheduled /\ \A s \in Schedules : Live(s) => Live(s)'
BY DEF Scheduled, Live, Queued

LEMMA FrameOf ==
    ASSUME TypeInv, Parts, row' = row, repeat' = repeat, queue \subseteq queue',
           NEW t \in Threads, NEW pc \in Pcs \ (Claimed \union {"stuck"}), Went(t, pc),
           thread[t].pc \notin Claimed, pc \in Resting \/ Busy(t)
    PROVE  Parts'
<1>1. \A u \in Threads :
         \/ thread'[u] = thread[u]
         \/ /\ thread[u].pc \notin Claimed /\ thread'[u].pc \notin Claimed \union {"stuck"}
            /\ Busy(u)' => Busy(u)
            /\ Starter(u)' => Starter(u)
  BY DEF Went, Only, Busy, Starter
<1> QED
  BY <1>1, Frame, LiveKept

(* A thread that begins, unless it is raced, finds no start under way.       *)
LEMMA BeginAlone ==
    ASSUME TypeInv, Parts, NEW t \in Threads, ~Busy(t), NEW pc \in Pcs, NEW then \in Thens,
           Begin(t, pc, then), ~raced'
    PROVE  /\ Alone' /\ \A u \in Threads \ {t} : Busy(u) => ~Starter(u)
           /\ then \in {"start", "boot"} => \A u \in Threads \ {t} : ~Busy(u)
           /\ \A u \in Threads \ {t} : thread[u].pc # "save"
<1>1. Read(t, pc, then)
  BY BeginRead
<1>2. \A u \in Threads \ {t} : Busy(u) => ~Starter(u) /\ then \notin {"start", "boot"}
  BY DEF Begin
<1>3. Alone'
  BY <1>1, <1>2 DEF Parts, Alone, Busy, Starter, Read, Only
<1>4. \A u \in Threads \ {t} : thread[u].pc # "save"
  BY <1>2, ClaimedBusy, Apart DEF Claimed, ThreadOK
<1> QED
  BY <1>2, <1>3, <1>4

LEMMA WriteSafe ==
    ASSUME TypeInv, Parts, NEW c \in Calls, NEW s \in Schedules, NEW status \in {0, 1},
           Create(c, s, status) \/ Update(c, s, status), ~raced'
    PROVE  Parts'
<1>1. PICK pc \in {"info", "reread"} : Write(c, s, status, pc) /\ (pc = "info" => row = NoRow)
  BY DEF Create, Update
<1>2. /\ row' = [here |-> TRUE, s |-> s, status |-> status, opts |-> row.opts]
      /\ thread[c].pc = "idle" /\ UNCHANGED <<repeat, queue>>
  BY <1>1 DEF Write
<1>3. PICK then \in {"start", "stop"} : Begin(c, pc, then) /\ (then = "start" <=> status = 1)
  BY <1>1 DEF Write
<1>4. c \in Threads /\ ~Busy(c)
  BY <1>2, Apart DEF Busy, Resting
<1>5. Read(c, pc, then)
  BY <1>3, <1>4, BeginRead DEF Pcs, Thens
<1>6. /\ Alone' /\ \A u \in Threads \ {c} : Busy(u) => ~Starter(u)
      /\ then = "start" => \A u \in Threads \ {c} : ~Busy(u)
      /\ \A u \in Threads : thread[u].pc # "save"
  BY <1>2, <1>3, <1>4, BeginAlone DEF Pcs, Thens
<1>7. row'.status = status /\ row'.opts = row.opts
  BY <1>2
<1>8. /\ thread'[c].pc = pc /\ thread'[c].then = then
      /\ \A u \in Threads \ {c} : thread'[u] = thread[u]
  BY <1>5 DEF Read, Only
<1>9. Scheduled' = Scheduled /\ \A r \in Schedules : Live(r)' <=> Live(r)
  BY <1>2 DEF Scheduled, Live, Queued
<1>10. RereadOK'
  <2>1. ASSUME NEW u \in Threads \ {c}, thread'[u].pc = "reread" PROVE ~Starter(u)' /\ status = 0
    <3>1. thread[u].pc = "reread" /\ Busy(u)
      BY <1>8, <2>1, ClaimedBusy DEF Claimed
    <3> QED
      BY <1>3, <1>6, <1>8, <3>1 DEF Starter
  <2>2. thread'[c].pc = "reread" => (Starter(c)' <=> status = 1)
    BY <1>3, <1>8 DEF Starter
  <2> QED
    BY <1>7, <2>1, <2>2 DEF RereadOK
<1>11. StartOK'
  BY <1>6, <1>8, ClaimedBusy DEF StartOK, Starter, Acting
<1>12. StopOK'
  BY <1>6, <1>8, <1>9 DEF Parts, StopOK, StopOKOf
<1>13. Scheduled \subseteq {row.opts} /\ OptsOK'
  BY <1>6, <1>7, <1>9 DEF Parts, OptsOK
<1>14. Stops'
  <2>1. CASE pc = "reread"
    BY <1>4, <1>8, <2>1 DEF Stops, Ending
  <2>2. CASE pc = "info"
    BY <1>1, <1>9, <1>13, <2>2 DEF Stops, NoRow, Scheduled
  <2> QED
    BY <2>1, <2>2
<1>15. Starts'
  <2>1. status = 1 => Starting(c)'
    BY <1>3, <1>8 DEF Starting, Starter
  <2> QED
    BY <1>4, <1>7, <2>1 DEF Starts
<1> QED
  BY <1>6, <1>10, <1>11, <1>12, <1>13, <1>14, <1>15 DEF Parts

(* The other calls, a start of a process, and a check that finds the task    *)
(* completed, read the row as it is.                                         *)
LEMMA BeginsSafe ==
    ASSUME TypeInv, Parts, NEW t \in Threads, thread[t].pc \in {"idle", "find"},
           NEW pc \in {"info", "listAll", "exist"}, NEW then \in Thens, Begin(t, pc, then),
           pc = "exist" => then = "check", ~raced', UNCHANGED <<row, repeat, queue>>
    PROVE  Parts'
<1>1. ~Busy(t) /\ Read(t, pc, then)
  BY BeginRead DEF Busy, Resting, Pcs
<1>2. /\ Alone' /\ \A u \in Threads \ {t} : Busy(u) => ~Starter(u)
      /\ \A u \in Threads : thread[u].pc # "save"
  BY <1>1, BeginAlone DEF Pcs
<1>3. /\ thread'[t].pc = pc /\ thread'[t].then = then /\ thread'[t].opts = row.opts
      /\ \A u \in Threads \ {t} : thread'[u] = thread[u]
  BY <1>1 DEF Read, Only
<1>4. Scheduled' = Scheduled /\ \A r \in Schedules : Live(r) => Live(r)'
  BY LiveKept
<1>5. RereadOK' /\ StartOK'
  BY <1>3 DEF Parts, RereadOK, StartOK, Starter, Acting
<1>6. Scheduled \subseteq {row.opts} /\ OptsOK'
  BY <1>2, <1>4 DEF Parts, OptsOK
<1>7. StopOK'
  BY <1>2, <1>3, <1>4, <1>6 DEF Parts, StopOK, StopOKOf
<1>8. Stops'
  <2>1. \A u \in Threads : Ending(u) => Ending(u)'
    BY <1>3 DEF Ending
  <2> QED
    BY <1>4, <2>1 DEF Parts, Stops
<1>9. Starts'
  <2>1. \A u \in Threads : Starting(u) => Starting(u)'
    BY <1>3 DEF Starting, Starter
  <2>2. row.status = 1 => row.s \in Schedules
    BY DEF TypeInv, RowOK
  <2> QED
    BY <1>4, <2>1, <2>2 DEF Parts, Starts
<1> QED
  BY <1>2, <1>5, <1>6, <1>7, <1>8, <1>9 DEF Parts

LEMMA InfoSafe ==
    ASSUME TypeInv, Parts, NEW c \in Calls, Info(c)
    PROVE  Parts'
<1> DEFINE then == IF thread[c].pc = "reread" THEN ByStatus ELSE thread[c].then
<1>1. thread[c].pc \in {"info", "reread"}
  BY InfoRead
<1>2. PICK pc \in {"failed", "once", "exist"} :
        /\ Read(c, pc, then)
        /\ pc = "failed" <=> ~row.here
        /\ pc = "once" => then = "once"
        /\ then = "once" => pc # "exist"
  BY InfoRead
<1>3. /\ thread[c].pc = "reread" =>
            /\ then = IF row.status = 1 THEN "start" ELSE "stop"
            /\ Starter(c) <=> row.status = 1
      /\ thread[c].pc = "info" => then = thread[c].then
  BY <1>1, Apart DEF Parts, RereadOK, ByStatus
<1> HIDE DEF then
<1>4. c \in Threads /\ Busy(c) /\ UNCHANGED <<row, repeat, queue>>
  BY <1>1, Apart DEF Info, Busy, Resting
<1>5. /\ thread'[c].pc = pc /\ thread'[c].then = then
      /\ thread'[c].s = row.s /\ thread'[c].opts = row.opts
      /\ \A u \in Threads \ {c} : thread'[u] = thread[u]
  BY <1>2 DEF Read, Only
<1>6. Starter(c)' <=> Starter(c)
  BY <1>1, <1>3, <1>5 DEF Starter
<1>7. Alone'
  BY <1>4, <1>5, <1>6 DEF Parts, Alone, Busy, Starter
<1>8. Scheduled' = Scheduled /\ \A r \in Schedules : Live(r) => Live(r)'
  BY <1>4, LiveKept
<1>9. RereadOK' /\ StartOK'
  BY <1>2, <1>4, <1>5 DEF Parts, RereadOK, StartOK, Starter, Acting
<1>10. \A u \in Threads : thread[u].pc # "save"
  <2>1. \A u \in Threads \ {c} : Busy(u) => thread[u].pc # "save"
    BY <1>4, StarterAlone DEF Parts
  <2> QED
    BY <1>1, <2>1, ClaimedBusy DEF Claimed
<1>11. Scheduled \subseteq {row.opts} /\ OptsOK'
  BY <1>4, <1>8, <1>10 DEF Parts, OptsOK
<1>12. StopOK'
  BY <1>2, <1>5, <1>8, <1>10, <1>11 DEF Parts, StopOK, StopOKOf
<1>13. Stops'
  <2> SUFFICES ASSUME row.status = 0, Scheduled # {} PROVE \E t \in Threads : Ending(t)'
    BY <1>4, <1>8 DEF Stops
  <2>1. PICK t \in Threads : Ending(t)
    BY DEF Parts, Stops
  <2>2. row.here
    BY <1>11 DEF TypeInv, RowOK, Scheduled
  <2>3. CASE t = c
    <3>1. then = "stop"
      BY <1>1, <1>3, <2>1, <2>3 DEF Ending
    <3> QED
      BY <1>2, <1>4, <1>5, <2>2, <3>1 DEF Ending
  <2>4. CASE t # c
    BY <1>5, <2>1, <2>4 DEF Ending
  <2> QED
    BY <2>3, <2>4
<1>14. Starts'
  <2> SUFFICES ASSUME row.status = 1, ~(row.opts = row.s /\ Live(row.s))
               PROVE  \E t \in Threads : Starting(t)'
    BY <1>4, <1>8 DEF Starts, TypeInv, RowOK
  <2>1. PICK t \in Threads : Starting(t)
    BY DEF Parts, Starts
  <2>2. row.here
    BY DEF TypeInv, RowOK
  <2>3. CASE t = c
    <3>1. Starter(c) /\ then # "once"
      BY <1>1, <1>3, <2>1, <2>3 DEF Starting, Starter
    <3> QED
      BY <1>2, <1>4, <1>5, <1>6, <2>2, <3>1 DEF Starting
  <2>4. CASE t # c
    BY <1>5, <2>1, <2>4 DEF Starting, Starter
  <2> QED
    BY <2>3, <2>4
<1> QED
  BY <1>7, <1>9, <1>11, <1>12, <1>13, <1>14 DEF Parts

(* stop looks, and lists.                                                    *)
LEMMA StopLooksSafe ==
    ASSUME TypeInv, Parts, NEW t \in Threads, Exist(t) \/ ListJobs(t)
    PROVE  Parts'
<1>1. PICK pc \in {"disable", "list", "remove"} :
         /\ Went(t, pc)
         /\ \/ thread[t].pc = "exist" /\ pc = (IF Scheduled = {} THEN "disable" ELSE "list")
            \/ thread[t].pc = "list" /\ pc = "remove"
  <2>1. CASE Exist(t)
    <3> DEFINE pc == IF Scheduled = {} THEN "disable" ELSE "list"
    <3>1. pc \in Pcs /\ pc \in {"disable", "list"}
      BY DEF Pcs
    <3>2. thread[t].pc = "exist" /\ Goto(t, pc)
      BY <2>1 DEF Exist
    <3> HIDE DEF pc
    <3>3. Went(t, pc)
      BY <3>1, <3>2, GotoWent
    <3> QED
      <4>1. pc = (IF Scheduled = {} THEN "disable" ELSE "list")
        BY DEF pc
      <4>2. pc \in {"disable", "list", "remove"}
        BY <3>1
      <4> QED
        BY <3>2, <3>3, <4>1, <4>2
  <2>2. CASE ListJobs(t)
    <3>1. Went(t, "remove")
      BY <2>2, ListedWent DEF ListJobs, Pcs, TypeInv, WorldOK
    <3> QED
      BY <2>2, <3>1 DEF ListJobs
  <2> QED
    BY <2>1, <2>2
<1>2. Busy(t) /\ UNCHANGED <<row, repeat, queue>>
  BY <1>1 DEF Exist, ListJobs, Busy, Resting
<1>3. /\ thread'[t].pc = pc /\ thread'[t].then = thread[t].then
      /\ thread'[t].s = thread[t].s /\ thread'[t].opts = thread[t].opts
      /\ \A u \in Threads \ {t} : thread'[u] = thread[u]
  BY <1>1 DEF Went, Only
<1>4. Alone'
  BY <1>2, <1>3 DEF Parts, Alone, Busy, Starter
<1>5. Scheduled' = Scheduled /\ \A r \in Schedules : Live(r) => Live(r)'
  BY <1>2, LiveKept
<1>6. RereadOK' /\ StartOK'
  BY <1>1, <1>2, <1>3 DEF Parts, RereadOK, StartOK, Starter, Acting
<1>7. StopOK'
  <2>1. ASSUME NEW u \in Threads \ {t} PROVE StopOKOf(u)'
    <3>1. thread[u].pc = "save" => thread[u].s \in Schedules
      BY Apart DEF ThreadOK, Acting
    <3> QED
      BY <1>3, <1>5, <3>1 DEF Parts, StopOK, StopOKOf
  <2>2. StopOKOf(t)'
    <3>1. StopOKOf(t)
      BY DEF Parts, StopOK
    <3>2. Scheduled \subseteq Schedules
      BY DEF Scheduled
    <3> QED
      BY <1>1, <1>3, <1>5, <3>1, <3>2 DEF StopOKOf
  <2> QED
    BY <2>1, <2>2 DEF StopOK
<1>8. OptsOK'
  BY <1>1, <1>2, <1>3, <1>5 DEF Parts, OptsOK
<1>9. Stops'
  <2> SUFFICES ASSUME row.status = 0, Scheduled # {} PROVE \E u \in Threads : Ending(u)'
    BY <1>2, <1>5 DEF Stops
  <2>1. \A u \in Threads : Ending(u) => Ending(u)'
    BY <1>1, <1>3 DEF Ending
  <2> QED
    BY <2>1 DEF Parts, Stops
<1>10. Starts'
  <2>1. \A u \in Threads : Starting(u) => Starting(u)'
    BY <1>1, <1>3 DEF Starting, Starter
  <2>2. row.status = 1 => row.s \in Schedules
    BY DEF TypeInv, RowOK
  <2> QED
    BY <1>2, <1>5, <2>1, <2>2 DEF Parts, Starts
<1> QED
  BY <1>4, <1>6, <1>7, <1>8, <1>9, <1>10 DEF Parts

(* It removes the only repeatable there can be.                              *)
LEMMA RemoveSafe ==
    ASSUME TypeInv, Parts, NEW t \in Threads, Remove(t)
    PROVE  Parts'
<1>1. /\ thread[t].pc = "remove" /\ Busy(t)
      /\ thread[t].opts # None /\ Scheduled \subseteq {thread[t].opts}
  BY DEF Remove, Busy, Resting, Parts, StopOK, StopOKOf
<1>2. Went(t, "disable") /\ Scheduled' = {} /\ row' = row
  BY <1>1, RemoveShape
<1>3. /\ thread'[t].pc = "disable" /\ thread'[t].then = thread[t].then
      /\ thread'[t].s = thread[t].s
      /\ \A u \in Threads \ {t} : thread'[u] = thread[u]
  BY <1>2 DEF Went, Only
<1>4. Alone'
  BY <1>1, <1>3 DEF Parts, Alone, Busy, Starter
<1>5. RereadOK' /\ StartOK'
  BY <1>1, <1>2, <1>3 DEF Parts, RereadOK, StartOK, Starter, Acting
<1>6. \A u \in Threads \ {t} : thread[u].pc # "save"
  BY <1>1, ClaimedBusy, StarterAlone DEF Parts, Claimed
<1>7. StopOK'
  BY <1>2, <1>3, <1>6 DEF Parts, StopOK, StopOKOf
<1>8. OptsOK' /\ Stops' /\ Starts'
  BY <1>2, <1>3 DEF OptsOK, Stops, Starts, Starting
<1> QED
  BY <1>4, <1>5, <1>7, <1>8 DEF Parts

LEMMA DisableSafe ==
    ASSUME TypeInv, Parts, NEW t \in Threads, SetDisabled(t)
    PROVE  Parts'
<1> DEFINE pc == AfterStop(thread[t].then)
<1>1. thread[t].pc = "disable" /\ Busy(t) /\ UNCHANGED <<repeat, queue>>
  BY DEF SetDisabled, Busy, Resting
<1>2. thread[t].then \in Thens
  BY Apart DEF ThreadState, Thens
<1>3. pc \in {"add", "delete", "idle", "done"} /\ (pc = "add" => Starter(t))
  BY <1>2, AfterStopPc DEF Starter
<1>4. Went(t, pc)
  BY <1>3, GotoWent DEF SetDisabled, Pcs
<1>5. row'.here = row.here /\ row'.s = row.s /\ row'.opts = row.opts /\ row'.status = 0
  BY DEF SetDisabled, Disable, TypeInv, RowOK
<1> HIDE DEF pc
<1>6. /\ thread'[t].pc = pc /\ thread'[t].then = thread[t].then
      /\ thread'[t].s = thread[t].s
      /\ \A u \in Threads \ {t} : thread'[u] = thread[u]
  BY <1>4 DEF Went, Only
<1>7. Scheduled = {} /\ Scheduled' = {}
  BY <1>1 DEF Parts, StopOK, StopOKOf, Scheduled
<1>8. Alone'
  BY <1>1, <1>6 DEF Parts, Alone, Busy, Starter
<1>9. RereadOK'
  <2> SUFFICES ASSUME NEW u \in Threads, thread'[u].pc = "reread" PROVE ~Starter(u)'
    BY <1>5 DEF RereadOK
  <2>1. u # t /\ thread'[u] = thread[u] /\ Busy(u)
    BY <1>3, <1>6, ClaimedBusy DEF Claimed
  <2> QED
    BY <1>1, <2>1, StarterAlone DEF Parts, Starter
<1>10. StartOK'
  <2> SUFFICES ASSUME NEW u \in Threads, Starter(u)', thread'[u].pc \in Acting
               PROVE  row'.here /\ thread'[u].s = row'.s
    BY DEF StartOK
  <2>1. Starter(u) /\ thread[u].pc \in Acting /\ thread'[u].s = thread[u].s
    BY <1>1, <1>6 DEF Starter, Acting
  <2> QED
    BY <1>5, <2>1 DEF Parts, StartOK
<1>11. \A u \in Threads \ {t} : thread[u].pc # "save"
  BY <1>1, ClaimedBusy, StarterAlone DEF Parts, Claimed
<1>12. StopOK'
  BY <1>3, <1>6, <1>7, <1>11 DEF Parts, StopOK, StopOKOf
<1>13. OptsOK' /\ Stops' /\ Starts'
  BY <1>5, <1>7 DEF OptsOK, Stops, Starts
<1> QED
  BY <1>8, <1>9, <1>10, <1>12, <1>13 DEF Parts

(* A task is deleted when stop has left nothing.                             *)
LEMMA DeleteSafe ==
    ASSUME TypeInv, Parts, NEW c \in Calls, Delete(c)
    PROVE  Parts'
<1>1. c \in Threads /\ thread[c].pc = "delete" /\ Busy(c) /\ UNCHANGED <<repeat, queue>>
  BY Apart DEF Delete, Busy, Resting
<1>2. PICK pc \in {"done", "failed"} : Went(c, pc)
  BY <1>1, GotoWent DEF Delete, Pcs
<1>3. row' = row \/ row'.status = 0
  BY DEF Delete, NoRow
<1>4. /\ thread'[c].pc = pc
      /\ \A u \in Threads \ {c} : thread'[u] = thread[u]
  BY <1>2 DEF Went, Only
<1>5. Scheduled = {} /\ Scheduled' = {}
  BY <1>1 DEF Parts, StopOK, StopOKOf, Scheduled
<1>6. \A u \in Threads \ {c} : Busy(u) => ~Starter(u) /\ thread[u].pc # "save"
  BY <1>1, StarterAlone DEF Parts
<1>7. ~Busy(c)'
  BY <1>4 DEF Busy, Resting
<1>8. Alone'
  BY <1>4, <1>7 DEF Parts, Alone, Busy, Starter
<1>9. RereadOK'
  <2> SUFFICES ASSUME NEW u \in Threads, thread'[u].pc = "reread"
               PROVE  Starter(u)' <=> row'.status = 1
    BY DEF RereadOK
  <2>1. u # c /\ thread'[u] = thread[u] /\ Busy(u)
    BY <1>4, ClaimedBusy DEF Claimed
  <2>2. ~Starter(u) /\ row.status # 1
    BY <1>6, <2>1 DEF Parts, RereadOK
  <2> QED
    BY <1>3, <2>1, <2>2 DEF Starter
<1>10. StartOK'
  BY <1>4, <1>6, ClaimedBusy DEF StartOK, Starter, Acting
<1>11. StopOK'
  BY <1>4, <1>5, <1>6, ClaimedBusy DEF Parts, StopOK, StopOKOf, Claimed
<1>12. OptsOK' /\ Stops'
  BY <1>5 DEF OptsOK, Stops
<1>13. Starts'
  <2> SUFFICES ASSUME row'.status = 1 PROVE \E u \in Threads : Starting(u)'
    BY DEF Starts
  <2>1. PICK u \in Threads : Starting(u)
    BY <1>3, <1>5 DEF Parts, Starts, Live
  <2> QED
    BY <1>1, <1>4, <2>1 DEF Starting, Starter
<1> QED
  BY <1>8, <1>9, <1>10, <1>11, <1>12, <1>13 DEF Parts

(* start adds the repeatable of the schedule it read, and saves its options. *)
LEMMA AddSafe ==
    ASSUME TypeInv, Parts, NEW t \in Threads, Add(t)
    PROVE  Parts'
<1>0. PICK s \in Schedules : s = thread[t].s
  BY Apart DEF Add, ThreadOK, Acting
<1> DEFINE at == NextRun(s, now)
<1>1. /\ thread[t].pc = "add" /\ Busy(t) /\ Starter(t) /\ row' = row
      /\ Went(t, "save")
  BY GotoWent, Apart DEF Add, Busy, Resting, Pcs, ThreadOK, Acting
<1>2. Enqueue(queue, s, at, 1)
  BY <1>0 DEF Add
<1>3. /\ thread'[t].pc = "save" /\ thread'[t].then = thread[t].then
      /\ thread'[t].s = s
      /\ \A u \in Threads \ {t} : thread'[u] = thread[u]
  BY <1>0, <1>1 DEF Went, Only
<1>4. Scheduled = {}
  BY <1>1 DEF Parts, StopOK, StopOKOf
<1>5. at \in Nat
  BY <1>1, NextRunLater DEF TypeInv, WorldOK
<1> HIDE DEF at
<1>6. repeat' = [repeat EXCEPT ![s] = [on |-> TRUE, next |-> at]]
  BY <1>2 DEF Enqueue
<1>7. Live(s)'
  <2>1. repeat \in [Schedules -> [on : BOOLEAN, next : Nat]]
    BY DEF TypeInv, WorldOK
  <2>2. repeat'[s].on /\ repeat'[s].next = at /\ \A r \in Schedules : r # s => repeat'[r] = repeat[r]
    BY <1>1, <1>6, <2>1
  <2>3. Scheduled' = {s}
    BY <1>1, <1>4, <2>2 DEF Scheduled
  <2>4. \E j \in queue' : j.s = s /\ j.at = at
    <3>1. CASE Queued(s, at)
      BY <1>2, <3>1 DEF Enqueue, Queued
    <3>2. CASE ~Queued(s, at)
      <4>1. queue' = queue \union {[s |-> s, at |-> at, n |-> 1]}
        BY <1>2, <3>2 DEF Enqueue
      <4>2. /\ [s |-> s, at |-> at, n |-> 1].s = s /\ [s |-> s, at |-> at, n |-> 1].at = at
            /\ [s |-> s, at |-> at, n |-> 1] \in queue'
        BY <4>1
      <4> QED
        BY <4>2
    <3> QED
      BY <3>1, <3>2
  <2> QED
    BY <2>2, <2>3, <2>4 DEF Live, Queued
<1>8. \A u \in Threads \ {t} : ~Busy(u)
  BY <1>1 DEF Parts, Alone
<1>9. \A u \in Threads \ {t} : thread'[u].pc \notin Claimed \union Acting \union {"stuck"}
  BY <1>3, <1>8, ClaimedBusy DEF Parts, StopOK, StopOKOf
<1>10. Alone'
  BY <1>3, <1>8 DEF Alone, Busy, Starter
<1>11. RereadOK' /\ StartOK'
  BY <1>0, <1>1, <1>3, <1>9 DEF Parts, RereadOK, StartOK, Starter, Acting, Claimed
<1>12. StopOK'
  <2>1. Live(thread[t].s)'
    BY <1>3, <1>7 DEF Live, Queued, Scheduled
  <2> QED
    BY <1>3, <1>9, <2>1 DEF StopOK, StopOKOf, Claimed
<1>13. OptsOK' /\ Stops'
  BY <1>3 DEF OptsOK, Stops, Ending
<1>14. row.status # 1
  <2>1. \A u \in Threads : ~Starting(u)
    BY <1>1, <1>8, ClaimedBusy DEF Starting, Claimed
  <2> QED
    BY <1>4, <2>1 DEF Parts, Starts, Live
<1> QED
  BY <1>1, <1>10, <1>11, <1>12, <1>13, <1>14 DEF Parts, Starts

LEMMA SaveSafe ==
    ASSUME TypeInv, Parts, NEW t \in Threads, Save(t)
    PROVE  Parts'
<1>1. /\ thread[t].pc = "save" /\ Busy(t) /\ Starter(t) /\ thread[t].s \in Schedules
      /\ UNCHANGED <<repeat, queue>>
  BY Apart DEF Save, Busy, Resting, ThreadOK, Acting
<1>2. PICK pc \in {"unlock", "done"} : Went(t, pc)
  BY GotoWent DEF Save, Pcs
<1>3. row.here /\ thread[t].s = row.s /\ Live(row.s)
  BY <1>1 DEF Parts, StartOK, Acting, StopOK, StopOKOf
<1>4. row'.here /\ row'.s = row.s /\ row'.opts = row.s /\ row'.status = 1
  BY <1>3 DEF Save, JobOpts, TypeInv, RowOK
<1>5. /\ thread'[t].pc = pc /\ thread'[t].then = thread[t].then
      /\ \A u \in Threads \ {t} : thread'[u] = thread[u]
  BY <1>2 DEF Went, Only
<1>6. \A u \in Threads \ {t} : ~Busy(u)
  BY <1>1 DEF Parts, Alone
<1>7. \A u \in Threads : thread'[u].pc \notin Claimed \union Acting \union {"stuck"}
  <2>1. \A u \in Threads \ {t} : thread'[u].pc \notin Claimed \union Acting \union {"stuck"}
    BY <1>5, <1>6, ClaimedBusy DEF Parts, StopOK, StopOKOf
  <2> QED
    BY <1>5, <2>1 DEF Claimed, Acting
<1>8. Alone'
  BY <1>5, <1>6 DEF Alone, Busy, Starter
<1>9. RereadOK' /\ StartOK' /\ StopOK'
  BY <1>7 DEF RereadOK, StartOK, StopOK, StopOKOf, Claimed
<1>10. PICK s \in Schedules : s = row.s
  BY <1>1, <1>3
<1>10a. Scheduled' = {s} /\ Live(s)'
  BY <1>1, <1>3, <1>10 DEF Live, Scheduled, Queued
<1>11. OptsOK' /\ Stops'
  BY <1>4, <1>10, <1>10a DEF OptsOK, Stops
<1>12. Starts'
  <2>1. Live(row.s)'
    BY <1>4, <1>10, <1>10a DEF Live, Queued, Scheduled
  <2> QED
    BY <1>4, <2>1 DEF Starts
<1> QED
  BY <1>8, <1>9, <1>11, <1>12 DEF Parts

(* initTask removes the jobs, and starts the task if it is enabled.          *)
LEMMA ClearSafe ==
    ASSUME TypeInv, Parts, NEW b \in Boots, Clear(b)
    PROVE  Parts'
<1>1. PICK pc \in {"exist", "unlock"} :
        Read(b, pc, thread[b].then) /\ (pc = "exist" <=> row.status = 1)
  BY ClearRead
<1>2. /\ b \in Threads /\ thread[b].pc = "clear" /\ Busy(b) /\ Starter(b)
      /\ UNCHANGED <<row, repeat>>
  BY Apart DEF Clear, Busy, Resting, Starter
<1>3. /\ thread'[b].pc = pc /\ thread'[b].then = thread[b].then
      /\ thread'[b].s = row.s /\ thread'[b].opts = row.opts
      /\ \A u \in Threads \ {b} : thread'[u] = thread[u]
  BY <1>1 DEF Read, Only
<1>4. \A u \in Threads \ {b} : ~Busy(u)
  BY <1>2 DEF Parts, Alone
<1>5. \A u \in Threads \ {b} : thread'[u].pc \notin Claimed \union Acting \union {"stuck"}
  BY <1>3, <1>4, ClaimedBusy DEF Parts, StopOK, StopOKOf
<1>6. Alone'
  BY <1>3, <1>4 DEF Alone, Busy, Starter
<1>7. Scheduled' = Scheduled /\ (row.status = 1 => row.here)
  BY <1>2 DEF Scheduled, TypeInv, RowOK
<1>8. Scheduled \subseteq {row.opts}
  BY <1>2, <1>4, ClaimedBusy DEF Parts, OptsOK, Claimed
<1>9. RereadOK' /\ StartOK'
  <2>1. ASSUME NEW u \in Threads, thread'[u].pc \in Acting \union {"reread"}
        PROVE  u = b /\ pc = "exist"
    BY <1>1, <1>3, <1>5, <2>1 DEF Claimed, Acting
  <2>2. pc = "exist" => row'.here /\ thread'[b].s = row'.s
    BY <1>1, <1>2, <1>3, <1>7
  <2> QED
    BY <1>3, <2>1, <2>2 DEF RereadOK, StartOK
<1>10. StopOK' /\ OptsOK'
  BY <1>1, <1>2, <1>3, <1>5, <1>7, <1>8 DEF StopOK, StopOKOf, Claimed, OptsOK
<1>11. ~(row.status = 0 /\ Scheduled # {})
  BY <1>2, <1>4, ClaimedBusy DEF Parts, Stops, Ending, Claimed
<1>12. row.status = 1 => Starting(b)'
  BY <1>1, <1>2, <1>3 DEF Starting, Starter
<1>13. Stops' /\ Starts'
  BY <1>2, <1>7, <1>11, <1>12 DEF Stops, Starts
<1> QED
  BY <1>6, <1>9, <1>10, <1>13 DEF Parts

(* Bull queues the next run of a repeatable job when it hands one out.       *)
LEMMA TakeSafe ==
    ASSUME TypeInv, Parts, NEW w \in Workers, NEW j \in queue, Take(w, j)
    PROVE  Parts'
<1>1. row' = row /\ thread' = thread /\ j.at <= now /\ j \in Job /\ now \in Nat
  BY DEF Take, TypeInv, WorldOK
<1>2. CASE j.s \in Scheduled /\ HasRunsLeft(j.s, j.n)
  <2> DEFINE s == j.s
             at == NextRun(s, now)
  <2>1. s \in Schedules /\ at \in Nat /\ at > now
    BY <1>1, <1>2, NextRunLater DEF Scheduled
  <2>2. Enqueue(queue \ {j}, s, at, j.n + 1)
    BY <1>2 DEF Take
  <2>3. j.at < at
    BY <1>1, <2>1 DEF Job
  <2> HIDE DEF s, at
  <2>4. repeat' = [repeat EXCEPT ![s] = [on |-> TRUE, next |-> at]]
    BY <2>2 DEF Enqueue
  <2>5. repeat'[s].on /\ repeat'[s].next = at /\ \A r \in Schedules : r # s => repeat'[r] = repeat[r]
    BY <2>1, <2>4 DEF TypeInv, WorldOK
  <2>6. Scheduled' = Scheduled
    BY <1>2, <2>5 DEF Scheduled, s
  <2>7. \E k \in queue' : k.s = s /\ k.at = at
    <3>1. CASE Queued(s, at)
      <4>1. queue' = queue \ {j}
        BY <2>2, <3>1 DEF Enqueue
      <4>2. PICK k \in queue : k.s = s /\ k.at = at
        BY <3>1 DEF Queued
      <4>3. k # j
        BY <2>1, <2>3, <4>2 DEF TypeInv, WorldOK, Job
      <4> QED
        BY <4>1, <4>2, <4>3
    <3>2. CASE ~Queued(s, at)
      <4>1. queue' = (queue \ {j}) \union {[s |-> s, at |-> at, n |-> j.n + 1]}
        BY <2>2, <3>2 DEF Enqueue
      <4>2. /\ [s |-> s, at |-> at, n |-> j.n + 1].s = s /\ [s |-> s, at |-> at, n |-> j.n + 1].at = at
            /\ [s |-> s, at |-> at, n |-> j.n + 1] \in queue'
        BY <4>1
      <4> QED
        BY <4>2
    <3> QED
      BY <3>1, <3>2
  <2>8. \A r \in Schedules : Live(r) => Live(r)'
    <3> SUFFICES ASSUME NEW r \in Schedules, Live(r) PROVE Live(r)'
      OBVIOUS
    <3>1. r = s
      BY <1>2 DEF Live, s
    <3> QED
      BY <2>5, <2>6, <2>7, <3>1 DEF Live, Queued
  <2> QED
    BY <1>1, <2>6, <2>8, Frame
<1>3. CASE ~(j.s \in Scheduled /\ HasRunsLeft(j.s, j.n))
  <2>1. queue' = queue \ {j} /\ repeat' = repeat
    BY <1>3 DEF Take
  <2>2. \A r \in Schedules : Live(r) => Live(r)'
    <3> SUFFICES ASSUME NEW r \in Schedules, Live(r) PROVE Live(r)'
      OBVIOUS
    <3>1. Runs[r] = 0 => j.s # r
      BY <1>3 DEF Live, HasRunsLeft
    <3> QED
      BY <2>1, <3>1 DEF Live, Queued, Scheduled
  <2>3. Scheduled' = Scheduled
    BY <2>1 DEF Scheduled
  <2> QED
    BY <1>1, <2>2, <2>3, Frame
<1> QED
  BY <1>2, <1>3

(* The steps that touch neither the row nor what is scheduled.               *)
LEMMA QuietCallSafe ==
    ASSUME TypeInv, Parts, NEW c \in Calls, RunOnce(c)
    PROVE  Parts'
<1>1. c \in Threads /\ Went(c, "done") /\ thread[c].pc = "once"
  BY Apart, GotoWent DEF RunOnce, Pcs
<1>2. row' = row /\ repeat' = repeat /\ queue \subseteq queue'
  BY DEF RunOnce
<1> QED
  BY <1>1, <1>2, FrameOf DEF Pcs, Claimed, Resting

LEMMA InitTaskSafe ==
    ASSUME TypeInv, Parts, NEW b \in Boots, InitTask(b), ~raced'
    PROVE  Parts'
<1>a. b \in Threads
  BY Apart
<1>1. CASE Boot(b)
  <2>1. thread[b].pc = "idle" /\ UNCHANGED <<row, repeat, queue>>
    BY <1>1 DEF Boot
  <2>2. CASE LockHeld
    <3>1. Went(b, "done")
      BY <1>a, <1>1, <2>2, GotoWent DEF Boot, Pcs
    <3> QED
      BY <1>a, <2>1, <3>1, FrameOf DEF Pcs, Claimed, Resting
  <2>3. CASE ~LockHeld
    <3>1. Begin(b, "listAll", "boot")
      BY <1>1, <2>3 DEF Boot
    <3> QED
      BY <1>a, <2>1, <3>1, BeginsSafe DEF Thens
  <2> QED
    BY <2>2, <2>3
<1>2. CASE ListAll(b)
  <2>1. Went(b, "clear") /\ thread[b].pc = "listAll"
    BY <1>a, <1>2, ListedWent DEF ListAll, Pcs, TypeInv, WorldOK
  <2>2. row' = row /\ repeat' = repeat /\ queue' = queue
    BY <1>2 DEF ListAll
  <2> QED
    BY <1>a, <2>1, <2>2, FrameOf DEF Pcs, Claimed, Busy, Resting
<1>3. CASE Unlock(b)
  <2>1. Went(b, "done") /\ thread[b].pc = "unlock"
    BY <1>a, <1>3, GotoWent DEF Unlock, Pcs
  <2>2. row' = row /\ repeat' = repeat /\ queue' = queue
    BY <1>3 DEF Unlock
  <2> QED
    BY <1>a, <2>1, <2>2, FrameOf DEF Pcs, Claimed, Resting
<1> QED
  BY <1>1, <1>2, <1>3, ClearSafe DEF InitTask

(* A process that dies during no call has nothing under way.                 *)
LEMMA CrashSafe ==
    ASSUME TypeInv, Parts, NEW t \in Threads, Crash(t), ~crashed'
    PROVE  Parts'
<1>1. Went(t, "dead")
  BY GotoWent DEF Crash, Pcs
<1>2. row' = row /\ repeat' = repeat /\ queue \subseteq queue' /\ ~Busy(t)
  BY DEF Crash
<1>3. thread[t].pc \notin Claimed
  BY <1>2, ClaimedBusy
<1> QED
  BY <1>1, <1>2, <1>3, FrameOf DEF Pcs, Claimed, Resting

LEMMA ConsumeSafe ==
    ASSUME TypeInv, Parts, NEW w \in Workers, Consume(w), ~raced'
    PROVE  Parts'
<1>a. w \in Threads
  BY Apart
<1>1. CASE Finish(w)
  <2>1. thread[w].pc = "idle" /\ row' = row /\ repeat' = repeat /\ queue' = queue
    BY <1>1 DEF Finish
  <2>2. CASE UNCHANGED thread
    BY <2>1, <2>2, Frame, LiveKept
  <2>3. CASE Goto(w, "completed")
    <3>1. Went(w, "completed")
      BY <1>a, <2>3, GotoWent DEF Pcs
    <3> QED
      BY <1>a, <2>1, <3>1, FrameOf DEF Pcs, Claimed, Resting
  <2> QED
    BY <1>1, <2>2, <2>3 DEF Finish
<1>2. CASE ListRepeatables(w)
  <2> DEFINE jobs == {[s |-> s, at |-> repeat[s].next, n |-> 0] : s \in Scheduled}
  <2>1. jobs \in SUBSET Job
    BY DEF Scheduled, Job, TypeInv, WorldOK
  <2>2. thread' = [thread EXCEPT ![w].pc = "find", ![w].jobs = jobs]
    BY <1>2 DEF ListRepeatables
  <2> HIDE DEF jobs
  <2>3. Went(w, "find")
    BY <1>a, <2>1, <2>2, ListedWent DEF Pcs
  <2>4. thread[w].pc = "completed" /\ row' = row /\ repeat' = repeat /\ queue' = queue
    BY <1>2 DEF ListRepeatables
  <2> QED
    BY <1>a, <2>3, <2>4, FrameOf DEF Pcs, Claimed, Resting
<1>3. CASE Find(w)
  <2>1. thread[w].pc = "find" /\ row' = row /\ repeat' = repeat /\ queue' = queue
    BY <1>3 DEF Find
  <2>2. CASE row.here /\ Completed(w)
    <3>1. Begin(w, "exist", "check")
      BY <1>3, <2>2 DEF Find
    <3> QED
      BY <1>a, <2>1, <3>1, BeginsSafe DEF Thens
  <2>3. CASE ~(row.here /\ Completed(w))
    <3>1. thread' = [thread EXCEPT ![w] = Idle]
      BY <1>3, <2>3 DEF Find
    <3>2. thread'[w] = Idle /\ \A u \in Threads \ {w} : thread'[u] = thread[u]
      BY <1>a, <3>1 DEF TypeInv, ThreadsOK
    <3>3. /\ thread[w].pc \notin Claimed /\ thread'[w].pc \notin Claimed \union {"stuck"}
          /\ Busy(w)' => Busy(w)
          /\ Starter(w)' => Starter(w)
      BY <2>1, <3>2, JobsTyped DEF Claimed, Busy, Resting, Starter
    <3>4. Scheduled' = Scheduled /\ \A s \in Schedules : Live(s) => Live(s)'
      BY <2>1, LiveKept
    <3> QED
      BY <2>1, <3>2, <3>3, <3>4, Frame
  <2> QED
    BY <2>2, <2>3
<1> QED
  BY <1>1, <1>2, <1>3, TakeSafe DEF Consume

LEMMA SafeStep == TypeInv /\ SafeInv /\ [Next]_vars => SafeInv'
<1>1. CASE UNCHANGED vars
  BY <1>1 DEF vars, SafeInv, Undisturbed, Parts, Alone, Busy, Starter, RereadOK, StartOK, StopOK,
     StopOKOf, Live, Queued, Scheduled, OptsOK, Stops, Ending, Starts, Starting
<1> SUFFICES ASSUME TypeInv, SafeInv, Next, Undisturbed' PROVE Parts'
  BY <1>1 DEF SafeInv
(* What was raced or crashed stays so.                                       *)
<1>2. Undisturbed
  <2>1. ~raced' => ~raced
    <3>1. \A t \in Threads, pc \in Pcs, then \in Thens : Begin(t, pc, then) /\ ~raced' => ~raced
      BY DEF Begin
    <3>2. \A c \in Calls : Call(c) /\ ~raced' => ~raced
      BY <3>1, Apart DEF Call, Create, Update, Write, Route, Info, RunOnce, Delete, Begin
    <3>3. \A b \in Boots : InitTask(b) /\ ~raced' => ~raced
      BY DEF InitTask, Boot, ListAll, Clear, Unlock, Begin
    <3>4. \A w \in Workers : Consume(w) /\ ~raced' => ~raced
      BY DEF Consume, Take, Finish, ListRepeatables, Find, Begin
    <3>5. \A t \in Threads : Stop(t) \/ Start(t) \/ Crash(t) => UNCHANGED raced
      BY DEF Stop, Exist, ListJobs, Remove, SetDisabled, Start, Add, Save, Crash
    <3> QED
      BY <3>2, <3>3, <3>4, <3>5 DEF Next, Tick, LockExpire, ClearLog
  <2>2. ~crashed' => ~crashed
    <3>1. \A c \in Calls : Call(c) => UNCHANGED crashed
      BY DEF Call, Create, Update, Write, Route, Info, RunOnce, Delete
    <3>2. \A b \in Boots : InitTask(b) => UNCHANGED crashed
      BY DEF InitTask, Boot, ListAll, Clear, Unlock
    <3>3. \A w \in Workers : Consume(w) => UNCHANGED crashed
      BY DEF Consume, Take, Finish, ListRepeatables, Find
    <3>4. \A t \in Threads : Stop(t) \/ Start(t) \/ Crash(t) => (~crashed' => ~crashed)
      BY DEF Stop, Exist, ListJobs, Remove, SetDisabled, Start, Add, Save, Crash
    <3> QED
      BY <3>1, <3>2, <3>3, <3>4 DEF Next, Tick, LockExpire, ClearLog
  <2> QED
    BY <2>1, <2>2 DEF Undisturbed
<1>3. Parts /\ ~raced' /\ ~crashed'
  BY <1>2 DEF SafeInv, Undisturbed
<1>4. CASE Tick \/ LockExpire \/ ClearLog
  <2>1. UNCHANGED <<row, repeat, queue, thread>>
    BY <1>4 DEF Tick, LockExpire, ClearLog
  <2> QED
    BY <1>3, <2>1, Frame, LiveKept
<1>5. ASSUME NEW c \in Calls, Call(c) PROVE Parts'
  <2>1. ASSUME NEW then \in {"start", "stop", "delete", "once"}, Route(c, then) PROVE Parts'
    BY <1>3, <2>1, Apart, BeginsSafe DEF Route, Thens
  <2> QED
    BY <1>3, <1>5, <2>1, WriteSafe, InfoSafe, QuietCallSafe, DeleteSafe DEF Call
<1>6. ASSUME NEW t \in Threads, Stop(t) \/ Start(t) \/ Crash(t) PROVE Parts'
  BY <1>3, <1>6, StopLooksSafe, RemoveSafe, DisableSafe, AddSafe, SaveSafe, CrashSafe DEF Stop, Start
<1> QED
  BY <1>3, <1>4, <1>5, <1>6, InitTaskSafe, ConsumeSafe DEF Next

(* StoppedMeansQuiet: a task that is disabled or deleted has no repeatable   *)
(* job left, unless a start overlapped with another call or a process died   *)
(* during one (task.service.ts: stop, update, delete).                       *)
THEOREM StopLeavesNothing == Spec => []StoppedMeansQuiet
<1>1. TypeInv /\ SafeInv => StoppedMeansQuiet
  <2>1. ASSUME NEW t \in Threads, ~Busy(t) PROVE ~Ending(t)
    BY <2>1 DEF Ending, Busy, Resting
  <2> QED
    BY <2>1 DEF SafeInv, StoppedMeansQuiet, Quiet, Parts, Stops
<1> QED
  BY <1>1, TypeInit, TypeStep, SafeInit, SafeStep, PTL DEF Spec

(* StartedMeansScheduled: an enabled task has one repeatable job, that of    *)
(* its schedule and of its job options, and without a limit its next run is  *)
(* queued, unless a start overlapped or a process died during a call         *)
(* (task.service.ts: start, update, initTask).                               *)
THEOREM StartSchedules == Spec => []StartedMeansScheduled
<1>1. TypeInv /\ SafeInv => StartedMeansScheduled
  <2>1. ASSUME NEW t \in Threads, ~Busy(t) PROVE ~Starting(t)
    BY <2>1 DEF Starting, Busy, Resting
  <2> QED
    BY <2>1 DEF SafeInv, StartedMeansScheduled, Quiet, Parts, Starts, Live
<1> QED
  BY <1>1, TypeInit, TypeStep, SafeInit, SafeStep, PTL DEF Spec

(* NeverStuck: stop always finds the job options that start saved, whatever  *)
(* calls came before (task.service.ts: stop, JSON.parse of task.jobOpts).    *)
THEOREM StopNeverFails == Spec => []NeverStuck
<1>1. SafeInv => NeverStuck
  BY DEF SafeInv, NeverStuck, Parts, StopOK, StopOKOf
<1> QED
  BY <1>1, TypeInit, TypeStep, SafeInit, SafeStep, PTL DEF Spec

=============================================================================
