------------------------- MODULE IdempotenceProofs -------------------------
(***************************************************************************)
(* Proofs about Idempotence, for any number of identical requests and any  *)
(* Expired > Timeout + Lag.                                                *)
(***************************************************************************)
EXTENDS Idempotence, TLAPS

USE IdempotenceAssumption

-----------------------------------------------------------------------------
(* What a step does to the record of its request, and to no other. *)

LEMMA GotoRecord ==
    ASSUME TypeOK, NEW r \in Requests,
           NEW pc \in {"set0", "set1", "del", "done"},
           NEW answer \in {"none", "ok", "error", "conflict", "lost"},
           Goto(r, pc, answer)
    PROVE  /\ req' \in [Requests -> RequestState]
           /\ \A s \in Requests \ {r} : req'[s] = req[s]
           /\ req'[r].pc = pc /\ req'[r].since = now
           /\ req'[r].start = req[r].start /\ req'[r].mark = req[r].mark
           /\ req'[r].answer = IF Answered(r) THEN req[r].answer ELSE answer
<1>1. PICK a \in {"none", "ok", "error", "conflict", "timeout", "lost"} :
        /\ a = IF Answered(r) THEN req[r].answer ELSE answer
        /\ req' = [req EXCEPT ![r].pc = pc, ![r].since = now, ![r].answer = a]
  BY DEF Goto, TypeOK, RequestState
<1>2. a = IF Answered(r) THEN req[r].answer ELSE answer
  BY <1>1
<1>3. now \in Nat /\ req \in [Requests -> RequestState]
  BY DEF TypeOK
<1>4. PICK q \in RequestState : q = [req[r] EXCEPT !.pc = pc, !.since = now, !.answer = a]
  BY <1>3 DEF RequestState
<1>5. req' = [req EXCEPT ![r] = q]
  BY <1>1, <1>3, <1>4
<1>6. q.pc = pc /\ q.since = now /\ q.start = req[r].start /\ q.mark = req[r].mark /\ q.answer = a
  BY <1>3, <1>4 DEF RequestState
<1> QED
  BY <1>2, <1>3, <1>5, <1>6

\* A step of r, field by field.
Keeps(r) == req'[r].start = req[r].start /\ req'[r].mark = req[r].mark
Leaves == key' = key /\ raced' = raced /\ owners' = owners
Tells(r, answer) == req'[r].answer = IF Answered(r) THEN req[r].answer ELSE answer

ArriveEffect(r) ==
    /\ req[r].pc = "idle"
    /\ req'[r] = [NoRequest EXCEPT !.pc = "get", !.start = now, !.since = now]
    /\ Leaves

GetEffect(r) ==
    /\ req[r].pc = "get" /\ req'[r].since = now
    /\ Keeps(r) /\ Leaves
    /\ \/ Present /\ req'[r].pc = "done" /\ Tells(r, "conflict")
       \/ ~Present /\ req'[r].pc = "set0" /\ Tells(r, "none")

Set0Effect(r) ==
    /\ req[r].pc = "set0"
    /\ \/ Answered(r) /\ req'[r].pc = "done"
       \/ ~Answered(r) /\ req'[r].pc = "run"
    /\ req'[r].start = req[r].start /\ req'[r].mark = now /\ Tells(r, "none")
    /\ key' = [v |-> "0", until |-> now + Expired]
    /\ raced' = (raced \/ Present)
    /\ owners' = IF Present THEN owners \union {r} ELSE {r}

HandlerEffect(r) ==
    /\ req[r].pc = "run" /\ req'[r].since = now
    /\ Keeps(r) /\ Leaves
    /\ \/ Answered(r) /\ req'[r].pc = "done" /\ Tells(r, "none")
       \/ ~Answered(r) /\ req'[r].pc = "set1" /\ Tells(r, "ok")
       \/ ~Answered(r) /\ req'[r].pc = "del" /\ Tells(r, "none")

Set1Effect(r) ==
    /\ req[r].pc = "set1" /\ req'[r].pc = "done" /\ Keeps(r) /\ Tells(r, "none")
    /\ key' = [v |-> "1", until |-> IF Present THEN key.until ELSE Forever]
    /\ raced' = raced
    /\ owners' = IF Present THEN owners \union {r} ELSE {r}

DelEffect(r) ==
    /\ req[r].pc = "del" /\ req'[r].pc = "done" /\ Keeps(r) /\ Tells(r, "error")
    /\ key' = NoKey /\ raced' = raced /\ owners' = {}

TimeOutEffect(r) ==
    /\ req[r].pc \in {"get", "set0", "run", "set1", "del"} /\ req'[r].pc = req[r].pc
    /\ ~Answered(r) /\ req'[r].answer = "timeout"
    /\ Keeps(r) /\ req'[r].since = req[r].since /\ Leaves

CrashEffect(r) ==
    /\ req[r].pc \notin {"idle", "done"} /\ req'[r].pc = "done"
    /\ Keeps(r) /\ Tells(r, "lost") /\ Leaves

Effect(r) ==
    \/ ArriveEffect(r) \/ GetEffect(r) \/ Set0Effect(r) \/ HandlerEffect(r)
    \/ Set1Effect(r) \/ DelEffect(r) \/ TimeOutEffect(r) \/ CrashEffect(r)

LEMMA StepEffect ==
    ASSUME TypeOK, NEW r \in Requests, Step(r)
    PROVE  /\ now' = now
           /\ req' \in [Requests -> RequestState]
           /\ \A s \in Requests \ {r} : req'[s] = req[s]
           /\ Effect(r)
<1> DEFINE Frame == /\ now' = now
                    /\ req' \in [Requests -> RequestState]
                    /\ \A s \in Requests \ {r} : req'[s] = req[s]
<1> USE DEF Keeps, Leaves, Tells
<1>1. CASE Arrive(r)
  <2>1. Frame /\ ArriveEffect(r)
    BY <1>1 DEF Arrive, ArriveEffect, NoRequest, TypeOK, RequestState
  <2> QED
    BY <2>1 DEF Effect
<1>2. CASE Get(r)
  <2>1. Frame /\ GetEffect(r)
    BY <1>2, GotoRecord DEF Get, GetEffect
  <2> QED
    BY <2>1 DEF Effect
<1>3. CASE Set0(r)
  <2>1. PICK pc \in {"done", "run"} :
          /\ req' = [req EXCEPT ![r].pc = pc, ![r].mark = now]
          /\ (Answered(r) /\ pc = "done") \/ (~Answered(r) /\ pc = "run")
    BY <1>3 DEF Set0
  <2>2. /\ req' \in [Requests -> RequestState]
        /\ \A s \in Requests \ {r} : req'[s] = req[s]
        /\ req'[r].pc = pc /\ req'[r].mark = now
        /\ req'[r].start = req[r].start /\ req'[r].answer = req[r].answer
    BY <2>1 DEF TypeOK, RequestState
  <2>3. Frame
    BY <1>3, <2>2 DEF Set0
  <2>4. Tells(r, "none")
    BY <2>2 DEF Answered
  <2>5. Set0Effect(r)
    BY <1>3, <2>1, <2>2, <2>4 DEF Set0, Set0Effect, KeyTTL
  <2> QED
    BY <2>3, <2>5 DEF Effect
<1>4. CASE HandlerOk(r)
  <2>1. PICK pc \in {"done", "set1"} :
          /\ Goto(r, pc, "ok")
          /\ (Answered(r) /\ pc = "done") \/ (~Answered(r) /\ pc = "set1")
    BY <1>4 DEF HandlerOk
  <2>2. Frame /\ HandlerEffect(r)
    BY <1>4, <2>1, GotoRecord DEF HandlerOk, HandlerEffect
  <2> QED
    BY <2>2 DEF Effect
<1>5. CASE HandlerErr(r)
  <2>1. PICK pc \in {"done", "del"} :
          /\ Goto(r, pc, "none")
          /\ (Answered(r) /\ pc = "done") \/ (~Answered(r) /\ pc = "del")
    BY <1>5 DEF HandlerErr
  <2>2. Frame /\ HandlerEffect(r)
    BY <1>5, <2>1, GotoRecord DEF HandlerErr, HandlerEffect
  <2> QED
    BY <2>2 DEF Effect
<1>6. CASE Set1(r)
  <2>1. Frame /\ Set1Effect(r)
    BY <1>6, GotoRecord DEF Set1, Set1Effect
  <2> QED
    BY <2>1 DEF Effect
<1>7. CASE Del(r)
  <2>1. Frame /\ DelEffect(r)
    BY <1>7, GotoRecord DEF Del, DelEffect, MarkRemoved
  <2> QED
    BY <2>1 DEF Effect
<1>8. CASE TimeOut(r)
  <2>1. Frame /\ TimeOutEffect(r)
    BY <1>8 DEF TimeOut, TimeoutDue, TimeOutEffect, TypeOK, RequestState
  <2> QED
    BY <2>1 DEF Effect
<1>9. CASE Crash(r)
  <2>1. Frame /\ CrashEffect(r)
    BY <1>9, GotoRecord DEF Crash, CrashEffect
  <2> QED
    BY <2>1 DEF Effect
<1> QED
  BY <1>1, <1>2, <1>3, <1>4, <1>5, <1>6, <1>7, <1>8, <1>9 DEF Step

LEMMA TypeStep ==
    ASSUME TypeOK, Next
    PROVE  TypeOK'
<1> DEFINE Young(s) ==
        req[s].pc \notin {"idle", "done"} /\ ~Answered(s) => now - req[s].start <= Timeout
<1>1. CASE Tick
  BY <1>1 DEF Tick, TypeOK, RequestState, TimeoutDue, Answered
<1>2. ASSUME NEW r \in Requests, Step(r) PROVE TypeOK'
  <2>1. /\ now' = now
        /\ req' \in [Requests -> RequestState]
        /\ \A s \in Requests \ {r} : req'[s] = req[s]
        /\ Effect(r)
    BY <1>2, StepEffect
  <2>2. /\ key' \in [v : {"none", "0", "1"}, until : Nat \union {Forever}]
        /\ raced' \in BOOLEAN
        /\ owners' \subseteq Requests
    <3>1. CASE Set0Effect(r)
      BY <3>1 DEF TypeOK, Set0Effect
    <3>2. CASE Set1Effect(r)
      <4>1. key.until \in Nat \union {Forever}
        BY DEF TypeOK
      <4> QED
        BY <3>2, <4>1 DEF TypeOK, Set1Effect
    <3>3. CASE DelEffect(r)
      BY <3>3 DEF TypeOK, DelEffect, NoKey
    <3>4. CASE Leaves
      BY <3>4 DEF TypeOK, Leaves
    <3> QED
      BY <2>1, <3>1, <3>2, <3>3, <3>4 DEF Effect, ArriveEffect, GetEffect, HandlerEffect,
         TimeOutEffect, CrashEffect
  <2>3. ASSUME NEW s \in Requests PROVE Young(s)'
    <3>1. CASE s # r
      BY <2>1, <3>1 DEF TypeOK, Answered
    <3>2. CASE s = r /\ ArriveEffect(r)
      BY <2>1, <3>2 DEF TypeOK, NoRequest, Answered, ArriveEffect
    <3>3. CASE s = r /\ ~ArriveEffect(r)
      <4>1. /\ req[r].pc \notin {"idle", "done"}
            /\ req'[r].start = req[r].start
            /\ Answered(r) => Answered(r)'
        BY <2>1, <3>3 DEF Effect, GetEffect, Set0Effect, HandlerEffect, Set1Effect,
           DelEffect, TimeOutEffect, CrashEffect, Keeps, Tells, Answered
      <4> QED
        BY <2>1, <3>3, <4>1 DEF TypeOK
    <3> QED
      BY <3>1, <3>2, <3>3
  <2> QED
    BY <2>1, <2>2, <2>3 DEF TypeOK
<1> QED
  BY <1>1, <1>2 DEF Next

(* TypeOK: in every reachable state the clock, the key and the requests have *)
(* their types, and no unanswered request is older than the timeout          *)
(* (timeout.interceptor.ts:15-25).                                           *)
THEOREM TypeCorrect == Spec => []TypeOK
<1>1. Init => TypeOK
  <2> SUFFICES ASSUME Init PROVE TypeOK
    OBVIOUS
  <2>1. req \in [Requests -> RequestState] /\ \A r \in Requests : req[r].pc = "idle"
    BY DEF Init, NoRequest, RequestState
  <2> QED
    BY <2>1 DEF Init, TypeOK, NoKey
<1>2. TypeOK /\ [Next]_vars => TypeOK'
  <2> SUFFICES ASSUME TypeOK, [Next]_vars PROVE TypeOK'
    OBVIOUS
  <2>1. CASE Next
    BY <2>1, TypeStep
  <2>2. CASE UNCHANGED vars
    BY <2>2 DEF vars, TypeOK, Answered
  <2> QED
    BY <2>1, <2>2
<1> QED
  BY <1>1, <1>2, PTL DEF Spec

-----------------------------------------------------------------------------
(* A request that was answered takes no further step, save what tap sends.   *)

LEMMA AnswerStep ==
    ASSUME TypeOK, AnswerInv, Next
    PROVE  AnswerInv'
<1>1. CASE Tick
  BY <1>1 DEF Tick, AnswerInv
<1>2. ASSUME NEW r \in Requests, Step(r) PROVE AnswerInv'
  <2>1. /\ req' \in [Requests -> RequestState]
        /\ \A s \in Requests \ {r} : req'[s] = req[s]
        /\ Effect(r)
    BY <1>2, StepEffect
  <2>2. /\ req'[r].answer \in {"error", "conflict", "lost"} => req'[r].pc = "done"
        /\ req'[r].answer = "ok" => req'[r].pc \in {"set1", "done"}
        /\ req'[r].pc = "set1" => req'[r].answer = "ok"
    BY <2>1 DEF AnswerInv, Effect, ArriveEffect, GetEffect, Set0Effect, HandlerEffect,
       Set1Effect, DelEffect, TimeOutEffect, CrashEffect, Tells, Answered, NoRequest
  <2> QED
    BY <2>1, <2>2 DEF AnswerInv
<1> QED
  BY <1>1, <1>2 DEF Next

THEOREM Answers == Spec => []AnswerInv
<1>1. Init => AnswerInv
  <2> SUFFICES ASSUME Init, NEW r \in Requests
               PROVE  req[r].answer = "none" /\ req[r].pc = "idle"
    BY DEF AnswerInv
  <2> QED
    BY DEF Init, NoRequest
<1>2. TypeOK /\ AnswerInv /\ [Next]_vars => AnswerInv'
  <2> SUFFICES ASSUME TypeOK, AnswerInv, [Next]_vars PROVE AnswerInv'
    OBVIOUS
  <2>1. CASE Next
    BY <2>1, AnswerStep
  <2>2. CASE UNCHANGED vars
    BY <2>2 DEF vars, AnswerInv
  <2> QED
    BY <2>1, <2>2
<1> QED
  BY <1>1, <1>2, TypeCorrect, PTL DEF Spec

-----------------------------------------------------------------------------
(* A failure leaves nothing behind. *)

LEMMA FailureStep ==
    ASSUME TypeOK, AnswerInv, FailureForgotten, Next
    PROVE  FailureForgotten'
<1>1. CASE Tick
  BY <1>1 DEF Tick, FailureForgotten, Present, TypeOK
<1>2. ASSUME NEW r \in Requests, Step(r) PROVE FailureForgotten'
  <2> DEFINE Told(s) == req[s].answer = "error"
  <2>1. /\ now' = now
        /\ \A s \in Requests \ {r} : req'[s] = req[s]
        /\ Effect(r)
    BY <1>2, StepEffect
  <2>2. CASE DelEffect(r)
    BY <2>2 DEF DelEffect, NoKey, FailureForgotten, Present
  <2>3. CASE Set0Effect(r) \/ Set1Effect(r)
    <3>1. r \in owners'
      BY <2>3 DEF Set0Effect, Set1Effect
    <3>2. ~Told(r)'
      BY <2>3 DEF Set0Effect, Set1Effect, Tells, Answered, AnswerInv
    <3> QED
      BY <3>1, <3>2 DEF FailureForgotten
  <2>4. CASE ArriveEffect(r) \/ GetEffect(r) \/ HandlerEffect(r) \/ TimeOutEffect(r)
             \/ CrashEffect(r)
    <3>1. UNCHANGED <<key, owners>>
      BY <2>4 DEF ArriveEffect, GetEffect, HandlerEffect, TimeOutEffect, CrashEffect, Leaves
    <3>2. ~Told(r) => ~Told(r)'
      BY <2>4 DEF ArriveEffect, GetEffect, HandlerEffect, TimeOutEffect, CrashEffect, Tells,
         NoRequest, Answered
    <3> QED
      BY <2>1, <3>1, <3>2 DEF FailureForgotten, Present, TypeOK
  <2> QED
    BY <2>1, <2>2, <2>3, <2>4 DEF Effect
<1> QED
  BY <1>1, <1>2 DEF Next

(* FailureForgotten: with or without a race, a key that turns requests away  *)
(* was written by a request that was not told of an error                    *)
(* (idempotence.interceptor.ts:114-126).                                     *)
THEOREM Failure == Spec => []FailureForgotten
<1>1. Init => FailureForgotten
  BY DEF Init, FailureForgotten, Present, NoKey
<1>2. TypeOK /\ AnswerInv /\ FailureForgotten /\ [Next]_vars => FailureForgotten'
  <2> SUFFICES ASSUME TypeOK, AnswerInv, FailureForgotten, [Next]_vars PROVE FailureForgotten'
    OBVIOUS
  <2>1. CASE Next
    BY <2>1, FailureStep
  <2>2. CASE UNCHANGED vars
    BY <2>2 DEF vars, FailureForgotten, Present
  <2> QED
    BY <2>1, <2>2
<1> QED
  BY <1>1, <1>2, TypeCorrect, Answers, PTL DEF Spec

-----------------------------------------------------------------------------
(* Commands and handlers end in time. *)

LEMMA TimingStep ==
    ASSUME TypeOK, TimingInv, Next
    PROVE  TimingInv'
<1>1. CASE Tick
  BY <1>1 DEF Tick, TimingInv, TypeOK, RequestState, Running, Answered, Commands
<1>2. ASSUME NEW r \in Requests, Step(r) PROVE TimingInv'
  <2>1. /\ now' = now
        /\ req' \in [Requests -> RequestState]
        /\ \A s \in Requests \ {r} : req'[s] = req[s]
        /\ Effect(r)
    BY <1>2, StepEffect
  <2>2. now \in Nat /\ req[r] \in RequestState
    BY DEF TypeOK
  <2>3. /\ req'[r].start <= now
        /\ req'[r].pc \in Commands => now - req'[r].since <= Lag
        /\ Running(r)' => req'[r].start <= req'[r].mark
        /\ req'[r].pc \in {"set1", "del"} => req'[r].since - req'[r].mark <= Timeout
    <3> USE <2>2 DEF TimingInv, RequestState, Commands, Running, Answered, Keeps, Tells
    <3>1. CASE ArriveEffect(r)
      BY <3>1 DEF ArriveEffect, NoRequest
    <3>2. CASE GetEffect(r)
      BY <3>2 DEF GetEffect
    <3>3. CASE Set0Effect(r)
      BY <3>3 DEF Set0Effect
    <3>4. CASE HandlerEffect(r)
      <4>1. ~Answered(r) => now - req[r].mark <= Timeout
        BY <3>4 DEF HandlerEffect, TypeOK
      <4> QED
        BY <3>4, <4>1 DEF HandlerEffect
    <3>5. CASE Set1Effect(r) \/ DelEffect(r) \/ CrashEffect(r)
      BY <3>5 DEF Set1Effect, DelEffect, CrashEffect
    <3>6. CASE TimeOutEffect(r)
      BY <3>6 DEF TimeOutEffect
    <3> QED
      BY <2>1, <3>1, <3>2, <3>3, <3>4, <3>5, <3>6 DEF Effect
  <2> QED
    BY <2>1, <2>3 DEF TimingInv, Running, Answered
<1> QED
  BY <1>1, <1>2 DEF Next

-----------------------------------------------------------------------------
(* Without a race, the key belongs to one request. *)

LEMMA OwnsUnchanged ==
    ASSUME NEW s \in Requests, Owns(s), UNCHANGED <<now, key, owners>>,
           req'[s].mark = req[s].mark
    PROVE  Owns(s)'
BY DEF Owns, Present

LEMMA OwnerTick ==
    ASSUME TypeOK, TimingInv, OwnerInv, Tick
    PROVE  OwnerInv'
<1> SUFFICES ASSUME ~raced, NEW r \in Requests,
                    Holder(r) \/ (Succeeded(r) /\ now + 1 < req[r].mark + Expired)
             PROVE  Owns(r)'
  BY DEF OwnerInv, Tick, Holder, Running, Answered, Succeeded
<1>1. now \in Nat /\ req[r] \in RequestState
  BY DEF TypeOK
<1>2. Owns(r)
  BY <1>1 DEF OwnerInv, RequestState
<1>3. now + 1 < req[r].mark + Expired
  <2> USE <1>1 DEF RequestState
  <2>1. CASE Running(r)
    BY <2>1 DEF Tick, TimeoutDue, Running, Answered, TimingInv
  <2>2. CASE req[r].pc \in {"set1", "del"}
    BY <2>2 DEF Tick, TimingInv, Commands
  <2> QED
    BY <2>1, <2>2 DEF Holder
<1> QED
  BY <1>2, <1>3 DEF Tick, Owns, Present

LEMMA OwnerStep ==
    ASSUME TypeOK, AnswerInv, OwnerInv, NEW r \in Requests, Step(r)
    PROVE  OwnerInv'
<1>1. /\ now' = now
      /\ \A s \in Requests \ {r} : req'[s] = req[s]
      /\ Effect(r)
  BY StepEffect
<1>2. now \in Nat /\ req[r] \in RequestState
  BY DEF TypeOK
<1> DEFINE Lives(s) == Succeeded(s) /\ now < req[s].mark + Expired
<1>3. SUFFICES ASSUME ~raced', NEW s \in Requests, Holder(s)' \/ Lives(s)'
               PROVE  Owns(s)'
  BY DEF OwnerInv
<1>4. ~raced
  BY <1>1, <1>3 DEF Effect, ArriveEffect, GetEffect, Set0Effect, HandlerEffect,
     Set1Effect, DelEffect, TimeOutEffect, CrashEffect, Leaves
<1>5. \A t \in Requests : Holder(t) \/ Lives(t) => Owns(t)
  BY <1>4 DEF OwnerInv
<1>6. ASSUME s # r PROVE Holder(s) \/ Lives(s)
  BY <1>1, <1>3, <1>6 DEF Holder, Running, Answered, Succeeded
<1>7. CASE Set0Effect(r)
  <2>1. ~Present
    BY <1>3, <1>7 DEF Set0Effect
  <2>2. s = r
    BY <1>5, <1>6, <2>1 DEF Owns
  <2> QED
    BY <1>1, <1>2, <1>7, <2>1, <2>2, <1>3 DEF Set0Effect, Owns, Present, Holder, Running,
       Answered, Succeeded, Tells, AnswerInv
<1>8. CASE Set1Effect(r) \/ DelEffect(r)
  <2>1. Owns(r)
    BY <1>5, <1>8 DEF Set1Effect, DelEffect, Holder
  <2>2. s = r
    BY <1>5, <1>6, <2>1 DEF Owns
  <2>3. CASE Set1Effect(r)
    BY <1>1, <2>1, <2>2, <2>3 DEF Set1Effect, Owns, Present, Keeps
  <2>4. CASE DelEffect(r)
    BY <1>3, <2>2, <2>4 DEF DelEffect, Holder, Running, Succeeded, Tells, Answered, AnswerInv
  <2> QED
    BY <1>8, <2>3, <2>4
<1>9. CASE ArriveEffect(r) \/ GetEffect(r) \/ HandlerEffect(r) \/ TimeOutEffect(r)
           \/ CrashEffect(r)
  <2>1. UNCHANGED <<key, owners>>
    BY <1>9 DEF ArriveEffect, GetEffect, HandlerEffect, TimeOutEffect, CrashEffect, Leaves
  <2>2. CASE s # r
    BY <1>1, <1>5, <1>6, <2>1, <2>2, OwnsUnchanged
  <2>3. CASE s = r
    <3>1. Holder(r) \/ Lives(r)
      BY <1>1, <1>3, <1>9, <2>3 DEF ArriveEffect, GetEffect, HandlerEffect, TimeOutEffect,
         CrashEffect, NoRequest, Keeps, Tells, Answered, Holder, Running, Succeeded, AnswerInv
    <3>2. req'[r].mark = req[r].mark
      BY <1>3, <1>9, <2>3 DEF ArriveEffect, GetEffect, HandlerEffect, TimeOutEffect,
         CrashEffect, NoRequest, Keeps, Holder, Running, Succeeded
    <3> QED
      BY <1>1, <1>5, <2>1, <2>3, <3>1, <3>2, OwnsUnchanged
  <2> QED
    BY <2>2, <2>3
<1> QED
  BY <1>1, <1>7, <1>8, <1>9 DEF Effect

LEMMA SuccessStep ==
    ASSUME TypeOK, AnswerInv, OwnerInv, SuccessInv, NEW r \in Requests, Step(r)
    PROVE  SuccessInv'
<1>1. /\ now' = now
      /\ req' \in [Requests -> RequestState]
      /\ \A s \in Requests \ {r} : req'[s] = req[s]
      /\ Effect(r)
  BY StepEffect
<1> DEFINE Ran(s) == Running(s) \/ Succeeded(s)
<1>2. SUFFICES ASSUME ~raced', NEW a \in Requests, NEW b \in Requests, a # b,
                      Ran(a)', Succeeded(b)'
               PROVE  Apart(a, b)'
  BY DEF SuccessInv
<1>3. ~raced
  BY <1>1, <1>2 DEF Effect, ArriveEffect, GetEffect, Set0Effect, HandlerEffect,
     Set1Effect, DelEffect, TimeOutEffect, CrashEffect, Leaves
<1>4. \A s, t \in Requests : s # t /\ Ran(s) /\ Succeeded(t) => Apart(s, t) /\ Apart(t, s)
  BY <1>3 DEF SuccessInv, Apart
<1>5. CASE Set0Effect(r)
  <2>1. b # r /\ Succeeded(b)
    BY <1>1, <1>2, <1>5 DEF Set0Effect, Succeeded, Tells, Answered, AnswerInv
  <2>2. CASE a = r
    <3>1. ~Present
      BY <1>2, <1>5 DEF Set0Effect
    <3>2. ~(now < req[b].mark + Expired)
      BY <1>3, <2>1, <3>1 DEF OwnerInv, Owns
    <3>3. req[b].mark + Expired <= now
      BY <3>2 DEF TypeOK, RequestState
    <3> QED
      BY <1>1, <1>5, <2>1, <2>2, <3>3 DEF Set0Effect, Apart
  <2>3. CASE a # r
    BY <1>1, <1>2, <1>4, <2>1, <2>3 DEF Apart, Running, Succeeded, Answered
  <2> QED
    BY <2>2, <2>3
<1>6. CASE ~Set0Effect(r)
  <2>1. \A s \in Requests : Ran(s)' => Ran(s)
    BY <1>1, <1>6 DEF Effect, ArriveEffect, GetEffect, HandlerEffect, Set1Effect,
       DelEffect, TimeOutEffect, CrashEffect, NoRequest, Keeps, Tells, Answered,
       Running, Succeeded
  <2>2. \A s \in Requests : Ran(s)' => req'[s].mark = req[s].mark
    BY <1>1, <1>6 DEF Effect, ArriveEffect, GetEffect, HandlerEffect, Set1Effect,
       DelEffect, TimeOutEffect, CrashEffect, NoRequest, Keeps, Running, Succeeded
  <2>3. Ran(a) /\ Ran(b)
    BY <1>2, <2>1
  <2>4. ~(Running(a) /\ Running(b))
    BY <1>2, <1>3 DEF OwnerInv, Holder, Owns
  <2>5. Apart(a, b)
    BY <1>2, <1>4, <2>3, <2>4
  <2> QED
    BY <1>2, <2>2, <2>5 DEF Apart
<1> QED
  BY <1>5, <1>6

IInv == TypeOK /\ AnswerInv /\ TimingInv /\ OwnerInv /\ SuccessInv

LEMMA Inductive == Spec => []IInv
<1>1. Init => IInv
  <2> SUFFICES ASSUME Init PROVE IInv
    OBVIOUS
  <2>1. \A r \in Requests : req[r] = NoRequest
    BY DEF Init
  <2>2. TypeOK
    <3>1. NoRequest \in RequestState
      BY DEF NoRequest, RequestState
    <3> QED
      BY <3>1 DEF Init, TypeOK, NoKey, NoRequest
  <2>3. AnswerInv /\ TimingInv
    BY <2>1 DEF Init, AnswerInv, TimingInv, NoRequest, Running, Commands
  <2>4. OwnerInv /\ SuccessInv
    BY <2>1 DEF OwnerInv, SuccessInv, NoRequest, Holder, Running, Succeeded
  <2> QED
    BY <2>2, <2>3, <2>4 DEF IInv
<1>2. IInv /\ [Next]_vars => IInv'
  <2> SUFFICES ASSUME IInv, [Next]_vars PROVE IInv'
    OBVIOUS
  <2> USE DEF IInv
  <2>1. CASE Tick
    <3>1. SuccessInv'
      BY <2>1 DEF Tick, SuccessInv, Running, Answered, Succeeded, Apart
    <3> QED
      BY <2>1, <3>1, TypeStep, AnswerStep, TimingStep, OwnerTick DEF Next
  <2>2. ASSUME NEW r \in Requests, Step(r) PROVE IInv'
    BY <2>2, TypeStep, AnswerStep, TimingStep, OwnerStep, SuccessStep DEF Next
  <2>3. CASE UNCHANGED vars
    BY <2>3 DEF vars, TypeOK, AnswerInv, TimingInv, OwnerInv, SuccessInv, Running, Answered,
       Holder, Succeeded, Owns, Present, Apart
  <2> QED
    BY <2>1, <2>2, <2>3 DEF Next
<1> QED
  BY <1>1, <1>2, PTL DEF Spec

(* OneAtATime: for any number of requests and any Expired > Timeout + Lag,   *)
(* requests that were not marked over one another never run together         *)
(* (idempotence.interceptor.ts:96-114 under the timeout of app.module.ts:60). *)
THEOREM Exclusion == Spec => []OneAtATime
<1>1. IInv => OneAtATime
  BY DEF IInv, OwnerInv, OneAtATime, Holder, Owns
<1> QED
  BY <1>1, Inductive, PTL

(* OnceWithinExpired: without a race, requests that succeeded were marked at *)
(* least Expired apart (idempotence.interceptor.ts:111, 115-119).            *)
THEOREM OncePerWindow == Spec => []OnceWithinExpired
<1>1. IInv => OnceWithinExpired
  BY DEF IInv, SuccessInv, OnceWithinExpired, Succeeded, Apart
<1> QED
  BY <1>1, Inductive, PTL

=============================================================================
