------------------------ MODULE PasswordResetProofs ------------------------
(***************************************************************************)
(* Proofs about PasswordReset, for any requests, verifications and codes,  *)
(* any limit, window and lifetime.                                         *)
(***************************************************************************)
EXTENDS PasswordReset, FiniteSetTheorems, TLAPS

USE ResetAssumption DEF histories

-----------------------------------------------------------------------------
(* Types.  A request saves its row once: what is saved belongs to a request  *)
(* that is past its save.                                                    *)

SavedOnce == \A r \in Requests : Saved(r) => request[r] \in {"queue", "done", "failed"}

TypeInv == TypeOK /\ SavedOnce

LEMMA TypeInit == Init => TypeInv
<1> SUFFICES ASSUME Init PROVE TypeInv
  OBVIOUS
<1>1. NoRow \in RowState /\ NoRow.otp = NoCode
  BY DEF NoRow, RowState
<1>2. row \in [Requests -> RowState] /\ \A r \in Requests : ~Saved(r)
  BY <1>1 DEF Init, Saved
<1>3. PICK r \in Requests : verify = [v \in Verifies |-> NoVerify(r)]
  BY DEF Init
<1>4. NoVerify(r) \in VerifyState /\ NoVerify(r).pc = "idle"
  BY DEF NoVerify, VerifyState
<1>5. verify \in [Verifies -> VerifyState] /\ \A v \in Verifies : verify[v].pc = "idle"
  BY <1>3, <1>4
<1> QED
  BY <1>2, <1>5 DEF Init, TypeInv, TypeOK, SavedOnce, Holding

(* What a step does to the rows: nothing, an invalidation, a save of r, or   *)
(* a change of used and attempts by a verification.                          *)

RowsKept == row' = row
RowsInvalidated ==
    /\ row' \in [Requests -> RowState]
    /\ \A i \in Requests : /\ row'[i].used = TRUE /\ row'[i].otp = row[i].otp
                           /\ row'[i].created = row[i].created /\ row'[i].attempts = row[i].attempts
RowSaved(r) ==
    /\ row' \in [Requests -> RowState]
    /\ row'[r].otp \in Codes /\ row'[r].created = now /\ row'[r].used = FALSE
    /\ row'[r].attempts = 0
    /\ \A i \in Requests \ {r} : row'[i] = row[i]
RowVerified(i, used, attempts) ==
    /\ row' \in [Requests -> RowState]
    /\ row'[i].used = used /\ row'[i].attempts = attempts + 1
    /\ row'[i].otp = row[i].otp /\ row'[i].created = row[i].created
    /\ \A j \in Requests \ {i} : row'[j] = row[j]

LEMMA InvalidateRows ==
    ASSUME TypeOK, NEW r \in Requests, RequestInvalidate(r)
    PROVE  RowsInvalidated
<1>1. \A i \in Requests : row[i] \in RowState
  BY DEF TypeOK
<1>2. \A i \in Requests :
        /\ Invalidated(i) \in RowState
        /\ Invalidated(i).used = TRUE /\ Invalidated(i).otp = row[i].otp
        /\ Invalidated(i).created = row[i].created /\ Invalidated(i).attempts = row[i].attempts
  BY <1>1 DEF Invalidated, RowState
<1> QED
  BY <1>2 DEF RequestInvalidate, RowsInvalidated

LEMMA SaveRows ==
    ASSUME TypeOK, NEW r \in Requests, NEW code \in Codes, RequestSave(r, code)
    PROVE  RowSaved(r)
<1>1. now \in Nat /\ [otp |-> code, created |-> now, used |-> FALSE, attempts |-> 0] \in RowState
  BY DEF TypeOK, RowState
<1> QED
  BY <1>1 DEF RequestSave, RowSaved, TypeOK

LEMMA VerifyRows ==
    ASSUME TypeOK, NEW v \in Verifies, NEW used \in BOOLEAN,
           row' = [row EXCEPT ![verify[v].of].used = used,
                              ![verify[v].of].attempts = verify[v].attempts + 1]
    PROVE  RowVerified(verify[v].of, used, verify[v].attempts)
<1> DEFINE i == verify[v].of
           n == verify[v].attempts + 1
           new == [row[i] EXCEPT !.used = used, !.attempts = n]
<1>1. i \in Requests /\ n \in Nat /\ row[i] \in RowState
  BY DEF TypeOK, VerifyState
<1>2. /\ new \in RowState /\ new.used = used /\ new.attempts = n
      /\ new.otp = row[i].otp /\ new.created = row[i].created
  BY <1>1 DEF RowState
<1>3. row' = [row EXCEPT ![i] = new]
  BY <1>1 DEF TypeOK
<1> HIDE DEF new
<1> QED
  BY <1>1, <1>2, <1>3 DEF RowVerified, TypeOK

(* What a step does to the record of its verification.                       *)

VerifyMoved(v, pc) ==
    /\ verify' \in [Verifies -> VerifyState]
    /\ verify'[v].pc = pc /\ verify'[v].of = verify[v].of
    /\ verify'[v].attempts = verify[v].attempts
    /\ \A w \in Verifies \ {v} : verify'[w] = verify[w]
VerifyFound(v, i) ==
    /\ verify' \in [Verifies -> VerifyState]
    /\ verify'[v].pc \in {"refused", "attempt"}
    /\ verify'[v].pc = "attempt" => row[i].attempts < MaxAttempts
    /\ verify'[v].of = i /\ verify'[v].attempts = row[i].attempts
    /\ \A w \in Verifies \ {v} : verify'[w] = verify[w]

LEMMA MoveVerify ==
    ASSUME TypeOK, NEW v \in Verifies, NEW pc \in {"refused", "use", "verified", "failed"},
           verify' = [verify EXCEPT ![v].pc = pc]
    PROVE  VerifyMoved(v, pc)
<1> DEFINE new == [verify[v] EXCEPT !.pc = pc]
<1>1. verify[v] \in VerifyState
  BY DEF TypeOK
<1>2. /\ new \in VerifyState /\ new.pc = pc
      /\ new.of = verify[v].of /\ new.attempts = verify[v].attempts
  BY <1>1 DEF VerifyState
<1>3. verify' = [verify EXCEPT ![v] = new]
  BY DEF TypeOK
<1> HIDE DEF new
<1> QED
  BY <1>2, <1>3 DEF VerifyMoved, TypeOK

LEMMA FindVerify ==
    ASSUME TypeOK, NEW v \in Verifies, NEW code, NEW i \in Requests, VerifyFind(v, code, i)
    PROVE  VerifyFound(v, i) /\ Active(i) /\ verify[v].pc = "idle"
<1> DEFINE pc == IF RowExpired(i) \/ Exhausted(i) THEN "refused" ELSE "attempt"
<1>1. row[i].attempts \in Nat
  BY DEF TypeOK, RowState
<1>2. [pc |-> pc, of |-> i, attempts |-> row[i].attempts] \in VerifyState
  BY <1>1 DEF VerifyState
<1>3. pc = "attempt" => row[i].attempts < MaxAttempts
  BY <1>1 DEF Exhausted
<1>4. Active(i) /\ verify[v].pc = "idle"
  BY DEF VerifyFind, Latest, Matches
<1> QED
  BY <1>2, <1>3, <1>4 DEF VerifyFind, VerifyFound, TypeOK

LEMMA GotoRequest ==
    ASSUME TypeOK, NEW r \in Requests,
           NEW pc \in {"refused", "invalidate", "save", "queue", "done", "failed"},
           RequestGoto(r, pc)
    PROVE  /\ request' \in [Requests -> {"idle", "refused", "invalidate", "save", "queue",
                                          "done", "failed"}]
           /\ request'[r] = pc /\ \A q \in Requests \ {r} : request'[q] = request[q]
BY DEF RequestGoto, TypeOK

LEMMA RequestTyped ==
    ASSUME TypeInv, NEW r \in Requests, Request(r)
    PROVE  TypeInv'
<1> USE DEF TypeInv
<1>1. CASE RequestCount(r)
  <2>1. PICK pc \in {"refused", "invalidate"} : RequestGoto(r, pc)
    BY <1>1 DEF RequestCount
  <2>2. racedReq' \in BOOLEAN
    BY <1>1 DEF RequestCount, TypeOK
  <2> QED
    BY <1>1, <2>1, <2>2, GotoRequest DEF RequestCount, TypeOK, SavedOnce, Saved, Holding
<1>2. CASE RequestInvalidate(r)
  <2>1. RowsInvalidated /\ RequestGoto(r, "save") /\ request[r] = "invalidate"
    BY <1>2, InvalidateRows DEF RequestInvalidate
  <2>2. \A i \in Requests : Saved(i)' <=> Saved(i)
    BY <2>1 DEF RowsInvalidated, Saved
  <2>3. SavedOnce'
    BY <2>1, <2>2, GotoRequest DEF SavedOnce
  <2> QED
    BY <1>2, <2>1, <2>2, <2>3, GotoRequest DEF RequestInvalidate, RowsInvalidated, TypeOK,
       Holding, VerifyState
<1>3. ASSUME NEW code \in Codes, RequestSave(r, code) PROVE TypeInv'
  <2>1. RowSaved(r) /\ RequestGoto(r, "queue")
    BY <1>3, SaveRows DEF RequestSave
  <2>2. Saved(r)' /\ \A i \in Requests \ {r} : Saved(i)' <=> Saved(i)
    BY <2>1 DEF RowSaved, Saved
  <2>3. SavedOnce'
    BY <2>1, <2>2, GotoRequest DEF SavedOnce
  <2> QED
    BY <1>3, <2>1, <2>2, <2>3, GotoRequest DEF RequestSave, RowSaved, TypeOK, Holding, VerifyState
<1>4. CASE RequestQueue(r)
  BY <1>4, GotoRequest DEF RequestQueue, TypeOK, SavedOnce, Saved, Holding
<1>5. CASE RequestFail(r)
  BY <1>5, GotoRequest DEF RequestFail, TypeOK, SavedOnce, Saved, Holding
<1> QED
  BY <1>1, <1>2, <1>3, <1>4, <1>5 DEF Request

(* A verification changes no request and no code.                            *)
LEMMA VerifyFrame ==
    ASSUME TypeOK, NEW v \in Verifies, Verify(v)
    PROVE  /\ UNCHANGED <<now, request, racedReq>>
           /\ row' \in [Requests -> RowState]
           /\ \A i \in Requests : row'[i].otp = row[i].otp /\ row'[i].created = row[i].created
<1>1. UNCHANGED <<now, request, racedReq>>
  BY DEF Verify, VerifyMiss, VerifyFind, VerifyAttempt, VerifyUse, VerifyFail
<1>2. CASE UNCHANGED row
  BY <1>1, <1>2 DEF TypeOK
<1>3. ASSUME NEW used \in BOOLEAN, RowVerified(verify[v].of, used, verify[v].attempts)
      PROVE  /\ row' \in [Requests -> RowState]
             /\ \A i \in Requests : row'[i].otp = row[i].otp /\ row'[i].created = row[i].created
  BY <1>3 DEF RowVerified
<1>4. CASE VerifyAttempt(v)
  BY <1>1, <1>3, <1>4, VerifyRows DEF VerifyAttempt
<1>5. CASE VerifyUse(v)
  BY <1>1, <1>3, <1>5, VerifyRows DEF VerifyUse, MarkedUsed
<1> QED
  BY <1>1, <1>2, <1>4, <1>5 DEF Verify, VerifyMiss, VerifyFind, VerifyFail

LEMMA VerifyTyped ==
    ASSUME TypeInv, NEW v \in Verifies, Verify(v)
    PROVE  TypeInv'
<1> USE DEF TypeInv
<1>1. /\ UNCHANGED <<now, request, racedReq>> /\ row' \in [Requests -> RowState]
      /\ \A i \in Requests : Saved(i)' <=> Saved(i)
  BY VerifyFrame DEF Saved
<1>2. SavedOnce'
  BY <1>1 DEF SavedOnce
<1>3. ASSUME NEW pc \in {"refused", "use", "verified", "failed"}, VerifyMoved(v, pc),
             pc = "refused" \/ Holding(v),
             wrong' \in [Requests -> Nat], overlapped' \subseteq Requests,
             reopened' \subseteq Requests
      PROVE  TypeInv'
  BY <1>1, <1>2, <1>3 DEF VerifyMoved, TypeOK, Holding, VerifyState
<1>4. ASSUME NEW code \in Codes, VerifyMiss(v, code) PROVE TypeInv'
  <2>1. VerifyMoved(v, "refused")
    BY <1>4, MoveVerify DEF VerifyMiss
  <2>2. wrong' \in [Requests -> Nat]
    BY <1>4 DEF VerifyMiss, TypeOK
  <2> QED
    BY <1>3, <1>4, <2>1, <2>2 DEF VerifyMiss, TypeOK
<1>5. ASSUME NEW code \in Codes, NEW i \in Requests, VerifyFind(v, code, i) PROVE TypeInv'
  <2>1. VerifyFound(v, i) /\ Active(i)
    BY <1>5, FindVerify
  <2>2. overlapped' \subseteq Requests
    BY <1>5 DEF VerifyFind, TypeOK
  <2> QED
    BY <1>1, <1>2, <1>5, <2>1, <2>2 DEF VerifyFind, VerifyFound, Active, TypeOK, Holding, VerifyState
<1>6. CASE VerifyAttempt(v)
  <2>1. VerifyMoved(v, "use") /\ Holding(v)
    BY <1>6, MoveVerify DEF VerifyAttempt, Holding
  <2>2. reopened' \subseteq Requests
    BY <1>6 DEF VerifyAttempt, TypeOK, VerifyState
  <2> QED
    BY <1>3, <1>6, <2>1, <2>2 DEF VerifyAttempt, TypeOK
<1>7. CASE VerifyUse(v)
  <2>1. VerifyMoved(v, "verified") /\ Holding(v)
    BY <1>7, MoveVerify DEF VerifyUse, Holding
  <2> QED
    BY <1>3, <1>7, <2>1 DEF VerifyUse, TypeOK
<1>8. CASE VerifyFail(v)
  <2>1. VerifyMoved(v, "failed") /\ Holding(v)
    BY <1>8, MoveVerify DEF VerifyFail
  <2> QED
    BY <1>3, <1>8, <2>1 DEF VerifyFail, TypeOK
<1> QED
  BY <1>4, <1>5, <1>6, <1>7, <1>8 DEF Verify

LEMMA TypeStep == TypeInv /\ [Next]_vars => TypeInv'
<1> SUFFICES ASSUME TypeInv, [Next]_vars PROVE TypeInv'
  OBVIOUS
<1>1. CASE Tick
  BY <1>1 DEF Tick, TypeInv, TypeOK, SavedOnce, Saved, Holding
<1>2. CASE UNCHANGED vars
  BY <1>2 DEF vars, TypeInv, TypeOK, SavedOnce, Saved, Holding
<1> QED
  BY <1>1, <1>2, RequestTyped, VerifyTyped DEF Next

(* TypeOK: and a verification under way holds a row that was saved, found    *)
(* below MaxAttempts (password-reset.service.ts: verifyOtp).                 *)
THEOREM TypeCorrect == Spec => []TypeOK
<1>1. TypeInv => TypeOK
  BY DEF TypeInv
<1> QED
  BY <1>1, TypeInit, TypeStep, PTL DEF Spec


-----------------------------------------------------------------------------
(* Codes and verifications.  The row of a code is held by one verification   *)
(* at a time, unless two found it while another had it; once one succeeded   *)
(* the row is used and nobody holds it, so nobody finds it again.            *)

Holds(v, i) == Holding(v) /\ verify[v].of = i
Succeeded(v, i) == verify[v].pc = "verified" /\ verify[v].of = i

HoldInv ==
    \A i \in Requests \ overlapped : \A v, w \in Verifies :
        /\ Holds(v, i) /\ Holds(w, i) => v = w
        /\ Succeeded(v, i) => row[i].used = TRUE /\ ~Holds(w, i)
        /\ Succeeded(v, i) /\ Succeeded(w, i) => v = w

LEMMA HoldRequest ==
    ASSUME TypeInv, HoldInv, NEW r \in Requests, Request(r)
    PROVE  HoldInv'
<1> USE DEF HoldInv, Holds, Succeeded, Holding
<1>1. UNCHANGED <<verify, overlapped>>
  BY DEF Request, RequestCount, RequestInvalidate, RequestSave, RequestQueue, RequestFail
<1>2. CASE RequestInvalidate(r)
  <2>1. \A i \in Requests : row'[i].used = TRUE
    BY <1>2, InvalidateRows DEF RowsInvalidated, TypeInv
  <2> QED
    BY <1>1, <2>1
<1>3. ASSUME NEW code \in Codes, RequestSave(r, code) PROVE HoldInv'
  <2>1. \A v \in Verifies : ~Succeeded(v, r)
    BY <1>3 DEF RequestSave, TypeInv, TypeOK, SavedOnce
  <2>2. \A i \in Requests \ {r} : row'[i] = row[i]
    BY <1>3, SaveRows DEF RowSaved, TypeInv
  <2> QED
    BY <1>1, <2>1, <2>2
<1>4. CASE RequestCount(r) \/ RequestQueue(r) \/ RequestFail(r)
  BY <1>1, <1>4 DEF RequestCount, RequestQueue, RequestFail
<1> QED
  BY <1>2, <1>3, <1>4 DEF Request

LEMMA HoldVerify ==
    ASSUME TypeInv, HoldInv, NEW v \in Verifies, Verify(v)
    PROVE  HoldInv'
<1> USE DEF HoldInv, Holds, Succeeded, Holding, TypeInv
<1>1. ASSUME NEW code \in Codes, VerifyMiss(v, code) PROVE HoldInv'
  <2>1. VerifyMoved(v, "refused")
    BY <1>1, MoveVerify DEF VerifyMiss
  <2> QED
    BY <1>1, <2>1 DEF VerifyMiss, VerifyMoved
<1>2. ASSUME NEW code \in Codes, NEW i \in Requests, VerifyFind(v, code, i) PROVE HoldInv'
  <2>1. VerifyFound(v, i) /\ Active(i) /\ verify[v].pc = "idle"
    BY <1>2, FindVerify
  <2>2. UNCHANGED row /\ overlapped \subseteq overlapped'
    BY <1>2 DEF VerifyFind
  <2>3. ASSUME NEW w \in Verifies, Holds(w, i) PROVE i \in overlapped'
    BY <1>2, <2>3 DEF VerifyFind
  <2>4. \A w \in Verifies : i \notin overlapped' => ~Holds(w, i) /\ ~Succeeded(w, i)
    BY <2>1, <2>2, <2>3 DEF Active
  <2> QED
    BY <2>1, <2>2, <2>4 DEF VerifyFound
<1>3. CASE VerifyAttempt(v)
  <2> DEFINE i == verify[v].of
  <2>1. VerifyMoved(v, "use") /\ RowVerified(i, FALSE, verify[v].attempts) /\ UNCHANGED overlapped
    BY <1>3, MoveVerify, VerifyRows DEF VerifyAttempt
  <2>2. Holds(v, i) /\ i \in Requests
    BY <1>3 DEF VerifyAttempt, TypeOK, VerifyState
  <2> QED
    BY <2>1, <2>2 DEF VerifyMoved, RowVerified
<1>4. CASE VerifyUse(v)
  <2> DEFINE i == verify[v].of
  <2>1. VerifyMoved(v, "verified") /\ RowVerified(i, TRUE, verify[v].attempts) /\ UNCHANGED overlapped
    BY <1>4, MoveVerify, VerifyRows DEF VerifyUse, MarkedUsed
  <2>2. Holds(v, i) /\ i \in Requests
    BY <1>4 DEF VerifyUse, TypeOK, VerifyState
  <2> QED
    BY <2>1, <2>2 DEF VerifyMoved, RowVerified
<1>5. CASE VerifyFail(v)
  <2>1. VerifyMoved(v, "failed")
    BY <1>5, MoveVerify DEF VerifyFail
  <2> QED
    BY <1>5, <2>1 DEF VerifyFail, VerifyMoved
<1> QED
  BY <1>1, <1>2, <1>3, <1>4, <1>5 DEF Verify

LEMMA HoldStep == TypeInv /\ HoldInv /\ [Next]_vars => HoldInv'
<1> SUFFICES ASSUME TypeInv, HoldInv, [Next]_vars PROVE HoldInv'
  OBVIOUS
<1>1. CASE Tick \/ UNCHANGED vars
  BY <1>1 DEF Tick, vars, HoldInv, Holds, Succeeded, Holding
<1> QED
  BY <1>1, HoldRequest, HoldVerify DEF Next

LEMMA HoldInit == Init => HoldInv
<1> SUFFICES ASSUME Init PROVE HoldInv
  OBVIOUS
<1>1. \A v \in Verifies : verify[v].pc = "idle"
  BY DEF Init, NoVerify
<1> QED
  BY <1>1 DEF HoldInv, Holds, Succeeded, Holding

(* SingleUse: for any number of verifications, a code is good for one of     *)
(* them, unless two that found its row were under way at the same time       *)
(* (password-reset.service.ts: verifyOtp).                                   *)
THEOREM UsedOnce == Spec => []SingleUse
<1>1. TypeInv /\ HoldInv => SingleUse
  BY DEF TypeInv, TypeOK, VerifyState, HoldInv, Succeeded, SingleUse
<1> QED
  BY <1>1, TypeInit, TypeStep, HoldInit, HoldStep, PTL DEF Spec

-----------------------------------------------------------------------------
(* Requests that do not overlap.  As long as no request was counted while    *)
(* another was between its count and its save, one at a time is there.       *)

Counted(r) == request[r] \in {"invalidate", "save"}
AloneInv == ~racedReq => \A q, r \in Requests : Counted(q) /\ Counted(r) => q = r

LEMMA AloneInit == Init => AloneInv
BY DEF Init, AloneInv, Counted

LEMMA AloneStep == TypeInv /\ AloneInv /\ [Next]_vars => AloneInv'
<1> SUFFICES ASSUME TypeInv, AloneInv, [Next]_vars PROVE AloneInv'
  OBVIOUS
<1> USE DEF AloneInv, Counted, TypeInv
<1>1. CASE Tick \/ UNCHANGED vars
  BY <1>1 DEF Tick, vars
<1>2. ASSUME NEW r \in Requests, RequestCount(r) PROVE AloneInv'
  <2>1. request' = [request EXCEPT ![r] = request'[r]]
    BY <1>2 DEF RequestCount, RequestGoto, TypeOK
  <2>2. \A q \in Requests \ {r} : request'[q] = request[q]
    BY <2>1 DEF TypeOK
  <2> QED
    BY <1>2, <2>2 DEF RequestCount
<1>3. ASSUME NEW r \in Requests,
             \/ RequestInvalidate(r) \/ RequestQueue(r) \/ RequestFail(r)
             \/ \E code \in Codes : RequestSave(r, code)
      PROVE  AloneInv'
  <2>1. PICK pc \in {"save", "queue", "done", "failed"} :
          RequestGoto(r, pc) /\ (pc = "save" => Counted(r)) /\ UNCHANGED racedReq
    BY <1>3 DEF RequestInvalidate, RequestQueue, RequestFail, RequestSave
  <2> QED
    BY <2>1, GotoRequest
<1>4. ASSUME NEW v \in Verifies, Verify(v) PROVE AloneInv'
  BY <1>4, VerifyFrame
<1> QED
  BY <1>1, <1>2, <1>3, <1>4 DEF Next, Request

-----------------------------------------------------------------------------
(* The code that is active.  A request that is about to save has left no     *)
(* code active but those that a verification's save put back.                *)

ClearInv ==
    ~racedReq =>
        /\ \A r, i \in Requests : request[r] = "save" /\ Active(i) => i \in reopened
        /\ OneActive

LEMMA ClearInit == Init => ClearInv
<1>1. NoRow.otp = NoCode
  BY DEF NoRow
<1> QED
  BY <1>1 DEF Init, ClearInv, OneActive, Active, Saved

LEMMA RequestFrame ==
    ASSUME TypeOK, NEW r \in Requests, Request(r)
    PROVE  UNCHANGED <<now, verify, overlapped, reopened>> /\ (racedReq => racedReq')
<1>1. CASE RequestCount(r)
  BY <1>1 DEF RequestCount
<1>2. CASE UNCHANGED <<now, verify, histories>>
  BY <1>2
<1> QED
  BY <1>1, <1>2 DEF Request, RequestInvalidate, RequestSave, RequestQueue, RequestFail

LEMMA ClearRequest ==
    ASSUME TypeInv, AloneInv, ClearInv, NEW r \in Requests, Request(r)
    PROVE  ClearInv'
<1> USE DEF ClearInv, OneActive, TypeInv
<1>1. UNCHANGED reopened /\ (racedReq => racedReq')
  BY RequestFrame
<1>2. CASE RequestInvalidate(r)
  <2>1. \A i \in Requests : ~Active(i)'
    BY <1>2, InvalidateRows DEF RowsInvalidated, Active
  <2> QED
    BY <2>1
<1>3. ASSUME NEW code \in Codes, RequestSave(r, code) PROVE ClearInv'
  <2> SUFFICES ASSUME ~racedReq PROVE ClearInv'
    BY <1>1
  <2>1. \A i \in Requests \ {r} : Active(i)' => Active(i) /\ i \in reopened
    BY <1>3, SaveRows DEF RowSaved, Active, Saved, RequestSave
  <2>2. \A q \in Requests : request'[q] # "save"
    BY <1>3, GotoRequest DEF RequestSave, AloneInv, Counted
  <2> QED
    BY <1>1, <2>1, <2>2
<1>4. CASE RequestCount(r) \/ RequestQueue(r) \/ RequestFail(r)
  <2>1. UNCHANGED row
    BY <1>4 DEF RequestCount, RequestQueue, RequestFail
  <2>2. \A i \in Requests : Active(i)' <=> Active(i)
    BY <2>1 DEF Active, Saved
  <2>3. PICK pc \in {"refused", "invalidate", "done", "failed"} : RequestGoto(r, pc)
    BY <1>4 DEF RequestCount, RequestQueue, RequestFail
  <2>4. \A q \in Requests : request'[q] = "save" => request[q] = "save"
    BY <2>3, GotoRequest
  <2> QED
    BY <1>1, <2>2, <2>4
<1> QED
  BY <1>2, <1>3, <1>4 DEF Request

LEMMA ClearVerify ==
    ASSUME TypeInv, ClearInv, NEW v \in Verifies, Verify(v)
    PROVE  ClearInv'
<1> USE DEF ClearInv, OneActive, TypeInv
<1>1. UNCHANGED <<request, racedReq>> /\ \A i \in Requests : Saved(i)' <=> Saved(i)
  BY VerifyFrame DEF Saved
<1>2. reopened \subseteq reopened' /\ \A i \in Requests : Active(i)' => Active(i) \/ i \in reopened'
  <2>1. CASE VerifyAttempt(v)
    <3>0. PICK i \in Requests : i = verify[v].of
      BY DEF TypeOK, VerifyState
    <3>1. RowVerified(i, FALSE, verify[v].attempts)
      BY <2>1, <3>0, VerifyRows DEF VerifyAttempt
    <3>2. \A j \in Requests \ {i} : Active(j)' <=> Active(j)
      BY <3>1 DEF RowVerified, Active, Saved
    <3>3. row[i].used \in BOOLEAN
      BY DEF TypeOK, RowState
    <3>4. ~row[i].used => (Active(i)' => Active(i))
      BY <1>1, <3>1 DEF Active
    <3>5. row[i].used => i \in reopened'
      BY <2>1, <3>0 DEF VerifyAttempt
    <3>6. reopened \subseteq reopened'
      BY <2>1 DEF VerifyAttempt
    <3> QED
      BY <3>2, <3>3, <3>4, <3>5, <3>6
  <2>2. CASE VerifyUse(v)
    <3>0. PICK i \in Requests : i = verify[v].of
      BY DEF TypeOK, VerifyState
    <3>1. RowVerified(i, TRUE, verify[v].attempts) /\ UNCHANGED reopened
      BY <2>2, <3>0, VerifyRows DEF VerifyUse, MarkedUsed
    <3>2. ~Active(i)' /\ \A j \in Requests \ {i} : Active(j)' <=> Active(j)
      BY <3>1 DEF RowVerified, Active, Saved
    <3> QED
      BY <3>1, <3>2
  <2>3. CASE UNCHANGED <<row, reopened>>
    BY <2>3 DEF Active, Saved
  <2> QED
    BY <2>1, <2>2, <2>3 DEF Verify, VerifyMiss, VerifyFind, VerifyFail
<1> QED
  BY <1>1, <1>2

LEMMA ClearStep == TypeInv /\ AloneInv /\ ClearInv /\ [Next]_vars => ClearInv'
<1> SUFFICES ASSUME TypeInv, AloneInv, ClearInv, [Next]_vars PROVE ClearInv'
  OBVIOUS
<1>1. CASE Tick \/ UNCHANGED vars
  BY <1>1 DEF Tick, vars, ClearInv, OneActive, Active, Saved
<1> QED
  BY <1>1, ClearRequest, ClearVerify DEF Next

(* OneActive: a new code kills the older ones, unless requests overlapped,   *)
(* and except a code that a verification's own save put back                 *)
(* (password-reset.service.ts: requestPasswordReset, verifyOtp).             *)
THEOREM OneCodeActive == Spec => []OneActive
<1>1. ClearInv => OneActive
  BY DEF ClearInv, OneActive
<1> QED
  BY <1>1, TypeInit, TypeStep, AloneInit, AloneStep, ClearInit, ClearStep, PTL DEF Spec

-----------------------------------------------------------------------------
(* The limit.  A request that was let through counted fewer than Limit codes *)
(* in the window, and as long as it is alone nothing is added to them before *)
(* its save.                                                                 *)

SavedRows == {i \in Requests : Saved(i)}

LimitInv ==
    /\ IsFiniteSet(SavedRows)
    /\ ~racedReq => /\ \A r \in Requests : Counted(r) => Cardinality(Recent) < Limit
                    /\ Cardinality(Recent) <= Limit

LEMMA RecentFinite ==
    ASSUME IsFiniteSet(SavedRows)
    PROVE  IsFiniteSet(Recent) /\ Cardinality(Recent) \in Nat
<1>1. Recent \subseteq SavedRows
  BY DEF Recent, SavedRows
<1> QED
  BY <1>1, FS_Subset, FS_CardinalityType

LEMMA LimitInit == Init => LimitInv
<1> SUFFICES ASSUME Init PROVE LimitInv
  OBVIOUS
<1>1. SavedRows = {} /\ Recent = {}
  BY DEF Init, SavedRows, Recent, Saved, NoRow
<1> QED
  BY <1>1, FS_EmptySet DEF LimitInv, Init, Counted

(* Whatever leaves the saved codes where they are, and counts no request, or *)
(* counts one that found fewer than Limit, keeps the limit.                  *)
LEMMA LimitFrame ==
    ASSUME LimitInv, Recent' \subseteq Recent, SavedRows' = SavedRows, racedReq => racedReq',
           \A r \in Requests : Counted(r)' => Counted(r) \/ Cardinality(Recent) < Limit
    PROVE  LimitInv'
<1>1. IsFiniteSet(SavedRows')
  BY DEF LimitInv
<1>2. IsFiniteSet(Recent) /\ Cardinality(Recent) \in Nat
  BY RecentFinite DEF LimitInv
<1>3. Cardinality(Recent') \in Nat /\ Cardinality(Recent') <= Cardinality(Recent)
  BY <1>2, FS_Subset, FS_CardinalityType
<1> QED
  BY <1>1, <1>2, <1>3 DEF LimitInv

LEMMA LimitRequest ==
    ASSUME TypeInv, AloneInv, LimitInv, NEW r \in Requests, Request(r)
    PROVE  LimitInv'
<1>1. UNCHANGED now /\ (racedReq => racedReq')
  BY RequestFrame DEF TypeInv
<1>2. IsFiniteSet(SavedRows) /\ IsFiniteSet(Recent) /\ Cardinality(Recent) \in Nat
  BY RecentFinite DEF LimitInv
<1>3. CASE RequestCount(r)
  <2>1. PICK pc \in {"refused", "invalidate"} :
          RequestGoto(r, pc) /\ (pc = "invalidate" => Cardinality(Recent) < Limit)
    BY <1>2, <1>3 DEF RequestCount, AtLimit
  <2>2. UNCHANGED row
    BY <1>3 DEF RequestCount
  <2>3. Recent' = Recent /\ SavedRows' = SavedRows
    BY <1>1, <2>2 DEF Recent, SavedRows, Saved
  <2>4. \A q \in Requests : Counted(q)' => Counted(q) \/ Cardinality(Recent) < Limit
    BY <2>1, GotoRequest DEF TypeInv, Counted
  <2> QED
    BY <1>1, <2>3, <2>4, LimitFrame
<1>4. CASE RequestInvalidate(r)
  <2>1. RowsInvalidated
    BY <1>4, InvalidateRows DEF TypeInv
  <2>2. Recent' = Recent /\ SavedRows' = SavedRows
    BY <1>1, <2>1 DEF RowsInvalidated, Recent, SavedRows, Saved
  <2>3. \A q \in Requests : Counted(q)' => Counted(q)
    BY <1>4, GotoRequest DEF RequestInvalidate, TypeInv, Counted
  <2> QED
    BY <1>1, <2>2, <2>3, LimitFrame
<1>5. ASSUME NEW code \in Codes, RequestSave(r, code) PROVE LimitInv'
  <2>1. RowSaved(r)
    BY <1>5, SaveRows DEF TypeInv
  <2>2. SavedRows' = SavedRows \union {r} /\ Recent' \subseteq Recent \union {r}
    BY <1>1, <2>1 DEF RowSaved, SavedRows, Recent, Saved
  <2>3. IsFiniteSet(SavedRows')
    BY <1>2, <2>2, FS_AddElement
  <2>4. /\ IsFiniteSet(Recent \union {r}) /\ Cardinality(Recent \union {r}) \in Nat
        /\ Cardinality(Recent \union {r}) <= Cardinality(Recent) + 1
    <3>1. /\ IsFiniteSet(Recent \union {r})
          /\ \/ Cardinality(Recent \union {r}) = Cardinality(Recent)
             \/ Cardinality(Recent \union {r}) = Cardinality(Recent) + 1
      BY <1>2, FS_AddElement
    <3> QED
      BY <1>2, <3>1
  <2>5. Cardinality(Recent') \in Nat /\ Cardinality(Recent') <= Cardinality(Recent) + 1
    BY <1>2, <2>2, <2>4, FS_Subset, FS_CardinalityType
  <2>6. ~racedReq => Cardinality(Recent) < Limit /\ \A q \in Requests : ~Counted(q)'
    BY <1>5, GotoRequest DEF RequestSave, TypeInv, AloneInv, LimitInv, Counted
  <2> QED
    BY <1>1, <1>2, <2>3, <2>5, <2>6 DEF LimitInv
<1>6. CASE RequestQueue(r) \/ RequestFail(r)
  <2>1. UNCHANGED row
    BY <1>6 DEF RequestQueue, RequestFail
  <2>2. Recent' = Recent /\ SavedRows' = SavedRows
    BY <1>1, <2>1 DEF Recent, SavedRows, Saved
  <2>3. PICK pc \in {"done", "failed"} : RequestGoto(r, pc)
    BY <1>6 DEF RequestQueue, RequestFail
  <2>4. \A q \in Requests : Counted(q)' => Counted(q)
    BY <2>3, GotoRequest DEF TypeInv, Counted
  <2> QED
    BY <1>1, <2>2, <2>4, LimitFrame
<1> QED
  BY <1>3, <1>4, <1>5, <1>6 DEF Request

LEMMA LimitStep == TypeInv /\ AloneInv /\ LimitInv /\ [Next]_vars => LimitInv'
<1> SUFFICES ASSUME TypeInv, AloneInv, LimitInv, [Next]_vars PROVE LimitInv'
  OBVIOUS
<1>1. CASE Tick
  <2>1. UNCHANGED <<row, request, racedReq>> /\ now' = now + 1 /\ now \in Nat
    BY <1>1 DEF Tick, TypeInv, TypeOK
  <2>2. \A i \in Requests : row[i].created \in Nat
    BY DEF TypeInv, TypeOK, RowState
  <2>3. Recent' \subseteq Recent
    BY <2>1, <2>2 DEF Recent, Saved
  <2> QED
    BY <2>1, <2>3, LimitFrame DEF SavedRows, Saved, Counted
<1>2. CASE UNCHANGED vars
  BY <1>2, LimitFrame DEF vars, SavedRows, Recent, Saved, Counted
<1>3. ASSUME NEW v \in Verifies, Verify(v) PROVE LimitInv'
  <2>1. Recent' = Recent /\ SavedRows' = SavedRows
    BY <1>3, VerifyFrame DEF TypeInv, Recent, SavedRows, Saved
  <2> QED
    BY <1>3, <2>1, VerifyFrame, LimitFrame DEF TypeInv, Counted
<1> QED
  BY <1>1, <1>2, <1>3, LimitRequest DEF Next

(* LimitKept: no more than Limit codes are created in any window, unless     *)
(* requests overlapped between the count and the save                        *)
(* (password-reset.service.ts: requestPasswordReset).                        *)
THEOREM LimitHolds == Spec => []LimitKept
<1>1. LimitInv => LimitKept
  BY DEF LimitInv, LimitKept
<1> QED
  BY <1>1, TypeInit, TypeStep, AloneInit, AloneStep, LimitInit, LimitStep, PTL DEF Spec

-----------------------------------------------------------------------------
(* Attempts.  The row that a verification holds alone was found with none,   *)
(* and its two saves write one; a code that nobody holds and that is still   *)
(* active has none.                                                          *)

Unfailed(i) == \A v \in Verifies : verify[v].of = i => verify[v].pc # "failed"
FirstAttempt(i) ==
    /\ row[i].attempts <= 1
    /\ \A v \in Verifies : Holds(v, i) => verify[v].attempts = 0
    /\ \A v \in Verifies : Holds(v, i) /\ verify[v].pc = "attempt" => row[i].attempts = 0
    /\ Active(i) /\ (\A v \in Verifies : ~Holds(v, i)) => row[i].attempts = 0

AttemptsInv == \A i \in Requests \ overlapped : Unfailed(i) => FirstAttempt(i)

LEMMA AttemptsInit == Init => AttemptsInv
<1> SUFFICES ASSUME Init PROVE AttemptsInv
  OBVIOUS
<1>1. \A v \in Verifies : verify[v].pc = "idle"
  BY DEF Init, NoVerify
<1>2. \A i \in Requests : row[i].attempts = 0
  BY DEF Init, NoRow
<1> QED
  BY <1>1, <1>2 DEF AttemptsInv, FirstAttempt, Holds, Holding

LEMMA AttemptsRequest ==
    ASSUME TypeInv, AttemptsInv, NEW r \in Requests, Request(r)
    PROVE  AttemptsInv'
<1> USE DEF AttemptsInv, FirstAttempt, Unfailed, Holds, Holding
<1>1. UNCHANGED <<verify, overlapped>>
  BY RequestFrame DEF TypeInv
<1>2. CASE RequestInvalidate(r)
  <2>1. \A i \in Requests : row'[i].attempts = row[i].attempts /\ ~Active(i)'
    BY <1>2, InvalidateRows DEF RowsInvalidated, TypeInv, Active
  <2> QED
    BY <1>1, <2>1
<1>3. ASSUME NEW code \in Codes, RequestSave(r, code) PROVE AttemptsInv'
  <2>1. RowSaved(r)
    BY <1>3, SaveRows DEF TypeInv
  <2>2. row'[r].attempts = 0 /\ \A v \in Verifies : ~Holds(v, r)
    BY <1>3, <2>1 DEF RowSaved, RequestSave, TypeInv, TypeOK, SavedOnce
  <2>3. \A i \in Requests \ {r} : row'[i] = row[i] /\ (Active(i)' <=> Active(i))
    BY <2>1 DEF RowSaved, Active, Saved
  <2> QED
    BY <1>1, <2>2, <2>3
<1>4. CASE RequestCount(r) \/ RequestQueue(r) \/ RequestFail(r)
  <2>1. UNCHANGED row
    BY <1>4 DEF RequestCount, RequestQueue, RequestFail
  <2>2. \A i \in Requests : Active(i)' <=> Active(i)
    BY <2>1 DEF Active, Saved
  <2> QED
    BY <1>1, <2>1, <2>2
<1> QED
  BY <1>2, <1>3, <1>4 DEF Request

LEMMA AttemptsVerify ==
    ASSUME TypeInv, HoldInv, AttemptsInv, NEW v \in Verifies, Verify(v)
    PROVE  AttemptsInv'
<1> USE DEF AttemptsInv, FirstAttempt, Unfailed, Holds, Holding
<1>1. ASSUME NEW code \in Codes, VerifyMiss(v, code) PROVE AttemptsInv'
  <2>1. VerifyMoved(v, "refused") /\ verify[v].pc = "idle" /\ UNCHANGED <<row, overlapped>>
    BY <1>1, MoveVerify DEF VerifyMiss, TypeInv
  <2>2. \A i \in Requests : Active(i)' <=> Active(i)
    BY <2>1 DEF Active, Saved
  <2> QED
    BY <2>1, <2>2 DEF VerifyMoved
<1>2. ASSUME NEW code \in Codes, NEW i \in Requests, VerifyFind(v, code, i) PROVE AttemptsInv'
  <2>1. VerifyFound(v, i) /\ Active(i) /\ verify[v].pc = "idle"
    BY <1>2, FindVerify DEF TypeInv
  <2>2. UNCHANGED row /\ overlapped \subseteq overlapped'
    BY <1>2 DEF VerifyFind
  <2>3. \A j \in Requests : Active(j)' <=> Active(j)
    BY <2>2 DEF Active, Saved
  <2>4. i \notin overlapped' => \A w \in Verifies : ~Holds(w, i)
    BY <1>2 DEF VerifyFind
  <2>5. ASSUME i \notin overlapped', Unfailed(i)' PROVE FirstAttempt(i)'
    <3>1. Unfailed(i)
      BY <2>1, <2>5 DEF VerifyFound
    <3>2. row[i].attempts = 0
      BY <2>1, <2>2, <2>4, <2>5, <3>1
    <3> QED
      BY <2>1, <2>2, <2>4, <2>5, <3>2 DEF VerifyFound
  <2>6. ASSUME NEW j \in Requests \ {i}, j \notin overlapped', Unfailed(j)' PROVE FirstAttempt(j)'
    <3>1. Unfailed(j) /\ \A w \in Verifies : Holds(w, j)' <=> Holds(w, j)
      BY <2>1, <2>6 DEF VerifyFound
    <3>2. \A w \in Verifies : Holds(w, j) => verify'[w] = verify[w]
      BY <2>1 DEF VerifyFound
    <3> QED
      BY <2>2, <2>3, <2>6, <3>1, <3>2
  <2> QED
    BY <2>5, <2>6
<1>3. ASSUME NEW i \in Requests, i = verify[v].of, Holding(v), UNCHANGED overlapped,
             NEW pc \in {"use", "verified"}, VerifyMoved(v, pc),
             NEW used \in BOOLEAN, RowVerified(i, used, verify[v].attempts),
             pc = "verified" => used = TRUE
      PROVE  AttemptsInv'
  <2>1. ASSUME NEW j \in Requests \ {i}, j \notin overlapped', Unfailed(j)' PROVE FirstAttempt(j)'
    <3>1. Unfailed(j) /\ \A w \in Verifies : Holds(w, j)' <=> Holds(w, j)
      BY <1>3, <2>1 DEF VerifyMoved
    <3>2. \A w \in Verifies : Holds(w, j) => verify'[w] = verify[w]
      BY <1>3 DEF VerifyMoved
    <3>3. row'[j] = row[j] /\ (Active(j)' <=> Active(j))
      BY <1>3 DEF RowVerified, Active, Saved
    <3> QED
      BY <1>3, <2>1, <3>1, <3>2, <3>3
  <2>2. ASSUME i \notin overlapped', Unfailed(i)' PROVE FirstAttempt(i)'
    <3>1. Unfailed(i)
      BY <1>3, <2>2 DEF VerifyMoved
    <3>2. verify[v].attempts = 0 /\ \A w \in Verifies : Holds(w, i) => w = v
      BY <1>3, <2>2, <3>1 DEF HoldInv
    <3>3. row'[i].attempts = 1 /\ verify'[v].attempts = 0 /\ verify'[v].pc = pc
      BY <1>3, <3>2 DEF VerifyMoved, RowVerified
    <3>4. \A w \in Verifies : Holds(w, i)' => w = v
      BY <1>3, <3>2 DEF VerifyMoved
    <3>5. Active(i)' => Holds(v, i)'
      BY <1>3 DEF VerifyMoved, RowVerified, Active
    <3> QED
      BY <3>3, <3>4, <3>5
  <2> QED
    BY <2>1, <2>2
<1>4. CASE VerifyAttempt(v)
  <2>1. VerifyMoved(v, "use") /\ RowVerified(verify[v].of, FALSE, verify[v].attempts)
    BY <1>4, MoveVerify, VerifyRows DEF VerifyAttempt, TypeInv
  <2>2. Holding(v) /\ verify[v].of \in Requests /\ UNCHANGED overlapped
    BY <1>4 DEF VerifyAttempt, TypeInv, TypeOK, VerifyState
  <2> QED
    BY <1>3, <2>1, <2>2
<1>5. CASE VerifyUse(v)
  <2>1. VerifyMoved(v, "verified") /\ RowVerified(verify[v].of, TRUE, verify[v].attempts)
    BY <1>5, MoveVerify, VerifyRows DEF VerifyUse, MarkedUsed, TypeInv
  <2>2. Holding(v) /\ verify[v].of \in Requests /\ UNCHANGED overlapped
    BY <1>5 DEF VerifyUse, TypeInv, TypeOK, VerifyState
  <2> QED
    BY <1>3, <2>1, <2>2
<1>6. CASE VerifyFail(v)
  <2>1. VerifyMoved(v, "failed") /\ Holding(v) /\ UNCHANGED <<row, overlapped>>
    BY <1>6, MoveVerify DEF VerifyFail, TypeInv
  <2>2. \A i \in Requests : Active(i)' <=> Active(i)
    BY <2>1 DEF Active, Saved
  <2>3. \A i \in Requests : Unfailed(i)' => Unfailed(i) /\ verify[v].of # i
    BY <2>1 DEF VerifyMoved
  <2>4. \A w \in Verifies \ {v} : verify'[w] = verify[w]
    BY <2>1 DEF VerifyMoved
  <2>5. \A i \in Requests, w \in Verifies : verify[v].of # i =>
          (Holds(w, i)' <=> Holds(w, i)) /\ (Holds(w, i) => verify'[w] = verify[w])
    BY <2>1 DEF VerifyMoved
  <2> QED
    BY <2>1, <2>2, <2>3, <2>5
<1> QED
  BY <1>1, <1>2, <1>4, <1>5, <1>6 DEF Verify

LEMMA AttemptsStep == TypeInv /\ HoldInv /\ AttemptsInv /\ [Next]_vars => AttemptsInv'
<1> SUFFICES ASSUME TypeInv, HoldInv, AttemptsInv, [Next]_vars PROVE AttemptsInv'
  OBVIOUS
<1>1. CASE Tick \/ UNCHANGED vars
  <2>1. UNCHANGED <<row, verify, overlapped>>
    BY <1>1 DEF Tick, vars
  <2> QED
    BY <2>1 DEF AttemptsInv, FirstAttempt, Unfailed, Holds, Holding, Active, Saved
<1> QED
  BY <1>1, AttemptsRequest, AttemptsVerify DEF Next

(* AttemptsCountMatches: only a verification that matched counts as an       *)
(* attempt, so without overlapping or failed verifications the counter of a  *)
(* row never passes one (password-reset.service.ts: verifyOtp).              *)
THEOREM OneAttempt == Spec => []AttemptsCountMatches
<1>1. AttemptsInv => AttemptsCountMatches
  BY DEF AttemptsInv, FirstAttempt, Unfailed, AttemptsCountMatches
<1> QED
  BY <1>1, TypeInit, TypeStep, HoldInit, HoldStep, AttemptsInit, AttemptsStep, PTL DEF Spec

=============================================================================
