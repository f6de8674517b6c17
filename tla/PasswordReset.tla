---------------------------- MODULE PasswordReset ----------------------------
(***************************************************************************)
(* The one-time codes of PasswordResetService for one email address: rows  *)
(* of sys_password_reset_otp, written by requestPasswordReset and          *)
(* verifyOtp one await at a time.  A request is counted, invalidates the   *)
(* codes before it, saves its own and queues the email.  A verification    *)
(* finds a row, then saves the entity it found twice; TypeORM's save       *)
(* writes whatever differs from the row as it is by then, so a column that *)
(* changed since the find is put back.  A call that fails or whose process *)
(* dies stops where it is.                                                 *)
(***************************************************************************)
EXTENDS Integers, FiniteSets

CONSTANTS
    Requests,     \* POST /request calls, each used at most once
    Verifies,     \* POST /verify-otp and /reset calls, each used at most once
    Codes,        \* the codes generateOtp can return
    Limit,        \* requests allowed in a Window
    Window,       \* one hour
    Lifetime,     \* ten minutes
    MaxAttempts,  \* attempts at which a code is refused
    MaxNow        \* bound of the clock

NoCode == "none"

ASSUME ResetAssumption ==
    /\ NoCode \notin Codes
    /\ Limit \in Nat \ {0} /\ Window \in Nat \ {0} /\ Lifetime \in Nat
    /\ MaxAttempts \in Nat \ {0} /\ MaxNow \in Nat

VARIABLES
    now,         \* the clock
    row,         \* the row each request saved, or NoRow
    request,     \* where each request is
    verify,      \* where each verification is, with the entity it found
    wrong,       \* history: wrong guesses at each row while active, up to MaxAttempts
    racedReq,    \* history: a request was counted while another was under way
    overlapped,  \* history: rows found by two verifications under way at once
    reopened     \* history: rows a save turned from used to unused

histories == <<wrong, racedReq, overlapped, reopened>>
vars == <<now, row, request, verify, histories>>

NoRow == [otp |-> NoCode, created |-> 0, used |-> TRUE, attempts |-> 0]
Saved(i) == row[i].otp # NoCode
Active(i) == Saved(i) /\ ~row[i].used

\* of: the request whose row was found; attempts: the entity's, as it was read.
NoVerify(of) == [pc |-> "idle", of |-> of, attempts |-> 0]

Init ==
    /\ now = 0
    /\ row = [r \in Requests |-> NoRow]
    /\ request = [r \in Requests |-> "idle"]
    /\ \E r \in Requests : verify = [v \in Verifies |-> NoVerify(r)]
    /\ wrong = [r \in Requests |-> 0]
    /\ racedReq = FALSE /\ overlapped = {} /\ reopened = {}

Tick ==
    /\ now < MaxNow
    /\ now' = now + 1
    /\ UNCHANGED <<row, request, verify, histories>>

-----------------------------------------------------------------------------
(* PasswordResetService.requestPasswordReset *)

RequestGoto(r, pc) == request' = [request EXCEPT ![r] = pc]

\* count: createdAt MoreThan oneHourAgo.
Recent == {i \in Requests : Saved(i) /\ row[i].created > now - Window}
OverLimit(n) == n > Limit
AtLimit(n) == n >= Limit

RequestCount(r) ==
    /\ request[r] = "idle"
    /\ RequestGoto(r, IF AtLimit(Cardinality(Recent)) THEN "refused" ELSE "invalidate")
    /\ racedReq' = (racedReq \/ \E q \in Requests : request[q] \in {"invalidate", "save"})
    /\ UNCHANGED <<now, row, verify, wrong, overlapped, reopened>>

\* update {email, isUsed: false} to used.
SparesOld(i) == row[i]
Invalidated(i) == [row[i] EXCEPT !.used = TRUE]

RequestInvalidate(r) ==
    /\ request[r] = "invalidate"
    /\ row' = [i \in Requests |-> Invalidated(i)]
    /\ RequestGoto(r, "save")
    /\ UNCHANGED <<now, verify, histories>>

RequestSave(r, code) ==
    /\ request[r] = "save"
    /\ row' = [row EXCEPT ![r] = [otp |-> code, created |-> now, used |-> FALSE, attempts |-> 0]]
    /\ RequestGoto(r, "queue")
    /\ UNCHANGED <<now, verify, histories>>

\* queuePasswordResetOtp
RequestQueue(r) ==
    /\ request[r] = "queue"
    /\ RequestGoto(r, "done")
    /\ UNCHANGED <<now, row, verify, histories>>

\* Without its email the code stays in the table.
RequestFail(r) ==
    /\ request[r] \in {"invalidate", "save", "queue"}
    /\ RequestGoto(r, "failed")
    /\ UNCHANGED <<now, row, verify, histories>>

-----------------------------------------------------------------------------
(* PasswordResetService.verifyOtp *)

\* findOne {email, otp, isUsed: false}, the latest first.
Matches(code) == {i \in Requests : Active(i) /\ row[i].otp = code}
Latest(i, S) == i \in S /\ \A j \in S : row[j].created <= row[i].created

Holding(w) == verify[w].pc \in {"attempt", "use"}
RowExpired(i) == now > row[i].created + Lifetime
NeverExhausted(i) == FALSE
Exhausted(i) == row[i].attempts >= MaxAttempts

\* INVALID_OTP: nothing is written, whatever the code was tried against.
VerifyMiss(v, code) ==
    /\ verify[v].pc = "idle"
    /\ Matches(code) = {}
    /\ verify' = [verify EXCEPT ![v].pc = "refused"]
    /\ wrong' = [i \in Requests |->
                    IF Active(i) /\ wrong[i] < MaxAttempts THEN wrong[i] + 1 ELSE wrong[i]]
    /\ UNCHANGED <<now, row, request, racedReq, overlapped, reopened>>

VerifyFind(v, code, i) ==
    /\ verify[v].pc = "idle"
    /\ Latest(i, Matches(code))
    /\ verify' = [verify EXCEPT
                     ![v] = [pc |-> IF RowExpired(i) \/ Exhausted(i) THEN "refused"
                                    ELSE "attempt",
                             of |-> i, attempts |-> row[i].attempts]]
    /\ overlapped' = IF \E w \in Verifies : Holding(w) /\ verify[w].of = i
                     THEN overlapped \union {i} ELSE overlapped
    /\ UNCHANGED <<now, row, request, wrong, racedReq, reopened>>

\* save with attempts + 1: the entity still says unused.
VerifyAttempt(v) ==
    LET i == verify[v].of
    IN  /\ verify[v].pc = "attempt"
        /\ row' = [row EXCEPT ![i].used = FALSE, ![i].attempts = verify[v].attempts + 1]
        /\ reopened' = IF row[i].used THEN reopened \union {i} ELSE reopened
        /\ verify' = [verify EXCEPT ![v].pc = "use"]
        /\ UNCHANGED <<now, request, wrong, racedReq, overlapped>>

\* save with isUsed: true
StillUnused == FALSE
MarkedUsed == TRUE

VerifyUse(v) ==
    LET i == verify[v].of
    IN  /\ verify[v].pc = "use"
        /\ row' = [row EXCEPT ![i].used = MarkedUsed, ![i].attempts = verify[v].attempts + 1]
        /\ verify' = [verify EXCEPT ![v].pc = "verified"]
        /\ UNCHANGED <<now, request, histories>>

VerifyFail(v) ==
    /\ Holding(v)
    /\ verify' = [verify EXCEPT ![v].pc = "failed"]
    /\ UNCHANGED <<now, row, request, histories>>

-----------------------------------------------------------------------------

Request(r) ==
    \/ RequestCount(r) \/ RequestInvalidate(r) \/ RequestQueue(r) \/ RequestFail(r)
    \/ \E code \in Codes : RequestSave(r, code)

Verify(v) ==
    \/ \E code \in Codes :
         VerifyMiss(v, code) \/ \E i \in Requests : VerifyFind(v, code, i)
    \/ VerifyAttempt(v) \/ VerifyUse(v) \/ VerifyFail(v)

Next ==
    \/ Tick
    \/ \E r \in Requests : Request(r)
    \/ \E v \in Verifies : Verify(v)

Spec == Init /\ [][Next]_vars

-----------------------------------------------------------------------------
(* Properties *)

RowState == [otp : Codes \union {NoCode}, created : Nat, used : BOOLEAN, attempts : Nat]
VerifyState == [pc : {"idle", "refused", "attempt", "use", "verified", "failed"},
                of : Requests, attempts : Nat]

(* Types; a verification under way holds a row that was saved, and found it  *)
(* below MaxAttempts.                                                        *)
TypeOK ==
    /\ now \in Nat
    /\ row \in [Requests -> RowState]
    /\ request \in [Requests -> {"idle", "refused", "invalidate", "save", "queue", "done",
                                 "failed"}]
    /\ verify \in [Verifies -> VerifyState]
    /\ wrong \in [Requests -> Nat]
    /\ racedReq \in BOOLEAN
    /\ overlapped \subseteq Requests /\ reopened \subseteq Requests
    /\ \A v \in Verifies : verify[v].pc \notin {"idle", "refused"} => Saved(verify[v].of)
    /\ \A v \in Verifies : Holding(v) => verify[v].attempts < MaxAttempts

(* A code is good for one verification, unless two verifications that found  *)
(* its row were under way at the same time (there is no lock between the     *)
(* findOne and the saves).                                                   *)
SingleUse ==
    \A v, w \in Verifies :
        /\ v # w /\ verify[v].pc = "verified" /\ verify[w].pc = "verified"
        /\ verify[v].of = verify[w].of
        => verify[v].of \in overlapped

(* A new code kills the older ones: at most one code is active, except after *)
(* requests that overlapped, and except a code that was found before it was  *)
(* invalidated and that the verification's own save put back.                *)
OneActive ==
    ~racedReq =>
        \A i, j \in Requests :
            Active(i) /\ Active(j) /\ i # j => i \in reopened \/ j \in reopened

(* No more than Limit codes are created in any Window, unless requests       *)
(* overlapped between the count and the save.                                *)
LimitKept == ~racedReq => Cardinality(Recent) <= Limit

(* Only a verification that matched counts as an attempt, and it consumes    *)
(* the code: without overlapping verifications and the failure of one of     *)
(* them the counter never passes one, so the lockout is never reached.       *)
AttemptsCountMatches ==
    \A i \in Requests :
        /\ i \notin overlapped
        /\ \A v \in Verifies : verify[v].of = i => verify[v].pc # "failed"
        => row[i].attempts <= 1

(* ErrorEnum: "Too many failed attempts, please request a new OTP".  A code  *)
(* at which MaxAttempts wrong guesses were made is not accepted any more.    *)
LockedOut ==
    [][\A v \in Verifies :
          verify[v].pc = "use" /\ verify'[v].pc = "verified"
              => wrong[verify[v].of] < MaxAttempts]_vars

=============================================================================
