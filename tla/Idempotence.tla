---------------------------- MODULE Idempotence ----------------------------
(***************************************************************************)
(* IdempotenceInterceptor: identical requests (one idempotence key) that   *)
(* arrive at the processes of the cluster.  The interceptor reads the key, *)
(* marks the request as pending, runs the handler, and on its outcome      *)
(* marks it as done or removes the mark -- each a Redis command other      *)
(* requests interleave with.  TimeoutInterceptor wraps it: when the        *)
(* timeout fires it unsubscribes, so that the handler goes on but neither  *)
(* tap nor catchError runs any more.                                       *)
(***************************************************************************)
EXTENDS Integers

CONSTANTS
    Requests,   \* identical requests
    Expired,    \* options.expired
    Timeout,    \* TimeoutInterceptor.time
    Lag,        \* a Redis command is answered within this time
    MaxNow      \* bound of the clock

\* app.module gives 15 s to the timeout, the option defaults to 60 s.
ASSUME IdempotenceAssumption ==
    /\ Expired \in Nat /\ Timeout \in Nat \ {0} /\ Lag \in Nat
    /\ MaxNow \in Nat
    /\ Expired > Timeout + Lag

VARIABLES
    now,      \* the clock
    key,      \* the idempotence key: its value and when it expires
    req,      \* the requests (see NoRequest)
    raced,    \* history: a request was marked over the mark of another
    owners    \* history: the requests that wrote the key since it was absent

vars == <<now, key, req, raced, owners>>

Forever == -1
NoKey == [v |-> "none", until |-> 0]
Present == key.v # "none" /\ (key.until = Forever \/ now < key.until)

\* pc: the next step; start: arrival; since: when the command under way was
\* sent; mark: when it was marked pending; answer: what the client was told.
NoRequest == [pc |-> "idle", start |-> 0, since |-> 0, mark |-> 0, answer |-> "none"]

Init ==
    /\ now = 0
    /\ key = NoKey
    /\ req = [r \in Requests |-> NoRequest]
    /\ raced = FALSE
    /\ owners = {}

Answered(r) == req[r].answer # "none"

\* r goes on at pc; a client still waiting is told answer.
Goto(r, pc, answer) ==
    req' = [req EXCEPT ![r].pc = pc, ![r].since = now,
                       ![r].answer = IF Answered(r) THEN @ ELSE answer]

-----------------------------------------------------------------------------
(* Redis answers within Lag; the timeout fires on time. *)

Commands == {"get", "set0", "set1", "del"}
TimeoutNever(r) == FALSE
TimeoutDue(r) ==
    /\ req[r].pc \notin {"idle", "done"}
    /\ ~Answered(r)
    /\ now - req[r].start >= Timeout

Tick ==
    /\ now < MaxNow
    /\ \A r \in Requests :
          /\ ~TimeoutDue(r)
          /\ req[r].pc \in Commands => now - req[r].since < Lag
    /\ now' = now + 1
    /\ UNCHANGED <<key, req, raced, owners>>

-----------------------------------------------------------------------------
(* IdempotenceInterceptor.intercept *)

Arrive(r) ==
    /\ req[r].pc = "idle"
    /\ req' = [req EXCEPT ![r] = [NoRequest EXCEPT !.pc = "get", !.start = now, !.since = now]]
    /\ UNCHANGED <<now, key, raced, owners>>

\* redis.get: any value is a conflict.
Get(r) ==
    /\ req[r].pc = "get"
    /\ IF Present THEN Goto(r, "done", "conflict") ELSE Goto(r, "set0", "none")
    /\ UNCHANGED <<now, key, raced, owners>>

\* redis.set(key, '0', 'EX', expired), then next.handle(): nobody subscribes to
\* it once the timeout has fired.
ShortTTL == Timeout
KeyTTL == Expired

Set0(r) ==
    /\ req[r].pc = "set0"
    /\ key' = [v |-> "0", until |-> now + KeyTTL]
    /\ req' = [req EXCEPT ![r].pc = IF Answered(r) THEN "done" ELSE "run", ![r].mark = now]
    /\ raced' = (raced \/ Present)
    /\ owners' = IF Present THEN owners \union {r} ELSE {r}
    /\ UNCHANGED now

\* The handler returns: tap answers without awaiting its command.
HandlerOk(r) ==
    /\ req[r].pc = "run"
    /\ Goto(r, IF Answered(r) THEN "done" ELSE "set1", "ok")
    /\ UNCHANGED <<now, key, raced, owners>>

\* The handler throws: catchError awaits its command, then rethrows.
HandlerErr(r) ==
    /\ req[r].pc = "run"
    /\ Goto(r, IF Answered(r) THEN "done" ELSE "del", "none")
    /\ UNCHANGED <<now, key, raced, owners>>

\* redis.set(key, '1', 'KEEPTTL'): there is no TTL to keep when the key is gone.
Set1(r) ==
    /\ req[r].pc = "set1"
    /\ key' = [v |-> "1", until |-> IF Present THEN key.until ELSE Forever]
    /\ owners' = IF Present THEN owners \union {r} ELSE {r}
    /\ Goto(r, "done", "none")
    /\ UNCHANGED <<now, raced>>

\* redis.del(key)
MarkKept == key
MarkRemoved == NoKey

Del(r) ==
    /\ req[r].pc = "del"
    /\ key' = MarkRemoved
    /\ owners' = {}
    /\ Goto(r, "done", "error")
    /\ UNCHANGED <<now, raced>>

\* TimeoutInterceptor: the client gets a 408, what was started goes on.
TimeOut(r) ==
    /\ TimeoutDue(r)
    /\ req' = [req EXCEPT ![r].answer = "timeout"]
    /\ UNCHANGED <<now, key, raced, owners>>

\* The process dies with the request.
Crash(r) ==
    /\ req[r].pc \notin {"idle", "done"}
    /\ Goto(r, "done", "lost")
    /\ UNCHANGED <<now, key, raced, owners>>

Step(r) ==
    \/ Arrive(r) \/ Get(r) \/ Set0(r) \/ HandlerOk(r) \/ HandlerErr(r)
    \/ Set1(r) \/ Del(r) \/ TimeOut(r) \/ Crash(r)

Next == Tick \/ \E r \in Requests : Step(r)

Spec == Init /\ [][Next]_vars

-----------------------------------------------------------------------------
(* Properties *)

RequestState ==
    [pc : {"idle", "get", "set0", "run", "set1", "del", "done"},
     start : Nat, since : Nat, mark : Nat,
     answer : {"none", "ok", "error", "conflict", "timeout", "lost"}]

(* Types; and a request still unanswered is never older than the timeout.    *)
TypeOK ==
    /\ now \in Nat
    /\ key \in [v : {"none", "0", "1"}, until : Nat \union {Forever}]
    /\ req \in [Requests -> RequestState]
    /\ raced \in BOOLEAN
    /\ owners \subseteq Requests
    /\ \A r \in Requests :
          req[r].pc \notin {"idle", "done"} /\ ~Answered(r) => now - req[r].start <= Timeout

(* While no two requests were marked over one another, at most one of them   *)
(* runs its handler with its client still waiting: the second is told        *)
(* "pending" whatever the timing, because the mark outlives the timeout.     *)
Running(r) == req[r].pc = "run" /\ ~Answered(r)

OneAtATime ==
    ~raced => \A r, s \in Requests : Running(r) /\ Running(s) => r = s

(* "The same request can only be sent once within 60 seconds of a success":  *)
(* two requests that both succeeded were marked at least Expired apart, if   *)
(* none was marked over the mark of another.                                 *)
OnceWithinExpired ==
    ~raced =>
        \A r, s \in Requests :
            /\ r # s /\ req[r].answer = "ok" /\ req[s].answer = "ok"
            => \/ req[r].mark + Expired <= req[s].mark
               \/ req[s].mark + Expired <= req[r].mark

(* A failure is forgotten: as long as the key turns requests away, one of    *)
(* those that wrote it has not been told of an error -- with or without a    *)
(* race.  A client that was told of an error is never locked out by itself.  *)
FailureForgotten ==
    Present => \E r \in owners : req[r].answer # "error"

(* "expired: how long a repeated request is recorded": a key is never left   *)
(* without an expiry.                                                        *)
MarkExpires == key.until # Forever

-----------------------------------------------------------------------------
(* The inductive invariants behind them (IdempotenceProofs): without a race, *)
(* the key belongs to the one request that has still to confirm or remove    *)
(* its mark, or to the last that succeeded, until it expires.                *)

Holder(r) == Running(r) \/ req[r].pc \in {"set1", "del"}
Succeeded(r) == req[r].answer = "ok"
Owns(r) == Present /\ key.until = req[r].mark + Expired /\ owners = {r}
Apart(r, s) ==
    \/ req[r].mark + Expired <= req[s].mark
    \/ req[s].mark + Expired <= req[r].mark

AnswerInv ==
    \A r \in Requests :
        /\ req[r].answer \in {"error", "conflict", "lost"} => req[r].pc = "done"
        /\ req[r].answer = "ok" => req[r].pc \in {"set1", "done"}
        /\ req[r].pc = "set1" => req[r].answer = "ok"

TimingInv ==
    \A r \in Requests :
        /\ req[r].start <= now
        /\ req[r].pc \in Commands => now - req[r].since <= Lag
        /\ Running(r) => req[r].start <= req[r].mark
        /\ req[r].pc \in {"set1", "del"} => req[r].since - req[r].mark <= Timeout

OwnerInv ==
    ~raced =>
        \A r \in Requests :
            /\ Holder(r) => Owns(r)
            /\ Succeeded(r) /\ now < req[r].mark + Expired => Owns(r)

SuccessInv ==
    ~raced =>
        \A r, s \in Requests :
            r # s /\ (Running(r) \/ Succeeded(r)) /\ Succeeded(s) => Apart(r, s)

=============================================================================
