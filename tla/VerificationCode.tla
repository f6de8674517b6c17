--------------------------- MODULE VerificationCode ---------------------------
(***************************************************************************)
(* POST /auth/email/send: two throttler guards, then checkLimit, the email *)
(* and log, each command to Redis and to the mail server a step of its     *)
(* own.  A limit is a key that lives LimitTTL; checkLimit reads it before  *)
(* the email is sent and log writes it after.  Left out: the daily counts, *)
(* which checkLimit reads from keys that nothing writes, and the code that *)
(* log keeps, which nothing reads.                                         *)
(***************************************************************************)
EXTENDS Integers, Sequences, FiniteSets

CONSTANTS
    Addresses, Ips,      \* who the code is for, and who asks for it
    Requests,            \* requests, each used once
    LimitTTL,            \* how long a limit lives
    Throttle, Window,    \* the route's @Throttle: limit and ttl
    MaxNow               \* the clock stops there (a bound)

\* The route's limit is 2, and the code knows no other.
ASSUME CodeAssumption ==
    /\ LimitTTL \in Nat /\ Window \in Nat /\ MaxNow \in Nat /\ Throttle \in 0..3
    /\ Addresses \intersect Ips = {}

VARIABLES
    now,
    hits,       \* the throttler's count per ip, and when it starts again
    limit,      \* when the limit of an address or an ip ends
    sending,    \* the requests
    emailed,    \* history: who was sent a code, in the order of sending
    missed      \* history: <<c, d, k>>, c's check of limit k came too early to see d

codeVars == <<now, hits, limit, sending, emailed, missed>>

Keys == Addresses \union Ips
Nobody == "none"

CodeInit ==
    /\ now = 0
    /\ hits = [i \in Ips |-> [n |-> 0, until |-> 0]]
    /\ limit = [k \in Keys |-> 0]
    /\ sending = [c \in Requests |-> [pc |-> "idle", to |-> Nobody, ip |-> Nobody,
                                    from |-> 0, dead |-> FALSE]]
    /\ emailed = <<>> /\ missed = {}

Goto(c, pc) == sending' = [sending EXCEPT ![c].pc = pc]

\* A process that died takes no further step.
At(c, pc) == sending[c].pc = pc /\ ~sending[c].dead

-----------------------------------------------------------------------------

\* Each guard of the route counts the request, under the same key: the guard of the
\* application and that of the controller.
GuardOnce == {"APP_GUARD"}
Guards == {"APP_GUARD", "EmailController"}

\* A count above the limit blocks the ip for another window.
Counted(i) ==
    LET h == hits[i]
        old == IF now >= h.until THEN 0 ELSE h.n
        sum == old + Cardinality(Guards)
    IN  [n |-> IF sum > Throttle THEN Throttle + 1 ELSE sum,
         until |-> IF old = 0 \/ (sum > Throttle /\ old <= Throttle) THEN now + Window ELSE h.until]

Post(c, a, i) ==
    /\ At(c, "idle")
    /\ hits' = [hits EXCEPT ![i] = Counted(i)]
    /\ sending' = [sending EXCEPT ![c] = [pc |-> IF Counted(i).n > Throttle THEN "refused" ELSE "ip",
                                          to |-> a, ip |-> i, from |-> now, dead |-> FALSE]]
    /\ UNCHANGED <<now, limit, emailed, missed>>

LimitedByIp(k) == k \in Ips /\ now < limit[k]
Limited(k) == now < limit[k]

\* Requests past their check of limit k that have not written it, the dead included.
Unseen(k) ==
    {d \in Requests : \/ sending[d].ip = k /\ sending[d].pc \in {"to", "send", "code", "limitIp"}
                      \/ sending[d].to = k /\ sending[d].pc \in {"send", "code", "limitIp", "limitTo"}}

Check(c, k, pc) ==
    /\ Goto(c, IF Limited(k) THEN "limited" ELSE pc)
    /\ missed' = IF Limited(k) THEN missed ELSE missed \union {<<c, d, k>> : d \in Unseen(k) \ {c}}
    /\ UNCHANGED <<now, hits, limit, emailed>>

CheckIp(c) == At(c, "ip") /\ Check(c, sending[c].ip, "to")
CheckTo(c) == At(c, "to") /\ Check(c, sending[c].to, "send")

SendCode(c) ==
    /\ At(c, "send")
    /\ \/ Goto(c, "code") /\ emailed' = Append(emailed, [by |-> c, at |-> now])
       \/ Goto(c, "failed") /\ UNCHANGED emailed
    /\ UNCHANGED <<now, hits, limit, missed>>

LogCode(c) ==
    /\ At(c, "code")
    /\ Goto(c, "limitIp")
    /\ UNCHANGED <<now, hits, limit, emailed, missed>>

LimitKey(c, k, pc) ==
    /\ limit' = [limit EXCEPT ![k] = now + LimitTTL]
    /\ Goto(c, pc)
    /\ UNCHANGED <<now, hits, emailed, missed>>

LimitIp(c) == At(c, "limitIp") /\ LimitKey(c, sending[c].ip, "limitTo")
LimitTo(c) == At(c, "limitTo") /\ LimitKey(c, sending[c].to, "sent")

Die(c) ==
    /\ sending[c].pc \in {"ip", "to", "send", "code", "limitIp", "limitTo"}
    /\ ~sending[c].dead
    /\ sending' = [sending EXCEPT ![c].dead = TRUE]
    /\ UNCHANGED <<now, hits, limit, emailed, missed>>

Pass ==
    /\ now < MaxNow
    /\ now' = now + 1
    /\ UNCHANGED <<hits, limit, sending, emailed, missed>>

CodeNext ==
    \/ \E c \in Requests :
         \/ \E a \in Addresses, i \in Ips : Post(c, a, i)
         \/ CheckIp(c) \/ CheckTo(c) \/ SendCode(c)
         \/ LogCode(c) \/ LimitIp(c) \/ LimitTo(c) \/ Die(c)
    \/ Pass

CodeSpec == CodeInit /\ [][CodeNext]_codeVars

-----------------------------------------------------------------------------
(* Properties *)

CodeTypeOK ==
    /\ now \in 0..MaxNow
    /\ hits \in [Ips -> [n : 0..Throttle + 1, until : 0..MaxNow + Window]]
    /\ limit \in [Keys -> 0..MaxNow + LimitTTL]
    /\ sending \in [Requests -> [pc : {"idle", "refused", "ip", "to", "send", "code", "limitIp", "limitTo",
                                       "limited", "failed", "sent"},
                                 to : Addresses \union {Nobody}, ip : Ips \union {Nobody},
                                 from : 0..MaxNow, dead : BOOLEAN]]
    /\ emailed \in Seq([by : Requests, at : 0..MaxNow])
    /\ missed \subseteq Requests \X Requests \X Keys

Missed(c, d, k) == <<c, d, k>> \in missed \/ <<d, c, k>> \in missed

(* checkLimit and log are apart by the sending of an email: two codes leave *)
(* for one address, or at the wish of one ip, within the life of the limit  *)
(* only when one request checked before the other had written the limit,    *)
(* which a request that died never does.                                    *)
OneCodePerLimit ==
    \A m, n \in DOMAIN emailed : m < n /\ emailed[n].at - emailed[m].at < LimitTTL =>
        \A k \in Keys : LET c == emailed[m].by
                            d == emailed[n].by
                        IN  k \in {sending[c].to, sending[c].ip} \intersect {sending[d].to, sending[d].ip}
                                => Missed(c, d, k)

(* The route allows Throttle requests per window, and two guards count each *)
(* of them: half of that is let through.                                    *)
HalfTheThrottle ==
    \A i \in Ips, t \in 0..MaxNow :
        Cardinality({c \in Requests : /\ sending[c].ip = i /\ sending[c].from \in t..t + Window - 1
                                      /\ sending[c].pc \notin {"idle", "refused"}}) <= Throttle \div 2

(* How many codes leave: few requests get past the guards, and of those     *)
(* one per limit, but for the race named above.                             *)
CodesAreLimited == OneCodePerLimit /\ HalfTheThrottle

=============================================================================
