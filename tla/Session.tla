------------------------------- MODULE Session -------------------------------
(***************************************************************************)
(* Login sessions: the rows of "user" and "user_access_tokens" in          *)
(* Postgres, the keys auth:token:uid, auth:passwordVersion:uid,            *)
(* auth:permission:uid and token:blacklist:value in Redis, and the         *)
(* handlers that read and write them one await at a time:                  *)
(*                                                                         *)
(*   loginWithEmail          Login...   (Logins: one login call each)      *)
(*   JwtAuthGuard + logout   Req..., Logout...  (Requests)                 *)
(*   updatePassword, forceUpdatePassword   Change...  (Changes)            *)
(*   PUT /users/:id and DELETE /users/:id  Admin...   (Admins)             *)
(*   CronService.deleteExpiredJWT          CleanExpiredRows                *)
(*                                                                         *)
(* Every action is the code between two awaits, so that the processes of   *)
(* the cluster interleave exactly where the event loops let them.  Time is *)
(* counted in quarters of a second: a JWT's iat and exp are whole seconds, *)
(* Redis TTLs are whole seconds from the moment they are set.              *)
(***************************************************************************)
EXTENDS Integers, FiniteSets

CONSTANTS
    Users,        \* the user accounts
    Logins,       \* login calls, each used at most once
    Requests,     \* authenticated HTTP requests, each used at most once
    Changes,      \* password change calls, each used at most once
    Admins,       \* admin calls on a user, each used at most once
    AdminKinds,   \* subset of {"disable", "enable", "delete"} the admins call
    MultiDevice,  \* app.multiDeviceLogin
    JwtExpire,    \* security.jwtExprire, seconds
    MaxNow        \* bound of the clock, quarters of a second

ASSUME SessionAssumption ==
    /\ JwtExpire \in Nat \ {0}
    /\ MaxNow \in Nat
    /\ MultiDevice \in BOOLEAN
    /\ AdminKinds \subseteq {"disable", "enable", "delete"}

VARIABLES
    now,          \* the clock
    status,       \* user.status as committed; "DELETED" when the row is gone
    rowUntil,     \* expired_at of each login's user_access_tokens row, 0 when absent
    pv,           \* auth:passwordVersion:uid, 0 when absent
    tokenKey,     \* auth:token:uid: the iat of its token and the expiry of the key
    permKey,      \* users whose auth:permission:uid exists
    blacklist,    \* token:blacklist keys: the token and the expiry of the key
    login, req, change, admin,   \* the calls in progress
    loggedOut,    \* history: tokens whose logout call succeeded
    revoked,      \* history: users revoked with no login since (see Revoke)
    fresh,        \* history: logins nothing has disturbed since (see Disturb)
    overlap,      \* history: logins under way when their user was disabled or deleted
    late          \* history: users such a login put back

redis == <<pv, tokenKey, permKey, blacklist>>
calls == <<login, req, change, admin>>
history == <<loggedOut, revoked, fresh, overlap, late>>
vars == <<now, status, rowUntil, redis, calls, history>>

-----------------------------------------------------------------------------
(* Tokens and clocks *)

Second == 4

\* A signed JWT: the payload {uid, pv: 1, roles} has no id, so two tokens one
\* user gets in the same second are the same string.
TokenOf(c) == [user |-> c.user, iat |-> c.iat]

\* jsonwebtoken refuses a token once floor(now) >= exp.
JwtExp(tok) == (tok.iat + JwtExpire) * Second
JwtAlive(tok) == now < JwtExp(tok)

\* Redis answers with a key until its expiry.
Blacklisted(tok) == \E b \in blacklist : b.token = tok /\ now < b.until
TokenKeyLive(u) == now < tokenKey[u].until

\* (user.exp - Date.now() / 1000).toFixed(0), the seconds left to the token,
\* rounded to the nearest with halves up.
FlooredTTL(left) == left \div Second
RemainingTTL(left) == (2 * left + Second) \div (2 * Second)

\* What the guard lets through, were all its reads made in this state.
Acceptable(tok) ==
    /\ ~Blacklisted(tok)
    /\ JwtAlive(tok)
    /\ pv[tok.user] = 1
    /\ MultiDevice \/ (TokenKeyLive(tok.user) /\ tokenKey[tok.user].iat = tok.iat)

-----------------------------------------------------------------------------
(* History.  Revoke(u): u's password version left 1 or was removed.        *)
(* Disturb(S): a write that may end the sessions of the logins S.          *)

LoginsOf(u) == {l \in Logins : login[l].user = u}
SameToken(l) == {k \in Logins : TokenOf(login[k]) = TokenOf(login[l])}

Revoke(u) == revoked' = revoked \union {u}
Disturb(S) == fresh' = fresh \ S

\* Some call is removing u: it deleted the password version and is not finished.
Removing(u) ==
    \E a \in Admins :
        /\ admin[a].user = u
        /\ admin[a].kind # "enable"
        /\ admin[a].pc \in {"delToken", "delPerm", "commit"}

UnderWay(u) ==
    {l \in LoginsOf(u) : login[l].pc \in {"checked", "signed", "saved", "tokenSet"}}

-----------------------------------------------------------------------------

LoginState == {"idle", "checked", "signed", "saved", "tokenSet", "pvSet", "issued", "failed"}
ReqState == {"idle", "verify", "pv", "token", "accepted", "rejected", "blacklisted",
             "delPv", "delToken", "delPerm", "done", "failed"}
ChangeState == {"idle", "written", "got", "done", "failed"}
AdminState == {"idle", "delPv", "delToken", "delPerm", "commit", "refresh",
               "refreshSet", "done", "failed"}

Init ==
    /\ now = 0
    /\ status = [u \in Users |-> "ACTIVE"]
    /\ rowUntil = [l \in Logins |-> 0]
    /\ pv = [u \in Users |-> 0]
    /\ tokenKey = [u \in Users |-> [iat |-> 0, until |-> 0]]
    /\ permKey = {}
    /\ blacklist = {}
    /\ \E u \in Users :
         /\ login = [l \in Logins |-> [pc |-> "idle", user |-> u, iat |-> 0]]
         /\ req = [r \in Requests |-> [pc |-> "idle", user |-> u, iat |-> 0]]
         /\ change = [c \in Changes |-> [pc |-> "idle", user |-> u, v |-> 0]]
         /\ admin = [a \in Admins |-> [pc |-> "idle", user |-> u, kind |-> "enable"]]
    /\ loggedOut = {} /\ revoked = {} /\ fresh = {} /\ overlap = {} /\ late = {}

Tick ==
    /\ now < MaxNow
    /\ now' = now + 1
    /\ UNCHANGED <<status, rowUntil, redis, calls, history>>

-----------------------------------------------------------------------------
(* AuthService.loginWithEmail *)

LoginGoto(l, pc) == login' = [login EXCEPT ![l].pc = pc]

\* findUserByEmail keeps ACTIVE users only; the password matched.  A refused
\* login changes nothing and is not an action.
FoundByEmailOnly(u) == status[u] # "DELETED"
FoundByEmail(u) == status[u] = "ACTIVE"

LoginCheck(l, u) ==
    /\ login[l].pc = "idle"
    /\ FoundByEmail(u)
    /\ login' = [login EXCEPT ![l].pc = "checked", ![l].user = u]
    /\ UNCHANGED <<now, status, rowUntil, redis, req, change, admin, history>>

\* jwtService.signAsync: iat is the current second.
LoginSign(l) ==
    /\ login[l].pc = "checked"
    /\ login' = [login EXCEPT ![l].pc = "signed", ![l].iat = now \div Second]
    /\ UNCHANGED <<now, status, rowUntil, redis, req, change, admin, history>>

\* accessToken.save(): refused by the foreign key when the user is gone.
LoginSave(l) ==
    /\ login[l].pc = "signed"
    /\ IF status[login[l].user] # "DELETED"
       THEN /\ rowUntil' = [rowUntil EXCEPT ![l] = now + JwtExpire * Second]
            /\ LoginGoto(l, "saved")
       ELSE LoginGoto(l, "failed") /\ UNCHANGED rowUntil
    /\ UNCHANGED <<now, status, redis, req, change, admin, history>>

\* SET auth:token:uid EX jwtExprire
EarlyTokenTTL == (JwtExpire - 1) * Second
TokenTTL == JwtExpire * Second

\* Logged out through an equal token, or its row deleted, before it was returned.
Spoilt(l) == Blacklisted(TokenOf(login[l])) \/ rowUntil[l] = 0

LoginSetToken(l) ==
    LET u == login[l].user
        others == IF MultiDevice THEN {} ELSE LoginsOf(u) \ SameToken(l)
    IN  /\ login[l].pc = "saved"
        /\ tokenKey' = [tokenKey EXCEPT ![u] =
                           [iat |-> login[l].iat, until |-> now + TokenTTL]]
        /\ fresh' = (fresh \ others)
                    \union (IF Spoilt(l) THEN {} ELSE {l})
        /\ LoginGoto(l, "tokenSet")
        /\ UNCHANGED <<now, status, rowUntil, pv, permKey, blacklist, req, change, admin,
                       loggedOut, revoked, overlap, late>>

\* SET auth:passwordVersion:uid 1
LoginSetPV(l) ==
    LET u == login[l].user
    IN  /\ login[l].pc = "tokenSet"
        /\ pv' = [pv EXCEPT ![u] = 1]
        /\ revoked' = revoked \ {u}
        /\ late' = IF l \in overlap \/ Removing(u) THEN late \union {u} ELSE late
        /\ LoginGoto(l, "pvSet")
        /\ UNCHANGED <<now, status, rowUntil, tokenKey, permKey, blacklist, req, change, admin,
                       loggedOut, fresh, overlap>>

\* getPermissions, then SET auth:permission:uid; the tokens go to the client.
LoginSetPerms(l) ==
    /\ login[l].pc = "pvSet"
    /\ permKey' = permKey \union {login[l].user}
    /\ LoginGoto(l, "issued")
    /\ UNCHANGED <<now, status, rowUntil, pv, tokenKey, blacklist, req, change, admin, history>>

Login(l) ==
    \/ \E u \in Users : LoginCheck(l, u)
    \/ LoginSign(l) \/ LoginSave(l) \/ LoginSetToken(l) \/ LoginSetPV(l) \/ LoginSetPerms(l)

-----------------------------------------------------------------------------
(* JwtAuthGuard.canActivate on a guarded route *)

ReqGoto(r, pc) == req' = [req EXCEPT ![r].pc = pc]

\* The guard's first read, of the blacklist, for a token a client was given.
ReqBlacklist(r, l) ==
    LET tok == TokenOf(login[l])
    IN  /\ req[r].pc = "idle"
        /\ login[l].pc = "issued"
        /\ req' = [req EXCEPT ![r] = [pc |-> IF Blacklisted(tok) THEN "rejected" ELSE "verify",
                                      user |-> tok.user, iat |-> tok.iat]]
        /\ UNCHANGED <<now, status, rowUntil, redis, login, change, admin, history>>

ReqVerify(r) ==
    /\ req[r].pc = "verify"
    /\ ReqGoto(r, IF JwtAlive(TokenOf(req[r])) THEN "pv" ELSE "rejected")
    /\ UNCHANGED <<now, status, rowUntil, redis, login, change, admin, history>>

\* The payload of every token carries pv: 1.
ReqPV(r) ==
    /\ req[r].pc = "pv"
    /\ ReqGoto(r, IF pv[req[r].user] # 1 THEN "rejected"
                  ELSE IF MultiDevice THEN "accepted" ELSE "token")
    /\ UNCHANGED <<now, status, rowUntil, redis, login, change, admin, history>>

ReqToken(r) ==
    LET u == req[r].user
    IN  /\ req[r].pc = "token"
        /\ ReqGoto(r, IF TokenKeyLive(u) /\ tokenKey[u].iat = req[r].iat
                      THEN "accepted" ELSE "rejected")
        /\ UNCHANGED <<now, status, rowUntil, redis, login, change, admin, history>>

-----------------------------------------------------------------------------
(* AuthService.clearLoginStatus, run by an accepted request to /logout *)

\* SET token:blacklist:value EX n; Redis refuses n = 0 and the call fails.
LogoutBlacklist(r) ==
    LET tok == TokenOf(req[r])
        ttl == RemainingTTL(JwtExp(tok) - now)
    IN  /\ req[r].pc = "accepted"
        /\ IF ttl > 0
           THEN /\ blacklist' = {b \in blacklist : b.token # tok}
                                \union {[token |-> tok, until |-> now + ttl * Second]}
                /\ Disturb({l \in Logins : TokenOf(login[l]) = tok})
                /\ ReqGoto(r, IF MultiDevice THEN "blacklisted" ELSE "delPv")
           ELSE ReqGoto(r, "failed") /\ UNCHANGED <<blacklist, fresh>>
        /\ UNCHANGED <<now, status, rowUntil, pv, tokenKey, permKey, login, change, admin,
                       loggedOut, revoked, overlap, late>>

\* multi-device: removeAccessToken finds one row of that value and removes it.
RowsOf(tok) == {l \in Logins : rowUntil[l] > 0 /\ TokenOf(login[l]) = tok}

LogoutRemoveRow(r) ==
    LET found == RowsOf(TokenOf(req[r]))
    IN  /\ req[r].pc = "blacklisted"
        /\ IF found = {} THEN UNCHANGED <<rowUntil, fresh>>
           ELSE \E l \in found : rowUntil' = [rowUntil EXCEPT ![l] = 0] /\ Disturb({l})
        /\ loggedOut' = loggedOut \union {TokenOf(req[r])}
        /\ ReqGoto(r, "done")
        /\ UNCHANGED <<now, status, redis, login, change, admin, revoked, overlap, late>>

\* single-device: UserService.forbidden(uid, token), three deletions.
DelPV(u) == pv' = [pv EXCEPT ![u] = 0] /\ Revoke(u) /\ Disturb(LoginsOf(u))
DelToken(u) == tokenKey' = [tokenKey EXCEPT ![u].until = 0] /\ Disturb(LoginsOf(u))
DelPerm(u) == permKey' = permKey \ {u} /\ Disturb(LoginsOf(u))

LogoutDelPV(r) ==
    /\ req[r].pc = "delPv"
    /\ DelPV(req[r].user)
    /\ ReqGoto(r, "delToken")
    /\ UNCHANGED <<now, status, rowUntil, tokenKey, permKey, blacklist, login, change, admin,
                   loggedOut, overlap, late>>

LogoutDelToken(r) ==
    /\ req[r].pc = "delToken"
    /\ DelToken(req[r].user)
    /\ ReqGoto(r, "delPerm")
    /\ UNCHANGED <<now, status, rowUntil, pv, permKey, blacklist, login, change, admin,
                   loggedOut, revoked, overlap, late>>

\* The row is then read for the online key; a missing row makes the call fail
\* after its work is done.
LogoutDelPerm(r) ==
    /\ req[r].pc = "delPerm"
    /\ DelPerm(req[r].user)
    /\ loggedOut' = loggedOut \union {TokenOf(req[r])}
    /\ ReqGoto(r, IF RowsOf(TokenOf(req[r])) = {} THEN "failed" ELSE "done")
    /\ UNCHANGED <<now, status, rowUntil, pv, tokenKey, blacklist, login, change, admin,
                   revoked, overlap, late>>

Request(r) ==
    \/ \E l \in Logins : ReqBlacklist(r, l)
    \/ ReqVerify(r) \/ ReqPV(r) \/ ReqToken(r)
    \/ LogoutBlacklist(r) \/ LogoutRemoveRow(r)
    \/ LogoutDelPV(r) \/ LogoutDelToken(r) \/ LogoutDelPerm(r)

-----------------------------------------------------------------------------
(* UserService.updatePassword and forceUpdatePassword: the row is written  *)
(* first, then upgradePasswordV reads the version and writes it back.      *)

\* An update in an open transaction holds the lock of the user's row.
RowLocked(u) ==
    \E a \in Admins :
        /\ admin[a].user = u
        /\ admin[a].kind # "delete"
        /\ admin[a].pc \in {"delPv", "delToken", "delPerm", "commit"}

ChangeGoto(c, pc) == change' = [change EXCEPT ![c].pc = pc]

\* findOneBy finds the user and its row gets the new password.
ChangeWrite(c, u) ==
    /\ change[c].pc = "idle"
    /\ status[u] # "DELETED"
    /\ ~RowLocked(u)
    /\ change' = [change EXCEPT ![c].pc = "written", ![c].user = u]
    /\ UNCHANGED <<now, status, rowUntil, redis, login, req, admin, history>>

\* An absent version is left absent.
NeverAbsent(v) == FALSE
VersionAbsent(v) == v = 0

ChangeGet(c) ==
    LET v == pv[change[c].user]
        absent == VersionAbsent(v)
    IN  /\ change[c].pc = "written"
        /\ change' = [change EXCEPT ![c].pc = IF absent THEN "done" ELSE "got", ![c].v = v]
        /\ IF absent THEN Revoke(change[c].user) ELSE UNCHANGED revoked
        /\ UNCHANGED <<now, status, rowUntil, redis, login, req, admin, loggedOut, fresh, overlap, late>>

SameVersion(v) == v
NextVersion(v) == v + 1

ChangeSet(c) ==
    LET u == change[c].user
    IN  /\ change[c].pc = "got"
        /\ pv' = [pv EXCEPT ![u] = NextVersion(change[c].v)]
        /\ Revoke(u)
        /\ Disturb(LoginsOf(u))
        /\ ChangeGoto(c, "done")
        /\ UNCHANGED <<now, status, rowUntil, tokenKey, permKey, blacklist, login, req, admin,
                       loggedOut, overlap, late>>

Change(c) == (\E u \in Users : ChangeWrite(c, u)) \/ ChangeGet(c) \/ ChangeSet(c)

-----------------------------------------------------------------------------
(* UserController.update (status only) and UserController.delete *)

AdminGoto(a, pc) == admin' = [admin EXCEPT ![a].pc = pc]

\* update opens its transaction: forbidden runs inside it for INACTIVE, before
\* the commit.
UpdateBegin(a, u, kind) ==
    /\ admin[a].pc = "idle"
    /\ kind \in AdminKinds \ {"delete"}
    /\ status[u] # "DELETED"
    /\ ~RowLocked(u)
    /\ admin' = [admin EXCEPT ![a] = [pc |-> IF kind = "disable" THEN "delPv" ELSE "commit",
                                      user |-> u, kind |-> kind]]
    /\ UNCHANGED <<now, status, rowUntil, redis, login, req, change, history>>

\* delete: the row goes with its tokens (ON DELETE CASCADE), then multiForbidden.
DeleteRow(a, u) ==
    /\ admin[a].pc = "idle"
    /\ "delete" \in AdminKinds
    /\ ~RowLocked(u)
    /\ status' = [status EXCEPT ![u] = "DELETED"]
    /\ rowUntil' = [l \in Logins |-> IF login[l].user = u THEN 0 ELSE rowUntil[l]]
    /\ Disturb(LoginsOf(u))
    /\ overlap' = overlap \union UnderWay(u)
    /\ admin' = [admin EXCEPT ![a] = [pc |-> "delPv", user |-> u, kind |-> "delete"]]
    /\ UNCHANGED <<now, redis, login, req, change, loggedOut, revoked, late>>

AdminDelPV(a) ==
    /\ admin[a].pc = "delPv"
    /\ DelPV(admin[a].user)
    /\ late' = late \ {admin[a].user}
    /\ AdminGoto(a, "delToken")
    /\ UNCHANGED <<now, status, rowUntil, tokenKey, permKey, blacklist, login, req, change,
                   loggedOut, overlap>>

AdminDelToken(a) ==
    /\ admin[a].pc = "delToken"
    /\ DelToken(admin[a].user)
    /\ AdminGoto(a, "delPerm")
    /\ UNCHANGED <<now, status, rowUntil, pv, permKey, blacklist, login, req, change,
                   loggedOut, revoked, overlap, late>>

AdminDelPerm(a) ==
    /\ admin[a].pc = "delPerm"
    /\ DelPerm(admin[a].user)
    /\ AdminGoto(a, IF admin[a].kind = "delete" THEN "done" ELSE "commit")
    /\ UNCHANGED <<now, status, rowUntil, pv, tokenKey, blacklist, login, req, change,
                   loggedOut, revoked, overlap, late>>

\* The transaction of update commits the new status.
UpdateCommit(a) ==
    /\ admin[a].pc = "commit"
    /\ status' = [status EXCEPT ![admin[a].user] =
                     IF admin[a].kind = "disable" THEN "INACTIVE" ELSE "ACTIVE"]
    /\ overlap' = IF admin[a].kind = "disable"
                  THEN overlap \union UnderWay(admin[a].user) ELSE overlap
    /\ AdminGoto(a, "refresh")
    /\ UNCHANGED <<now, rowUntil, redis, login, req, change, loggedOut, revoked, fresh, late>>

\* An exception or a lost connection: the transaction rolls back, what Redis was
\* told stays; a delete leaves the rest of multiForbidden undone.
AdminFail(a) ==
    /\ admin[a].pc \in {"delPv", "delToken", "delPerm", "commit"}
    /\ AdminGoto(a, "failed")
    /\ UNCHANGED <<now, status, rowUntil, redis, login, req, change, history>>

\* menuService.refreshPerms: is the user online, then write the permissions.
AdminRefresh(a) ==
    /\ admin[a].pc = "refresh"
    /\ AdminGoto(a, IF TokenKeyLive(admin[a].user) THEN "refreshSet" ELSE "done")
    /\ UNCHANGED <<now, status, rowUntil, redis, login, req, change, history>>

AdminRefreshSet(a) ==
    /\ admin[a].pc = "refreshSet"
    /\ permKey' = permKey \union {admin[a].user}
    /\ AdminGoto(a, "done")
    /\ UNCHANGED <<now, status, rowUntil, pv, tokenKey, blacklist, login, req, change, history>>

Admin(a) ==
    \/ \E u \in Users : DeleteRow(a, u) \/ \E k \in AdminKinds : UpdateBegin(a, u, k)
    \/ AdminDelPV(a) \/ AdminDelToken(a) \/ AdminDelPerm(a) \/ UpdateCommit(a)
    \/ AdminFail(a) \/ AdminRefresh(a) \/ AdminRefreshSet(a)

-----------------------------------------------------------------------------
(* CronService.deleteExpiredJWT *)

ExpiredRows == {l \in Logins : rowUntil[l] > 0 /\ rowUntil[l] < now}

CleanExpiredRows ==
    /\ ExpiredRows # {}
    /\ rowUntil' = [l \in Logins |-> IF l \in ExpiredRows THEN 0 ELSE rowUntil[l]]
    /\ UNCHANGED <<now, status, redis, calls, history>>

-----------------------------------------------------------------------------

Next ==
    \/ Tick
    \/ \E l \in Logins : Login(l)
    \/ \E r \in Requests : Request(r)
    \/ \E c \in Changes : Change(c)
    \/ \E a \in Admins : Admin(a)
    \/ CleanExpiredRows

Spec == Init /\ [][Next]_vars

-----------------------------------------------------------------------------
(* Properties *)

Token == [user : Users, iat : Nat]

StoreTyped ==
    /\ now \in Nat
    /\ status \in [Users -> {"ACTIVE", "INACTIVE", "DELETED"}]
    /\ rowUntil \in [Logins -> Nat]
    /\ pv \in [Users -> Nat]
    /\ tokenKey \in [Users -> [iat : Nat, until : Nat]]
    /\ permKey \subseteq Users
    /\ blacklist \subseteq [token : Token, until : Nat]

LoginTyped == login \in [Logins -> [pc : LoginState, user : Users, iat : Nat]]
ReqTyped == req \in [Requests -> [pc : ReqState, user : Users, iat : Nat]]
ChangeTyped ==
    /\ change \in [Changes -> [pc : ChangeState, user : Users, v : Nat]]
    /\ \A c \in Changes : change[c].pc = "got" => change[c].v >= 1
AdminTyped ==
    admin \in [Admins -> [pc : AdminState, user : Users,
                         kind : {"disable", "enable", "delete"}]]

HistoryTyped ==
    /\ loggedOut \subseteq Token
    /\ revoked \subseteq Users /\ late \subseteq Users
    /\ fresh \subseteq Logins /\ overlap \subseteq Logins

(* Every variable has its type; a password change that read a version holds  *)
(* one a login or another change wrote, never the absent one                 *)
(* (UserService.upgradePasswordV).                                           *)
TypeOK ==
    StoreTyped /\ LoginTyped /\ ReqTyped /\ ChangeTyped /\ AdminTyped /\ HistoryTyped

(* A token whose logout succeeded is on the blacklist until half a second    *)
(* before it expires: toFixed(0) rounds the TTL of the blacklist key to      *)
(* whole seconds, so it may end that much before the JWT                     *)
(* (AuthService.clearLoginStatus).                                           *)
LoggedOutStaysOut ==
    \A tok \in loggedOut :
        now + Second \div 2 <= JwtExp(tok) => Blacklisted(tok)

(* From the end of a password change, or the first deletion of forbidden,    *)
(* every token of the user is refused until a login writes the version,      *)
(* however the get and set of upgradePasswordV interleave with the others.   *)
RevokedUntilLogin ==
    \A u \in revoked : pv[u] # 1

(* A disabled or deleted user is refused once the call that removed it has   *)
(* ended, unless that call failed half-way or a login that had found the     *)
(* user active was still under way and wrote the version back.               *)
RemovalPending(u) ==
    \E a \in Admins :
        admin[a].user = u /\ admin[a].kind = "delete" /\ admin[a].pc \in {"delPv", "failed"}

RemovedStaysOut ==
    \A u \in Users :
        (status[u] # "ACTIVE" /\ ~RemovalPending(u) /\ u \notin late) => pv[u] # 1

(* A login that returned its tokens, and that no later logout, password      *)
(* change, disabling, deletion or (single device) other login touched, can   *)
(* be used until its JWT expires: the guard accepts it, its permissions are  *)
(* cached, the user counts as online for the permission refresh, and its     *)
(* row has not been cleaned away.                                            *)
FreshSessionUsable ==
    \A l \in fresh :
        LET tok == TokenOf(login[l])
        IN  login[l].pc = "issued" /\ JwtAlive(tok) =>
                /\ Acceptable(tok)
                /\ tok.user \in permKey
                /\ TokenKeyLive(tok.user)
                /\ rowUntil[l] > 0

(* An issued token that the guard refuses is never accepted again, whatever  *)
(* logouts, password changes, admin calls and expiries follow in any order,  *)
(* but by a step of a login of its user or in the half second before it      *)
(* expires (the TTL of the blacklist key): no write of upgradePasswordV, no  *)
(* second logout of the token and no expiry of a key brings it back.         *)
LoginWrites(u) == \E l \in LoginsOf(u) : LoginSetToken(l) \/ LoginSetPV(l)

RefusedUntilLogin ==
    [][\A l \in Logins :
          LET tok == TokenOf(login[l])
          IN  login[l].pc = "issued" /\ ~Acceptable(tok) /\ Acceptable(tok)' =>
                  \/ LoginWrites(tok.user)
                  \/ now' + Second \div 2 > JwtExp(tok)]_vars

-----------------------------------------------------------------------------
(* The inductive invariants behind them (SessionProofs) *)

Out(u) == pv[u] # 1 \/ u \in late

RemovalInv ==
    \A u \in Users :
        /\ Removing(u) => Out(u)
        /\ status[u] # "ACTIVE" => UnderWay(u) \subseteq overlap
        /\ status[u] # "ACTIVE" /\ ~RemovalPending(u) => Out(u)

\* The TTL of a blacklist entry falls at most a quarter of a second short.
HasEntry(tok) == \E b \in blacklist : b.token = tok

LogoutInv ==
    /\ \A b \in blacklist : JwtExp(b.token) <= b.until + 1
    /\ \A tok \in loggedOut : HasEntry(tok)
    /\ \A r \in Requests :
          req[r].pc \in {"blacklisted", "delPv", "delToken", "delPerm"} =>
              HasEntry(TokenOf(req[r]))

\* iat is no later than now, and a row outlives its token.
MintInv ==
    \A l \in Logins :
        /\ login[l].pc \notin {"idle", "checked"} => login[l].iat * Second <= now
        /\ login[l].pc \in {"saved", "tokenSet", "pvSet", "issued"} =>
               rowUntil[l] = 0 \/ JwtExp(TokenOf(login[l])) <= rowUntil[l]

FreshAt(l) ==
    LET u == login[l].user
        tok == TokenOf(login[l])
    IN  /\ login[l].pc \in {"tokenSet", "pvSet", "issued"}
        /\ ~Blacklisted(tok)
        /\ JwtExp(tok) <= tokenKey[u].until
        /\ ~MultiDevice => tokenKey[u].iat = login[l].iat
        /\ login[l].pc # "tokenSet" => pv[u] = 1
        /\ login[l].pc = "issued" => u \in permKey
        /\ JwtAlive(tok) => rowUntil[l] > 0

FreshInv == \A l \in fresh : FreshAt(l)

=============================================================================
