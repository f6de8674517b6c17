--------------------------- MODULE SessionProofs ---------------------------
(***************************************************************************)
(* Proofs about Session, for any users, any numbers of concurrent calls,   *)
(* any JWT lifetime and both device modes.                                 *)
(***************************************************************************)
EXTENDS Session, TLAPS

USE SessionAssumption DEF redis, calls, history

-----------------------------------------------------------------------------
(* What each kind of call leaves alone. *)

LEMMA TickFrame ==
    Tick => UNCHANGED <<status, rowUntil, pv, tokenKey, permKey, blacklist, login, req,
                        change, admin, loggedOut, revoked, fresh, overlap, late>>
BY DEF Tick

LEMMA LoginFrame ==
    ASSUME NEW l \in Logins, Login(l)
    PROVE  UNCHANGED <<now, status, blacklist, req, change, admin, loggedOut, overlap>>
BY DEF Login, LoginCheck, LoginSign, LoginSave, LoginSetToken, LoginSetPV, LoginSetPerms

LEMMA RequestFrame ==
    ASSUME NEW r \in Requests, Request(r)
    PROVE  UNCHANGED <<now, status, login, change, admin, overlap, late>>
BY DEF Request, ReqBlacklist, ReqVerify, ReqPV, ReqToken, LogoutBlacklist,
       LogoutRemoveRow, LogoutDelPV, LogoutDelToken, LogoutDelPerm

LEMMA ChangeFrame ==
    ASSUME NEW c \in Changes, Change(c)
    PROVE  UNCHANGED <<now, status, rowUntil, tokenKey, permKey, blacklist, login, req,
                       admin, loggedOut, overlap, late>>
BY DEF Change, ChangeWrite, ChangeGet, ChangeSet

LEMMA AdminFrame ==
    ASSUME NEW a \in Admins, Admin(a)
    PROVE  UNCHANGED <<now, blacklist, login, req, change, loggedOut>>
BY DEF Admin, DeleteRow, UpdateBegin, AdminDelPV, AdminDelToken, AdminDelPerm,
       UpdateCommit, AdminFail, AdminRefresh, AdminRefreshSet

LEMMA CleanFrame ==
    CleanExpiredRows =>
        UNCHANGED <<now, status, pv, tokenKey, permKey, blacklist, login, req,
                    change, admin, loggedOut, revoked, fresh, overlap, late>>
BY DEF CleanExpiredRows

-----------------------------------------------------------------------------
(* Types, one kind of variable at a time. *)

LEMMA LoginTypedStep ==
    ASSUME LoginTyped, now \in Nat, NEW l \in Logins, Login(l)
    PROVE  LoginTyped'
<1> USE DEF LoginTyped, LoginState, LoginGoto
<1>1. ASSUME NEW u \in Users, LoginCheck(l, u) PROVE LoginTyped'
  BY <1>1 DEF LoginCheck
<1>2. CASE LoginSign(l)
  <2>1. now \div Second \in Nat
    BY DEF Second
  <2> QED
    BY <1>2, <2>1 DEF LoginSign
<1>3. CASE LoginSave(l)
  BY <1>3 DEF LoginSave
<1>4. CASE LoginSetToken(l)
  BY <1>4 DEF LoginSetToken
<1>5. CASE LoginSetPV(l)
  BY <1>5 DEF LoginSetPV
<1>6. CASE LoginSetPerms(l)
  BY <1>6 DEF LoginSetPerms
<1> QED
  BY <1>1, <1>2, <1>3, <1>4, <1>5, <1>6 DEF Login

LEMMA ReqTypedStep ==
    ASSUME LoginTyped, ReqTyped, NEW r \in Requests, Request(r)
    PROVE  ReqTyped'
<1> USE DEF ReqTyped, ReqState, ReqGoto
<1>1. ASSUME NEW l \in Logins, ReqBlacklist(r, l) PROVE ReqTyped'
  BY <1>1 DEF ReqBlacklist, LoginTyped, TokenOf
<1>2. CASE ReqVerify(r)
  BY <1>2 DEF ReqVerify
<1>3. CASE ReqPV(r)
  BY <1>3 DEF ReqPV
<1>4. CASE ReqToken(r)
  BY <1>4 DEF ReqToken
<1>5. CASE LogoutBlacklist(r)
  BY <1>5 DEF LogoutBlacklist
<1>6. CASE LogoutRemoveRow(r)
  BY <1>6 DEF LogoutRemoveRow
<1>7. CASE LogoutDelPV(r)
  BY <1>7 DEF LogoutDelPV
<1>8. CASE LogoutDelToken(r)
  BY <1>8 DEF LogoutDelToken
<1>9. CASE LogoutDelPerm(r)
  BY <1>9 DEF LogoutDelPerm
<1> QED
  BY <1>1, <1>2, <1>3, <1>4, <1>5, <1>6, <1>7, <1>8, <1>9 DEF Request

LEMMA ChangeTypedStep ==
    ASSUME ChangeTyped, StoreTyped, NEW c \in Changes, Change(c)
    PROVE  ChangeTyped'
<1> USE DEF ChangeTyped, ChangeState
<1>1. ASSUME NEW u \in Users, ChangeWrite(c, u) PROVE ChangeTyped'
  BY <1>1 DEF ChangeWrite
<1>2. CASE ChangeGet(c)
  <2> DEFINE v == pv[change[c].user]
  <2>1. v \in Nat
    BY DEF StoreTyped
  <2>2. \E p \in {"done", "got"} :
           /\ change' = [change EXCEPT ![c].pc = p, ![c].v = v]
           /\ p = "got" => v # 0
    BY <1>2 DEF ChangeGet, VersionAbsent
  <2>3. PICK p \in {"done", "got"} :
           /\ change' = [change EXCEPT ![c].pc = p, ![c].v = v]
           /\ p = "got" => v # 0
    BY <2>2
  <2> HIDE DEF v
  <2>4. change' \in [Changes -> [pc : ChangeState, user : Users, v : Nat]]
    BY <2>1, <2>3
  <2>5. ASSUME NEW d \in Changes, change'[d].pc = "got" PROVE change'[d].v >= 1
    <3>1. CASE d = c
      BY <2>1, <2>3, <2>5, <3>1
    <3>2. CASE d # c
      BY <2>3, <2>5, <3>2
    <3> QED
      BY <3>1, <3>2
  <2> QED
    BY <2>4, <2>5
<1>3. CASE ChangeSet(c)
  BY <1>3 DEF ChangeSet, ChangeGoto
<1> QED
  BY <1>1, <1>2, <1>3 DEF Change

LEMMA AdminTypedStep ==
    ASSUME AdminTyped, NEW a \in Admins, Admin(a)
    PROVE  AdminTyped'
<1> USE DEF AdminTyped, AdminState, AdminGoto
<1>1. ASSUME NEW u \in Users, DeleteRow(a, u) PROVE AdminTyped'
  BY <1>1 DEF DeleteRow
<1>2. ASSUME NEW u \in Users, NEW k \in AdminKinds, UpdateBegin(a, u, k) PROVE AdminTyped'
  BY <1>2 DEF UpdateBegin
<1>3. CASE AdminDelPV(a)
  BY <1>3 DEF AdminDelPV
<1>4. CASE AdminDelToken(a)
  BY <1>4 DEF AdminDelToken
<1>5. CASE AdminDelPerm(a)
  BY <1>5 DEF AdminDelPerm
<1>6. CASE UpdateCommit(a)
  BY <1>6 DEF UpdateCommit
<1>7. CASE AdminFail(a)
  BY <1>7 DEF AdminFail
<1>8. CASE AdminRefresh(a)
  BY <1>8 DEF AdminRefresh
<1>9. CASE AdminRefreshSet(a)
  BY <1>9 DEF AdminRefreshSet
<1> QED
  BY <1>1, <1>2, <1>3, <1>4, <1>5, <1>6, <1>7, <1>8, <1>9 DEF Admin

LEMMA StoreTypedLogin ==
    ASSUME StoreTyped, LoginTyped, NEW l \in Logins, Login(l)
    PROVE  StoreTyped'
<1> USE DEF StoreTyped, LoginTyped, Token
<1>1. ASSUME NEW u \in Users, LoginCheck(l, u) PROVE StoreTyped'
  BY <1>1 DEF LoginCheck
<1>2. CASE LoginSign(l)
  BY <1>2 DEF LoginSign
<1>3. CASE LoginSave(l)
  BY <1>3 DEF LoginSave, Second
<1>4. CASE LoginSetToken(l)
  <2>1. now + TokenTTL \in Nat
    BY DEF TokenTTL, Second
  <2>2. tokenKey' = [tokenKey EXCEPT ![login[l].user] =
                        [iat |-> login[l].iat, until |-> now + TokenTTL]]
    BY <1>4 DEF LoginSetToken
  <2>3. tokenKey' \in [Users -> [iat : Nat, until : Nat]]
    BY <2>1, <2>2
  <2> QED
    BY <1>4, <2>3 DEF LoginSetToken
<1>5. CASE LoginSetPV(l)
  BY <1>5 DEF LoginSetPV
<1>6. CASE LoginSetPerms(l)
  BY <1>6 DEF LoginSetPerms
<1> QED
  BY <1>1, <1>2, <1>3, <1>4, <1>5, <1>6 DEF Login

LEMMA StoreTypedRequest ==
    ASSUME StoreTyped, ReqTyped, NEW r \in Requests, Request(r)
    PROVE  StoreTyped'
<1> USE DEF StoreTyped
<1>0. TokenOf(req[r]) \in Token
  BY DEF ReqTyped, Token, TokenOf
<1>1. ASSUME NEW l \in Logins, ReqBlacklist(r, l) PROVE StoreTyped'
  BY <1>1 DEF ReqBlacklist
<1>2. CASE ReqVerify(r)
  BY <1>2 DEF ReqVerify
<1>3. CASE ReqPV(r)
  BY <1>3 DEF ReqPV
<1>4. CASE ReqToken(r)
  BY <1>4 DEF ReqToken
<1>5. CASE LogoutBlacklist(r)
  <2> DEFINE ttl == RemainingTTL(JwtExp(TokenOf(req[r])) - now)
             entry == [token |-> TokenOf(req[r]), until |-> now + ttl * Second]
  <2>1. CASE ttl > 0
    <3>1. ttl \in Int
      BY <1>0 DEF RemainingTTL, JwtExp, Token, Second
    <3>2. entry \in [token : Token, until : Nat]
      BY <1>0, <2>1, <3>1 DEF Second
    <3>3. blacklist' \subseteq blacklist \union {entry}
      BY <1>5, <2>1 DEF LogoutBlacklist
    <3> HIDE DEF entry, ttl
    <3> QED
      BY <1>5, <3>2, <3>3 DEF LogoutBlacklist
  <2>2. CASE ~(ttl > 0)
    BY <1>5, <2>2 DEF LogoutBlacklist
  <2> QED
    BY <2>1, <2>2
<1>6. CASE LogoutRemoveRow(r)
  <2>1. \/ UNCHANGED rowUntil
        \/ \E l \in Logins : rowUntil' = [rowUntil EXCEPT ![l] = 0]
    BY <1>6 DEF LogoutRemoveRow, RowsOf
  <2>2. rowUntil' \in [Logins -> Nat]
    BY <2>1
  <2> QED
    BY <1>6, <2>2 DEF LogoutRemoveRow
<1>7. CASE LogoutDelPV(r)
  BY <1>7 DEF LogoutDelPV, DelPV
<1>8. CASE LogoutDelToken(r)
  BY <1>8 DEF LogoutDelToken, DelToken
<1>9. CASE LogoutDelPerm(r)
  BY <1>9 DEF LogoutDelPerm, DelPerm
<1> QED
  BY <1>1, <1>2, <1>3, <1>4, <1>5, <1>6, <1>7, <1>8, <1>9 DEF Request

LEMMA StoreTypedChange ==
    ASSUME StoreTyped, ChangeTyped, NEW c \in Changes, Change(c)
    PROVE  StoreTyped'
<1>1. pv' \in [Users -> Nat]
  BY DEF StoreTyped, ChangeTyped, Change, ChangeWrite, ChangeGet, ChangeSet, NextVersion
<1> QED
  BY <1>1, ChangeFrame DEF StoreTyped

LEMMA StoreTypedAdmin ==
    ASSUME StoreTyped, AdminTyped, NEW a \in Admins, Admin(a)
    PROVE  StoreTyped'
<1> USE DEF StoreTyped, AdminTyped
<1>1. ASSUME NEW u \in Users, DeleteRow(a, u) PROVE StoreTyped'
  BY <1>1 DEF DeleteRow
<1>2. ASSUME NEW u \in Users, NEW k \in AdminKinds, UpdateBegin(a, u, k) PROVE StoreTyped'
  BY <1>2 DEF UpdateBegin
<1>3. CASE AdminDelPV(a)
  BY <1>3 DEF AdminDelPV, DelPV
<1>4. CASE AdminDelToken(a)
  BY <1>4 DEF AdminDelToken, DelToken
<1>5. CASE AdminDelPerm(a)
  BY <1>5 DEF AdminDelPerm, DelPerm
<1>6. CASE UpdateCommit(a)
  <2>1. \E s \in {"ACTIVE", "INACTIVE"} : status' = [status EXCEPT ![admin[a].user] = s]
    BY <1>6 DEF UpdateCommit
  <2>2. status' \in [Users -> {"ACTIVE", "INACTIVE", "DELETED"}]
    BY <2>1
  <2> QED
    BY <1>6, <2>2 DEF UpdateCommit
<1>7. CASE AdminFail(a)
  BY <1>7 DEF AdminFail
<1>8. CASE AdminRefresh(a)
  BY <1>8 DEF AdminRefresh
<1>9. CASE AdminRefreshSet(a)
  BY <1>9 DEF AdminRefreshSet
<1> QED
  BY <1>1, <1>2, <1>3, <1>4, <1>5, <1>6, <1>7, <1>8, <1>9 DEF Admin

LEMMA HistoryTypedStep ==
    ASSUME TypeOK, Next
    PROVE  HistoryTyped'
<1> USE DEF TypeOK, HistoryTyped
<1>1. CASE Tick
  BY <1>1, TickFrame
<1>2. ASSUME NEW l \in Logins, Login(l) PROVE HistoryTyped'
  <2>1. login[l].user \in Users
    BY DEF LoginTyped
  <2> QED
    BY <1>2, <2>1 DEF Login, LoginCheck, LoginSign, LoginSave, LoginSetToken, LoginSetPV,
                      LoginSetPerms
<1>3. ASSUME NEW r \in Requests, Request(r) PROVE HistoryTyped'
  <2>1. req[r].user \in Users /\ TokenOf(req[r]) \in Token
    BY DEF ReqTyped, TokenOf, Token
  <2> QED
    BY <1>3, <2>1 DEF Request, ReqBlacklist, ReqVerify, ReqPV, ReqToken, LogoutBlacklist,
       LogoutRemoveRow, LogoutDelPV, LogoutDelToken, LogoutDelPerm, DelPV, DelToken,
       DelPerm, Revoke, Disturb
<1>4. ASSUME NEW c \in Changes, Change(c) PROVE HistoryTyped'
  BY <1>4 DEF ChangeTyped, Change, ChangeWrite, ChangeGet, ChangeSet, Revoke, Disturb
<1>5. ASSUME NEW a \in Admins, Admin(a) PROVE HistoryTyped'
  <2>1. admin[a].user \in Users
    BY DEF AdminTyped
  <2> QED
    BY <1>5, <2>1 DEF Admin, DeleteRow, UpdateBegin, AdminDelPV, AdminDelToken,
       AdminDelPerm, UpdateCommit, AdminFail, AdminRefresh, AdminRefreshSet, DelPV,
       DelToken, DelPerm, Revoke, Disturb, UnderWay, LoginsOf
<1>6. CASE CleanExpiredRows
  BY <1>6, CleanFrame
<1> QED
  BY <1>1, <1>2, <1>3, <1>4, <1>5, <1>6 DEF Next

LEMMA TypeOKStep == TypeOK /\ [Next]_vars => TypeOK'
<1> SUFFICES ASSUME TypeOK, [Next]_vars PROVE TypeOK'
  OBVIOUS
<1> USE DEF TypeOK
<1>1. CASE Tick
  BY <1>1, TickFrame DEF Tick, StoreTyped, LoginTyped, ReqTyped, ChangeTyped, AdminTyped,
                         HistoryTyped
<1>2. ASSUME NEW l \in Logins, Login(l) PROVE TypeOK'
  <2>1. LoginTyped' /\ StoreTyped' /\ HistoryTyped'
    BY <1>2, LoginTypedStep, StoreTypedLogin, HistoryTypedStep DEF StoreTyped, Next
  <2> QED
    BY <1>2, <2>1, LoginFrame DEF ReqTyped, ChangeTyped, AdminTyped
<1>3. ASSUME NEW r \in Requests, Request(r) PROVE TypeOK'
  <2>1. ReqTyped' /\ StoreTyped' /\ HistoryTyped'
    BY <1>3, ReqTypedStep, StoreTypedRequest, HistoryTypedStep DEF Next
  <2> QED
    BY <1>3, <2>1, RequestFrame DEF LoginTyped, ChangeTyped, AdminTyped
<1>4. ASSUME NEW c \in Changes, Change(c) PROVE TypeOK'
  <2>1. ChangeTyped' /\ StoreTyped' /\ HistoryTyped'
    BY <1>4, ChangeTypedStep, StoreTypedChange, HistoryTypedStep DEF Next
  <2> QED
    BY <1>4, <2>1, ChangeFrame DEF LoginTyped, ReqTyped, AdminTyped
<1>5. ASSUME NEW a \in Admins, Admin(a) PROVE TypeOK'
  <2>1. AdminTyped' /\ StoreTyped' /\ HistoryTyped'
    BY <1>5, AdminTypedStep, StoreTypedAdmin, HistoryTypedStep DEF Next
  <2> QED
    BY <1>5, <2>1, AdminFrame DEF LoginTyped, ReqTyped, ChangeTyped
<1>6. CASE CleanExpiredRows
  <2>1. rowUntil' \in [Logins -> Nat]
    BY <1>6 DEF CleanExpiredRows, StoreTyped
  <2> QED
    BY <1>6, <2>1, CleanFrame DEF StoreTyped, LoginTyped, ReqTyped, ChangeTyped,
                                  AdminTyped, HistoryTyped
<1>7. CASE UNCHANGED vars
  BY <1>7 DEF vars, StoreTyped, LoginTyped, ReqTyped, ChangeTyped, AdminTyped, HistoryTyped
<1> QED
  BY <1>1, <1>2, <1>3, <1>4, <1>5, <1>6, <1>7 DEF Next

(* Every variable of Session keeps its type, whatever the calls interleave,  *)
(* and a password change never holds an absent version.                      *)
THEOREM TypeCorrect == Spec => []TypeOK
<1>1. Init => TypeOK
  BY DEF Init, TypeOK, StoreTyped, LoginTyped, ReqTyped, ChangeTyped, AdminTyped,
         HistoryTyped, LoginState, ReqState, ChangeState, AdminState
<1> QED
  BY <1>1, TypeOKStep, PTL DEF Spec

-----------------------------------------------------------------------------
(* Revocation. *)

\* Who writes the password version, and what the history says of it then: the
\* version becomes 1 only by a login, which ends the revocation.
LEMMA VersionWrites ==
    ASSUME TypeOK, Next
    PROVE  \/ UNCHANGED <<pv, revoked>>
           \/ UNCHANGED pv /\ \E u \in Users : pv[u] = 0 /\ revoked' = revoked \union {u}
           \/ \E u \in Users : /\ pv' = [pv EXCEPT ![u] = 1]
                               /\ revoked' = revoked \ {u}
           \/ \E u \in Users, v \in Nat \ {1} :
                   /\ pv' = [pv EXCEPT ![u] = v]
                   /\ revoked' = revoked \union {u}
<1> USE DEF TypeOK
<1>1. CASE Tick
  BY <1>1, TickFrame
<1>2. ASSUME NEW l \in Logins, Login(l)
      PROVE  \/ UNCHANGED <<pv, revoked>>
             \/ \E u \in Users : pv' = [pv EXCEPT ![u] = 1] /\ revoked' = revoked \ {u}
  BY <1>2 DEF LoginTyped, Login, LoginCheck, LoginSign, LoginSave, LoginSetToken,
              LoginSetPV, LoginSetPerms
<1>3. ASSUME NEW r \in Requests, Request(r)
      PROVE  \/ UNCHANGED <<pv, revoked>>
             \/ \E u \in Users : pv' = [pv EXCEPT ![u] = 0] /\ revoked' = revoked \union {u}
  BY <1>3 DEF ReqTyped, Request, ReqBlacklist, ReqVerify, ReqPV, ReqToken, LogoutBlacklist,
       LogoutRemoveRow, LogoutDelPV, LogoutDelToken, LogoutDelPerm, DelPV, DelToken,
       DelPerm, Revoke
<1>4. ASSUME NEW c \in Changes, Change(c)
      PROVE  \/ UNCHANGED <<pv, revoked>>
             \/ UNCHANGED pv /\ \E u \in Users : pv[u] = 0 /\ revoked' = revoked \union {u}
             \/ \E u \in Users, v \in Nat \ {1} :
                    pv' = [pv EXCEPT ![u] = v] /\ revoked' = revoked \union {u}
  <2>1. ASSUME NEW u \in Users, ChangeWrite(c, u) PROVE UNCHANGED <<pv, revoked>>
    BY <2>1 DEF ChangeWrite
  <2>2. CASE ChangeGet(c)
    BY <2>2 DEF ChangeTyped, ChangeGet, VersionAbsent, Revoke
  <2>3. CASE ChangeSet(c)
    <3>1. change[c].user \in Users /\ change[c].v + 1 \in Nat \ {1}
      BY <2>3 DEF ChangeTyped, ChangeSet
    <3> QED
      BY <2>3, <3>1 DEF ChangeSet, NextVersion, Revoke
  <2> QED
    BY <1>4, <2>1, <2>2, <2>3 DEF Change
<1>5. ASSUME NEW a \in Admins, Admin(a)
      PROVE  \/ UNCHANGED <<pv, revoked>>
             \/ \E u \in Users : pv' = [pv EXCEPT ![u] = 0] /\ revoked' = revoked \union {u}
  BY <1>5 DEF AdminTyped, Admin, DeleteRow, UpdateBegin, AdminDelPV, AdminDelToken,
       AdminDelPerm, UpdateCommit, AdminFail, AdminRefresh, AdminRefreshSet, DelPV,
       DelToken, DelPerm, Revoke
<1>6. CASE CleanExpiredRows
  BY <1>6, CleanFrame
<1>7. 0 \in Nat \ {1}
  OBVIOUS
<1> QED
  BY <1>1, <1>2, <1>3, <1>4, <1>5, <1>6, <1>7 DEF Next

(* From the end of a password change or the first deletion of forbidden, the *)
(* user's tokens are refused until a login: for any number of concurrent     *)
(* changes, logins, logouts and admin calls.                                 *)
THEOREM Revocation == Spec => []RevokedUntilLogin
<1>1. Init => RevokedUntilLogin
  BY DEF Init, RevokedUntilLogin
<1>2. TypeOK /\ RevokedUntilLogin /\ [Next]_vars => RevokedUntilLogin'
  <2> SUFFICES ASSUME TypeOK, RevokedUntilLogin, [Next]_vars PROVE RevokedUntilLogin'
    OBVIOUS
  <2> USE DEF RevokedUntilLogin
  <2>1. pv \in [Users -> Nat] /\ revoked \subseteq Users
    BY DEF TypeOK, StoreTyped, HistoryTyped
  <2>2. CASE Next
    BY <2>1, <2>2, VersionWrites
  <2>3. CASE UNCHANGED vars
    BY <2>3 DEF vars
  <2> QED
    BY <2>2, <2>3
<1> QED
  BY <1>1, <1>2, TypeCorrect, PTL DEF Spec

-----------------------------------------------------------------------------
(* Removal of a user. *)

LEMMA RemovalStutter ==
    RemovalInv /\ UNCHANGED <<status, pv, late, overlap, login, admin>> => RemovalInv'
BY DEF RemovalInv, Removing, RemovalPending, Out, UnderWay, LoginsOf

LEMMA RemovalLogin ==
    ASSUME TypeOK, RemovalInv, NEW l \in Logins, Login(l)
    PROVE  RemovalInv'
<1> USE DEF TypeOK, StoreTyped, LoginTyped, LoginGoto
<1>0. UNCHANGED <<status, admin, overlap>>
  BY LoginFrame
<1>1. \A u \in Users : (Removing(u)' <=> Removing(u)) /\ (RemovalPending(u)' <=> RemovalPending(u))
  BY <1>0 DEF Removing, RemovalPending
<1>2. \A u \in Users : status[u] # "ACTIVE" => UnderWay(u)' \subseteq UnderWay(u)
  <2>1. ASSUME NEW u \in Users, LoginCheck(l, u) PROVE <1>2
    BY <2>1 DEF LoginCheck, FoundByEmail, UnderWay, LoginsOf
  <2>2. CASE LoginSign(l)
    BY <2>2 DEF LoginSign, UnderWay, LoginsOf
  <2>3. CASE LoginSave(l)
    BY <2>3 DEF LoginSave, UnderWay, LoginsOf
  <2>4. CASE LoginSetToken(l)
    BY <2>4 DEF LoginSetToken, UnderWay, LoginsOf
  <2>5. CASE LoginSetPV(l)
    BY <2>5 DEF LoginSetPV, UnderWay, LoginsOf
  <2>6. CASE LoginSetPerms(l)
    BY <2>6 DEF LoginSetPerms, UnderWay, LoginsOf
  <2> QED
    BY <2>1, <2>2, <2>3, <2>4, <2>5, <2>6 DEF Login
<1>3. ASSUME NEW u \in Users,
             Out(u), Removing(u) \/ status[u] # "ACTIVE"
      PROVE  Out(u)'
  <2>1. CASE LoginSetPV(l)
    <3>1. CASE login[l].user = u
      <4>1. l \in UnderWay(u)
        BY <2>1, <3>1 DEF LoginSetPV, UnderWay, LoginsOf
      <4>2. l \in overlap \/ Removing(u)
        BY <1>3, <4>1 DEF RemovalInv
      <4> QED
        BY <2>1, <3>1, <4>2 DEF LoginSetPV, Out
    <3>2. CASE login[l].user # u
      BY <1>3, <2>1, <3>2 DEF LoginSetPV, Out
    <3> QED
      BY <3>1, <3>2
  <2>2. CASE ~LoginSetPV(l)
    <3>1. UNCHANGED <<pv, late>>
      BY <2>2 DEF Login, LoginCheck, LoginSign, LoginSave, LoginSetToken, LoginSetPerms
    <3> QED
      BY <1>3, <3>1 DEF Out
  <2> QED
    BY <2>1, <2>2
<1> QED
  BY <1>0, <1>1, <1>2, <1>3 DEF RemovalInv

LEMMA RemovalRequest ==
    ASSUME TypeOK, RemovalInv, NEW r \in Requests, Request(r)
    PROVE  RemovalInv'
<1>1. UNCHANGED <<status, login, admin, overlap, late>>
  BY RequestFrame
<1>2. UNCHANGED pv \/ \E u \in Users : pv' = [pv EXCEPT ![u] = 0]
  BY DEF TypeOK, ReqTyped, Request, ReqBlacklist, ReqVerify, ReqPV, ReqToken,
         LogoutBlacklist, LogoutRemoveRow, LogoutDelPV, LogoutDelToken, LogoutDelPerm, DelPV
<1>3. \A u \in Users : Out(u) => Out(u)'
  BY <1>1, <1>2 DEF Out, TypeOK, StoreTyped
<1> QED
  BY <1>1, <1>3 DEF RemovalInv, Removing, RemovalPending, UnderWay, LoginsOf

LEMMA RemovalChange ==
    ASSUME TypeOK, RemovalInv, NEW c \in Changes, Change(c)
    PROVE  RemovalInv'
<1>1. UNCHANGED <<status, login, admin, overlap, late>>
  BY ChangeFrame
<1>2. UNCHANGED pv \/ \E u \in Users, v \in Nat \ {1} : pv' = [pv EXCEPT ![u] = v]
  <2>1. CASE ChangeSet(c)
    <3>1. change[c].user \in Users /\ change[c].v + 1 \in Nat \ {1}
      BY <2>1 DEF TypeOK, ChangeTyped, ChangeSet
    <3> QED
      BY <2>1, <3>1 DEF ChangeSet, NextVersion
  <2> QED
    BY <2>1 DEF Change, ChangeWrite, ChangeGet
<1>3. \A u \in Users : Out(u) => Out(u)'
  BY <1>1, <1>2 DEF Out, TypeOK, StoreTyped
<1> QED
  BY <1>1, <1>3 DEF RemovalInv, Removing, RemovalPending, UnderWay, LoginsOf

LEMMA RemovalAdmin ==
    ASSUME TypeOK, RemovalInv, NEW a \in Admins, Admin(a)
    PROVE  RemovalInv'
<1> USE DEF TypeOK, StoreTyped, AdminTyped, RemovalInv, AdminGoto
<1>0. UNCHANGED login
  BY AdminFrame
<1>1. ASSUME NEW u \in Users, DeleteRow(a, u) PROVE RemovalInv'
  BY <1>0, <1>1 DEF DeleteRow, Removing, RemovalPending, Out, UnderWay, LoginsOf
<1>2. ASSUME NEW u \in Users, NEW k \in AdminKinds, UpdateBegin(a, u, k) PROVE RemovalInv'
  BY <1>0, <1>2 DEF UpdateBegin, Removing, RemovalPending, Out, UnderWay, LoginsOf
<1>3. CASE AdminDelPV(a)
  BY <1>0, <1>3 DEF AdminDelPV, DelPV, Removing, RemovalPending, Out, UnderWay, LoginsOf
<1>4. CASE AdminDelToken(a)
  BY <1>0, <1>4 DEF AdminDelToken, Removing, RemovalPending, Out, UnderWay, LoginsOf
<1>5. CASE AdminDelPerm(a)
  BY <1>0, <1>5 DEF AdminDelPerm, Removing, RemovalPending, Out, UnderWay, LoginsOf
<1>6. CASE UpdateCommit(a)
  BY <1>0, <1>6 DEF UpdateCommit, Removing, RemovalPending, Out, UnderWay, LoginsOf
<1>7. CASE AdminFail(a)
  BY <1>0, <1>7 DEF AdminFail, Removing, RemovalPending, Out, UnderWay, LoginsOf
<1>8. CASE AdminRefresh(a)
  BY <1>0, <1>8 DEF AdminRefresh, Removing, RemovalPending, Out, UnderWay, LoginsOf
<1>9. CASE AdminRefreshSet(a)
  BY <1>0, <1>9 DEF AdminRefreshSet, Removing, RemovalPending, Out, UnderWay, LoginsOf
<1> QED
  BY <1>1, <1>2, <1>3, <1>4, <1>5, <1>6, <1>7, <1>8, <1>9 DEF Admin

(* A disabled or deleted user stays refused, unless the removal broke off or *)
(* a login it overtook wrote the version back.                               *)
THEOREM Removal == Spec => []RemovedStaysOut
<1>1. Init => RemovalInv
  BY DEF Init, RemovalInv, Removing, RemovalPending, Out
<1>2. TypeOK /\ RemovalInv /\ [Next]_vars => RemovalInv'
  <2> SUFFICES ASSUME TypeOK, RemovalInv, [Next]_vars PROVE RemovalInv'
    OBVIOUS
  <2>1. CASE Tick
    BY <2>1, TickFrame, RemovalStutter
  <2>2. CASE CleanExpiredRows
    BY <2>2, CleanFrame, RemovalStutter
  <2>3. CASE UNCHANGED vars
    BY <2>3, RemovalStutter DEF vars
  <2> QED
    BY <2>1, <2>2, <2>3, RemovalLogin, RemovalRequest, RemovalChange, RemovalAdmin DEF Next
<1>3. RemovalInv => RemovedStaysOut
  BY DEF RemovalInv, RemovedStaysOut, Out
<1> QED
  BY <1>1, <1>2, <1>3, TypeCorrect, PTL DEF Spec

-----------------------------------------------------------------------------
(* Logout. *)

\* The blacklist TTL, rounded to whole seconds, ends at most a quarter of a
\* second (the resolution of the clock) before the token it refuses.
LEMMA RoundingLoss ==
    ASSUME NEW left \in Int
    PROVE  left <= RemainingTTL(left) * Second + 1
BY DEF RemainingTTL, Second

LEMMA LogoutBlacklistStep ==
    ASSUME TypeOK, LogoutInv, NEW r \in Requests, LogoutBlacklist(r)
    PROVE  LogoutInv'
<1>1. UNCHANGED <<loggedOut, login, now>>
  BY DEF LogoutBlacklist
<1>2. req \in [Requests -> [pc : ReqState, user : Users, iat : Nat]]
  BY DEF TypeOK, ReqTyped
<1>3. PICK tok \in Token : tok = TokenOf(req[r])
  BY <1>2 DEF Token, TokenOf
<1>4. PICK ttl \in Int : ttl = RemainingTTL(JwtExp(tok) - now)
  BY DEF TypeOK, StoreTyped, JwtExp, RemainingTTL, Second, Token
<1>5. /\ \A q \in Requests : TokenOf(req'[q]) = TokenOf(req[q])
      /\ \A q \in Requests : q # r => req'[q] = req[q]
  BY <1>2 DEF LogoutBlacklist, ReqGoto, TokenOf
<1>6. CASE ttl > 0
  <2>1. PICK entry \in [token : Token, until : Int] :
           /\ entry.token = tok
           /\ entry.until = now + ttl * Second
           /\ blacklist' = {b \in blacklist : b.token # tok} \union {entry}
    <3>1. [token |-> tok, until |-> now + ttl * Second] \in [token : Token, until : Int]
      BY DEF TypeOK, StoreTyped, Second
    <3> QED
      BY <1>3, <1>4, <1>6, <3>1 DEF LogoutBlacklist
  <2>2. JwtExp(tok) <= entry.until + 1
    <3>1. JwtExp(tok) \in Int /\ now \in Int
      BY DEF JwtExp, Token, TypeOK, StoreTyped, Second
    <3> QED
      BY <1>4, <2>1, <3>1, RoundingLoss DEF Second
  <2>3. \A t : (\E b \in blacklist : b.token = t) => \E b \in blacklist' : b.token = t
    BY <2>1
  <2>4. \E b \in blacklist' : b.token = tok
    BY <2>1
  <2>5. \A b \in blacklist' : JwtExp(b.token) <= b.until + 1
    BY <2>1, <2>2 DEF LogoutInv
  <2>6. ASSUME NEW q \in Requests,
               req'[q].pc \in {"blacklisted", "delPv", "delToken", "delPerm"}
        PROVE  \E b \in blacklist' : b.token = TokenOf(req[q])
    BY <1>3, <1>5, <2>3, <2>4, <2>6 DEF LogoutInv, HasEntry
  <2> QED
    BY <1>1, <1>5, <2>3, <2>5, <2>6 DEF LogoutInv, HasEntry, JwtExp
<1>7. CASE ~(ttl > 0)
  <2>1. UNCHANGED blacklist /\ req' = [req EXCEPT ![r].pc = "failed"]
    BY <1>3, <1>4, <1>7 DEF LogoutBlacklist, ReqGoto
  <2> QED
    BY <1>1, <1>2, <1>5, <2>1 DEF LogoutInv, HasEntry, JwtExp
<1> QED
  BY <1>6, <1>7

LEMMA LogoutRequest ==
    ASSUME TypeOK, LogoutInv, NEW r \in Requests, Request(r)
    PROVE  LogoutInv'
<1> USE DEF TypeOK, ReqTyped, LogoutInv, HasEntry, ReqGoto, TokenOf, JwtExp
<1>1. ASSUME NEW l \in Logins, ReqBlacklist(r, l) PROVE LogoutInv'
  BY <1>1 DEF ReqBlacklist
<1>2. CASE ReqVerify(r)
  BY <1>2 DEF ReqVerify
<1>3. CASE ReqPV(r)
  BY <1>3 DEF ReqPV
<1>4. CASE ReqToken(r)
  BY <1>4 DEF ReqToken
<1>5. CASE LogoutBlacklist(r)
  BY <1>5, LogoutBlacklistStep
<1>6. CASE LogoutRemoveRow(r)
  BY <1>6 DEF LogoutRemoveRow
<1>7. CASE LogoutDelPV(r)
  BY <1>7 DEF LogoutDelPV
<1>8. CASE LogoutDelToken(r)
  BY <1>8 DEF LogoutDelToken
<1>9. CASE LogoutDelPerm(r)
  BY <1>9 DEF LogoutDelPerm
<1> QED
  BY <1>1, <1>2, <1>3, <1>4, <1>5, <1>6, <1>7, <1>8, <1>9 DEF Request

LEMMA LogoutInvariant == Spec => []LogoutInv
<1>1. Init => LogoutInv
  BY DEF Init, LogoutInv
<1>2. TypeOK /\ LogoutInv /\ [Next]_vars => LogoutInv'
  <2> SUFFICES ASSUME TypeOK, LogoutInv, [Next]_vars PROVE LogoutInv'
    OBVIOUS
  <2>1. ASSUME UNCHANGED <<blacklist, loggedOut, req>> PROVE LogoutInv'
    BY <2>1 DEF LogoutInv, HasEntry, JwtExp
  <2>2. UNCHANGED <<blacklist, loggedOut, req>> \/ \E r \in Requests : Request(r)
    BY TickFrame, CleanFrame, LoginFrame, ChangeFrame, AdminFrame DEF Next, vars
  <2> QED
    BY <2>1, <2>2, LogoutRequest
<1> QED
  BY <1>1, <1>2, TypeCorrect, PTL DEF Spec

(* A token whose logout succeeded is refused until half a second before it   *)
(* expires, whatever the fraction of a second the logout fell on.            *)
THEOREM Logout == Spec => []LoggedOutStaysOut
<1>1. TypeOK /\ LogoutInv => LoggedOutStaysOut
  <2> SUFFICES ASSUME TypeOK, LogoutInv, NEW tok \in loggedOut,
                      now + Second \div 2 <= JwtExp(tok)
               PROVE  Blacklisted(tok)
    BY DEF LoggedOutStaysOut
  <2>1. PICK b \in blacklist : b.token = tok
    BY DEF LogoutInv, HasEntry
  <2>2. b.until \in Nat /\ now \in Nat /\ tok \in Token
    BY DEF TypeOK, StoreTyped, HistoryTyped
  <2>3. JwtExp(tok) <= b.until + 1 /\ JwtExp(tok) \in Int
    <3>1. tok.iat \in Nat
      BY <2>2 DEF Token
    <3> QED
      BY <2>1, <3>1 DEF LogoutInv, JwtExp, Second
  <2>4. now + 2 <= JwtExp(tok)
    BY DEF Second
  <2> QED
    BY <2>1, <2>2, <2>3, <2>4 DEF Blacklisted
<1> QED
  BY <1>1, LogoutInvariant, TypeCorrect, PTL

-----------------------------------------------------------------------------
(* Refused tokens: what a step can do for a token that one of the guard's   *)
(* four conditions refuses.                                                  *)

\* A login that has returned its tokens takes no other step.
LEMMA IssuedStays ==
    ASSUME TypeOK, [Next]_vars, NEW l \in Logins, login[l].pc = "issued"
    PROVE  login'[l] = login[l]
<1> USE DEF TypeOK, LoginTyped
<1>1. ASSUME NEW k \in Logins, Login(k) PROVE login'[l] = login[l]
  <2>1. ASSUME NEW u \in Users, LoginCheck(k, u) PROVE login'[l] = login[l]
    BY <2>1 DEF LoginCheck
  <2>2. CASE LoginSign(k)
    BY <2>2 DEF LoginSign
  <2>3. CASE LoginSave(k)
    BY <2>3 DEF LoginSave, LoginGoto
  <2>4. CASE LoginSetToken(k)
    BY <2>4 DEF LoginSetToken, LoginGoto
  <2>5. CASE LoginSetPV(k)
    BY <2>5 DEF LoginSetPV, LoginGoto
  <2>6. CASE LoginSetPerms(k)
    BY <2>6 DEF LoginSetPerms, LoginGoto
  <2> QED
    BY <1>1, <2>1, <2>2, <2>3, <2>4, <2>5, <2>6 DEF Login
<1>2. UNCHANGED login \/ \E k \in Logins : Login(k)
  BY TickFrame, CleanFrame, RequestFrame, ChangeFrame, AdminFrame DEF Next, vars
<1> QED
  BY <1>1, <1>2

\* Nothing but a login makes the password version of a user 1.
LEMMA VersionBack ==
    ASSUME TypeOK, [Next]_vars, NEW u \in Users, pv[u] # 1, pv'[u] = 1
    PROVE  LoginWrites(u)
<1>1. pv \in [Users -> Nat]
  BY DEF TypeOK, StoreTyped
<1>2. ASSUME NEW l \in Logins, Login(l) PROVE LoginWrites(u)
  <2>1. UNCHANGED pv \/ LoginSetPV(l)
    BY <1>2 DEF Login, LoginCheck, LoginSign, LoginSave, LoginSetToken, LoginSetPerms
  <2>2. CASE LoginSetPV(l)
    <3>1. login[l].user = u
      BY <1>1, <2>2 DEF LoginSetPV
    <3> QED
      BY <2>2, <3>1 DEF LoginWrites, LoginsOf
  <2> QED
    BY <2>1, <2>2
<1>3. ASSUME NEW r \in Requests, Request(r) PROVE FALSE
  <2>1. \/ UNCHANGED pv
        \/ pv' = [pv EXCEPT ![req[r].user] = 0]
    BY <1>3 DEF Request, ReqBlacklist, ReqVerify, ReqPV, ReqToken, LogoutBlacklist,
                LogoutRemoveRow, LogoutDelPV, LogoutDelToken, LogoutDelPerm, DelPV
  <2> QED
    BY <1>1, <2>1
<1>4. ASSUME NEW c \in Changes, Change(c) PROVE FALSE
  <2>1. UNCHANGED pv \/ ChangeSet(c)
    BY <1>4 DEF Change, ChangeWrite, ChangeGet
  <2>2. CASE ChangeSet(c)
    <3>1. change[c].v \in Nat /\ change[c].v >= 1
      BY <2>2 DEF ChangeSet, TypeOK, ChangeTyped
    <3>2. pv' = [pv EXCEPT ![change[c].user] = change[c].v + 1]
      BY <2>2 DEF ChangeSet, NextVersion
    <3>3. change[c].v + 1 # 1
      BY <3>1
    <3> QED
      BY <1>1, <3>2, <3>3
  <2> QED
    BY <2>1, <2>2
<1>5. ASSUME NEW a \in Admins, Admin(a) PROVE FALSE
  <2>1. \/ UNCHANGED pv
        \/ pv' = [pv EXCEPT ![admin[a].user] = 0]
    BY <1>5 DEF Admin, DeleteRow, UpdateBegin, AdminDelPV, AdminDelToken, AdminDelPerm,
                UpdateCommit, AdminFail, AdminRefresh, AdminRefreshSet, DelPV
  <2> QED
    BY <1>1, <2>1
<1>6. ~UNCHANGED pv
  OBVIOUS
<1> QED
  BY <1>2, <1>3, <1>4, <1>5, <1>6, TickFrame, CleanFrame DEF Next, vars

\* Nothing but a login of the user writes the token key; others may end it.
LEMMA KeyBack ==
    ASSUME TypeOK, [Next]_vars, NEW u \in Users, ~LoginWrites(u)
    PROVE  /\ tokenKey'[u].iat = tokenKey[u].iat
           /\ tokenKey'[u].until <= tokenKey[u].until
<1> DEFINE Kept == /\ tokenKey'[u].iat = tokenKey[u].iat
                   /\ tokenKey'[u].until <= tokenKey[u].until
<1>1. tokenKey \in [Users -> [iat : Nat, until : Nat]]
  BY DEF TypeOK, StoreTyped
<1>2. ASSUME UNCHANGED tokenKey PROVE Kept
  BY <1>1, <1>2
<1>3. ASSUME NEW w, tokenKey' = [tokenKey EXCEPT ![w].until = 0] PROVE Kept
  BY <1>1, <1>3
<1>4. ASSUME NEW l \in Logins, Login(l) PROVE Kept
  <2>1. UNCHANGED tokenKey \/ LoginSetToken(l)
    BY <1>4 DEF Login, LoginCheck, LoginSign, LoginSave, LoginSetPV, LoginSetPerms
  <2>2. CASE LoginSetToken(l)
    <3>1. login[l].user # u
      BY <2>2 DEF LoginWrites, LoginsOf
    <3>2. PICK k : tokenKey' = [tokenKey EXCEPT ![login[l].user] = k]
      BY <2>2 DEF LoginSetToken
    <3> QED
      BY <1>1, <3>1, <3>2
  <2> QED
    BY <1>2, <2>1, <2>2
<1>5. ASSUME NEW r \in Requests, Request(r) PROVE Kept
  <2>1. UNCHANGED tokenKey \/ tokenKey' = [tokenKey EXCEPT ![req[r].user].until = 0]
    BY <1>5 DEF Request, ReqBlacklist, ReqVerify, ReqPV, ReqToken, LogoutBlacklist,
                LogoutRemoveRow, LogoutDelPV, LogoutDelToken, LogoutDelPerm, DelToken
  <2> QED
    BY <1>2, <1>3, <2>1
<1>6. ASSUME NEW a \in Admins, Admin(a) PROVE Kept
  <2>1. UNCHANGED tokenKey \/ tokenKey' = [tokenKey EXCEPT ![admin[a].user].until = 0]
    BY <1>6 DEF Admin, DeleteRow, UpdateBegin, AdminDelPV, AdminDelToken, AdminDelPerm,
                UpdateCommit, AdminFail, AdminRefresh, AdminRefreshSet, DelToken
  <2> QED
    BY <1>2, <1>3, <2>1
<1>7. (\E l \in Logins : Login(l)) \/ (\E r \in Requests : Request(r))
         \/ (\E a \in Admins : Admin(a)) \/ UNCHANGED tokenKey
  BY TickFrame, CleanFrame, ChangeFrame DEF Next, vars
<1> QED
  BY <1>2, <1>4, <1>5, <1>6, <1>7

\* A second logout of a token renews its entry; only the clock ends one, in the
\* last half second of the token.
LEMMA BlacklistStays ==
    ASSUME TypeOK, LogoutInv, [Next]_vars, NEW tok \in Token, Blacklisted(tok),
           ~(now' + Second \div 2 > JwtExp(tok))
    PROVE  Blacklisted(tok)'
<1>1. PICK b \in blacklist : b.token = tok /\ now < b.until
  BY DEF Blacklisted
<1>2. b.until \in Nat /\ now \in Nat /\ JwtExp(tok) \in Int /\ Second \div 2 = 2
  BY DEF TypeOK, StoreTyped, JwtExp, Second, Token
<1>3. CASE UNCHANGED blacklist
  <2>1. JwtExp(tok) <= b.until + 1
    BY <1>1 DEF LogoutInv
  <2>2. now' \in Nat
    BY <1>2, LoginFrame, RequestFrame, ChangeFrame, AdminFrame, CleanFrame DEF Next, vars, Tick
  <2>3. now' < b.until
    BY <1>2, <2>1, <2>2
  <2> QED
    BY <1>1, <1>3, <2>3 DEF Blacklisted
<1>4. ASSUME NEW r \in Requests, LogoutBlacklist(r), ~UNCHANGED blacklist
      PROVE  Blacklisted(tok)'
  <2> DEFINE mine == TokenOf(req[r])
             ttl == RemainingTTL(JwtExp(mine) - now)
             entry == [token |-> mine, until |-> now + ttl * Second]
  <2>1. ttl > 0 /\ blacklist' = {c \in blacklist : c.token # mine} \union {entry}
    BY <1>4 DEF LogoutBlacklist
  <2>2. now' = now
    BY <1>4 DEF LogoutBlacklist
  <2>3. CASE mine # tok
    BY <1>1, <2>1, <2>2, <2>3 DEF Blacklisted
  <2>4. CASE mine = tok
    <3>1. ttl \in Int
      BY <1>2, <2>4 DEF RemainingTTL, Second
    <3>2. now < now + ttl * Second
      BY <1>2, <2>1, <3>1 DEF Second
    <3>3. entry \in blacklist' /\ entry.token = tok /\ now' < entry.until
      BY <2>1, <2>2, <2>4, <3>2
    <3> QED
      BY <3>3 DEF Blacklisted
  <2> QED
    BY <2>3, <2>4
<1>5. UNCHANGED blacklist \/ \E r \in Requests : Request(r)
  BY TickFrame, LoginFrame, ChangeFrame, AdminFrame, CleanFrame DEF Next, vars
<1>6. ASSUME NEW r \in Requests, Request(r)
      PROVE  UNCHANGED blacklist \/ LogoutBlacklist(r)
  BY <1>6 DEF Request, ReqBlacklist, ReqVerify, ReqPV, ReqToken, LogoutRemoveRow,
              LogoutDelPV, LogoutDelToken, LogoutDelPerm
<1> QED
  BY <1>3, <1>4, <1>5, <1>6

LEMMA ClockAdvances == TypeOK /\ [Next]_vars => now' \in Nat /\ now <= now'
BY LoginFrame, RequestFrame, ChangeFrame, AdminFrame, CleanFrame
   DEF Next, vars, Tick, TypeOK, StoreTyped

LEMMA RefusedStep ==
    ASSUME TypeOK, LogoutInv, [Next]_vars, NEW l \in Logins, login[l].pc = "issued",
           ~Acceptable(TokenOf(login[l])), Acceptable(TokenOf(login[l]))'
    PROVE  \/ LoginWrites(login[l].user)
           \/ now' + Second \div 2 > JwtExp(TokenOf(login[l]))
<1> SUFFICES ASSUME ~LoginWrites(login[l].user),
                    ~(now' + Second \div 2 > JwtExp(TokenOf(login[l])))
             PROVE  FALSE
  OBVIOUS
<1>1. PICK tok \in Token : tok = TokenOf(login[l])
  BY DEF TypeOK, LoginTyped, Token, TokenOf
<1>2. tok.user = login[l].user /\ tok.user \in Users /\ tok.iat \in Nat
  BY <1>1 DEF Token, TokenOf
<1>3. TokenOf(login'[l]) = tok
  BY <1>1, IssuedStays
<1>4. ~Blacklisted(tok)' /\ JwtAlive(tok)' /\ pv'[tok.user] = 1
  BY <1>3 DEF Acceptable
<1>5. ~Blacklisted(tok)
  BY <1>1, <1>4, BlacklistStays
<1>6. JwtAlive(tok)
  <2>1. JwtExp(tok) \in Int
    BY <1>2 DEF JwtExp, Second
  <2>2. now' < JwtExp(tok) /\ now \in Nat
    BY <1>4 DEF JwtAlive, JwtExp, TypeOK, StoreTyped
  <2> QED
    BY <2>1, <2>2, ClockAdvances DEF JwtAlive
<1>7. pv[tok.user] = 1
  BY <1>2, <1>4, VersionBack
<1>8. ~MultiDevice /\ ~(TokenKeyLive(tok.user) /\ tokenKey[tok.user].iat = tok.iat)
  BY <1>1, <1>5, <1>6, <1>7 DEF Acceptable
<1>9. now' < tokenKey'[tok.user].until /\ tokenKey'[tok.user].iat = tok.iat
  BY <1>3, <1>8 DEF Acceptable, TokenKeyLive
<1>10. now < tokenKey[tok.user].until /\ tokenKey[tok.user].iat = tok.iat
  <2>1. tokenKey[tok.user].until \in Nat /\ tokenKey'[tok.user].until \in Nat /\ now \in Nat
    BY <1>2, TypeOKStep DEF TypeOK, StoreTyped
  <2> QED
    BY <1>2, <1>9, <2>1, KeyBack, ClockAdvances
<1> QED
  BY <1>8, <1>10 DEF TokenKeyLive

(* A refused token comes back only by a step of a login of its user or in    *)
(* its last half second: for any calls, both device modes and any clock.     *)
THEOREM RefusedStaysRefused == Spec => RefusedUntilLogin
<1>1. TypeOK /\ LogoutInv /\ [Next]_vars =>
        [\A l \in Logins :
          LET tok == TokenOf(login[l])
          IN  login[l].pc = "issued" /\ ~Acceptable(tok) /\ Acceptable(tok)' =>
                  \/ LoginWrites(tok.user)
                  \/ now' + Second \div 2 > JwtExp(tok)]_vars
  BY RefusedStep DEF TokenOf
<1> QED
  BY <1>1, LogoutInvariant, TypeCorrect, PTL DEF Spec, RefusedUntilLogin

-----------------------------------------------------------------------------
(* Fresh sessions. *)

LEMMA MintStep == TypeOK /\ MintInv /\ [Next]_vars => MintInv'
<1> SUFFICES ASSUME TypeOK, MintInv, [Next]_vars PROVE MintInv'
  OBVIOUS
<1> USE DEF TypeOK, StoreTyped, LoginTyped, MintInv
<1>0. ASSUME UNCHANGED <<now, login>>,
             \A l \in Logins : rowUntil'[l] \in {0, rowUntil[l]}
      PROVE  MintInv'
  BY <1>0 DEF JwtExp, TokenOf
<1>1. CASE Tick
  BY <1>1, TickFrame DEF Tick, JwtExp, TokenOf, Second
<1>2. ASSUME NEW l \in Logins, Login(l) PROVE MintInv'
  <2> USE DEF LoginGoto, JwtExp, TokenOf
  <2>1. ASSUME NEW u \in Users, LoginCheck(l, u) PROVE MintInv'
    BY <2>1 DEF LoginCheck
  <2>2. CASE LoginSign(l)
    <3>1. (now \div Second) * Second <= now /\ now \div Second \in Nat
      BY DEF Second
    <3> QED
      BY <2>2, <3>1 DEF LoginSign
  <2>3. CASE LoginSave(l)
    <3>1. login[l].iat * Second <= now
      BY <2>3 DEF LoginSave
    <3>2. (login[l].iat + JwtExpire) * Second <= now + JwtExpire * Second
      BY <3>1 DEF Second
    <3> QED
      BY <2>3, <3>2 DEF LoginSave
  <2>4. CASE LoginSetToken(l)
    BY <2>4 DEF LoginSetToken
  <2>5. CASE LoginSetPV(l)
    BY <2>5 DEF LoginSetPV
  <2>6. CASE LoginSetPerms(l)
    BY <2>6 DEF LoginSetPerms
  <2> QED
    BY <1>2, <2>1, <2>2, <2>3, <2>4, <2>5, <2>6 DEF Login
<1>3. ASSUME NEW r \in Requests, Request(r) PROVE MintInv'
  <2>1. \A l \in Logins : rowUntil'[l] \in {0, rowUntil[l]}
    <3>1. CASE LogoutRemoveRow(r)
      BY <3>1 DEF LogoutRemoveRow, RowsOf
    <3>2. CASE ~LogoutRemoveRow(r)
      BY <1>3, <3>2 DEF Request, ReqBlacklist, ReqVerify, ReqPV, ReqToken, LogoutBlacklist,
                  LogoutDelPV, LogoutDelToken, LogoutDelPerm
    <3> QED
      BY <3>1, <3>2
  <2> QED
    BY <1>0, <1>3, <2>1, RequestFrame
<1>4. ASSUME NEW c \in Changes, Change(c) PROVE MintInv'
  BY <1>0, <1>4, ChangeFrame
<1>5. ASSUME NEW a \in Admins, Admin(a) PROVE MintInv'
  <2>1. \A l \in Logins : rowUntil'[l] \in {0, rowUntil[l]}
    BY <1>5 DEF Admin, DeleteRow, UpdateBegin, AdminDelPV, AdminDelToken, AdminDelPerm,
                UpdateCommit, AdminFail, AdminRefresh, AdminRefreshSet
  <2> QED
    BY <1>0, <1>5, <2>1, AdminFrame
<1>6. CASE CleanExpiredRows
  BY <1>0, <1>6, CleanFrame DEF CleanExpiredRows
<1>7. CASE UNCHANGED vars
  BY <1>0, <1>7 DEF vars
<1> QED
  BY <1>1, <1>2, <1>3, <1>4, <1>5, <1>6, <1>7 DEF Next

LEMMA FreshLogin ==
    ASSUME TypeOK, MintInv, FreshInv, NEW k \in Logins, Login(k)
    PROVE  FreshInv'
<1> USE DEF TypeOK, StoreTyped, LoginTyped, LoginGoto, FreshInv, FreshAt, Blacklisted,
            JwtAlive, JwtExp, TokenOf
<1>0. fresh \subseteq Logins
  BY DEF HistoryTyped
<1>1. ASSUME NEW u \in Users, LoginCheck(k, u) PROVE FreshInv'
  BY <1>0, <1>1 DEF LoginCheck
<1>2. CASE LoginSign(k)
  BY <1>0, <1>2 DEF LoginSign
<1>3. CASE LoginSave(k)
  BY <1>0, <1>3 DEF LoginSave
<1>4. CASE LoginSetToken(k)
  <2> DEFINE u == login[k].user
  <2>1. /\ tokenKey' = [tokenKey EXCEPT ![u] = [iat |-> login[k].iat, until |-> now + TokenTTL]]
        /\ login' = [login EXCEPT ![k].pc = "tokenSet"]
        /\ UNCHANGED <<now, rowUntil, pv, permKey, blacklist>>
        /\ k \notin fresh /\ login[k].pc = "saved"
    BY <1>4 DEF LoginSetToken
  <2>2. \A l \in Logins : login[l].pc \notin {"idle", "checked"} =>
                            (login[l].iat + JwtExpire) * Second <= now + TokenTTL
    BY DEF MintInv, TokenTTL, Second
  <2>3. ASSUME NEW l \in fresh, l \in fresh' PROVE FreshAt(l)'
    <3>1. l # k /\ l \in Logins
      BY <1>0, <2>1
    <3>2. login'[l] = login[l] /\ login[l].user \in Users
      BY <2>1, <3>1
    <3>3. CASE login[l].user # u
      BY <2>1, <2>3, <3>2, <3>3
    <3>4. CASE login[l].user = u
      <4>1. tokenKey'[u] = [iat |-> login[k].iat, until |-> now + TokenTTL]
        BY <2>1
      <4>2. (login[l].iat + JwtExpire) * Second <= now + TokenTTL
        BY <2>2, <2>3, <3>1
      <4>3. ~MultiDevice => login[l].iat = login[k].iat
        BY <1>4, <2>1, <2>3, <3>1, <3>4 DEF LoginSetToken, LoginsOf, SameToken
      <4> QED
        BY <2>1, <2>3, <3>2, <3>4, <4>1, <4>2, <4>3
    <3> QED
      BY <3>3, <3>4
  <2>4. ASSUME k \in fresh' PROVE FreshAt(k)'
    <3>1. ~Spoilt(k)
      BY <1>4, <2>1, <2>4 DEF LoginSetToken
    <3>2. rowUntil[k] > 0
      BY <3>1 DEF Spoilt
    <3>3. ~Blacklisted(TokenOf(login[k]))
      BY <3>1 DEF Spoilt
    <3>4. (login[k].iat + JwtExpire) * Second <= now + TokenTTL
      BY <2>1, <2>2
    <3>5. /\ login'[k].pc = "tokenSet" /\ login'[k].user = u /\ login'[k].iat = login[k].iat
          /\ tokenKey'[u].iat = login[k].iat /\ tokenKey'[u].until = now + TokenTTL
      BY <2>1
    <3> QED
      BY <2>1, <3>2, <3>3, <3>4, <3>5
  <2>5. fresh' \subseteq fresh \union {k}
    BY <1>4 DEF LoginSetToken
  <2> QED
    BY <2>3, <2>4, <2>5
<1>5. CASE LoginSetPV(k)
  BY <1>0, <1>5 DEF LoginSetPV
<1>6. CASE LoginSetPerms(k)
  BY <1>0, <1>6 DEF LoginSetPerms
<1> QED
  BY <1>1, <1>2, <1>3, <1>4, <1>5, <1>6 DEF Login

\* What ends a session leaves fresh as it does so.
LEMMA FreshRequest ==
    ASSUME TypeOK, FreshInv, NEW r \in Requests, Request(r)
    PROVE  FreshInv'
<1> USE DEF TypeOK, StoreTyped, LoginTyped, FreshInv, FreshAt, Blacklisted, JwtAlive, JwtExp
<1>0. /\ UNCHANGED <<now, login>>
      /\ \A l \in fresh : l \in Logins /\ login[l].user \in Users
  BY RequestFrame DEF HistoryTyped
<1>1. ASSUME UNCHANGED <<tokenKey, pv, permKey, blacklist, rowUntil, fresh>> PROVE FreshInv'
  BY <1>0, <1>1
<1>2. CASE LogoutBlacklist(r)
  <2>1. UNCHANGED <<tokenKey, pv, permKey, rowUntil>> /\ fresh' \subseteq fresh
    BY <1>2 DEF LogoutBlacklist, Disturb
  <2>2. ASSUME NEW l \in fresh', NEW b \in blacklist', b.token = TokenOf(login[l])
        PROVE  b \in blacklist
    <3>1. l \in Logins
      BY <1>0, <2>1
    <3>2. CASE UNCHANGED blacklist
      BY <3>2
    <3>3. CASE ~UNCHANGED blacklist
      <4>1. TokenOf(login[l]) # TokenOf(req[r])
        BY <1>2, <3>1, <3>3 DEF LogoutBlacklist, Disturb
      <4>2. PICK n : blacklist' = {e \in blacklist : e.token # TokenOf(req[r])}
                                 \union {[token |-> TokenOf(req[r]), until |-> n]}
        BY <1>2, <3>3 DEF LogoutBlacklist
      <4> QED
        BY <2>2, <4>1, <4>2
    <3> QED
      BY <3>2, <3>3
  <2>3. \A l \in fresh' : TokenOf(login'[l]) = TokenOf(login[l])
    BY <1>0
  <2> QED
    BY <1>0, <2>1, <2>2, <2>3
<1>3. CASE LogoutRemoveRow(r)
  BY <1>0, <1>3 DEF LogoutRemoveRow, RowsOf, Disturb
<1>4. CASE LogoutDelPV(r)
  BY <1>0, <1>4 DEF LogoutDelPV, DelPV, Disturb, LoginsOf
<1>5. CASE LogoutDelToken(r)
  BY <1>0, <1>5 DEF LogoutDelToken, DelToken, Disturb, LoginsOf
<1>6. CASE LogoutDelPerm(r)
  BY <1>0, <1>6 DEF LogoutDelPerm, DelPerm, Disturb, LoginsOf
<1> QED
  BY <1>1, <1>2, <1>3, <1>4, <1>5, <1>6
     DEF Request, ReqBlacklist, ReqVerify, ReqPV, ReqToken

LEMMA FreshChange ==
    ASSUME TypeOK, FreshInv, NEW c \in Changes, Change(c)
    PROVE  FreshInv'
<1> USE DEF TypeOK, StoreTyped, LoginTyped, FreshInv, FreshAt, Blacklisted, JwtAlive, JwtExp
<1>0. /\ UNCHANGED <<now, login, tokenKey, permKey, blacklist, rowUntil>>
      /\ \A l \in fresh : l \in Logins /\ login[l].user \in Users
  BY ChangeFrame DEF HistoryTyped
<1>1. CASE ChangeSet(c)
  BY <1>0, <1>1 DEF ChangeSet, Disturb, LoginsOf
<1>2. CASE ~ChangeSet(c)
  BY <1>0, <1>2 DEF Change, ChangeWrite, ChangeGet
<1> QED
  BY <1>1, <1>2

LEMMA FreshAdmin ==
    ASSUME TypeOK, FreshInv, NEW a \in Admins, Admin(a)
    PROVE  FreshInv'
<1> USE DEF TypeOK, StoreTyped, LoginTyped, FreshInv, FreshAt, Blacklisted, JwtAlive, JwtExp
<1>0. /\ UNCHANGED <<now, login, blacklist>>
      /\ \A l \in fresh : l \in Logins /\ login[l].user \in Users
  BY AdminFrame DEF HistoryTyped
<1>1. ASSUME UNCHANGED <<tokenKey, pv, rowUntil, fresh>>, permKey \subseteq permKey'
      PROVE  FreshInv'
  BY <1>0, <1>1
<1>2. ASSUME NEW u \in Users, DeleteRow(a, u) PROVE FreshInv'
  BY <1>0, <1>2 DEF DeleteRow, Disturb, LoginsOf
<1>3. CASE AdminDelPV(a)
  BY <1>0, <1>3 DEF AdminDelPV, DelPV, Disturb, LoginsOf
<1>4. CASE AdminDelToken(a)
  BY <1>0, <1>4 DEF AdminDelToken, DelToken, Disturb, LoginsOf
<1>5. CASE AdminDelPerm(a)
  BY <1>0, <1>5 DEF AdminDelPerm, DelPerm, Disturb, LoginsOf
<1>6. CASE UpdateCommit(a) \/ AdminFail(a) \/ AdminRefresh(a) \/ AdminRefreshSet(a)
  BY <1>1, <1>6 DEF UpdateCommit, AdminFail, AdminRefresh, AdminRefreshSet
<1>7. ASSUME NEW u \in Users, NEW k \in AdminKinds, UpdateBegin(a, u, k) PROVE FreshInv'
  BY <1>1, <1>7 DEF UpdateBegin
<1> QED
  BY <1>2, <1>3, <1>4, <1>5, <1>6, <1>7 DEF Admin

(* A login nothing disturbed is usable until its JWT expires: accepted,      *)
(* with cached permissions, online, and with its row.                        *)
THEOREM FreshSessions == Spec => []FreshSessionUsable
<1>1. Init => MintInv /\ FreshInv
  BY DEF Init, MintInv, FreshInv
<1>2. TypeOK /\ MintInv /\ FreshInv /\ [Next]_vars => FreshInv'
  <2> SUFFICES ASSUME TypeOK, MintInv, FreshInv, [Next]_vars PROVE FreshInv'
    OBVIOUS
  <2> USE DEF FreshInv, FreshAt, Blacklisted, JwtAlive, JwtExp
  <2>1. CASE Tick
    <3>1. \A l \in fresh : JwtExp(TokenOf(login[l])) \in Int
      BY DEF TypeOK, HistoryTyped, LoginTyped, TokenOf, Second
    <3>2. now' = now + 1 /\ now \in Nat /\ blacklist \subseteq [token : Token, until : Nat]
      BY <2>1 DEF Tick, TypeOK, StoreTyped
    <3> QED
      BY <2>1, <3>1, <3>2, TickFrame DEF TokenOf
  <2>2. CASE CleanExpiredRows
    <3>1. \A l \in fresh :
              /\ l \in Logins
              /\ JwtExp(TokenOf(login[l])) <= rowUntil[l] \/ rowUntil[l] = 0
      BY DEF MintInv, TypeOK, HistoryTyped
    <3> QED
      BY <2>2, <3>1, CleanFrame DEF CleanExpiredRows, ExpiredRows, TypeOK, StoreTyped,
                                    HistoryTyped, LoginTyped, TokenOf, Second
  <2>3. CASE UNCHANGED vars
    BY <2>3 DEF vars
  <2> QED
    BY <2>1, <2>2, <2>3, FreshLogin, FreshRequest, FreshChange, FreshAdmin DEF Next
<1>3. TypeOK /\ FreshInv => FreshSessionUsable
  <2> SUFFICES ASSUME TypeOK, FreshInv, NEW l \in fresh, login[l].pc = "issued",
                      JwtAlive(TokenOf(login[l]))
               PROVE  /\ Acceptable(TokenOf(login[l])) /\ login[l].user \in permKey
                      /\ TokenKeyLive(login[l].user) /\ rowUntil[l] > 0
    BY DEF FreshSessionUsable, TokenOf
  <2>1. /\ l \in Logins /\ login[l].user \in Users /\ login[l].iat \in Nat
        /\ now \in Nat /\ tokenKey[login[l].user].until \in Nat
    BY DEF TypeOK, HistoryTyped, LoginTyped, StoreTyped
  <2>2. now < tokenKey[login[l].user].until
    <3>1. JwtExp(TokenOf(login[l])) \in Int
      BY <2>1 DEF JwtExp, TokenOf, Second
    <3> QED
      BY <2>1, <3>1 DEF FreshInv, FreshAt, JwtAlive
  <2> QED
    BY <2>1, <2>2 DEF FreshInv, FreshAt, Acceptable, TokenKeyLive, TokenOf
<1> QED
  BY <1>1, <1>2, <1>3, MintStep, TypeCorrect, PTL DEF Spec

=============================================================================
