----------------------------- MODULE RbacProofs -----------------------------
(***************************************************************************)
(* Proofs about Rbac, for any users, roles, menus and any number of admin  *)
(* calls under way at once.                                                *)
(***************************************************************************)
EXTENDS Rbac, TLAPS

USE RbacAssumption DEF grants

-----------------------------------------------------------------------------
(* Types.  save() may insert a role again, so its id has to be one that was  *)
(* handed out.                                                               *)

RoleIdKnown == \A h \in Handlers : op[h].pc = "save" => op[h].id \in usedIds

TypeInv == TypeOK /\ RoleIdKnown

LEMMA PermsAreMenus ==
    ASSUME TypeOK, NEW ids
    PROVE  PermsOf(ids) \in SUBSET Menus
BY DEF PermsOf, TypeOK

LEMMA TypeInit == Init => TypeInv
<1> SUFFICES ASSUME Init PROVE TypeInv
  OBVIOUS
<1>1. NoFetch \in FetchState /\ NoOp \in OpState /\ NoOp.pc = "idle"
  BY DEF NoFetch, FetchState, NoOp, OpState
<1>2. op \in [Handlers -> OpState] /\ fetch \in [Callers -> [Users -> FetchState]]
  BY <1>1 DEF Init
<1>3. RoleIdKnown
  BY <1>1 DEF Init, RoleIdKnown
<1>4. /\ cache \in [Users -> SUBSET SUBSET Menus]
      /\ roleMenus \in [Roles -> SUBSET menus] /\ userRoles \in [Users -> SUBSET roles]
  BY DEF Init
<1> QED
  BY <1>2, <1>3, <1>4 DEF Init, TypeInv, TypeOK

(* A step of a fetch touches the record g of its caller and user, and the    *)
(* cache of the user: it goes on, it ends for a user who is not online, or   *)
(* it ends with the write.                                                   *)

FetchGoesOn(g) == g.pc # "none" /\ UNCHANGED <<cache, overtaken>>
FetchDropped(u, g) == g.pc = "none" /\ u \notin online /\ UNCHANGED <<cache, overtaken>>
FetchWrites(u, g, perms) ==
    /\ g.pc = "none"
    /\ cache' = [cache EXCEPT ![u] = {perms}]
    /\ overtaken' = IF perms = Permissions(u) THEN overtaken \ {u} ELSE overtaken \union {u}

LEMMA FetchEffect ==
    ASSUME TypeOK, NEW c \in Callers, NEW u \in Users, Fetch(c, u)
    PROVE  /\ UNCHANGED <<grants, online, leaving, op>>
           /\ \E g \in FetchState :
                /\ fetch' = [fetch EXCEPT ![c][u] = g]
                /\ \/ FetchGoesOn(g)
                   \/ FetchDropped(u, g)
                   \/ \E perms \in SUBSET Menus : FetchWrites(u, g, perms)
<1>1. NoFetch \in FetchState /\ NoFetch.pc = "none"
  BY DEF NoFetch, FetchState
<1>2. fetch[c][u] \in FetchState /\ fetch[c] \in [Users -> FetchState]
  BY DEF TypeOK
<1>3. CASE FetchRoles(c, u)
  <2> DEFINE g == [fetch[c][u] EXCEPT !.pc = IF userRoles[u] = {} THEN EmptyWritten ELSE "menus",
                                      !.ids = userRoles[u]]
  <2>1. userRoles[u] \in SUBSET Roles
    BY DEF TypeOK
  <2>2. g \in FetchState /\ g.pc # "none"
    BY <1>2, <2>1 DEF FetchState, EmptyWritten
  <2>3. fetch' = [fetch EXCEPT ![c][u] = g]
    BY <1>3, <1>2 DEF FetchRoles, TypeOK
  <2> QED
    BY <1>3, <2>2, <2>3 DEF FetchRoles, FetchGoesOn
<1>4. CASE FetchMenus(c, u)
  <2> DEFINE perms == PermsOf(fetch[c][u].ids)
             g == [fetch[c][u] EXCEPT !.pc = "check", !.perms = perms]
  <2>1. perms \in SUBSET Menus
    BY PermsAreMenus
  <2>2. g \in FetchState /\ g.pc # "none"
    BY <1>2, <2>1 DEF FetchState
  <2>3. fetch' = [fetch EXCEPT ![c][u] = g]
    BY <1>4, <1>2 DEF FetchMenus, TypeOK
  <2> QED
    BY <1>4, <2>2, <2>3 DEF FetchMenus, FetchGoesOn
<1>5. CASE FetchCheck(c, u)
  <2> DEFINE g == [fetch[c][u] EXCEPT !.pc = "write"]
  <2>1. g \in FetchState /\ g.pc # "none"
    BY <1>2 DEF FetchState
  <2>2. CASE RechecksOnline(c) /\ u \notin online
    BY <1>1, <1>5, <2>2 DEF FetchCheck, FetchDropped
  <2>3. CASE ~(RechecksOnline(c) /\ u \notin online)
    <3>1. fetch' = [fetch EXCEPT ![c][u] = g]
      BY <1>2, <1>5, <2>3 DEF FetchCheck, TypeOK
    <3> QED
      BY <1>5, <2>1, <3>1 DEF FetchCheck, FetchGoesOn
  <2> QED
    BY <2>2, <2>3
<1>6. CASE FetchWrite(c, u)
  <2>1. fetch[c][u].perms \in SUBSET Menus
    BY <1>2 DEF FetchState
  <2> QED
    BY <1>1, <1>6, <2>1 DEF FetchWrite, FetchWrites
<1> QED
  BY <1>3, <1>4, <1>5, <1>6 DEF Fetch

LEMMA FetchTyped ==
    ASSUME TypeInv, NEW c \in Callers, NEW u \in Users, Fetch(c, u)
    PROVE  TypeInv'
<1> USE DEF TypeInv
<1>1. PICK g \in FetchState :
        /\ fetch' = [fetch EXCEPT ![c][u] = g]
        /\ \/ FetchGoesOn(g)
           \/ FetchDropped(u, g)
           \/ \E perms \in SUBSET Menus : FetchWrites(u, g, perms)
  BY FetchEffect
<1>2. fetch' \in [Callers -> [Users -> FetchState]]
  BY <1>1 DEF TypeOK
<1>3. cache' \in [Users -> SUBSET SUBSET Menus] /\ overtaken' \subseteq Users
  <2>1. CASE UNCHANGED <<cache, overtaken>>
    BY <2>1 DEF TypeOK
  <2>2. ASSUME NEW perms \in SUBSET Menus, FetchWrites(u, g, perms)
        PROVE  cache' \in [Users -> SUBSET SUBSET Menus] /\ overtaken' \subseteq Users
    <3>1. {perms} \in SUBSET SUBSET Menus
      OBVIOUS
    <3> QED
      BY <2>2, <3>1 DEF FetchWrites, TypeOK
  <2> QED
    BY <1>1, <2>1, <2>2 DEF FetchGoesOn, FetchDropped
<1>4. UNCHANGED <<grants, online, leaving, op>>
  BY FetchEffect
<1> QED
  BY <1>2, <1>3, <1>4 DEF TypeOK, RoleIdKnown

LEMMA UserTyped ==
    ASSUME TypeInv, NEW u \in Users, LoginKey(u) \/ ForbidToken(u) \/ ForbidPerm(u)
    PROVE  TypeInv'
<1> USE DEF TypeInv
<1>1. StartFetch \in FetchState
  BY DEF NoFetch, StartFetch, FetchState
<1>2. CASE LoginKey(u)
  BY <1>1, <1>2 DEF LoginKey, TypeOK, RoleIdKnown, Callers
<1>3. CASE ForbidToken(u)
  BY <1>3 DEF ForbidToken, TypeOK, RoleIdKnown
<1>4. CASE ForbidPerm(u)
  BY <1>4 DEF ForbidPerm, TypeOK, RoleIdKnown
<1> QED
  BY <1>2, <1>3, <1>4

(* OpGoto moves one call on and leaves what it carries.                      *)

LEMMA OpRecord ==
    ASSUME TypeOK, NEW h \in Handlers,
           NEW pc \in {"scan", "refreshOne", "refreshAll", "done"}, OpGoto(h, pc)
    PROVE  /\ op' \in [Handlers -> OpState]
           /\ op'[h].pc = pc
           /\ \A g \in Handlers \ {h} : op'[g] = op[g]
<1> DEFINE o == [op[h] EXCEPT !.pc = pc]
<1>1. op[h] \in OpState
  BY DEF TypeOK
<1>2. o \in OpState /\ o.pc = pc
  BY <1>1 DEF OpState
<1>3. op' = [op EXCEPT ![h] = o]
  BY DEF OpGoto, TypeOK
<1> QED
  BY <1>2, <1>3 DEF TypeOK

LEMMA HandleTyped ==
    ASSUME TypeInv, NEW h \in Handlers, Handle(h)
    PROVE  TypeInv'
<1> USE DEF TypeInv
<1>1. StartFetch \in FetchState /\ NoFetch \in FetchState
  BY DEF NoFetch, StartFetch, FetchState
<1>2. ASSUME NEW u \in Users, NEW R \in SUBSET roles, UserUpdate(h, u, R) PROVE TypeInv'
  <2>1. op' \in [Handlers -> OpState] /\ RoleIdKnown'
    BY <1>2, OpRecord DEF UserUpdate, RoleIdKnown
  <2>2. h \in Callers /\ fetch' \in [Callers -> [Users -> FetchState]]
    BY <1>1, <1>2 DEF UserUpdate, TypeOK, Callers
  <2>3. userRoles' \in [Users -> SUBSET roles']
    BY <1>2 DEF UserUpdate, TypeOK
  <2> QED
    BY <1>2, <2>1, <2>2, <2>3 DEF UserUpdate, TypeOK
<1>3. ASSUME NEW r \in Roles, NEW M \in SUBSET Menus, RoleCreate(h, r, M) PROVE TypeInv'
  BY <1>3 DEF RoleCreate, OpGoto, TypeOK, OpState, RoleIdKnown
<1>4. ASSUME NEW r \in Roles, NEW M \in SUBSET Menus, RoleFind(h, r, M) PROVE TypeInv'
  BY <1>4 DEF RoleFind, TypeOK, OpState, RoleIdKnown
<1>5. ASSUME NEW r \in roles, RoleCheck(h, r) PROVE TypeInv'
  BY <1>5 DEF RoleCheck, TypeOK, OpState, RoleIdKnown, NoOp
<1>6. ASSUME NEW m \in Menus, MenuWrite(h, m, TRUE) \/ MenuWrite(h, m, FALSE) PROVE TypeInv'
  <2>1. OpGoto(h, "scan") /\ granting' \subseteq menus
    BY <1>6 DEF MenuWrite, AfterChange, TypeOK
  <2> QED
    BY <1>6, <2>1, OpRecord DEF MenuWrite, TypeOK, RoleIdKnown
<1>7. ASSUME NEW m \in menus, MenuCheck(h, m) PROVE TypeInv'
  BY <1>7 DEF MenuCheck, TypeOK, OpState, RoleIdKnown, NoOp
<1>8. CASE RoleSave(h)
  <2>1. PICK pc \in {"scan", "done"} : OpGoto(h, pc)
    BY <1>8 DEF RoleSave
  <2>3. op' \in [Handlers -> OpState] /\ RoleIdKnown'
    BY <1>8, <2>1, OpRecord DEF RoleSave, RoleIdKnown
  <2>2. roleMenus' \in [Roles -> SUBSET menus] /\ roles \subseteq roles' /\ roles' \subseteq usedIds
    BY <1>8 DEF RoleSave, AllExist, TypeOK, RoleIdKnown
  <2> QED
    BY <1>8, <2>2, <2>3 DEF RoleSave, TypeOK
<1>9. CASE RoleDelete(h)
  <2>1. OpGoto(h, "scan")
    BY <1>9 DEF RoleDelete, AfterChange
  <2>2. op' \in [Handlers -> OpState] /\ RoleIdKnown'
    BY <1>9, <2>1, OpRecord DEF RoleDelete, RoleIdKnown
  <2>3. /\ roles' \subseteq usedIds /\ userRoles' \in [Users -> SUBSET roles']
        /\ roleMenus' \in [Roles -> SUBSET menus]
    BY <1>9 DEF RoleDelete, TypeOK
  <2> QED
    BY <1>9, <2>2, <2>3 DEF RoleDelete, TypeOK
<1>10. CASE MenuDelete(h)
  <2>0. OpGoto(h, "scan")
    BY <1>10 DEF MenuDelete, AfterChange
  <2>1. op' \in [Handlers -> OpState] /\ RoleIdKnown'
    BY <1>10, <2>0, OpRecord DEF MenuDelete, RoleIdKnown
  <2>2. /\ roleMenus' \in [Roles -> SUBSET menus'] /\ granting' \subseteq menus'
        /\ menus' \subseteq Menus
    BY <1>10 DEF MenuDelete, TypeOK
  <2> QED
    BY <1>10, <2>1, <2>2 DEF MenuDelete, TypeOK
<1>11. CASE RefreshScan(h)
  <2>1. op' \in [Handlers -> OpState] /\ RoleIdKnown'
    BY <1>11, OpRecord DEF RefreshScan, grants, RoleIdKnown
  <2>2. h \in Callers /\ fetch' \in [Callers -> [Users -> FetchState]]
    BY <1>1, <1>11 DEF RefreshScan, TypeOK, Callers
  <2> QED
    BY <1>11, <2>1, <2>2 DEF RefreshScan, grants, TypeOK
<1>12. CASE RefreshEnd(h)
  <2>1. op' \in [Handlers -> OpState] /\ RoleIdKnown'
    BY <1>12, OpRecord DEF RefreshEnd, grants, RoleIdKnown
  <2> QED
    BY <1>12, <2>1 DEF RefreshEnd, grants, TypeOK
<1> QED
  BY <1>2, <1>3, <1>4, <1>5, <1>6, <1>7, <1>8, <1>9, <1>10, <1>11, <1>12 DEF Handle

LEMMA TypeStep == TypeInv /\ [Next]_vars => TypeInv'
<1> SUFFICES ASSUME TypeInv, [Next]_vars PROVE TypeInv'
  OBVIOUS
<1>1. CASE UNCHANGED vars
  BY <1>1 DEF vars, TypeInv, TypeOK, RoleIdKnown
<1> QED
  BY <1>1, FetchTyped, UserTyped, HandleTyped DEF Next

(* TypeOK: whatever calls overlap, users have existing roles and roles       *)
(* existing menus (the foreign keys under user.service.ts, role.service.ts   *)
(* and menu.service.ts), and the cache holds sets of permissions.            *)
THEOREM TypeCorrect == Spec => []TypeOK
<1>1. TypeInv => TypeOK
  BY DEF TypeInv
<1> QED
  BY <1>1, TypeInit, TypeStep, PTL DEF Spec

-----------------------------------------------------------------------------
(* The cache.  Both properties are inductive: a change of the grants leaves  *)
(* its caller at the scan or fetching for the one user it concerns, so that  *)
(* nobody it concerns is settled, and what ends a fetch of an online user is *)
(* its write.                                                                *)

CacheInv == CacheFollowsGrants /\ OnlineHasPermissions

LEMMA SamePermissions ==
    ASSUME UNCHANGED <<granting, roleMenus, userRoles>>, NEW u
    PROVE  Permissions(u)' = Permissions(u)
BY DEF Permissions, PermsOf

(* A fetch or an admin call under way for u keeps it from being settled.     *)
LEMMA NotSettled ==
    ASSUME NEW u \in Users,
           \/ \E c \in Callers : fetch[c][u].pc # "none"
           \/ \E h \in Handlers : op[h].pc = "scan"
    PROVE  ~Settled(u)
BY DEF Settled, Callers

LEMMA FetchCache ==
    ASSUME TypeInv, CacheInv, NEW c \in Callers, NEW u \in Users, Fetch(c, u)
    PROVE  CacheInv'
<1> USE DEF CacheInv, CacheFollowsGrants, OnlineHasPermissions
<1>1. UNCHANGED <<grants, online, leaving, op>> /\ \A v \in Users : Permissions(v)' = Permissions(v)
  BY FetchEffect, SamePermissions DEF TypeInv
<1>2. PICK g \in FetchState :
        /\ fetch' = [fetch EXCEPT ![c][u] = g]
        /\ \/ FetchGoesOn(g)
           \/ FetchDropped(u, g)
           \/ \E perms \in SUBSET Menus : FetchWrites(u, g, perms)
  BY FetchEffect DEF TypeInv
<1>3. /\ fetch'[c][u] = g
      /\ \A d \in Callers, v \in Users : <<d, v>> # <<c, u>> => fetch'[d][v] = fetch[d][v]
  BY <1>2 DEF TypeInv, TypeOK
<1>4. ASSUME NEW v \in Users \ {u}
      PROVE  /\ cache'[v] = cache[v] /\ (v \in overtaken' <=> v \in overtaken)
             /\ (Settled(v)' <=> Settled(v)) /\ fetch'[LoginCall][v] = fetch[LoginCall][v]
  <2>1. cache'[v] = cache[v] /\ (v \in overtaken' <=> v \in overtaken)
    BY <1>2 DEF FetchGoesOn, FetchDropped, FetchWrites, TypeInv, TypeOK
  <2> QED
    BY <1>1, <1>3, <2>1 DEF Settled, Callers
<1>5. CASE FetchGoesOn(g)
  <2>1. ~Settled(u)'
    BY <1>3, <1>5 DEF FetchGoesOn, Settled, Callers
  <2>2. cache[u] = {} => fetch'[LoginCall][u].pc # "none" \/ fetch'[LoginCall][u] = fetch[LoginCall][u]
    BY <1>3, <1>5 DEF FetchGoesOn, Callers
  <2> QED
    BY <1>1, <1>4, <1>5, <2>1, <2>2 DEF FetchGoesOn, TypeInv, TypeOK
<1>6. CASE FetchDropped(u, g)
  BY <1>1, <1>4, <1>6 DEF FetchDropped, TypeInv, TypeOK
<1>7. ASSUME NEW perms \in SUBSET Menus, FetchWrites(u, g, perms) PROVE CacheInv'
  <2>1. cache'[u] = {perms} /\ (u \notin overtaken' => perms = Permissions(u))
    BY <1>7 DEF FetchWrites, TypeInv, TypeOK
  <2> QED
    BY <1>1, <1>4, <2>1 DEF TypeInv, TypeOK
<1> QED
  BY <1>2, <1>5, <1>6, <1>7

LEMMA UserCache ==
    ASSUME TypeInv, CacheInv, NEW u \in Users, LoginKey(u) \/ ForbidToken(u) \/ ForbidPerm(u)
    PROVE  CacheInv'
<1> USE DEF CacheInv, CacheFollowsGrants, OnlineHasPermissions
<1>1. UNCHANGED <<grants, op>> /\ \A v \in Users : Permissions(v)' = Permissions(v)
  BY SamePermissions DEF LoginKey, ForbidToken, ForbidPerm
<1>2. CASE LoginKey(u)
  <2>1. /\ fetch'[LoginCall][u] = StartFetch
        /\ \A d \in Callers, v \in Users : <<d, v>> # <<LoginCall, u>> => fetch'[d][v] = fetch[d][v]
    BY <1>2 DEF LoginKey, TypeInv, TypeOK, Callers
  <2>2. \A v \in Users \ {u} :
          (Settled(v)' <=> Settled(v)) /\ fetch'[LoginCall][v] = fetch[LoginCall][v]
    BY <1>1, <2>1 DEF Settled, Callers
  <2>3. ~Settled(u)' /\ fetch'[LoginCall][u].pc # "none"
    BY <2>1 DEF Settled, StartFetch, NoFetch
  <2> QED
    BY <1>1, <1>2, <2>2, <2>3 DEF LoginKey, TypeInv, TypeOK
<1>3. CASE ForbidToken(u)
  <2>1. \A v \in Users : Settled(v)' <=> Settled(v)
    BY <1>3 DEF ForbidToken, Settled
  <2> QED
    BY <1>1, <1>3, <2>1 DEF ForbidToken, TypeInv, TypeOK
<1>4. CASE ForbidPerm(u)
  <2>1. \A v \in Users : Settled(v)' <=> Settled(v)
    BY <1>4 DEF ForbidPerm, Settled
  <2> QED
    BY <1>1, <1>4, <2>1 DEF ForbidPerm, TypeInv, TypeOK
<1> QED
  BY <1>2, <1>3, <1>4

(* A call that changes grants leaves nobody settled, or only those whose     *)
(* grants it did not change.                                                 *)
LEMMA HandleCache ==
    ASSUME TypeInv, CacheInv, NEW h \in Handlers, Handle(h)
    PROVE  CacheInv'
<1> USE DEF CacheInv, CacheFollowsGrants, OnlineHasPermissions
<1>1. UNCHANGED <<online, cache, leaving, overtaken>>
  BY DEF Handle, UserUpdate, RoleCreate, RoleFind, RoleSave, RoleCheck, RoleDelete, MenuWrite,
         MenuCheck, MenuDelete, RefreshScan, RefreshEnd
<1>2. \A v \in Users : fetch'[LoginCall][v] = fetch[LoginCall][v]
  BY DEF Handle, UserUpdate, RoleCreate, RoleFind, RoleSave, RoleCheck, RoleDelete, MenuWrite,
         MenuCheck, MenuDelete, RefreshScan, RefreshEnd, TypeInv, TypeOK, Callers
<1>3. OnlineHasPermissions'
  BY <1>1, <1>2 DEF TypeInv, TypeOK
<1>4. ASSUME \A v \in online : Settled(v)' => Settled(v) /\ Permissions(v)' = Permissions(v)
      PROVE  CacheInv'
  BY <1>1, <1>3, <1>4
<1>5. ASSUME op'[h].pc = "scan" PROVE CacheInv'
  BY <1>3, <1>5 DEF Settled
<1>6. ASSUME NEW u \in Users, NEW R \in SUBSET roles, UserUpdate(h, u, R) PROVE CacheInv'
  <2>1. /\ fetch'[h][u] = StartFetch
        /\ \A d \in Callers, v \in Users : <<d, v>> # <<h, u>> => fetch'[d][v] = fetch[d][v]
    BY <1>6 DEF UserUpdate, TypeInv, TypeOK, Callers
  <2>2. ~Settled(u)'
    BY <2>1 DEF Settled, StartFetch, NoFetch
  <2>3. ASSUME NEW v \in Users \ {u}, Settled(v)'
        PROVE  Settled(v) /\ Permissions(v)' = Permissions(v)
    <3>1. op[h].pc # "scan" /\ \A g \in Handlers \ {h} : op'[g] = op[g]
      BY <1>6, OpRecord DEF UserUpdate, TypeInv
    <3>2. Settled(v)
      BY <2>1, <2>3, <3>1 DEF Settled, Callers
    <3>3. userRoles'[v] = userRoles[v] /\ UNCHANGED <<granting, roleMenus>>
      BY <1>6 DEF UserUpdate, TypeInv, TypeOK
    <3> QED
      BY <3>2, <3>3 DEF Permissions, PermsOf
  <2> QED
    BY <1>4, <2>2, <2>3 DEF TypeInv, TypeOK
<1>7. ASSUME NEW r \in Roles, NEW M \in SUBSET Menus, RoleCreate(h, r, M) PROVE CacheInv'
  <2>1. op[h].pc = "idle" /\ UNCHANGED fetch /\ \A g \in Handlers \ {h} : op'[g] = op[g]
    BY <1>7, OpRecord DEF RoleCreate, TypeInv
  <2>2. \A v \in Users : Settled(v)' => Settled(v)
    BY <2>1 DEF Settled
  <2>3. ASSUME NEW v \in Users PROVE Permissions(v)' = Permissions(v)
    <3>1. \A q \in userRoles[v] : roleMenus'[q] = roleMenus[q]
      BY <1>7 DEF RoleCreate, TypeInv, TypeOK
    <3>2. UNCHANGED <<granting, userRoles>>
      BY <1>7 DEF RoleCreate
    <3> QED
      <4> DEFINE R == userRoles[v]
      <4>1. {m \in granting : \E q \in R : m \in roleMenus'[q]}
              = {m \in granting : \E q \in R : m \in roleMenus[q]}
        BY <3>1
      <4> QED
        BY <3>2, <4>1 DEF Permissions, PermsOf
  <2> QED
    BY <1>4, <2>2, <2>3 DEF TypeInv, TypeOK
<1>8. ASSUME UNCHANGED <<granting, roleMenus, userRoles, fetch>>,
             op[h].pc # "scan" /\ \A g \in Handlers \ {h} : op'[g] = op[g]
      PROVE  CacheInv'
  <2>1. \A v \in Users : Settled(v)' => Settled(v)
    BY <1>8 DEF Settled
  <2> QED
    BY <1>4, <1>8, <2>1, SamePermissions DEF TypeInv, TypeOK
<1>9. ASSUME NEW r \in Roles, NEW M \in SUBSET Menus, RoleFind(h, r, M) PROVE CacheInv'
  BY <1>8, <1>9 DEF RoleFind, TypeInv, TypeOK
<1>10. ASSUME NEW r \in roles, RoleCheck(h, r) PROVE CacheInv'
  BY <1>8, <1>10 DEF RoleCheck, TypeInv, TypeOK
<1>11. ASSUME NEW m \in Menus, MenuWrite(h, m, TRUE) \/ MenuWrite(h, m, FALSE) PROVE CacheInv'
  <2>1. OpGoto(h, "scan")
    BY <1>11 DEF MenuWrite, AfterChange
  <2> QED
    BY <1>5, <2>1, OpRecord DEF TypeInv
<1>12. ASSUME NEW m \in menus, MenuCheck(h, m) PROVE CacheInv'
  BY <1>8, <1>12 DEF MenuCheck, TypeInv, TypeOK
<1>13. CASE RoleSave(h)
  <2>1. CASE OpGoto(h, "scan")
    BY <1>5, <2>1, OpRecord DEF TypeInv
  <2>2. CASE OpGoto(h, "done") /\ UNCHANGED <<roles, roleMenus>>
    BY <1>8, <1>13, <2>2, OpRecord DEF RoleSave, TypeInv
  <2> QED
    BY <1>13, <2>1, <2>2 DEF RoleSave
<1>14. CASE RoleDelete(h) \/ MenuDelete(h)
  <2>1. OpGoto(h, "scan")
    BY <1>14 DEF RoleDelete, MenuDelete, AfterChange
  <2> QED
    BY <1>5, <2>1, OpRecord DEF TypeInv
<1>15. CASE RefreshScan(h)
  <2>1. \A v \in online : fetch'[h][v] = StartFetch
    BY <1>15 DEF RefreshScan, RefreshTargets, TypeInv, TypeOK, Callers
  <2>2. \A v \in online : ~Settled(v)'
    BY <2>1 DEF Settled, StartFetch, NoFetch
  <2> QED
    BY <1>4, <2>2
<1>16. CASE RefreshEnd(h)
  BY <1>8, <1>16, OpRecord DEF RefreshEnd, TypeInv
<1> QED
  BY <1>6, <1>7, <1>9, <1>10, <1>11, <1>12, <1>13, <1>14, <1>15, <1>16 DEF Handle

LEMMA CacheStep == TypeInv /\ CacheInv /\ [Next]_vars => CacheInv'
<1> SUFFICES ASSUME TypeInv, CacheInv, [Next]_vars PROVE CacheInv'
  OBVIOUS
<1>1. CASE UNCHANGED vars
  <2>1. \A v \in Users : (Settled(v)' <=> Settled(v)) /\ Permissions(v)' = Permissions(v)
    BY <1>1, SamePermissions DEF vars, Settled
  <2> QED
    BY <1>1, <2>1 DEF vars, CacheInv, CacheFollowsGrants, OnlineHasPermissions, TypeInv, TypeOK
<1> QED
  BY <1>1, FetchCache, UserCache, HandleCache DEF Next

LEMMA CacheHolds == Spec => []CacheInv
<1>1. Init => CacheInv
  BY DEF Init, CacheInv, CacheFollowsGrants, OnlineHasPermissions
<1> QED
  BY <1>1, TypeInit, TypeStep, CacheStep, PTL DEF Spec

(* CacheFollowsGrants: the cache of an online user is what the database      *)
(* grants once the changes under way have refreshed, unless its last write   *)
(* was overtaken (menu.service.ts: refreshPerms, refreshOnlineUserPerms).    *)
THEOREM CacheCorrect == Spec => []CacheFollowsGrants
<1>1. CacheInv => CacheFollowsGrants
  BY DEF CacheInv
<1> QED
  BY <1>1, CacheHolds, PTL

(* OnlineHasPermissions: nobody online is without cached permissions, but    *)
(* during the login and after a deletion the login overtook                  *)
(* (auth.service.ts: loginWithEmail; user.service.ts: forbidden).            *)
THEOREM OnlineCached == Spec => []OnlineHasPermissions
<1>1. CacheInv => OnlineHasPermissions
  BY DEF CacheInv
<1> QED
  BY <1>1, CacheHolds, PTL

=============================================================================
