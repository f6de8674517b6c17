-------------------------------- MODULE Rbac --------------------------------
(***************************************************************************)
(* Roles, menus and the permission cache.  Postgres holds the menus (one   *)
(* permission each), the roles with their menus and the users with their   *)
(* roles; Redis holds auth:token:uid (is the user online) and              *)
(* auth:permission:uid (the permissions RbacGuard checks).  Every admin    *)
(* call that changes a grant refreshes the cache afterwards, each user in  *)
(* several awaits; logins fill it and UserService.forbidden empties it     *)
(* meanwhile.                                                              *)
(***************************************************************************)
EXTENDS Integers, FiniteSets

CONSTANTS
    Users,
    Roles,      \* role ids the sequence can hand out
    Menus,      \* menu ids the sequence can hand out
    Handlers,   \* admin calls, each used at most once
    LoginCall   \* stands for the login of a user among those who fetch

Root == 1       \* ROOT_ROLE_ID

ASSUME RbacAssumption ==
    /\ Roles \subseteq Nat /\ Menus \subseteq Nat /\ Root \in Roles
    /\ LoginCall \notin Handlers

VARIABLES
    menus, granting,      \* sys_menu: the rows, and those whose permission is not null
    roles, roleMenus,     \* sys_role and sys_role_menus
    userRoles,            \* sys_user_roles
    usedIds,              \* role ids handed out so far
    online,               \* users with an auth:token key
    cache,                \* auth:permission: {} of sets, the set cached or none
    leaving,              \* users whose forbidden() has still to delete the cache
    op,                   \* the admin calls
    fetch,                \* getPermissions under way, per caller and user
    overtaken             \* history: users whose cache last took an overtaken write

grants == <<menus, granting, roles, roleMenus, userRoles, usedIds>>
vars == <<grants, online, cache, leaving, op, fetch, overtaken>>

Callers == Handlers \union {LoginCall}

-----------------------------------------------------------------------------
(* MenuService.getPermissions, the second read: the menus of the roles the   *)
(* first read returned; the root role has them all.                          *)

PermsOf(ids) ==
    IF Root \in ids THEN granting
    ELSE {m \in granting : \E r \in ids : m \in roleMenus[r]}

Permissions(u) == PermsOf(userRoles[u])

NoFetch == [pc |-> "none", ids |-> {}, perms |-> {}]
StartFetch == [NoFetch EXCEPT !.pc = "roles"]
NoOp == [pc |-> "idle", id |-> 0, menus |-> {}]

Init ==
    /\ menus = Menus
    /\ granting \in SUBSET Menus
    /\ roles \in {R \in SUBSET Roles : Root \in R}
    /\ usedIds = roles
    /\ roleMenus \in {f \in [Roles -> SUBSET Menus] :
                         \A r \in Roles \ roles : f[r] = {}}
    /\ userRoles \in [Users -> SUBSET roles]
    /\ online = {}
    /\ cache = [u \in Users |-> {}]
    /\ leaving = {}
    /\ op = [h \in Handlers |-> NoOp]
    /\ fetch = [c \in Callers |-> [u \in Users |-> NoFetch]]
    /\ overtaken = {}

-----------------------------------------------------------------------------
(* Fetching one user's permissions and writing them to the cache *)

\* A user without roles is given the empty list, and it is still written.
EmptySkipped == "none"
EmptyWritten == "check"

FetchRoles(c, u) ==
    /\ fetch[c][u].pc = "roles"
    /\ fetch' = [fetch EXCEPT ![c][u] =
                    [@ EXCEPT !.pc = IF userRoles[u] = {} THEN EmptyWritten ELSE "menus",
                              !.ids = userRoles[u]]]
    /\ UNCHANGED <<grants, online, cache, leaving, op, overtaken>>

FetchMenus(c, u) ==
    /\ fetch[c][u].pc = "menus"
    /\ fetch' = [fetch EXCEPT ![c][u] =
                    [@ EXCEPT !.pc = "check", !.perms = PermsOf(fetch[c][u].ids)]]
    /\ UNCHANGED <<grants, online, cache, leaving, op, overtaken>>

\* refreshPerms writes for online users only; login and refreshOnlineUserPerms
\* write without looking.
RechecksOnline(c) == c \in Handlers /\ op[c].pc = "refreshOne"

FetchCheck(c, u) ==
    /\ fetch[c][u].pc = "check"
    /\ fetch' = IF RechecksOnline(c) /\ u \notin online
                THEN [fetch EXCEPT ![c][u] = NoFetch]
                ELSE [fetch EXCEPT ![c][u].pc = "write"]
    /\ UNCHANGED <<grants, online, cache, leaving, op, overtaken>>

\* SET auth:permission:uid.  The history notes whether the grants have moved on
\* since they were read.
FetchWrite(c, u) ==
    LET perms == fetch[c][u].perms
    IN  /\ fetch[c][u].pc = "write"
        /\ cache' = [cache EXCEPT ![u] = {perms}]
        /\ overtaken' = IF perms = Permissions(u) THEN overtaken \ {u} ELSE overtaken \union {u}
        /\ fetch' = [fetch EXCEPT ![c][u] = NoFetch]
        /\ UNCHANGED <<grants, online, leaving, op>>

Fetch(c, u) == FetchRoles(c, u) \/ FetchMenus(c, u) \/ FetchCheck(c, u) \/ FetchWrite(c, u)

-----------------------------------------------------------------------------
(* Users coming and going: loginWithEmail sets the token key before it reads *)
(* the permissions; forbidden deletes the token key, then the permissions.   *)

LoginKey(u) ==
    /\ fetch[LoginCall][u].pc = "none"
    /\ online' = online \union {u}
    /\ fetch' = [fetch EXCEPT ![LoginCall][u] = StartFetch]
    /\ UNCHANGED <<grants, cache, leaving, op, overtaken>>

ForbidToken(u) ==
    /\ u \in online
    /\ online' = online \ {u}
    /\ leaving' = leaving \union {u}
    /\ UNCHANGED <<grants, cache, op, fetch, overtaken>>

ForbidPerm(u) ==
    /\ u \in leaving
    /\ cache' = [cache EXCEPT ![u] = {}]
    /\ leaving' = leaving \ {u}
    /\ overtaken' = IF u \in online THEN overtaken \union {u} ELSE overtaken
    /\ UNCHANGED <<grants, online, op, fetch>>

-----------------------------------------------------------------------------
(* Admin calls.  Each ends with a refresh of one user or of all online ones. *)

OpGoto(h, pc) == op' = [op EXCEPT ![h].pc = pc]

\* PUT /users/:id: the commit of update (the rows of the foreign key exist and
\* the user's row is locked), then refreshPerms.
UserUpdate(h, u, R) ==
    /\ op[h].pc = "idle"
    /\ userRoles' = [userRoles EXCEPT ![u] = R]
    /\ OpGoto(h, "refreshOne")
    /\ fetch' = [fetch EXCEPT ![h][u] = StartFetch]
    /\ UNCHANGED <<menus, granting, roles, roleMenus, usedIds, online, cache, leaving, overtaken>>

\* POST /roles: no user has the role yet, so nothing is refreshed.
RoleCreate(h, r, M) ==
    /\ op[h].pc = "idle"
    /\ r \notin usedIds
    /\ usedIds' = usedIds \union {r}
    /\ roles' = roles \union {r}
    /\ roleMenus' = [roleMenus EXCEPT ![r] = M \intersect menus]
    /\ OpGoto(h, "done")
    /\ UNCHANGED <<menus, granting, userRoles, online, cache, leaving, fetch, overtaken>>

\* PUT /roles/:id: the role and its new menus are found, then saved.
RoleFind(h, r, M) ==
    /\ op[h].pc = "idle"
    /\ r \in roles
    /\ op' = [op EXCEPT ![h] = [pc |-> "save", id |-> r, menus |-> M \intersect menus]]
    /\ UNCHANGED <<grants, online, cache, leaving, fetch, overtaken>>

\* save() inserts the role again if it was deleted meanwhile, and the foreign key
\* refuses a menu that was.
Unreferenced(M) == TRUE
AllExist(M) == M \subseteq menus

RoleSave(h) ==
    /\ op[h].pc = "save"
    /\ IF AllExist(op[h].menus)
       THEN /\ roles' = roles \union {op[h].id}
            /\ roleMenus' = [roleMenus EXCEPT ![op[h].id] = op[h].menus]
            /\ OpGoto(h, "scan")
       ELSE OpGoto(h, "done") /\ UNCHANGED <<roles, roleMenus>>
    /\ UNCHANGED <<menus, granting, userRoles, usedIds, online, cache, leaving, fetch, overtaken>>

\* DELETE /roles/:id: checkUserByRoleId, then the guarded delete.
RoleCheck(h, r) ==
    /\ op[h].pc = "idle"
    /\ \A u \in Users : r \notin userRoles[u]
    /\ r # Root
    /\ op' = [op EXCEPT ![h] = [NoOp EXCEPT !.pc = "delRole", !.id = r]]
    /\ UNCHANGED <<grants, online, cache, leaving, fetch, overtaken>>

AfterChangeDone == "done"
AfterChange == "scan"    \* refreshOnlineUserPerms

RoleDelete(h) ==
    LET r == op[h].id
    IN  /\ op[h].pc = "delRole"
        /\ roles' = roles \ {r}
        /\ userRoles' = [u \in Users |-> userRoles[u] \ {r}]
        /\ roleMenus' = [roleMenus EXCEPT ![r] = {}]
        /\ OpGoto(h, AfterChange)
        /\ UNCHANGED <<menus, granting, usedIds, online, cache, leaving, fetch, overtaken>>

\* POST and PUT /menus: the permission of a menu is set or cleared.
MenuWrite(h, m, grant) ==
    /\ op[h].pc = "idle"
    /\ m \in menus
    /\ granting' = IF grant THEN granting \union {m} ELSE granting \ {m}
    /\ OpGoto(h, AfterChange)
    /\ UNCHANGED <<menus, roles, roleMenus, userRoles, usedIds, online, cache, leaving, fetch,
                   overtaken>>

\* DELETE /menus/:id: checkRoleByMenuId looks for a menu of the role whose id
\* is the menu's.
MenuInUse(m) == m \in roles /\ roleMenus[m] # {}

MenuCheck(h, m) ==
    /\ op[h].pc = "idle"
    /\ ~MenuInUse(m)
    /\ op' = [op EXCEPT ![h] = [NoOp EXCEPT !.pc = "delMenu", !.id = m]]
    /\ UNCHANGED <<grants, online, cache, leaving, fetch, overtaken>>

MenuDelete(h) ==
    LET m == op[h].id
    IN  /\ op[h].pc = "delMenu"
        /\ menus' = menus \ {m}
        /\ granting' = granting \ {m}
        /\ roleMenus' = [r \in Roles |-> roleMenus[r] \ {m}]
        /\ OpGoto(h, AfterChange)
        /\ UNCHANGED <<roles, userRoles, usedIds, online, cache, leaving, fetch, overtaken>>

\* refreshOnlineUserPerms: KEYS auth:token:*, then all their users at once.
RefreshTargets == online

RefreshScan(h) ==
    /\ op[h].pc = "scan"
    /\ OpGoto(h, "refreshAll")
    /\ fetch' = [fetch EXCEPT ![h] =
                    [u \in Users |-> IF u \in RefreshTargets THEN StartFetch ELSE fetch[h][u]]]
    /\ UNCHANGED <<grants, online, cache, leaving, overtaken>>

RefreshEnd(h) ==
    /\ op[h].pc \in {"refreshOne", "refreshAll"}
    /\ \A u \in Users : fetch[h][u].pc = "none"
    /\ OpGoto(h, "done")
    /\ UNCHANGED <<grants, online, cache, leaving, fetch, overtaken>>

Handle(h) ==
    \/ \E u \in Users, R \in SUBSET roles : UserUpdate(h, u, R)
    \/ \E r \in Roles, M \in SUBSET Menus : RoleCreate(h, r, M) \/ RoleFind(h, r, M)
    \/ \E r \in roles : RoleCheck(h, r)
    \/ \E m \in Menus : MenuWrite(h, m, TRUE) \/ MenuWrite(h, m, FALSE)
    \/ \E m \in menus : MenuCheck(h, m)
    \/ RoleSave(h) \/ RoleDelete(h) \/ MenuDelete(h) \/ RefreshScan(h) \/ RefreshEnd(h)

-----------------------------------------------------------------------------

Next ==
    \/ \E c \in Callers, u \in Users : Fetch(c, u)
    \/ \E u \in Users : LoginKey(u) \/ ForbidToken(u) \/ ForbidPerm(u)
    \/ \E h \in Handlers : Handle(h)

Spec == Init /\ [][Next]_vars

-----------------------------------------------------------------------------
(* Properties *)

FetchState == [pc : {"none", "roles", "menus", "check", "write"},
               ids : SUBSET Roles, perms : SUBSET Menus]
OpState == [pc : {"idle", "save", "delRole", "delMenu", "scan", "refreshOne",
                  "refreshAll", "done"},
            id : Nat, menus : SUBSET Menus]

(* Types, with what the foreign keys keep: a user has existing roles, a role *)
(* existing menus (the CASCADE constraints of InitialSchema).                *)
TypeOK ==
    /\ menus \subseteq Menus /\ granting \subseteq menus
    /\ roles \subseteq usedIds /\ usedIds \subseteq Roles
    /\ userRoles \in [Users -> SUBSET roles]
    /\ roleMenus \in [Roles -> SUBSET menus]
    /\ online \subseteq Users /\ leaving \subseteq Users /\ overtaken \subseteq Users
    /\ cache \in [Users -> SUBSET SUBSET Menus]
    /\ op \in [Handlers -> OpState]
    /\ fetch \in [Callers -> [Users -> FetchState]]

(* Once every call that changed a grant has refreshed, the cache of an       *)
(* online user is exactly what the database grants, so RbacGuard decides as  *)
(* the database would for everybody it asks the cache about (it does not for *)
(* a token whose roles include admin: that one is let through) -- unless the *)
(* last write to it was overtaken: read before a later change, or a deletion *)
(* by a forbidden() that a new login overtook.  In particular no change      *)
(* misses a user who was logging in.                                         *)
Settled(u) ==
    /\ \A h \in Handlers : op[h].pc # "scan" /\ fetch[h][u].pc = "none"
    /\ fetch[LoginCall][u].pc = "none"

CacheFollowsGrants ==
    \A u \in online :
        Settled(u) /\ u \notin overtaken => cache[u] = {Permissions(u)}

(* An online user has cached permissions, if only the empty list, unless the *)
(* login that put the token key there is still fetching them or a forbidden  *)
(* overtaken by that login deleted them: AuthService.getPermissionsCache     *)
(* reads a missing key as no permission at all, never as "ask the database". *)
OnlineHasPermissions ==
    \A u \in online :
        cache[u] = {} => fetch[LoginCall][u].pc # "none" \/ u \in overtaken \/ u \in leaving

(* MenuController.delete: "This menu has associated roles and cannot be      *)
(* deleted".  The check compares the menu's id with role ids.                *)
DeletedMenuHadNoRole ==
    [][\A m \in menus \ menus' : \A r \in roles : m \notin roleMenus[r]]_vars

=============================================================================
