--------------------------- MODULE RequestPipeline ---------------------------
(***************************************************************************)
(* What a request goes through: JwtAuthGuard, RbacGuard, the throttler,    *)
(* the interceptors, the validation of the body, the handler, and the      *)
(* answer, made by TransformInterceptor or by AllExceptionsFilter.  The    *)
(* session of the user, the permissions and the rows of sys_role and       *)
(* sys_menu change meanwhile; every read of them is a step of its own.     *)
(***************************************************************************)
EXTENDS Integers

CONSTANTS
    Roles,      \* ids of roles
    RoleNames,  \* values of roles.name, which is unique
    Values,     \* values of roles.value, which is unique as well
    Menus       \* ids of menus

ASSUME RolesAssumption == Roles \subseteq Nat \ {0}

VARIABLES
    config,     \* IS_DEMO, multiDeviceLogin, and is admin among the token's roles
    revoked,    \* what has become of the token "mine", see Revocations
    permitted,  \* has the cache the permission the route asks for
    row,        \* the rows of sys_role per id
    menus,      \* the rows of sys_menu
    request,
    before,     \* history: revoked ever since the request arrived, ever permitted since
    raced       \* history: another request got in the way of the save

pipelineVars == <<config, revoked, permitted, row, menus, request, before, raced>>

\* Of RoleDto; RoleUpdateDto is partial, and what it leaves out is kept.
Bodies == [name : RoleNames, value : Values]
Kept == "kept"
Changes == [name : RoleNames \union {Kept}, value : Values \union {Kept}]

\* In place of a row: no role has this id yet, or it was deleted.
NoRow == [name |-> "none", value |-> "none"]
Gone == [name |-> "gone", value |-> "gone"]

ASSUME NamesAssumption == {"none", "gone", Kept} \intersect (RoleNames \union Values) = {}

\* Logged out; pv no longer that of the user; no longer the token of the one device.
Revocations == {"blacklisted", "outdated", "replaced"}

\* The kinds of route the controllers have.
Route(white, public, get, anon, perm, save) ==
    [white |-> white, public |-> public, get |-> get, anon |-> anon, perm |-> perm, save |-> save]

Routes == [
    login    |-> Route(TRUE, TRUE, FALSE, FALSE, FALSE, FALSE),
    register |-> Route(FALSE, TRUE, FALSE, FALSE, FALSE, FALSE),
    profile  |-> Route(FALSE, FALSE, TRUE, TRUE, FALSE, FALSE),
    roleList |-> Route(FALSE, FALSE, TRUE, FALSE, TRUE, FALSE),
    roleSave |-> Route(FALSE, FALSE, FALSE, FALSE, TRUE, TRUE)]

Answer(status, code) == [status |-> status, code |-> code]
NoAnswer == Answer(0, 0)

\* ROOT_ROLE_ID
RootRole == 1

PipelineInit ==
    /\ config \in [demo : BOOLEAN, multi : BOOLEAN, admin : BOOLEAN]
    /\ revoked \in SUBSET Revocations
    /\ permitted \in BOOLEAN
    /\ \E b \in Bodies : row = [r \in Roles |-> IF r = RootRole THEN b ELSE NoRow]
    /\ menus = Menus
    /\ request = [pc |-> "idle", route |-> "login", token |-> "none", role |-> 0, row |-> NoRow,
                  menus |-> {}, found |-> NoRow, ran |-> FALSE, saved |-> FALSE, answer |-> NoAnswer]
    /\ before = [revoked |-> revoked, permitted |-> permitted]
    /\ raced = FALSE

route == Routes[request.route]

-----------------------------------------------------------------------------
(* AllExceptionsFilter and TransformInterceptor *)

\* getErrorCode of a BusinessException, whose HTTP status is 200.
StatusAsCode(code) == 200
ErrorCode(code) == code

Business(code) == Answer(200, ErrorCode(code))
Http(status) == Answer(status, status)
ResOp == Answer(200, 200)

Only == UNCHANGED <<config, revoked, permitted, row, menus, before, raced>>
On(pc) == request' = [request EXCEPT !.pc = pc] /\ Only
Refuse(answer) == request' = [request EXCEPT !.pc = "answered", !.answer = answer] /\ Only

-----------------------------------------------------------------------------
(* JwtAuthGuard.  The token "mine" verifies, "bad" does not; "mineBySse"     *)
(* asks for an event stream, for which no route has the uid.                 *)

Arrive(name, token, role, body, asked) ==
    LET r == Routes[name]
        refused == ~r.white /\ ~r.get /\ config.demo
    IN  /\ request.pc = "idle"
        /\ request' = [pc |-> IF r.white THEN "rbac" ELSE IF refused THEN "answered" ELSE "blacklist",
                       route |-> name, token |-> token, role |-> role, row |-> body,
                       menus |-> asked, found |-> NoRow, ran |-> FALSE, saved |-> FALSE,
                       answer |-> IF refused THEN Http(403) ELSE NoAnswer]
        /\ Only

Mine == request.token \in {"mine", "mineBySse"}

CheckBlacklist ==
    /\ request.pc = "blacklist"
    /\ IF Mine /\ "blacklisted" \in revoked THEN Refuse(Business(1101)) ELSE On("verify")

\* super.canActivate failed: on a public route the request goes on without a user.
FailsOpen == On("rbac")
Unverified ==
    IF route.public THEN On("rbac")
    ELSE Refuse(IF request.token = "none" THEN Http(401) ELSE Business(1101))

Verify ==
    /\ request.pc = "verify"
    /\ CASE ~Mine -> Unverified
         [] request.token = "mineBySse" -> Refuse(Http(401))
         [] request.token = "mine" -> On("version")

CheckVersion ==
    /\ request.pc = "version"
    /\ IF "outdated" \in revoked THEN Refuse(Business(1101))
       ELSE On(IF config.multi THEN "rbac" ELSE "device")

CheckDevice ==
    /\ request.pc = "device"
    /\ IF "replaced" \in revoked THEN Refuse(Business(1105)) ELSE On("rbac")

(* RbacGuard; a request without a user gets here on public routes only *)

CheckPermission ==
    /\ request.pc = "rbac"
    /\ IF route.public \/ route.anon \/ ~route.perm \/ config.admin \/ permitted THEN On("throttle")
       ELSE Refuse(Business(1102))

ThrottlerGuard ==
    /\ request.pc = "throttle"
    /\ \/ Refuse(Http(429))
       \/ On(IF route.save THEN "validate" ELSE "handle")

-----------------------------------------------------------------------------
(* UniqueConstraint, which looks at the value alone; the handler of          *)
(* POST /roles, and with the id of a role of PUT /roles/:id; and the time    *)
(* they take.                                                                *)

\* The id in the path, 0 without one: a role does not collide with itself.
operateId == request.role

Exists(rows, v) == \E r \in rows : row[r].value = v
InUseOnUpdate(v) == operateId # 0 /\ Exists(Roles \ {operateId}, v)
InUse(v) == Exists(Roles \ {operateId}, v)

Validate ==
    /\ request.pc = "validate"
    /\ IF InUse(request.row.value) THEN Refuse(Http(422))
       ELSE On(IF request.role = 0 THEN "menus" ELSE "update")

Rows == {r \in Roles : row[r] \in Bodies}
Free == {r \in Roles : row[r] = NoRow}
NewRole == {r \in Free : \A q \in Free : r <= q}

\* The unique columns of sys_role.
Collides(r, new) == \E q \in Rows \ {r} : row[q].name = new.name \/ row[q].value = new.value

\* The answer, unless a timeout has given another.
Done(req, answer) ==
    [req EXCEPT !.pc = "answered", !.ran = TRUE, !.answer = IF @ = NoAnswer THEN answer ELSE @]

\* The first write of an update; an id without a row changes nothing.
Updated(r) ==
    [name |-> IF request.row.name = Kept THEN row[r].name ELSE request.row.name,
     value |-> IF request.row.value = Kept THEN row[r].value ELSE request.row.value]

UpdateRole ==
    /\ request.pc = "update"
    /\ IF request.role \in Rows /\ Collides(request.role, Updated(request.role))
       THEN request' = Done(request, Http(500)) /\ UNCHANGED row
       ELSE /\ row' = [r \in Roles |-> IF r = request.role /\ r \in Rows THEN Updated(r) ELSE row[r]]
            /\ request' = [request EXCEPT !.pc = "find", !.saved = request.role \in Rows]
    /\ UNCHANGED <<config, revoked, permitted, menus, before, raced>>

\* findOne, which has no role to give menus to if there is none.
FindRole ==
    /\ request.pc = "find"
    /\ request' = IF request.role \in Rows
                  THEN [request EXCEPT !.pc = "menus", !.found = row[request.role]]
                  ELSE Done(request, Http(500))
    /\ Only

\* findBy drops the ids that are no menus.
FindMenus ==
    /\ request.pc = "menus"
    /\ request' = [request EXCEPT !.pc = "save", !.menus = @ \intersect menus]
    /\ Only

\* save: a new role, or the entity as it was found, which puts a stale row back and
\* inserts a deleted one again; the menus are foreign keys.
entity == IF request.role = 0 THEN request.row ELSE request.found

Save ==
    /\ request.pc = "save"
    /\ \E r \in IF request.role = 0 THEN NewRole ELSE {request.role} \intersect Roles :
         IF Collides(r, entity) \/ ~(request.menus \subseteq menus)
         THEN request' = Done(request, Http(500)) /\ UNCHANGED row
         ELSE /\ row' = [row EXCEPT ![r] = entity]
              /\ request' = IF request.role = 0 THEN Done([request EXCEPT !.saved = TRUE], ResOp)
                            ELSE [request EXCEPT !.pc = "refresh"]
    /\ UNCHANGED <<config, revoked, permitted, menus, before, raced>>

\* refreshOnlineUserPerms after an update, and the handlers of the other routes.
Handle ==
    /\ request.pc \in {"refresh", "handle"}
    /\ request' = Done(request, ResOp)
    /\ Only

\* TimeoutInterceptor gives up on the handler, which goes on.
Saving == {"update", "find", "menus", "save"}
Handling == Saving \union {"refresh", "handle"}

TimeOut ==
    /\ request.pc \in Handling /\ request.answer = NoAnswer
    /\ request' = [request EXCEPT !.answer = Http(408)]
    /\ Only

-----------------------------------------------------------------------------
(* What other requests do meanwhile, where it makes a difference to this one *)

InGuards == request.pc \in {"blacklist", "verify", "version", "device", "rbac"}

\* A logout, a new password, a login elsewhere.
Revoke(how) ==
    /\ InGuards /\ how \notin revoked
    /\ revoked' = revoked \union {how}
    /\ UNCHANGED <<config, permitted, row, menus, request, before, raced>>

\* A login writes version 1, the pv of every token, and in the second of the token's own
\* login it signs the same token again; the blacklist may end before the token does.
Restore(how) ==
    /\ InGuards /\ how \in revoked
    /\ revoked' = revoked \ {how}
    /\ before' = [before EXCEPT !.revoked = @ \ {how}]
    /\ UNCHANGED <<config, permitted, row, menus, request, raced>>

Grant ==
    /\ InGuards
    /\ permitted' = ~permitted
    /\ before' = [before EXCEPT !.permitted = TRUE]
    /\ UNCHANGED <<config, revoked, row, menus, request, raced>>

\* Another request creates, updates or deletes a role, or inserts a deleted one again; the
\* root role is never deleted.
OtherSave(r, new) ==
    /\ request.pc \in {"validate", "refresh"} \union Saving
    /\ r \in NewRole \/ row[r] # NoRow
    /\ IF new = Gone THEN r \in Rows \ {RootRole} ELSE ~Collides(r, new)
    /\ row' = [row EXCEPT ![r] = new]
    /\ raced' = (raced \/ (request.pc \in Saving /\ (r = request.role \/ new.value = request.row.value)))
    /\ UNCHANGED <<config, revoked, permitted, menus, request, before>>

OtherDelete(m) ==
    /\ request.pc \in Saving /\ m \in menus
    /\ menus' = menus \ {m}
    /\ raced' = (raced \/ (request.pc = "save" /\ m \in request.menus))
    /\ UNCHANGED <<config, revoked, permitted, row, request, before>>

RequestNext ==
    \/ \E name \in DOMAIN Routes, token \in {"none", "bad", "mine", "mineBySse"} :
         IF Routes[name].save
         THEN \E asked \in SUBSET Menus :
                 \/ \E body \in Bodies : Arrive(name, token, 0, body, asked)
                 \/ \E role \in Roles, body \in Changes : Arrive(name, token, role, body, asked)
         ELSE Arrive(name, token, 0, NoRow, {})
    \/ CheckBlacklist \/ Verify \/ CheckVersion \/ CheckDevice \/ CheckPermission \/ ThrottlerGuard
    \/ Validate \/ UpdateRole \/ FindRole \/ FindMenus \/ Save \/ Handle \/ TimeOut

SessionNext == Grant \/ \E how \in Revocations : Revoke(how) \/ Restore(how)

RowsNext ==
    \/ \E r \in Roles, new \in Bodies \union {Gone} : OtherSave(r, new)
    \/ \E m \in Menus : OtherDelete(m)

PipelineNext == RequestNext \/ SessionNext \/ RowsNext

PipelineSpec == PipelineInit /\ [][PipelineNext]_pipelineVars

-----------------------------------------------------------------------------
(* Properties *)

PipelineTypeOK ==
    /\ config \in [demo : BOOLEAN, multi : BOOLEAN, admin : BOOLEAN]
    /\ revoked \subseteq Revocations /\ permitted \in BOOLEAN /\ raced \in BOOLEAN
    /\ before \in [revoked : SUBSET Revocations, permitted : BOOLEAN]
    /\ row \in [Roles -> Bodies \union {NoRow, Gone}] /\ menus \subseteq Menus
    /\ \A r \in Rows : ~Collides(r, row[r])
    /\ request.pc \in {"idle", "blacklist", "verify", "version", "device", "rbac", "throttle", "validate",
                       "answered"} \union Handling
    /\ request.menus \subseteq Menus
    /\ request.answer.status \in {0, 200, 401, 403, 408, 422, 429, 500}

Runs == request.pc \in Handling \/ request.ran

(* The guards read the session one key at a time, while logouts, logins and *)
(* new passwords change it, and let a public route through on the way:      *)
(* still, the handler of any other route runs only for a token that no      *)
(* revocation stood against ever since the request arrived (at no one       *)
(* instant need the token have been good), and only if the permission it    *)
(* asks for was held at some time since.                                    *)
RunsAuthorised ==
    Runs /\ ~route.public =>
        /\ request.token = "mine"
        /\ before.revoked \subseteq {"replaced"}
        /\ "replaced" \in before.revoked => config.multi
        /\ route.perm => config.admin \/ before.permitted
        /\ config.demo => route.get

(* The HTTP status of a refusal may be 200; the code in the body tells: it  *)
(* is 200 only if the handler ran; and if no other request got in the way,  *)
(* changing this role, saving this value or deleting one of the menus since *)
(* they were looked up, then 200 means saved, what was saved is answered    *)
(* with 200 unless the handler took too long, and "Server busy" is the      *)
(* answer only to updating a role that does not exist and to a name in use, *)
(* which the validation does not look for.                                  *)
AnswerTells ==
    request.pc = "answered" =>
        /\ request.answer.code = 200 => request.ran
        /\ request.answer.code = 200 /\ route.save /\ ~raced => request.saved
        /\ request.saved /\ ~raced => request.answer.code \in {200, 408}
        /\ request.answer.code = 500 /\ ~raced =>
              \/ request.role \in Roles \ Rows
              \/ \E q \in Rows \ {request.role} : row[q].name = request.row.name

=============================================================================
