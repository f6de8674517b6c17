# TLA+ models and proofs for william-template

william-template is a NestJS backend: an admin API over Postgres (TypeORM),
Redis (ioredis) and Bull queues, run by pm2 as one process per CPU. Almost
every handler is a chain of `await`s that reads and writes several keys and rows
without a lock, in several processes at once. The models here take these
handlers apart at their awaits, let TLC interleave them with one another, with
the clock, with timeouts, failures and dead processes, and state what must hold
nevertheless. All of the models come with machine-checked proofs of their safety properties,
for all sizes.

Paths below are relative to the repository's `src/` directory.

## 1. Inventory

| component | state | operations | interacts with |
|---|---|---|---|
| **Sessions** `modules/auth`, `modules/user` | rows `user`, `user_access_tokens`; Redis `auth:token:u`, `auth:passwordVersion:u`, `auth:permission:u`, `token:blacklist:v` | loginWithEmail, JwtAuthGuard, logout, password change and reset, disable, enable, delete, nightly deletion of expired rows | permissions (a login fills the cache, forbidden empties it), password reset |
| **Roles, menus, permission cache** `modules/system/{role,menu}` | `sys_role`, `sys_menu`, their join tables, `sys_user_roles`; `auth:permission:u` | create, update, delete of roles and menus, update of a user's roles, refreshPerms, refreshOnlineUserPerms, RbacGuard | sessions, through `auth:token:u` (who is online) |
| **Idempotence and timeouts** `common/interceptors` | one Redis key per request signature | intercept: get, set pending, set done or delete; TimeoutInterceptor around it | each other: the timeout unsubscribes from the handler |
| **Password reset codes** `modules/auth/services/password-reset.service.ts` | rows `sys_password_reset_otp` | requestPasswordReset, verifyOtp, reset | email queue, sessions (forceUpdatePassword) |
| **Email queue** `shared/email-queue` | Bull jobs | queue... (six kinds), the six process functions | mail server |
| **Scheduled tasks** `modules/system/task` | rows `sys_task`, Bull repeatable jobs, the key `sys:task:init` | create, update, start, stop, delete, once, initTask, updateTaskCompleteStatus, the consumer | task logs (foreign key), task jobs |
| **User accounts** `modules/user`, `modules/auth` | rows `users`, `sys_user_roles` | register, create, update, disable, delete, profile update | sessions, permissions |
| **OAuth accounts** `modules/auth/services/oauth.service.ts` | `sys_user_oauth_providers` | loginWithOAuth with its find, upsert and user creation (link and unlink have no caller) | accounts, sessions |
| **Verification codes** `shared/mailer/mailer.service.ts` | Redis limits per address and per IP | the throttler guards, checkLimit, sendVerificationCode, log | mail server |
| **The way of a request** `app.module.ts`, guards, pipe, interceptors, filter | none of its own | JwtAuthGuard, RbacGuard, throttler, IsUnique, the handler, TransformInterceptor, AllExceptionsFilter | reads what sessions, permissions and roles write |
| **Paged lists** `helper/paginate` | none | paginate, paginateRaw, createPaginationObject | tasks and logs |
| **Task jobs and logs** `modules/tasks`, `modules/system/log` | rows `sys_task_log` | TaskConsumer.handle, callService, the jobs, clearLog | scheduled tasks |
| **Socket gateways** `socket/` | a token to socket map per process | connect, disconnect, handleTokenExpired | sessions |
| **Notification scheduler** `utils/schedule.util.ts` | a queue, a batch depth | batch, flush, schedule | none in the repository |
| **Schema** `migrations/` | types, tables, foreign keys, seed rows | up, down, in one transaction | every repository of TypeORM |
| pure helpers, captcha, Redis wrappers, decorators, wiring | little or none | - | - |

What is hard about them, and what makes each correct:

* **Sessions.** Four Redis keys and two tables say whether a token is good, and
  no two of them change together. Correct means: a token that was logged out
  stays out for as long as it is valid; a password change or a forced logout
  revokes all tokens; a removed user is refused; and, the other direction, a
  session nobody touched remains usable to its end.
* **Permissions.** The cache is a copy of the database that several writers
  refresh. Correct means: when everyone has finished, an online user's cached
  permissions are what the database grants, and an online user always has a cache
  entry, because a missing one is read as "no permission" and never refilled.
* **Idempotence.** Read, then write: correct means one success per window and
  no request locked out for ever.
* **Password reset.** Correct means: one active code, good for one use, a
  bounded number of codes per hour, a lockout after too many guesses.
* **Email queue.** Retries, timeouts that do not stop the handler, dead
  workers: correct means every job ends, a completed one reached everybody, and
  duplicates have a cause.
* **Tasks.** A row in Postgres and a repeatable job in Redis have to agree
  through a chain of eight awaits and across restarts.

* **Accounts.** A user is found in several ways (by email, by link, by id) and
  written in others, over two tables with one unique constraint between them.
  Correct means: an identity of a provider belongs to one user; a disabled user gets
  in nowhere it should not; the last root user is not deleted.
* **A request.** The guards read four keys one after the other while others
  change them. Correct means: no handler runs for a token that something stood against from the
  arrival of the request on, and the answer says what happened, though a save is up to four queries
  and only one of two unique columns is validated.
* **Logs and lists.** Correct means: "success" was logged of what succeeded, and
  whoever turns the pages sees every row.
* **Scheduler, gateway, codes, schema.** Correct means: a callback is called
  once and in order; an expired token's sockets go; codes are limited; the
  migration can be run, undone and run again.

`PROJECT.json` lists every component with its files and status, and every hazard
with the line where it bites and the properties that watch it.

## 2. The plan

Order, most important first. All steps are in place.

1. `Session`, `SessionProofs`: sessions; their invariants and the action property RefusedUntilLogin proved.
2. `Rbac`, `RbacProofs`: the permission cache.
3. `Idempotence`, `IdempotenceProofs`: the interceptors, invariants proved.
4. `PasswordReset`, `PasswordResetProofs`: the codes.
5. `EmailQueue` over `MailDelivery`: refinement and liveness; `EmailQueueProofs`.
6. `TaskScheduler`, `TaskSchedulerProofs`: tasks against Bull.
7. `Accounts`, `AccountsProofs`: users, their emails and roles, and the links to OAuth identities.
8. `RequestPipeline`: guards, validation, handler and answer of one request.
9. `NotifyManager` over `Notifications`: refinement and liveness; proofs in `EmailQueueProofs`.
10. `VerificationCode`, `SocketGateway`, `TaskRuns`, `Listing`: the smaller parts; with 8 in `PartsProofs`.
11. `InitialSchema`: the migration, proved statement by statement in `PartsProofs`.

Every invariant and every action property of a passing run is a theorem. What is left to TLC is
liveness (section 5).

Composition: `Session` and `Rbac` share `auth:token` and `auth:permission`; each
models the other's part of them by the actions that touch them (`LoginSetPerms`,
`AdminRefresh` there; `LoginKey`, `ForbidToken`, `ForbidPerm` here). `EmailQueue` instantiates
`MailDelivery`, and `NotifyManager` instantiates `Notifications`, under a refinement
mapping. `RequestPipeline` takes what other requests do to the session, the permissions, the
roles and the menus as `Revoke`, `Restore`, `Grant`, `OtherSave` and `OtherDelete`; `Accounts` keeps of a session only who is
online. The parts in `MCParts`, and the two in `MCEmailQueue`, share no state: a
variable `part` chosen at the start says which of them moves, so that one run checks
each of them on its own.

## 3. How the modules correspond to the code

Common conventions. An action is the code between two awaits of one handler;
`pc` is the await a call stands at. Each element of Logins, Requests, Changes,
Admins, Handlers, Verifies, Calls is one HTTP call and is used at most once: these sets
bound how many calls a history has. Refused calls that change nothing are not actions. Variables
marked *history* record what happened and influence nothing. Redis commands
and single SQL statements are atomic; a SQL transaction is its first lock and its
commit.

**Session.** Time is in quarters of a second, because `iat` and `exp` of a JWT are
whole seconds while rows and Redis TTLs are counted from the instant they are
set; the rounding matters for LoggedOutStaysOut. A token is `[user, iat]`: the JWT
has no id, so two logins of one user in one second get the *same* token. That is
faithful and visible in the properties (RowsOf, SameToken). `Login` is
`loginWithEmail` with its six steps, `Request` the guard followed by logout,
`Change` the two password changes with the get and set of `upgradePasswordV`,
`Admin` the update (deletions in Redis inside the open transaction, then
commit, then refresh) and deletion of a user, with `AdminFail` for an exception or
a lost connection in between; `CleanExpiredRows` is the nightly job.

**Rbac.** `Fetch` is getPermissions with its two reads and the write of the
cache, run by a login or by a refresh; `Handle` the calls of the two controllers
and of user.update; `AllExist` the foreign keys; deleting a role cascades. A
permission is the menu that carries it. The guard's fallback to the database
(`rbac.guard.ts:54`) is dead code: getPermissionsCache returns `[]` for a missing
key, never null.

**Idempotence.** Requests with one key. `TimeOut` unsubscribes: the handler goes
on, `tap` and `catchError` do not run. `Lag` bounds how long a Redis command
takes. No controller uses the decorator yet; the interceptor is what is modelled.

**PasswordReset.** TypeORM's `save` of an entity found earlier writes the columns
that differ from the row *now*, so a stale `isUsed = false` puts a code back;
`VerifyAttempt` and `VerifyUse` do exactly this. A failed or dead call stops where it
is (`RequestFail`, `VerifyFail`).

**EmailQueue.** Bull is external: `Take`, `AttemptFailed`, `TimeOut`, `Backoff`, `Crash`, `Stalled`,
`LockLost` are written from how the code configures it (three attempts, exponential
backoff, a timeout for bulk mails) and Bull's documented behaviour: a job whose lock ran out is
stalled and put back once, whether its worker is dead (`Stalled`) or lives and could not renew the
lock, its event loop blocked or Redis out of reach (`LockLost`); then the first handler goes on beside the second. What
such a handler, or one that timed out, returns is ignored: Bull refuses to finish a job
by a worker that no longer has its lock, and takes a job's workers for different processes. `Send`, `Return` are the six process functions: a bulk
handler notes each failure and throws at the end; a single one throws at once. `JobNext` is all that
happens to one job: jobs share nothing.
A template mail has no recipients in the model because the code sends none.

**TaskScheduler.** One task. Its `Schedules` are what makes Bull's key for a
repeatable job, so a job's identity is the schedule it was added with; the row
keeps `opts`, the schedule of the job it believes to be there. `stop` is the
chain Exist, ListJobs, Remove, SetDisabled and is shared by all callers; `then` says what the
caller does next. `Remove` with `opts = None` is `JSON.parse(null)`: the call is
stuck. Times that do not matter (start and end dates, cron syntax) are left out.

**Accounts.** A call is one request, its `pc` the query it is about to make; `via`
records how the user was found. `UniqueRefuses` is the unique email, `Locked` the
row lock that update holds from its first write to its commit, `Cascaded` the foreign
key of the links. POST /users may create a user who is not active (`on`), PUT /users/:id may change the
email; what its body leaves out keeps its value, so the model gives all of email, status and root
role. A write of the row, or of an email it gives or takes, waits for the commit (`Locked`, `Pending`). `AccountSave` does
not look for the email first, as `updateAccountInfo` does not: a taken one is refused
by the constraint. `First` is the row `findOne` returns. For users found by email there is at most one; for links
it matters for nothing but the choice among equals; but RootRemains relies on
it: with another root user named at every call, two deletions could take all of them. `findRootUserId` finds a user by a joined
role, and TypeORM orders such a `findOne` by the ids, ascending. `default` is FALSE where a default role was
deleted: register then makes a user without roles, createOAuthUser refuses.

**VerificationCode.** `Post` is the two guards (each counts the request, under one
key: `ThrottlerGuard` is an APP_GUARD and again on the controller), `CheckIp` and `CheckTo` the
two reads of checkLimit, `SendCode` the mail, `LogCode`, `LimitIp`, `LimitTo` the three writes of
`log`. The limit of an address is read before, and written after, the mail.

**RequestPipeline.** One request on one of five kinds of route, and everybody else.
`InGuards` is where a revocation or a grant can still make a difference. A revoked token may recover
(`Restore`): every JWT has `pv` 1, and each login writes version 1 again, so that a token outdated by a password
change is good after the user's next login, also when that comes between two reads of the guard. A role has a
name and a value, both unique, and only the value is validated. POST /roles is `FindMenus`, `Save`; PUT
/roles/:id is `UpdateRole` (a partial body; what it leaves out is `Kept`), `FindRole`, `FindMenus`, `Save` of the entity as it was found (a
role deleted meanwhile is inserted again, a stale row put back, a menu deleted meanwhile refused by the foreign key), and
`Handle` for the refresh of permissions, which is modelled in Rbac. `Done` keeps the
answer of a timeout. `OtherSave` with `Gone` is the deletion of a role, `OtherDelete` that of a menu.

**Listing.** A list of ids; filters and columns are left out. `ReadItems` and `Count` are
the two queries of a page, in one order for `getManyAndCount`, in either for `paginateRaw`. The
login logs join their users, and `getRawMany` of such a query ignores `take` and `skip`: each of their pages is the
whole table, though `PagerDto` documents a pageSize of at most 100 and the answer repeats it as itemsPerPage. `walk`
is the history of a client that asks for page 1, 2, ... with one limit.

**TaskRuns.** `SaveTask` is the check at the controller and the write; `CallService` the
check before the call; `Returns`, `ClearsTaskLog`, `Throws` what the three kinds of job do.
`Deploy` is a new version of the program, whose providers differ. `LogSuccess` is in
the try, so its failure leads to `LogFailure`. `Stall` runs a job of a dead worker again, `LockLost` one of a
live worker, as another element of Jobs beside the first.

**SocketGateway.** `socketIdOf` is tokenSocketIdMap, written after the await of
`authToken` and never cleared.

**NotifyManager.** `transactions` and `queue` are the variables of the closure;
`timers` the zero timeouts of scheduleMicrotask; `running` what forEach has left. `Throw` runs
the `finally` of every open batch.

**InitialSchema.** `Up` and `Down` list the statements of the migration by what each
makes, drops or inserts and what it needs; a refused statement or a lost connection
undoes the transaction.

## 4. The runs

All runs have CHECK_DEADLOCK FALSE: every call is used at most once and the
clock is bounded, so a history ends. SYMMETRY is used for interchangeable
calls, and in no run of a temporal property but RefusedUntilLogin, which is one of steps.

| run | question | instance | states |
|---|---|---|---|
| session_multi | revocation, removal, fresh sessions with several devices; does a refused token stay refused | 1 user, 2 logins, a request, a password change, 2 admin calls (disable, enable, delete), JWT of 1 s, clock 2/4 s | 4.5 M |
| session_single | logout and fresh sessions on a single device, all roundings | 2 logins, 2 requests, JWT of 2 s, clock 9/4 s: beyond every exp | 2.3 M |
| rbac | does the cache follow the grants | 1 user, roles 1 (root) and 2, menu 2, 2 admin calls, login and forbidden at any time | 3.3 M |
| rbac_menu | the error message of menu deletion (violated) | menus 2, 3 | 8 k |
| idempotence | one success per window, no lockout | 3 requests, Expired 4, Timeout 2, Lag 1, clock 7 | 7.9 M |
| idempotence_forever | does every mark expire (violated) | 2 requests | 9 k |
| password_reset | single use, one active code, the hourly limit, the counter | 2 requests, limit 1, 3 verifications, 2 codes | 1.8 M |
| password_reset_lockout | the lockout (violated) | 1 request, 3 verifications, 2 attempts | 3 k |
| email_queue | duplicates, overlap, refinement of MailDelivery and of Notifications, with liveness | a bulk mail to 2, or a single one, 3 attempts, 1 stall; or 3 callbacks, batches nested twice | 187 k |
| tasks | Bull's repeatable jobs follow the row; one process initialises at a time | 3 calls, 2 processes starting, a worker, an unlimited schedule and one limited to one run, clock 2 | 3.1 M |
| task_early | is only a completed task stopped as completed (violated) | a call, a worker, clock 3 | 0.5 k |
| parts | one question per part, see below | accounts: 3 calls, up to 3 users, 2 links, 2 emails, 2 identities; codes: 2 requests, 2 addresses, 2 ips, clock 3; gateway: 3 sockets, 2 tokens; request: 3 role ids, 2 names, 2 values, a menu; list: 4 rows, 3 pages of at most 2; runs: 2 jobs, 1 task; the whole migration | 1.6 M |

Why these bounds are enough to be interesting: the races are between two or three
calls on one user, key or row, and each handler reads and writes its state a
bounded number of times, so two calls of the kinds that conflict and a third that
observes them give every pattern of overlap; one user suffices as no handler in
Session touches the keys of two users except multiForbidden, which treats them
one by one. The clocks run past the last deadline of the first call (expiry of
the JWT, of the mark, of the window, of the lock). In `rbac` the ids overlap at 2
because the code mixes up ids of menus and roles. `tasks` uses
`CONSTRAINT Explored`: four calls and starts in one history, and one call beside the two starts
once a start overlapped or a call died. StoppedMeansQuiet, StartedMeansScheduled and NeverStuck speak of
undisturbed histories only, and `raced`, `crashed` never turn back, so nothing of theirs is lost;
InitExclusive and TypeOK see the overlaps and crashes. In `parts`: two links need two logins, and a third
call disables, deletes or edits; three sockets let a second connection hide a first while another token is
untouched; a request runs in two parts, `guards` with the session changing and bodies of the smallest kind, and `saves` with the
rows changing, as the guards look at no body and the validation and the handler at no session; three role ids are that of the
request, one that collides with it and one to be handed out; two requests for a code conflict on an ip, an address, both or neither; four
rows make a full page, a partial one and an empty one; two jobs of a task share its log.

What the passing runs show, and under which proviso:

* **RevokedUntilLogin**: after a password change or the first deletion of
  `forbidden` no token of the user passes, until a login writes the version. It holds
  although `upgradePasswordV` is a racy get and set: an absent version is left
  absent, and no write but a login's is 1.
* **RemovedStaysOut**: a disabled or deleted user is refused, with two
  exceptions that the code has and the property names: a login that had found the
  user active writes the version back (`late`), and a deletion that failed between the row
  and Redis leaves the token good until it expires (`RemovalPending`).
  Logins are those by email: `loginWithOAuth` takes the user of an existing provider
  row whatever its status, see DisabledOnlyByLink.
* **LoggedOutStaysOut**: the blacklist entry outlasts the token but for the last
  half second, lost to `toFixed(0)`. In the last half second the TTL rounds to 0,
  Redis refuses, and the logout call fails.
* **RefusedUntilLogin**, an action property: an issued token that the guard refuses is accepted
  again only by the write of the token key or of the version in a login of its user (with one
  device: that login may have made the equal token), or in the half second in which the
  blacklist entry may have gone before the token. That a version is revived by the racy
  get and set, or that an entry is cut short by the logout of an equal token, would violate it. TLC
  checks it with several devices; the theorem covers one device too.
* **FreshSessionUsable**: all four stores agree that an undisturbed session is
  good, to the end of its JWT. What ends it early is part of the statement, among
  it the logout of an *equal* token.
* **CacheFollowsGrants, OnlineHasPermissions**: up to writes that were *overtaken* (a
  refresh that read before a later change and wrote after it; a deletion by
  forbidden after a new login), which the code does not prevent.
* **OneAtATime, OnceWithinExpired, FailureForgotten**: up to the race of two requests
  that read the key before either wrote it (`raced`).
* **SingleUse, OneActive, LimitKept, AttemptsCountMatches**: up to overlaps of calls
  on the same rows. AttemptsCountMatches says the counter stays at most one: the
  lockout is out of reach, see findings.
* **DuplicatesHaveCause, OverlapHasCause, ImplementsDelivery**: a recipient gets at most one mail
  per attempt and stall; every invocation of a handler too many at a time took a lost lock, or the timeout of a bulk
  job; every job ends and a completed one reached everybody.
* **StoppedMeansQuiet, StartedMeansScheduled, NeverStuck**: unless a start overlapped with
  another call, or a process died, a disabled task has no repeatable job, an
  enabled one exactly that of its schedule with its next run queued, and stop never
  meets unsaved options. With an overlap or a crash between `add` and the saving of the options
  all three fail in the code: the job is then removable by nobody.
* **OneLinkUnlessRaced**: an identity has one link and a user one per provider,
  although nothing but the order of find and insert says so, unless two logins of that identity
  or user overlapped.
* **DisabledOnlyByLink**: a user disabled before a login began gets in only through a
  link, where no status is looked at. By email nobody finds it, and its unique
  email keeps a second account from being made.
* **RootRemains**: deleting users never removes the last root user, though only one
  of them is refused by name, unless an update took the role away.
* **CodesAreLimited**: within the life of a limit one code leaves per address and per
  ip, but for requests that checked before the other had written (`missed`); the route lets half
  of its throttle through.
* **RunsAuthorised**: the handler of a route that is not public runs only for a token that no revocation
  stood against from the request's arrival on. One that came later, or was lifted for a moment by a login, need not stop it:
  the four reads are no snapshot. With several devices a replaced token is good.
* **AnswerTells**: a code of 200 means saved, and what was saved is answered with 200 or a timeout, unless another
  request changed this role, saved this value, or deleted a menu between the lookup and the save (`raced`). Without
  one, "Server busy" (500) is still the answer to a role that does not exist and to a name in use.
* **WalkSeesAll**: holds for tasks (ascending) and logs (newest first, the login logs whole) while rows are
  added; rows removed meanwhile may hide others.
* **RunsAreLogged**: success is logged of what returned only, and a completed job has
  exactly its entry, but for failed writes and jobs run twice.
* **ExpiredAreGone**: unless a later connection with the token took the place in the map.
* **BothTypeOK**: beside the types of EmailQueue and NotifyManager, that outside a batch no callback is left
  in the queue, also when one throws.
* **ImplementsNotifications**: every callback scheduled is called, once and in
  order, or was behind one that threw. (`GiveUp` of Notifications asks for a callback that was called, not for one
  of the same batch; NotifyManager gives up the rest of one batch only.)
* **MigrationUsable**: no statement of up or down is ever refused; down leaves nothing; the seeded
  user has role 1, the id the code takes for the root's.
* **InitExclusive**: assuming an initialisation takes less than the half hour
  its lock lives (LockExpire fires only for a dead or stuck holder).

Several of these name exceptions by a history variable: `late`, `overtaken`, `raced`, `racedReq`, `overlapped`, `reopened`,
`missed`, `trouble`. There the code does the unwanted thing, and the property does not catch it; what it says
is that nothing else leads there. The notes of the hazards in `PROJECT.json` say for each which part of it is excused and what
is left that a run checks.

Every property of a passing run is sensitive to the code: for each,
`PROJECT.json` names a mutant, a plausible bug in one operator under which TLC finds
the property violated.

### Fairness

EmailQueue and NotifyManager claim liveness. EmailQueue assumes weak fairness of Bull's handling of
each job (taking, backing off, detecting a stall; Bull polls and uses timers for
these) and of each handler (the mail server answers or the connection times
out, so a promise settles). NotifyManager assumes that synchronous code ends: a
batch that was begun ends (strongly fair, since inner batches come and go), and
the event loop fires its timers and calls the callbacks of one. Scheduling and throwing are not fair. Adding a job, crashing, losing a lock and timing out are not fair. Bull's bounds on attempts and
stalls make the model terminate; without fairness a job may stay queued for ever. The other
specifications state safety only.

### Findings

1. `menu.service.ts:151`: `checkRoleByMenuId` compares the menu's id with the ids of
   its roles. Menus in use can be deleted (run rbac_menu), unused ones refused.
2. `idempotence.interceptor.ts:117`: `KEEPTTL` on a key another request removed
   leaves one without expiry: that request is refused for ever (idempotence_forever).
3. `password-reset.service.ts:91`: attempts are counted on the row found *by the
   code*, so wrong guesses are never counted and the lockout of
   `error-code.constant.ts:40` never happens (password_reset_lockout). The throttler limits
   a client to five verifications in ten minutes, which is another mechanism.
4. `task.service.ts:283`: a run that takes longer than its period is taken for
   the end of the task, which is disabled (task_early).

## 5. The proofs

Eight modules hold theorems; `tlapm` checks each to its last leaf. A theorem holds for every value
of the constants that meets the named assumptions: for any number of users, calls, requests, jobs,
rows and callbacks, and for an unbounded clock (MaxNow is arbitrary). The small instances of section 4 show
that the same statements are not vacuous: TLC reaches the situations they speak of, and finds them violated
by the mutants.

| module | proves | of |
|---|---|---|
| `SessionProofs` | TypeOK, RevokedUntilLogin, RemovedStaysOut, LoggedOutStaysOut, RefusedUntilLogin, FreshSessionUsable | Session |
| `RbacProofs` | TypeOK, CacheFollowsGrants, OnlineHasPermissions | Rbac |
| `IdempotenceProofs` | TypeOK, OneAtATime, OnceWithinExpired, FailureForgotten | Idempotence |
| `PasswordResetProofs` | TypeOK, SingleUse, OneActive, LimitKept, AttemptsCountMatches | PasswordReset |
| `EmailQueueProofs` | TypeOK, OverlapHasCause, DuplicatesHaveCause, and that EmailQueue implements the safety part of MailDelivery; NotifyTypeOK, and that NotifyManager implements the safety part of Notifications; BothTypeOK, and all of it of the composition | EmailQueue, NotifyManager, MCEmailQueue |
| `TaskSchedulerProofs` | TypeOK, InitExclusive, StoppedMeansQuiet, StartedMeansScheduled, NeverStuck | TaskScheduler |
| `AccountsProofs` | AccountsTypeOK, RootRemains, DisabledOnlyByLink, OneLinkUnlessRaced | Accounts |
| `PartsProofs` | ExpiredAreGone, RunsAuthorised, AnswerTells, RunsAreLogged, CodesAreLimited, WalkSeesAll, MigrationUsable, PartsTypeOK, and all of them of the composition | SocketGateway, RequestPipeline, TaskRuns, VerificationCode, Listing, InitialSchema, MCParts |

### Assumptions

TLC evaluates all of them, each in a run whose module extends the one that makes it. Most say no more than
that a constant is a number, or that two kinds of name do not clash
(`NoCode \notin Codes`, `None \notin Schedules \union Boots`, `Addresses \intersect Ips = {}`, what stands for no row, a deleted one and a field left out is no name and no value,
`NoService` is not a service). Those of substance:

* `IdempotenceAssumption`: `Expired > Timeout + Lag`, a mark outlives the request that set it. The
  code's values are 60 s, 15 s and a Redis round trip.
* `SessionAssumption`: JwtExpire is a positive number of seconds.
* `AccountsAssumption`: `1 \in Ids \intersect LinkIds`: ids are sequences that start at 1, the root user's.
* `RbacAssumption`: the root role is one of the roles. `RolesAssumption`: role ids are positive, 0 is "no role".
* `CodeAssumption`: `Throttle \in 0..3`. A request is counted twice, so that 2 and 3 let one through a window; the
  route's own value is the constant 2.

### The arguments

Session:

* `TypeCorrect`: TypeOK is inductive, given that a change that read a version
  holds one of at least 1 (ChangeTyped).
* `Revocation`: RevokedUntilLogin is inductive with TypeOK; the lemma `VersionWrites`
  lists what a step may write to a password version.
* `Removal`: RemovedStaysOut says nothing of a removal under way, so it is
  strengthened to `RemovalInv`: from the first deletion on the version stays out
  or the user is `late`, and every login still under way for a user who is not
  active is recorded in `overlap`.
* `Logout`: `LogoutInv` carries the entry from the step that writes it to the step
  that finishes the call, and bounds what rounding loses by one quarter (lemma
  `RoundingLoss`, the arithmetic of toFixed).
* `RefusedStaysRefused`: one lemma per store says what alone can make it good again: `IssuedStays`,
  `VersionBack` (a version becomes 1 only in LoginSetPV, or is 1 already when upgradePasswordV
  writes), `KeyBack` (the token key), `BlacklistStays`, `ClockAdvances`; `LogoutInvariant`, the invariant
  of `Logout`, bounds how early the blacklist entry ends. `RefusedStep` puts them together.
* `FreshSessions`: `MintInv` (iat is not in the future, a row outlives its token) and
  `FreshInv`, which says at every step of the login which stores agree already.

Idempotence: `AnswerInv` ties answers to program points; `TimingInv` bounds how old a
command and a mark can be; `OwnerInv` says that without a race the key belongs to
the one request still to confirm or remove its mark, or to the last that
succeeded; `SuccessInv` spaces the successes. Their conjunction with TypeOK is
inductive (`Inductive`); Exclusion and OncePerWindow follow. `Failure` needs only
TypeOK and AnswerInv.

Rbac: TypeOK, which holds the foreign keys, needs that the id of a call about to save was
handed out (`RoleIdKnown`). Then CacheFollowsGrants and OnlineHasPermissions are inductive together
(`CacheInv`): a step that changes what the database grants leaves its caller at the scan of those online, or
fetching for the one user it concerns, so that nobody concerned is settled; and what ends a fetch is its
write, or makes the user `overtaken`.

PasswordReset: four chains on top of the types. `HoldInv`: outside `overlapped` one verification at
most holds a row found unused, and none once one has succeeded. `AloneInv`: outside `racedReq` one request
is between its count and its save. `ClearInv`, on top of it: one about to save has left no code active but
those put back. `LimitInv`: one that was counted found fewer than Limit, and what is Recent only
shrinks until it saves. `AttemptsInv`: outside overlaps and failures a holder read 0 attempts.

EmailQueue: the invariant counts (`JobCounts`): a job that waits was started once per attempt made and
per stall, one that is active once more. From it: `OrphanInv`, of a mail that is not bulk at
most as many invocations run without being the current one as the job lost its lock (OverlapHasCause; a bulk
job, which may time out as well, runs no more often than its attempts and stalls allow); `CountInv`, a recipient has at most one mail per
invocation that no longer has it to do (DuplicatesHaveCause); `ServedInv`, an invocation without an error has
served everybody it has no longer to do, so that the step that completes a job is the step
`Complete` of MailDelivery. The lemma `NextIsJobStep` reduces the actions to a few shapes of step,
and the refinement is proved of the shapes.

NotifyManager: `NotifyInv` adds to the types that no timer is empty and that what is left of a
batch stands behind a callback that was called (GiveUp requires it). The mapping, `running \o FlattenSeq(timers) \o
queue`, goes through a function that the library defines by recursion. The lemmas `FlattenExists`,
`FlattenUnique`, `FlattenAppend` and `FlattenHead` say what it computes, by induction over
a set of numbers (`NatSetInduction`, from the well-foundedness of < on Nat): the library's
induction for a predicate is out of the provers' reach, and this is not. Then a flush leaves
what waits as it is, scheduling appends to it, a call takes its head, and an exception cuts off what ran.

TaskScheduler: `TypeInv` includes `LockOK`, which is InitExclusive: whoever initialises holds the lock. The
other three are proved together of undisturbed histories. `SafeInv` says at each step of the chain exist, list,
remove, disable, add, save what is known of Bull's jobs (`StopOK`: at most that of the options read; none after the
removal; that of the new schedule before the save), that a start is alone (`Alone`), that what a caller goes on with is
what the row says (`RereadOK`, `StartOK`), and that a row at odds with Bull has a call that will put it
right (`Stops`, `Starts`, `OptsOK`). TLC checked it as an invariant before the proof.

Accounts: `TypeInv` has, per step of a call, what its record holds. RootRemains: `RootInv`, user 1 keeps the root
role until a demotion, and no deletion let through names it. DisabledOnlyByLink: `DisabledInv`, ids are
not handed out twice, and a login past its look at the status that did not come by a link found an
active user. OneLinkUnlessRaced: `UserInv` and `PidInv` say, of what did not overlap, that one call at most is about
to add a link, that there is none yet, and that everybody under way agrees on whose it will be; `ReplaceInv` that one
who replaces a link keeps its owner. The types need that an update under way has its email to itself
(`ClaimsOK`): the row locks.

The parts:

* SocketGateway: `MapOK`, the map has the last socket to come in with a token; `GoneOK`, those before the expiry have gone or were hidden.
* RequestPipeline: `GuardsOK` says after each guard what it has found, of what stood against the token ever
  since the request arrived (`SinceArrival`: it only gets less); `StepOK` what the validation, the update, the found role and the
  found menus mean for the next step as long as nobody got in the way; `SaveOK` what is saved and what is answered;
  `UniqueRows` that the unique columns hold.
* TaskRuns: `LoggedOK` relates the calls that returned and the entries logged, per step of the job.
* VerificationCode: `PairsOK`, of two requests past the checks for one address or ip one missed the other's limit or they
  are LimitTTL apart; `LimitsOK`, a limit written outlives the mail; `EmailsOK`, mails are in the order of the clock, one per
  request; `ThrottleOK`, one request per ip and window.
* Listing: `WalkOK`, a row not seen yet stands behind the pages read, in both orders of the list (one page of login logs reads all).
* InitialSchema: `SchemaInv`. While up stands at its n-th statement, what the statements before it make is there
  and nothing else (`MadeUpTo`); while down does, what the statements before it drop is gone (`DroppedUpTo`); between runs the schema is what the last committed run left (`AtRest`), to which a rollback
  returns. The two lists are unfolded one statement at a time (`UpParts`, `DownParts`), and the lemmas
  `UpInOrder` and `DownInOrder` say of each statement that up makes a thing once and after what it needs, and that
  down drops everything, the users before any type.
* The types of the other parts need little more than themselves: of TaskRuns that a method is called once, and once more after a stall, and that no log row is of a task
  that is gone (`CalledOK`, `LogRowsOK`); the upper bounds are those that the guards name.
* MCParts: a step of the composition is a step of one part and leaves the variables of the others alone
  (`StepOfEach`), so a behaviour of it is a behaviour of each part (`EachPart`); `PartsTyped` and `PartsSafe` follow from
  the theorems of the parts. MCEmailQueue goes the same way (`BothBehave`, `BothTyped`, `BothSafe`).

### What is only model-checked

* Liveness: that every job ends (the rest of ImplementsDelivery) and every callback is called or given
  up (the rest of ImplementsNotifications), under the fairness above; the proof system has no rules for it.
* The four violated properties: a counterexample is the proof.

## 6. What is not modelled, and why

* refreshToken, checkAccessToken, cleanupExpiredOtps, getOtpStats, retryFailedJob,
  cleanCompletedJobs, checkCode, linkOAuthProvider, unlinkOAuthProvider,
  clearLogBeforeTime, paginateRawAndEntities, the CRUD factory, ResourceGuard, list2Tree,
  filterTree: no route or job calls them.
* The image captcha: a key that is set and never read by a route.
* Decorators, transformation, wiring, logging: no state over time that a property would be about.
* The lists of users and of roles: the queries have no ORDER BY, so that nothing can be
  said of their pages.
* The inside of Bull, Redis, Postgres and TypeORM: external, atomic per command
  or statement. `j.remove()` in the task service is not awaited by the code; the model
  lets it take effect with the removal of the repeatable job that follows.
* Unhandled rejections (a stuck `updateTaskCompleteStatus`, a missing row after
  logout) are only logged by `any-exception.filter.ts`; the models end the call there.

Behaviour of the code a reader of the models will meet, allowed for in the
properties above: a code is consumed by `/verify-otp`, so that `/reset` with the same code is
refused; `resetPassword` for a user who has gone fails after the code was consumed; a
code is mailed even to addresses nobody has; a bulk retry writes to everybody again;
a timed-out request leaves its mark pending until the mark expires; the initialisation lock's
expiry is renewed by processes that do not get it; the daily limit on codes (ErrorEnum 1202)
is read from keys that nothing writes, and is never reached; the throttle of
`/auth/email/send` lets half as many requests through as it says; updating a role that does not
exist answers "Server busy"; updating a task without a service throws a TypeError
(`task.controller.ts:53`, the field is optional in the DTO); a run whose log entry could not be written is logged as a
failure; the permissions of the task log and the login log are swapped (`log.controller.ts:40,50`);
nothing emits TokenExpired, so that the gateways never disconnect anybody.
