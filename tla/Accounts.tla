------------------------------ MODULE Accounts ------------------------------
(***************************************************************************)
(* User accounts: registering, logging in by email or through an OAuth     *)
(* provider, editing, disabling and deleting them.  Postgres holds the     *)
(* users and the links to identities at a provider; Redis holds            *)
(* auth:token:uid (is the user online).  Every read and every write of a   *)
(* call is a step of its own; a commit the database refuses ends the call. *)
(***************************************************************************)
EXTENDS Integers, FiniteSets

CONSTANTS
    Ids,        \* user ids the sequence can hand out (a bound)
    LinkIds,    \* ids for the rows of sys_user_oauth_providers (a bound)
    Emails,
    NoEmail,    \* an id without a row; an OAuth profile without email
    Providers,
    Pids,       \* user ids at a provider
    Calls       \* requests, each used at most once

ASSUME AccountsAssumption ==
    /\ Ids \subseteq Nat \ {0} /\ LinkIds \subseteq Nat \ {0} /\ 1 \in Ids \intersect LinkIds
    /\ NoEmail \notin Emails /\ Providers \subseteq {"google", "apple"}

VARIABLES
    users, usedIds,     \* the rows of users, and the ids handed out so far
    email, active,      \* users.email, and whether users.status is ACTIVE
    roots,              \* users with the root role
    default,            \* is there a role with default = true
    links, usedLinks,   \* the rows of sys_user_oauth_providers, ids handed out
    online,             \* users with an auth:token key
    call,               \* the requests
    disabled,           \* history, per call: users disabled ever since it began
    overlapped,         \* history: where an OAuth login missed what another was saving
    demoted             \* history: an update took the root role from a user

rows == <<users, usedIds, email, active, roots>>
linkRows == <<links, usedLinks>>
history == <<disabled, overlapped, demoted>>
accountVars == <<rows, default, linkRows, online, call, history>>

First(S) == CHOOSE i \in S : \A j \in S : i <= j
NextId(S, used) == First(S \ used)

NoCall == [pc |-> "idle", kind |-> "none", email |-> NoEmail, user |-> 0, via |-> "none",
           provider |-> "none", pid |-> "none", link |-> 0, on |-> TRUE, root |-> FALSE,
           ids |-> {}]

AccountsInit ==
    /\ \E n \in Ids : users = {i \in Ids : i <= n}
    /\ usedIds = users
    /\ email \in {f \in [Ids -> Emails \union {NoEmail}] :
                    \A u, v \in Ids : /\ f[u] # NoEmail <=> u \in users
                                      /\ f[u] = f[v] /\ u \in users => u = v}
    /\ active \in {f \in [Ids -> BOOLEAN] : f[1] /\ \A u \in Ids \ users : ~f[u]}
    /\ roots = {1}
    /\ default \in BOOLEAN    \* a role without users may have been deleted
    /\ links \in {{}} \union {{[id |-> 1, user |-> u, provider |-> p, pid |-> i]} :
                                u \in users, p \in Providers, i \in Pids}
    /\ usedLinks = {l.id : l \in links}
    /\ online = {}
    /\ call = [c \in Calls |-> NoCall]
    /\ disabled = [c \in Calls |-> {}]
    /\ overlapped = [pid |-> {}, user |-> {}] /\ demoted = FALSE

-----------------------------------------------------------------------------
(* The rows of users, and what the database refuses *)

Taken(e) == \E u \in users : email[u] = e
UniqueRefuses(e) == Taken(e)

\* findUserByEmail: active users only.
FoundByEmailOnly(e) == {u \in users : email[u] = e}
FoundByEmail(e) == {u \in users : email[u] = e /\ active[u]}

\* manager.save(u): one row, active or not, with the root role or not.
InsertUser(e, on, root) ==
    LET u == NextId(Ids, usedIds)
    IN  /\ usedIds # Ids
        /\ users' = users \union {u}
        /\ usedIds' = usedIds \union {u}
        /\ email' = [email EXCEPT ![u] = e]
        /\ active' = [active EXCEPT ![u] = on]
        /\ roots' = IF root THEN roots \union {u} ELSE roots

\* update and delete of a row wait for the transaction of update(), which wrote
\* the row before it empties Redis.
Updating(d) == call[d].pc \in {"forbid", "commit"}
Locked(u) == \E d \in Calls : Updating(d) /\ call[d].user = u

\* So does a write of the email it takes from the row, or gives it.
Pending(e) == \E d \in Calls : Updating(d) /\ e \in {call[d].email, email[call[d].user]}

\* A call that is over keeps nothing.
Ended == [NoCall EXCEPT !.pc = "done"]

GoOn(c, pc) == call' = [call EXCEPT ![c].pc = pc]
End(c) == call' = [call EXCEPT ![c] = Ended]

Begin(c, r) ==
    /\ call[c].pc = "idle"
    /\ call' = [call EXCEPT ![c] = IF r.pc = "done" THEN Ended ELSE r]
    /\ disabled' = [disabled EXCEPT ![c] = {u \in users : ~active[u]}]

-----------------------------------------------------------------------------
(* POST /auth/login and /auth/register, POST /users *)

CreateFind(c, kind, e, on, root) ==
    /\ Begin(c, [NoCall EXCEPT !.pc = IF Taken(e) THEN "done" ELSE "insert",
                               !.kind = kind, !.email = e, !.on = on, !.root = root])
    /\ UNCHANGED <<rows, default, linkRows, online, overlapped, demoted>>

CreateSave(c) ==
    LET r == call[c]
    IN  /\ r.pc = "insert" /\ ~Pending(r.email)
        /\ IF UniqueRefuses(r.email)
           THEN End(c) /\ UNCHANGED rows
           ELSE /\ InsertUser(r.email, r.on, r.root)
                /\ call' = [call EXCEPT ![c].pc = IF r.kind = "register" THEN "login" ELSE "done",
                                        ![c].user = NextId(Ids, usedIds)]
        /\ UNCHANGED <<default, linkRows, online, history>>

\* loginWithEmail after register: the password is that of the account created.
RegisterLogin(c) ==
    LET r == call[c]
    IN  /\ r.pc = "login"
        /\ IF r.user \in FoundByEmail(r.email)
           THEN call' = [call EXCEPT ![c].pc = "sign", ![c].via = "email"]
           ELSE End(c)
        /\ UNCHANGED <<rows, default, linkRows, online, history>>

\* loginWithEmail on its own, with the password of the account.
Login(c, e) ==
    LET found == FoundByEmail(e)
    IN  /\ Begin(c, [NoCall EXCEPT !.pc = IF found = {} THEN "done" ELSE "sign",
                                   !.kind = "login", !.email = e, !.via = "email",
                                   !.user = IF found = {} THEN 0 ELSE First(found)])
        /\ UNCHANGED <<rows, default, linkRows, online, overlapped, demoted>>

\* generateAccessToken: the row of the token refers to the user's.
Sign(c) ==
    /\ call[c].pc = "sign"
    /\ IF call[c].user \in users THEN GoOn(c, "key") ELSE End(c)
    /\ UNCHANGED <<rows, default, linkRows, online, history>>

SetKey(c) ==
    /\ call[c].pc = "key"
    /\ online' = online \union {call[c].user}
    /\ GoOn(c, "in")
    /\ UNCHANGED <<rows, default, linkRows, history>>

-----------------------------------------------------------------------------
(* loginWithOAuth: the two callbacks and POST /auth/mobile/oauth *)

\* Apple may keep the email to itself; Google's profile and the body of the mobile
\* route always have one.
AppleEmails == Emails \union {NoEmail}
GoogleEmails == Emails
MobileEmails == Emails
ProfileEmails(p) == MobileEmails \union (IF p = "apple" THEN AppleEmails ELSE GoogleEmails)

LinksOf(p, pid) == {l \in links : l.provider = p /\ l.pid = pid}
LinksOfUser(u, p) == {l \in links : l.user = u /\ l.provider = p}

\* Another OAuth login of this identity has not saved its link yet.
SavePending(c, p, pid) ==
    \E d \in Calls \ {c} : /\ call[d].kind = "oauth" /\ call[d].provider = p /\ call[d].pid = pid
                           /\ call[d].pc \in {"byEmail", "create", "link", "saveLink"}

OAuthFind(c, p, pid, e) ==
    LET found == LinksOf(p, pid)
        l == CHOOSE k \in found : \A j \in found : k.id <= j.id
        r == [NoCall EXCEPT !.kind = "oauth", !.email = e, !.provider = p, !.pid = pid]
    IN  /\ Begin(c, IF found # {} THEN [r EXCEPT !.pc = "link", !.user = l.user, !.via = "link"]
                    ELSE [r EXCEPT !.pc = IF e = NoEmail THEN "done" ELSE "byEmail"])
        /\ overlapped' = IF found = {} /\ SavePending(c, p, pid)
                         THEN [overlapped EXCEPT !.pid = @ \union {<<p, pid>>}] ELSE overlapped
        /\ UNCHANGED <<rows, default, linkRows, online, demoted>>

OAuthByEmail(c) ==
    LET found == FoundByEmail(call[c].email)
    IN  /\ call[c].pc = "byEmail"
        /\ call' = IF found = {} THEN [call EXCEPT ![c].pc = "create"]
                   ELSE [call EXCEPT ![c].pc = "link", ![c].user = First(found), ![c].via = "email"]
        /\ UNCHANGED <<rows, default, linkRows, online, history>>

\* createOAuthUser: refused without a default role, and by the unique email.
OAuthCreate(c) ==
    LET e == call[c].email
    IN  /\ call[c].pc = "create" /\ ~Pending(e)
        /\ IF ~default \/ UniqueRefuses(e)
           THEN End(c) /\ UNCHANGED rows
           ELSE /\ InsertUser(e, TRUE, FALSE)
                /\ call' = [call EXCEPT ![c].pc = "link", ![c].user = NextId(Ids, usedIds),
                                        ![c].via = "new"]
        /\ UNCHANGED <<default, linkRows, online, history>>

\* upsertOAuthProvider reads the user's link at the provider, then saves.
SameLinkPending(c) ==
    \E d \in Calls \ {c} : /\ call[d].pc = "saveLink" /\ call[d].link = 0
                           /\ call[d].user = call[c].user /\ call[d].provider = call[c].provider

NewLink == 0
FoundNever(ls) == {NewLink}
Found(ls) == IF ls = {} THEN {NewLink} ELSE {l.id : l \in ls}

LinkFind(c) ==
    LET r == call[c]
        found == LinksOfUser(r.user, r.provider)
    IN  /\ r.pc = "link"
        /\ \E l \in Found(found) : call' = [call EXCEPT ![c].pc = "saveLink", ![c].link = l]
        /\ overlapped' = IF found = {} /\ SameLinkPending(c)
                         THEN [overlapped EXCEPT !.user = @ \union {<<r.user, r.provider>>}] ELSE overlapped
        /\ UNCHANGED <<rows, default, linkRows, online, disabled, demoted>>

SaveLink(c) ==
    LET r == call[c]
        id == IF r.link = NewLink THEN NextId(LinkIds, usedLinks) ELSE r.link
    IN  /\ r.pc = "saveLink"
        /\ r.link = NewLink => usedLinks # LinkIds
        /\ IF r.user \notin users    \* the foreign key refuses it
           THEN End(c) /\ UNCHANGED linkRows
           ELSE /\ links' = {l \in links : l.id # id} \union
                            {[id |-> id, user |-> r.user, provider |-> r.provider, pid |-> r.pid]}
                /\ usedLinks' = usedLinks \union {id}
                /\ GoOn(c, "sign")
        /\ UNCHANGED <<rows, default, online, history>>

-----------------------------------------------------------------------------
(* PUT /account/update: the user is found, then updated with no other check *)

AccountFind(c, u, e) ==
    /\ Begin(c, [NoCall EXCEPT !.pc = IF u \in users THEN "setEmail" ELSE "done",
                               !.kind = "account", !.email = e, !.user = u])
    /\ UNCHANGED <<rows, default, linkRows, online, overlapped, demoted>>

AccountSave(c) ==
    LET u == call[c].user
        e == call[c].email
    IN  /\ call[c].pc = "setEmail"
        /\ ~Locked(u) /\ ~Pending(e)
        /\ email' = IF u \notin users \/ (email[u] # e /\ UniqueRefuses(e)) THEN email
                    ELSE [email EXCEPT ![u] = e]
        /\ End(c)
        /\ UNCHANGED <<users, usedIds, active, roots, default, linkRows, online, history>>

(* PUT /users/:id: the row is written, or refused for its email; then        *)
(* forbidden, when the user is disabled; then the commit.                    *)

UpdateBegin(c, u, e, on, root) ==
    /\ u \in users /\ ~Locked(u) /\ ~Pending(e)
    /\ Begin(c, [NoCall EXCEPT !.pc = IF email[u] # e /\ UniqueRefuses(e) THEN "done"
                                      ELSE IF on THEN "commit" ELSE "forbid",
                               !.kind = "update", !.user = u, !.email = e, !.on = on, !.root = root])
    /\ UNCHANGED <<rows, default, linkRows, online, overlapped, demoted>>

UpdateForbid(c) ==
    /\ call[c].pc = "forbid"
    /\ online' = online \ {call[c].user}
    /\ GoOn(c, "commit")
    /\ UNCHANGED <<rows, default, linkRows, history>>

UpdateCommit(c) ==
    LET u == call[c].user
    IN  /\ call[c].pc = "commit"
        /\ email' = [email EXCEPT ![u] = call[c].email]
        /\ active' = [active EXCEPT ![u] = call[c].on]
        /\ roots' = IF call[c].root THEN roots \union {u} ELSE roots \ {u}
        /\ demoted' = (demoted \/ (u \in roots /\ ~call[c].root))
        /\ disabled' = [d \in Calls |-> IF call[c].on THEN disabled[d] \ {u} ELSE disabled[d]]
        /\ End(c)
        /\ UNCHANGED <<users, usedIds, default, linkRows, online, overlapped>>

(* DELETE /users/:id: findRootUserId, the delete with its cascades, then     *)
(* multiForbidden.  Without a root user, reading its id throws.              *)

RefusesAll(ids) == roots = {} \/ roots \subseteq ids
RefusesRoot(ids) == roots = {} \/ First(roots) \in ids

DeleteCheck(c, ids) ==
    /\ Begin(c, [NoCall EXCEPT !.pc = IF RefusesRoot(ids) THEN "done" ELSE "delete",
                               !.kind = "delete", !.ids = ids])
    /\ UNCHANGED <<rows, default, linkRows, online, overlapped, demoted>>

NotCascaded(gone) == links
Cascaded(gone) == {l \in links : l.user \notin gone}

DeleteRows(c) ==
    LET gone == call[c].ids \intersect users
    IN  /\ call[c].pc = "delete"
        /\ \A u \in gone : ~Locked(u)
        /\ users' = users \ gone
        /\ email' = [u \in Ids |-> IF u \in gone THEN NoEmail ELSE email[u]]
        /\ active' = [u \in Ids |-> active[u] /\ u \notin gone]
        /\ roots' = roots \ gone
        /\ links' = Cascaded(gone)
        /\ GoOn(c, "forbidAll")
        /\ UNCHANGED <<usedIds, default, usedLinks, online, history>>

DeleteForbid(c) ==
    /\ call[c].pc = "forbidAll"
    /\ online' = online \ call[c].ids
    /\ End(c)
    /\ UNCHANGED <<rows, default, linkRows, history>>

-----------------------------------------------------------------------------

Start(c) ==
    \/ \E e \in Emails :
         \/ CreateFind(c, "register", e, TRUE, FALSE)
         \/ \E on \in BOOLEAN, root \in BOOLEAN : CreateFind(c, "create", e, on, root)
         \/ Login(c, e)
    \/ \E p \in Providers, pid \in Pids : \E e \in ProfileEmails(p) : OAuthFind(c, p, pid, e)
    \/ \E u \in usedIds, e \in Emails : AccountFind(c, u, e)
    \/ \E u \in users, e \in Emails, on \in BOOLEAN, root \in BOOLEAN : UpdateBegin(c, u, e, on, root)
    \/ \E ids \in SUBSET usedIds \ {{}} : DeleteCheck(c, ids)

Step(c) ==
    \/ CreateSave(c) \/ RegisterLogin(c) \/ Sign(c) \/ SetKey(c)
    \/ OAuthByEmail(c) \/ OAuthCreate(c) \/ LinkFind(c) \/ SaveLink(c)
    \/ AccountSave(c) \/ UpdateForbid(c) \/ UpdateCommit(c)
    \/ DeleteRows(c) \/ DeleteForbid(c)

AccountsNext == \E c \in Calls : Start(c) \/ Step(c)

AccountsSpec == AccountsInit /\ [][AccountsNext]_accountVars

-----------------------------------------------------------------------------
(* Properties *)

CallState ==
    [pc : {"idle", "insert", "login", "sign", "key", "in", "byEmail", "create", "link", "saveLink",
           "setEmail", "forbid", "commit", "delete", "forbidAll", "done"},
     kind : {"none", "register", "create", "login", "oauth", "account", "update", "delete"},
     email : Emails \union {NoEmail}, user : Ids \union {0},
     via : {"none", "email", "link", "new"}, provider : Providers \union {"none"},
     pid : Pids \union {"none"}, link : LinkIds \union {NewLink}, on : BOOLEAN, root : BOOLEAN,
     ids : SUBSET Ids]

(* Types, with what the constraints of the schema keep: every link belongs   *)
(* to a user that exists, no two rows share an email or an id.               *)
AccountsTypeOK ==
    /\ users \subseteq usedIds /\ usedIds \subseteq Ids /\ roots \subseteq users
    /\ email \in [Ids -> Emails \union {NoEmail}] /\ active \in [Ids -> BOOLEAN]
    /\ \A u \in Ids : (email[u] # NoEmail <=> u \in users) /\ (active[u] => u \in users)
    /\ \A u, v \in users : email[u] = email[v] => u = v
    /\ default \in BOOLEAN /\ online \subseteq Ids /\ usedLinks \subseteq LinkIds
    /\ links \subseteq [id : usedLinks, user : users, provider : Providers, pid : Pids]
    /\ \A l, k \in links : l.id = k.id => l = k
    /\ call \in [Calls -> CallState] /\ disabled \in [Calls -> SUBSET Ids]
    /\ overlapped \in [pid : SUBSET (Providers \X Pids), user : SUBSET (Ids \X Providers)]
    /\ demoted \in BOOLEAN

(* No constraint covers sys_user_oauth_providers, and upsertOAuthProvider    *)
(* finds before it saves: still, a user has one link per provider and an     *)
(* identity belongs to one user, unless two of its logins overlapped and     *)
(* the second found nothing.                                                 *)
OneLinkUnlessRaced ==
    \A l, k \in links : l # k /\ l.provider = k.provider =>
        /\ l.user = k.user => <<l.user, l.provider>> \in overlapped.user
        /\ l.pid = k.pid /\ l.user # k.user => <<l.provider, l.pid>> \in overlapped.pid

(* loginWithOAuth looks at no status when it finds a link.  That is the only *)
(* way in for a user who was disabled before the login began: by email       *)
(* nobody finds it, and its email keeps a second account from being made.    *)
DisabledOnlyByLink ==
    \A c \in Calls : call[c].pc \in {"sign", "key", "in"} /\ call[c].user \in disabled[c]
                        => call[c].via = "link"

(* DELETE /users names one root user and refuses only that one; the others   *)
(* go.  As long as no update took the role from anybody, some root user is   *)
(* left whatever deletions overlap, and users can still be deleted.          *)
RootRemains == roots # {} \/ demoted

=============================================================================
