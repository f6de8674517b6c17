----------------------------- MODULE InitialSchema -----------------------------
(***************************************************************************)
(* The migration InitialSchema1730181600000, up and down, run by TypeORM   *)
(* in one transaction: a statement that Postgres refuses, or a process     *)
(* that dies, undoes all of it, and it may be run again.  A statement is   *)
(* what it makes or drops and what has to be there; indexes that nothing   *)
(* refers to and plain columns are left out.                               *)
(***************************************************************************)
EXTENDS Integers, Sequences, FiniteSets

VARIABLES
    step,       \* statements done of the run under way, or 0; and which run it is
    schema,     \* what exists: types, tables, foreign keys
    roleIds,    \* rows of sys_role: the id per value
    admin,      \* the roles of the seeded user, by id
    saved,      \* schema, roleIds and admin when the transaction began
    applied,    \* is the migration in TypeORM's table
    refused     \* history: a statement was refused

schemaVars == <<step, schema, roleIds, admin, saved, applied, refused>>
data == <<schema, roleIds, admin>>

\* From system.constant.ts: the code takes the role of this id for the root's.
RootRoleId == 1

Type(name) == [op |-> "type", name |-> name, needs |-> {}]
Table(name, types) == [op |-> "table", name |-> name, needs |-> types]
Key(from, to) == [op |-> "key", name |-> from, needs |-> {from, to}]
Insert(name, needs) == [op |-> "insert", name |-> name, needs |-> needs]
Drop(name) == [op |-> "drop", name |-> name, needs |-> {}]

Enums == <<"user_status", "gender_type", "experience_level", "training_goals", "sport_type">>
TypesOf(names) == {names[i] : i \in DOMAIN names}

CreateTypes == [i \in DOMAIN Enums |-> Type(Enums[i])]

CreateUsersAndRoles == <<
    Table("users", TypesOf(Enums)),
    Table("sys_role", {}),
    Table("sys_user_roles", {}), Key("sys_user_roles", "users"), Key("sys_user_roles", "sys_role"),
    Table("sys_menu", {}),
    Table("sys_role_menus", {}), Key("sys_role_menus", "sys_role"), Key("sys_role_menus", "sys_menu")>>

CreateTokens == <<
    Table("user_access_tokens", {}), Key("user_access_tokens", "users"),
    Table("user_refresh_tokens", {}), Key("user_refresh_tokens", "user_access_tokens"),
    Table("sys_user_oauth_providers", {}), Key("sys_user_oauth_providers", "users"),
    Table("sys_password_reset_otp", {})>>

CreateTasksAndLogs == <<
    Table("sys_task", {}),
    Table("sys_task_log", {}), Key("sys_task_log", "sys_task"),
    Table("sys_login_log", {}), Key("sys_login_log", "users"),
    Table("sys_captcha_log", {})>>

SeededRoles == <<"admin", "user">>

\* The user's roles are found by the value "admin".
Seed == <<Insert("sys_role", {}), Insert("users", {}), Insert("sys_user_roles", {"users", "sys_role"})>>

TypesLast == CreateUsersAndRoles \o CreateTypes \o CreateTokens \o CreateTasksAndLogs \o Seed
Up == CreateTypes \o CreateUsersAndRoles \o CreateTokens \o CreateTasksAndLogs \o Seed

DropTables == <<
    Drop("sys_captcha_log"), Drop("sys_login_log"), Drop("sys_task_log"), Drop("sys_task"),
    Drop("sys_password_reset_otp"), Drop("sys_user_oauth_providers"), Drop("user_refresh_tokens"),
    Drop("user_access_tokens"), Drop("sys_role_menus"), Drop("sys_menu"), Drop("sys_user_roles"),
    Drop("sys_role"), Drop("users")>>

DropTypes == [i \in DOMAIN Enums |-> Drop(Enums[Len(Enums) + 1 - i])]

Down == DropTables \o DropTypes

-----------------------------------------------------------------------------

Nothing == [types |-> {}, tables |-> {}, keys |-> {}]
NoRoles == [v \in {} |-> 0]
Resting == [run |-> "none", done |-> 0]

SchemaInit ==
    /\ step = Resting /\ applied = FALSE /\ refused = FALSE
    /\ schema = Nothing /\ roleIds = NoRoles /\ admin = {}
    /\ saved = data

Statements == IF step.run = "up" THEN Up ELSE Down
Names == schema.types \union schema.tables

\* What Postgres asks of a statement.  A type is not dropped while a table uses it.
Allowed(s) ==
    /\ s.needs \subseteq Names
    /\ s.op \in {"type", "table"} => s.name \notin Names
    /\ s.op = "insert" => s.name \in schema.tables
    /\ s.op = "drop" /\ s.name \in schema.types => "users" \notin schema.tables

Made(s) ==
    CASE s.op = "type" -> [schema EXCEPT !.types = @ \union {s.name}]
      [] s.op = "table" -> [schema EXCEPT !.tables = @ \union {s.name}]
      [] s.op = "key" -> [schema EXCEPT !.keys = @ \union {<<s.name, s.needs \ {s.name}>>}]
      [] s.op = "drop" -> [types |-> schema.types \ {s.name}, tables |-> schema.tables \ {s.name},
                           keys |-> {k \in schema.keys : s.name # k[1] /\ s.name \notin k[2]}]
      [] OTHER -> schema

\* Ids come from a sequence that was made with the table.
RolesAfter(s) ==
    IF s.op = "insert" /\ s.name = "sys_role"
    THEN [v \in TypesOf(SeededRoles) |-> CHOOSE i \in DOMAIN SeededRoles : SeededRoles[i] = v]
    ELSE IF s.op = "drop" /\ s.name = "sys_role" THEN NoRoles ELSE roleIds

AdminAfter(s) ==
    IF s.op = "insert" /\ s.name = "sys_user_roles" THEN {roleIds["admin"]}
    ELSE IF s.op = "drop" /\ s.name \in {"users", "sys_role", "sys_user_roles"} THEN {} ELSE admin

Migrate(run) ==
    /\ step = Resting
    /\ applied <=> run = "down"
    /\ step' = [run |-> run, done |-> 0]
    /\ saved' = data
    /\ UNCHANGED <<data, applied, refused>>

\* The transaction is rolled back.
Undo == step' = Resting /\ schema' = saved[1] /\ roleIds' = saved[2] /\ admin' = saved[3]

Statement ==
    LET s == Statements[step.done + 1]
    IN  /\ step.run # "none" /\ step.done < Len(Statements)
        /\ IF Allowed(s)
           THEN /\ schema' = Made(s) /\ roleIds' = RolesAfter(s) /\ admin' = AdminAfter(s)
                /\ step' = [step EXCEPT !.done = @ + 1]
                /\ UNCHANGED refused
           ELSE Undo /\ refused' = TRUE
        /\ UNCHANGED <<saved, applied>>

Commit ==
    /\ step.run # "none" /\ step.done = Len(Statements)
    /\ applied' = (step.run = "up")
    /\ step' = Resting
    /\ UNCHANGED <<data, saved, refused>>

RollBack ==
    /\ step.run # "none"
    /\ Undo
    /\ UNCHANGED <<saved, applied, refused>>

SchemaNext == Migrate("up") \/ Migrate("down") \/ Statement \/ Commit \/ RollBack

SchemaSpec == SchemaInit /\ [][SchemaNext]_schemaVars

-----------------------------------------------------------------------------
(* Properties *)

SchemaTypeOK ==
    /\ step.run \in {"none", "up", "down"} /\ step.done \in 0..Len(Statements)
    /\ \A k \in schema.keys : k[1] \in schema.tables /\ k[2] \subseteq schema.tables
    /\ applied \in BOOLEAN /\ refused \in BOOLEAN

(* The migration can always be run, undone and run again: no statement is   *)
(* refused, whatever was rolled back before; undone, it leaves nothing; and *)
(* applied, the seeded user has the role the code takes for the root's.     *)
MigrationUsable ==
    /\ ~refused
    /\ step = Resting =>
         IF applied THEN admin = {RootRoleId} /\ DOMAIN roleIds = {"admin", "user"}
         ELSE data = <<Nothing, NoRoles, {}>>

=============================================================================
