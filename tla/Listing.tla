-------------------------------- MODULE Listing --------------------------------
(***************************************************************************)
(* The paged lists: GET /tasks, /log/task/list and /log/login/list.  A     *)
(* page is two queries, the rows and their count, in no transaction; rows  *)
(* are written in between and between the pages.  The filters and the      *)
(* columns are left out.  (Users and roles are listed in no order at all.) *)
(***************************************************************************)
EXTENDS Integers, FiniteSets

CONSTANTS
    DefaultLimit,   \* pageSize when none is given
    MaxLimit,       \* @Max of pageSize
    MaxRows,        \* ids that are handed out (a bound)
    MaxPages        \* pages that are asked for (a bound)

ASSUME ListAssumption ==
    DefaultLimit \in Nat /\ MaxLimit \in Nat /\ MaxRows \in Nat /\ MaxPages \in Nat \ {0}

VARIABLES
    kind,           \* which list
    table, lastId,  \* the ids of its rows, and the last handed out
    query,          \* the request
    walk            \* history: pages 1, 2, ... asked for with one limit, see NoWalk

listVars == <<kind, table, lastId, query, walk>>

\* In place of a number: not given, not read yet.
Missing == -1

\* Tasks come by id, the logs newest first.  paginateRaw, of the login logs, sends its two
\* queries at once; nothing writes login logs any more.
Kinds == {"tasks", "taskLogs", "loginLogs"}
Descending == kind # "tasks"
AtOnce == kind = "loginLogs"

NoQuery == [pc |-> "idle", page |-> 0, limit |-> 0, items |-> {}, total |-> Missing]

\* pages: how many were asked for so far, 0 without a walk; start: the rows when it
\* began; seen: those it was given; removed: rows that went meanwhile.
NoWalk == [pages |-> 0, limit |-> 0, start |-> {}, seen |-> {}, removed |-> FALSE]

ListInit ==
    /\ kind \in Kinds
    /\ lastId \in 0..MaxRows
    /\ table = 1..lastId
    /\ query = NoQuery
    /\ walk = NoWalk

-----------------------------------------------------------------------------
(* PagerDto and resolveOptions *)

PageOf(page) == IF page = Missing THEN 1 ELSE page
LimitOf(size) == IF size = Missing THEN DefaultLimit ELSE size

Valid(page, size) == PageOf(page) >= 1 /\ LimitOf(size) \in 1..MaxLimit

AskPage(page, size) ==
    LET p == PageOf(page)
        limit == LimitOf(size)
    IN  /\ query.pc \in {"idle", "answered"}
        /\ Valid(page, size)
        /\ query' = [NoQuery EXCEPT !.pc = "reading", !.page = p, !.limit = limit]
        /\ walk' = IF p = 1 THEN [NoWalk EXCEPT !.pages = 1, !.limit = limit, !.start = table]
                   ELSE IF p = walk.pages + 1 /\ limit = walk.limit THEN [walk EXCEPT !.pages = p]
                   ELSE NoWalk
        /\ UNCHANGED <<kind, table, lastId>>

-----------------------------------------------------------------------------
(* paginate, paginateRaw, createPaginationObject *)

SkipPage(page, limit) == page * limit
Skip(page, limit) == (page - 1) * limit

\* take and skip do not count in a raw query with a join, as that of the login logs.
Before(r) == {s \in table : IF Descending THEN s > r ELSE s < r}
Page(page, limit) ==
    {r \in table : \/ kind = "loginLogs"
                  \/ Cardinality(Before(r)) \in Skip(page, limit)..Skip(page, limit) + limit - 1}

ReadItems ==
    /\ query.pc = "reading"
    /\ query' = [query EXCEPT !.items = Page(query.page, query.limit),
                              !.pc = IF query.total = Missing THEN "counting" ELSE "answered"]
    /\ walk' = IF walk.pages = 0 THEN walk ELSE [walk EXCEPT !.seen = @ \union query'.items]
    /\ UNCHANGED <<kind, table, lastId>>

Count ==
    /\ query.pc = "counting" \/ (query.pc = "reading" /\ AtOnce /\ query.total = Missing)
    /\ query' = [query EXCEPT !.total = Cardinality(table),
                              !.pc = IF query.pc = "counting" THEN "answered" ELSE "reading"]
    /\ UNCHANGED <<kind, table, lastId, walk>>

TotalPages == (query.total + query.limit - 1) \div query.limit

-----------------------------------------------------------------------------
(* What is written meanwhile *)

AddRow ==
    /\ kind # "loginLogs" /\ lastId < MaxRows
    /\ table' = table \union {lastId + 1}
    /\ lastId' = lastId + 1
    /\ UNCHANGED <<kind, query, walk>>

Removed(left) ==
    /\ table' = left
    /\ walk' = IF walk.pages = 0 THEN walk ELSE [walk EXCEPT !.removed = TRUE]
    /\ UNCHANGED <<kind, lastId, query>>

DeleteTask(r) == kind = "tasks" /\ r \in table /\ Removed(table \ {r})

\* TRUNCATE, by the job LogClearJob; the sequence of ids goes on.
ClearLogs == kind # "tasks" /\ table # {} /\ Removed({})

ListNext ==
    \/ \E page \in {Missing} \union 0..MaxPages, size \in {Missing} \union 0..MaxLimit + 1 :
         AskPage(page, size)
    \/ ReadItems \/ Count \/ AddRow \/ ClearLogs
    \/ \E r \in 1..MaxRows : DeleteTask(r)

ListSpec == ListInit /\ [][ListNext]_listVars

-----------------------------------------------------------------------------
(* Properties *)

ListTypeOK ==
    /\ kind \in Kinds
    /\ lastId \in 0..MaxRows /\ table \subseteq 1..lastId
    /\ query \in [pc : {"idle", "reading", "counting", "answered"}, page : 0..MaxPages,
                  limit : 0..MaxLimit, items : SUBSET (1..lastId), total : {Missing} \union 0..MaxRows]
    /\ walk \in [pages : 0..MaxPages, limit : 0..MaxLimit, start : SUBSET (1..lastId),
                 seen : SUBSET (1..lastId), removed : BOOLEAN]

(* Whoever asks for page after page, until the totalPages of an answer, has *)
(* seen every row there was when the first page was asked for: rows added   *)
(* meanwhile may repeat some of them, only rows removed may hide any.       *)
WalkSeesAll ==
    query.pc = "answered" /\ walk.pages > 0 /\ walk.pages >= TotalPages /\ ~walk.removed
        => walk.start \subseteq walk.seen

=============================================================================
