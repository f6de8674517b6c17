----------------------------- MODULE PartsProofs -----------------------------
(***************************************************************************)
(* Proofs about the smaller parts: SocketGateway, RequestPipeline,         *)
(* TaskRuns, VerificationCode, Listing and InitialSchema, each for any     *)
(* values of its constants, and about their composition in MCParts.        *)
(***************************************************************************)
EXTENDS MCParts, AccountsProofs, FiniteSetTheorems, SequenceTheorems, TLAPS

-----------------------------------------------------------------------------
(* SocketGateway.  The socket that came in last with a token is that of the  *)
(* map; a socket that has come in is never opened again.                     *)

TokenOf(m) == socket[registered[m]].token

SocketsOK ==
    /\ socket \in [Sockets -> [pc : {"new", "verify", "in", "failed"}, token : Tokens \union {NoToken}]]
    /\ \A s \in Sockets : socket[s].pc \in {"verify", "in"} => socket[s].token \in Tokens
    /\ open \subseteq {s \in Sockets : socket[s].pc \in {"verify", "in"}}
    /\ socketIdOf \in [Tokens -> Sockets \union {NoSocket}]
    /\ \A t \in Tokens : socketIdOf[t] # NoSocket => socket[socketIdOf[t]] = [pc |-> "in", token |-> t]
    /\ registered \in Seq(Sockets)
    /\ \A m \in DOMAIN registered : socket[registered[m]].pc = "in"
    /\ expired \in [Tokens -> 0..Len(registered)]
MapOK ==
    \A m \in DOMAIN registered :
        \/ socketIdOf[TokenOf(m)] = registered[m]
        \/ \E n \in m + 1..Len(registered) : TokenOf(n) = TokenOf(m)
GoneOK ==
    \A m \in DOMAIN registered :
        m <= expired[TokenOf(m)] /\ registered[m] \in open =>
            \E n \in m + 1..expired[TokenOf(m)] : TokenOf(n) = TokenOf(m)
GatewayInv == SocketsOK /\ MapOK /\ GoneOK

LEMMA GatewayInvInit == GatewayInit => GatewayInv
<1> SUFFICES ASSUME GatewayInit PROVE GatewayInv
  OBVIOUS
<1>1. /\ socket = [s \in Sockets |-> [pc |-> "new", token |-> NoToken]] /\ open = {}
      /\ socketIdOf = [t \in Tokens |-> NoSocket]
      /\ registered = <<>> /\ expired = [t \in Tokens |-> 0]
  BY DEF GatewayInit
<1>2. registered \in Seq(Sockets) /\ DOMAIN registered = {} /\ Len(registered) = 0
  BY <1>1
<1>3. SocketsOK
  BY <1>1, <1>2 DEF SocketsOK
<1> QED
  BY <1>2, <1>3 DEF GatewayInv, MapOK, GoneOK

(* A step that registers no socket and lets none that came in change, or     *)
(* open again.                                                               *)
LEMMA GatewayFrame ==
    ASSUME GatewayInv, SocketsOK', UNCHANGED <<socketIdOf, registered, expired>>,
           \A s \in Sockets : socket[s].pc = "in" => socket'[s] = socket[s] /\ (s \in open' => s \in open)
    PROVE  GatewayInv'
<1>1. \A m \in DOMAIN registered : TokenOf(m)' = TokenOf(m) /\ (registered'[m] \in open' => registered[m] \in open)
  BY DEF GatewayInv, SocketsOK, TokenOf
<1>2. expired \in [Tokens -> 0..Len(registered)] /\ Len(registered) \in Nat
       /\ DOMAIN registered = 1..Len(registered)
  BY DEF GatewayInv, SocketsOK
<1>3. MapOK'
  <2> SUFFICES ASSUME NEW m \in DOMAIN registered
               PROVE  \/ socketIdOf'[TokenOf(m)'] = registered'[m]
                      \/ \E n \in m + 1..Len(registered') : TokenOf(n)' = TokenOf(m)'
    BY DEF MapOK
  <2>1. CASE socketIdOf[TokenOf(m)] = registered[m]
    BY <1>1, <2>1
  <2>2. ASSUME NEW n \in m + 1..Len(registered), TokenOf(n) = TokenOf(m)
        PROVE  TokenOf(n)' = TokenOf(m)'
    BY <1>1, <1>2, <2>2
  <2> QED
    BY <2>1, <2>2 DEF GatewayInv, MapOK
<1>4. GoneOK'
  <2> SUFFICES ASSUME NEW m \in DOMAIN registered, m <= expired[TokenOf(m)], registered[m] \in open
               PROVE  \E n \in m + 1..expired[TokenOf(m)] : TokenOf(n)' = TokenOf(m)
    BY <1>1 DEF GoneOK
  <2>1. PICK n \in m + 1..expired[TokenOf(m)] : TokenOf(n) = TokenOf(m)
    BY DEF GatewayInv, GoneOK
  <2>2. TokenOf(m) \in Tokens
    BY DEF GatewayInv, SocketsOK, TokenOf
  <2>3. n \in DOMAIN registered
    BY <1>2, <2>2
  <2> QED
    BY <1>1, <2>1, <2>3
<1> QED
  BY <1>3, <1>4 DEF GatewayInv

LEMMA GatewayStep == GatewayInv /\ [GatewayNext]_gatewayVars => GatewayInv'
<1> SUFFICES ASSUME GatewayInv, [GatewayNext]_gatewayVars PROVE GatewayInv'
  OBVIOUS
<1>a. /\ registered \in Seq(Sockets) /\ Len(registered) \in Nat /\ DOMAIN registered = 1..Len(registered)
      /\ \A m \in DOMAIN registered : registered[m] \in Sockets /\ TokenOf(m) \in Tokens
      /\ socket \in [Sockets -> [pc : {"new", "verify", "in", "failed"}, token : Tokens \union {NoToken}]]
      /\ expired \in [Tokens -> 0..Len(registered)]
  BY DEF GatewayInv, SocketsOK, TokenOf
<1>1. CASE UNCHANGED gatewayVars
  BY <1>1 DEF gatewayVars, GatewayInv, SocketsOK, MapOK, GoneOK, TokenOf
<1>2. ASSUME NEW s \in Sockets, NEW t \in Tokens \union {NoToken}, Connect(s, t) PROVE GatewayInv'
  <2> DEFINE pc == IF t = NoToken THEN "failed" ELSE "verify"
             new == [pc |-> pc, token |-> t]
  <2>1. /\ socket[s].pc = "new" /\ socket' = [socket EXCEPT ![s] = new]
        /\ open' = IF t = NoToken THEN open ELSE open \union {s}
        /\ UNCHANGED <<socketIdOf, registered, expired>>
    BY <1>2 DEF Connect
  <2>2. /\ new \in [pc : {"new", "verify", "in", "failed"}, token : Tokens \union {NoToken}]
        /\ new.token = t /\ new.pc # "in" /\ (new.pc = "verify" <=> t # NoToken)
    OBVIOUS
  <2> HIDE DEF new
  <2>3. SocketsOK'
    BY <2>1, <2>2 DEF GatewayInv, SocketsOK
  <2> QED
    BY <2>1, <2>3, GatewayFrame
<1>3. ASSUME NEW s \in Sockets, AuthFailed(s) PROVE GatewayInv'
  <2>1. /\ socket[s].pc = "verify" /\ socket' = [socket EXCEPT ![s].pc = "failed"]
        /\ open' = open \ {s} /\ UNCHANGED <<socketIdOf, registered, expired>>
    BY <1>3 DEF AuthFailed
  <2>2. SocketsOK'
    BY <2>1 DEF GatewayInv, SocketsOK
  <2> QED
    BY <2>1, <2>2, GatewayFrame
<1>4. ASSUME NEW s \in Sockets, Disconnect(s) PROVE GatewayInv'
  <2>1. open' = open \ {s} /\ UNCHANGED <<socket, socketIdOf, registered, expired>>
    BY <1>4 DEF Disconnect, MapAfterDisconnect
  <2>2. SocketsOK'
    BY <2>1 DEF GatewayInv, SocketsOK
  <2> QED
    BY <2>1, <2>2, GatewayFrame
<1>5. ASSUME NEW s \in Sockets, Register(s) PROVE GatewayInv'
  <2>0. PICK t \in Tokens, N \in Nat : t = socket[s].token /\ N = Len(registered)
    BY <1>5, <1>a DEF Register, GatewayInv, SocketsOK
  <2> USE <2>0
  <2>1. /\ socket[s].pc = "verify" /\ t \in Tokens
        /\ UNCHANGED <<open, expired>>
    BY <1>5 DEF Register, GatewayInv, SocketsOK
  <2>2. /\ socket'[s].pc = "in" /\ socket'[s].token = t /\ socket'[s] = [pc |-> "in", token |-> t]
        /\ \A u \in Sockets \ {s} : socket'[u] = socket[u]
        /\ socket' \in [Sockets -> [pc : {"new", "verify", "in", "failed"}, token : Tokens \union {NoToken}]]
    BY <1>5, <1>a DEF Register
  <2>3. socketIdOf' = [socketIdOf EXCEPT ![t] = s]
    BY <1>5 DEF Register
  <2>4. /\ registered' \in Seq(Sockets) /\ Len(registered') = N + 1 /\ registered'[N + 1] = s
        /\ DOMAIN registered' = 1..N + 1
        /\ \A m \in 1..N : registered'[m] = registered[m]
    BY <1>5, <1>a DEF Register
  <2>5. \A m \in 1..N : registered[m] # s
    BY <1>a, <2>1 DEF GatewayInv, SocketsOK
  <2>6. /\ \A m \in 1..N : TokenOf(m)' = TokenOf(m)
        /\ TokenOf(N + 1)' = t
    BY <1>a, <2>2, <2>4, <2>5 DEF TokenOf
  <2>7. SocketsOK'
    <3>1. expired' \in [Tokens -> 0..Len(registered')]
      BY <1>a, <2>1, <2>4
    <3>2. \A m \in DOMAIN registered' : socket'[registered'[m]].pc = "in"
      BY <1>a, <2>2, <2>4, <2>5 DEF GatewayInv, SocketsOK
    <3>3. \A u \in Tokens : socketIdOf'[u] # NoSocket => socket'[socketIdOf'[u]] = [pc |-> "in", token |-> u]
      <4> SUFFICES ASSUME NEW u \in Tokens, socketIdOf'[u] # NoSocket
                   PROVE  socket'[socketIdOf'[u]] = [pc |-> "in", token |-> u]
        OBVIOUS
      <4>1. CASE u = t
        BY <2>1, <2>2, <2>3, <4>1 DEF GatewayInv, SocketsOK
      <4>2. CASE u # t
        <5>1. socketIdOf'[u] = socketIdOf[u] /\ socketIdOf[u] \in Sockets
          BY <2>3, <4>2 DEF GatewayInv, SocketsOK
        <5>2. socket[socketIdOf[u]] = [pc |-> "in", token |-> u]
          BY <5>1 DEF GatewayInv, SocketsOK
        <5>3. socketIdOf[u] # s
          BY <2>1, <5>2
        <5> QED
          BY <2>2, <5>1, <5>2, <5>3
      <4> QED
        BY <4>1, <4>2
    <3>4. \A u \in Sockets : socket'[u].pc \in {"verify", "in"} => socket'[u].token \in Tokens
      BY <2>1, <2>2 DEF GatewayInv, SocketsOK
    <3>5. open' \subseteq {u \in Sockets : socket'[u].pc \in {"verify", "in"}}
      BY <2>1, <2>2 DEF GatewayInv, SocketsOK
    <3>6. socketIdOf' \in [Tokens -> Sockets \union {NoSocket}]
      BY <2>3 DEF GatewayInv, SocketsOK
    <3> QED
      BY <2>2, <2>4, <3>1, <3>2, <3>3, <3>4, <3>5, <3>6 DEF SocketsOK
  <2>8. MapOK'
    <3> SUFFICES ASSUME NEW m \in 1..N + 1
                 PROVE  \/ socketIdOf'[TokenOf(m)'] = registered'[m]
                        \/ \E n \in m + 1..N + 1 : TokenOf(n)' = TokenOf(m)'
      BY <2>4 DEF MapOK
    <3>1. CASE m = N + 1
      BY <2>1, <2>3, <2>4, <2>6, <3>1 DEF GatewayInv, SocketsOK
    <3>2. CASE m \in 1..N /\ TokenOf(m) = t
      BY <1>a, <2>6, <3>2
    <3>3. CASE m \in 1..N /\ TokenOf(m) # t
      <4>1. CASE socketIdOf[TokenOf(m)] = registered[m]
        BY <1>a, <2>3, <2>4, <2>6, <3>3, <4>1 DEF GatewayInv, SocketsOK
      <4>2. ASSUME NEW n \in m + 1..N, TokenOf(n) = TokenOf(m)
            PROVE  n \in m + 1..N + 1 /\ TokenOf(n)' = TokenOf(m)'
        BY <1>a, <2>6, <3>3, <4>2
      <4> QED
        BY <1>a, <3>3, <4>1, <4>2 DEF GatewayInv, MapOK
    <3> QED
      BY <1>a, <3>1, <3>2, <3>3
  <2>9. GoneOK'
    <3> SUFFICES ASSUME NEW m \in 1..N + 1, m <= expired[TokenOf(m)'], registered'[m] \in open
                 PROVE  \E n \in m + 1..expired[TokenOf(m)'] : TokenOf(n)' = TokenOf(m)'
      BY <2>1, <2>4 DEF GoneOK
    <3>1. m \in 1..N
      <4>1. TokenOf(m)' \in Tokens
        BY <1>a, <2>1, <2>6
      <4> QED
        BY <1>a, <4>1
    <3>2. PICK n \in m + 1..expired[TokenOf(m)] : TokenOf(n) = TokenOf(m)
      BY <1>a, <2>4, <2>6, <3>1 DEF GatewayInv, GoneOK
    <3>3. n \in 1..N
      BY <1>a, <3>1, <3>2
    <3> QED
      BY <2>6, <3>1, <3>2, <3>3
  <2> QED
    BY <2>7, <2>8, <2>9 DEF GatewayInv
<1>6. ASSUME NEW t \in Tokens, TokenExpired(t) PROVE GatewayInv'
  <2> DEFINE N == Len(registered)
  <2>1. /\ open' = open \ {socketIdOf[t]} /\ expired' = [expired EXCEPT ![t] = N]
        /\ UNCHANGED <<socket, socketIdOf, registered>>
    BY <1>6 DEF TokenExpired
  <2>2. \A m : TokenOf(m)' = TokenOf(m)
    BY <2>1 DEF TokenOf
  <2>3. SocketsOK'
    BY <1>a, <2>1 DEF GatewayInv, SocketsOK
  <2>4. MapOK'
    BY <2>1, <2>2 DEF GatewayInv, MapOK
  <2>5. GoneOK'
    <3> SUFFICES ASSUME NEW m \in DOMAIN registered, m <= expired'[TokenOf(m)], registered[m] \in open'
                 PROVE  \E n \in m + 1..expired'[TokenOf(m)] : TokenOf(n) = TokenOf(m)
      BY <2>1, <2>2 DEF GoneOK
    <3>1. CASE TokenOf(m) = t
      <4>1. expired'[t] = N /\ socketIdOf[t] # registered[m]
        BY <1>a, <2>1, <3>1
      <4> QED
        BY <3>1, <4>1 DEF GatewayInv, MapOK
    <3>2. CASE TokenOf(m) # t
      <4>1. expired'[TokenOf(m)] = expired[TokenOf(m)] /\ registered[m] \in open
        BY <1>a, <2>1, <3>2
      <4> QED
        BY <4>1 DEF GatewayInv, GoneOK
    <3> QED
      BY <3>1, <3>2
  <2> QED
    BY <2>3, <2>4, <2>5 DEF GatewayInv
<1> QED
  BY <1>1, <1>2, <1>3, <1>4, <1>5, <1>6 DEF GatewayNext

(* ExpiredAreGone: when a token has expired, the sockets that came in with   *)
(* it before are gone, but for those a later one took the place of in the    *)
(* map (base-gateway: handleConnection, handleTokenExpired).                 *)
THEOREM ExpiredLeave == GatewaySpec => []ExpiredAreGone
<1>1. GatewayInv => ExpiredAreGone
  BY DEF GatewayInv, GoneOK, TokenOf, ExpiredAreGone
<1> QED
  BY <1>1, GatewayInvInit, GatewayStep, PTL DEF GatewaySpec

-----------------------------------------------------------------------------
(* RequestPipeline.  What the guards a request is past have found, and what  *)
(* the validation and the writes of a save leave for the answer.             *)

RouteNames == {"login", "register", "profile", "roleList", "roleSave"}
Tokened == {"none", "bad", "mine", "mineBySse"}
Statuses == {0, 200, 401, 403, 408, 422, 429, 500}
Answers == [status : Statuses, code : Nat]
PipelinePcs == {"idle", "blacklist", "verify", "version", "device", "rbac", "throttle", "validate",
                "update", "find", "menus", "save", "refresh", "handle", "answered"}
RequestRecords ==
    [pc : PipelinePcs, route : RouteNames, token : Tokened, role : Roles \union {0},
     row : Changes \union {NoRow}, menus : SUBSET Menus, found : Bodies \union {NoRow},
     ran : BOOLEAN, saved : BOOLEAN, answer : Answers]

WorldOK ==
    /\ config \in [demo : BOOLEAN, multi : BOOLEAN, admin : BOOLEAN]
    /\ revoked \subseteq Revocations
    /\ permitted \in BOOLEAN /\ raced \in BOOLEAN
    /\ before \in [revoked : SUBSET Revocations, permitted : BOOLEAN]
    /\ row \in [Roles -> Bodies \union {NoRow, Gone}] /\ menus \subseteq Menus
UniqueRows == \A r \in Rows : ~Collides(r, row[r])
SinceArrival == before.revoked \subseteq revoked /\ (permitted => before.permitted)

\* Past the permission, past JwtAuthGuard.
Permitted == request.pc \in {"throttle", "validate"} \union Handling \/ request.ran
Authenticated == request.pc = "rbac" \/ Permitted

GuardsOK ==
    ~route.public =>
        /\ request.pc \in {"blacklist", "verify", "version", "device"} \/ Authenticated
             => (config.demo => route.get)
        /\ request.pc \in {"version", "device"} \/ Authenticated => request.token = "mine"
        /\ request.pc \in {"verify", "version", "device"} \/ Authenticated
             => (request.token = "mine" => "blacklisted" \notin before.revoked)
        /\ request.pc = "device" \/ Authenticated => "outdated" \notin before.revoked
        /\ Authenticated => ("replaced" \in before.revoked => config.multi)
        /\ Permitted => (route.perm => config.admin \/ before.permitted)

SaveOK ==
    /\ route.save => request.row \in Changes /\ (request.role = 0 => request.row \in Bodies)
    /\ request.pc \in {"validate", "refresh"} \union Saving => route.save
    /\ request.pc = "handle" => ~route.save
    /\ request.pc # "answered" => ~request.ran
    /\ request.pc \notin Handling \union {"answered"} => request.answer = NoAnswer /\ ~request.saved
    /\ request.pc \in Handling => request.answer \in {NoAnswer, Http(408)}

\* The value has been validated, and nothing is written yet.
Validated == request.pc = "update" \/ (request.pc \in {"menus", "save"} /\ request.role = 0)
\* The entity of an update has been found.
FoundRole == request.pc \in {"menus", "save"} /\ request.role # 0

StepOK ==
    /\ request.pc \in {"update", "find", "refresh"} => request.role \in Roles
    /\ Validated => ~request.saved
    /\ FoundRole => request.found \in Bodies
    /\ ~raced =>
         /\ Validated => ~Exists(Roles \ {request.role}, request.row.value)
         /\ request.pc = "find" => (request.role \in Rows <=> request.saved)
         /\ FoundRole => request.saved /\ request.role \in Rows /\ request.found = row[request.role]
         /\ request.pc = "save" => request.menus \subseteq menus
         /\ request.pc = "refresh" => request.saved

PipelineInv ==
    /\ request \in RequestRecords /\ WorldOK /\ UniqueRows
    /\ SinceArrival /\ GuardsOK /\ SaveOK /\ StepOK /\ AnswerTells

LEMMA RouteFacts ==
    ASSUME NEW name \in RouteNames
    PROVE  /\ Routes[name] \in [white : BOOLEAN, public : BOOLEAN, get : BOOLEAN, anon : BOOLEAN,
                                perm : BOOLEAN, save : BOOLEAN]
           /\ Routes[name].white => Routes[name].public
           /\ Routes[name].anon => ~Routes[name].perm
<1>1. CASE name = "login"
  BY <1>1 DEF Routes, Route
<1>2. CASE name = "register"
  BY <1>2 DEF Routes, Route
<1>3. CASE name = "profile"
  BY <1>3 DEF Routes, Route
<1>4. CASE name = "roleList"
  BY <1>4 DEF Routes, Route
<1>5. CASE name = "roleSave"
  BY <1>5 DEF Routes, Route
<1> QED
  BY <1>1, <1>2, <1>3, <1>4, <1>5 DEF RouteNames

LEMMA RouteTyped ==
    ASSUME request \in RequestRecords
    PROVE  /\ route.white \in BOOLEAN /\ route.public \in BOOLEAN /\ route.get \in BOOLEAN
           /\ route.anon \in BOOLEAN /\ route.perm \in BOOLEAN /\ route.save \in BOOLEAN
           /\ route.white => route.public
           /\ route.anon => ~route.perm
BY RouteFacts DEF RequestRecords, route

LEMMA RowFacts ==
    /\ NoRow \notin Bodies /\ Gone \notin Bodies
    /\ Rows \subseteq Roles /\ 0 \notin Roles
    /\ Bodies \subseteq Changes
    /\ \A b \in Bodies : b.name \in RoleNames /\ b.value \in Values
    /\ \A b \in Changes : b.name \in RoleNames \union {Kept} /\ b.value \in Values \union {Kept}
BY NamesAssumption, RolesAssumption DEF NoRow, Gone, Bodies, Changes, Rows

LEMMA AnswerFacts ==
    /\ \A status \in Statuses : Http(status) \in Answers /\ Http(status).code = status
    /\ \A code \in Nat : Business(code) \in Answers /\ Business(code).code = code
    /\ NoAnswer \in Answers /\ NoAnswer.code = 0
    /\ ResOp \in Answers /\ ResOp.code = 200
    /\ ResOp # Http(500)
<1>1. \A status \in Statuses : Http(status) \in Answers /\ Http(status).code = status
  BY DEF Answers, Answer, Http, Statuses
<1>2. \A code \in Nat : Business(code) \in Answers /\ Business(code).code = code
  BY DEF Answers, Answer, Business, ErrorCode, Statuses
<1>3. /\ NoAnswer \in Answers /\ NoAnswer.code = 0
      /\ ResOp \in Answers /\ ResOp.code = 200
      /\ Http(500).code = 500
  BY DEF Answers, Answer, NoAnswer, ResOp, Statuses, Http
<1> QED
  BY <1>1, <1>2, <1>3

LEMMA PipelineInvInit == PipelineInit => PipelineInv
<1> SUFFICES ASSUME PipelineInit PROVE PipelineInv
  OBVIOUS
<1>1. request = [pc |-> "idle", route |-> "login", token |-> "none", role |-> 0, row |-> NoRow,
                 menus |-> {}, found |-> NoRow, ran |-> FALSE, saved |-> FALSE, answer |-> NoAnswer]
  BY DEF PipelineInit
<1>2. request \in RequestRecords
  BY <1>1, AnswerFacts DEF RequestRecords, PipelinePcs, RouteNames, Tokened
<1>3. PICK b \in Bodies : row = [r \in Roles |-> IF r = RootRole THEN b ELSE NoRow]
  BY DEF PipelineInit
<1>4. WorldOK
  <2>1. row \in [Roles -> Bodies \union {NoRow, Gone}]
    BY <1>3
  <2> QED
    BY <2>1 DEF PipelineInit, WorldOK
<1>5. UniqueRows
  <2>1. \A r \in Rows : r = RootRole
    BY <1>3, RowFacts DEF Rows
  <2> QED
    BY <2>1 DEF UniqueRows, Collides
<1>6. SinceArrival
  BY DEF PipelineInit, SinceArrival
<1>7. ~route.save /\ route.public
  BY <1>1 DEF route, Routes, Route
<1>8. GuardsOK /\ SaveOK /\ StepOK /\ AnswerTells
  BY <1>1, <1>7 DEF GuardsOK, SaveOK, StepOK, Validated, FoundRole, AnswerTells, Handling, Saving
<1> QED
  BY <1>2, <1>4, <1>5, <1>6, <1>8 DEF PipelineInv

WorldSame == UNCHANGED <<config, revoked, permitted, row, menus, before, raced>>
\* The request stays what it was when it arrived.
SameRequest(r) ==
    r.route = request.route /\ r.token = request.token /\ r.role = request.role /\ r.row = request.row
RestSame ==
    /\ WorldSame /\ SameRequest(request')
    /\ request'.menus = request.menus /\ request'.found = request.found
    /\ request'.ran = request.ran /\ request'.saved = request.saved

LEMMA OnEffect ==
    ASSUME request \in RequestRecords, NEW pc \in PipelinePcs, On(pc)
    PROVE  /\ request' \in RequestRecords /\ RestSame /\ request'.pc = pc
           /\ request'.answer = request.answer /\ route' = route
<1>1. request' = [request EXCEPT !.pc = pc] /\ WorldSame
  BY DEF On, Only, WorldSame
<1>2. request' \in RequestRecords /\ RestSame /\ request'.pc = pc /\ request'.answer = request.answer
  BY <1>1 DEF RequestRecords, RestSame, SameRequest
<1> QED
  BY <1>2 DEF route, RestSame, SameRequest

LEMMA RefuseEffect ==
    ASSUME request \in RequestRecords, NEW answer \in Answers, Refuse(answer)
    PROVE  /\ request' \in RequestRecords /\ RestSame /\ request'.pc = "answered" /\ request'.answer = answer
           /\ route' = route
<1>1. request' = [request EXCEPT !.pc = "answered", !.answer = answer] /\ WorldSame
  BY DEF Refuse, Only, WorldSame
<1>2. request' \in RequestRecords /\ RestSame /\ request'.pc = "answered" /\ request'.answer = answer
  BY <1>1 DEF RequestRecords, RestSame, SameRequest, PipelinePcs
<1> QED
  BY <1>2 DEF route, RestSame, SameRequest

LEMMA WorldKept ==
    ASSUME WorldOK, UniqueRows, SinceArrival, WorldSame
    PROVE  WorldOK' /\ UniqueRows' /\ SinceArrival' /\ Rows' = Rows
<1>1. Rows' = Rows
  BY DEF WorldSame, Rows
<1>2. UniqueRows'
  BY <1>1 DEF WorldSame, UniqueRows, Collides
<1> QED
  BY <1>1, <1>2 DEF WorldOK, SinceArrival, WorldSame

(* A refusal by a guard leaves nothing done and says so.                     *)
LEMMA RefusalSafe ==
    ASSUME PipelineInv, NEW answer \in Answers, answer.code \notin {200, 500},
           request.pc \notin Handling \union {"answered"}, Refuse(answer)
    PROVE  PipelineInv'
<1>1. /\ request' \in RequestRecords /\ RestSame /\ WorldSame /\ request'.pc = "answered"
      /\ request'.answer = answer /\ route' = route
  BY RefuseEffect DEF PipelineInv, RestSame
<1>2. ~request.ran /\ ~request.saved
  BY DEF PipelineInv, SaveOK
<1>3. WorldOK' /\ UniqueRows' /\ SinceArrival'
  BY <1>1, WorldKept DEF PipelineInv
<1>4. GuardsOK'
  BY <1>1, <1>2 DEF GuardsOK, RestSame, Permitted, Authenticated, Handling, Saving
<1>5. SaveOK' /\ StepOK'
  BY <1>1 DEF PipelineInv, SaveOK, StepOK, Validated, FoundRole, RestSame, SameRequest, Handling, Saving
<1>6. AnswerTells'
  BY <1>1, <1>2 DEF AnswerTells, RestSame
<1> QED
  BY <1>1, <1>3, <1>4, <1>5, <1>6 DEF PipelineInv

(* A guard that lets a request on has only to have found what the next pc    *)
(* says it has.                                                              *)
LEMMA PassSafe ==
    ASSUME PipelineInv, NEW pc \in PipelinePcs \ (Saving \union {"refresh", "answered"}), On(pc), GuardsOK',
           request.pc \notin Handling \union {"answered"},
           pc = "validate" => route.save, pc = "handle" => ~route.save
    PROVE  PipelineInv'
<1>1. /\ request' \in RequestRecords /\ RestSame /\ WorldSame /\ request'.pc = pc
      /\ request'.answer = request.answer /\ route' = route
  BY OnEffect DEF PipelineInv, RestSame
<1>2. WorldOK' /\ UniqueRows' /\ SinceArrival'
  BY <1>1, WorldKept DEF PipelineInv
<1>3. SaveOK' /\ StepOK' /\ AnswerTells'
  BY <1>1 DEF PipelineInv, SaveOK, StepOK, Validated, FoundRole, AnswerTells, RestSame, SameRequest,
     Handling, Saving
<1> QED
  BY <1>1, <1>2, <1>3 DEF PipelineInv

(* JwtAuthGuard, RbacGuard and the throttler.                                *)
LEMMA GuardSteps ==
    ASSUME PipelineInv,
           CheckBlacklist \/ Verify \/ CheckVersion \/ CheckDevice \/ CheckPermission \/ ThrottlerGuard
    PROVE  PipelineInv'
<1>1. ASSUME NEW pc \in PipelinePcs, On(pc)
      PROVE  RestSame /\ request'.pc = pc /\ route' = route /\ config' = config /\ before' = before
  BY <1>1, OnEffect DEF PipelineInv, RestSame, WorldSame
<1>r. /\ route.white \in BOOLEAN /\ route.public \in BOOLEAN /\ route.get \in BOOLEAN
      /\ route.anon \in BOOLEAN /\ route.perm \in BOOLEAN /\ route.save \in BOOLEAN
      /\ route.anon => ~route.perm
      /\ request.ran \in BOOLEAN /\ request.saved \in BOOLEAN
  BY RouteTyped DEF PipelineInv, RequestRecords
<1>2. CASE CheckBlacklist
  <2>1. CASE Refuse(Business(1101))
    BY <1>2, <2>1, RefusalSafe, AnswerFacts DEF CheckBlacklist, Handling, Saving
  <2>2. CASE On("verify") /\ ~(Mine /\ "blacklisted" \in revoked)
    <3>1. GuardsOK'
      BY <1>1, <1>2, <1>r, <2>2 DEF CheckBlacklist, PipelineInv, GuardsOK, SinceArrival, SaveOK,
         Permitted, Handling, Saving, Authenticated, RestSame, SameRequest, PipelinePcs, Mine
    <3> QED
      BY <1>2, <2>2, <3>1, PassSafe DEF CheckBlacklist, PipelinePcs, Handling, Saving
  <2> QED
    BY <1>2, <2>1, <2>2 DEF CheckBlacklist
<1>3. CASE Verify
  <2>0. request.pc = "verify"
    BY <1>3 DEF Verify
  <2>1. CASE Refuse(Business(1101))
    BY <2>0, <2>1, RefusalSafe, AnswerFacts DEF Handling, Saving
  <2>2. CASE Refuse(Http(401))
    BY <2>0, <2>2, RefusalSafe, AnswerFacts DEF Statuses, Handling, Saving
  <2>3. CASE On("rbac") /\ route.public
    <3>1. GuardsOK'
      BY <1>1, <2>3 DEF GuardsOK, PipelinePcs
    <3> QED
      BY <1>3, <2>3, <3>1, PassSafe DEF Verify, PipelinePcs, Handling, Saving
  <2>4. CASE On("version") /\ request.token = "mine"
    <3>1. GuardsOK'
      BY <1>1, <1>3, <1>r, <2>4 DEF Verify, PipelineInv, GuardsOK, SaveOK,
         Permitted, Handling, Saving, Authenticated, RestSame, SameRequest, PipelinePcs
    <3> QED
      BY <1>3, <2>4, <3>1, PassSafe DEF Verify, PipelinePcs, Handling, Saving
  <2>5. CASE Mine
    <3>1. request.token \in {"mine", "mineBySse"}
      BY <2>5 DEF Mine
    <3> QED
      BY <1>3, <2>2, <2>4, <2>5, <3>1 DEF Verify
  <2>6. CASE ~Mine
    <3>1. Unverified
      BY <1>3, <2>6 DEF Verify, Mine
    <3> QED
      BY <2>1, <2>2, <2>3, <3>1 DEF Unverified
  <2> QED
    BY <2>5, <2>6
<1>4. CASE CheckVersion
  <2>1. CASE Refuse(Business(1101))
    BY <1>4, <2>1, RefusalSafe, AnswerFacts DEF CheckVersion, Handling, Saving
  <2>2. CASE "outdated" \notin revoked /\ config.multi /\ On("rbac")
    <3>1. GuardsOK'
      BY <1>1, <1>4, <1>r, <2>2 DEF CheckVersion, PipelineInv, GuardsOK, SinceArrival, SaveOK,
         Permitted, Handling, Saving, Authenticated, RestSame, SameRequest, PipelinePcs
    <3> QED
      BY <1>4, <2>2, <3>1, PassSafe DEF CheckVersion, PipelinePcs, Handling, Saving
  <2>3. CASE "outdated" \notin revoked /\ On("device")
    <3>1. GuardsOK'
      BY <1>1, <1>4, <1>r, <2>3 DEF CheckVersion, PipelineInv, GuardsOK, SinceArrival, SaveOK,
         Permitted, Handling, Saving, Authenticated, RestSame, SameRequest, PipelinePcs
    <3> QED
      BY <1>4, <2>3, <3>1, PassSafe DEF CheckVersion, PipelinePcs, Handling, Saving
  <2> QED
    BY <1>4, <2>1, <2>2, <2>3 DEF CheckVersion
<1>5. CASE CheckDevice
  <2>1. CASE Refuse(Business(1105))
    BY <1>5, <2>1, RefusalSafe, AnswerFacts DEF CheckDevice, Handling, Saving
  <2>2. CASE "replaced" \notin revoked /\ On("rbac")
    <3>1. GuardsOK'
      BY <1>1, <1>5, <1>r, <2>2 DEF CheckDevice, PipelineInv, GuardsOK, SinceArrival, SaveOK,
         Permitted, Handling, Saving, Authenticated, RestSame, SameRequest, PipelinePcs
    <3> QED
      BY <1>5, <2>2, <3>1, PassSafe DEF CheckDevice, PipelinePcs, Handling, Saving
  <2> QED
    BY <1>5, <2>1, <2>2 DEF CheckDevice
<1>6. CASE CheckPermission
  <2>1. CASE Refuse(Business(1102))
    BY <1>6, <2>1, RefusalSafe, AnswerFacts DEF CheckPermission, Handling, Saving
  <2>2. CASE /\ route.public \/ route.anon \/ ~route.perm \/ config.admin \/ permitted
             /\ On("throttle")
    <3>1. ~route.public => (route.perm => config.admin \/ before.permitted)
      BY <1>r, <2>2 DEF PipelineInv, SinceArrival
    <3>2. GuardsOK'
      BY <1>1, <1>6, <1>r, <2>2, <3>1 DEF CheckPermission, PipelineInv, GuardsOK, SaveOK,
         Permitted, Handling, Saving, Authenticated, RestSame, SameRequest, PipelinePcs
    <3> QED
      BY <1>6, <2>2, <3>2, PassSafe DEF CheckPermission, PipelinePcs, Handling, Saving
  <2> QED
    BY <1>6, <2>1, <2>2 DEF CheckPermission
<1>7. CASE ThrottlerGuard
  <2>1. CASE Refuse(Http(429))
    BY <1>7, <2>1, RefusalSafe, AnswerFacts DEF ThrottlerGuard, Statuses, Handling, Saving
  <2>2. ASSUME NEW pc \in {"validate", "handle"}, On(pc), pc = "validate" => route.save,
               pc = "handle" => ~route.save
        PROVE  PipelineInv'
    <3>1. GuardsOK'
      BY <1>1, <1>7, <1>r, <2>2 DEF ThrottlerGuard, PipelineInv, GuardsOK, SaveOK,
         Permitted, Handling, Saving, Authenticated, RestSame, SameRequest, PipelinePcs
    <3> QED
      BY <1>7, <2>2, <3>1, PassSafe DEF ThrottlerGuard, PipelinePcs, Handling, Saving
  <2> QED
    BY <1>7, <2>1, <2>2 DEF ThrottlerGuard
<1> QED
  BY <1>2, <1>3, <1>4, <1>5, <1>6, <1>7

LEMMA ArriveSafe ==
    ASSUME PipelineInv, NEW name \in RouteNames, NEW token \in Tokened, NEW role \in Roles \union {0},
           NEW body \in Changes \union {NoRow}, NEW asked \in SUBSET Menus,
           Routes[name].save => body \in Changes /\ (role = 0 => body \in Bodies),
           Arrive(name, token, role, body, asked)
    PROVE  PipelineInv'
<1> DEFINE r == Routes[name]
<1>r. /\ r.white \in BOOLEAN /\ r.public \in BOOLEAN /\ r.get \in BOOLEAN /\ r.save \in BOOLEAN
      /\ r.white => r.public
      /\ config.demo \in BOOLEAN
  BY RouteFacts DEF PipelineInv, WorldOK
<1>1. PICK turnedDown \in BOOLEAN : turnedDown <=> ~r.white /\ ~r.get /\ config.demo
  BY <1>r
<1>2. PICK answer \in Answers : answer = IF turnedDown THEN Http(403) ELSE NoAnswer
  BY AnswerFacts DEF Statuses
<1>3. /\ answer.code # 200 /\ answer.code # 500
      /\ ~turnedDown => answer = NoAnswer
  BY <1>2, AnswerFacts DEF Statuses
<1>4. PICK pc \in {"rbac", "answered", "blacklist"} :
          pc = IF r.white THEN "rbac" ELSE IF turnedDown THEN "answered" ELSE "blacklist"
  OBVIOUS
<1>5. /\ pc = "rbac" => r.white
      /\ pc = "blacklist" => (config.demo => r.get)
      /\ pc # "answered" => answer = NoAnswer
  BY <1>1, <1>3, <1>4, <1>r
<1>6. /\ request' = [pc |-> pc, route |-> name, token |-> token, role |-> role, row |-> body,
                     menus |-> asked, found |-> NoRow, ran |-> FALSE, saved |-> FALSE, answer |-> answer]
      /\ WorldSame
  BY <1>1, <1>2, <1>4, <1>r DEF Arrive, Only, WorldSame
<1>7. /\ request'.pc = pc /\ request'.token = token /\ request'.row = body /\ request'.ran = FALSE
      /\ request'.saved = FALSE /\ request'.answer = answer /\ request'.route = name
      /\ request'.role = role
  BY <1>6
<1>8. request' \in RequestRecords
  BY <1>6 DEF RequestRecords, PipelinePcs
<1>9. route' = r /\ config' = config
  BY <1>6, <1>7 DEF route, WorldSame
<1>10. GuardsOK'
  BY <1>5, <1>7, <1>9, <1>r DEF GuardsOK, Permitted, Authenticated, Handling, Saving
<1>11. SaveOK'
  BY <1>5, <1>7, <1>9 DEF SaveOK, Handling, Saving
<1>12. StepOK' /\ AnswerTells'
  BY <1>3, <1>7 DEF StepOK, Validated, FoundRole, AnswerTells
<1>13. WorldOK' /\ UniqueRows' /\ SinceArrival'
  BY <1>6, WorldKept DEF PipelineInv
<1> QED
  BY <1>8, <1>10, <1>11, <1>12, <1>13 DEF PipelineInv

LEMMA ValidateSafe == ASSUME PipelineInv, Validate PROVE PipelineInv'
<1>1. request.pc = "validate" /\ request \in RequestRecords
  BY DEF Validate, PipelineInv
<1>2. CASE Refuse(Http(422))
  BY <1>1, <1>2, RefusalSafe, AnswerFacts DEF Statuses, Handling, Saving
<1>3. ASSUME NEW pc, pc = IF request.role = 0 THEN "menus" ELSE "update", On(pc), ~InUse(request.row.value)
      PROVE  PipelineInv'
  <2>1. /\ request' \in RequestRecords /\ RestSame /\ WorldSame /\ request'.pc = pc
        /\ request'.answer = request.answer /\ route' = route
    <3>1. pc \in PipelinePcs
      BY <1>3 DEF PipelinePcs
    <3> QED
      BY <1>1, <1>3, <3>1, OnEffect DEF RestSame
  <2>2. WorldOK' /\ UniqueRows' /\ SinceArrival'
    BY <2>1, WorldKept DEF PipelineInv
  <2>3. GuardsOK'
    BY <1>1, <1>3, <2>1 DEF PipelineInv, GuardsOK, RestSame, WorldSame, SameRequest, Permitted,
       Authenticated, Handling, Saving
  <2>4. SaveOK' /\ AnswerTells'
    BY <1>1, <1>3, <2>1 DEF PipelineInv, SaveOK, RestSame, SameRequest, AnswerTells, Handling, Saving
  <2>5. ~Exists(Roles \ {request.role}, request.row.value)'
    BY <1>3, <2>1 DEF InUse, Exists, operateId, RestSame, WorldSame, SameRequest
  <2>6. ~request'.saved /\ request'.role = request.role /\ request.role \in Roles \union {0}
    BY <1>1, <2>1 DEF PipelineInv, SaveOK, RestSame, SameRequest, RequestRecords, Handling, Saving
  <2>7. StepOK'
    BY <1>3, <2>1, <2>5, <2>6 DEF StepOK, Validated, FoundRole
  <2> QED
    BY <2>1, <2>2, <2>3, <2>4, <2>7 DEF PipelineInv
<1> QED
  BY <1>2, <1>3 DEF Validate

(* The handler is done: the answer is its own, or that of the timeout.       *)
LEMMA DoneEffect ==
    ASSUME request \in RequestRecords, SaveOK, request.pc \in Handling, NEW stored \in BOOLEAN,
           NEW answer \in Answers,
           request' = Done([request EXCEPT !.saved = stored], answer)
    PROVE  /\ request' \in RequestRecords /\ SameRequest(request')
           /\ request'.pc = "answered" /\ request'.ran = TRUE /\ request'.saved = stored
           /\ request'.answer = answer \/ request'.answer = Http(408)
<1>1. PICK r : r = [request EXCEPT !.saved = stored]
  OBVIOUS
<1>2. /\ r \in RequestRecords /\ SameRequest(r) /\ r.saved = stored /\ r.answer = request.answer
  BY <1>1 DEF RequestRecords, SameRequest
<1>3. PICK given : given = IF r.answer = NoAnswer THEN answer ELSE r.answer
  OBVIOUS
<1>4. given \in Answers /\ (given = answer \/ given = Http(408))
  BY <1>2, <1>3 DEF SaveOK, RequestRecords
<1>5. request' = [r EXCEPT !.pc = "answered", !.ran = TRUE, !.answer = given]
  BY <1>1, <1>3 DEF Done
<1>6. PICK q : q = [r EXCEPT !.pc = "answered", !.ran = TRUE]
  OBVIOUS
<1>7. /\ q \in RequestRecords /\ q.pc = "answered" /\ q.ran = TRUE /\ q.saved = stored
      /\ q.route = r.route /\ q.token = r.token /\ q.role = r.role /\ q.row = r.row
  BY <1>2, <1>6 DEF RequestRecords, PipelinePcs
<1>8. request' = [q EXCEPT !.answer = given]
  BY <1>5, <1>6
<1>9. /\ request' \in RequestRecords /\ request'.pc = q.pc /\ request'.ran = q.ran /\ request'.saved = q.saved
      /\ request'.route = q.route /\ request'.token = q.token /\ request'.role = q.role
      /\ request'.row = q.row /\ request'.answer = given
  BY <1>4, <1>7, <1>8 DEF RequestRecords
<1> QED
  BY <1>2, <1>4, <1>7, <1>9 DEF SameRequest

LEMMA DoneSafe ==
    ASSUME PipelineInv, NEW stored \in BOOLEAN, NEW answer \in {ResOp, Http(500)},
           request.pc \in Handling, request' = Done([request EXCEPT !.saved = stored], answer),
           UNCHANGED <<config, revoked, permitted, menus, before, raced>>,
           row' \in [Roles -> Bodies \union {NoRow, Gone}], UniqueRows',
           answer = ResOp /\ route.save /\ ~raced => stored,
           answer = Http(500) /\ ~raced =>
               /\ ~stored
               /\ \/ request.role \in Roles \ Rows'
                  \/ \E q \in Rows' \ {request.role} : row'[q].name = request.row.name
    PROVE  PipelineInv'
<1>1. answer \in Answers /\ 500 \in Statuses /\ 408 \in Statuses
  BY AnswerFacts DEF Statuses
<1>2. /\ request' \in RequestRecords /\ SameRequest(request')
      /\ request'.pc = "answered" /\ request'.ran = TRUE /\ request'.saved = stored
      /\ request'.answer = answer \/ request'.answer = Http(408)
  BY <1>1, DoneEffect DEF PipelineInv
<1>3. route' = route /\ request'.role = request.role /\ request'.row = request.row
  BY <1>2 DEF route, SameRequest
<1>4. GuardsOK'
  BY <1>2, <1>3 DEF PipelineInv, GuardsOK, SameRequest, Permitted, Authenticated
<1>5. SaveOK' /\ StepOK'
  BY <1>2, <1>3 DEF PipelineInv, SaveOK, StepOK, Validated, FoundRole, Handling, Saving
<1>6. \/ request'.answer.code = 408
      \/ request'.answer.code = 200 /\ answer = ResOp
      \/ request'.answer.code = 500 /\ answer = Http(500)
  BY <1>1, <1>2, AnswerFacts
<1>7. AnswerTells'
  BY <1>2, <1>3, <1>6 DEF AnswerTells
<1>8. WorldOK' /\ SinceArrival'
  BY DEF PipelineInv, WorldOK, SinceArrival
<1> QED
  BY <1>2, <1>4, <1>5, <1>7, <1>8 DEF PipelineInv

(* The handler goes on to its next step.                                     *)
LEMMA HandlerGoesOn ==
    ASSUME PipelineInv, request.pc \in Saving, request' \in RequestRecords,
           request'.pc \in Saving \union {"refresh"}, SameRequest(request'),
           request'.ran = request.ran, request'.answer = request.answer,
           UNCHANGED <<config, revoked, permitted, menus, before, raced>>,
           row' \in [Roles -> Bodies \union {NoRow, Gone}], UniqueRows', StepOK'
    PROVE  PipelineInv'
<1>1. route' = route
  BY DEF route, SameRequest
<1>2. GuardsOK'
  BY <1>1 DEF PipelineInv, GuardsOK, SameRequest, Permitted, Authenticated, Handling
<1>3. SaveOK'
  BY <1>1 DEF PipelineInv, SaveOK, SameRequest, Handling, Saving
<1>4. AnswerTells'
  BY DEF AnswerTells, Saving
<1>5. WorldOK' /\ SinceArrival'
  BY DEF PipelineInv, WorldOK, SinceArrival
<1> QED
  BY <1>2, <1>3, <1>4, <1>5 DEF PipelineInv

LEMMA SavedAgain ==
    ASSUME request \in RequestRecords
    PROVE  request.saved \in BOOLEAN /\ request = [request EXCEPT !.saved = request.saved]
BY DEF RequestRecords

LEMMA UniqueKept == ASSUME UniqueRows, row' = row PROVE UniqueRows' /\ Rows' = Rows
BY DEF UniqueRows, Collides, Rows

(* A row is written that collides with no other, or emptied.                 *)
LEMMA UniqueSet ==
    ASSUME UniqueRows, row \in [Roles -> Bodies \union {NoRow, Gone}], NEW t \in Roles,
           NEW new \in Bodies \union {Gone}, new # Gone => ~Collides(t, new),
           row' = [row EXCEPT ![t] = new]
    PROVE  UniqueRows' /\ row' \in [Roles -> Bodies \union {NoRow, Gone}]
<1>1. row'[t] = new /\ \A r \in Roles \ {t} : row'[r] = row[r]
  OBVIOUS
<1>2. Rows' \subseteq Roles /\ \A r \in Rows' \ {t} : r \in Rows
  BY <1>1 DEF Rows
<1>3. t \in Rows' => ~Collides(t, new)
  BY <1>1, RowFacts DEF Rows
<1>4. ASSUME NEW r \in Rows', NEW q \in Rows' \ {r}
      PROVE  row'[q].name # row'[r].name /\ row'[q].value # row'[r].value
  <2>1. CASE r # t /\ q # t
    BY <1>1, <1>2, <2>1 DEF UniqueRows, Collides
  <2>2. CASE r = t /\ q # t
    BY <1>1, <1>2, <1>3, <2>2 DEF Collides
  <2>3. CASE r # t /\ q = t
    BY <1>1, <1>2, <1>3, <2>3 DEF Collides
  <2> QED
    BY <2>1, <2>2, <2>3
<1>5. UniqueRows'
  BY <1>4 DEF UniqueRows, Collides
<1> QED
  BY <1>5

LEMMA HandleSafe == ASSUME PipelineInv, Handle PROVE PipelineInv'
<1>1. request.pc \in {"refresh", "handle"} /\ request' = Done(request, ResOp) /\ WorldSame
  BY DEF Handle, Only, WorldSame
<1>2. request.saved \in BOOLEAN /\ request = [request EXCEPT !.saved = request.saved]
  BY SavedAgain DEF PipelineInv
<1>3. request' = Done([request EXCEPT !.saved = request.saved], ResOp) /\ request.pc \in Handling
  BY <1>1, <1>2 DEF Handling
<1>4. route.save /\ ~raced => request.saved
  BY <1>1 DEF PipelineInv, SaveOK, StepOK
<1>5. UniqueRows' /\ row' \in [Roles -> Bodies \union {NoRow, Gone}]
  BY <1>1, UniqueKept DEF PipelineInv, WorldSame, WorldOK
<1>6. UNCHANGED <<config, revoked, permitted, menus, before, raced>>
  BY <1>1 DEF WorldSame
<1> QED
  BY <1>2, <1>3, <1>4, <1>5, <1>6, AnswerFacts, DoneSafe

(* The first write of an update.                                             *)
LEMMA UpdatedRow ==
    ASSUME PipelineInv, request.pc = "update", request.role \in Rows
    PROVE  /\ Updated(request.role) \in Bodies
           /\ Collides(request.role, Updated(request.role)) /\ ~raced
                => \E q \in Rows \ {request.role} : row[q].name = request.row.name
<1> DEFINE t == request.role
           b == request.row
           name == IF b.name = Kept THEN row[t].name ELSE b.name
           value == IF b.value = Kept THEN row[t].value ELSE b.value
<1>1. b \in Changes /\ row[t] \in Bodies
  BY DEF PipelineInv, SaveOK, Rows, Saving
<1>2. name \in RoleNames /\ value \in Values
  BY <1>1, RowFacts
<1>3. Updated(t) = [name |-> name, value |-> value]
  BY DEF Updated
<1> HIDE DEF name, value, t, b
<1>4. Updated(t) \in Bodies /\ Updated(t).name = name /\ Updated(t).value = value
  BY <1>2, <1>3 DEF Bodies
<1>5. ASSUME Collides(t, Updated(t)), ~raced
      PROVE  \E q \in Rows \ {t} : row[q].name = b.name
  <2>1. PICK q \in Rows \ {t} : row[q].name = name \/ row[q].value = value
    BY <1>4, <1>5 DEF Collides
  <2>2. row[q].name # row[t].name /\ row[q].value # row[t].value
    BY <2>1 DEF PipelineInv, UniqueRows, Collides, t
  <2>3. row[q].value # b.value
    BY <1>5, <2>1, RowFacts DEF PipelineInv, StepOK, Validated, Exists, t, b
  <2>4. row[q].name = name /\ name = b.name
    BY <2>1, <2>2, <2>3 DEF name, value
  <2> QED
    BY <2>1, <2>4
<1> QED
  BY <1>4, <1>5 DEF t, b

LEMMA UpdateSafe == ASSUME PipelineInv, UpdateRole PROVE PipelineInv'
<1> DEFINE t == request.role
           new == Updated(t)
<1>1. /\ request.pc = "update" /\ t \in Roles /\ ~request.saved /\ request \in RequestRecords
      /\ row \in [Roles -> Bodies \union {NoRow, Gone}] /\ UniqueRows
      /\ UNCHANGED <<config, revoked, permitted, menus, before, raced>>
  BY DEF UpdateRole, PipelineInv, StepOK, Validated, WorldOK
<1>2. t \in Rows => new \in Bodies
  BY <1>1, UpdatedRow
<1>3. CASE t \in Rows /\ Collides(t, new)
  <2>1. request' = Done(request, Http(500)) /\ row' = row
    BY <1>3 DEF UpdateRole
  <2>2. request.saved \in BOOLEAN /\ request' = Done([request EXCEPT !.saved = request.saved], Http(500))
    BY <1>1, <2>1, SavedAgain
  <2>3. ~raced => \E q \in Rows \ {t} : row[q].name = request.row.name
    BY <1>1, <1>3, UpdatedRow
  <2>4. UniqueRows' /\ Rows' = Rows
    BY <1>1, <2>1, UniqueKept
  <2>5. request.pc \in Handling
    BY <1>1 DEF Handling, Saving
  <2> QED
    BY <1>1, <2>1, <2>2, <2>3, <2>4, <2>5, AnswerFacts, DoneSafe
<1>4. CASE ~(t \in Rows /\ Collides(t, new))
  <2>1. /\ row' = [r \in Roles |-> IF r = t /\ r \in Rows THEN Updated(r) ELSE row[r]]
        /\ request' = [request EXCEPT !.pc = "find", !.saved = t \in Rows]
    BY <1>4 DEF UpdateRole
  <2>2. /\ request' \in RequestRecords /\ SameRequest(request') /\ request'.pc = "find"
        /\ request'.ran = request.ran /\ request'.answer = request.answer
        /\ request'.saved <=> t \in Rows
    <3>1. PICK stored \in BOOLEAN : stored <=> t \in Rows
      OBVIOUS
    <3>2. request' = [request EXCEPT !.pc = "find", !.saved = stored]
      BY <2>1, <3>1
    <3> QED
      BY <1>1, <3>1, <3>2 DEF RequestRecords, SameRequest, PipelinePcs
  <2>3. UniqueRows' /\ row' \in [Roles -> Bodies \union {NoRow, Gone}] /\ (t \in Rows' <=> t \in Rows)
    <3>1. CASE t \in Rows
      <4>1. row' = [row EXCEPT ![t] = new]
        BY <1>1, <2>1, <3>1
      <4>2. UniqueRows' /\ row' \in [Roles -> Bodies \union {NoRow, Gone}]
        BY <1>1, <1>2, <1>4, <3>1, <4>1, UniqueSet
      <4>3. row'[t] = new
        BY <1>1, <4>1
      <4> QED
        BY <1>1, <1>2, <3>1, <4>2, <4>3 DEF Rows
    <3>2. CASE t \notin Rows
      <4>1. row' = row
        BY <1>1, <2>1, <3>2
      <4> QED
        BY <1>1, <4>1, UniqueKept
    <3> QED
      BY <3>1, <3>2
  <2>4. StepOK'
    BY <1>1, <2>2, <2>3 DEF StepOK, Validated, FoundRole, SameRequest
  <2> QED
    BY <1>1, <2>2, <2>3, <2>4, HandlerGoesOn DEF Saving
<1> QED
  BY <1>3, <1>4

LEMMA FindSafe == ASSUME PipelineInv, FindRole PROVE PipelineInv'
<1> DEFINE t == request.role
<1>1. /\ request.pc = "find" /\ t \in Roles /\ request \in RequestRecords /\ WorldSame
      /\ row \in [Roles -> Bodies \union {NoRow, Gone}]
      /\ ~raced => (t \in Rows <=> request.saved)
  BY DEF FindRole, Only, WorldSame, PipelineInv, StepOK, WorldOK
<1>2. /\ UniqueRows' /\ Rows' = Rows /\ row' = row
      /\ UNCHANGED <<config, revoked, permitted, menus, before, raced>>
  BY <1>1, UniqueKept DEF PipelineInv, WorldSame
<1>3. CASE t \notin Rows
  <2>1. request' = Done(request, Http(500))
    BY <1>3 DEF FindRole
  <2>2. request.saved \in BOOLEAN /\ request' = Done([request EXCEPT !.saved = request.saved], Http(500))
    BY <1>1, <2>1, SavedAgain
  <2>3. request.pc \in Handling
    BY <1>1 DEF Handling, Saving
  <2> QED
    BY <1>1, <1>2, <1>3, <2>2, <2>3, AnswerFacts, DoneSafe
<1>4. CASE t \in Rows
  <2>1. request' = [request EXCEPT !.pc = "menus", !.found = row[t]] /\ row[t] \in Bodies
    BY <1>4 DEF FindRole, Rows
  <2>2. /\ request' \in RequestRecords /\ SameRequest(request') /\ request'.pc = "menus"
        /\ request'.ran = request.ran /\ request'.answer = request.answer
        /\ request'.saved = request.saved /\ request'.found = row[t] /\ request'.role = t
    BY <1>1, <2>1 DEF RequestRecords, SameRequest, PipelinePcs
  <2>3. StepOK'
    BY <1>1, <1>2, <1>4, <2>1, <2>2, RowFacts DEF StepOK, Validated, FoundRole
  <2> QED
    BY <1>1, <1>2, <2>2, <2>3, HandlerGoesOn DEF Saving
<1> QED
  BY <1>3, <1>4

LEMMA MenusSafe == ASSUME PipelineInv, FindMenus PROVE PipelineInv'
<1>1. /\ request.pc = "menus" /\ request \in RequestRecords /\ WorldSame
      /\ request' = [request EXCEPT !.pc = "save", !.menus = request.menus \intersect menus]
  BY DEF FindMenus, Only, WorldSame, PipelineInv
<1>2. /\ UniqueRows' /\ Rows' = Rows /\ row' = row
      /\ UNCHANGED <<config, revoked, permitted, menus, before, raced>>
  BY <1>1, UniqueKept DEF PipelineInv, WorldSame
<1>3. row' \in [Roles -> Bodies \union {NoRow, Gone}]
  BY <1>2 DEF PipelineInv, WorldOK
<1>4. /\ request' \in RequestRecords /\ SameRequest(request') /\ request'.pc = "save"
      /\ request'.ran = request.ran /\ request'.answer = request.answer
      /\ request'.saved = request.saved /\ request'.found = request.found
      /\ request'.menus \subseteq menus
  BY <1>1 DEF RequestRecords, SameRequest, PipelinePcs
<1>5. Exists(Roles \ {request.role}, request.row.value)' <=> Exists(Roles \ {request.role}, request.row.value)
  BY <1>2, <1>4 DEF Exists, SameRequest
<1>6. StepOK'
  BY <1>1, <1>2, <1>4, <1>5 DEF PipelineInv, StepOK, Validated, FoundRole, SameRequest
<1> QED
  BY <1>1, <1>2, <1>3, <1>4, <1>6, HandlerGoesOn DEF Saving

LEMMA SaveSafe == ASSUME PipelineInv, Save PROVE PipelineInv'
<1>1. /\ request.pc = "save" /\ request \in RequestRecords
      /\ row \in [Roles -> Bodies \union {NoRow, Gone}] /\ UniqueRows
      /\ UNCHANGED <<config, revoked, permitted, menus, before, raced>>
      /\ request.pc \in Handling /\ route.save
  BY DEF Save, PipelineInv, WorldOK, SaveOK, Handling, Saving
<1>2. PICK t \in IF request.role = 0 THEN NewRole ELSE {request.role} \intersect Roles :
         IF Collides(t, entity) \/ ~(request.menus \subseteq menus)
         THEN request' = Done(request, Http(500)) /\ row' = row
         ELSE /\ row' = [row EXCEPT ![t] = entity]
              /\ request' = IF request.role = 0 THEN Done([request EXCEPT !.saved = TRUE], ResOp)
                            ELSE [request EXCEPT !.pc = "refresh"]
  BY DEF Save
<1>3. t \in Roles /\ (request.role # 0 => t = request.role)
  BY <1>2 DEF NewRole, Free
<1>4. entity \in Bodies
  BY <1>1 DEF entity, PipelineInv, SaveOK, StepOK, FoundRole
<1>5. CASE Collides(t, entity) \/ ~(request.menus \subseteq menus)
  <2>1. request' = Done(request, Http(500)) /\ row' = row
    BY <1>2, <1>5
  <2>2. request.saved \in BOOLEAN /\ request' = Done([request EXCEPT !.saved = request.saved], Http(500))
    BY <1>1, <2>1, SavedAgain
  <2>3. UniqueRows' /\ Rows' = Rows
    BY <1>1, <2>1, UniqueKept
  <2>4. ASSUME ~raced
        PROVE  ~request.saved /\ \E q \in Rows \ {request.role} : row[q].name = request.row.name
    <3>1. PICK q \in Rows \ {t} : row[q].name = entity.name \/ row[q].value = entity.value
      BY <1>1, <1>5, <2>4 DEF PipelineInv, StepOK, Collides
    <3>2. request.role = 0
      BY <1>1, <1>3, <2>4, <3>1 DEF PipelineInv, StepOK, FoundRole, entity, UniqueRows, Collides
    <3>3. ~request.saved /\ row[q].value # request.row.value /\ q \in Rows \ {0}
      BY <1>1, <2>4, <3>1, <3>2, RowFacts DEF PipelineInv, StepOK, Validated, Exists
    <3> QED
      BY <3>1, <3>2, <3>3 DEF entity
  <2> QED
    BY <1>1, <2>1, <2>2, <2>3, <2>4, AnswerFacts, DoneSafe
<1>6. CASE ~(Collides(t, entity) \/ ~(request.menus \subseteq menus))
  <2>1. UniqueRows' /\ row' \in [Roles -> Bodies \union {NoRow, Gone}]
    BY <1>1, <1>2, <1>3, <1>4, <1>6, UniqueSet
  <2>2. CASE request.role = 0
    <3>1. request' = Done([request EXCEPT !.saved = TRUE], ResOp)
      BY <1>2, <1>6, <2>2
    <3> QED
      BY <1>1, <2>1, <3>1, AnswerFacts, DoneSafe
  <2>3. CASE request.role # 0
    <3>1. request' = [request EXCEPT !.pc = "refresh"]
      BY <1>2, <1>6, <2>3
    <3>2. /\ request' \in RequestRecords /\ SameRequest(request') /\ request'.pc = "refresh"
          /\ request'.ran = request.ran /\ request'.answer = request.answer
          /\ request'.saved = request.saved /\ request'.role = request.role
      BY <1>1, <3>1 DEF RequestRecords, SameRequest, PipelinePcs
    <3>3. StepOK'
      BY <1>1, <1>3, <2>3, <3>2 DEF PipelineInv, StepOK, Validated, FoundRole
    <3> QED
      BY <1>1, <2>1, <3>2, <3>3, HandlerGoesOn DEF Saving
  <2> QED
    BY <2>2, <2>3
<1> QED
  BY <1>5, <1>6

LEMMA TimeOutSafe == ASSUME PipelineInv, TimeOut PROVE PipelineInv'
<1>1. /\ request.pc \in Handling /\ request \in RequestRecords /\ WorldSame
      /\ request' = [request EXCEPT !.answer = Http(408)]
  BY DEF TimeOut, Only, WorldSame, PipelineInv
<1>2. Http(408) \in Answers
  BY AnswerFacts DEF Statuses
<1>3. /\ request' \in RequestRecords /\ RestSame /\ request'.pc = request.pc /\ request'.answer = Http(408)
  BY <1>1, <1>2 DEF RequestRecords, RestSame, SameRequest
<1>4. route' = route
  BY <1>3 DEF route, RestSame, SameRequest
<1>5. WorldOK' /\ UniqueRows' /\ SinceArrival' /\ Rows' = Rows
  BY <1>1, WorldKept DEF PipelineInv
<1>6. GuardsOK'
  BY <1>3, <1>4 DEF PipelineInv, GuardsOK, RestSame, WorldSame, SameRequest, Permitted, Authenticated
<1>7. SaveOK' /\ AnswerTells'
  BY <1>1, <1>3, <1>4 DEF PipelineInv, SaveOK, AnswerTells, RestSame, SameRequest, Handling, Saving
<1>8. StepOK'
  BY <1>3, <1>5 DEF PipelineInv, StepOK, Validated, FoundRole, Exists, RestSame, WorldSame, SameRequest
<1> QED
  BY <1>3, <1>5, <1>6, <1>7, <1>8 DEF PipelineInv

(* What other requests do meanwhile.  Of the session, only what stood        *)
(* against the token ever since can become less.                             *)
LEMMA SessionSafe ==
    ASSUME PipelineInv, SessionNext
    PROVE  PipelineInv'
<1>1. UNCHANGED <<config, row, menus, request, raced>>
  BY DEF SessionNext, Revoke, Restore, Grant
<1>2. /\ before'.revoked \subseteq before.revoked /\ (before.permitted => before'.permitted)
      /\ before' \in [revoked : SUBSET Revocations, permitted : BOOLEAN]
      /\ revoked' \subseteq Revocations /\ permitted' \in BOOLEAN /\ SinceArrival'
  <2>1. /\ before \in [revoked : SUBSET Revocations, permitted : BOOLEAN] /\ before.revoked \subseteq revoked
        /\ revoked \subseteq Revocations /\ permitted \in BOOLEAN /\ (permitted => before.permitted)
    BY DEF PipelineInv, WorldOK, SinceArrival
  <2>2. ASSUME NEW how \in Revocations, Revoke(how) PROVE <1>2!:
    BY <2>1, <2>2 DEF Revoke, SinceArrival
  <2>3. ASSUME NEW how \in Revocations, Restore(how) PROVE <1>2!:
    <3>1. /\ revoked' = revoked \ {how} /\ before' = [before EXCEPT !.revoked = @ \ {how}]
          /\ permitted' = permitted
      BY <2>3 DEF Restore
    <3>2. before'.revoked = before.revoked \ {how} /\ before'.permitted = before.permitted
      BY <2>1, <3>1
    <3> QED
      BY <2>1, <3>1, <3>2 DEF SinceArrival
  <2>4. CASE Grant
    <3>1. permitted' = ~permitted /\ before' = [before EXCEPT !.permitted = TRUE] /\ revoked' = revoked
      BY <2>4 DEF Grant
    <3>2. before'.revoked = before.revoked /\ before'.permitted
      BY <2>1, <3>1
    <3> QED
      BY <2>1, <3>1, <3>2 DEF SinceArrival
  <2> QED
    BY <2>2, <2>3, <2>4 DEF SessionNext
<1>3. route' = route /\ Rows' = Rows
  BY <1>1 DEF route, Rows
<1>4. WorldOK' /\ UniqueRows' /\ request' \in RequestRecords
  BY <1>1, <1>2, UniqueKept DEF PipelineInv, WorldOK
<1>5. GuardsOK'
  BY <1>1, <1>2, <1>3 DEF PipelineInv, GuardsOK, Permitted, Authenticated
<1>6. SaveOK' /\ StepOK' /\ AnswerTells'
  BY <1>1, <1>3 DEF PipelineInv, SaveOK, StepOK, Validated, FoundRole, Exists, AnswerTells
<1> QED
  BY <1>2, <1>4, <1>5, <1>6 DEF PipelineInv

LEMMA RowsSafe == ASSUME PipelineInv, RowsNext PROVE PipelineInv'
<1>1. /\ UNCHANGED <<config, revoked, permitted, request, before>> /\ raced' \in BOOLEAN /\ (raced => raced')
      /\ request.pc \in {"validate", "refresh"} \union Saving
      /\ row \in [Roles -> Bodies \union {NoRow, Gone}] /\ UniqueRows
  <2>1. UNCHANGED <<config, revoked, permitted, request, before>>
    BY DEF RowsNext, OtherSave, OtherDelete
  <2>2. raced' \in BOOLEAN /\ (raced => raced')
    BY DEF RowsNext, OtherSave, OtherDelete
  <2>3. request.pc \in {"validate", "refresh"} \union Saving
    BY DEF RowsNext, OtherSave, OtherDelete
  <2> QED
    BY <2>1, <2>2, <2>3 DEF PipelineInv, WorldOK
<1>2. route' = route
  BY <1>1 DEF route
<1>3. ASSUME UniqueRows', row' \in [Roles -> Bodies \union {NoRow, Gone}], menus' \subseteq Menus, StepOK'
      PROVE  PipelineInv'
  <2>1. WorldOK' /\ SinceArrival' /\ request' \in RequestRecords
    BY <1>1, <1>3 DEF PipelineInv, WorldOK, SinceArrival
  <2>2. GuardsOK' /\ SaveOK'
    BY <1>1, <1>2 DEF PipelineInv, GuardsOK, SaveOK, Permitted, Authenticated
  <2>3. AnswerTells'
    BY <1>1 DEF AnswerTells, Saving
  <2> QED
    BY <1>3, <2>1, <2>2, <2>3 DEF PipelineInv
<1>4. ASSUME NEW r \in Roles, NEW new \in Bodies \union {Gone}, OtherSave(r, new) PROVE PipelineInv'
  <2>1. /\ row' = [row EXCEPT ![r] = new] /\ menus' = menus /\ (new # Gone => ~Collides(r, new))
        /\ request.pc \in Saving /\ ~raced' => ~raced /\ r # request.role /\ new.value # request.row.value
    BY <1>1, <1>4 DEF OtherSave
  <2>2. UniqueRows' /\ row' \in [Roles -> Bodies \union {NoRow, Gone}]
    BY <1>1, <2>1, UniqueSet
  <2>3. row'[r] = new /\ \A q \in Roles \ {r} : row'[q] = row[q]
    BY <1>1, <2>1
  <2>4. ASSUME request.pc \in Saving, ~raced'
        PROVE  /\ ~raced /\ (request.role \in Rows' <=> request.role \in Rows)
               /\ request.role \in Rows => row'[request.role] = row[request.role]
               /\ ~Exists(Roles \ {request.role}, request.row.value)
                    => ~Exists(Roles \ {request.role}, request.row.value)'
    <3>1. ~raced /\ r # request.role /\ new.value # request.row.value
      BY <2>1, <2>4
    <3>2. /\ request.role \in Rows' <=> request.role \in Rows
          /\ request.role \in Rows => row'[request.role] = row[request.role]
      BY <2>3, <3>1 DEF Rows
    <3>3. ASSUME ~Exists(Roles \ {request.role}, request.row.value)
          PROVE  \A q \in Roles \ {request.role} : row'[q].value # request.row.value
      BY <2>3, <3>1, <3>3 DEF Exists
    <3> QED
      BY <1>1, <3>1, <3>2, <3>3 DEF Exists
  <2>5. StepOK'
    <3>1. CASE request.pc \in Saving
      BY <1>1, <2>1, <2>4, <3>1 DEF PipelineInv, StepOK, Validated, FoundRole
    <3>2. CASE request.pc \in {"validate", "refresh"}
      BY <1>1, <3>2 DEF PipelineInv, StepOK, Validated, FoundRole
    <3> QED
      BY <1>1, <3>1, <3>2
  <2>6. menus' \subseteq Menus
    BY <2>1 DEF PipelineInv, WorldOK
  <2> QED
    BY <1>3, <2>2, <2>5, <2>6
<1>5. ASSUME NEW m \in Menus, OtherDelete(m) PROVE PipelineInv'
  <2>1. /\ menus' = menus \ {m} /\ row' = row /\ request.pc \in Saving
        /\ ~raced' => ~raced /\ (request.pc = "save" => m \notin request.menus)
    BY <1>5 DEF OtherDelete
  <2>2. UniqueRows' /\ Rows' = Rows
    BY <1>1, <2>1, UniqueKept
  <2>3. StepOK'
    BY <1>1, <2>1, <2>2 DEF PipelineInv, StepOK, Validated, FoundRole, Exists
  <2>4. menus' \subseteq Menus
    BY <2>1 DEF PipelineInv, WorldOK
  <2> QED
    BY <1>1, <1>3, <2>1, <2>2, <2>3, <2>4
<1> QED
  BY <1>4, <1>5 DEF RowsNext

LEMMA PipelineStep == PipelineInv /\ [PipelineNext]_pipelineVars => PipelineInv'
<1> SUFFICES ASSUME PipelineInv, [PipelineNext]_pipelineVars PROVE PipelineInv'
  OBVIOUS
<1>1. CASE UNCHANGED pipelineVars
  <2>1. WorldSame /\ request' = request
    BY <1>1 DEF pipelineVars, WorldSame
  <2>2. WorldOK' /\ UniqueRows' /\ SinceArrival' /\ Rows' = Rows
    BY <2>1, WorldKept DEF PipelineInv
  <2>3. route' = route
    BY <2>1 DEF route
  <2>4. GuardsOK' /\ SaveOK'
    BY <2>1, <2>3 DEF PipelineInv, GuardsOK, SaveOK, Permitted, Authenticated, WorldSame
  <2>5. StepOK' /\ AnswerTells'
    BY <2>1, <2>2, <2>3 DEF PipelineInv, StepOK, AnswerTells, Validated, FoundRole, Exists, WorldSame
  <2> QED
    BY <2>1, <2>2, <2>4, <2>5 DEF PipelineInv
<1>2. ASSUME NEW name \in DOMAIN Routes, NEW token \in {"none", "bad", "mine", "mineBySse"},
             IF Routes[name].save
             THEN \E asked \in SUBSET Menus :
                     \/ \E body \in Bodies : Arrive(name, token, 0, body, asked)
                     \/ \E role \in Roles, body \in Changes : Arrive(name, token, role, body, asked)
             ELSE Arrive(name, token, 0, NoRow, {})
      PROVE  PipelineInv'
  <2>1. name \in RouteNames /\ token \in Tokened
    BY DEF Routes, RouteNames, Tokened
  <2>2. ASSUME NEW asked \in SUBSET Menus, NEW body \in Bodies, Arrive(name, token, 0, body, asked)
        PROVE  PipelineInv'
    BY <2>1, <2>2, ArriveSafe, RowFacts
  <2>3. ASSUME NEW asked \in SUBSET Menus, NEW role \in Roles, NEW body \in Changes,
               Arrive(name, token, role, body, asked)
        PROVE  PipelineInv'
    BY <2>1, <2>3, ArriveSafe, RowFacts
  <2>4. CASE ~Routes[name].save
    <3>1. Arrive(name, token, 0, NoRow, {})
      BY <1>2, <2>4
    <3> QED
      BY <2>1, <2>4, <3>1, ArriveSafe
  <2> QED
    BY <1>2, <2>2, <2>3, <2>4
<1>3. CASE RequestNext
  BY <1>2, <1>3, GuardSteps, ValidateSafe, UpdateSafe, FindSafe, MenusSafe, SaveSafe, HandleSafe, TimeOutSafe
     DEF RequestNext
<1> QED
  BY <1>1, <1>3, SessionSafe, RowsSafe DEF PipelineNext

(* RunsAuthorised: whatever is revoked, restored or granted between two      *)
(* reads of the guards, the handler of a route that is not public runs only  *)
(* for a token that nothing stood against ever since the request arrived,    *)
(* and with its permission (JwtAuthGuard, RbacGuard: canActivate).           *)
THEOREM HandlersAuthorised == PipelineSpec => []RunsAuthorised
<1>1. PipelineInv => RunsAuthorised
  <2> SUFFICES ASSUME PipelineInv, Runs, ~route.public
               PROVE  /\ request.token = "mine"
                      /\ before.revoked \subseteq {"replaced"}
                      /\ "replaced" \in before.revoked => config.multi
                      /\ route.perm => config.admin \/ before.permitted
                      /\ config.demo => route.get
    BY DEF RunsAuthorised
  <2>1. Permitted /\ Authenticated
    BY DEF Runs, Permitted, Authenticated
  <2>2. before.revoked \subseteq Revocations
    BY DEF PipelineInv, WorldOK
  <2> QED
    BY <2>1, <2>2 DEF PipelineInv, GuardsOK, Revocations
<1> QED
  BY <1>1, PipelineInvInit, PipelineStep, PTL DEF PipelineSpec

(* AnswerTells: a code of 200 says that the handler ran and, like any that   *)
(* is not a timeout, whether it saved, unless another request got in the     *)
(* way; and without one, 500 is the answer only to a role that does not      *)
(* exist and to a name in use (AllExceptionsFilter, TransformInterceptor,    *)
(* UniqueConstraint, role.service.ts: create, update).                       *)
THEOREM AnswersTell == PipelineSpec => []AnswerTells
<1>1. PipelineInv => AnswerTells
  BY DEF PipelineInv
<1> QED
  BY <1>1, PipelineInvInit, PipelineStep, PTL DEF PipelineSpec

(* The types of a request on its way, the unique columns of sys_role, and    *)
(* the statuses of the answers.                                              *)
LEMMA PipelineTyped == PipelineSpec => []PipelineTypeOK
<1>1. PipelineInv => PipelineTypeOK
  <2> SUFFICES ASSUME PipelineInv PROVE PipelineTypeOK
    OBVIOUS
  <2>1. /\ request.pc \in PipelinePcs /\ request.menus \in SUBSET Menus
        /\ request.answer.status \in Statuses
    BY DEF PipelineInv, RequestRecords, Answers
  <2>2. request.pc \in {"idle", "blacklist", "verify", "version", "device", "rbac", "throttle", "validate",
                        "answered"} \union Handling
    BY <2>1 DEF PipelinePcs, Handling, Saving
  <2> QED
    BY <2>1, <2>2 DEF PipelineInv, WorldOK, UniqueRows, Statuses, PipelineTypeOK
<1> QED
  BY <1>1, PipelineInvInit, PipelineStep, PTL DEF PipelineSpec

-----------------------------------------------------------------------------
(* TaskRuns.  A job has no more entries of status 1 than its service         *)
(* returned, and before it is logged without trouble it has none at all.     *)

RunPcs == {"idle", "queued", "method", "logSuccess", "logFailure", "completed", "failed"}
JobRecords == [pc : RunPcs, task : Tasks \union {"none"}, service : Services \union {NoService}, calls : Nat,
               returned : Nat, rows : [1..2 -> Nat], trouble : BOOLEAN, stalled : BOOLEAN]

Quiet(r) == ~r.trouble /\ ~r.stalled
LoggedOK(r) ==
    /\ r.rows[2] <= r.returned
    /\ r.pc = "logSuccess" => r.rows[2] < r.returned
    /\ r.pc = "failed" => r.trouble
    /\ Quiet(r) /\ r.pc # "completed" => r.rows[1] = 0 /\ r.rows[2] = 0
    /\ Quiet(r) /\ r.pc \in {"idle", "queued", "method", "logFailure"} => r.returned = 0
    /\ Quiet(r) /\ r.pc = "logSuccess" => r.returned = 1
    /\ Quiet(r) /\ r.pc = "completed" =>
         \/ r.returned = 1 /\ r.rows[1] = 0 /\ r.rows[2] = 1
         \/ r.returned = 0 /\ r.rows[1] = 1 /\ r.rows[2] = 0
RunInv == /\ job \in [Jobs -> JobRecords] /\ serviceOf \in [Tasks -> Services \union {NoService}]
          /\ \A j \in Jobs : LoggedOK(job[j])

LEMMA TwoRows == ASSUME NEW logged \in [1..2 -> Nat] PROVE logged = <<logged[1], logged[2]>>
OBVIOUS

LEMMA NoRows == <<0, 0>> \in [1..2 -> Nat] /\ <<0, 0>>[1] = 0 /\ <<0, 0>>[2] = 0
OBVIOUS

LEMMA NoJobOK == NoJob \in JobRecords /\ LoggedOK(NoJob)
<1>1. PICK none \in [1..2 -> Nat] : none = <<0, 0>> /\ none[1] = 0 /\ none[2] = 0
  BY NoRows
<1>2. NoJob = [pc |-> "idle", task |-> "none", service |-> NoService, calls |-> 0,
               returned |-> 0, rows |-> none, trouble |-> FALSE, stalled |-> FALSE]
  BY <1>1 DEF NoJob
<1>3. NoJob \in JobRecords
  BY <1>2 DEF JobRecords, RunPcs
<1>4. LoggedOK(NoJob)
  BY <1>1, <1>2 DEF LoggedOK, Quiet
<1> QED
  BY <1>3, <1>4

LEMMA RunInvInit == RunInit => RunInv
BY NoJobOK DEF RunInit, RunInv

(* One job changes.                                                          *)
LEMMA JobChange ==
    ASSUME RunInv, serviceOf' \in [Tasks -> Services \union {NoService}], NEW j \in Jobs,
           job' \in [Jobs -> JobRecords], \A i \in Jobs \ {j} : job'[i] = job[i], LoggedOK(job'[j])
    PROVE  RunInv'
BY DEF RunInv, LoggedOK, Quiet

LEMMA RunStep == RunInv /\ [RunNext]_runVars => RunInv'
<1> SUFFICES ASSUME RunInv, [RunNext]_runVars PROVE RunInv'
  OBVIOUS
<1>a. job \in [Jobs -> JobRecords] /\ serviceOf \in [Tasks -> Services \union {NoService}]
  BY DEF RunInv
<1>1. CASE UNCHANGED runVars
  BY <1>1 DEF runVars, RunInv, LoggedOK, Quiet
<1>2. ASSUME NEW t \in Tasks, DropTask(t) \/ (\E s \in Services : SaveTask(t, s)) PROVE RunInv'
  <2>1. job' = job
    BY <1>2 DEF DropTask, SaveTask
  <2>2. serviceOf' \in [Tasks -> Services \union {NoService}]
    BY <1>2, <1>a DEF DropTask, SaveTask
  <2> QED
    BY <2>1, <2>2 DEF RunInv, LoggedOK, Quiet
<1>3. ASSUME NEW s \in Services, NEW p \in Provisions, Deploy(s, p) PROVE RunInv'
  BY <1>3 DEF Deploy, RunInv, LoggedOK, Quiet
<1>4. ASSUME NEW j \in Jobs, NEW t \in Tasks, AddJob(j, t) PROVE RunInv'
  <2>1. PICK r : r = [NoJob EXCEPT !.pc = "queued", !.task = t, !.service = serviceOf[t]]
    OBVIOUS
  <2>2. /\ r \in JobRecords /\ r.pc = "queued" /\ r.returned = NoJob.returned
        /\ r.rows = NoJob.rows /\ r.trouble = NoJob.trouble /\ r.stalled = NoJob.stalled
    BY <1>a, <2>1, NoJobOK DEF JobRecords, RunPcs
  <2>3. NoJob.pc = "idle"
    BY DEF NoJob
  <2>4. LoggedOK(r)
    BY <2>2, <2>3, NoJobOK DEF LoggedOK, Quiet
  <2>5. job' = [job EXCEPT ![j] = r] /\ UNCHANGED serviceOf
    BY <1>4, <2>1 DEF AddJob
  <2> QED
    BY <1>a, <2>2, <2>4, <2>5, JobChange
<1>5. ASSUME NEW j \in Jobs, NEW pc \in RunPcs, To(j, pc), UNCHANGED serviceOf,
             pc = "logFailure", job[j].pc \in {"queued", "method"}
      PROVE  RunInv'
  <2>1. job' = [job EXCEPT ![j].pc = pc]
    BY <1>5 DEF To
  <2>2. /\ job' \in [Jobs -> JobRecords] /\ \A i \in Jobs \ {j} : job'[i] = job[i]
        /\ job'[j].pc = pc /\ job'[j].returned = job[j].returned
        /\ job'[j].rows = job[j].rows /\ job'[j].trouble = job[j].trouble /\ job'[j].stalled = job[j].stalled
    BY <1>a, <2>1 DEF JobRecords
  <2>3. LoggedOK(job'[j])
    BY <1>5, <2>2 DEF RunInv, LoggedOK, Quiet
  <2> QED
    BY <1>5, <1>a, <2>2, <2>3, JobChange
<1>6. ASSUME NEW j \in Jobs, CallService(j) PROVE RunInv'
  <2>1. CASE ~IsMission(job[j].service)
    BY <1>5, <1>6, <2>1 DEF CallService, To, RunPcs
  <2>2. CASE IsMission(job[j].service)
    <3>1. /\ job' = [job EXCEPT ![j].pc = "method", ![j].calls = @ + 1]
          /\ UNCHANGED serviceOf /\ job[j].pc = "queued" /\ provided[job[j].service] = "mission"
      BY <1>6, <2>2 DEF CallService, IsMission
    <3>2. /\ job' \in [Jobs -> JobRecords] /\ \A i \in Jobs \ {j} : job'[i] = job[i]
          /\ job'[j].pc = "method" /\ job'[j].returned = job[j].returned
          /\ job'[j].rows = job[j].rows /\ job'[j].trouble = job[j].trouble /\ job'[j].stalled = job[j].stalled
      BY <1>a, <3>1 DEF JobRecords, RunPcs
    <3>3. LoggedOK(job'[j])
      BY <3>1, <3>2 DEF RunInv, LoggedOK, Quiet
    <3> QED
      BY <1>a, <3>1, <3>2, <3>3, JobChange
  <2> QED
    BY <2>1, <2>2
<1>7. ASSUME NEW j \in Jobs, Returned(j) PROVE RunInv'
  <2>1. /\ job' = [job EXCEPT ![j].pc = "logSuccess", ![j].returned = @ + 1]
        /\ UNCHANGED serviceOf /\ job[j].pc = "method"
    BY <1>7 DEF Returned
  <2>2. /\ job' \in [Jobs -> JobRecords] /\ \A i \in Jobs \ {j} : job'[i] = job[i]
        /\ job'[j].pc = "logSuccess" /\ job'[j].returned = job[j].returned + 1
        /\ job'[j].rows = job[j].rows /\ job'[j].trouble = job[j].trouble /\ job'[j].stalled = job[j].stalled
    BY <1>a, <2>1 DEF JobRecords, RunPcs
  <2>3. job[j].returned \in Nat /\ job[j].rows[2] \in Nat
    BY <1>a DEF JobRecords
  <2>4. LoggedOK(job'[j])
    BY <2>1, <2>2, <2>3 DEF RunInv, LoggedOK, Quiet
  <2> QED
    BY <1>a, <2>1, <2>2, <2>4, JobChange
<1>8. ASSUME NEW j \in Jobs, NEW status \in {0, 1}, NEW pc \in RunPcs, WriteRow(j, status, pc),
             \/ status = 1 /\ job[j].pc = "logSuccess" /\ pc \in {"completed", "logFailure"}
             \/ status = 0 /\ job[j].pc = "logFailure" /\ pc \in {"completed", "failed"}
      PROVE  RunInv'
  <2>1. PICK trouble \in BOOLEAN : trouble <=> (job[j].trouble \/ pc # "completed")
    OBVIOUS
  <2>2. PICK logged : logged = [job[j].rows EXCEPT ![status + 1] = @ + 1]
    OBVIOUS
  <2>3. /\ job' = [job EXCEPT ![j].pc = pc, ![j].rows = logged, ![j].trouble = trouble]
        /\ UNCHANGED serviceOf
    BY <1>8, <1>a, <2>1, <2>2 DEF WriteRow, JobRecords
  <2>4. /\ logged \in [1..2 -> Nat] /\ job[j].returned \in Nat
        /\ job[j].rows[1] \in Nat /\ job[j].rows[2] \in Nat
        /\ status = 0 => logged[1] = job[j].rows[1] + 1 /\ logged[2] = job[j].rows[2]
        /\ status = 1 => logged[1] = job[j].rows[1] /\ logged[2] = job[j].rows[2] + 1
    BY <1>a, <2>2 DEF JobRecords
  <2>5. /\ job' \in [Jobs -> JobRecords] /\ \A i \in Jobs \ {j} : job'[i] = job[i]
        /\ job'[j].pc = pc /\ job'[j].returned = job[j].returned
        /\ job'[j].rows = logged /\ job'[j].trouble = trouble /\ job'[j].stalled = job[j].stalled
    BY <1>a, <2>3, <2>4 DEF JobRecords
  <2>6. LoggedOK(job'[j])
    <3>1. LoggedOK(job[j])
      BY DEF RunInv
    <3>2. CASE status = 1
      BY <1>8, <2>1, <2>4, <2>5, <3>1, <3>2 DEF LoggedOK, Quiet
    <3>3. CASE status = 0
      BY <1>8, <2>1, <2>4, <2>5, <3>1, <3>3 DEF LoggedOK, Quiet
    <3> QED
      BY <1>8, <3>2, <3>3
  <2> QED
    BY <1>a, <2>3, <2>5, <2>6, JobChange
<1>9. ASSUME NEW j \in Jobs, NEW pc \in {"logFailure", "failed"}, WriteRefused(j, pc) PROVE RunInv'
  <2>1. job' = [job EXCEPT ![j].pc = pc, ![j].trouble = TRUE] /\ UNCHANGED serviceOf
    BY <1>9 DEF WriteRefused
  <2>2. /\ job' \in [Jobs -> JobRecords] /\ \A i \in Jobs \ {j} : job'[i] = job[i]
        /\ job'[j].pc = pc /\ job'[j].returned = job[j].returned
        /\ job'[j].rows = job[j].rows /\ job'[j].trouble = TRUE
    <3>1. PICK r \in JobRecords : r = [job[j] EXCEPT !.pc = pc, !.trouble = TRUE]
      BY <1>a DEF JobRecords, RunPcs
    <3>2. job' = [job EXCEPT ![j] = r]
      BY <1>a, <2>1, <3>1
    <3>3. /\ r.pc = pc /\ r.returned = job[j].returned
          /\ r.rows = job[j].rows /\ r.trouble = TRUE
      BY <1>a, <3>1 DEF JobRecords
    <3> QED
      BY <1>a, <3>2, <3>3
  <2>3. LoggedOK(job'[j])
    <3>1. LoggedOK(job[j])
      BY DEF RunInv
    <3> QED
      BY <1>9, <2>2, <3>1 DEF LoggedOK, Quiet
  <2> QED
    BY <1>a, <2>1, <2>2, <2>3, JobChange
<1>10. ASSUME NEW j \in Jobs, Stall(j) PROVE RunInv'
  <2>1. job' = [job EXCEPT ![j].pc = "queued", ![j].stalled = TRUE] /\ UNCHANGED serviceOf
    BY <1>10 DEF Stall
  <2>2. /\ job' \in [Jobs -> JobRecords] /\ \A i \in Jobs \ {j} : job'[i] = job[i]
        /\ job'[j].pc = "queued" /\ job'[j].returned = job[j].returned
        /\ job'[j].rows = job[j].rows /\ job'[j].stalled = TRUE
    <3>1. PICK r \in JobRecords : r = [job[j] EXCEPT !.pc = "queued", !.stalled = TRUE]
      BY <1>a DEF JobRecords, RunPcs
    <3>2. job' = [job EXCEPT ![j] = r]
      BY <1>a, <2>1, <3>1
    <3>3. /\ r.pc = "queued" /\ r.returned = job[j].returned
          /\ r.rows = job[j].rows /\ r.stalled = TRUE
      BY <1>a, <3>1 DEF JobRecords
    <3> QED
      BY <1>a, <3>2, <3>3
  <2>3. LoggedOK(job'[j])
    <3>1. LoggedOK(job[j]) /\ job[j].pc \notin {"failed", "completed"}
      BY <1>10 DEF RunInv, Stall
    <3> QED
      BY <2>2, <3>1 DEF LoggedOK, Quiet
  <2> QED
    BY <1>a, <2>1, <2>2, <2>3, JobChange
<1>11. ASSUME NEW j \in Jobs, LogSuccess(j) \/ LogFailure(j) PROVE RunInv'
  <2>1. CASE LogSuccess(j)
    <3>1. ASSUME NEW pc \in {"completed", "logFailure"}, WriteRow(j, 1, pc) PROVE RunInv'
      BY <1>8, <2>1, <3>1 DEF LogSuccess, RunPcs
    <3> QED
      BY <1>9, <2>1, <3>1 DEF LogSuccess
  <2>2. CASE LogFailure(j)
    <3>1. ASSUME NEW pc \in {"completed", "failed"}, WriteRow(j, 0, pc) PROVE RunInv'
      BY <1>8, <2>2, <3>1 DEF LogFailure, RunPcs
    <3> QED
      BY <1>9, <2>2, <3>1 DEF LogFailure, CatchStatus
  <2> QED
    BY <1>11, <2>1, <2>2
<1>12. ASSUME NEW j \in Jobs, Throws(j) PROVE RunInv'
  BY <1>5, <1>12 DEF Throws, RunPcs
\* The same job twice: the one that lost its lock, and the one that is run beside it.
<1>13. ASSUME NEW j \in Jobs, NEW k \in Jobs, LockLost(j, k) PROVE RunInv'
  <2>1. PICK r : r = [NoJob EXCEPT !.pc = "queued", !.task = job[j].task, !.service = job[j].service,
                                   !.stalled = TRUE]
    OBVIOUS
  <2>2. PICK q : q = [job[j] EXCEPT !.stalled = TRUE]
    OBVIOUS
  <2>3. /\ job[j].pc \in {"method", "logSuccess", "logFailure"} /\ job[k].pc = "idle"
        /\ job' = [job EXCEPT ![j].stalled = TRUE, ![k] = r] /\ UNCHANGED serviceOf
    BY <1>13, <2>1 DEF LockLost
  <2>4. /\ r \in JobRecords /\ r.stalled = TRUE /\ r.rows = NoJob.rows /\ r.returned = NoJob.returned
        /\ r.trouble = NoJob.trouble /\ r.pc = "queued"
    BY <1>a, <2>1, NoJobOK DEF JobRecords, RunPcs
  <2>5. NoJob.rows \in [1..2 -> Nat] /\ NoJob.returned \in Nat /\ NoJob.rows[2] <= NoJob.returned
    BY NoJobOK DEF LoggedOK, JobRecords
  <2>6. LoggedOK(r)
    BY <2>4, <2>5 DEF LoggedOK, Quiet
  <2>7. /\ q \in JobRecords /\ q.stalled = TRUE /\ q.pc = job[j].pc /\ q.rows = job[j].rows
        /\ q.returned = job[j].returned /\ q.trouble = job[j].trouble
    BY <1>a, <2>2 DEF JobRecords
  <2>8. LoggedOK(q)
    <3>1. LoggedOK(job[j])
      BY DEF RunInv
    <3> QED
      BY <2>7, <3>1 DEF LoggedOK, Quiet
  <2>9. j # k /\ \A i \in Jobs : job'[i] = IF i = k THEN r ELSE IF i = j THEN q ELSE job[i]
    BY <1>a, <2>2, <2>3
  <2>10. job' \in [Jobs -> JobRecords]
    BY <1>a, <2>3, <2>4, <2>7, <2>9 DEF JobRecords
  <2>11. \A i \in Jobs : LoggedOK(job'[i])
    BY <2>6, <2>8, <2>9, Zenon DEF RunInv
  <2>12. \A i \in Jobs : LoggedOK(job[i])'
    BY <2>11 DEF LoggedOK, Quiet
  <2> QED
    BY <1>a, <2>3, <2>10, <2>12 DEF RunInv
<1>14. CASE RunNext
  BY <1>2, <1>3, <1>4, <1>6, <1>7, <1>10, <1>11, <1>12, <1>13, <1>14 DEF RunNext, Returns, ClearsTaskLog
<1> QED
  BY <1>1, <1>14

(* RunsAreLogged: the log of a job can be trusted, but for a log entry that  *)
(* met with trouble or a job that was run twice (TaskConsumer.handle,        *)
(* TaskService.callService).                                                 *)
THEOREM JobsLogged == RunSpec => []RunsAreLogged
<1>1. RunInv => RunsAreLogged
  <2> SUFFICES ASSUME RunInv, NEW j \in Jobs
               PROVE  /\ job[j].rows[2] <= job[j].returned
                      /\ job[j].pc = "completed" /\ ~job[j].trouble /\ ~job[j].stalled
                           => job[j].rows = IF job[j].returned = 1 THEN <<0, 1>> ELSE <<1, 0>>
    BY DEF RunsAreLogged
  <2>1. LoggedOK(job[j]) /\ job[j].rows \in [1..2 -> Nat]
    BY DEF RunInv, JobRecords
  <2>2. job[j].rows = <<job[j].rows[1], job[j].rows[2]>>
    BY <2>1, TwoRows
  <2> QED
    BY <2>1, <2>2 DEF LoggedOK, Quiet
<1> QED
  BY <1>1, RunInvInit, RunStep, PTL DEF RunSpec

-----------------------------------------------------------------------------
(* VerificationCode.  Of two requests past their checks of one limit, one    *)
(* missed the other, or one was sent its code so long before the other's     *)
(* check that the limit was over.                                            *)

CodePcs == {"idle", "refused", "ip", "to", "send", "code", "limitIp", "limitTo", "limited", "failed", "sent"}
MailedPcs == {"code", "limitIp", "limitTo", "sent"}
Sendings == [pc : CodePcs, to : Addresses \union {Nobody}, ip : Ips \union {Nobody}, from : Nat, dead : BOOLEAN]

\* c has passed its check of limit k, and may have sent its code; it has written the limit.
Past(c, k) ==
    \/ sending[c].ip = k /\ sending[c].pc \in {"to", "send"} \union MailedPcs
    \/ sending[c].to = k /\ sending[c].pc \in {"send"} \union MailedPcs
Wrote(c, k) ==
    \/ sending[c].ip = k /\ sending[c].pc \in {"limitTo", "sent"}
    \/ sending[c].to = k /\ sending[c].pc = "sent"
\* c's code was sent LimitTTL before now, and before d's.
Apart(c, d) ==
    \E m \in DOMAIN emailed :
        /\ emailed[m].by = c /\ emailed[m].at + LimitTTL <= now
        /\ \A n \in DOMAIN emailed : emailed[n].by = d => emailed[m].at + LimitTTL <= emailed[n].at

CodeTypes ==
    /\ now \in Nat
    /\ hits \in [Ips -> [n : {0, 2, Throttle + 1}, until : Nat]]
    /\ limit \in [Keys -> Nat]
    /\ sending \in [Requests -> Sendings]
    /\ emailed \in Seq([by : Requests, at : Nat])
    /\ \A c \in Requests : sending[c].pc # "idle" => sending[c].to \in Addresses /\ sending[c].ip \in Ips
EmailsOK ==
    /\ \A m \in DOMAIN emailed : emailed[m].at <= now /\ sending[emailed[m].by].pc \in MailedPcs
    /\ \A m, n \in DOMAIN emailed :
         m < n => emailed[m].at <= emailed[n].at /\ emailed[m].by # emailed[n].by
    /\ \A c \in Requests : sending[c].pc \in MailedPcs => \E m \in DOMAIN emailed : emailed[m].by = c
LimitsOK ==
    /\ \A k \in Keys : limit[k] <= now + LimitTTL
    /\ \A c \in Requests, k \in Keys : Wrote(c, k) =>
         \E m \in DOMAIN emailed : emailed[m].by = c /\ emailed[m].at + LimitTTL <= limit[k]
PairsOK ==
    \A c, d \in Requests, k \in Keys :
        c # d /\ Past(c, k) /\ Past(d, k) => Missed(c, d, k) \/ Apart(c, d) \/ Apart(d, c)

\* Past the throttler; the window of an ip's last request.
Let(c) == sending[c].pc \notin {"idle", "refused"}
ThrottleOK ==
    /\ \A c \in Requests : Let(c) =>
         /\ Throttle >= 2 /\ sending[c].from <= now
         /\ now < sending[c].from + Window =>
              hits[sending[c].ip].n >= 2 /\ sending[c].from + Window <= hits[sending[c].ip].until
    /\ \A c, d \in Requests : c # d /\ Let(c) /\ Let(d) /\ sending[c].ip = sending[d].ip =>
         sending[c].from + Window <= sending[d].from \/ sending[d].from + Window <= sending[c].from
CodeInv == CodeTypes /\ EmailsOK /\ LimitsOK /\ PairsOK /\ ThrottleOK

LEMMA CodeInvInit == CodeInit => CodeInv
<1> SUFFICES ASSUME CodeInit PROVE CodeInv
  OBVIOUS
<1>0. PICK dead \in BOOLEAN : dead = FALSE
  OBVIOUS
<1>1. /\ now = 0 /\ limit = [k \in Keys |-> 0] /\ emailed = <<>>
      /\ hits = [i \in Ips |-> [n |-> 0, until |-> 0]]
      /\ sending = [c \in Requests |-> [pc |-> "idle", to |-> Nobody, ip |-> Nobody, from |-> 0, dead |-> dead]]
  BY <1>0 DEF CodeInit
<1>2. sending \in [Requests -> Sendings] /\ \A c \in Requests : sending[c].pc = "idle"
  BY <1>1 DEF Sendings, CodePcs
<1>3. DOMAIN emailed = {} /\ emailed \in Seq([by : Requests, at : Nat])
  BY <1>1
<1>4. CodeTypes
  BY <1>1, <1>2, <1>3 DEF CodeTypes
<1>5. EmailsOK /\ LimitsOK /\ PairsOK /\ ThrottleOK
  BY <1>1, <1>2, <1>3, CodeAssumption
     DEF EmailsOK, LimitsOK, PairsOK, ThrottleOK, Past, Wrote, Let, MailedPcs
<1> QED
  BY <1>4, <1>5 DEF CodeInv

LEMMA EmailTyped ==
    ASSUME CodeInv, NEW m \in DOMAIN emailed
    PROVE  /\ emailed[m].by \in Requests /\ emailed[m].at \in Nat /\ emailed[m].at <= now
           /\ sending[emailed[m].by].pc \in MailedPcs
<1>1. emailed \in Seq([by : Requests, at : Nat])
  BY DEF CodeInv, CodeTypes
<1>2. emailed[m] \in [by : Requests, at : Nat]
  <2>1. ASSUME NEW S, NEW s \in Seq(S), NEW i \in DOMAIN s PROVE s[i] \in S
    OBVIOUS
  <2> QED
    BY <1>1, <2>1
<1> QED
  BY <1>2 DEF CodeInv, EmailsOK

LEMMA KeysTyped ==
    ASSUME CodeInv, NEW c \in Requests, sending[c].pc # "idle"
    PROVE  /\ sending[c].to \in Addresses /\ sending[c].ip \in Ips
           /\ sending[c].to \in Keys /\ sending[c].ip \in Keys
           /\ sending[c].to # sending[c].ip
BY CodeAssumption DEF CodeInv, CodeTypes, Keys

LEMMA ApartSame ==
    ASSUME UNCHANGED <<now, emailed>>
    PROVE  \A c, d : Apart(c, d)' <=> Apart(c, d)
BY DEF Apart

(* A request goes on, and sends no code.                                     *)
LEMMA RequestMoves ==
    ASSUME CodeInv, NEW c \in Requests, UNCHANGED <<now, hits, emailed>>,
           sending' \in [Requests -> Sendings], \A d \in Requests \ {c} : sending'[d] = sending[d],
           /\ sending'[c].to = sending[c].to /\ sending'[c].ip = sending[c].ip
           /\ sending'[c].from = sending[c].from,
           Let(c), Let(c)', sending'[c].pc \in MailedPcs <=> sending[c].pc \in MailedPcs,
           limit' \in [Keys -> Nat],
           \A k \in Keys : limit[k] <= limit'[k] /\ limit'[k] <= now + LimitTTL,
           missed \subseteq missed',
           \A k \in Keys : Wrote(c, k)' =>
               Wrote(c, k) \/ (sending[c].pc \in MailedPcs /\ limit'[k] = now + LimitTTL),
           \A k \in Keys : Past(c, k)' =>
               Past(c, k) \/ \A d \in Requests \ {c} : Past(d, k) => Missed(c, d, k)' \/ Apart(d, c)
    PROVE  CodeInv'
<1>1. CodeTypes'
  BY DEF CodeInv, CodeTypes, Let
<1>2. EmailsOK'
  <2>1. \A d \in Requests : sending'[d].pc \in MailedPcs <=> sending[d].pc \in MailedPcs
    OBVIOUS
  <2>2. \A m \in DOMAIN emailed : emailed[m].by \in Requests
    BY EmailTyped
  <2> QED
    BY <2>1, <2>2 DEF CodeInv, EmailsOK
<1>3. LimitsOK'
  <2>1. ASSUME NEW d \in Requests, NEW k \in Keys, Wrote(d, k)'
        PROVE  \E m \in DOMAIN emailed : emailed[m].by = d /\ emailed[m].at + LimitTTL <= limit'[k]
    <3>1. Wrote(d, k) \/ (sending[d].pc \in MailedPcs /\ limit'[k] = now + LimitTTL)
      BY <2>1 DEF Wrote
    <3>2. CASE Wrote(d, k)
      <4>1. PICK m \in DOMAIN emailed : emailed[m].by = d /\ emailed[m].at + LimitTTL <= limit[k]
        BY <3>2 DEF CodeInv, LimitsOK
      <4>2. emailed[m].at \in Nat /\ limit[k] \in Nat /\ limit'[k] \in Nat /\ limit[k] <= limit'[k]
        BY EmailTyped DEF CodeInv, CodeTypes
      <4> QED
        BY <4>1, <4>2, CodeAssumption
    <3>3. CASE sending[d].pc \in MailedPcs /\ limit'[k] = now + LimitTTL
      <4>1. PICK m \in DOMAIN emailed : emailed[m].by = d
        BY <3>3 DEF CodeInv, EmailsOK
      <4>2. emailed[m].at \in Nat /\ now \in Nat /\ emailed[m].at <= now
        BY EmailTyped DEF CodeInv, CodeTypes
      <4> QED
        BY <3>3, <4>1, <4>2, CodeAssumption
    <3> QED
      BY <3>1, <3>2, <3>3
  <2> QED
    BY <2>1 DEF LimitsOK
<1>4. PairsOK'
  <2>1. \A d, e, k : Missed(d, e, k) => Missed(d, e, k)'
    BY DEF Missed
  <2>2. \A d \in Requests \ {c} : \A k : Past(d, k)' <=> Past(d, k)
    BY DEF Past
  <2>3. ASSUME NEW d \in Requests \ {c}, NEW k \in Keys, Past(c, k)', Past(d, k)'
        PROVE  Missed(c, d, k)' \/ Apart(c, d)' \/ Apart(d, c)'
    <3>1. CASE Past(c, k)
      BY <2>1, <2>2, <2>3, <3>1, ApartSame DEF CodeInv, PairsOK
    <3>2. CASE ~Past(c, k)
      BY <2>2, <2>3, <3>2, ApartSame
    <3> QED
      BY <3>1, <3>2
  <2>4. ASSUME NEW d \in Requests, NEW e \in Requests, NEW k \in Keys, d # e, Past(d, k)', Past(e, k)'
        PROVE  Missed(d, e, k)' \/ Apart(d, e)' \/ Apart(e, d)'
    <3>1. CASE d = c
      BY <2>3, <2>4, <3>1
    <3>2. CASE e = c
      <4>1. Missed(c, d, k)' \/ Apart(c, d)' \/ Apart(d, c)'
        BY <2>3, <2>4, <3>2
      <4> QED
        BY <3>2, <4>1 DEF Missed
    <3>3. CASE d # c /\ e # c
      BY <2>1, <2>2, <2>4, <3>3, ApartSame DEF CodeInv, PairsOK
    <3> QED
      BY <3>1, <3>2, <3>3
  <2> QED
    BY <2>4 DEF PairsOK
<1>5. ThrottleOK'
  <2>1. \A d \in Requests : /\ Let(d)' <=> Let(d)
                            /\ sending'[d].ip = sending[d].ip /\ sending'[d].from = sending[d].from
    BY DEF Let
  <2> QED
    BY <2>1 DEF CodeInv, ThrottleOK
<1> QED
  BY <1>1, <1>2, <1>3, <1>4, <1>5 DEF CodeInv

LEMMA GotoEffect ==
    ASSUME CodeInv, NEW c \in Requests, NEW pc \in CodePcs, Goto(c, pc)
    PROVE  /\ sending' \in [Requests -> Sendings] /\ \A d \in Requests \ {c} : sending'[d] = sending[d]
           /\ sending'[c].to = sending[c].to /\ sending'[c].ip = sending[c].ip
           /\ sending'[c].from = sending[c].from /\ sending'[c].pc = pc
BY DEF CodeInv, CodeTypes, Goto, Sendings

(* checkLimit, before and after the write of the limit by others.            *)
LEMMA CheckSafe ==
    ASSUME CodeInv, NEW c \in Requests, NEW k \in Keys, NEW pc \in {"to", "send"}, Check(c, k, pc),
           \/ sending[c].pc = "ip" /\ k = sending[c].ip /\ pc = "to"
           \/ sending[c].pc = "to" /\ k = sending[c].to /\ pc = "send"
    PROVE  CodeInv'
<1>1. PICK next \in CodePcs : next = IF Limited(k) THEN "limited" ELSE pc
  BY DEF CodePcs
<1>2. /\ Goto(c, next) /\ UNCHANGED <<now, hits, limit, emailed>>
      /\ missed' = IF Limited(k) THEN missed ELSE missed \union {<<c, d, k>> : d \in Unseen(k) \ {c}}
  BY <1>1 DEF Check
<1>3. /\ sending' \in [Requests -> Sendings] /\ \A d \in Requests \ {c} : sending'[d] = sending[d]
      /\ sending'[c].to = sending[c].to /\ sending'[c].ip = sending[c].ip
      /\ sending'[c].from = sending[c].from /\ sending'[c].pc = next
  BY <1>2, GotoEffect
<1>4. /\ Let(c) /\ Let(c)' /\ sending[c].pc \notin MailedPcs /\ sending'[c].pc \notin MailedPcs
      /\ \A q \in Keys : ~Wrote(c, q)'
      /\ missed \subseteq missed'
  BY <1>1, <1>2, <1>3 DEF Let, MailedPcs, Wrote
<1>5. ASSUME NEW q \in Keys, Past(c, q)', ~Past(c, q), NEW d \in Requests \ {c}, Past(d, q)
      PROVE  Missed(c, d, q)' \/ Apart(d, c)
  <2>1. q = k /\ ~Limited(k) /\ next = pc
    BY <1>1, <1>3, <1>5 DEF Past, MailedPcs
  <2>2. CASE d \in Unseen(k)
    BY <1>2, <2>1, <2>2 DEF Missed
  <2>3. CASE d \notin Unseen(k)
    <3>1. Wrote(d, k)
      BY <1>5, <2>1, <2>3 DEF Unseen, Wrote, Past, MailedPcs
    <3>2. PICK m \in DOMAIN emailed : emailed[m].by = d /\ emailed[m].at + LimitTTL <= limit[k]
      BY <3>1 DEF CodeInv, LimitsOK
    <3>3. emailed[m].at \in Nat /\ limit[k] \in Nat /\ now \in Nat /\ limit[k] <= now
      BY <2>1, EmailTyped DEF CodeInv, CodeTypes, Limited
    <3>4. \A n \in DOMAIN emailed : emailed[n].by # c
      BY <1>4 DEF CodeInv, EmailsOK
    <3> QED
      BY <3>2, <3>3, <3>4, CodeAssumption DEF Apart
  <2> QED
    BY <2>2, <2>3
<1>6. /\ limit' \in [Keys -> Nat]
      /\ \A q \in Keys : limit[q] <= limit'[q] /\ limit'[q] <= now + LimitTTL
  BY <1>2 DEF CodeInv, CodeTypes, LimitsOK
<1> QED
  BY <1>2, <1>3, <1>4, <1>5, <1>6, RequestMoves

(* log writes a limit.                                                       *)
LEMMA LimitSafe ==
    ASSUME CodeInv, NEW c \in Requests, NEW k \in Keys, NEW pc \in {"limitTo", "sent"}, LimitKey(c, k, pc),
           \/ sending[c].pc = "limitIp" /\ k = sending[c].ip /\ pc = "limitTo"
           \/ sending[c].pc = "limitTo" /\ k = sending[c].to /\ pc = "sent"
    PROVE  CodeInv'
<1>1. /\ Goto(c, pc) /\ limit' = [limit EXCEPT ![k] = now + LimitTTL]
      /\ UNCHANGED <<now, hits, emailed, missed>>
  BY DEF LimitKey
<1>2. /\ sending' \in [Requests -> Sendings] /\ \A d \in Requests \ {c} : sending'[d] = sending[d]
      /\ sending'[c].to = sending[c].to /\ sending'[c].ip = sending[c].ip
      /\ sending'[c].from = sending[c].from /\ sending'[c].pc = pc
  BY <1>1, GotoEffect DEF CodePcs
<1>3. /\ Let(c) /\ Let(c)' /\ sending[c].pc \in MailedPcs /\ sending'[c].pc \in MailedPcs
  BY <1>2 DEF Let, MailedPcs
<1>4. \A q \in Keys : limit[q] \in Nat /\ now \in Nat /\ limit[q] <= now + LimitTTL
  BY DEF CodeInv, CodeTypes, LimitsOK
<1>5. /\ limit' \in [Keys -> Nat]
      /\ \A q \in Keys : limit[q] <= limit'[q] /\ limit'[q] <= now + LimitTTL
      /\ limit'[k] = now + LimitTTL
  BY <1>1, <1>4, CodeAssumption DEF CodeInv, CodeTypes
<1>6. \A q \in Keys : Wrote(c, q)' => Wrote(c, q) \/ q = k
  BY <1>2 DEF Wrote
<1>7. \A q \in Keys : Past(c, q)' => Past(c, q)
  BY <1>2 DEF Past, MailedPcs
<1> QED
  BY <1>1, <1>2, <1>3, <1>5, <1>6, <1>7, RequestMoves

(* A step of c that changes neither what it is past nor what it wrote.       *)
LEMMA QuietMove ==
    ASSUME CodeInv, NEW c \in Requests, UNCHANGED <<now, hits, limit, emailed, missed>>,
           sending' \in [Requests -> Sendings], \A d \in Requests \ {c} : sending'[d] = sending[d],
           /\ sending'[c].to = sending[c].to /\ sending'[c].ip = sending[c].ip
           /\ sending'[c].from = sending[c].from,
           Let(c),
           \/ sending'[c].pc = sending[c].pc
           \/ sending[c].pc = "code" /\ sending'[c].pc = "limitIp"
           \/ sending[c].pc = "send" /\ sending'[c].pc = "failed"
    PROVE  CodeInv'
<1>1. /\ Let(c)' /\ (sending'[c].pc \in MailedPcs <=> sending[c].pc \in MailedPcs)
      /\ \A k \in Keys : (Wrote(c, k)' => Wrote(c, k)) /\ (Past(c, k)' => Past(c, k))
  BY DEF Let, MailedPcs, Wrote, Past
<1>2. /\ limit' \in [Keys -> Nat]
      /\ \A q \in Keys : limit[q] <= limit'[q] /\ limit'[q] <= now + LimitTTL
  BY DEF CodeInv, CodeTypes, LimitsOK
<1> QED
  BY <1>1, <1>2, RequestMoves

(* The code leaves.                                                          *)
LEMMA MailSafe ==
    ASSUME CodeInv, NEW c \in Requests, sending[c].pc = "send", Goto(c, "code"),
           emailed' = Append(emailed, [by |-> c, at |-> now]), UNCHANGED <<now, hits, limit, missed>>
    PROVE  CodeInv'
<1>1. /\ sending' \in [Requests -> Sendings] /\ \A d \in Requests \ {c} : sending'[d] = sending[d]
      /\ sending'[c].to = sending[c].to /\ sending'[c].ip = sending[c].ip
      /\ sending'[c].from = sending[c].from /\ sending'[c].pc = "code"
  BY GotoEffect DEF CodePcs
<1>2. PICK N \in Nat : N = Len(emailed) /\ DOMAIN emailed = 1..N
  BY DEF CodeInv, CodeTypes
<1>3. /\ emailed' \in Seq([by : Requests, at : Nat]) /\ DOMAIN emailed' = 1..N + 1
      /\ \A m \in 1..N : emailed'[m] = emailed[m]
      /\ emailed'[N + 1] = [by |-> c, at |-> now]
  BY <1>2 DEF CodeInv, CodeTypes
<1>4. emailed'[N + 1].by = c /\ emailed'[N + 1].at = now /\ now \in Nat
  BY <1>3 DEF CodeInv, CodeTypes
<1>5. /\ \A m \in 1..N : /\ emailed[m].by \in Requests \ {c} /\ emailed[m].at \in Nat
                         /\ emailed[m].at <= now /\ sending[emailed[m].by].pc \in MailedPcs
  BY <1>2, EmailTyped DEF MailedPcs
<1>6. CodeTypes'
  BY <1>1, <1>3 DEF CodeInv, CodeTypes
<1>7. EmailsOK'
  <2>1. ASSUME NEW m \in 1..N + 1
        PROVE  emailed'[m].at <= now /\ sending'[emailed'[m].by].pc \in MailedPcs
    <3>1. CASE m \in 1..N
      <4>1. emailed'[m] = emailed[m]
        BY <1>3, <3>1
      <4>2. PICK d \in Requests \ {c} : d = emailed[m].by
        BY <1>5, <3>1
      <4> QED
        BY <1>1, <1>5, <3>1, <4>1, <4>2
    <3>2. CASE m = N + 1
      <4>1. emailed'[m].by = c /\ emailed'[m].at = now
        BY <1>4, <3>2
      <4>2. now <= now
        BY <1>4
      <4>3. sending'[c].pc \in MailedPcs
        BY <1>1 DEF MailedPcs
      <4> QED
        BY <4>1, <4>2, <4>3
    <3> QED
      BY <1>2, <3>1, <3>2
  <2>2. ASSUME NEW m \in 1..N + 1, NEW n \in 1..N + 1, m < n
        PROVE  emailed'[m].at <= emailed'[n].at /\ emailed'[m].by # emailed'[n].by
    <3>1. CASE n \in 1..N
      <4>1. m \in 1..N
        BY <1>2, <2>2, <3>1
      <4>2. emailed'[m] = emailed[m] /\ emailed'[n] = emailed[n]
        BY <1>3, <3>1, <4>1
      <4>3. emailed[m].at <= emailed[n].at /\ emailed[m].by # emailed[n].by
        BY <1>2, <2>2, <3>1, <4>1 DEF CodeInv, EmailsOK
      <4> QED
        BY <4>2, <4>3
    <3>2. CASE n = N + 1
      <4>1. m \in 1..N
        BY <1>2, <2>2, <3>2
      <4>2. emailed'[m] = emailed[m] /\ emailed[m].at <= now /\ emailed[m].by # c
        BY <1>3, <1>5, <4>1
      <4> QED
        BY <1>4, <3>2, <4>2
    <3> QED
      BY <1>2, <3>1, <3>2
  <2>3. ASSUME NEW d \in Requests, sending'[d].pc \in MailedPcs
        PROVE  \E m \in 1..N + 1 : emailed'[m].by = d
    <3>1. CASE d = c
      BY <1>2, <1>4, <3>1
    <3>2. CASE d # c
      <4>1. PICK m \in 1..N : emailed[m].by = d
        BY <1>1, <1>2, <2>3, <3>2 DEF CodeInv, EmailsOK
      <4> QED
        BY <1>2, <1>3, <4>1
    <3> QED
      BY <3>1, <3>2
  <2> QED
    BY <1>3, <2>1, <2>2, <2>3 DEF EmailsOK
<1>8. LimitsOK'
  <2>1. ASSUME NEW d \in Requests, NEW k \in Keys, Wrote(d, k)'
        PROVE  \E m \in 1..N + 1 : emailed'[m].by = d /\ emailed'[m].at + LimitTTL <= limit[k]
    <3>1. Wrote(d, k)
      BY <1>1, <2>1 DEF Wrote
    <3>2. PICK m \in 1..N : emailed[m].by = d /\ emailed[m].at + LimitTTL <= limit[k]
      BY <1>2, <3>1 DEF CodeInv, LimitsOK
    <3> QED
      BY <1>2, <1>3, <3>2
  <2> QED
    BY <1>3, <2>1 DEF CodeInv, LimitsOK
<1>9. ASSUME NEW d \in Requests, NEW e \in Requests, Apart(d, e) PROVE Apart(d, e)'
  <2>1. PICK m \in 1..N : /\ emailed[m].by = d /\ emailed[m].at + LimitTTL <= now
                          /\ \A n \in 1..N : emailed[n].by = e => emailed[m].at + LimitTTL <= emailed[n].at
    BY <1>2, <1>9 DEF Apart
  <2>2. m \in 1..N + 1 /\ emailed'[m] = emailed[m]
    BY <1>2, <1>3, <2>1
  <2>3. ASSUME NEW n \in 1..N + 1, emailed'[n].by = e PROVE emailed[m].at + LimitTTL <= emailed'[n].at
    <3>1. CASE n \in 1..N
      BY <1>3, <2>1, <2>3, <3>1
    <3>2. CASE n = N + 1
      BY <1>4, <2>1, <3>2
    <3> QED
      BY <1>2, <3>1, <3>2
  <2> QED
    BY <1>3, <2>1, <2>2, <2>3 DEF Apart
<1>10. PairsOK'
  <2>1. \A d \in Requests : \A k : Past(d, k)' <=> Past(d, k)
    BY <1>1 DEF Past, MailedPcs
  <2>2. \A d, e, k : Missed(d, e, k)' <=> Missed(d, e, k)
    BY DEF Missed
  <2> QED
    BY <1>9, <2>1, <2>2 DEF CodeInv, PairsOK
<1>11. ThrottleOK'
  <2>1. \A d \in Requests : /\ Let(d)' <=> Let(d)
                            /\ sending'[d].ip = sending[d].ip /\ sending'[d].from = sending[d].from
    BY <1>1 DEF Let
  <2> QED
    BY <2>1 DEF CodeInv, ThrottleOK
<1> QED
  BY <1>6, <1>7, <1>8, <1>10, <1>11 DEF CodeInv

(* Time passes.                                                              *)
LEMMA PassTime == ASSUME CodeInv, Pass PROVE CodeInv'
<1>1. now \in Nat /\ now' = now + 1 /\ UNCHANGED <<hits, limit, sending, emailed, missed>>
  BY DEF Pass, CodeInv, CodeTypes
<1>2. \A m \in DOMAIN emailed : emailed[m].by \in Requests /\ emailed[m].at \in Nat /\ emailed[m].at <= now
  BY EmailTyped
<1>3. CodeTypes'
  BY <1>1 DEF CodeInv, CodeTypes
<1>4. EmailsOK'
  BY <1>1, <1>2 DEF CodeInv, EmailsOK
<1>5. LimitsOK'
  <2>1. \A k \in Keys : limit[k] \in Nat /\ limit[k] <= now' + LimitTTL
    BY <1>1, CodeAssumption DEF CodeInv, CodeTypes, LimitsOK
  <2> QED
    BY <1>1, <2>1 DEF CodeInv, LimitsOK, Wrote
<1>6. \A d \in Requests, e \in Requests : Apart(d, e) => Apart(d, e)'
  BY <1>1, <1>2, CodeAssumption DEF Apart
<1>7. PairsOK'
  <2>1. \A d \in Requests : \A k : Past(d, k)' <=> Past(d, k)
    BY <1>1 DEF Past
  <2>2. \A d, e, k : Missed(d, e, k)' <=> Missed(d, e, k)
    BY <1>1 DEF Missed
  <2> QED
    BY <1>6, <2>1, <2>2 DEF CodeInv, PairsOK
<1>8. ThrottleOK'
  <2>1. \A c \in Requests : sending[c].from \in Nat
    BY DEF CodeInv, CodeTypes, Sendings
  <2> QED
    BY <1>1, <2>1, CodeAssumption DEF CodeInv, ThrottleOK, Let
<1> QED
  BY <1>3, <1>4, <1>5, <1>7, <1>8 DEF CodeInv

LEMMA GuardsCount == Cardinality(Guards) = 2
<1>1. /\ IsFiniteSet({"APP_GUARD"}) /\ Cardinality({"APP_GUARD"}) = 1
  BY FS_Singleton
<1>2. Guards = {"APP_GUARD"} \union {"EmailController"} /\ "EmailController" \notin {"APP_GUARD"}
  BY DEF Guards
<1> QED
  BY <1>1, <1>2, FS_AddElement

(* The two guards of the throttler count a request: it passes when none of   *)
(* the same ip has in the window before.                                     *)
LEMMA PostSafe ==
    ASSUME CodeInv, NEW c \in Requests, NEW a \in Addresses, NEW i \in Ips, Post(c, a, i)
    PROVE  CodeInv'
<1>1. PICK h : h = Counted(i)
  OBVIOUS
<1>2. PICK pc \in {"refused", "ip"} : pc = IF h.n > Throttle THEN "refused" ELSE "ip"
  OBVIOUS
<1>3. PICK dead \in BOOLEAN : dead = FALSE
  OBVIOUS
<1>4. PICK r : r = [pc |-> pc, to |-> a, ip |-> i, from |-> now, dead |-> dead]
  OBVIOUS
<1>5. /\ sending[c].pc = "idle" /\ hits' = [hits EXCEPT ![i] = h]
      /\ sending' = [sending EXCEPT ![c] = r]
      /\ UNCHANGED <<now, limit, emailed, missed>>
  BY <1>1, <1>2, <1>3, <1>4 DEF Post, At
<1>6. /\ now \in Nat /\ hits[i].n \in {0, 2, Throttle + 1} /\ hits[i].until \in Nat
      /\ Throttle \in 0..3 /\ Window \in Nat
  BY CodeAssumption DEF CodeInv, CodeTypes
<1>7. PICK old \in Nat : old = IF now >= hits[i].until THEN 0 ELSE hits[i].n
  BY <1>6
<1>8. h = [n |-> IF old + 2 > Throttle THEN Throttle + 1 ELSE old + 2,
           until |-> IF old = 0 \/ (old + 2 > Throttle /\ old <= Throttle) THEN now + Window
                     ELSE hits[i].until]
  BY <1>1, <1>7, GuardsCount DEF Counted
<1>9. /\ h \in [n : {0, 2, Throttle + 1}, until : Nat]
      /\ pc = "ip" => Throttle >= 2 /\ old = 0 /\ h.n = 2 /\ h.until = now + Window
      /\ Throttle >= 2 => h.n >= 2
      /\ h.until = now + Window \/ h.until = hits[i].until
  BY <1>2, <1>6, <1>7, <1>8
<1>10. /\ r \in Sendings /\ r.pc = pc /\ r.to = a /\ r.ip = i /\ r.from = now
  BY <1>4, <1>6 DEF Sendings, CodePcs
<1>11. /\ sending' \in [Requests -> Sendings] /\ sending'[c] = r
       /\ \A d \in Requests \ {c} : sending'[d] = sending[d]
       /\ hits' \in [Ips -> [n : {0, 2, Throttle + 1}, until : Nat]] /\ hits'[i] = h
       /\ \A j \in Ips \ {i} : hits'[j] = hits[j]
  BY <1>5, <1>9, <1>10 DEF CodeInv, CodeTypes
<1>12. CodeTypes'
  BY <1>5, <1>10, <1>11 DEF CodeInv, CodeTypes
<1>13. \A d \in Requests : sending'[d].pc \in MailedPcs <=> sending[d].pc \in MailedPcs
  BY <1>2, <1>5, <1>10, <1>11 DEF MailedPcs
<1>14. EmailsOK'
  <2>1. \A m \in DOMAIN emailed : emailed[m].by \in Requests
    BY EmailTyped
  <2> QED
    BY <1>5, <1>13, <2>1 DEF CodeInv, EmailsOK
<1>15. \A d \in Requests : \A k : (Wrote(d, k)' => Wrote(d, k)) /\ (Past(d, k)' => Past(d, k))
  BY <1>2, <1>10, <1>11 DEF Wrote, Past, MailedPcs
<1>16. LimitsOK'
  BY <1>5, <1>15 DEF CodeInv, LimitsOK
<1>17. PairsOK'
  <2>1. \A d, e, k : Missed(d, e, k)' <=> Missed(d, e, k)
    BY <1>5 DEF Missed
  <2> QED
    BY <1>5, <1>15, <2>1, ApartSame DEF CodeInv, PairsOK
<1>18. ThrottleOK'
  <2>1. ASSUME NEW d \in Requests \ {c}, Let(d)
        PROVE  /\ sending[d].ip \in Ips /\ sending[d].from \in Nat /\ Throttle >= 2 /\ sending[d].from <= now
               /\ now < sending[d].from + Window =>
                    /\ hits[sending[d].ip].n >= 2 /\ sending[d].from + Window <= hits[sending[d].ip].until
                    /\ hits'[sending[d].ip].n >= 2 /\ sending[d].from + Window <= hits'[sending[d].ip].until
    <3>1. /\ sending[d].ip \in Ips /\ sending[d].from \in Nat /\ Throttle >= 2 /\ sending[d].from <= now
          /\ now < sending[d].from + Window =>
               hits[sending[d].ip].n >= 2 /\ sending[d].from + Window <= hits[sending[d].ip].until
      BY <2>1 DEF CodeInv, CodeTypes, ThrottleOK, Let, Sendings
    <3>2. CASE sending[d].ip = i
      BY <1>6, <1>9, <1>11, <3>1, <3>2
    <3>3. CASE sending[d].ip # i
      BY <1>11, <3>1, <3>3
    <3> QED
      BY <3>1, <3>2, <3>3
  <2>2. ASSUME NEW d \in Requests \ {c}, Let(d), sending[d].ip = i, pc = "ip"
        PROVE  sending[d].from + Window <= now
    BY <1>6, <1>7, <1>9, <2>1, <2>2
  <2>3. \A d \in Requests \ {c} : Let(d)' <=> Let(d)
    BY <1>11 DEF Let
  <2>4. Let(c)' <=> pc = "ip"
    BY <1>2, <1>10, <1>11 DEF Let
  <2>5. ASSUME NEW d \in Requests, Let(d)'
        PROVE  /\ Throttle >= 2 /\ sending'[d].from <= now
               /\ now < sending'[d].from + Window =>
                    hits'[sending'[d].ip].n >= 2 /\ sending'[d].from + Window <= hits'[sending'[d].ip].until
    <3>1. CASE d = c
      BY <1>6, <1>9, <1>10, <1>11, <2>4, <2>5, <3>1
    <3>2. CASE d # c
      BY <1>11, <2>1, <2>3, <2>5, <3>2
    <3> QED
      BY <3>1, <3>2
  <2>6. ASSUME NEW d \in Requests, NEW e \in Requests, d # e, Let(d)', Let(e)', sending'[d].ip = sending'[e].ip
        PROVE  \/ sending'[d].from + Window <= sending'[e].from
               \/ sending'[e].from + Window <= sending'[d].from
    <3>1. CASE d = c
      BY <1>10, <1>11, <2>2, <2>3, <2>4, <2>6, <3>1
    <3>2. CASE e = c
      BY <1>10, <1>11, <2>2, <2>3, <2>4, <2>6, <3>2
    <3>3. CASE d # c /\ e # c
      BY <1>11, <2>3, <2>6, <3>3 DEF CodeInv, ThrottleOK
    <3> QED
      BY <3>1, <3>2, <3>3
  <2> QED
    BY <1>5, <2>5, <2>6 DEF ThrottleOK
<1> QED
  BY <1>12, <1>14, <1>16, <1>17, <1>18 DEF CodeInv

LEMMA CodeStep == CodeInv /\ [CodeNext]_codeVars => CodeInv'
<1> SUFFICES ASSUME CodeInv, [CodeNext]_codeVars PROVE CodeInv'
  OBVIOUS
<1>1. CASE UNCHANGED codeVars
  <2>1. /\ now' = now /\ hits' = hits /\ limit' = limit
        /\ sending' = sending /\ emailed' = emailed /\ missed' = missed
    BY <1>1 DEF codeVars
  <2>2. CodeTypes' /\ EmailsOK'
    BY <2>1 DEF CodeInv, CodeTypes, EmailsOK
  <2>3. LimitsOK'
    BY <2>1 DEF CodeInv, LimitsOK, Wrote
  <2>4. PairsOK'
    <3>1. \A c, k : Past(c, k)' <=> Past(c, k)
      BY <2>1 DEF Past
    <3>2. \A c, d, k : Missed(c, d, k)' <=> Missed(c, d, k)
      BY <2>1 DEF Missed
    <3>3. \A c, d : Apart(c, d)' <=> Apart(c, d)
      BY <2>1 DEF Apart
    <3>4. PairsOK
      BY DEF CodeInv
    <3> QED
      BY <3>1, <3>2, <3>3, <3>4 DEF PairsOK
  <2>5. ThrottleOK'
    BY <2>1 DEF CodeInv, ThrottleOK, Let
  <2> QED
    BY <2>2, <2>3, <2>4, <2>5 DEF CodeInv
<1>2. ASSUME NEW c \in Requests, CheckIp(c) \/ CheckTo(c) PROVE CodeInv'
  <2>1. sending[c].ip \in Keys /\ sending[c].to \in Keys
    BY <1>2, KeysTyped DEF CheckIp, CheckTo, At
  <2> QED
    BY <1>2, <2>1, CheckSafe DEF CheckIp, CheckTo, At
<1>3. ASSUME NEW c \in Requests, LimitIp(c) \/ LimitTo(c) PROVE CodeInv'
  <2>1. sending[c].ip \in Keys /\ sending[c].to \in Keys
    BY <1>3, KeysTyped DEF LimitIp, LimitTo, At
  <2> QED
    BY <1>3, <2>1, LimitSafe DEF LimitIp, LimitTo, At
<1>4. ASSUME NEW c \in Requests, SendCode(c) PROVE CodeInv'
  <2>1. sending[c].pc = "send" /\ UNCHANGED <<now, hits, limit, missed>> /\ Let(c)
    BY <1>4 DEF SendCode, At, Let
  <2>2. CASE Goto(c, "code") /\ emailed' = Append(emailed, [by |-> c, at |-> now])
    BY <2>1, <2>2, MailSafe
  <2>3. CASE Goto(c, "failed") /\ UNCHANGED emailed
    BY <2>1, <2>3, GotoEffect, QuietMove DEF CodePcs
  <2> QED
    BY <1>4, <2>2, <2>3 DEF SendCode
<1>5. ASSUME NEW c \in Requests, LogCode(c) PROVE CodeInv'
  <2>1. sending[c].pc = "code" /\ Goto(c, "limitIp") /\ UNCHANGED <<now, hits, limit, emailed, missed>> /\ Let(c)
    BY <1>5 DEF LogCode, At, Let
  <2> QED
    BY <2>1, GotoEffect, QuietMove DEF CodePcs
<1>6. ASSUME NEW c \in Requests, Die(c) PROVE CodeInv'
  <2>1. /\ sending' = [sending EXCEPT ![c].dead = TRUE] /\ UNCHANGED <<now, hits, limit, emailed, missed>>
        /\ Let(c)
    BY <1>6 DEF Die, Let
  <2>2. /\ sending' \in [Requests -> Sendings] /\ \A d \in Requests \ {c} : sending'[d] = sending[d]
        /\ sending'[c].to = sending[c].to /\ sending'[c].ip = sending[c].ip
        /\ sending'[c].from = sending[c].from /\ sending'[c].pc = sending[c].pc
    BY <2>1 DEF CodeInv, CodeTypes, Sendings
  <2> QED
    BY <2>1, <2>2, QuietMove
<1>7. CASE CodeNext
  BY <1>2, <1>3, <1>4, <1>5, <1>6, <1>7, PostSafe, PassTime DEF CodeNext
<1> QED
  BY <1>1, <1>7

(* CodesAreLimited: two codes leave for one address, or at the wish of one   *)
(* ip, within the life of the limit only when one request checked before     *)
(* the other had written the limit; and an ip gets one request through per   *)
(* window (email.controller send, mailer.service checkLimit and log).        *)
THEOREM CodesLimited == CodeSpec => []CodesAreLimited
<1>1. CodeInv => OneCodePerLimit
  <2> SUFFICES ASSUME CodeInv, NEW m \in DOMAIN emailed, NEW n \in DOMAIN emailed,
                      m < n, emailed[n].at - emailed[m].at < LimitTTL,
                      NEW k \in Keys,
                      k \in {sending[emailed[m].by].to, sending[emailed[m].by].ip},
                      k \in {sending[emailed[n].by].to, sending[emailed[n].by].ip}
               PROVE  Missed(emailed[m].by, emailed[n].by, k)
    BY DEF OneCodePerLimit
  <2>1. PICK c \in Requests, d \in Requests : c = emailed[m].by /\ d = emailed[n].by
    BY EmailTyped
  <2>2. c # d /\ Past(c, k) /\ Past(d, k) /\ emailed[m].at <= emailed[n].at
    BY <2>1, EmailTyped DEF CodeInv, EmailsOK, Past
  <2>3. emailed[m].at \in Nat /\ emailed[n].at \in Nat /\ DOMAIN emailed \subseteq Nat
    BY EmailTyped DEF CodeInv, CodeTypes
  <2>4. \A p \in DOMAIN emailed : (emailed[p].by = c => p = m) /\ (emailed[p].by = d => p = n)
    <3> SUFFICES ASSUME NEW p \in DOMAIN emailed
                 PROVE  (p # m => emailed[p].by # emailed[m].by) /\ (p # n => emailed[p].by # emailed[n].by)
      BY <2>1
    <3>1. p = m \/ p < m \/ m < p
      BY <2>3
    <3>2. p = n \/ p < n \/ n < p
      BY <2>3
    <3> QED
      BY <3>1, <3>2 DEF CodeInv, EmailsOK
  <2>5. ~Apart(c, d)
    BY <2>1, <2>3, <2>4, CodeAssumption DEF Apart
  <2>6. ~Apart(d, c)
    BY <2>1, <2>2, <2>3, <2>4, CodeAssumption DEF Apart
  <2> QED
    BY <2>1, <2>2, <2>5, <2>6 DEF CodeInv, PairsOK
<1>2. CodeInv => HalfTheThrottle
  <2> SUFFICES ASSUME CodeInv, NEW i \in Ips, NEW t \in 0..MaxNow
               PROVE  Cardinality({c \in Requests : /\ sending[c].ip = i
                                                    /\ sending[c].from \in t..t + Window - 1
                                                    /\ sending[c].pc \notin {"idle", "refused"}})
                        <= Throttle \div 2
    BY DEF HalfTheThrottle
  <2>1. PICK S : S = {c \in Requests : /\ sending[c].ip = i /\ sending[c].from \in t..t + Window - 1
                                       /\ sending[c].pc \notin {"idle", "refused"}}
    OBVIOUS
  <2>2. Throttle \div 2 \in Nat /\ (Throttle >= 2 => Throttle \div 2 = 1)
    BY CodeAssumption
  <2>3. CASE S = {}
    BY <2>1, <2>2, <2>3, FS_EmptySet
  <2>4. CASE S # {}
    <3>1. PICK c \in S : TRUE
      BY <2>4
    <3>2. \A d \in S : d = c
      <4> SUFFICES ASSUME NEW d \in S, d # c PROVE FALSE
        OBVIOUS
      <4>1. /\ c \in Requests /\ d \in Requests /\ Let(c) /\ Let(d) /\ sending[c].ip = sending[d].ip
            /\ sending[c].from \in t..t + Window - 1 /\ sending[d].from \in t..t + Window - 1
        BY <2>1 DEF Let
      <4> QED
        BY <4>1, CodeAssumption DEF CodeInv, ThrottleOK
    <3>3. Throttle >= 2
      BY <2>1, <3>1 DEF CodeInv, ThrottleOK, Let
    <3>4. S = {c}
      BY <3>1, <3>2
    <3> QED
      BY <2>1, <2>2, <3>3, <3>4, FS_Singleton
  <2> QED
    BY <2>3, <2>4
<1>3. CodeInv => CodesAreLimited
  BY <1>1, <1>2 DEF CodesAreLimited
<1> QED
  BY <1>3, CodeInvInit, CodeStep, PTL DEF CodeSpec

-----------------------------------------------------------------------------
(* Listing.  While no row is removed, rows only move away from the first     *)
(* page: a row the walk has not seen yet is behind the pages it has read.    *)

ListTypes ==
    /\ kind \in Kinds /\ lastId \in Nat /\ table \subseteq 1..lastId
    /\ query \in [pc : {"idle", "reading", "counting", "answered"}, page : Nat, limit : Nat,
                  items : SUBSET Nat, total : {Missing} \union Nat]
    /\ walk \in [pages : Nat, limit : Nat, start : SUBSET Nat, seen : SUBSET Nat, removed : BOOLEAN]

Position(r) == Cardinality(Before(r))
PagesRead == IF query.pc = "reading" THEN walk.pages - 1 ELSE walk.pages
WalkOK ==
    walk.pages > 0 =>
        /\ query.pc # "idle" /\ query.page = walk.pages /\ query.limit = walk.limit /\ walk.limit > 0
        /\ ~walk.removed =>
             /\ walk.start \subseteq table
             /\ \A r \in walk.start \ walk.seen : Position(r) >= PagesRead * walk.limit
             /\ query.pc = "reading" /\ query.total # Missing =>
                  query.total = Cardinality(table) /\ kind = "loginLogs"
             /\ query.pc = "counting" => query.total = Missing
             /\ query.pc = "answered" =>
                  query.total \in Nat /\ \A r \in walk.start \ walk.seen : walk.pages * walk.limit < query.total
ListInv == ListTypes /\ WalkOK

LEMMA Positions ==
    ASSUME ListTypes, NEW r
    PROVE  /\ IsFiniteSet(table) /\ IsFiniteSet(Before(r)) /\ Position(r) \in Nat /\ Cardinality(table) \in Nat
           /\ r \in table => Position(r) < Cardinality(table)
<1>1. IsFiniteSet(1..lastId) /\ table \in SUBSET (1..lastId) /\ lastId \in Nat
  <2>1. lastId \in Int /\ 1 \in Int /\ lastId \in Nat
    BY DEF ListTypes
  <2> QED
    BY <2>1, FS_Interval DEF ListTypes
<1>2. IsFiniteSet(table)
  BY <1>1, FS_Subset
<1>3. Before(r) \in SUBSET table
  BY DEF Before
<1>4. /\ IsFiniteSet(Before(r)) /\ Cardinality(Before(r)) \in Nat /\ Cardinality(table) \in Nat
  BY <1>2, <1>3, FS_Subset, FS_CardinalityType
<1>5. ASSUME r \in table PROVE Cardinality(Before(r)) < Cardinality(table)
  <2>1. r \in Nat
    BY <1>1, <1>5
  <2>2. r \notin Before(r)
    <3>1. CASE Descending
      BY <2>1, <3>1 DEF Before
    <3>2. CASE ~Descending
      BY <2>1, <3>2 DEF Before
    <3> QED
      BY <3>1, <3>2
  <2>3. Before(r) # table
    BY <1>5, <2>2
  <2>4. Cardinality(Before(r)) <= Cardinality(table) /\ Cardinality(Before(r)) # Cardinality(table)
    BY <1>2, <1>3, <2>3, FS_Subset
  <2> QED
    BY <1>4, <2>4
<1> QED
  BY <1>2, <1>4, <1>5 DEF Position

LEMMA EnoughPages ==
    ASSUME NEW pages \in Nat, NEW size \in Nat \ {0}, NEW total \in Nat,
           pages >= (total + size - 1) \div size
    PROVE  pages * size >= total
OBVIOUS

LEMMA OnePageMore == ASSUME NEW pages \in Nat, NEW size \in Nat PROVE (pages - 1) * size + size = pages * size
OBVIOUS

LEMMA ListInvInit == ListInit => ListInv
<1> SUFFICES ASSUME ListInit PROVE ListInv
  OBVIOUS
<1>1. PICK removed \in BOOLEAN : removed = FALSE
  OBVIOUS
<1>2. walk = [pages |-> 0, limit |-> 0, start |-> {}, seen |-> {}, removed |-> removed]
  BY <1>1 DEF ListInit, NoWalk
<1>3. query = [pc |-> "idle", page |-> 0, limit |-> 0, items |-> {}, total |-> Missing]
  BY DEF ListInit, NoQuery
<1>4. ListTypes
  BY <1>2, <1>3, ListAssumption DEF ListInit, ListTypes
<1> QED
  BY <1>2, <1>4 DEF ListInv, WalkOK

LEMMA AskSafe ==
    ASSUME ListInv, NEW page \in {Missing} \union 0..MaxPages, NEW size \in {Missing} \union 0..MaxLimit + 1,
           AskPage(page, size)
    PROVE  ListInv'
<1>1. PICK p \in Nat \ {0}, limited \in Nat \ {0} : p = PageOf(page) /\ limited = LimitOf(size)
  BY ListAssumption DEF AskPage, Valid, PageOf, LimitOf, Missing
<1>2. /\ query.pc \in {"idle", "answered"}
      /\ query' = [NoQuery EXCEPT !.pc = "reading", !.page = p, !.limit = limited]
      /\ walk' = IF p = 1 THEN [NoWalk EXCEPT !.pages = 1, !.limit = limited, !.start = table]
                 ELSE IF p = walk.pages + 1 /\ limited = walk.limit THEN [walk EXCEPT !.pages = p]
                 ELSE NoWalk
      /\ UNCHANGED <<kind, table, lastId>>
  BY <1>1 DEF AskPage
<1>3. /\ NoQuery \in [pc : {"idle", "reading", "counting", "answered"}, page : Nat, limit : Nat,
                      items : SUBSET Nat, total : {Missing} \union Nat]
      /\ NoQuery.total = Missing
  BY DEF NoQuery
<1>4. /\ query' \in [pc : {"idle", "reading", "counting", "answered"}, page : Nat, limit : Nat,
                     items : SUBSET Nat, total : {Missing} \union Nat]
      /\ query'.pc = "reading" /\ query'.page = p /\ query'.limit = limited /\ query'.total = Missing
  BY <1>2, <1>3
<1>5. NoWalk \in [pages : Nat, limit : Nat, start : SUBSET Nat, seen : SUBSET Nat, removed : BOOLEAN]
  BY DEF NoWalk
<1>6. table \subseteq Nat
  BY DEF ListInv, ListTypes
<1>7. CASE p = 1
  <2>1. walk' = [NoWalk EXCEPT !.pages = 1, !.limit = limited, !.start = table]
    BY <1>2, <1>7
  <2>2. /\ walk' \in [pages : Nat, limit : Nat, start : SUBSET Nat, seen : SUBSET Nat, removed : BOOLEAN]
        /\ walk'.pages = 1 /\ walk'.limit = limited /\ walk'.start = table
    BY <1>5, <1>6, <2>1
  <2>3. ListTypes'
    BY <1>2, <1>4, <2>2 DEF ListInv, ListTypes
  <2>4. \A r : Position(r)' \in Nat
    <3>1. \A r : Position(r)' = Position(r)
      BY <1>2 DEF Position, Before, Descending
    <3> QED
      BY <3>1, Positions DEF ListInv
  <2>5. PagesRead' * limited = 0
    BY <1>4, <2>2 DEF PagesRead
  <2> QED
    BY <1>2, <1>4, <1>7, <2>2, <2>3, <2>4, <2>5 DEF ListInv, WalkOK
<1>8. CASE p # 1 /\ p = walk.pages + 1 /\ limited = walk.limit
  <2>1. walk' = [walk EXCEPT !.pages = p]
    BY <1>2, <1>8
  <2>2. /\ walk' \in [pages : Nat, limit : Nat, start : SUBSET Nat, seen : SUBSET Nat, removed : BOOLEAN]
        /\ walk'.pages = p /\ walk'.limit = limited /\ walk'.start = walk.start /\ walk'.seen = walk.seen
        /\ walk'.removed = walk.removed /\ walk.pages \in Nat
    BY <1>8, <2>1 DEF ListInv, ListTypes
  <2>3. ListTypes'
    BY <1>2, <1>4, <2>2 DEF ListInv, ListTypes
  <2>4. \A r : Position(r)' = Position(r)
    BY <1>2 DEF Position, Before, Descending
  <2>5. walk.pages > 0 /\ query.pc # "reading"
    BY <1>2, <1>8, <2>2
  <2>6. PagesRead' = walk.pages /\ PagesRead = walk.pages
    BY <1>4, <1>8, <2>2, <2>5 DEF PagesRead
  <2> QED
    <3>1. WalkOK /\ Missing \notin Nat
      BY DEF ListInv, Missing
    <3>2. ASSUME ~walk.removed
          PROVE  /\ walk.start \subseteq table'
                 /\ \A r \in walk.start \ walk.seen : Position(r)' >= PagesRead' * limited
      <4>1. /\ walk.start \subseteq table
            /\ \A r \in walk.start \ walk.seen : Position(r) >= PagesRead * walk.limit
        BY <2>5, <3>1, <3>2 DEF WalkOK
      <4> QED
        BY <1>2, <1>8, <2>4, <2>6, <4>1
    <3>3. WalkOK'
      BY <1>1, <1>4, <2>2, <3>2 DEF WalkOK
    <3> QED
      BY <2>3, <3>3 DEF ListInv
<1>9. CASE p # 1 /\ ~(p = walk.pages + 1 /\ limited = walk.limit)
  <2>1. walk' = NoWalk /\ NoWalk.pages = 0
    BY <1>2, <1>9 DEF NoWalk
  <2>2. ListTypes'
    BY <1>2, <1>4, <1>5, <2>1 DEF ListInv, ListTypes
  <2> QED
    BY <2>1, <2>2 DEF ListInv, WalkOK
<1> QED
  BY <1>7, <1>8, <1>9

LEMMA ReadSafe == ASSUME ListInv, ReadItems PROVE ListInv'
<1>1. PICK items : items = Page(query.page, query.limit)
  OBVIOUS
<1>2. PICK next \in {"counting", "answered"} : next = IF query.total = Missing THEN "counting" ELSE "answered"
  OBVIOUS
<1>3. /\ query.pc = "reading" /\ query' = [query EXCEPT !.items = items, !.pc = next]
      /\ UNCHANGED <<kind, table, lastId>>
  BY <1>1, <1>2 DEF ReadItems
<1>4. items \subseteq table /\ table \subseteq Nat
  BY <1>1 DEF Page, ListInv, ListTypes
<1>5. /\ query' \in [pc : {"idle", "reading", "counting", "answered"}, page : Nat, limit : Nat,
                     items : SUBSET Nat, total : {Missing} \union Nat]
      /\ query'.pc = next /\ query'.page = query.page /\ query'.limit = query.limit
      /\ query'.total = query.total /\ query'.items = items
  BY <1>3, <1>4 DEF ListInv, ListTypes
<1>6. walk' = IF walk.pages = 0 THEN walk ELSE [walk EXCEPT !.seen = @ \union items]
  BY <1>5 DEF ReadItems
<1>7. /\ walk' \in [pages : Nat, limit : Nat, start : SUBSET Nat, seen : SUBSET Nat, removed : BOOLEAN]
      /\ walk'.pages = walk.pages /\ walk'.limit = walk.limit /\ walk'.start = walk.start
      /\ walk'.removed = walk.removed /\ walk.pages \in Nat /\ walk.limit \in Nat
      /\ walk.pages > 0 => walk'.seen = walk.seen \union items
  BY <1>4, <1>6 DEF ListInv, ListTypes
<1>8. ListTypes'
  BY <1>3, <1>5, <1>7 DEF ListInv, ListTypes
<1>9. WalkOK'
  <2> SUFFICES ASSUME walk.pages > 0 PROVE WalkOK'
    BY <1>7 DEF WalkOK
  <2>1. /\ query.page = walk.pages /\ query.limit = walk.limit /\ walk.limit > 0
    BY DEF ListInv, WalkOK
  <2>2. PagesRead = walk.pages - 1 /\ PagesRead' = walk.pages
    BY <1>3, <1>5, <1>7 DEF PagesRead
  <2>3. \A r : Position(r)' = Position(r)
    BY <1>3 DEF Position, Before, Descending
  <2>4. ASSUME ~walk.removed, NEW r \in walk.start \ (walk.seen \union items)
        PROVE  Position(r) >= walk.pages * walk.limit /\ Position(r) < Cardinality(table)
    <3>1. r \in table /\ Position(r) >= (walk.pages - 1) * walk.limit
      BY <2>2, <2>4 DEF ListInv, WalkOK
    <3>2. Position(r) \in Nat /\ Position(r) < Cardinality(table)
      BY <3>1, Positions DEF ListInv
    <3>3. Position(r) \notin (walk.pages - 1) * walk.limit..(walk.pages - 1) * walk.limit + walk.limit - 1
      BY <1>1, <2>1, <2>4, <3>1 DEF Page, Skip, Position
    <3>4. PICK low \in Int : low = (walk.pages - 1) * walk.limit /\ low + walk.limit = walk.pages * walk.limit
      BY <1>7, OnePageMore
    <3> QED
      BY <1>7, <3>1, <3>2, <3>3, <3>4
  <2>5. ASSUME ~walk.removed, next = "answered" PROVE query.total = Cardinality(table) /\ query.total \in Nat
    <3>1. query.total # Missing
      BY <1>2, <2>5
    <3> QED
      BY <1>3, <2>5, <3>1, Positions DEF ListInv, WalkOK
  <2>6. ASSUME ~walk.removed, next = "answered", NEW r \in walk.start \ (walk.seen \union items)
        PROVE  walk.pages * walk.limit < query.total
    <3>1. PICK all \in Int : all = walk.pages * walk.limit
      BY <1>7
    <3>2. Position(r) \in Nat
      BY Positions DEF ListInv
    <3> QED
      BY <2>4, <2>5, <2>6, <3>1, <3>2
  <2>7. walk.start \subseteq table \/ walk.removed
    BY DEF ListInv, WalkOK
  <2> QED
    BY <1>2, <1>3, <1>5, <1>7, <2>1, <2>2, <2>3, <2>4, <2>5, <2>6, <2>7 DEF WalkOK
<1> QED
  BY <1>8, <1>9 DEF ListInv

LEMMA CountSafe == ASSUME ListInv, Count PROVE ListInv'
<1>1. PICK next \in {"reading", "answered"} : next = IF query.pc = "counting" THEN "answered" ELSE "reading"
  OBVIOUS
<1>2. PICK total \in Nat : total = Cardinality(table)
  BY Positions DEF ListInv
<1>3. /\ query' = [query EXCEPT !.total = total, !.pc = next]
      /\ query.pc = "counting" \/ (query.pc = "reading" /\ kind = "loginLogs" /\ query.total = Missing)
      /\ UNCHANGED <<kind, table, lastId, walk>>
  BY <1>1, <1>2 DEF Count, AtOnce
<1>4. /\ query' \in [pc : {"idle", "reading", "counting", "answered"}, page : Nat, limit : Nat,
                     items : SUBSET Nat, total : {Missing} \union Nat]
      /\ query'.pc = next /\ query'.page = query.page /\ query'.limit = query.limit /\ query'.total = total
  BY <1>3 DEF ListInv, ListTypes
<1>5. ListTypes'
  BY <1>3, <1>4 DEF ListInv, ListTypes
<1>6. \A r : Position(r)' = Position(r)
  BY <1>3 DEF Position, Before, Descending
<1>7. PagesRead' = PagesRead
  BY <1>1, <1>3, <1>4 DEF PagesRead
<1>8. WalkOK'
  <2> SUFFICES ASSUME walk.pages > 0 PROVE WalkOK'
    BY <1>3 DEF WalkOK
  <2>1. WalkOK
    BY DEF ListInv
  <2>2. ASSUME ~walk.removed, next = "answered", NEW r \in walk.start \ walk.seen
        PROVE  walk.pages * walk.limit < total
    <3>1. PagesRead = walk.pages
      BY <1>1, <1>3, <2>2 DEF PagesRead
    <3>2. r \in table /\ Position(r) >= walk.pages * walk.limit
      BY <2>1, <2>2, <3>1 DEF WalkOK
    <3>3. Position(r) \in Nat /\ Position(r) < total
      BY <1>2, <3>2, Positions DEF ListInv
    <3>4. PICK all \in Int : all = walk.pages * walk.limit
      BY DEF ListInv, ListTypes
    <3> QED
      BY <1>2, <3>2, <3>3, <3>4
  <2>3. ASSUME ~walk.removed
        PROVE  walk.start \subseteq table /\ \A r \in walk.start \ walk.seen : Position(r)' >= PagesRead' * walk.limit
    BY <1>6, <1>7, <2>1, <2>3 DEF WalkOK
  <2>4. /\ query'.pc # "idle" /\ query'.page = walk.pages /\ query'.limit = walk.limit /\ walk.limit > 0
    BY <1>1, <1>4, <2>1 DEF WalkOK
  <2> QED
    BY <1>1, <1>2, <1>3, <1>4, <2>2, <2>3, <2>4 DEF WalkOK
<1> QED
  BY <1>5, <1>8 DEF ListInv

LEMMA AddRowSafe == ASSUME ListInv, AddRow PROVE ListInv'
<1>1. /\ kind # "loginLogs" /\ table' = table \union {lastId + 1} /\ lastId' = lastId + 1
      /\ UNCHANGED <<kind, query, walk>>
  BY DEF AddRow
<1>2. ListTypes'
  BY <1>1 DEF ListInv, ListTypes
<1>3. ASSUME NEW r PROVE Position(r)' \in Nat /\ Position(r) \in Nat /\ Position(r) <= Position(r)'
  <2>1. Before(r) \in SUBSET Before(r)'
    <3>1. CASE Descending
      BY <1>1, <3>1 DEF Before, Descending
    <3>2. CASE ~Descending
      BY <1>1, <3>2 DEF Before, Descending
    <3> QED
      BY <3>1, <3>2
  <2>2. Before(r)' \in SUBSET table'
    BY DEF Before
  <2>3. IsFiniteSet(table')
    <3>1. lastId' \in Int /\ 1 \in Int /\ table' \in SUBSET (1..lastId')
      BY <1>2 DEF ListTypes
    <3> QED
      BY <3>1, FS_Interval, FS_Subset
  <2>4. IsFiniteSet(Before(r)')
    BY <2>2, <2>3, FS_Subset
  <2>5. Cardinality(Before(r)') \in Nat /\ Cardinality(Before(r)) <= Cardinality(Before(r)')
    BY <2>1, <2>4, FS_Subset, FS_CardinalityType
  <2>6. Position(r) \in Nat
    BY Positions DEF ListInv
  <2> QED
    BY <2>5, <2>6 DEF Position
<1>4. PagesRead' = PagesRead
  BY <1>1 DEF PagesRead
<1>5. WalkOK'
  <2> SUFFICES ASSUME walk.pages > 0 PROVE WalkOK'
    BY <1>1 DEF WalkOK
  <2>1. WalkOK
    BY DEF ListInv
  <2>2. ASSUME ~walk.removed
        PROVE  walk.start \subseteq table' /\ \A r \in walk.start \ walk.seen : Position(r)' >= PagesRead * walk.limit
    <3>1. PICK read \in Int : read = PagesRead * walk.limit
      BY DEF ListInv, ListTypes, PagesRead
    <3>2. walk.start \subseteq table /\ \A r \in walk.start \ walk.seen : Position(r) >= read
      BY <2>1, <2>2, <3>1 DEF WalkOK
    <3>3. \A r \in walk.start \ walk.seen : Position(r)' >= read
      BY <1>3, <3>2
    <3> QED
      BY <1>1, <3>1, <3>2, <3>3
  <2> QED
    BY <1>1, <1>4, <2>1, <2>2 DEF WalkOK
<1> QED
  BY <1>2, <1>5 DEF ListInv

LEMMA RemovedSafe ==
    ASSUME ListInv, NEW left \in SUBSET table, Removed(left), UNCHANGED <<kind, lastId, query>>
    PROVE  ListInv'
<1>1. PICK removed \in BOOLEAN : removed = TRUE
  OBVIOUS
<1>2. /\ table' = left
      /\ walk' = IF walk.pages = 0 THEN walk ELSE [walk EXCEPT !.removed = removed]
  BY <1>1 DEF Removed
<1>3. /\ walk' \in [pages : Nat, limit : Nat, start : SUBSET Nat, seen : SUBSET Nat, removed : BOOLEAN]
      /\ walk'.pages = walk.pages /\ walk'.limit = walk.limit
      /\ walk.pages # 0 => walk'.removed = removed
  BY <1>2 DEF ListInv, ListTypes
<1>4. ListTypes'
  BY <1>2, <1>3 DEF ListInv, ListTypes
<1>5. WalkOK'
  <2> SUFFICES ASSUME walk'.pages > 0 PROVE WalkOK'
    BY DEF WalkOK
  <2>1. walk.pages > 0 /\ walk.pages # 0
    BY <1>3
  <2>2. walk'.removed
    BY <1>1, <1>3, <2>1
  <2>3. /\ query.pc # "idle" /\ query.page = walk.pages /\ query.limit = walk.limit /\ walk.limit > 0
    BY <2>1 DEF ListInv, WalkOK
  <2> QED
    BY <1>3, <2>2, <2>3 DEF WalkOK
<1> QED
  BY <1>4, <1>5 DEF ListInv

LEMMA ListStep == ListInv /\ [ListNext]_listVars => ListInv'
<1> SUFFICES ASSUME ListInv, [ListNext]_listVars PROVE ListInv'
  OBVIOUS
<1>1. CASE UNCHANGED listVars
  <2>1. UNCHANGED <<kind, table, lastId, query, walk>>
    BY <1>1 DEF listVars
  <2>2. ListTypes'
    BY <2>1 DEF ListInv, ListTypes
  <2>3. (\A r : Position(r)' = Position(r)) /\ PagesRead' = PagesRead
    BY <2>1 DEF Position, Before, Descending, PagesRead
  <2> QED
    BY <2>1, <2>2, <2>3 DEF ListInv, WalkOK
<1>2. ASSUME NEW r \in 1..MaxRows, DeleteTask(r) PROVE ListInv'
  <2>1. table \ {r} \in SUBSET table /\ Removed(table \ {r}) /\ UNCHANGED <<kind, lastId, query>>
    BY <1>2 DEF DeleteTask, Removed
  <2> QED
    BY <2>1, RemovedSafe
<1>3. CASE ClearLogs
  <2>1. {} \in SUBSET table /\ Removed({}) /\ UNCHANGED <<kind, lastId, query>>
    BY <1>3 DEF ClearLogs, Removed
  <2> QED
    BY <2>1, RemovedSafe
<1> QED
  BY <1>1, <1>2, <1>3, AskSafe, ReadSafe, CountSafe, AddRowSafe DEF ListNext

(* WalkSeesAll: whoever asks for page after page, up to the totalPages of an *)
(* answer, has seen every row there was at the first, unless rows were       *)
(* removed (paginate, paginateRaw and createPaginationObject).               *)
THEOREM WalksComplete == ListSpec => []WalkSeesAll
<1>1. ListInv => WalkSeesAll
  <2> SUFFICES ASSUME ListInv, query.pc = "answered", walk.pages > 0, walk.pages >= TotalPages, ~walk.removed,
                      NEW r \in walk.start, r \notin walk.seen
               PROVE  FALSE
    BY DEF WalkSeesAll
  <2>1. /\ query.total \in Nat /\ query.limit = walk.limit /\ walk.limit > 0
        /\ walk.pages * walk.limit < query.total
    BY DEF ListInv, WalkOK
  <2>2. walk.pages \in Nat /\ walk.limit \in Nat \ {0}
    BY <2>1 DEF ListInv, ListTypes
  <2>3. walk.pages * walk.limit >= query.total
    BY <2>1, <2>2, EnoughPages DEF TotalPages
  <2> QED
    BY <2>1, <2>2, <2>3
<1> QED
  BY <1>1, ListInvInit, ListStep, PTL DEF ListSpec

-----------------------------------------------------------------------------
(* InitialSchema.  The statements of Up and Down, one by one: each type and  *)
(* table is made once, after all that it needs, and dropped.                 *)

TypeNames == {"user_status", "gender_type", "experience_level", "training_goals", "sport_type"}
TableNames == {
    "users", "sys_role", "sys_user_roles", "sys_menu", "sys_role_menus", "user_access_tokens",
    "user_refresh_tokens", "sys_user_oauth_providers", "sys_password_reset_otp", "sys_task",
    "sys_task_log", "sys_login_log", "sys_captcha_log"}

\* The statement of Up that makes a type or a table.
MadeAt(x) ==
    CASE x = "user_status" -> 1 [] x = "gender_type" -> 2 [] x = "experience_level" -> 3
      [] x = "training_goals" -> 4 [] x = "sport_type" -> 5
      [] x = "users" -> 6 [] x = "sys_role" -> 7 [] x = "sys_user_roles" -> 8
      [] x = "sys_menu" -> 11 [] x = "sys_role_menus" -> 12
      [] x = "user_access_tokens" -> 15 [] x = "user_refresh_tokens" -> 17
      [] x = "sys_user_oauth_providers" -> 19 [] x = "sys_password_reset_otp" -> 21
      [] x = "sys_task" -> 22 [] x = "sys_task_log" -> 23 [] x = "sys_login_log" -> 25
      [] x = "sys_captcha_log" -> 27

SchemaNames == TypeNames \union TableNames
SchemaStatements ==
    [op : {"type", "table", "key", "insert", "drop"}, name : SchemaNames, needs : SUBSET SchemaNames]

LEMMA StatementsTyped ==
    /\ \A x \in SchemaNames : Type(x) \in SchemaStatements /\ Drop(x) \in SchemaStatements
    /\ \A x \in SchemaNames, S \in SUBSET SchemaNames : Table(x, S) \in SchemaStatements
    /\ \A x \in SchemaNames, S \in SUBSET SchemaNames : Insert(x, S) \in SchemaStatements
    /\ \A x, y \in SchemaNames : Key(x, y) \in SchemaStatements
<1>1. \A x \in SchemaNames : Type(x) \in SchemaStatements
  BY DEF Type, SchemaStatements
<1>2. \A x \in SchemaNames : Drop(x) \in SchemaStatements
  BY DEF Drop, SchemaStatements
<1>3. \A x \in SchemaNames, S \in SUBSET SchemaNames : Table(x, S) \in SchemaStatements
  BY DEF Table, SchemaStatements
<1>4. \A x \in SchemaNames, S \in SUBSET SchemaNames : Insert(x, S) \in SchemaStatements
  BY DEF Insert, SchemaStatements
<1>5. \A x, y \in SchemaNames : Key(x, y) \in SchemaStatements
  BY DEF Key, SchemaStatements
<1> QED
  BY <1>1, <1>2, <1>3, <1>4, <1>5

LEMMA EnumList ==
    /\ Len(Enums) = 5 /\ DOMAIN Enums = 1..5
    /\ Enums[1] = "user_status" /\ Enums[2] = "gender_type" /\ Enums[3] = "experience_level"
    /\ Enums[4] = "training_goals" /\ Enums[5] = "sport_type"
    /\ \A i \in 1..5 : Enums[i] \in TypeNames
    /\ TypesOf(Enums) = TypeNames
<1>1. /\ Len(Enums) = 5 /\ DOMAIN Enums = 1..5
      /\ Enums[1] = "user_status" /\ Enums[2] = "gender_type" /\ Enums[3] = "experience_level"
      /\ Enums[4] = "training_goals" /\ Enums[5] = "sport_type"
  BY DEF Enums
<1>2. 1..5 = {1, 2, 3, 4, 5}
  OBVIOUS
<1>3. TypesOf(Enums) = TypeNames
  BY <1>1, <1>2 DEF TypesOf, TypeNames
<1>4. \A i \in 1..5 : Enums[i] \in TypeNames
  BY <1>1, <1>2 DEF TypeNames
<1> QED
  BY <1>1, <1>3, <1>4

LEMMA IsSequence ==
    ASSUME NEW n \in Nat, NEW f \in [1..n -> SchemaStatements]
    PROVE  f \in Seq(SchemaStatements) /\ Len(f) = n
BY SeqDef

LEMMA ListsTyped ==
    /\ CreateTypes \in Seq(SchemaStatements) /\ Len(CreateTypes) = 5
    /\ CreateUsersAndRoles \in Seq(SchemaStatements) /\ Len(CreateUsersAndRoles) = 9
    /\ CreateTokens \in Seq(SchemaStatements) /\ Len(CreateTokens) = 7
    /\ CreateTasksAndLogs \in Seq(SchemaStatements) /\ Len(CreateTasksAndLogs) = 6
    /\ Seed \in Seq(SchemaStatements) /\ Len(Seed) = 3
    /\ DropTables \in Seq(SchemaStatements) /\ Len(DropTables) = 13
    /\ DropTypes \in Seq(SchemaStatements) /\ Len(DropTypes) = 5
<1> USE DEF SchemaNames
<1>1. CreateTypes \in Seq(SchemaStatements) /\ Len(CreateTypes) = 5
  <2>1. CreateTypes \in [1..5 -> SchemaStatements]
    BY EnumList, StatementsTyped DEF CreateTypes
  <2> QED
    BY <2>1, IsSequence
<1>2. DropTypes \in Seq(SchemaStatements) /\ Len(DropTypes) = 5
  <2>1. \A i \in 1..5 : Len(Enums) + 1 - i \in 1..5
    BY EnumList
  <2>2. DropTypes \in [1..5 -> SchemaStatements]
    BY <2>1, EnumList, StatementsTyped DEF DropTypes
  <2> QED
    BY <2>2, IsSequence
<1>3. CreateUsersAndRoles \in Seq(SchemaStatements) /\ Len(CreateUsersAndRoles) = 9
  <2>1. TypesOf(Enums) \in SUBSET SchemaNames /\ {} \in SUBSET SchemaNames
    BY EnumList
  <2>2. /\ Table("users", TypesOf(Enums)) \in SchemaStatements /\ Table("sys_role", {}) \in SchemaStatements
        /\ Table("sys_user_roles", {}) \in SchemaStatements /\ Table("sys_menu", {}) \in SchemaStatements
        /\ Table("sys_role_menus", {}) \in SchemaStatements
    BY <2>1, StatementsTyped DEF TableNames
  <2>3. /\ Key("sys_user_roles", "users") \in SchemaStatements
        /\ Key("sys_user_roles", "sys_role") \in SchemaStatements
        /\ Key("sys_role_menus", "sys_role") \in SchemaStatements
        /\ Key("sys_role_menus", "sys_menu") \in SchemaStatements
    BY StatementsTyped DEF TableNames
  <2> QED
    BY <2>2, <2>3 DEF CreateUsersAndRoles
<1>4. CreateTokens \in Seq(SchemaStatements) /\ Len(CreateTokens) = 7
  <2>1. /\ Table("user_access_tokens", {}) \in SchemaStatements
        /\ Table("user_refresh_tokens", {}) \in SchemaStatements
        /\ Table("sys_user_oauth_providers", {}) \in SchemaStatements
        /\ Table("sys_password_reset_otp", {}) \in SchemaStatements
    BY StatementsTyped DEF TableNames
  <2>2. /\ Key("user_access_tokens", "users") \in SchemaStatements
        /\ Key("user_refresh_tokens", "user_access_tokens") \in SchemaStatements
        /\ Key("sys_user_oauth_providers", "users") \in SchemaStatements
    BY StatementsTyped DEF TableNames
  <2> QED
    BY <2>1, <2>2 DEF CreateTokens
<1>5. CreateTasksAndLogs \in Seq(SchemaStatements) /\ Len(CreateTasksAndLogs) = 6
  <2>1. /\ Table("sys_task", {}) \in SchemaStatements /\ Table("sys_task_log", {}) \in SchemaStatements
        /\ Table("sys_login_log", {}) \in SchemaStatements
        /\ Table("sys_captcha_log", {}) \in SchemaStatements
    BY StatementsTyped DEF TableNames
  <2>2. /\ Key("sys_task_log", "sys_task") \in SchemaStatements
        /\ Key("sys_login_log", "users") \in SchemaStatements
    BY StatementsTyped DEF TableNames
  <2> QED
    BY <2>1, <2>2 DEF CreateTasksAndLogs
<1>6. Seed \in Seq(SchemaStatements) /\ Len(Seed) = 3
  <2>1. {} \in SUBSET SchemaNames /\ {"users", "sys_role"} \in SUBSET SchemaNames
    BY DEF TableNames
  <2> QED
    BY <2>1, StatementsTyped DEF Seed, TableNames
<1>7. DropTables \in Seq(SchemaStatements) /\ Len(DropTables) = 13
  BY StatementsTyped DEF DropTables, TableNames
<1> QED
  BY <1>1, <1>2, <1>3, <1>4, <1>5, <1>6, <1>7

\* The lengths are kept as variables: the provers take a sequence of known length apart.
LEMMA Joined ==
    ASSUME NEW s \in Seq(SchemaStatements), NEW t \in Seq(SchemaStatements)
    PROVE  /\ s \o t \in Seq(SchemaStatements) /\ Len(s \o t) = Len(s) + Len(t)
           /\ \A i \in 1..Len(s) : (s \o t)[i] = s[i]
           /\ \A i \in 1..Len(t) : (s \o t)[Len(s) + i] = t[i]
OBVIOUS

LEMMA UpParts ==
    /\ Len(Up) = 30
    /\ \A i \in 1..5 : Up[i] = CreateTypes[i]
    /\ \A i \in 1..9 : Up[5 + i] = CreateUsersAndRoles[i]
    /\ \A i \in 1..7 : Up[14 + i] = CreateTokens[i]
    /\ \A i \in 1..6 : Up[21 + i] = CreateTasksAndLogs[i]
    /\ \A i \in 1..3 : Up[27 + i] = Seed[i]
<1>1. PICK a, b, c, d, e \in Nat : a = 5 /\ b = 9 /\ c = 7 /\ d = 6 /\ e = 3
  OBVIOUS
<1>2. /\ Len(CreateTypes) = a /\ Len(CreateUsersAndRoles) = b /\ Len(CreateTokens) = c
      /\ Len(CreateTasksAndLogs) = d /\ Len(Seed) = e
  BY <1>1, ListsTyped, Zenon
<1>3. /\ CreateTypes \in Seq(SchemaStatements) /\ CreateUsersAndRoles \in Seq(SchemaStatements)
      /\ CreateTokens \in Seq(SchemaStatements) /\ CreateTasksAndLogs \in Seq(SchemaStatements)
      /\ Seed \in Seq(SchemaStatements)
  BY ListsTyped, Zenon
<1>4. PICK ab \in Nat, abc \in Nat, abcd \in Nat, all \in Nat :
         ab = a + b /\ abc = ab + c /\ abcd = abc + d /\ all = abcd + e
  OBVIOUS
<1>5. PICK two :
         /\ two \in Seq(SchemaStatements) /\ two = CreateTypes \o CreateUsersAndRoles /\ Len(two) = ab
         /\ \A i \in 1..a : two[i] = CreateTypes[i]
         /\ \A i \in 1..b : two[a + i] = CreateUsersAndRoles[i]
  <2>1. /\ CreateTypes \in Seq(SchemaStatements) /\ Len(CreateTypes) = a
        /\ CreateUsersAndRoles \in Seq(SchemaStatements) /\ Len(CreateUsersAndRoles) = b
    BY <1>2, <1>3, Zenon
  <2>2. /\ CreateTypes \o CreateUsersAndRoles \in Seq(SchemaStatements) /\ Len(CreateTypes \o CreateUsersAndRoles) = a + b
        /\ \A i \in 1..a : (CreateTypes \o CreateUsersAndRoles)[i] = CreateTypes[i]
        /\ \A i \in 1..b : (CreateTypes \o CreateUsersAndRoles)[a + i] = CreateUsersAndRoles[i]
    BY <2>1, Joined, Zenon
  <2>3. a + b = ab
    BY <1>4
  <2> QED
    BY <2>2, <2>3, Zenon
<1>6. PICK three :
         /\ three \in Seq(SchemaStatements) /\ three = two \o CreateTokens /\ Len(three) = abc
         /\ \A i \in 1..ab : three[i] = two[i]
         /\ \A i \in 1..c : three[ab + i] = CreateTokens[i]
  <2>1. /\ two \in Seq(SchemaStatements) /\ Len(two) = ab
        /\ CreateTokens \in Seq(SchemaStatements) /\ Len(CreateTokens) = c
    BY <1>2, <1>3, <1>5, Zenon
  <2>2. /\ two \o CreateTokens \in Seq(SchemaStatements) /\ Len(two \o CreateTokens) = ab + c
        /\ \A i \in 1..ab : (two \o CreateTokens)[i] = two[i]
        /\ \A i \in 1..c : (two \o CreateTokens)[ab + i] = CreateTokens[i]
    BY <2>1, Joined, Zenon
  <2>3. ab + c = abc
    BY <1>4
  <2> QED
    BY <2>2, <2>3, Zenon
<1>7. PICK four :
         /\ four \in Seq(SchemaStatements) /\ four = three \o CreateTasksAndLogs /\ Len(four) = abcd
         /\ \A i \in 1..abc : four[i] = three[i]
         /\ \A i \in 1..d : four[abc + i] = CreateTasksAndLogs[i]
  <2>1. /\ three \in Seq(SchemaStatements) /\ Len(three) = abc
        /\ CreateTasksAndLogs \in Seq(SchemaStatements) /\ Len(CreateTasksAndLogs) = d
    BY <1>2, <1>3, <1>6, Zenon
  <2>2. /\ three \o CreateTasksAndLogs \in Seq(SchemaStatements) /\ Len(three \o CreateTasksAndLogs) = abc + d
        /\ \A i \in 1..abc : (three \o CreateTasksAndLogs)[i] = three[i]
        /\ \A i \in 1..d : (three \o CreateTasksAndLogs)[abc + i] = CreateTasksAndLogs[i]
    BY <2>1, Joined, Zenon
  <2>3. abc + d = abcd
    BY <1>4
  <2> QED
    BY <2>2, <2>3, Zenon
<1>8. PICK five :
         /\ five \in Seq(SchemaStatements) /\ five = four \o Seed /\ Len(five) = all
         /\ \A i \in 1..abcd : five[i] = four[i]
         /\ \A i \in 1..e : five[abcd + i] = Seed[i]
  <2>1. /\ four \in Seq(SchemaStatements) /\ Len(four) = abcd
        /\ Seed \in Seq(SchemaStatements) /\ Len(Seed) = e
    BY <1>2, <1>3, <1>7, Zenon
  <2>2. /\ four \o Seed \in Seq(SchemaStatements) /\ Len(four \o Seed) = abcd + e
        /\ \A i \in 1..abcd : (four \o Seed)[i] = four[i]
        /\ \A i \in 1..e : (four \o Seed)[abcd + i] = Seed[i]
    BY <2>1, Joined, Zenon
  <2>3. abcd + e = all
    BY <1>4
  <2> QED
    BY <2>2, <2>3, Zenon
<1>9. Up = five
  BY <1>5, <1>6, <1>7, <1>8, Zenon DEF Up
<1>10. /\ Len(Up) = all
       /\ \A i \in 1..abcd : Up[i] = four[i]
       /\ \A i \in 1..e : Up[abcd + i] = Seed[i]
  BY <1>8, <1>9, Zenon
<1>11. \A i \in 1..a : Up[i] = CreateTypes[i]
  <2>1. \A i \in 1..a : i \in 1..ab /\ i \in 1..abc /\ i \in 1..abcd
    BY <1>4
  <2>2. \A i \in 1..a : Up[i] = two[i]
    BY <1>6, <1>7, <1>10, <2>1, Zenon
  <2> QED
    BY <1>5, <2>2, Zenon
<1>12. \A i \in 1..b : Up[a + i] = CreateUsersAndRoles[i]
  <2>1. \A i \in 1..b : a + i \in 1..ab /\ a + i \in 1..abc /\ a + i \in 1..abcd
    BY <1>4
  <2>2. \A i \in 1..b : Up[a + i] = two[a + i]
    BY <1>6, <1>7, <1>10, <2>1, Zenon
  <2> QED
    BY <1>5, <2>2, Zenon
<1>13. \A i \in 1..c : Up[ab + i] = CreateTokens[i]
  <2>1. \A i \in 1..c : ab + i \in 1..abc /\ ab + i \in 1..abcd
    BY <1>4
  <2> QED
    BY <1>6, <1>7, <1>10, <2>1, Zenon
<1>14. \A i \in 1..d : Up[abc + i] = CreateTasksAndLogs[i]
  <2>1. \A i \in 1..d : abc + i \in 1..abcd
    BY <1>4
  <2> QED
    BY <1>7, <1>10, <2>1, Zenon
<1>15. ab = 14 /\ abc = 21 /\ abcd = 27 /\ all = 30
  BY <1>1, <1>4
<1> QED
  BY <1>1, <1>10, <1>11, <1>12, <1>13, <1>14, <1>15, Zenon

LEMMA DownParts ==
    /\ Len(Down) = 18
    /\ \A i \in 1..13 : Down[i] = DropTables[i]
    /\ \A i \in 1..5 : Down[13 + i] = DropTypes[i]
<1>1. PICK a, b, c \in Nat : a = 13 /\ b = 5 /\ c = 18 /\ c = a + b
  OBVIOUS
<1>2. /\ DropTables \in Seq(SchemaStatements) /\ Len(DropTables) = a
      /\ DropTypes \in Seq(SchemaStatements) /\ Len(DropTypes) = b
  BY <1>1, ListsTyped, Zenon
<1>3. /\ Len(Down) = a + b
      /\ \A i \in 1..a : Down[i] = DropTables[i]
      /\ \A i \in 1..b : Down[a + i] = DropTypes[i]
  BY <1>2 DEF Down
<1> QED
  BY <1>1, <1>3, Zenon

LEMMA TypesMade ==
    /\ Up[1] = Type("user_status") /\ Up[2] = Type("gender_type") /\ Up[3] = Type("experience_level")
    /\ Up[4] = Type("training_goals") /\ Up[5] = Type("sport_type")
<1>1. \A i \in 1..5 : CreateTypes[i] = Type(Enums[i])
  BY EnumList DEF CreateTypes
<1>2. \A i \in 1..5 : Up[i] = Type(Enums[i])
  BY <1>1, UpParts, Zenon
<1> QED
  BY <1>2, EnumList

LEMMA UsersAndRolesMade ==
    /\ Up[6] = Table("users", TypeNames)
    /\ Up[7] = Table("sys_role", {})
    /\ Up[8] = Table("sys_user_roles", {})
    /\ Up[9] = Key("sys_user_roles", "users") /\ Up[10] = Key("sys_user_roles", "sys_role")
    /\ Up[11] = Table("sys_menu", {})
    /\ Up[12] = Table("sys_role_menus", {})
    /\ Up[13] = Key("sys_role_menus", "sys_role") /\ Up[14] = Key("sys_role_menus", "sys_menu")
<1>1. \A i \in 1..9 : Up[5 + i] = CreateUsersAndRoles[i]
  BY UpParts, Zenon
<1>2. /\ Up[6] = CreateUsersAndRoles[1] /\ Up[7] = CreateUsersAndRoles[2] /\ Up[8] = CreateUsersAndRoles[3]
      /\ Up[9] = CreateUsersAndRoles[4] /\ Up[10] = CreateUsersAndRoles[5] /\ Up[11] = CreateUsersAndRoles[6]
      /\ Up[12] = CreateUsersAndRoles[7] /\ Up[13] = CreateUsersAndRoles[8] /\ Up[14] = CreateUsersAndRoles[9]
  BY <1>1
<1>3. /\ CreateUsersAndRoles[1] = Table("users", TypeNames)
      /\ CreateUsersAndRoles[2] = Table("sys_role", {})
      /\ CreateUsersAndRoles[3] = Table("sys_user_roles", {})
      /\ CreateUsersAndRoles[4] = Key("sys_user_roles", "users")
      /\ CreateUsersAndRoles[5] = Key("sys_user_roles", "sys_role")
      /\ CreateUsersAndRoles[6] = Table("sys_menu", {})
      /\ CreateUsersAndRoles[7] = Table("sys_role_menus", {})
      /\ CreateUsersAndRoles[8] = Key("sys_role_menus", "sys_role")
      /\ CreateUsersAndRoles[9] = Key("sys_role_menus", "sys_menu")
  BY EnumList DEF CreateUsersAndRoles
<1> QED
  BY <1>2, <1>3, Zenon

LEMMA TokensMade ==
    /\ Up[15] = Table("user_access_tokens", {}) /\ Up[16] = Key("user_access_tokens", "users")
    /\ Up[17] = Table("user_refresh_tokens", {}) /\ Up[18] = Key("user_refresh_tokens", "user_access_tokens")
    /\ Up[19] = Table("sys_user_oauth_providers", {}) /\ Up[20] = Key("sys_user_oauth_providers", "users")
    /\ Up[21] = Table("sys_password_reset_otp", {})
<1>1. \A i \in 1..7 : Up[14 + i] = CreateTokens[i]
  BY UpParts, Zenon
<1>2. /\ Up[15] = CreateTokens[1] /\ Up[16] = CreateTokens[2] /\ Up[17] = CreateTokens[3]
      /\ Up[18] = CreateTokens[4] /\ Up[19] = CreateTokens[5] /\ Up[20] = CreateTokens[6]
      /\ Up[21] = CreateTokens[7]
  BY <1>1
<1> QED
  BY <1>2 DEF CreateTokens

LEMMA TasksAndLogsMade ==
    /\ Up[22] = Table("sys_task", {})
    /\ Up[23] = Table("sys_task_log", {}) /\ Up[24] = Key("sys_task_log", "sys_task")
    /\ Up[25] = Table("sys_login_log", {}) /\ Up[26] = Key("sys_login_log", "users")
    /\ Up[27] = Table("sys_captcha_log", {})
<1>1. \A i \in 1..6 : Up[21 + i] = CreateTasksAndLogs[i]
  BY UpParts, Zenon
<1>2. /\ Up[22] = CreateTasksAndLogs[1] /\ Up[23] = CreateTasksAndLogs[2] /\ Up[24] = CreateTasksAndLogs[3]
      /\ Up[25] = CreateTasksAndLogs[4] /\ Up[26] = CreateTasksAndLogs[5] /\ Up[27] = CreateTasksAndLogs[6]
  BY <1>1
<1> QED
  BY <1>2 DEF CreateTasksAndLogs

LEMMA Seeded ==
    /\ Up[28] = Insert("sys_role", {}) /\ Up[29] = Insert("users", {})
    /\ Up[30] = Insert("sys_user_roles", {"users", "sys_role"})
<1>1. \A i \in 1..3 : Up[27 + i] = Seed[i]
  BY UpParts, Zenon
<1>2. Up[28] = Seed[1] /\ Up[29] = Seed[2] /\ Up[30] = Seed[3]
  BY <1>1
<1> QED
  BY <1>2 DEF Seed

LEMMA TablesDropped ==
    /\ Down[1] = Drop("sys_captcha_log") /\ Down[2] = Drop("sys_login_log") /\ Down[3] = Drop("sys_task_log")
    /\ Down[4] = Drop("sys_task") /\ Down[5] = Drop("sys_password_reset_otp")
    /\ Down[6] = Drop("sys_user_oauth_providers") /\ Down[7] = Drop("user_refresh_tokens")
    /\ Down[8] = Drop("user_access_tokens") /\ Down[9] = Drop("sys_role_menus") /\ Down[10] = Drop("sys_menu")
    /\ Down[11] = Drop("sys_user_roles") /\ Down[12] = Drop("sys_role") /\ Down[13] = Drop("users")
<1>1. \A i \in 1..13 : Down[i] = DropTables[i]
  BY DownParts, Zenon
<1>2. /\ Down[1] = DropTables[1] /\ Down[2] = DropTables[2] /\ Down[3] = DropTables[3]
      /\ Down[4] = DropTables[4] /\ Down[5] = DropTables[5] /\ Down[6] = DropTables[6]
      /\ Down[7] = DropTables[7] /\ Down[8] = DropTables[8] /\ Down[9] = DropTables[9]
      /\ Down[10] = DropTables[10] /\ Down[11] = DropTables[11] /\ Down[12] = DropTables[12]
      /\ Down[13] = DropTables[13]
  BY <1>1
<1> QED
  BY <1>2 DEF DropTables

LEMMA TypesDropped ==
    /\ Down[14] = Drop("sport_type") /\ Down[15] = Drop("training_goals") /\ Down[16] = Drop("experience_level")
    /\ Down[17] = Drop("gender_type") /\ Down[18] = Drop("user_status")
<1>1. \A i \in 1..5 : Down[13 + i] = DropTypes[i]
  BY DownParts, Zenon
<1>2. \A i \in 1..5 : DropTypes[i] = Drop(Enums[6 - i])
  BY EnumList DEF DropTypes
<1>3. /\ Down[14] = DropTypes[1] /\ Down[15] = DropTypes[2] /\ Down[16] = DropTypes[3]
      /\ Down[17] = DropTypes[4] /\ Down[18] = DropTypes[5]
  BY <1>1
<1>4. /\ DropTypes[1] = Drop(Enums[5]) /\ DropTypes[2] = Drop(Enums[4]) /\ DropTypes[3] = Drop(Enums[3])
      /\ DropTypes[4] = Drop(Enums[2]) /\ DropTypes[5] = Drop(Enums[1])
  BY <1>2
<1> QED
  BY <1>3, <1>4, EnumList, Zenon

LEMMA TypesMadeAt ==
    /\ MadeAt("user_status") = 1 /\ MadeAt("gender_type") = 2 /\ MadeAt("experience_level") = 3
    /\ MadeAt("training_goals") = 4 /\ MadeAt("sport_type") = 5
BY DEF MadeAt

LEMMA TablesMadeAt ==
    /\ MadeAt("users") = 6 /\ MadeAt("sys_role") = 7 /\ MadeAt("sys_user_roles") = 8 /\ MadeAt("sys_menu") = 11
    /\ MadeAt("sys_role_menus") = 12 /\ MadeAt("user_access_tokens") = 15 /\ MadeAt("user_refresh_tokens") = 17
    /\ MadeAt("sys_user_oauth_providers") = 19 /\ MadeAt("sys_password_reset_otp") = 21
    /\ MadeAt("sys_task") = 22 /\ MadeAt("sys_task_log") = 23 /\ MadeAt("sys_login_log") = 25
    /\ MadeAt("sys_captcha_log") = 27
BY DEF MadeAt

\* What statement i of Up may be: it makes what is made there, and needs only what was made before.
MakesInOrder(i, s) ==
    /\ s.op \in {"type", "table", "key", "insert"}
    /\ s.op = "type" => s.name \in TypeNames /\ MadeAt(s.name) = i
    /\ s.op = "table" => s.name \in TableNames /\ MadeAt(s.name) = i
    /\ s.op = "key" => s.name \in s.needs /\ s.needs \subseteq TableNames
    /\ s.op = "insert" => s.name \in TableNames /\ MadeAt(s.name) < i
    /\ \A x \in s.needs : x \in SchemaNames /\ MadeAt(x) < i
    /\ s.op = "insert" /\ s.name = "sys_role" <=> i = 28
    /\ s.op = "insert" /\ s.name = "sys_user_roles" <=> i = 30

LEMMA MadeEarly ==
    /\ \A x \in TypeNames : MadeAt(x) \in 1..5
    /\ \A x \in TableNames : MadeAt(x) \in 6..27
<1>1. \A x \in TypeNames : MadeAt(x) \in 1..5
  BY TypesMadeAt DEF TypeNames
<1>2. \A x \in TableNames : MadeAt(x) \in 6..27
  BY TablesMadeAt DEF TableNames
<1> QED
  BY <1>1, <1>2

LEMMA TypeInOrder == \A x \in TypeNames : MakesInOrder(MadeAt(x), Type(x))
BY MadeEarly DEF MakesInOrder, Type

LEMMA TableInOrder ==
    \A x \in TableNames, S \in SUBSET SchemaNames :
        (\A y \in S : MadeAt(y) < MadeAt(x)) => MakesInOrder(MadeAt(x), Table(x, S))
BY MadeEarly DEF MakesInOrder, Table

LEMMA KeyInOrder ==
    \A i \in 1..27, x, y \in TableNames :
        MadeAt(x) < i /\ MadeAt(y) < i => MakesInOrder(i, Key(x, y))
BY DEF MakesInOrder, Key, SchemaNames

LEMMA InsertInOrder ==
    /\ MakesInOrder(28, Insert("sys_role", {}))
    /\ MakesInOrder(29, Insert("users", {}))
    /\ MakesInOrder(30, Insert("sys_user_roles", {"users", "sys_role"}))
<1>1. /\ MadeAt("users") = 6 /\ MadeAt("sys_role") = 7 /\ MadeAt("sys_user_roles") = 8
      /\ "users" \in TableNames /\ "sys_role" \in TableNames /\ "sys_user_roles" \in TableNames
  BY TablesMadeAt DEF TableNames
<1>2. \A S \in SUBSET TableNames, x \in TableNames, i \in 28..30 :
        /\ MadeAt(x) < i /\ \A y \in S : MadeAt(y) < i
        /\ x = "sys_role" <=> i = 28
        /\ x = "sys_user_roles" <=> i = 30
        => MakesInOrder(i, Insert(x, S))
  BY DEF MakesInOrder, Insert, SchemaNames
<1>3. {} \in SUBSET TableNames /\ {"users", "sys_role"} \in SUBSET TableNames
  BY <1>1
<1> QED
  BY <1>1, <1>2, <1>3

LEMMA TablesInOrder ==
    /\ MakesInOrder(6, Table("users", TypeNames))
    /\ \A x \in TableNames : MakesInOrder(MadeAt(x), Table(x, {}))
<1>1. \A x \in TableNames : MakesInOrder(MadeAt(x), Table(x, {}))
  BY TableInOrder
<1>2. MakesInOrder(MadeAt("users"), Table("users", TypeNames))
  <2>1. "users" \in TableNames /\ TypeNames \in SUBSET SchemaNames
    BY DEF TableNames, SchemaNames
  <2>2. \A y \in TypeNames : MadeAt(y) < MadeAt("users")
    BY <2>1, MadeEarly
  <2> QED
    BY <2>1, <2>2, TableInOrder, Zenon
<1> QED
  BY <1>1, <1>2, TablesMadeAt, Zenon

LEMMA UpInOrder == \A i \in 1..30 : MakesInOrder(i, Up[i])
<1>1. \A i \in 1..5 : MakesInOrder(i, Up[i])
  <2>1. /\ MakesInOrder(1, Up[1]) /\ MakesInOrder(2, Up[2]) /\ MakesInOrder(3, Up[3])
        /\ MakesInOrder(4, Up[4]) /\ MakesInOrder(5, Up[5])
    <3>1. /\ "user_status" \in TypeNames /\ "gender_type" \in TypeNames /\ "experience_level" \in TypeNames
          /\ "training_goals" \in TypeNames /\ "sport_type" \in TypeNames
      BY DEF TypeNames
    <3> QED
      BY <3>1, TypeInOrder, TypesMade, TypesMadeAt, Zenon
  <2>2. \A i \in 1..5 : i = 1 \/ i = 2 \/ i = 3 \/ i = 4 \/ i = 5
    OBVIOUS
  <2> QED
    BY <2>1, <2>2, Zenon
<1>2. /\ "users" \in TableNames /\ "sys_role" \in TableNames /\ "sys_user_roles" \in TableNames
      /\ "sys_menu" \in TableNames /\ "sys_role_menus" \in TableNames /\ "user_access_tokens" \in TableNames
      /\ "user_refresh_tokens" \in TableNames /\ "sys_user_oauth_providers" \in TableNames
      /\ "sys_password_reset_otp" \in TableNames /\ "sys_task" \in TableNames
      /\ "sys_task_log" \in TableNames /\ "sys_login_log" \in TableNames /\ "sys_captcha_log" \in TableNames
  BY DEF TableNames
<1>3. /\ MakesInOrder(6, Up[6]) /\ MakesInOrder(7, Up[7]) /\ MakesInOrder(8, Up[8])
      /\ MakesInOrder(11, Up[11]) /\ MakesInOrder(12, Up[12])
  BY <1>2, TablesInOrder, UsersAndRolesMade, TablesMadeAt, Zenon
<1>4. MakesInOrder(15, Up[15]) /\ MakesInOrder(17, Up[17]) /\ MakesInOrder(19, Up[19]) /\ MakesInOrder(21, Up[21])
  BY <1>2, TablesInOrder, TokensMade, TablesMadeAt, Zenon
<1>5. MakesInOrder(22, Up[22]) /\ MakesInOrder(23, Up[23]) /\ MakesInOrder(25, Up[25]) /\ MakesInOrder(27, Up[27])
  BY <1>2, TablesInOrder, TasksAndLogsMade, TablesMadeAt, Zenon
<1>6. /\ MakesInOrder(9, Key("sys_user_roles", "users")) /\ MakesInOrder(10, Key("sys_user_roles", "sys_role"))
      /\ MakesInOrder(13, Key("sys_role_menus", "sys_role")) /\ MakesInOrder(14, Key("sys_role_menus", "sys_menu"))
  BY <1>2, KeyInOrder, TablesMadeAt
<1>7. /\ MakesInOrder(16, Key("user_access_tokens", "users"))
      /\ MakesInOrder(18, Key("user_refresh_tokens", "user_access_tokens"))
      /\ MakesInOrder(20, Key("sys_user_oauth_providers", "users"))
      /\ MakesInOrder(24, Key("sys_task_log", "sys_task")) /\ MakesInOrder(26, Key("sys_login_log", "users"))
  BY <1>2, KeyInOrder, TablesMadeAt
<1>8. /\ MakesInOrder(9, Up[9]) /\ MakesInOrder(10, Up[10]) /\ MakesInOrder(13, Up[13]) /\ MakesInOrder(14, Up[14])
      /\ MakesInOrder(16, Up[16]) /\ MakesInOrder(18, Up[18]) /\ MakesInOrder(20, Up[20])
      /\ MakesInOrder(24, Up[24]) /\ MakesInOrder(26, Up[26])
  BY <1>6, <1>7, UsersAndRolesMade, TokensMade, TasksAndLogsMade, Zenon
<1>9. MakesInOrder(28, Up[28]) /\ MakesInOrder(29, Up[29]) /\ MakesInOrder(30, Up[30])
  BY InsertInOrder, Seeded, Zenon
<1> SUFFICES ASSUME NEW i \in 1..30 PROVE MakesInOrder(i, Up[i])
  OBVIOUS
<1>10. CASE i \in 1..5
  BY <1>1, <1>10, Zenon
<1>11. CASE i \in 6..14
  <2>1. i = 6 \/ i = 7 \/ i = 8 \/ i = 9 \/ i = 10 \/ i = 11 \/ i = 12 \/ i = 13 \/ i = 14
    BY <1>11
  <2> QED
    BY <2>1, <1>3, <1>8, Zenon
<1>12. CASE i \in 15..21
  <2>1. i = 15 \/ i = 16 \/ i = 17 \/ i = 18 \/ i = 19 \/ i = 20 \/ i = 21
    BY <1>12
  <2> QED
    BY <2>1, <1>4, <1>8, Zenon
<1>13. CASE i \in 22..27
  <2>1. i = 22 \/ i = 23 \/ i = 24 \/ i = 25 \/ i = 26 \/ i = 27
    BY <1>13
  <2> QED
    BY <2>1, <1>5, <1>8, Zenon
<1>14. CASE i \in 28..30
  <2>1. i = 28 \/ i = 29 \/ i = 30
    BY <1>14
  <2> QED
    BY <2>1, <1>9, Zenon
<1> QED
  BY <1>10, <1>11, <1>12, <1>13, <1>14

\* Every type and table is made.
LEMMA AllMade ==
    /\ \A x \in TypeNames : Up[MadeAt(x)] = Type(x)
    /\ \A x \in TableNames : \E S : Up[MadeAt(x)] = Table(x, S)
<1>1. \A x \in TypeNames : Up[MadeAt(x)] = Type(x)
  BY TypesMade, TypesMadeAt DEF TypeNames
<1>2. \A x \in {"users", "sys_role", "sys_user_roles", "sys_menu", "sys_role_menus"} :
        \E S : Up[MadeAt(x)] = Table(x, S)
  BY UsersAndRolesMade, TablesMadeAt, Zenon
<1>3. \A x \in {"user_access_tokens", "user_refresh_tokens", "sys_user_oauth_providers", "sys_password_reset_otp"} :
        \E S : Up[MadeAt(x)] = Table(x, S)
  BY TokensMade, TablesMadeAt, Zenon
<1>4. \A x \in {"sys_task", "sys_task_log", "sys_login_log", "sys_captcha_log"} :
        \E S : Up[MadeAt(x)] = Table(x, S)
  BY TasksAndLogsMade, TablesMadeAt, Zenon
<1>5. TableNames =
        {"users", "sys_role", "sys_user_roles", "sys_menu", "sys_role_menus"}
        \union {"user_access_tokens", "user_refresh_tokens", "sys_user_oauth_providers", "sys_password_reset_otp"}
        \union {"sys_task", "sys_task_log", "sys_login_log", "sys_captcha_log"}
  BY DEF TableNames
<1> QED
  BY <1>1, <1>2, <1>3, <1>4, <1>5, Zenon

\* What statement i of Down may be; everything is dropped, the users before any type.
DropsInOrder(i, s) ==
    /\ s.op = "drop" /\ s.needs = {}
    /\ s.name \in IF i <= 13 THEN TableNames ELSE TypeNames
    /\ i = 12 <=> s.name = "sys_role"
    /\ i = 13 <=> s.name = "users"

LEMMA DownInOrder ==
    /\ \A i \in 1..18 : DropsInOrder(i, Down[i])
    /\ \A x \in SchemaNames : \E i \in 1..18 : Down[i].name = x
<1>1. /\ \A x \in TableNames : Drop(x).name = x
      /\ \A y \in TypeNames : Drop(y).name = y
  BY DEF Drop
<1>2. \A i \in 1..13, x \in TableNames :
        (i = 12 <=> x = "sys_role") /\ (i = 13 <=> x = "users") => DropsInOrder(i, Drop(x))
  BY DEF DropsInOrder, Drop
<1>3. \A i \in 14..18, x \in TypeNames : DropsInOrder(i, Drop(x))
  <2>1. "sys_role" \notin TypeNames /\ "users" \notin TypeNames
    BY DEF TypeNames
  <2> QED
    BY <2>1 DEF DropsInOrder, Drop
<1>4. \A i \in 1..13 : DropsInOrder(i, Down[i])
  <2>1. /\ DropsInOrder(1, Drop("sys_captcha_log")) /\ DropsInOrder(2, Drop("sys_login_log"))
        /\ DropsInOrder(3, Drop("sys_task_log")) /\ DropsInOrder(4, Drop("sys_task"))
        /\ DropsInOrder(5, Drop("sys_password_reset_otp")) /\ DropsInOrder(6, Drop("sys_user_oauth_providers"))
        /\ DropsInOrder(7, Drop("user_refresh_tokens"))
    BY <1>2 DEF TableNames
  <2>2. /\ DropsInOrder(8, Drop("user_access_tokens")) /\ DropsInOrder(9, Drop("sys_role_menus"))
        /\ DropsInOrder(10, Drop("sys_menu")) /\ DropsInOrder(11, Drop("sys_user_roles"))
        /\ DropsInOrder(12, Drop("sys_role")) /\ DropsInOrder(13, Drop("users"))
    BY <1>2 DEF TableNames
  <2>3. /\ DropsInOrder(1, Down[1]) /\ DropsInOrder(2, Down[2]) /\ DropsInOrder(3, Down[3])
        /\ DropsInOrder(4, Down[4]) /\ DropsInOrder(5, Down[5]) /\ DropsInOrder(6, Down[6])
        /\ DropsInOrder(7, Down[7])
    BY <2>1, TablesDropped, Zenon
  <2>4. /\ DropsInOrder(8, Down[8]) /\ DropsInOrder(9, Down[9]) /\ DropsInOrder(10, Down[10])
        /\ DropsInOrder(11, Down[11]) /\ DropsInOrder(12, Down[12]) /\ DropsInOrder(13, Down[13])
    BY <2>2, TablesDropped, Zenon
  <2> SUFFICES ASSUME NEW i \in 1..13 PROVE DropsInOrder(i, Down[i])
    OBVIOUS
  <2>5. CASE i \in 1..7
    <3>1. i = 1 \/ i = 2 \/ i = 3 \/ i = 4 \/ i = 5 \/ i = 6 \/ i = 7
      BY <2>5
    <3> QED
      BY <2>3, <3>1, Zenon
  <2>6. CASE i \in 8..13
    <3>1. i = 8 \/ i = 9 \/ i = 10 \/ i = 11 \/ i = 12 \/ i = 13
      BY <2>6
    <3> QED
      BY <2>4, <3>1, Zenon
  <2> QED
    BY <2>5, <2>6
<1>5. \A i \in 14..18 : DropsInOrder(i, Down[i])
  <2>1. /\ DropsInOrder(14, Drop("sport_type")) /\ DropsInOrder(15, Drop("training_goals"))
        /\ DropsInOrder(16, Drop("experience_level")) /\ DropsInOrder(17, Drop("gender_type"))
        /\ DropsInOrder(18, Drop("user_status"))
    BY <1>3 DEF TypeNames
  <2>2. \A i \in 14..18 : i = 14 \/ i = 15 \/ i = 16 \/ i = 17 \/ i = 18
    OBVIOUS
  <2> QED
    BY <2>1, <2>2, TypesDropped, Zenon
<1>6. \A i \in 1..18 : i \in 1..13 \/ i \in 14..18
  OBVIOUS
<1>7. \A x \in TableNames : \E i \in 1..13 : Down[i].name = x
  <2>1. \A x \in TableNames : \E i \in 1..13 : Down[i] = Drop(x)
    BY TablesDropped DEF TableNames
  <2> QED
    BY <1>1, <2>1, Zenon
<1>8. \A x \in TypeNames : \E i \in 14..18 : Down[i].name = x
  <2> SUFFICES ASSUME NEW x \in TypeNames PROVE \E i \in 14..18 : Down[i].name = x
    OBVIOUS
  <2>1. PICK i \in 14..18 : Down[i] = Drop(x)
    BY TypesDropped DEF TypeNames
  <2>2. Drop(x).name = x
    BY DEF Drop
  <2> QED
    BY <2>1, <2>2
<1>9. \A i \in 1..13 : i \in 1..18
  OBVIOUS
<1>10. \A i \in 14..18 : i \in 1..18
  OBVIOUS
<1> QED
  BY <1>4, <1>5, <1>6, <1>7, <1>8, <1>9, <1>10, Zenon DEF SchemaNames

(* The inductive invariant: up to statement n, up has made exactly what is   *)
(* made there, and down has left nothing of what it dropped; what a rollback *)
(* brings back is what a finished run leaves.                                *)
SchemaFits(s) ==
    /\ s \in [types : SUBSET TypeNames, tables : SUBSET TableNames, keys : SUBSET (TableNames \X SUBSET TableNames)]
    /\ \A k \in s.keys : k[1] \in s.tables /\ k[2] \subseteq s.tables

SeededIds == [v \in TypesOf(SeededRoles) |-> CHOOSE i \in DOMAIN SeededRoles : SeededRoles[i] = v]

AtRest(done, s, ids, roles) ==
    IF done THEN SchemaFits(s) /\ roles = {RootRoleId} /\ DOMAIN ids = {"admin", "user"}
    ELSE s = Nothing /\ ids = NoRoles /\ roles = {}

MadeUpTo(n) ==
    /\ schema.types = {x \in TypeNames : MadeAt(x) <= n}
    /\ schema.tables = {x \in TableNames : MadeAt(x) <= n}
    /\ roleIds = IF n < 28 THEN NoRoles ELSE SeededIds
    /\ admin = IF n < 30 THEN {} ELSE {RootRoleId}

DroppedUpTo(n) ==
    /\ \A i \in 1..n : Down[i].name \notin Names
    /\ n >= 12 => roleIds = NoRoles
    /\ n >= 13 => admin = {}

SchemaInv ==
    /\ applied \in BOOLEAN /\ refused = FALSE
    /\ step \in [run : {"none", "up", "down"}, done : 0..30] /\ SchemaFits(schema)
    /\ step.run = "none" => step.done = 0 /\ AtRest(applied, schema, roleIds, admin)
    /\ step.run # "none" => AtRest(applied, saved[1], saved[2], saved[3]) /\ (applied <=> step.run = "down")
    /\ step.run = "up" => MadeUpTo(step.done)
    /\ step.run = "down" => step.done <= 18 /\ DroppedUpTo(step.done)

LEMMA SeededRolesHaveIds == DOMAIN SeededIds = {"admin", "user"} /\ SeededIds["admin"] = RootRoleId
<1>1. /\ DOMAIN SeededRoles = {1, 2} /\ SeededRoles[1] = "admin" /\ SeededRoles[2] = "user"
  BY DEF SeededRoles
<1>2. TypesOf(SeededRoles) = {"admin", "user"}
  BY <1>1 DEF TypesOf
<1>3. (CHOOSE i \in DOMAIN SeededRoles : SeededRoles[i] = "admin") = 1
  BY <1>1
<1> QED
  BY <1>2, <1>3 DEF SeededIds, RootRoleId

LEMMA TypesAreNotTables == TypeNames \intersect TableNames = {}
BY DEF TypeNames, TableNames

LEMMA SchemaInvInit == SchemaInit => SchemaInv
<1> SUFFICES ASSUME SchemaInit PROVE SchemaInv
  OBVIOUS
<1>1. /\ step = [run |-> "none", done |-> 0] /\ applied = FALSE /\ refused = FALSE
      /\ schema = Nothing /\ roleIds = NoRoles /\ admin = {}
  BY DEF SchemaInit, Resting
<1>2. SchemaFits(schema)
  BY <1>1 DEF SchemaFits, Nothing
<1>3. AtRest(applied, schema, roleIds, admin)
  BY <1>1, Zenon DEF AtRest
<1>4. step \in [run : {"none", "up", "down"}, done : 0..30] /\ step.run = "none" /\ step.done = 0
  BY <1>1
<1> QED
  BY <1>1, <1>2, <1>3, <1>4 DEF SchemaInv

LEMMA MigrateKeeps ==
    ASSUME SchemaInv, NEW run \in {"up", "down"}, Migrate(run)
    PROVE  SchemaInv'
<1>1. /\ step = [run |-> "none", done |-> 0] /\ step' = [run |-> run, done |-> 0] /\ (applied <=> run = "down")
      /\ saved' = <<schema, roleIds, admin>>
      /\ schema' = schema /\ roleIds' = roleIds /\ admin' = admin /\ applied' = applied /\ refused' = refused
  BY DEF Migrate, Resting, data
<1>2. saved'[1] = schema /\ saved'[2] = roleIds /\ saved'[3] = admin
  BY <1>1
<1>3. step.run = "none" /\ step'.run = run /\ step'.done = 0 /\ step' \in [run : {"none", "up", "down"}, done : 0..30]
  BY <1>1
<1>4. /\ applied \in BOOLEAN /\ refused = FALSE /\ SchemaFits(schema) /\ AtRest(applied, schema, roleIds, admin)
  BY <1>3 DEF SchemaInv
<1>5. applied' \in BOOLEAN /\ refused' = FALSE
  BY <1>1, <1>4
<1>6. SchemaFits(schema')
  BY <1>1, <1>4, Zenon
<1>7. AtRest(applied', saved'[1], saved'[2], saved'[3]) /\ (applied' <=> step'.run = "down")
  BY <1>1, <1>2, <1>3, <1>4, Zenon
<1>8. step'.run = "up" => MadeUpTo(step.done)'
  <2> SUFFICES ASSUME run = "up" PROVE MadeUpTo(step.done)'
    BY <1>3
  <2>1. schema = Nothing /\ roleIds = NoRoles /\ admin = {}
    BY <1>1, <1>4, "up" # "down" DEF AtRest
  <2>2. /\ {x \in TypeNames : MadeAt(x) <= 0} = {} /\ {x \in TableNames : MadeAt(x) <= 0} = {}
    BY MadeEarly
  <2>3. schema'.types = {} /\ schema'.tables = {} /\ roleIds' = NoRoles /\ admin' = {}
    BY <1>1, <2>1 DEF Nothing
  <2> QED
    BY <1>3, <2>2, <2>3 DEF MadeUpTo
<1>9. step'.run = "down" => step'.done <= 18 /\ DroppedUpTo(step.done)'
  BY <1>3 DEF DroppedUpTo
<1> QED
  BY <1>3, <1>5, <1>6, <1>7, <1>8, <1>9, "none" # "up", "none" # "down", Zenon DEF SchemaInv

LEMMA UndoKeeps ==
    ASSUME SchemaInv, step.run # "none", Undo, UNCHANGED <<saved, applied, refused>>
    PROVE  SchemaInv'
<1>1. /\ step' = [run |-> "none", done |-> 0] /\ schema' = saved[1] /\ roleIds' = saved[2] /\ admin' = saved[3]
      /\ applied' = applied /\ refused' = refused
  BY DEF Undo, Resting
<1>2. AtRest(applied, saved[1], saved[2], saved[3]) /\ applied \in BOOLEAN /\ refused = FALSE
  BY DEF SchemaInv
<1>3. SchemaFits(saved[1])
  <2>1. SchemaFits(Nothing)
    BY DEF SchemaFits, Nothing
  <2> QED
    BY <1>2, <2>1 DEF AtRest
<1>4. step' \in [run : {"none", "up", "down"}, done : 0..30] /\ step'.run = "none" /\ step'.done = 0
  BY <1>1
<1>5. AtRest(applied', schema', roleIds', admin') /\ SchemaFits(schema') /\ applied' \in BOOLEAN /\ refused' = FALSE
  BY <1>1, <1>2, <1>3, Zenon
<1> QED
  BY <1>4, <1>5, "none" # "up", "none" # "down", Zenon DEF SchemaInv

(* A statement of up is never refused, and makes what is made there.         *)
LEMMA UpStatement ==
    ASSUME SchemaInv, Statement, step.run = "up"
    PROVE  SchemaInv'
<1> DEFINE n == step.done
           s == Up[n + 1]
<1>1. /\ step \in [run : {"none", "up", "down"}, done : 0..30] /\ SchemaFits(schema)
      /\ applied \in BOOLEAN /\ refused = FALSE
  BY DEF SchemaInv
<1>2. /\ AtRest(applied, saved[1], saved[2], saved[3]) /\ (applied <=> step.run = "down") /\ MadeUpTo(n)
  BY "up" # "none" DEF SchemaInv
<1>3. Statements = Up /\ Len(Up) = 30
  BY UpParts DEF Statements
<1>4. /\ step.done < Len(Up)
      /\ IF Allowed(s)
         THEN /\ schema' = Made(s) /\ roleIds' = RolesAfter(s) /\ admin' = AdminAfter(s)
              /\ step' = [step EXCEPT !.done = @ + 1]
              /\ UNCHANGED refused
         ELSE Undo /\ refused' = TRUE
      /\ UNCHANGED <<saved, applied>>
  BY <1>3, Zenon DEF Statement
<1>5. n \in 0..29 /\ n + 1 \in 1..30
  BY <1>1, <1>3, <1>4
<1>6. MakesInOrder(n + 1, s)
  BY <1>5, UpInOrder, Zenon
<1>7. /\ schema.types = {x \in TypeNames : MadeAt(x) <= n}
      /\ schema.tables = {x \in TableNames : MadeAt(x) <= n}
  BY <1>2, Zenon DEF MadeUpTo
<1> HIDE DEF s, n
<1>8. Allowed(s)
  <2>1. \A x \in SchemaNames : MadeAt(x) < n + 1 => x \in Names
    <3>1. \A x \in SchemaNames : MadeAt(x) \in Nat
      BY MadeEarly DEF SchemaNames
    <3>2. \A x \in SchemaNames : MadeAt(x) < n + 1 => MadeAt(x) <= n
      BY <3>1, <1>5
    <3> QED
      BY <1>7, <3>2, Zenon DEF Names, SchemaNames
  <2>2. s.needs \subseteq Names
    BY <1>6, <2>1, Zenon DEF MakesInOrder
  <2>3. s.op \in {"type", "table"} => s.name \notin Names
    <3>1. s.op \in {"type", "table"} => MadeAt(s.name) = n + 1
      BY <1>6, Zenon DEF MakesInOrder
    <3>2. \A x \in Names : MadeAt(x) <= n
      BY <1>7, Zenon DEF Names
    <3>3. ~(n + 1 <= n)
      BY <1>5
    <3> QED
      BY <3>1, <3>2, <3>3, Zenon
  <2>4. s.op = "insert" => s.name \in schema.tables
    <3> SUFFICES ASSUME s.op = "insert" PROVE s.name \in schema.tables
      OBVIOUS
    <3>1. s.name \in TableNames /\ MadeAt(s.name) < n + 1
      BY <1>6, Zenon DEF MakesInOrder
    <3>2. MadeAt(s.name) <= n
      BY <3>1, <1>5, MadeEarly
    <3> QED
      BY <1>7, <3>1, <3>2, Zenon
  <2>5. s.op # "drop"
    BY <1>6 DEF MakesInOrder
  <2> QED
    BY <2>2, <2>3, <2>4, <2>5, Zenon DEF Allowed
<1>9. /\ schema' = Made(s) /\ roleIds' = RolesAfter(s) /\ admin' = AdminAfter(s)
      /\ step' = [step EXCEPT !.done = @ + 1] /\ refused' = refused /\ saved' = saved /\ applied' = applied
  BY <1>4, <1>8, Zenon
<1>10. step'.run = "up" /\ step'.done = n + 1 /\ step' \in [run : {"none", "up", "down"}, done : 0..30]
  BY <1>1, <1>5, <1>9 DEF n
<1>11. s.op \in {"type", "table", "key", "insert"}
  BY <1>6, Zenon DEF MakesInOrder
<1>12. SchemaFits(schema')
  <2>1. CASE s.op = "type"
    <3>1. schema' = [schema EXCEPT !.types = @ \union {s.name}] /\ s.name \in TypeNames
      BY <1>6, <1>9, <2>1 DEF Made, MakesInOrder
    <3> QED
      BY <1>1, <3>1 DEF SchemaFits
  <2>2. CASE s.op = "table"
    <3>1. schema' = [schema EXCEPT !.tables = @ \union {s.name}] /\ s.name \in TableNames
      BY <1>6, <1>9, <2>2 DEF Made, MakesInOrder
    <3> QED
      BY <1>1, <3>1 DEF SchemaFits
  <2>3. CASE s.op = "key"
    <3>1. schema' = [schema EXCEPT !.keys = @ \union {<<s.name, s.needs \ {s.name}>>}]
      BY <1>9, <2>3 DEF Made
    <3>2. s.name \in TableNames /\ s.needs \subseteq TableNames /\ s.name \in s.needs
      BY <1>6, <2>3, Zenon DEF MakesInOrder
    <3>3. s.needs \subseteq schema.tables
      <4>1. s.needs \subseteq Names
        BY <1>8, Zenon DEF Allowed
      <4>2. schema.types \subseteq TypeNames
        BY <1>7, Zenon
      <4> QED
        BY <3>2, <4>1, <4>2, TypesAreNotTables, Zenon DEF Names
    <3>4. <<s.name, s.needs \ {s.name}>> \in TableNames \X SUBSET TableNames
      BY <3>2
    <3>5. schema'.types = schema.types /\ schema'.tables = schema.tables
          /\ schema'.keys = schema.keys \union {<<s.name, s.needs \ {s.name}>>}
          /\ schema' \in [types : SUBSET TypeNames, tables : SUBSET TableNames,
                          keys : SUBSET (TableNames \X SUBSET TableNames)]
      BY <1>1, <3>1, <3>4 DEF SchemaFits
    <3>6. \A k \in schema.keys : k[1] \in schema.tables /\ k[2] \subseteq schema.tables
      BY <1>1, Zenon DEF SchemaFits
    <3>7. \A k \in {<<s.name, s.needs \ {s.name}>>} : k[1] \in schema.tables /\ k[2] \subseteq schema.tables
      BY <3>2, <3>3
    <3> QED
      BY <3>5, <3>6, <3>7, Zenon DEF SchemaFits
  <2>4. CASE s.op = "insert"
    <3>1. schema' = schema
      BY <1>9, <2>4 DEF Made
    <3> QED
      BY <1>1, <3>1, Zenon
  <2> QED
    BY <1>11, <2>1, <2>2, <2>3, <2>4
<1>13. /\ schema'.types = {x \in TypeNames : MadeAt(x) <= n + 1}
       /\ schema'.tables = {x \in TableNames : MadeAt(x) <= n + 1}
  <2>1. /\ \A x \in TypeNames : MadeAt(x) \in Nat /\ (MadeAt(x) = n + 1 => s.op = "type" /\ s.name = x)
        /\ \A x \in TableNames : MadeAt(x) \in Nat /\ (MadeAt(x) = n + 1 => s.op = "table" /\ s.name = x)
    <3>1. \A x \in TypeNames : MadeAt(x) \in Nat
      BY MadeEarly
    <3>2. \A x \in TableNames : MadeAt(x) \in Nat
      BY MadeEarly
    <3>3. ASSUME NEW x \in TypeNames, MadeAt(x) = n + 1 PROVE s.op = "type" /\ s.name = x
      <4>1. s = Type(x)
        BY <3>3, AllMade, Zenon DEF s
      <4> QED
        BY <4>1 DEF Type
    <3>4. ASSUME NEW x \in TableNames, MadeAt(x) = n + 1 PROVE s.op = "table" /\ s.name = x
      <4>1. PICK S : s = Table(x, S)
        BY <3>4, AllMade, Zenon DEF s
      <4> QED
        BY <4>1 DEF Table
    <3> QED
      BY <3>1, <3>2, <3>3, <3>4, Zenon
  <2>2. \A x \in SchemaNames : MadeAt(x) <= n + 1 <=> MadeAt(x) <= n \/ MadeAt(x) = n + 1
    <3>1. \A x \in SchemaNames : MadeAt(x) \in Nat
      BY <2>1, Zenon DEF SchemaNames
    <3> QED
      BY <1>5, <3>1
  <2>3. schema \in [types : SUBSET TypeNames, tables : SUBSET TableNames,
                    keys : SUBSET (TableNames \X SUBSET TableNames)]
    BY <1>1, Zenon DEF SchemaFits
  <2>4. /\ schema'.types = schema.types \union IF s.op = "type" THEN {s.name} ELSE {}
        /\ schema'.tables = schema.tables \union IF s.op = "table" THEN {s.name} ELSE {}
    <3>1. CASE s.op = "type"
      BY <1>9, <2>3, <3>1 DEF Made
    <3>2. CASE s.op = "table"
      BY <1>9, <2>3, <3>2 DEF Made
    <3>3. CASE s.op = "key"
      BY <1>9, <2>3, <3>3 DEF Made
    <3>4. CASE s.op = "insert"
      BY <1>9, <2>3, <3>4 DEF Made
    <3> QED
      BY <1>11, <3>1, <3>2, <3>3, <3>4
  <2>5. /\ s.op = "type" => s.name \in TypeNames /\ MadeAt(s.name) = n + 1
        /\ s.op = "table" => s.name \in TableNames /\ MadeAt(s.name) = n + 1
    BY <1>6, Zenon DEF MakesInOrder
  <2>6. schema'.types = {x \in TypeNames : MadeAt(x) <= n + 1}
    <3>1. schema.types = {x \in TypeNames : MadeAt(x) <= n}
      BY <1>7
    <3>2. \A x \in TypeNames : MadeAt(x) <= n + 1 <=> MadeAt(x) <= n \/ MadeAt(x) = n + 1
      BY <2>2 DEF SchemaNames
    <3>3. \A x \in TypeNames : MadeAt(x) = n + 1 => s.op = "type" /\ s.name = x
      BY <2>1, Zenon
    <3> QED
      BY <2>4, <2>5, <3>1, <3>2, <3>3, SMT
  <2>7. schema'.tables = {x \in TableNames : MadeAt(x) <= n + 1}
    <3>1. schema.tables = {x \in TableNames : MadeAt(x) <= n}
      BY <1>7
    <3>2. \A x \in TableNames : MadeAt(x) <= n + 1 <=> MadeAt(x) <= n \/ MadeAt(x) = n + 1
      BY <2>2 DEF SchemaNames
    <3>3. \A x \in TableNames : MadeAt(x) = n + 1 => s.op = "table" /\ s.name = x
      BY <2>1, Zenon
    <3> QED
      BY <2>4, <2>5, <3>1, <3>2, <3>3, SMT
  <2> QED
    BY <2>6, <2>7
<1>14. roleIds' = IF n + 1 < 28 THEN NoRoles ELSE SeededIds
  <2>1. roleIds' = IF n + 1 = 28 THEN SeededIds ELSE roleIds
    <3>1. (s.op = "insert" /\ s.name = "sys_role") <=> n + 1 = 28
      BY <1>6, Zenon DEF MakesInOrder
    <3>2. s.op # "drop"
      BY <1>11
    <3> QED
      BY <1>9, <3>1, <3>2, Zenon DEF RolesAfter, SeededIds
  <2>2. roleIds = IF n < 28 THEN NoRoles ELSE SeededIds
    BY <1>2, Zenon DEF MadeUpTo
  <2> QED
    BY <1>5, <2>1, <2>2
<1>15. admin' = IF n + 1 < 30 THEN {} ELSE {RootRoleId}
  <2>1. admin' = IF n + 1 = 30 THEN {roleIds["admin"]} ELSE admin
    <3>1. (s.op = "insert" /\ s.name = "sys_user_roles") <=> n + 1 = 30
      BY <1>6, Zenon DEF MakesInOrder
    <3>2. s.op # "drop"
      BY <1>11
    <3> QED
      BY <1>9, <3>1, <3>2, Zenon DEF AdminAfter
  <2>2. /\ roleIds = IF n < 28 THEN NoRoles ELSE SeededIds
        /\ admin = IF n < 30 THEN {} ELSE {RootRoleId}
    BY <1>2, Zenon DEF MadeUpTo
  <2>3. n + 1 = 30 => roleIds["admin"] = RootRoleId
    BY <1>5, <2>2, SeededRolesHaveIds
  <2> QED
    BY <1>5, <2>1, <2>2, <2>3
<1>16. MadeUpTo(step.done)'
  BY <1>10, <1>13, <1>14, <1>15, Zenon DEF MadeUpTo
<1>17. applied' \in BOOLEAN /\ refused' = FALSE
  BY <1>1, <1>9, Zenon
<1>18. AtRest(applied', saved'[1], saved'[2], saved'[3]) /\ (applied' <=> step'.run = "down")
  BY <1>2, <1>9, <1>10, Zenon
<1> QED
  BY <1>10, <1>12, <1>16, <1>17, <1>18, "up" # "none", "up" # "down", Zenon DEF SchemaInv

(* A statement of down is never refused: no type is dropped before the users. *)
LEMMA DownStatement ==
    ASSUME SchemaInv, Statement, step.run = "down"
    PROVE  SchemaInv'
<1> DEFINE n == step.done
           s == Down[n + 1]
<1>1. /\ step \in [run : {"none", "up", "down"}, done : 0..30] /\ SchemaFits(schema)
      /\ applied \in BOOLEAN /\ refused = FALSE
  BY DEF SchemaInv
<1>2. /\ AtRest(applied, saved[1], saved[2], saved[3]) /\ (applied <=> step.run = "down")
      /\ DroppedUpTo(n)
  BY "down" # "none" DEF SchemaInv
<1>3. Statements = Down /\ Len(Down) = 18
  BY DownParts DEF Statements
<1>4. /\ step.done < Len(Down)
      /\ IF Allowed(s)
         THEN /\ schema' = Made(s) /\ roleIds' = RolesAfter(s) /\ admin' = AdminAfter(s)
              /\ step' = [step EXCEPT !.done = @ + 1]
              /\ UNCHANGED refused
         ELSE Undo /\ refused' = TRUE
      /\ UNCHANGED <<saved, applied>>
  BY <1>3, Zenon DEF Statement
<1>5. n \in 0..17 /\ n + 1 \in 1..18
  BY <1>1, <1>3, <1>4
<1>6. DropsInOrder(n + 1, s)
  BY <1>5, DownInOrder, Zenon
<1>7. /\ s.op = "drop" /\ s.needs = {} /\ s.name \in IF n + 1 <= 13 THEN TableNames ELSE TypeNames
      /\ (n + 1 = 12 <=> s.name = "sys_role") /\ (n + 1 = 13 <=> s.name = "users")
  BY <1>6, Zenon DEF DropsInOrder
<1>8. /\ \A i \in 1..n : Down[i].name \notin Names
      /\ n >= 12 => roleIds = NoRoles
      /\ n >= 13 => admin = {}
  BY <1>2, Zenon DEF DroppedUpTo
<1> HIDE DEF s, n
<1>9. schema \in [types : SUBSET TypeNames, tables : SUBSET TableNames,
                  keys : SUBSET (TableNames \X SUBSET TableNames)]
  BY <1>1, Zenon DEF SchemaFits
<1>10. Allowed(s)
  <2>1. s.name \in schema.types => "users" \notin schema.tables
    <3> SUFFICES ASSUME s.name \in schema.types PROVE "users" \notin schema.tables
      OBVIOUS
    <3>1. s.name \notin TableNames
      BY <1>9, TypesAreNotTables
    <3>2. ~(n + 1 <= 13)
      BY <1>7, <3>1, Zenon
    <3>3. 13 \in 1..n /\ 13 \in 1..18
      BY <1>5, <3>2
    <3>4. Down[13].name = "users"
      BY TablesDropped DEF Drop
    <3> QED
      BY <1>8, <3>3, <3>4, Zenon DEF Names
  <2>2. s.needs \subseteq Names
    BY <1>7
  <2> QED
    BY <1>7, <2>1, <2>2 DEF Allowed
<1>11. /\ schema' = Made(s) /\ roleIds' = RolesAfter(s) /\ admin' = AdminAfter(s)
       /\ step' = [step EXCEPT !.done = @ + 1] /\ refused' = refused /\ saved' = saved /\ applied' = applied
  BY <1>4, <1>10, Zenon
<1>12. /\ step'.run = "down" /\ step'.done = n + 1 /\ step'.done <= 18
       /\ step' \in [run : {"none", "up", "down"}, done : 0..30]
  BY <1>1, <1>5, <1>11 DEF n
<1>13. schema' = [types |-> schema.types \ {s.name}, tables |-> schema.tables \ {s.name},
                  keys |-> {k \in schema.keys : s.name # k[1] /\ s.name \notin k[2]}]
  BY <1>7, <1>11 DEF Made
<1>14. /\ schema'.types = schema.types \ {s.name} /\ schema'.tables = schema.tables \ {s.name}
       /\ schema'.keys = {k \in schema.keys : s.name # k[1] /\ s.name \notin k[2]}
  BY <1>13
<1>15. SchemaFits(schema')
  <2>1. schema' \in [types : SUBSET TypeNames, tables : SUBSET TableNames,
                     keys : SUBSET (TableNames \X SUBSET TableNames)]
    <3>1. /\ schema.types \ {s.name} \in SUBSET TypeNames /\ schema.tables \ {s.name} \in SUBSET TableNames
          /\ {k \in schema.keys : s.name # k[1] /\ s.name \notin k[2]} \in SUBSET (TableNames \X SUBSET TableNames)
      BY <1>9
    <3> QED
      BY <1>13, <3>1
  <2>2. \A k \in schema.keys : k[1] \in schema.tables /\ k[2] \subseteq schema.tables
    BY <1>1, Zenon DEF SchemaFits
  <2>3. \A k \in schema'.keys : k[1] \in schema'.tables /\ k[2] \subseteq schema'.tables
    BY <1>14, <2>2
  <2> QED
    BY <2>1, <2>3, Zenon DEF SchemaFits
<1>16. DroppedUpTo(step.done)'
  <2>1. Names' = Names \ {s.name}
    BY <1>14 DEF Names
  <2>2. \A i \in 1..n + 1 : Down[i].name \notin Names'
    <3>1. \A i \in 1..n + 1 : i \in 1..n \/ i = n + 1
      BY <1>5
    <3> QED
      BY <1>8, <2>1, <3>1 DEF s
  <2>3. n + 1 >= 12 => roleIds' = NoRoles
    <3>1. roleIds' = IF s.name = "sys_role" THEN NoRoles ELSE roleIds
      BY <1>7, <1>11 DEF RolesAfter
    <3>2. n + 1 >= 12 => n + 1 = 12 \/ n >= 12
      BY <1>5
    <3> QED
      BY <1>7, <1>8, <3>1, <3>2, Zenon
  <2>4. n + 1 >= 13 => admin' = {}
    <3>1. s.name = "users" => admin' = {}
      BY <1>7, <1>11 DEF AdminAfter
    <3>2. admin' = {} \/ admin' = admin
      BY <1>7, <1>11 DEF AdminAfter
    <3>3. n + 1 >= 13 => n + 1 = 13 \/ n >= 13
      BY <1>5
    <3> QED
      BY <1>7, <1>8, <3>1, <3>2, <3>3, Zenon
  <2> QED
    BY <1>12, <2>2, <2>3, <2>4, Zenon DEF DroppedUpTo
<1>17. applied' \in BOOLEAN /\ refused' = FALSE
  BY <1>1, <1>11, Zenon
<1>18. AtRest(applied', saved'[1], saved'[2], saved'[3]) /\ (applied' <=> step'.run = "down")
  <2>1. step.run = "down"
    OBVIOUS
  <2> QED
    BY <1>2, <1>11, <1>12, <2>1, Zenon
<1> QED
  BY <1>12, <1>15, <1>16, <1>17, <1>18, "down" # "none", "up" # "down", Zenon DEF SchemaInv

LEMMA CommitKeeps ==
    ASSUME SchemaInv, Commit
    PROVE  SchemaInv'
<1>1. /\ step.run # "none" /\ step.done = Len(Statements)
      /\ applied' = (step.run = "up") /\ step' = [run |-> "none", done |-> 0]
      /\ schema' = schema /\ roleIds' = roleIds /\ admin' = admin /\ refused' = refused
  BY DEF Commit, Resting, data
<1>2. /\ step \in [run : {"none", "up", "down"}, done : 0..30] /\ SchemaFits(schema) /\ refused = FALSE
  BY DEF SchemaInv
<1>3. step' \in [run : {"none", "up", "down"}, done : 0..30] /\ step'.run = "none" /\ step'.done = 0
  BY <1>1
<1>4. AtRest(applied', schema, roleIds, admin)
  <2>1. CASE step.run = "up"
    <3>1. step.done = 30 /\ MadeUpTo(step.done)
      BY <1>1, <2>1, UpParts DEF Statements, SchemaInv
    <3>2. roleIds = SeededIds /\ admin = {RootRoleId}
      BY <3>1 DEF MadeUpTo
    <3>3. DOMAIN roleIds = {"admin", "user"}
      BY <3>2, SeededRolesHaveIds, Zenon
    <3>4. applied' = TRUE
      BY <1>1, <2>1
    <3> QED
      BY <1>2, <3>2, <3>3, <3>4, Zenon DEF AtRest
  <2>2. CASE step.run = "down"
    <3>1. "up" # "down"
      OBVIOUS
    <3>2. Statements = Down
      BY <2>2, <3>1, Zenon DEF Statements
    <3>3. step.done = 18 /\ DroppedUpTo(step.done)
      BY <1>1, <2>2, <3>2, DownParts, Zenon DEF SchemaInv
    <3>4. roleIds = NoRoles /\ admin = {}
      BY <3>3 DEF DroppedUpTo
    <3>5. \A i \in 1..18 : Down[i].name \notin Names
      BY <3>3, Zenon DEF DroppedUpTo
    <3>6. \A x \in SchemaNames : x \notin Names
      BY <3>5, DownInOrder, Zenon
    <3>7. /\ schema \in [types : SUBSET TypeNames, tables : SUBSET TableNames,
                         keys : SUBSET (TableNames \X SUBSET TableNames)]
          /\ \A k \in schema.keys : k[1] \in schema.tables
      BY <1>2, Zenon DEF SchemaFits
    <3>8. schema.types = {} /\ schema.tables = {}
      BY <3>6, <3>7 DEF Names, SchemaNames
    <3>9. schema.keys = {}
      BY <3>7, <3>8
    <3>10. schema = [types |-> {}, tables |-> {}, keys |-> {}]
      BY <3>7, <3>8, <3>9
    <3>11. applied' = FALSE
      BY <1>1, <2>2
    <3> QED
      BY <3>4, <3>10, <3>11, Zenon DEF AtRest, Nothing
  <2> QED
    BY <1>1, <1>2, <2>1, <2>2
<1>5. applied' \in BOOLEAN
  BY <1>1
<1>6. AtRest(applied', schema', roleIds', admin') /\ SchemaFits(schema') /\ refused' = FALSE
  BY <1>1, <1>2, <1>4, Zenon
<1> QED
  BY <1>3, <1>5, <1>6, "none" # "up", "none" # "down", Zenon DEF SchemaInv

LEMMA SchemaInvNext == SchemaInv /\ [SchemaNext]_schemaVars => SchemaInv'
<1> SUFFICES ASSUME SchemaInv, [SchemaNext]_schemaVars PROVE SchemaInv'
  OBVIOUS
<1>1. CASE Migrate("up")
  BY <1>1, MigrateKeeps
<1>2. CASE Migrate("down")
  BY <1>2, MigrateKeeps
<1>3. CASE Statement
  <2>1. step.run = "up" \/ step.run = "down"
    BY <1>3 DEF Statement, SchemaInv
  <2> QED
    BY <1>3, <2>1, UpStatement, DownStatement, Zenon
<1>4. CASE Commit
  BY <1>4, CommitKeeps
<1>5. CASE RollBack
  BY <1>5, UndoKeeps, Zenon DEF RollBack
<1>6. CASE UNCHANGED schemaVars
  <2>1. /\ step' = step /\ schema' = schema /\ roleIds' = roleIds /\ admin' = admin
        /\ saved' = saved /\ applied' = applied /\ refused' = refused
    BY <1>6 DEF schemaVars
  <2> QED
    BY <2>1, Zenon DEF SchemaInv, MadeUpTo, DroppedUpTo, Names
<1> QED
  BY <1>1, <1>2, <1>3, <1>4, <1>5, <1>6, Zenon DEF SchemaNext

LEMMA SchemaInvariant == SchemaSpec => []SchemaInv
BY SchemaInvInit, SchemaInvNext, PTL DEF SchemaSpec

(* The types of the migration's state. *)
LEMMA SchemaTyped == SchemaSpec => []SchemaTypeOK
<1>1. SchemaInv => SchemaTypeOK
  <2> SUFFICES ASSUME SchemaInv PROVE SchemaTypeOK
    OBVIOUS
  <2>1. /\ step \in [run : {"none", "up", "down"}, done : 0..30] /\ SchemaFits(schema)
        /\ applied \in BOOLEAN /\ refused = FALSE
        /\ (step.run = "none" => step.done = 0) /\ (step.run = "down" => step.done <= 18)
    BY DEF SchemaInv
  <2>2. step.done \in 0..Len(Statements)
    <3>1. CASE step.run = "up"
      BY <2>1, <3>1, UpParts DEF Statements
    <3>2. CASE step.run # "up"
      <4>1. Statements = Down
        BY <3>2, Zenon DEF Statements
      <4>2. step.done <= 18 /\ step.done \in 0..30
        BY <2>1, <3>2
      <4> QED
        BY <4>1, <4>2, DownParts
    <3> QED
      BY <3>1, <3>2
  <2>3. step.run \in {"none", "up", "down"} /\ refused \in BOOLEAN
    BY <2>1
  <2>4. \A k \in schema.keys : k[1] \in schema.tables /\ k[2] \subseteq schema.tables
    BY <2>1, Zenon DEF SchemaFits
  <2> QED
    BY <2>1, <2>2, <2>3, <2>4, Zenon DEF SchemaTypeOK
<1> QED
  BY <1>1, SchemaInvariant, PTL

(* No statement of the migration is ever refused, whatever was rolled back   *)
(* before; undone it leaves nothing, and applied, the seeded user has the    *)
(* role whose id the code takes for the root's.                              *)
THEOREM MigrationStaysUsable == SchemaSpec => []MigrationUsable
<1>1. SchemaInv => MigrationUsable
  <2> SUFFICES ASSUME SchemaInv PROVE MigrationUsable
    OBVIOUS
  <2>1. refused = FALSE /\ applied \in BOOLEAN /\ (step.run = "none" => AtRest(applied, schema, roleIds, admin))
    BY Zenon DEF SchemaInv
  <2>2. step = Resting => step.run = "none"
    BY DEF Resting
  <2> QED
    BY <2>1, <2>2, Zenon DEF MigrationUsable, AtRest, data
<1> QED
  BY <1>1, SchemaInvariant, PTL

-----------------------------------------------------------------------------
(* The types of each part.                                                   *)

(* The types of the sockets. *)
LEMMA GatewayTyped == GatewaySpec => []GatewayTypeOK
<1>1. GatewayInv => GatewayTypeOK
  BY DEF GatewayInv, SocketsOK, GatewayTypeOK
<1> QED
  BY <1>1, GatewayInvInit, GatewayStep, PTL DEF GatewaySpec

(* The types of the requests for a code, which bound the times by MaxNow.    *)
LEMMA CodeTypeInit == CodeInit => CodeTypeOK
<1> SUFFICES ASSUME CodeInit PROVE CodeTypeOK
  OBVIOUS
<1>0. PICK dead \in BOOLEAN : dead = FALSE
  OBVIOUS
<1>1. /\ now = 0 /\ limit = [k \in Keys |-> 0] /\ emailed = <<>> /\ missed = {}
      /\ hits = [i \in Ips |-> [n |-> 0, until |-> 0]]
      /\ sending = [c \in Requests |-> [pc |-> "idle", to |-> Nobody, ip |-> Nobody, from |-> 0, dead |-> dead]]
  BY <1>0 DEF CodeInit
<1>2. 0 \in 0..MaxNow /\ 0 \in 0..MaxNow + Window /\ 0 \in 0..MaxNow + LimitTTL /\ 0 \in 0..Throttle + 1
  BY CodeAssumption
<1>3. hits \in [Ips -> [n : 0..Throttle + 1, until : 0..MaxNow + Window]]
  BY <1>1, <1>2
<1>4. sending \in [Requests -> [pc : {"idle", "refused", "ip", "to", "send", "code", "limitIp", "limitTo",
                                      "limited", "failed", "sent"},
                                to : Addresses \union {Nobody}, ip : Ips \union {Nobody},
                                from : 0..MaxNow, dead : BOOLEAN]]
  BY <1>1, <1>2
<1>5. emailed \in Seq([by : Requests, at : 0..MaxNow])
  BY <1>1
<1>6. now \in 0..MaxNow /\ limit \in [Keys -> 0..MaxNow + LimitTTL] /\ missed \subseteq Requests \X Requests \X Keys
  BY <1>1, <1>2
<1> QED
  BY <1>3, <1>4, <1>5, <1>6, Zenon DEF CodeTypeOK

\* What CodeTypeOK says of a request.
Timed == [pc : {"idle", "refused", "ip", "to", "send", "code", "limitIp", "limitTo", "limited", "failed", "sent"},
          to : Addresses \union {Nobody}, ip : Ips \union {Nobody}, from : 0..MaxNow, dead : BOOLEAN]

LEMMA GotoTimed ==
    ASSUME sending \in [Requests -> Timed], NEW c \in Requests, NEW pc \in CodePcs, Goto(c, pc)
    PROVE  sending' \in [Requests -> Timed]
<1>1. PICK r \in Timed : r = [sending[c] EXCEPT !.pc = pc]
  BY DEF Timed, CodePcs
<1>2. sending' = [sending EXCEPT ![c] = r]
  BY <1>1 DEF Goto
<1> QED
  BY <1>2

LEMMA CodeTypeStep == CodeTypeOK /\ CodeInv /\ [CodeNext]_codeVars => CodeTypeOK'
<1> SUFFICES ASSUME CodeTypeOK, CodeInv, [CodeNext]_codeVars PROVE CodeTypeOK'
  OBVIOUS
<1>t. /\ now \in 0..MaxNow /\ hits \in [Ips -> [n : 0..Throttle + 1, until : 0..MaxNow + Window]]
      /\ limit \in [Keys -> 0..MaxNow + LimitTTL] /\ sending \in [Requests -> Timed]
      /\ emailed \in Seq([by : Requests, at : 0..MaxNow]) /\ missed \subseteq Requests \X Requests \X Keys
  BY Zenon DEF CodeTypeOK, Timed
<1>g. \A c \in Requests : sending[c].pc # "idle" => sending[c].to \in Addresses /\ sending[c].ip \in Ips
  BY Zenon DEF CodeInv, CodeTypes
<1>k. \A c \in Requests : sending[c].pc # "idle" => sending[c].to \in Keys /\ sending[c].ip \in Keys
  BY <1>g DEF Keys
<1>s. ASSUME now' \in 0..MaxNow, hits' \in [Ips -> [n : 0..Throttle + 1, until : 0..MaxNow + Window]],
             limit' \in [Keys -> 0..MaxNow + LimitTTL], sending' \in [Requests -> Timed],
             emailed' \in Seq([by : Requests, at : 0..MaxNow]), missed' \subseteq Requests \X Requests \X Keys
      PROVE  CodeTypeOK'
  BY <1>s, Zenon DEF CodeTypeOK, Timed
<1>1. ASSUME NEW c \in Requests, NEW a \in Addresses, NEW i \in Ips, Post(c, a, i) PROVE CodeTypeOK'
  <2>1. PICK n, until : n = Counted(i).n /\ until = Counted(i).until
    OBVIOUS
  <2>2. PICK old, sum :
          /\ old = IF now >= hits[i].until THEN 0 ELSE hits[i].n
          /\ sum = old + Cardinality(Guards)
    OBVIOUS
  <2>3. hits[i].n \in Nat /\ hits[i].until \in 0..MaxNow + Window /\ MaxNow \in Nat /\ Window \in Nat /\ Throttle \in Nat
    BY <1>t, CodeAssumption
  <2>4. old \in Nat /\ sum \in Nat
    BY <2>2, <2>3, GuardsCount
  <2>5. Counted(i) = [n |-> IF sum > Throttle THEN Throttle + 1 ELSE sum,
                      until |-> IF old = 0 \/ (sum > Throttle /\ old <= Throttle)
                                THEN now + Window ELSE hits[i].until]
    BY <2>2 DEF Counted
  <2>6. /\ n = IF sum > Throttle THEN Throttle + 1 ELSE sum
        /\ until = IF old = 0 \/ (sum > Throttle /\ old <= Throttle) THEN now + Window ELSE hits[i].until
    BY <2>1, <2>5
  <2>7. n \in 0..Throttle + 1
    BY <2>3, <2>4, <2>6
  <2>8. until \in 0..MaxNow + Window
    BY <1>t, <2>3, <2>6
  <2>9. Counted(i) \in [n : 0..Throttle + 1, until : 0..MaxNow + Window]
    <3>1. Counted(i) = [n |-> n, until |-> until]
      BY <2>5, <2>6, Zenon
    <3> QED
      BY <2>7, <2>8, <3>1
  <2>10. hits' \in [Ips -> [n : 0..Throttle + 1, until : 0..MaxNow + Window]]
    BY <1>1, <1>t, <2>9 DEF Post
  <2>11. PICK pc \in {"refused", "ip"}, dead \in BOOLEAN :
           pc = (IF Counted(i).n > Throttle THEN "refused" ELSE "ip") /\ dead = FALSE
    OBVIOUS
  <2>12. PICK r : r = [pc |-> pc, to |-> a, ip |-> i, from |-> now, dead |-> dead]
    OBVIOUS
  <2>13. r \in Timed
    BY <1>t, <2>11, <2>12 DEF Timed
  <2>14. sending' = [sending EXCEPT ![c] = r]
    BY <1>1, <2>11, <2>12 DEF Post
  <2>15. sending' \in [Requests -> Timed]
    BY <1>t, <2>13, <2>14
  <2>16. now' = now /\ limit' = limit /\ emailed' = emailed /\ missed' = missed
    BY <1>1 DEF Post
  <2> QED
    BY <1>s, <1>t, <2>10, <2>15, <2>16, Zenon
<1>2. ASSUME NEW c \in Requests, NEW k \in Keys, NEW pc \in CodePcs, Check(c, k, pc) PROVE CodeTypeOK'
  <2>1. sending' \in [Requests -> Timed]
    <3>1. Goto(c, IF Limited(k) THEN "limited" ELSE pc)
      BY <1>2, Zenon DEF Check
    <3>2. (IF Limited(k) THEN "limited" ELSE pc) \in CodePcs
      BY DEF CodePcs
    <3> QED
      BY <1>t, <3>1, <3>2, GotoTimed, Zenon
  <2>2. missed' \subseteq Requests \X Requests \X Keys
    <3>1. Unseen(k) \subseteq Requests
      BY DEF Unseen
    <3>2. {<<c, d, k>> : d \in Unseen(k) \ {c}} \subseteq Requests \X Requests \X Keys
      BY <3>1
    <3>3. missed' = missed \/ missed' = missed \union {<<c, d, k>> : d \in Unseen(k) \ {c}}
      BY <1>2, Zenon DEF Check
    <3> QED
      BY <1>t, <3>2, <3>3, Zenon
  <2>3. now' = now /\ hits' = hits /\ limit' = limit /\ emailed' = emailed
    BY <1>2 DEF Check
  <2> QED
    BY <1>s, <1>t, <2>1, <2>2, <2>3, Zenon
<1>3. ASSUME NEW c \in Requests, CheckIp(c) \/ CheckTo(c) PROVE CodeTypeOK'
  <2>1. sending[c].pc # "idle"
    BY <1>3 DEF CheckIp, CheckTo, At
  <2>2. "to" \in CodePcs /\ "send" \in CodePcs
    BY DEF CodePcs
  <2> QED
    BY <1>2, <1>3, <1>k, <2>1, <2>2, Zenon DEF CheckIp, CheckTo
<1>4. ASSUME NEW c \in Requests, SendCode(c) PROVE CodeTypeOK'
  <2>1. sending' \in [Requests -> Timed]
    <3>1. "code" \in CodePcs /\ "failed" \in CodePcs
      BY DEF CodePcs
    <3> QED
      BY <1>4, <1>t, <3>1, GotoTimed, Zenon DEF SendCode
  <2>2. emailed' = emailed \/ emailed' = Append(emailed, [by |-> c, at |-> now])
    BY <1>4 DEF SendCode
  <2>3. emailed' \in Seq([by : Requests, at : 0..MaxNow])
    <3>1. PICK S, e : S = [by : Requests, at : 0..MaxNow] /\ e = [by |-> c, at |-> now]
      OBVIOUS
    <3>2. e \in S
      BY <1>t, <3>1
    <3>3. emailed \in Seq(S) /\ (emailed' = emailed \/ emailed' = Append(emailed, e))
      BY <1>t, <2>2, <3>1, Zenon
    <3>4. emailed' \in Seq(S)
      BY <3>2, <3>3
    <3> QED
      BY <3>1, <3>4, Zenon
  <2>4. now' = now /\ hits' = hits /\ limit' = limit /\ missed' = missed
    BY <1>4 DEF SendCode
  <2> QED
    BY <1>s, <1>t, <2>1, <2>3, <2>4, Zenon
<1>5. ASSUME NEW c \in Requests, LogCode(c) PROVE CodeTypeOK'
  <2>1. Goto(c, "limitIp") /\ "limitIp" \in CodePcs
    BY <1>5 DEF LogCode, CodePcs
  <2>2. now' = now /\ hits' = hits /\ limit' = limit /\ emailed' = emailed /\ missed' = missed
    BY <1>5 DEF LogCode
  <2>3. sending' \in [Requests -> Timed]
    BY <1>t, <2>1, GotoTimed, Zenon
  <2> QED
    BY <1>s, <1>t, <2>2, <2>3, Zenon
<1>6. ASSUME NEW c \in Requests, NEW k \in Keys, NEW pc \in CodePcs, LimitKey(c, k, pc) PROVE CodeTypeOK'
  <2>1. limit' \in [Keys -> 0..MaxNow + LimitTTL]
    <3>1. limit' = [limit EXCEPT ![k] = now + LimitTTL]
      BY <1>6 DEF LimitKey
    <3>2. now + LimitTTL \in 0..MaxNow + LimitTTL
      BY <1>t, CodeAssumption
    <3> QED
      BY <1>t, <3>1, <3>2
  <2>2. sending' \in [Requests -> Timed]
    BY <1>6, <1>t, GotoTimed, Zenon DEF LimitKey
  <2>3. now' = now /\ hits' = hits /\ emailed' = emailed /\ missed' = missed
    BY <1>6 DEF LimitKey
  <2> QED
    BY <1>s, <1>t, <2>1, <2>2, <2>3, Zenon
<1>7. ASSUME NEW c \in Requests, LimitIp(c) \/ LimitTo(c) PROVE CodeTypeOK'
  <2>1. sending[c].pc # "idle"
    BY <1>7 DEF LimitIp, LimitTo, At
  <2>2. "limitTo" \in CodePcs /\ "sent" \in CodePcs
    BY DEF CodePcs
  <2> QED
    BY <1>6, <1>7, <1>k, <2>1, <2>2, Zenon DEF LimitIp, LimitTo
<1>8. ASSUME NEW c \in Requests, Die(c) PROVE CodeTypeOK'
  <2>1. PICK r \in Timed : r = [sending[c] EXCEPT !.dead = TRUE]
    BY <1>t DEF Timed
  <2>2. sending' = [sending EXCEPT ![c] = r]
    BY <1>8, <2>1 DEF Die
  <2>3. sending' \in [Requests -> Timed]
    BY <1>t, <2>2
  <2>4. now' = now /\ hits' = hits /\ limit' = limit /\ emailed' = emailed /\ missed' = missed
    BY <1>8 DEF Die
  <2> QED
    BY <1>s, <1>t, <2>3, <2>4, Zenon
<1>9. CASE Pass
  <2>1. hits' = hits /\ limit' = limit /\ sending' = sending /\ emailed' = emailed /\ missed' = missed
    BY <1>9 DEF Pass
  <2>2. now' \in 0..MaxNow
    BY <1>9, <1>t, CodeAssumption DEF Pass
  <2> QED
    BY <1>s, <1>t, <2>1, <2>2, Zenon
<1>10. CASE UNCHANGED codeVars
  <2>1. /\ now' = now /\ hits' = hits /\ limit' = limit /\ sending' = sending
        /\ emailed' = emailed /\ missed' = missed
    BY <1>10 DEF codeVars
  <2> QED
    BY <1>s, <1>t, <2>1, Zenon
<1> QED
  BY <1>1, <1>3, <1>4, <1>5, <1>7, <1>8, <1>9, <1>10, Zenon DEF CodeNext

LEMMA CodeTyped == CodeSpec => []CodeTypeOK
BY CodeTypeInit, CodeTypeStep, CodeInvInit, CodeStep, PTL DEF CodeSpec

(* The types of a list, which keep its numbers within their bounds.          *)
LEMMA ListTypeInit == ListInit => ListTypeOK
<1> SUFFICES ASSUME ListInit PROVE ListTypeOK
  OBVIOUS
<1>1. kind \in Kinds /\ lastId \in 0..MaxRows /\ table = 1..lastId
  BY DEF ListInit
<1>2. query \in [pc : {"idle", "reading", "counting", "answered"}, page : 0..MaxPages,
                 limit : 0..MaxLimit, items : SUBSET (1..lastId), total : {Missing} \union 0..MaxRows]
  BY ListAssumption DEF ListInit, NoQuery
<1>3. walk \in [pages : 0..MaxPages, limit : 0..MaxLimit, start : SUBSET (1..lastId),
                seen : SUBSET (1..lastId), removed : BOOLEAN]
  BY ListAssumption DEF ListInit, NoWalk
<1> QED
  BY <1>1, <1>2, <1>3 DEF ListTypeOK

QueriesUpTo(n) == [pc : {"idle", "reading", "counting", "answered"}, page : 0..MaxPages,
                   limit : 0..MaxLimit, items : SUBSET (1..n), total : {Missing} \union 0..MaxRows]
WalksUpTo(n) == [pages : 0..MaxPages, limit : 0..MaxLimit, start : SUBSET (1..n),
                 seen : SUBSET (1..n), removed : BOOLEAN]

LEMMA ListTypeStep == ListTypeOK /\ [ListNext]_listVars => ListTypeOK'
<1> SUFFICES ASSUME ListTypeOK, [ListNext]_listVars PROVE ListTypeOK'
  OBVIOUS
<1>t. /\ kind \in Kinds /\ lastId \in 0..MaxRows /\ table \subseteq 1..lastId
      /\ query \in QueriesUpTo(lastId) /\ walk \in WalksUpTo(lastId)
  BY Zenon DEF ListTypeOK, QueriesUpTo, WalksUpTo
<1>s. ASSUME kind' \in Kinds, lastId' \in 0..MaxRows, table' \subseteq 1..lastId',
             query' \in QueriesUpTo(lastId'), walk' \in WalksUpTo(lastId')
      PROVE  ListTypeOK'
  BY <1>s, Zenon DEF ListTypeOK, QueriesUpTo, WalksUpTo
<1>n. MaxPages \in Nat \ {0} /\ MaxLimit \in Nat /\ MaxRows \in Nat
  BY ListAssumption
<1>1. ASSUME NEW page \in {Missing} \union 0..MaxPages, NEW size \in {Missing} \union 0..MaxLimit + 1,
             AskPage(page, size)
      PROVE  ListTypeOK'
  <2>1. PICK p, limited : p = PageOf(page) /\ limited = LimitOf(size)
    OBVIOUS
  <2>2. p \in 1..MaxPages /\ limited \in 1..MaxLimit
    <3>1. p >= 1 /\ limited \in 1..MaxLimit
      BY <1>1, <2>1 DEF AskPage, Valid
    <3>2. p = 1 \/ p \in 0..MaxPages
      BY <2>1 DEF PageOf
    <3> QED
      BY <1>n, <3>1, <3>2
  <2>3. /\ query' = [NoQuery EXCEPT !.pc = "reading", !.page = p, !.limit = limited]
        /\ walk' = IF p = 1 THEN [NoWalk EXCEPT !.pages = 1, !.limit = limited, !.start = table]
                   ELSE IF p = walk.pages + 1 /\ limited = walk.limit THEN [walk EXCEPT !.pages = p]
                   ELSE NoWalk
        /\ kind' = kind /\ table' = table /\ lastId' = lastId
    BY <1>1, <2>1 DEF AskPage
  <2>4. query' \in QueriesUpTo(lastId)
    <3>1. NoQuery \in QueriesUpTo(lastId)
      BY <1>n DEF NoQuery, QueriesUpTo
    <3>2. p \in 0..MaxPages /\ limited \in 0..MaxLimit
      BY <2>2
    <3> QED
      BY <2>3, <3>1, <3>2 DEF QueriesUpTo
  <2>5. walk' \in WalksUpTo(lastId)
    <3>1. CASE p = 1
      <4>1. NoWalk \in WalksUpTo(lastId)
        BY <1>n DEF NoWalk, WalksUpTo
      <4>2. 1 \in 0..MaxPages /\ limited \in 0..MaxLimit /\ table \in SUBSET (1..lastId)
        BY <1>n, <1>t, <2>2
      <4>3. walk' = [NoWalk EXCEPT !.pages = 1, !.limit = limited, !.start = table]
        BY <2>3, <3>1
      <4> QED
        BY <4>1, <4>2, <4>3 DEF WalksUpTo
    <3>2. CASE p # 1 /\ p = walk.pages + 1 /\ limited = walk.limit
      BY <1>t, <2>2, <2>3, <3>2 DEF WalksUpTo
    <3>3. CASE p # 1 /\ ~(p = walk.pages + 1 /\ limited = walk.limit)
      BY <1>n, <2>3, <3>3 DEF NoWalk, WalksUpTo
    <3> QED
      BY <3>1, <3>2, <3>3
  <2> QED
    BY <1>s, <1>t, <2>3, <2>4, <2>5, Zenon
<1>2. CASE ReadItems
  <2>1. PICK items, pc : /\ items = Page(query.page, query.limit)
                         /\ pc = IF query.total = Missing THEN "counting" ELSE "answered"
    OBVIOUS
  <2>2. items \in SUBSET (1..lastId)
    BY <1>t, <2>1 DEF Page
  <2>3. query' = [query EXCEPT !.items = items, !.pc = pc]
    BY <1>2, <2>1 DEF ReadItems
  <2>4. pc \in {"counting", "answered"}
    BY <2>1
  <2>5. query' \in QueriesUpTo(lastId) /\ query'.items = items
    BY <1>t, <2>2, <2>3, <2>4 DEF QueriesUpTo
  <2>6. walk' = walk \/ walk' = [walk EXCEPT !.seen = @ \union items]
    BY <1>2, <2>5 DEF ReadItems
  <2>7. walk' \in WalksUpTo(lastId)
    BY <1>t, <2>2, <2>6 DEF WalksUpTo
  <2>8. kind' = kind /\ table' = table /\ lastId' = lastId
    BY <1>2 DEF ReadItems
  <2> QED
    BY <1>s, <1>t, <2>5, <2>7, <2>8, Zenon
<1>3. CASE Count
  <2>1. Cardinality(table) \in 0..MaxRows
    <3>1. lastId \in Int /\ 1 \in Int /\ 1 <= lastId + 1 /\ lastId - 1 + 1 \in 0..MaxRows
      BY <1>t, <1>n
    <3>2. IsFiniteSet(1..lastId) /\ Cardinality(1..lastId) = (IF 1 > lastId THEN 0 ELSE lastId - 1 + 1)
      BY <3>1, FS_Interval
    <3>3. Cardinality(1..lastId) <= MaxRows
      BY <1>t, <1>n, <3>2
    <3>4. Cardinality(table) <= Cardinality(1..lastId) /\ IsFiniteSet(table)
      BY <1>t, <3>2, FS_Subset
    <3>5. Cardinality(table) \in Nat /\ Cardinality(1..lastId) \in Nat
      BY <3>2, <3>4, FS_CardinalityType
    <3> QED
      BY <1>n, <3>3, <3>4, <3>5
  <2>2. PICK pc, total : /\ pc = IF query.pc = "counting" THEN "answered" ELSE "reading"
                         /\ total = Cardinality(table)
    OBVIOUS
  <2>3. query' = [query EXCEPT !.total = total, !.pc = pc]
    BY <1>3, <2>2 DEF Count
  <2>4. pc \in {"answered", "reading"} /\ total \in 0..MaxRows
    BY <2>1, <2>2
  <2>5. query' \in QueriesUpTo(lastId)
    BY <1>t, <2>3, <2>4 DEF QueriesUpTo
  <2>6. kind' = kind /\ table' = table /\ lastId' = lastId /\ walk' = walk
    BY <1>3 DEF Count
  <2> QED
    BY <1>s, <1>t, <2>5, <2>6, Zenon
<1>4. CASE AddRow
  <2>1. /\ lastId < MaxRows /\ table' = table \union {lastId + 1} /\ lastId' = lastId + 1
        /\ kind' = kind /\ query' = query /\ walk' = walk
    BY <1>4 DEF AddRow
  <2>2. lastId' \in 0..MaxRows /\ 1..lastId \subseteq 1..lastId' /\ lastId + 1 \in 1..lastId'
    BY <1>t, <1>n, <2>1
  <2>3. table' \subseteq 1..lastId'
    BY <1>t, <2>1, <2>2
  <2>4. query' \in QueriesUpTo(lastId')
    BY <1>t, <2>1, <2>2 DEF QueriesUpTo
  <2>5. walk' \in WalksUpTo(lastId')
    BY <1>t, <2>1, <2>2 DEF WalksUpTo
  <2> QED
    BY <1>s, <1>t, <2>1, <2>2, <2>3, <2>4, <2>5, Zenon
<1>5. ASSUME NEW left \in SUBSET table, Removed(left) PROVE ListTypeOK'
  <2>1. /\ table' = left /\ kind' = kind /\ lastId' = lastId /\ query' = query
        /\ walk' = walk \/ walk' = [walk EXCEPT !.removed = TRUE]
    BY <1>5 DEF Removed
  <2>2. walk' \in WalksUpTo(lastId)
    BY <1>t, <2>1 DEF WalksUpTo
  <2>3. table' \subseteq 1..lastId
    BY <1>t, <2>1
  <2> QED
    BY <1>s, <1>t, <2>1, <2>2, <2>3, Zenon
<1>6. ASSUME ClearLogs \/ \E r \in 1..MaxRows : DeleteTask(r) PROVE ListTypeOK'
  <2>1. {} \in SUBSET table /\ \A r : table \ {r} \in SUBSET table
    OBVIOUS
  <2> QED
    BY <1>5, <1>6, <2>1, Zenon DEF ClearLogs, DeleteTask
<1>7. CASE UNCHANGED listVars
  <2>1. kind' = kind /\ table' = table /\ lastId' = lastId /\ query' = query /\ walk' = walk
    BY <1>7 DEF listVars
  <2> QED
    BY <1>s, <1>t, <2>1, Zenon
<1> QED
  BY <1>1, <1>2, <1>3, <1>4, <1>6, <1>7, Zenon DEF ListNext

LEMMA ListTyped == ListSpec => []ListTypeOK
BY ListTypeInit, ListTypeStep, PTL DEF ListSpec

(* The types of the jobs: a method is called once, and once more after a     *)
(* stall; no row of the log refers to a task that is not there.              *)
CalledOK(r) ==
    /\ r.returned <= r.calls /\ (r.pc = "method" => r.returned < r.calls)
    /\ r.pc \in {"idle", "queued"} => r.calls <= IF r.stalled THEN 1 ELSE 0
    /\ r.calls <= IF r.stalled THEN 2 ELSE 1
    /\ r.pc # "idle" => r.task \in Tasks
LogRowsOK ==
    \A entry \in taskLog : entry.job \in Jobs /\ entry.task \in Tasks /\ serviceOf[entry.task] # NoService
JobsTyped == provided \in [Services -> Provisions] /\ LogRowsOK /\ \A j \in Jobs : CalledOK(job[j])

LEMMA JobsTypedInit == RunInit => JobsTyped
<1> SUFFICES ASSUME RunInit PROVE JobsTyped
  OBVIOUS
<1>1. provided \in [Services -> Provisions] /\ LogRowsOK
  BY DEF RunInit, Provisions, LogRowsOK
<1>2. CalledOK(NoJob)
  BY DEF CalledOK, NoJob
<1> QED
  BY <1>1, <1>2 DEF RunInit, JobsTyped

LEMMA JobsTypedStep == JobsTyped /\ RunInv /\ [RunNext]_runVars => JobsTyped'
<1> SUFFICES ASSUME JobsTyped, RunInv, [RunNext]_runVars PROVE JobsTyped'
  OBVIOUS
<1>t. /\ job \in [Jobs -> JobRecords] /\ serviceOf \in [Tasks -> Services \union {NoService}]
      /\ provided \in [Services -> Provisions] /\ LogRowsOK /\ \A j \in Jobs : CalledOK(job[j])
  BY DEF RunInv, JobsTyped
<1>r. ASSUME taskLog' = taskLog, serviceOf' = serviceOf PROVE LogRowsOK'
  BY <1>r, <1>t DEF LogRowsOK
\* One job changes.
<1>j. ASSUME NEW j \in Jobs, NEW r, job' = [job EXCEPT ![j] = r], CalledOK(r),
             provided' = provided, LogRowsOK'
      PROVE  JobsTyped'
  <2>1. \A i \in Jobs : job'[i] = IF i = j THEN r ELSE job[i]
    BY <1>j, <1>t
  <2>2. \A i \in Jobs : CalledOK(job'[i])
    BY <1>j, <1>t, <2>1, Zenon
  <2>3. \A i \in Jobs : CalledOK(job[i])'
    BY <2>2 DEF CalledOK
  <2> QED
    BY <1>j, <1>t, <2>3, Zenon DEF JobsTyped
<1>k. ASSUME job' = job, provided' \in [Services -> Provisions], LogRowsOK' PROVE JobsTyped'
  <2>1. \A i \in Jobs : CalledOK(job[i])'
    BY <1>k, <1>t DEF CalledOK
  <2> QED
    BY <1>k, <2>1, Zenon DEF JobsTyped
<1>1. ASSUME NEW t \in Tasks, DropTask(t) PROVE JobsTyped'
  <2>1. /\ \A entry \in taskLog : entry.task # t
        /\ serviceOf' = [serviceOf EXCEPT ![t] = NoService] /\ job' = job /\ provided' = provided /\ taskLog' = taskLog
    BY <1>1 DEF DropTask
  <2>2. LogRowsOK'
    BY <1>t, <2>1 DEF LogRowsOK
  <2> QED
    BY <1>k, <1>t, <2>1, <2>2
<1>2. ASSUME NEW t \in Tasks, NEW s \in Services, SaveTask(t, s) PROVE JobsTyped'
  <2>1. serviceOf' = [serviceOf EXCEPT ![t] = s] /\ job' = job /\ provided' = provided /\ taskLog' = taskLog
    BY <1>2 DEF SaveTask
  <2>2. s # NoService
    BY ServicesAssumption
  <2>3. LogRowsOK'
    BY <1>t, <2>1, <2>2 DEF LogRowsOK
  <2> QED
    BY <1>k, <1>t, <2>1, <2>3
<1>3. ASSUME NEW s \in Services, NEW p \in Provisions, Deploy(s, p) PROVE JobsTyped'
  <2>1. /\ provided' = [provided EXCEPT ![s] = p] /\ serviceOf' = serviceOf /\ job' = job /\ taskLog' = taskLog
    BY <1>3 DEF Deploy
  <2>2. provided' \in [Services -> Provisions]
    BY <1>t, <2>1
  <2> QED
    BY <1>k, <1>r, <2>1, <2>2
<1>4. ASSUME NEW j \in Jobs, NEW t \in Tasks, AddJob(j, t) PROVE JobsTyped'
  <2>1. PICK r : r = [NoJob EXCEPT !.pc = "queued", !.task = t, !.service = serviceOf[t]]
    OBVIOUS
  <2>2. job' = [job EXCEPT ![j] = r] /\ provided' = provided /\ serviceOf' = serviceOf /\ taskLog' = taskLog
    BY <1>4, <2>1 DEF AddJob
  <2>3. CalledOK(r)
    BY <2>1 DEF CalledOK, NoJob
  <2> QED
    BY <1>j, <1>r, <2>2, <2>3
<1>5. ASSUME NEW j \in Jobs, CallService(j) PROVE JobsTyped'
  <2>1. PICK r : r = IF IsMission(job[j].service)
                     THEN [job[j] EXCEPT !.pc = "method", !.calls = @ + 1]
                     ELSE [job[j] EXCEPT !.pc = "logFailure"]
    OBVIOUS
  <2>2. /\ job[j].pc = "queued" /\ job' = [job EXCEPT ![j] = r]
        /\ provided' = provided /\ serviceOf' = serviceOf /\ taskLog' = taskLog
    BY <1>5, <1>t, <2>1 DEF CallService, JobRecords
  <2>3. CalledOK(job[j]) /\ job[j] \in JobRecords
    BY <1>t
  <2>4. CalledOK(r)
    <3>1. CASE IsMission(job[j].service)
      <4>1. /\ r.pc = "method" /\ r.calls = job[j].calls + 1 /\ r.returned = job[j].returned
            /\ r.task = job[j].task /\ r.stalled = job[j].stalled
        BY <2>1, <2>3, <3>1 DEF JobRecords
      <4> QED
        BY <2>2, <2>3, <4>1 DEF CalledOK, JobRecords
    <3>2. CASE ~IsMission(job[j].service)
      <4>1. /\ r.pc = "logFailure" /\ r.calls = job[j].calls /\ r.returned = job[j].returned
            /\ r.task = job[j].task /\ r.stalled = job[j].stalled
        BY <2>1, <2>3, <3>2 DEF JobRecords
      <4> QED
        BY <2>2, <2>3, <4>1 DEF CalledOK, JobRecords
    <3> QED
      BY <3>1, <3>2
  <2> QED
    BY <1>j, <1>r, <2>2, <2>4
<1>6. ASSUME NEW j \in Jobs, Returned(j), taskLog' = taskLog \/ taskLog' = {} PROVE JobsTyped'
  <2>1. PICK r : r = [job[j] EXCEPT !.pc = "logSuccess", !.returned = @ + 1]
    OBVIOUS
  <2>2. /\ job[j].pc = "method" /\ job' = [job EXCEPT ![j] = r]
        /\ provided' = provided /\ serviceOf' = serviceOf
    BY <1>6, <1>t, <2>1 DEF Returned, JobRecords
  <2>3. CalledOK(job[j]) /\ job[j] \in JobRecords
    BY <1>t
  <2>4. CalledOK(r)
    <3>1. /\ r.pc = "logSuccess" /\ r.calls = job[j].calls /\ r.returned = job[j].returned + 1
          /\ r.task = job[j].task /\ r.stalled = job[j].stalled
      BY <2>1, <2>3 DEF JobRecords
    <3> QED
      BY <2>2, <2>3, <3>1 DEF CalledOK, JobRecords
  <2>5. LogRowsOK'
    BY <1>6, <1>t, <2>2 DEF LogRowsOK
  <2> QED
    BY <1>j, <2>2, <2>4, <2>5
\* Neither the calls nor the task of the job change, and it is past the queue.
<1>7. ASSUME NEW j \in Jobs, NEW pc \in {"logFailure", "completed", "failed"}, job[j].pc \notin {"idle", "queued"},
             NEW r \in JobRecords, r.pc = pc, r.calls = job[j].calls, r.returned = job[j].returned,
             r.task = job[j].task, r.stalled = job[j].stalled
      PROVE  CalledOK(r)
  <2>1. CalledOK(job[j]) /\ job[j] \in JobRecords
    BY <1>t
  <2> QED
    BY <1>7, <2>1 DEF CalledOK, JobRecords
<1>8. ASSUME NEW j \in Jobs, Throws(j) PROVE JobsTyped'
  <2>1. PICK r : r = [job[j] EXCEPT !.pc = "logFailure"]
    OBVIOUS
  <2>2. /\ job[j].pc = "method" /\ job' = [job EXCEPT ![j] = r]
        /\ provided' = provided /\ serviceOf' = serviceOf /\ taskLog' = taskLog
    BY <1>8, <2>1 DEF Throws, To
  <2>3. /\ r \in JobRecords /\ r.pc = "logFailure" /\ r.calls = job[j].calls /\ r.returned = job[j].returned
        /\ r.task = job[j].task /\ r.stalled = job[j].stalled
    BY <1>t, <2>1 DEF JobRecords, RunPcs
  <2>4. CalledOK(r)
    BY <1>7, <2>2, <2>3
  <2> QED
    BY <1>j, <1>r, <2>2, <2>4
<1>9. ASSUME NEW j \in Jobs, NEW status \in {0, 1}, NEW pc \in {"logFailure", "completed", "failed"},
             job[j].pc \in {"logSuccess", "logFailure"}, WriteRow(j, status, pc)
      PROVE  JobsTyped'
  <2>1. PICK trouble \in BOOLEAN : trouble <=> (job[j].trouble \/ pc # "completed")
    OBVIOUS
  <2>2. PICK logged : logged = [job[j].rows EXCEPT ![status + 1] = @ + 1]
    OBVIOUS
  <2>3. logged \in [1..2 -> Nat]
    BY <1>t, <2>2 DEF JobRecords
  <2>4. PICK r : r = [job[j] EXCEPT !.pc = pc, !.rows = logged, !.trouble = trouble]
    OBVIOUS
  <2>5. /\ r \in JobRecords /\ r.pc = pc /\ r.calls = job[j].calls /\ r.returned = job[j].returned
        /\ r.task = job[j].task /\ r.stalled = job[j].stalled
    BY <1>t, <2>3, <2>4 DEF JobRecords, RunPcs
  <2>6. job' = [job EXCEPT ![j].pc = pc, ![j].rows = logged, ![j].trouble = trouble]
    BY <1>9, <1>t, <2>1, <2>2 DEF WriteRow, JobRecords
  <2>7. job' = [job EXCEPT ![j] = r]
    BY <1>t, <2>4, <2>6 DEF JobRecords
  <2>8. CalledOK(r)
    BY <1>7, <1>9, <2>5
  <2>9. /\ serviceOf[job[j].task] # NoService
        /\ taskLog' = taskLog \union {[job |-> j, task |-> job[j].task, status |-> status]}
        /\ provided' = provided /\ serviceOf' = serviceOf
    BY <1>9 DEF WriteRow, Referred
  <2>10. job[j].task \in Tasks
    BY <1>9, <1>t DEF CalledOK
  <2>11. LogRowsOK'
    <3>1. PICK entry : entry = [job |-> j, task |-> job[j].task, status |-> status]
      OBVIOUS
    <3>2. entry.job = j /\ entry.task = job[j].task
      BY <3>1
    <3>3. taskLog' = taskLog \union {entry}
      BY <2>9, <3>1, Zenon
    <3> QED
      BY <1>t, <2>9, <2>10, <3>2, <3>3 DEF LogRowsOK
  <2> QED
    BY <1>j, <2>7, <2>8, <2>9, <2>11, Zenon
<1>10. ASSUME NEW j \in Jobs, NEW pc \in {"logFailure", "failed"}, job[j].pc \in {"logSuccess", "logFailure"},
              WriteRefused(j, pc)
       PROVE  JobsTyped'
  <2>1. PICK r : r = [job[j] EXCEPT !.pc = pc, !.trouble = TRUE]
    OBVIOUS
  <2>2. /\ r \in JobRecords /\ r.pc = pc /\ r.calls = job[j].calls /\ r.returned = job[j].returned
        /\ r.task = job[j].task /\ r.stalled = job[j].stalled
    BY <1>t, <2>1 DEF JobRecords, RunPcs
  <2>3. job' = [job EXCEPT ![j] = r] /\ provided' = provided /\ serviceOf' = serviceOf /\ taskLog' = taskLog
    BY <1>10, <1>t, <2>1 DEF WriteRefused, JobRecords
  <2>4. CalledOK(r)
    BY <1>7, <1>10, <2>2
  <2> QED
    BY <1>j, <1>r, <2>3, <2>4
<1>11. ASSUME NEW j \in Jobs, LogSuccess(j) PROVE JobsTyped'
  BY <1>9, <1>10, <1>11 DEF LogSuccess
<1>12. ASSUME NEW j \in Jobs, LogFailure(j) PROVE JobsTyped'
  BY <1>9, <1>10, <1>12 DEF LogFailure, CatchStatus
<1>13. ASSUME NEW j \in Jobs, Stall(j) PROVE JobsTyped'
  <2>1. PICK r : r = [job[j] EXCEPT !.pc = "queued", !.stalled = TRUE]
    OBVIOUS
  <2>2. /\ job[j].pc \in {"queued", "method", "logSuccess", "logFailure"} /\ ~job[j].stalled
        /\ job' = [job EXCEPT ![j] = r] /\ provided' = provided /\ serviceOf' = serviceOf /\ taskLog' = taskLog
    BY <1>13, <1>t, <2>1 DEF Stall, JobRecords
  <2>3. /\ r.pc = "queued" /\ r.calls = job[j].calls /\ r.returned = job[j].returned
        /\ r.task = job[j].task /\ r.stalled = TRUE
    BY <1>t, <2>1 DEF JobRecords
  <2>4. CalledOK(job[j]) /\ job[j] \in JobRecords
    BY <1>t
  <2>5. CalledOK(r)
    BY <2>2, <2>3, <2>4 DEF CalledOK, JobRecords
  <2> QED
    BY <1>j, <1>r, <2>2, <2>5
<1>14. ASSUME NEW j \in Jobs, Returns(j) \/ ClearsTaskLog(j) PROVE JobsTyped'
  BY <1>6, <1>14 DEF Returns, ClearsTaskLog
<1>15. ASSUME NEW j \in Jobs, NEW k \in Jobs, LockLost(j, k) PROVE JobsTyped'
  <2>1. PICK r : r = [NoJob EXCEPT !.pc = "queued", !.task = job[j].task, !.service = job[j].service,
                                   !.stalled = TRUE]
    OBVIOUS
  <2>2. PICK q : q = [job[j] EXCEPT !.stalled = TRUE]
    OBVIOUS
  <2>3. /\ job[j].pc \in {"method", "logSuccess", "logFailure"} /\ job[k].pc = "idle" /\ ~job[j].stalled
        /\ job' = [job EXCEPT ![j].stalled = TRUE, ![k] = r]
        /\ provided' = provided /\ serviceOf' = serviceOf /\ taskLog' = taskLog
    BY <1>15, <2>1 DEF LockLost
  <2>4. CalledOK(job[j]) /\ job[j] \in JobRecords
    BY <1>t
  <2>5. /\ r.pc = "queued" /\ r.calls = 0 /\ r.returned = 0 /\ r.stalled = TRUE /\ r.task = job[j].task
    BY <2>1 DEF NoJob
  <2>6. CalledOK(r)
    BY <2>3, <2>4, <2>5 DEF CalledOK
  <2>7. /\ q.pc = job[j].pc /\ q.calls = job[j].calls /\ q.returned = job[j].returned
        /\ q.task = job[j].task /\ q.stalled = TRUE
    BY <2>2, <2>4 DEF JobRecords
  <2>8. CalledOK(q)
    BY <2>3, <2>4, <2>7 DEF CalledOK, JobRecords
  <2>9. \A i \in Jobs : job'[i] = IF i = k THEN r ELSE IF i = j THEN q ELSE job[i]
    BY <1>t, <2>2, <2>3
  <2>10. \A i \in Jobs : CalledOK(job'[i])
    BY <1>t, <2>6, <2>8, <2>9, Zenon
  <2>11. \A i \in Jobs : CalledOK(job[i])'
    BY <2>10 DEF CalledOK
  <2> QED
    BY <1>r, <1>t, <2>3, <2>11, Zenon DEF JobsTyped
<1>16. CASE UNCHANGED runVars
  BY <1>16, <1>k, <1>r, <1>t DEF runVars
<1> QED
  BY <1>1, <1>2, <1>3, <1>4, <1>5, <1>8, <1>11, <1>12, <1>13, <1>14, <1>15, <1>16, Zenon DEF RunNext

LEMMA RunsTyped == RunSpec => []RunTypeOK
<1>1. RunInv /\ JobsTyped => RunTypeOK
  <2> SUFFICES ASSUME RunInv, JobsTyped PROVE RunTypeOK
    OBVIOUS
  <2>1. ASSUME NEW j \in Jobs
        PROVE  /\ job[j].pc \in {"idle", "queued", "method", "logSuccess", "logFailure", "completed", "failed"}
               /\ job[j].calls \in 0..2 /\ job[j].returned \in 0..job[j].calls
    <3>1. job[j] \in JobRecords /\ CalledOK(job[j])
      BY DEF RunInv, JobsTyped
    <3> QED
      BY <3>1 DEF JobRecords, RunPcs, CalledOK
  <2> QED
    BY <2>1, Zenon DEF RunInv, JobsTyped, LogRowsOK, RunTypeOK
<1> QED
  BY <1>1, RunInvInit, RunStep, JobsTypedInit, JobsTypedStep, PTL DEF RunSpec

-----------------------------------------------------------------------------
(* MCParts.  The parts share no variable.                                    *)

(* Of a behaviour of MCParts, each part sees one of its own.                 *)
LEMMA StepOfEach ==
    ASSUME [Next]_vars
    PROVE  /\ [AccountsNext]_accountVars /\ [CodeNext]_codeVars /\ [GatewayNext]_gatewayVars
           /\ [PipelineNext]_pipelineVars /\ [ListNext]_listVars /\ [RunNext]_runVars /\ [SchemaNext]_schemaVars
<1>1. \/ AccountsNext \/ UNCHANGED accountVars
  BY Zenon DEF Next, vars
<1>2. \/ CodeNext \/ UNCHANGED codeVars
  BY Zenon DEF Next, vars
<1>3. \/ GatewayNext \/ UNCHANGED gatewayVars
  BY Zenon DEF Next, vars
<1>4. \/ PipelineNext \/ UNCHANGED pipelineVars
  BY Zenon DEF Next, vars, PipelineNext
<1>5. \/ ListNext \/ UNCHANGED listVars
  BY Zenon DEF Next, vars
<1>6. \/ RunNext \/ UNCHANGED runVars
  BY Zenon DEF Next, vars
<1>7. \/ SchemaNext \/ UNCHANGED schemaVars
  BY Zenon DEF Next, vars
<1> QED
  BY <1>1, <1>2, <1>3, <1>4, <1>5, <1>6, <1>7, Zenon

LEMMA EachPart ==
    Spec => /\ AccountsSpec /\ CodeSpec /\ GatewaySpec /\ PipelineSpec
            /\ ListSpec /\ RunSpec /\ SchemaSpec
<1>1. Init => /\ AccountsInit /\ CodeInit /\ GatewayInit /\ PipelineInit
              /\ ListInit /\ RunInit /\ SchemaInit
  BY Zenon DEF Init
<1> QED
  BY <1>1, StepOfEach, PTL
     DEF Spec, AccountsSpec, CodeSpec, GatewaySpec, PipelineSpec, ListSpec, RunSpec, SchemaSpec

(* PartsTypeOK: the types of all the parts, whichever takes the steps.       *)
THEOREM PartsTyped == Spec => []PartsTypeOK
<1>1. /\ AccountsTypeOK /\ CodeTypeOK /\ GatewayTypeOK /\ PipelineTypeOK
      /\ ListTypeOK /\ RunTypeOK /\ SchemaTypeOK
      => PartsTypeOK
  BY DEF PartsTypeOK
<1> QED
  BY <1>1, EachPart, AccountsTyped, CodeTyped, GatewayTyped, PipelineTyped, ListTyped, RunsTyped, SchemaTyped, PTL

(* Whichever part takes the steps, none of the invariants of the run fails.  *)
THEOREM PartsSafe ==
    Spec => [](/\ OneLinkUnlessRaced /\ DisabledOnlyByLink /\ RootRemains
               /\ CodesAreLimited /\ ExpiredAreGone
               /\ RunsAuthorised /\ AnswerTells
               /\ WalkSeesAll /\ RunsAreLogged /\ MigrationUsable)
BY EachPart, OneLink, DisabledStaysOut, RootIsLeft, CodesLimited, ExpiredLeave, HandlersAuthorised,
   AnswersTell, WalksComplete, JobsLogged, MigrationStaysUsable, PTL

=============================================================================
