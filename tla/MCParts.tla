-------------------------------- MODULE MCParts --------------------------------
(***************************************************************************)
(* One run for the parts that share no state with one another: `part` says *)
(* which of them takes the steps of a behaviour, and the others stay in    *)
(* an initial state.                                                       *)
(***************************************************************************)
EXTENDS Accounts, VerificationCode, SocketGateway, RequestPipeline, Listing, TaskRuns,
        InitialSchema, TLC

VARIABLE part

vars == <<part, accountVars, codeVars, gatewayVars, pipelineVars, listVars, runVars, schemaVars>>

\* A request has two parts: its session changes while it is in the guards, the rows while
\* it is validated and handled, and neither makes a difference to the other.  The guards
\* do not look at the body.
Parts == {"accounts", "code", "gateway", "guards", "saves", "list", "runs", "schema"}

Init ==
    /\ part \in Parts
    /\ AccountsInit /\ CodeInit /\ GatewayInit /\ PipelineInit /\ ListInit /\ RunInit /\ SchemaInit
    /\ part # "accounts" => users = {1} /\ default /\ links = {}
    /\ part # "guards" => /\ config = [demo |-> FALSE, multi |-> FALSE, admin |-> FALSE]
                          /\ revoked = {} /\ permitted
    /\ part # "saves" => row[RootRole] = CHOOSE body \in Bodies : TRUE
    /\ part # "list" => kind = "tasks" /\ lastId = 0

SmallBody == request.role \in {0, RootRole} /\ request.menus = {}

Next ==
    \/ /\ part = "accounts" /\ AccountsNext
       /\ UNCHANGED <<part, codeVars, gatewayVars, pipelineVars, listVars, runVars, schemaVars>>
    \/ /\ part = "code" /\ CodeNext
       /\ UNCHANGED <<part, accountVars, gatewayVars, pipelineVars, listVars, runVars, schemaVars>>
    \/ /\ part = "gateway" /\ GatewayNext
       /\ UNCHANGED <<part, accountVars, codeVars, pipelineVars, listVars, runVars, schemaVars>>
    \/ /\ \/ part = "guards" /\ ((RequestNext /\ SmallBody') \/ SessionNext)
          \/ part = "saves" /\ (RequestNext \/ RowsNext)
       /\ UNCHANGED <<part, accountVars, codeVars, gatewayVars, listVars, runVars, schemaVars>>
    \/ /\ part = "list" /\ ListNext
       /\ UNCHANGED <<part, accountVars, codeVars, gatewayVars, pipelineVars, runVars, schemaVars>>
    \/ /\ part = "runs" /\ RunNext
       /\ UNCHANGED <<part, accountVars, codeVars, gatewayVars, pipelineVars, listVars, schemaVars>>
    \/ /\ part = "schema" /\ SchemaNext
       /\ UNCHANGED <<part, accountVars, codeVars, gatewayVars, pipelineVars, listVars, runVars>>

Spec == Init /\ [][Next]_vars

(* The variables of the part that moves have their types. *)
PartsTypeOK ==
    /\ part = "accounts" => AccountsTypeOK
    /\ part = "code" => CodeTypeOK
    /\ part = "gateway" => GatewayTypeOK
    /\ part \in {"guards", "saves"} => PipelineTypeOK
    /\ part = "list" => ListTypeOK
    /\ part = "runs" => RunTypeOK
    /\ part = "schema" => SchemaTypeOK

AccountSymmetry == Permutations(Emails) \union Permutations(Pids) \union Permutations(Calls)

=============================================================================
