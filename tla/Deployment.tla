------------------------------ MODULE Deployment ------------------------------
(***************************************************************************)
(* One grid_deployment resource: the handlers of resource_deployment.go,   *)
(* what Terraform makes of their answers, and the contracts on the chain.  *)
(*                                                                         *)
(* A handler is a sequence of calls that leave the process; each may fail, *)
(* the provider may be killed between any two of them, and contracts       *)
(* expire meanwhile.  Deploy, Sync and Cancel are the grid client's: they  *)
(* are modelled by what the handlers rely on.                              *)
(***************************************************************************)
EXTENDS Integers, FiniteSets

CONSTANTS
  Node,         \* ids of the nodes
  Version,      \* versions of the workloads the user may write
  MaxContract,  \* bound on the contracts made: no apply begins beyond it
  MaxTrouble    \* bound on failures, kills, expiries and outages

NoId == -1              \* the resource has no id: it is not in the state
Gone == 0               \* the contract id of a deployment that has no contract
NoWorkloads == "nothing"  \* the version of such a deployment
ContractId == 1 .. MaxContract

ASSUME DeploymentAssumption ==
  /\ MaxContract \in Nat /\ MaxTrouble \in Nat
  /\ Node # {} /\ Version # {} /\ NoWorkloads \notin Version

VARIABLES
  live,         \* contract id -> [node, version], for the contracts that live
  made,         \* contracts made so far
  up,           \* nodes that answer
  config,       \* [node, version] the user wants
  id, state,    \* Terraform's state: the id, and [node, version]
  op, step,     \* the handler at work, and its next call
  dl,           \* its deployment: [node, version, contract]
  newId,        \* the id the handler has set so far
  last,         \* how the last apply ended
  quiet,        \* history: no contract has expired since it began
  told,         \* history: contracts there were when a Create or Update returned
                \* an error, or a handler was killed
  trouble       \* what went wrong so far

chainVars == <<live, made>>
stateVars == <<id, state>>
opVars    == <<op, step, dl, newId>>
histVars  == <<quiet, told>>
vars == <<chainVars, up, config, stateVars, opVars, last, histVars, trouble>>

Wanted == [node : Node, version : Version]
Idle  == op = "none"

\* The node and version the handler sees in its resource data.
data == IF op \in {"create", "update"} THEN config ELSE state

-----------------------------------------------------------------------------
Init ==
  /\ live = <<>> /\ made = 0 /\ up = Node
  /\ config \in Wanted /\ id = NoId /\ state = config
  /\ op = "none" /\ step = "none" /\ newId = NoId
  /\ dl = [node |-> config.node, version |-> config.version, contract |-> Gone]
  /\ last = "none" /\ quiet = TRUE /\ told = {} /\ trouble = 0

Goes(next) == step' = next /\ UNCHANGED op

Edit ==
  /\ Idle /\ config' \in Wanted \ {config}
  /\ last' = "none"
  /\ UNCHANGED <<chainVars, up, stateVars, opVars, histVars, trouble>>

\* Terraform calls a handler.
Begins(handler, first) ==
  /\ Idle /\ op' = handler /\ step' = first /\ newId' = id
  /\ dl' = [dl EXCEPT !.contract = Gone]
  /\ last' = "none" /\ quiet' = TRUE
  /\ UNCHANGED <<chainVars, up, config, stateVars, told, trouble>>

Create == id = NoId /\ made < MaxContract /\ Begins("create", "load")
Read   == id # NoId /\ Begins("read", "load")
Delete == id # NoId /\ Begins("delete", "load")

\* An update to another node cancels the old node's contract first.
Update ==
  /\ id # NoId /\ state # config /\ made < MaxContract
  /\ Begins("update", IF state.node # config.node THEN "cancelOld" ELSE "load")

\* The handler returns an error.  A Create that set no id, a Read and a Delete
\* leave the state alone; an Update leaves the new values and the id it has set
\* so far, and where it has cleared the id, Terraform may keep what it had.
Fails ==
  /\ op' = "none" /\ step' = "none" /\ last' = "error"
  /\ told' = IF op \in {"create", "update"} THEN told \cup DOMAIN live' ELSE told
  /\ \/ op = "update" /\ id' = newId /\ state' = config
     \/ (op = "update" => newId = NoId) /\ UNCHANGED stateVars
  /\ UNCHANGED newId

Counts == trouble < MaxTrouble /\ trouble' = trouble + 1

\* CancelContract: the contract lives no more when it answers without an error.
CancelOld ==
  /\ step = "cancelOld"
  /\ live' = [c \in DOMAIN live \ {id} |-> live[c]]
  /\ newId' = NoId /\ Goes("load")
  /\ UNCHANGED <<made, up, config, stateVars, dl, last, histVars, trouble>>

CancelOldFails ==
  /\ step = "cancelOld" /\ Counts
  /\ UNCHANGED <<chainVars, up, config, dl, quiet>>
  /\ Fails

\* newDeploymentFromSchema: the id, when there is one, is the contract's.
loaded ==
  [node |-> data.node, version |-> data.version,
   contract |-> IF newId = NoId THEN Gone ELSE newId]

\* Faulty: Delete goes the way of Update.
LoadToDeploy ==
  /\ step = "load" /\ data.node \in up
  /\ dl' = loaded
  /\ Goes(IF op = "read" THEN "sync" ELSE "deploy")
  /\ UNCHANGED <<chainVars, up, config, stateVars, newId, last, histVars, trouble>>

Load ==
  /\ step = "load" /\ data.node \in up
  /\ dl' = loaded
  /\ Goes(CASE op = "read" -> "sync" [] op = "delete" -> "cancel" [] OTHER -> "deploy")
  /\ UNCHANGED <<chainVars, up, config, stateVars, newId, last, histVars, trouble>>

\* isZosLight needs the node to answer.
LoadFails ==
  /\ step = "load"
  /\ IF data.node \in up THEN Counts ELSE UNCHANGED trouble
  /\ UNCHANGED <<chainVars, up, config, dl, quiet>>
  /\ Fails

-----------------------------------------------------------------------------
(* The grid client.                                                        *)

Deployed == [node |-> dl.node, version |-> dl.version]

\* It is given the node of the resource data and the contract of the id, and asks
\* that node for that contract.  A contract cannot move, so after an update to
\* another node that could not cancel the old contract the node knows nothing of it.
NodeAnswers ==
  /\ dl.node \in up
  /\ dl.contract \in DOMAIN live => live[dl.contract].node = dl.node

\* Deploy updates the contract it is given, in place, while that lives ...
DeployInPlace ==
  /\ step = "deploy" /\ dl.contract \in DOMAIN live /\ NodeAnswers
  /\ live' = [live EXCEPT ![dl.contract] = Deployed]
  /\ UNCHANGED <<made, dl>>

\* ... and makes a new one if it is given none.
DeployNew ==
  /\ step = "deploy" /\ dl.contract \notin DOMAIN live /\ made < MaxContract
  /\ NodeAnswers
  /\ made' = made + 1
  /\ live' = [c \in DOMAIN live \cup {made'} |->
                IF c = made' THEN Deployed ELSE live[c]]
  /\ dl' = [dl EXCEPT !.contract = made']

\* It fails with all reverted, or, when the revert fails too, with the new
\* contract or version in place.
DeployNothing == step = "deploy" /\ UNCHANGED <<chainVars, dl>>

Deploy ==
  /\ DeployInPlace \/ DeployNew
  /\ Goes("sync")
  /\ UNCHANGED <<up, config, stateVars, newId, last, histVars, trouble>>

\* Faulty: the handler goes on after an error of Deploy.
DeployGoesOn ==
  /\ Counts /\ DeployNothing /\ Goes("sync")
  /\ UNCHANGED <<up, config, stateVars, newId, last, histVars>>

DeployFails ==
  /\ \/ NodeAnswers /\ Counts /\ (DeployNothing \/ DeployInPlace \/ DeployNew)
     \/ ~NodeAnswers /\ DeployNothing /\ UNCHANGED trouble
  /\ Fails
  /\ UNCHANGED <<up, config, quiet>>

\* Cancel, of the contract the state names.
Cancel ==
  /\ step = "cancel"
  /\ live' = [c \in DOMAIN live \ {dl.contract} |-> live[c]]
  /\ Goes("sync")
  /\ UNCHANGED <<made, up, config, stateVars, dl, newId, last, histVars, trouble>>

\* Faulty: Delete goes on after an error of Cancel.
CancelGoesOn ==
  /\ step = "cancel" /\ Counts /\ Goes("sync")
  /\ UNCHANGED <<chainVars, up, config, stateVars, dl, newId, last, histVars>>

CancelFails ==
  /\ step = "cancel" /\ Counts
  /\ UNCHANGED <<chainVars, up, config, dl, quiet>>
  /\ Fails

\* Faulty: what the resource data said is taken for what is there.
SyncNothing ==
  /\ step = "sync" /\ Goes("set")
  /\ UNCHANGED <<chainVars, up, config, stateVars, dl, newId, last, histVars, trouble>>

Lives == dl.contract \in DOMAIN live

\* Sync reads the workloads of the contract back from the node of the resource
\* data; a deployment whose contract lives no more has none, and the chain says so.
Sync ==
  /\ step = "sync" /\ (Lives => NodeAnswers)
  /\ dl' = IF Lives THEN [dl EXCEPT !.version = live[dl.contract].version]
           ELSE [dl EXCEPT !.version = NoWorkloads, !.contract = Gone]
  /\ Goes("set")
  /\ UNCHANGED <<chainVars, up, config, stateVars, newId, last, histVars, trouble>>

\* Read makes a warning of it, the others return the error.
SyncFails ==
  /\ step = "sync"
  /\ IF Lives => NodeAnswers THEN Counts ELSE UNCHANGED trouble
  /\ UNCHANGED <<chainVars, up, config, dl, quiet>>
  /\ IF op = "read"
     THEN op' = "none" /\ step' = "none" /\ last' = "warned"
          /\ UNCHANGED <<stateVars, newId, told>>
     ELSE Fails

-----------------------------------------------------------------------------
\* Faulty: an id that was set once is not set again.
SetOnce ==
  /\ step = "set"
  /\ id' = IF op = "delete" THEN NoId ELSE IF id = NoId THEN dl.contract ELSE id
  /\ state' = [node |-> dl.node, version |-> dl.version]
  /\ op' = "none" /\ step' = "none" /\ newId' = id'
  /\ last' = CASE op = "read" -> "refreshed" [] op = "delete" -> "deleted"
                [] OTHER -> "applied"
  /\ UNCHANGED <<chainVars, up, config, dl, histVars, trouble>>

\* syncContractsDeployments sets the id to the contract's, and the handler
\* returns; Terraform drops a resource whose Delete returns no error.
Set ==
  /\ step = "set"
  /\ id' = IF op = "delete" THEN NoId ELSE dl.contract
  /\ state' = [node |-> dl.node, version |-> dl.version]
  /\ op' = "none" /\ step' = "none" /\ newId' = id'
  /\ last' = CASE op = "read" -> "refreshed" [] op = "delete" -> "deleted"
                [] OTHER -> "applied"
  /\ UNCHANGED <<chainVars, up, config, dl, histVars, trouble>>

\* The provider is killed: Terraform keeps the state it had.
Kill ==
  /\ ~Idle /\ Counts
  /\ op' = "none" /\ step' = "none" /\ last' = "killed"
  /\ told' = told \cup DOMAIN live
  /\ UNCHANGED <<chainVars, up, config, stateVars, dl, newId, quiet>>

\* A contract runs out of funds, or is cancelled by other means.
Expire ==
  /\ Counts
  /\ \E c \in DOMAIN live : live' = [x \in DOMAIN live \ {c} |-> live[x]]
  /\ quiet' = FALSE
  /\ UNCHANGED <<made, up, config, stateVars, opVars, last, told>>

Outage ==
  /\ Counts
  /\ \E n \in Node : up' = IF n \in up THEN up \ {n} ELSE up \cup {n}
  /\ UNCHANGED <<chainVars, config, stateVars, opVars, last, histVars>>

Next ==
  \/ Edit \/ Create \/ Read \/ Update \/ Delete
  \/ CancelOld \/ CancelOldFails \/ Load \/ LoadFails
  \/ Deploy \/ DeployFails \/ Cancel \/ CancelFails \/ Sync \/ SyncFails \/ Set
  \/ Kill \/ Expire \/ Outage

Spec == Init /\ [][Next]_vars

-----------------------------------------------------------------------------
(* Properties.                                                             *)

Ids == {NoId, Gone} \cup ContractId
Known == [node : Node, version : Version \cup {NoWorkloads}]

ChainType ==
  /\ made \in 0 .. MaxContract /\ trouble \in 0 .. MaxTrouble
  /\ DOMAIN live \subseteq 1 .. made /\ live \in [DOMAIN live -> Wanted]

StateType ==
  /\ up \subseteq Node /\ config \in Wanted /\ quiet \in BOOLEAN
  /\ told \subseteq ContractId
  /\ id \in Ids /\ state \in Known
  /\ last \in {"none", "error", "warned", "killed", "refreshed", "deleted", "applied"}

HandlerType ==
  /\ op \in {"none", "create", "read", "update", "delete"}
  /\ step \in {"none", "cancelOld", "load", "deploy", "cancel", "sync", "set"}
  /\ op = "none" <=> step = "none"
  /\ step = "cancelOld" => op = "update"
  /\ step = "deploy" => op \in {"create", "update"}
  /\ step = "cancel" => op = "delete"
  /\ newId \in Ids
  /\ dl \in [node : Node, version : Version \cup {NoWorkloads},
             contract : {Gone} \cup ContractId]
  /\ step = "deploy" => dl.version \in Version

\* Every variable keeps its type; the next call of a handler is one its code
\* makes, and nothing is deployed but what the user wrote.
TypeOK == ChainType /\ StateType /\ HandlerType

\* Terraform never lets go of a contract that lives, and would be paid for: the
\* id of the resource is replaced or cleared only once its contract is gone,
\* whatever fails and whenever the provider is killed.
NeverForgetsLive ==
  [][(id \in ContractId /\ id' # id) => id \notin DOMAIN live']_vars

Recorded == {id} \cap ContractId

\* A contract that lives at rest and is not in the state, so that no later plan
\* will cancel it, is one there was when an apply failed or a handler was killed:
\* the user was told.
OrphansAreReported == Idle => DOMAIN live \subseteq Recorded \cup told

Ledger == INSTANCE Contracts WITH alive <- DOMAIN live, used <- made, recorded <- Recorded,
            busy <- ~Idle

\* The resource accounts for its contracts as Contracts wants: whatever fails, and
\* whenever the provider is killed, the state lets go of no contract that lives.
ImplementsContracts == Ledger!Spec

\* An apply that reports success has deployed what the user asked for, under
\* the id the state holds, unless the contract expired under its hands; an
\* earlier apply that failed or was killed makes no difference.
AppliedIsDeployed ==
  (last = "applied" /\ quiet) =>
    /\ state = config
    /\ id \in DOMAIN live /\ live[id] = config

\* After a Read without a warning the state is the deployment as it is, however
\* the state and the deployment came apart, or names no contract.
RefreshIsTruth ==
  (last = "refreshed" /\ quiet) =>
    IF id \in DOMAIN live THEN state = live[id] ELSE id = Gone

\* wiki/internals.md:61-63: a Create that fails reverts what it has deployed, or
\* sets the id and stores what it could not revert.
CreateLosesNothing ==
  [][(op = "create" /\ last' = "error" /\ dl'.contract \in DOMAIN live')
       => id' = dl'.contract]_vars
=============================================================================
