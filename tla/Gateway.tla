------------------------------- MODULE Gateway -------------------------------
(***************************************************************************)
(* One gateway resource, grid_name_proxy or grid_fqdn_proxy: the handlers  *)
(* of resource_gateway_name.go and resource_gateway_fqdn.go, which differ  *)
(* in the name contract alone, what Terraform makes of their answers, and  *)
(* the contracts of the gateway.                                           *)
(*                                                                         *)
(* Deploy, Cancel and Sync are the grid client's: they are modelled by     *)
(* what the handlers rely on.                                              *)
(***************************************************************************)
EXTENDS Integers, FiniteSets, Functions

CONSTANTS
  Node,         \* ids of the gateway nodes
  Name,         \* names a gateway may ask for: each can be had once on the grid
  Version,      \* what a workload says: its backends, tls passthrough, ...
  Valid,        \* those whose backends are of the form validateBackends wants
  NoVersion,    \* the workload of a contract that is gone: no backends
  NoName,       \* no name contract, id 0
  MaxContract,  \* bound on the contracts made: no apply begins beyond it
  MaxTrouble    \* bound on failures, kills and expiries

ContractId == 1 .. MaxContract
NoIds == <<>>   \* an empty node_deployment_id

ASSUME GatewayAssumption ==
  /\ MaxContract \in Nat /\ MaxTrouble \in Nat
  /\ Valid \subseteq Version /\ NoVersion \notin Version
  /\ NoName \notin ContractId

VARIABLES
  kind,         \* "name" or "fqdn"
  nodeLive,     \* node contract id -> [node, version], for those that live
  nameLive,     \* name contract id -> name, for those that live
  made,         \* contracts made so far
  config,       \* the [node, name, version] the user wants
  exists,       \* the resource is in Terraform's state
  state,        \* its [node, name, version, ids, nameId]: ids is
                \* node_deployment_id, nameId is name_contract_id
  op, step,     \* the handler at work, and its next call
  gw,           \* its gateway, of the form of state
  last,         \* how the last handler ended
  quiet,        \* history: no contract has expired since the handler began
  told,         \* history: contracts there were when a Create or Update returned
                \* an error, or a handler died
  trouble       \* what went wrong so far

chainVars == <<nodeLive, nameLive, made>>
userVars  == <<kind, config>>
stateVars == <<exists, state>>
opVars    == <<op, step, gw>>
histVars  == <<quiet, told>>
vars == <<chainVars, userVars, stateVars, opVars, last, histVars, trouble>>

Idle == op = "none"
Live == DOMAIN nodeLive \cup DOMAIN nameLive
Wanted == [node : Node, name : Name, version : Version]

Gateways(wanted, ids, nameId) ==
  [node |-> wanted.node, name |-> wanted.name, version |-> wanted.version,
   ids |-> ids, nameId |-> nameId]
wantedOf(g) == [node |-> g.node, name |-> g.name, version |-> g.version]

\* The resource data of a resource that does not exist: what the user wants.
Nothing(wanted) == Gateways(wanted, NoIds, NoName)

-----------------------------------------------------------------------------
Init ==
  /\ kind \in {"name", "fqdn"} /\ config \in Wanted
  /\ nodeLive = <<>> /\ nameLive = <<>> /\ made = 0
  /\ exists = FALSE /\ state = Nothing(config)
  /\ op = "none" /\ step = "none" /\ gw = Nothing(config)
  /\ last = "none" /\ quiet = TRUE /\ told = {} /\ trouble = 0

Edit ==
  /\ Idle /\ config' \in Wanted \ {config} /\ gw' = Nothing(config')
  /\ last' = "none"
  /\ UNCHANGED <<chainVars, kind, stateVars, op, step, histVars, trouble>>

\* newNameGatewayFromSchema and newFQDNGatewayFromSchema: the gateway of the
\* resource data, with the contracts of the state, and none in a Create.
Begins(handler, wanted) ==
  /\ Idle /\ op' = handler /\ step' = "load"
  /\ gw' = IF exists THEN Gateways(wanted, state.ids, state.nameId) ELSE Nothing(wanted)
  /\ last' = "none" /\ quiet' = TRUE
  /\ UNCHANGED <<chainVars, userVars, stateVars, told, trouble>>

HasRoom == made + 2 <= MaxContract

Create == ~exists /\ HasRoom /\ Begins("create", config)
Update == exists /\ wantedOf(state) # config /\ HasRoom /\ Begins("update", config)
Read   == exists /\ Begins("read", wantedOf(state))
Delete == exists /\ Begins("delete", wantedOf(state))

Ends(how) == op' = "none" /\ step' = "none" /\ gw' = Nothing(config) /\ last' = how

\* The handler returns an error and has stored nothing.  After a Create there is
\* no resource; after an Update Terraform keeps what the user wants, and the
\* computed ids as they were.
Fails ==
  /\ Ends("error")
  /\ state' = IF op = "update" THEN Gateways(config, state.ids, state.nameId) ELSE state
  /\ told' = IF op \in {"create", "update"}
             THEN told \cup DOMAIN nodeLive' \cup DOMAIN nameLive' ELSE told
  /\ UNCHANGED <<exists, quiet>>

Counts == trouble < MaxTrouble /\ trouble' = trouble + 1

Goes(next) ==
  /\ step' = next
  /\ UNCHANGED <<userVars, stateVars, op, last, histVars, trouble>>

firstCall == CASE op = "read" -> "sync" [] op = "delete" -> "cancel" [] OTHER -> "deploy"

\* Faulty: the backends are not validated.
LoadAny == step = "load" /\ Goes(firstCall) /\ UNCHANGED <<chainVars, gw>>

Load ==
  /\ step = "load" /\ gw.version \in Valid \cup {NoVersion}
  /\ Goes(firstCall) /\ UNCHANGED <<chainVars, gw>>

\* validateBackends: the backends an Update was refused for are in the state from
\* then on, so that Read and Delete refuse them too.
LoadFails ==
  /\ step = "load" /\ gw.version \notin Valid \cup {NoVersion}
  /\ UNCHANGED <<chainVars, userVars, trouble>>
  /\ Fails

-----------------------------------------------------------------------------
(* The grid client.                                                        *)

\* Faulty: a gateway by its domain gets a name contract too.
NameIsKeptByAny == gw.nameId \in DOMAIN nameLive /\ nameLive[gw.nameId] = gw.name

NameIsKept ==
  \/ kind = "fqdn"
  \/ gw.nameId \in DOMAIN nameLive /\ nameLive[gw.nameId] = gw.name
NameIsTaken == \E c \in DOMAIN nameLive \ {gw.nameId} : nameLive[c] = gw.name

nameId == IF NameIsKept THEN gw.nameId ELSE made + 1

\* The name contract is kept if it is of the gateway's name, or else cancelled and
\* made anew.
DeploysName ==
  IF NameIsKept THEN UNCHANGED nameLive
  ELSE /\ ~NameIsTaken
       /\ nameLive' = [c \in (DOMAIN nameLive \ {gw.nameId}) \cup {nameId} |->
                         IF c = nameId THEN gw.name ELSE nameLive[c]]

\* It fails with the old one cancelled or not.
PartlyDeploysName ==
  /\ ~NameIsKept
  /\ \E less \in SUBSET {gw.nameId} : nameLive' = Restrict(nameLive, DOMAIN nameLive \ less)

Ids == DOMAIN gw.ids
Others == {gw.ids[n] : n \in Ids \ {gw.node}}   \* contracts of other nodes
KeptLives == gw.node \in Ids => gw.ids[gw.node] \in DOMAIN nodeLive
nodeId ==
  IF gw.node \in Ids THEN gw.ids[gw.node] ELSE made + (IF NameIsKept THEN 1 ELSE 2)

\* A contract is made for the gateway's node, or updated in place, and those of
\* other nodes are cancelled.
DeploysNode(less) ==
  nodeLive' = [c \in (DOMAIN nodeLive \ less) \cup {nodeId} |->
                 IF c = nodeId THEN [node |-> gw.node, version |-> gw.version]
                 ELSE nodeLive[c]]

Makes ==
  made' = made + (IF NameIsKept THEN 0 ELSE 1) + (IF gw.node \in Ids THEN 0 ELSE 1)

\* Faulty: the name contract is not part of the gateway that is stored.
DeployNameless ==
  /\ step = "deploy" /\ KeptLives /\ DeploysName /\ DeploysNode(Others) /\ Makes
  /\ gw' = [gw EXCEPT !.ids = [n \in {gw.node} |-> nodeId]]
  /\ Goes("sync")

\* Faulty: what runs on a node that stays is not updated.
DeployNew ==
  /\ step = "deploy" /\ KeptLives /\ DeploysName /\ Makes
  /\ IF gw.node \in Ids THEN UNCHANGED nodeLive ELSE DeploysNode(Others)
  /\ gw' = [gw EXCEPT !.ids = [n \in {gw.node} |-> nodeId], !.nameId = nameId]
  /\ Goes("sync")

Deploy ==
  /\ step = "deploy" /\ KeptLives /\ DeploysName /\ DeploysNode(Others) /\ Makes
  /\ gw' = [gw EXCEPT !.ids = [n \in {gw.node} |-> nodeId], !.nameId = nameId]
  /\ Goes("sync")

\* Deploy fails with part of its work done, or reverted, and the handler stores
\* nothing of what is left.  A name that another contract has, if only one lost
\* by an earlier apply, cannot be had.
DeployFails ==
  /\ step = "deploy" /\ Makes
  /\ IF KeptLives /\ (NameIsKept \/ ~NameIsTaken) THEN Counts ELSE UNCHANGED trouble
  /\ \/ UNCHANGED <<nodeLive, nameLive>>
     \/ PartlyDeploysName /\ UNCHANGED nodeLive
     \/ DeploysName /\ UNCHANGED nodeLive
     \/ DeploysName /\ KeptLives /\ \E less \in SUBSET Others : DeploysNode(less)
  /\ Fails
  /\ UNCHANGED userVars

Cancels(nodes, names) ==
  /\ nodeLive' = Restrict(nodeLive, DOMAIN nodeLive \ nodes)
  /\ nameLive' = Restrict(nameLive, DOMAIN nameLive \ names)
  /\ UNCHANGED made

Cancel ==
  /\ step = "cancel" /\ Cancels(Range(gw.ids), {gw.nameId})
  /\ Goes("sync") /\ UNCHANGED gw

\* Faulty: Delete goes on after an error of Cancel.
CancelGoesOn ==
  /\ step = "cancel" /\ trouble < MaxTrouble
  /\ \E nodes \in SUBSET Range(gw.ids), names \in SUBSET {gw.nameId} : Cancels(nodes, names)
  /\ Goes("sync") /\ UNCHANGED gw

CancelFails ==
  /\ step = "cancel" /\ Counts
  /\ \E nodes \in SUBSET Range(gw.ids), names \in SUBSET {gw.nameId} : Cancels(nodes, names)
  /\ Fails
  /\ UNCHANGED userVars

\* Faulty: a gateway that is gone keeps the backends of the resource data.
SyncIds ==
  /\ step = "sync"
  /\ LET nodes == {n \in Ids : gw.ids[n] \in DOMAIN nodeLive}
     IN gw' = [gw EXCEPT !.ids = Restrict(gw.ids, nodes),
                         !.nameId = IF gw.nameId \in DOMAIN nameLive THEN @ ELSE NoName]
  /\ Goes("set") /\ UNCHANGED chainVars

\* Sync: contracts that are gone are dropped, and the workload is the one that the
\* gateway's node runs.
Sync ==
  /\ step = "sync"
  /\ LET nodes == {n \in Ids : gw.ids[n] \in DOMAIN nodeLive}
     IN gw' = [gw EXCEPT !.ids = Restrict(gw.ids, nodes),
                         !.nameId = IF gw.nameId \in DOMAIN nameLive THEN @ ELSE NoName,
                         !.version = IF gw.node \in nodes
                                     THEN nodeLive[gw.ids[gw.node]].version ELSE NoVersion]
  /\ Goes("set") /\ UNCHANGED chainVars

\* Read makes a warning of it, the others return the error.
SyncFails ==
  /\ step = "sync" /\ Counts
  /\ UNCHANGED <<chainVars, userVars>>
  /\ IF op = "read" THEN Ends("warned") /\ UNCHANGED <<stateVars, histVars>> ELSE Fails

-----------------------------------------------------------------------------
\* syncContractsNameGateways and syncContractsFQDNGateways.  Terraform drops a
\* resource whose Delete returns no error, whatever was stored.
Set ==
  /\ step = "set"
  /\ exists' = (op # "delete")
  /\ state' = IF op = "delete" THEN Nothing(config) ELSE gw
  /\ Ends(CASE op = "read" -> "refreshed" [] op = "delete" -> "deleted" [] OTHER -> "applied")
  /\ UNCHANGED <<chainVars, userVars, histVars, trouble>>

\* The process dies: Terraform keeps the state it had.
Kill ==
  /\ ~Idle /\ Counts /\ Ends("killed")
  /\ told' = told \cup Live
  /\ UNCHANGED <<chainVars, userVars, stateVars, quiet>>

\* A contract ends: its node bills it in vain, or its owner cancels it elsewhere.
Expire ==
  /\ Counts /\ quiet' = FALSE
  /\ \E c \in Live :
       /\ nodeLive' = Restrict(nodeLive, DOMAIN nodeLive \ {c})
       /\ nameLive' = Restrict(nameLive, DOMAIN nameLive \ {c})
  /\ UNCHANGED <<made, userVars, stateVars, opVars, last, told>>

Next ==
  \/ Edit \/ Create \/ Update \/ Read \/ Delete
  \/ Load \/ LoadFails \/ Deploy \/ DeployFails \/ Cancel \/ CancelFails
  \/ Sync \/ SyncFails \/ Set \/ Kill \/ Expire

Spec == Init /\ [][Next]_vars

-----------------------------------------------------------------------------
(* Properties.                                                             *)

GatewayOK(g) ==
  /\ g.node \in Node /\ g.name \in Name /\ g.version \in Version \cup {NoVersion}
  /\ DOMAIN g.ids \subseteq Node /\ g.ids \in [DOMAIN g.ids -> ContractId]
  /\ g.nameId \in ContractId \cup {NoName}
  /\ g = Gateways(wantedOf(g), g.ids, g.nameId)

ChainType ==
  /\ made \in 0 .. MaxContract /\ trouble \in 0 .. MaxTrouble
  /\ Live \subseteq 1 .. made /\ DOMAIN nodeLive \cap DOMAIN nameLive = {}
  /\ nodeLive \in [DOMAIN nodeLive -> [node : Node, version : Version]]
  /\ nameLive \in [DOMAIN nameLive -> Name]
  /\ kind = "fqdn" => DOMAIN nameLive = {}

StateType ==
  /\ kind \in {"name", "fqdn"} /\ config \in Wanted
  /\ exists \in BOOLEAN /\ GatewayOK(state)
  /\ last \in {"none", "error", "deleted", "warned", "refreshed", "applied", "killed"}
  /\ quiet \in BOOLEAN /\ told \subseteq ContractId

HandlerType ==
  /\ op \in {"none", "create", "update", "read", "delete"}
  /\ step \in {"none", "load", "deploy", "cancel", "sync", "set"}
  /\ Idle <=> step = "none"
  /\ step = "deploy" => op \in {"create", "update"}
  /\ step = "cancel" => op = "delete"
  /\ GatewayOK(gw)

\* Every variable keeps its type, no id is both a node's and a name's, a gateway by
\* its domain has no name contract, and a handler makes the calls its code makes.
TypeOK == ChainType /\ StateType /\ HandlerType

Recorded(g) == Range(g.ids) \cup ({g.nameId} \ {NoName})

\* A contract, of a node or of a name, that lives while no handler is at work is
\* in the state, unless a Create or Update has returned an error, or a handler
\* has died, since it was made.
OrphansAreReported == Idle => Live \subseteq Recorded(state) \cup told

Ledger == INSTANCE Contracts WITH alive <- Live, used <- made,
  recorded <- Recorded(state), busy <- ~Idle

\* The resource accounts for its contracts as Contracts wants: whatever fails, and
\* whenever the provider dies, the state lets go of no contract that lives.
ImplementsContracts == Ledger!Spec

\* After an apply the node of the gateway runs what the user wrote, under a name
\* contract of its name, whatever an earlier handler left half done or Terraform
\* kept of it, and the state says so: the next plan is empty.
AppliedIsDeployed ==
  (last = "applied" /\ quiet) =>
    /\ wantedOf(state) = config
    /\ \E c \in DOMAIN nodeLive : /\ state.ids = [n \in {config.node} |-> c]
                                  /\ nodeLive[c].node = config.node
                                  /\ nodeLive[c].version = config.version
    /\ kind = "name" => /\ state.nameId \in DOMAIN nameLive
                        /\ nameLive[state.nameId] = config.name

\* After a Read that stored anything, the contracts of the state live, and its
\* workload is the one deployed on its node, or none, which the next plan repairs.
RefreshIsTruth ==
  (last = "refreshed" /\ quiet) =>
    /\ Recorded(state) \subseteq Live
    /\ state.version =
         IF state.node \in DOMAIN state.ids
         THEN nodeLive[state.ids[state.node]].version ELSE NoVersion

\* Backends that validateBackends refuses are never deployed, although Terraform
\* keeps them in the state when an Update is refused for them.
NothingInvalidRuns == \A c \in DOMAIN nodeLive : nodeLive[c].version \in Valid
=============================================================================
