------------------------------- MODULE Network -------------------------------
(***************************************************************************)
(* One grid_network resource: the handlers of resource_network.go, what    *)
(* Terraform makes of their answers, and the network's contracts, one per  *)
(* node.                                                                   *)
(*                                                                         *)
(* A network that needs a public node and has none among the nodes the     *)
(* user listed gets a hidden one: it holds a contract, is recorded as      *)
(* public_node_id, and stays out of `nodes'.  Deploy, Cancel and           *)
(* InvalidateBrokenAttributes are the grid client's: they are modelled by  *)
(* what the handlers rely on.                                              *)
(***************************************************************************)
EXTENDS Integers, FiniteSets, Functions

CONSTANTS
  Node,         \* ids of the nodes
  MaxContract,  \* bound on the contracts made: no apply begins beyond it
  MaxTrouble    \* bound on failures, kills, expiries and outages

NoNode == "none"        \* public_node_id 0
NoIds == <<>>           \* an empty node_deployment_id
ContractId == 1 .. MaxContract

ASSUME NetworkAssumption ==
  /\ MaxContract \in Nat /\ MaxTrouble \in Nat
  /\ IsFiniteSet(Node) /\ Node # {} /\ NoNode \notin Node

VARIABLES
  live,         \* contract id -> node, for the contracts that live
  made,         \* contracts made so far
  up,           \* nodes that answer
  config,       \* the nodes the user wants
  exists, tainted,  \* the resource is in Terraform's state; and is to be replaced
  state,        \* its [nodes, ids, pub]: nodes, node_deployment_id, public_node_id
  op, step,     \* the handler at work, and its next call
  net,          \* its network: [nodes, ids, pub]
  failed,       \* its Deploy or Cancel failed
  last,         \* how the last handler ended
  quiet,        \* history: no contract has expired since the handler began
  told,         \* history: contracts there were when a handler was killed
  trouble       \* what went wrong so far

chainVars == <<live, made>>
stateVars == <<exists, tainted, state>>
opVars    == <<op, step, net, failed>>
histVars  == <<quiet, told>>
vars == <<chainVars, up, config, stateVars, opVars, last, histVars, trouble>>

Idle == op = "none"
Nothing == [nodes |-> {}, ids |-> NoIds, pub |-> NoNode]

\* The nodes the handler sees in its resource data.
dataNodes == IF op \in {"create", "update"} THEN config ELSE state.nodes

-----------------------------------------------------------------------------
Init ==
  /\ live = <<>> /\ made = 0 /\ up = Node
  /\ config \in (SUBSET Node) \ {{}}
  /\ exists = FALSE /\ tainted = FALSE /\ state = Nothing
  /\ op = "none" /\ step = "none" /\ net = Nothing /\ failed = FALSE
  /\ last = "none" /\ quiet = TRUE /\ told = {} /\ trouble = 0

Edit ==
  /\ Idle /\ config' \in (SUBSET Node) \ {{}, config}
  /\ last' = "none"
  /\ UNCHANGED <<chainVars, up, stateVars, opVars, histVars, trouble>>

Begins(handler) ==
  /\ Idle /\ op' = handler /\ step' = "load"
  /\ net' = Nothing /\ failed' = FALSE
  /\ last' = "none" /\ quiet' = TRUE
  /\ UNCHANGED <<chainVars, up, config, stateVars, told, trouble>>

HasRoom == made + Cardinality(Node) <= MaxContract

Create == ~exists /\ HasRoom /\ Begins("create")
Update == exists /\ ~tainted /\ state.nodes # config /\ HasRoom /\ Begins("update")
Read   == exists /\ Begins("read")
Delete == exists /\ Begins("delete")

Ends(how) == op' = "none" /\ step' = "none" /\ net' = Nothing /\ failed' = FALSE /\ last' = how

\* The handler returns an error before it has stored anything.  Terraform keeps
\* an Update's new values; the computed ones are as they were.
Fails ==
  /\ Ends("error")
  /\ IF op = "update" THEN state' = [state EXCEPT !.nodes = config]
                      ELSE UNCHANGED state
  /\ UNCHANGED <<exists, tainted>>

Counts == trouble < MaxTrouble /\ trouble' = trouble + 1

\* Faulty: Delete goes the way of Update.
LoadToDeploy ==
  /\ step = "load" /\ dataNodes \subseteq up
  /\ net' = [nodes |-> dataNodes, ids |-> state.ids, pub |-> state.pub]
  /\ step' = IF op = "read" THEN "invalidate" ELSE "deploy"
  /\ UNCHANGED <<chainVars, up, config, stateVars, op, failed, last, histVars, trouble>>

\* newNetwork asks every listed node for its features (isZosLight), in every
\* handler; the hidden node it does not ask.
Load ==
  /\ step = "load" /\ dataNodes \subseteq up
  /\ net' = [nodes |-> dataNodes, ids |-> state.ids, pub |-> state.pub]
  /\ step' = CASE op = "read" -> "invalidate" [] op = "delete" -> "cancel"
               [] OTHER -> "deploy"
  /\ UNCHANGED <<chainVars, up, config, stateVars, op, failed, last, histVars, trouble>>

LoadFails ==
  /\ step = "load"
  /\ IF dataNodes \subseteq up THEN Counts ELSE UNCHANGED trouble
  /\ Fails
  /\ UNCHANGED <<chainVars, up, config, histVars>>

-----------------------------------------------------------------------------
(* The grid client.                                                        *)

Ids == DOMAIN net.ids
Needed(pub) == net.nodes \cup ({pub} \ {NoNode})

\* Contracts are made for the nodes of `more', and those of `less' cancelled.
Deploys(more, less, pub) ==
  LET fresh == made + 1 .. made + Cardinality(more) IN
  /\ made' = made + Cardinality(more)
  /\ \E new \in Bijection(more, fresh) :
       /\ net' = [net EXCEPT !.pub = pub, !.ids =
            [n \in (Ids \cup more) \ less |->
               IF n \in more THEN new[n] ELSE net.ids[n]]]
       /\ live' = [c \in (DOMAIN live \cup fresh) \ {net.ids[n] : n \in less} |->
                     IF c \in fresh THEN CHOOSE n \in more : new[n] = c ELSE live[c]]

AllKeptLive(pub) == \A n \in Ids \cap Needed(pub) : net.ids[n] \in DOMAIN live

Deploy ==
  /\ step = "deploy" /\ step' = "store"
  /\ \E pub \in Node \cup {NoNode} :
       AllKeptLive(pub) /\ Deploys(Needed(pub) \ Ids, Ids \ Needed(pub), pub)
  /\ UNCHANGED <<up, config, stateVars, op, failed, last, histVars, trouble>>

\* Deploy fails with part of its work done or reverted; the ids of the network
\* are those of the contracts in place.  Create returns at once if there are
\* none; otherwise the handler stores what there is.
PartlyDeploys ==
  \E pub \in Node \cup {NoNode} :
    \E more \in SUBSET (Needed(pub) \ Ids), less \in SUBSET (Ids \ Needed(pub)) :
      Deploys(more, less, pub)

CanDeploy == \A n \in Ids : net.ids[n] \in DOMAIN live

\* Faulty: the error of Deploy does not reach Terraform.
DeployFailsQuietly ==
  /\ step = "deploy" /\ step' = "store"
  /\ IF CanDeploy THEN Counts ELSE UNCHANGED trouble
  /\ PartlyDeploys
  /\ op = "create" => net'.ids # NoIds
  /\ UNCHANGED <<up, config, stateVars, op, failed, last, histVars>>

DeployFails ==
  /\ step = "deploy" /\ step' = "store" /\ failed' = TRUE
  /\ IF CanDeploy THEN Counts ELSE UNCHANGED trouble
  /\ PartlyDeploys
  /\ op = "create" => net'.ids # NoIds
  /\ UNCHANGED <<up, config, stateVars, op, last, histVars>>

\* Faulty: Create returns at once on any error of Deploy.
CreateGivesUp ==
  /\ step = "deploy" /\ op = "create" /\ Counts /\ Fails
  /\ made' = made + 1
  /\ \E n \in net.nodes :
       live' = [c \in DOMAIN live \cup {made'} |-> IF c = made' THEN n ELSE live[c]]
  /\ UNCHANGED <<up, config, histVars>>

CreateFails ==
  /\ step = "deploy" /\ op = "create" /\ Counts /\ Fails
  /\ UNCHANGED <<chainVars, up, config, histVars>>

\* Cancel of all the contracts: Delete clears the resource's id.
Cancel ==
  /\ step = "cancel"
  /\ live' = [c \in DOMAIN live \ Range(net.ids) |-> live[c]]
  /\ exists' = FALSE /\ tainted' = FALSE /\ state' = Nothing
  /\ Ends("deleted")
  /\ UNCHANGED <<made, up, config, histVars, trouble>>

\* Cancel fails with some of them cancelled.
CancelFails ==
  /\ step = "cancel" /\ Counts /\ step' = "store" /\ failed' = TRUE
  /\ \E less \in SUBSET Ids : Deploys({}, less, net.pub)
  /\ UNCHANGED <<up, config, stateVars, op, last, histVars>>

\* InvalidateBrokenAttributes drops the contracts that live no more, and a
\* public node it does not reach.
Invalidate ==
  /\ step = "invalidate" /\ step' = "store"
  /\ \E pub \in {net.pub, NoNode} :
       net' = [net EXCEPT !.pub = pub,
                 !.ids = Restrict(net.ids, {n \in Ids : net.ids[n] \in DOMAIN live})]
  /\ UNCHANGED <<chainVars, up, config, stateVars, op, failed, last, histVars, trouble>>

InvalidateFails ==
  /\ step = "invalidate" /\ Counts /\ Fails
  /\ UNCHANGED <<chainVars, up, config, histVars>>

-----------------------------------------------------------------------------
\* Faulty: the nodes are stored as they were given.
NodesAsGiven == net.nodes

\* storeState: a listed node stays listed while it has a contract, and a node
\* that has one is listed unless it is the public node.
storedNodes == (net.nodes \cap Ids) \cup (Ids \ {net.pub})

\* Faulty: a handler whose Deploy or Cancel failed returns without storing.
StoreIfWell ==
  /\ step = "store"
  /\ state' = IF failed THEN state ELSE [net EXCEPT !.nodes = storedNodes]
  /\ exists' = TRUE /\ tainted' = (tainted \/ (op = "create" /\ failed))
  /\ Ends(IF failed THEN "error" ELSE IF op = "read" THEN "refreshed" ELSE "applied")
  /\ UNCHANGED <<chainVars, up, config, histVars, trouble>>

Store ==
  /\ step = "store"
  /\ state' = [net EXCEPT !.nodes = storedNodes]
  /\ exists' = TRUE /\ tainted' = (tainted \/ (op = "create" /\ failed))
  /\ Ends(IF failed THEN "error" ELSE IF op = "read" THEN "refreshed" ELSE "applied")
  /\ UNCHANGED <<chainVars, up, config, histVars, trouble>>

\* The provider is killed: Terraform keeps the state it had.
Kill ==
  /\ ~Idle /\ Counts /\ Ends("killed") /\ told' = told \cup DOMAIN live
  /\ UNCHANGED <<chainVars, up, config, stateVars, quiet>>

\* A contract runs out of funds, or is cancelled by other means.
Expire ==
  /\ Counts
  /\ \E c \in DOMAIN live : live' = Restrict(live, DOMAIN live \ {c})
  /\ quiet' = FALSE
  /\ UNCHANGED <<made, up, config, stateVars, opVars, last, told>>

Outage ==
  /\ Counts
  /\ \E n \in Node : up' = IF n \in up THEN up \ {n} ELSE up \cup {n}
  /\ UNCHANGED <<chainVars, config, stateVars, opVars, last, histVars>>

Next ==
  \/ Edit \/ Create \/ Update \/ Read \/ Delete
  \/ Load \/ LoadFails \/ Deploy \/ DeployFails \/ CreateFails
  \/ Cancel \/ CancelFails \/ Invalidate \/ InvalidateFails \/ Store
  \/ Kill \/ Expire \/ Outage

Spec == Init /\ [][Next]_vars

-----------------------------------------------------------------------------
(* Properties.                                                             *)

Deployments == UNION {[N -> ContractId] : N \in SUBSET Node}
Known == [nodes : SUBSET Node, ids : Deployments, pub : Node \cup {NoNode}]

ChainType ==
  /\ made \in 0 .. MaxContract /\ trouble \in 0 .. MaxTrouble
  /\ DOMAIN live \subseteq 1 .. made /\ live \in [DOMAIN live -> Node]

StateType ==
  /\ up \subseteq Node /\ config \subseteq Node /\ config # {}
  /\ exists \in BOOLEAN /\ tainted \in BOOLEAN
  /\ state \in Known
  /\ ~exists => (state = Nothing /\ ~tainted)
  /\ last \in {"none", "error", "killed", "refreshed", "deleted", "applied"}
  /\ quiet \in BOOLEAN /\ told \subseteq ContractId

HandlerType ==
  /\ op \in {"none", "create", "read", "update", "delete"}
  /\ step \in {"none", "load", "deploy", "cancel", "invalidate", "store"}
  /\ op = "none" <=> step = "none"
  /\ step = "deploy" => op \in {"create", "update"}
  /\ step = "cancel" => op = "delete"
  /\ step = "invalidate" => op = "read"
  /\ op = "update" => exists
  /\ net \in Known /\ failed \in BOOLEAN

\* Every variable keeps its type, a resource that does not exist records no
\* contract, and the next call of a handler is one its code makes.
TypeOK == ChainType /\ StateType /\ HandlerType

Recorded == Range(state.ids)

\* The state lets go of a contract that lives, and would be paid for, in no
\* step: whatever fails, and whenever the provider is killed.
NeverForgetsLive == [][Recorded \cap DOMAIN live' \subseteq Recorded']_vars

\* At rest, every contract that lives is one the state records, or was there when
\* a handler was killed: a Deploy or Cancel that fails half way orphans none.
NothingOrphaned == Idle => DOMAIN live \subseteq Recorded \cup told

Ledger == INSTANCE Contracts WITH alive <- DOMAIN live, used <- made, recorded <- Recorded,
            busy <- ~Idle

\* The resource accounts for its contracts as Contracts wants: whatever fails, and
\* whenever the provider is killed.
ImplementsContracts == Ledger!Spec

\* An apply that reports success has a contract alive on every node the user
\* listed, and on no other that the state records but the public node, however
\* earlier applies ended, unless a contract expired under its hands.
AppliedIsDeployed ==
  (last = "applied" /\ quiet) =>
    /\ state.nodes = config
    /\ config \subseteq DOMAIN state.ids
    /\ DOMAIN state.ids \subseteq config \cup {state.pub}
    /\ \A n \in DOMAIN state.ids :
         state.ids[n] \in DOMAIN live /\ live[state.ids[n]] = n

\* After a Read without an error the state lists the nodes that have a contract
\* alive, and no other, so that the next plan brings back what expired and
\* removes what a failed apply left; the public node alone may stay unlisted.
RefreshIsTruth ==
  (last = "refreshed" /\ quiet) =>
    /\ \A n \in DOMAIN state.ids :
         state.ids[n] \in DOMAIN live /\ live[state.ids[n]] = n
    /\ state.nodes \subseteq DOMAIN state.ids
    /\ DOMAIN state.ids \ state.nodes \subseteq {state.pub}
=============================================================================
