------------------------------ MODULE Kubernetes ------------------------------
(***************************************************************************)
(* One grid_kubernetes resource: the handlers of resource_k8s.go, what     *)
(* Terraform makes of their answers, and the cluster's contracts, one for  *)
(* each node that runs the master or workers.                              *)
(*                                                                         *)
(* Unlike a network's, these handlers store nothing when Deploy fails.     *)
(* Deploy, Cancel, Validate, InvalidateBrokenAttributes and                *)
(* UpdateFromRemote are the grid client's: they are modelled by what the   *)
(* handlers rely on.                                                       *)
(***************************************************************************)
EXTENDS Integers, FiniteSets, Functions

CONSTANTS
  Node,         \* ids of the nodes
  Name, Seed,   \* names of the machines, and their mycelium seeds
  BadSeeds,     \* the seeds that are not hexadecimal
  Clusters,     \* clusters the user may write
  MaxContract,  \* bound on the contracts made: no apply begins beyond it
  MaxTrouble    \* bound on failures, kills, expiries and outages

VM == [name : Name, node : Node, seed : Seed]
\* What storeK8sState writes for a master that is nil.
EmptyVM == [name |-> "", node |-> 0, seed |-> ""]
Machine == VM \cup {EmptyVM}
NoIds == <<>>   \* an empty node_deployment_id
ContractId == 1 .. MaxContract

\* A cluster a handler works on has its master, or none (a nil one) once the master's
\* contract is gone.
ClusterType == [master : SUBSET VM, workers : SUBSET VM]
machines(c) == c.master \cup c.workers
nodesOf(vms) == {v.node : v \in vms}

ASSUME KubernetesAssumption ==
  /\ MaxContract \in Nat /\ MaxTrouble \in Nat /\ IsFiniteSet(Node)
  /\ 0 \notin Node
  /\ Clusters \subseteq ClusterType
  /\ \A c \in Clusters :
       /\ \E v \in VM : c.master = {v} /\ v \notin c.workers
       /\ \A v, w \in machines(c) : v.name = w.name => v = w

ASSUME SeedsAssumption == BadSeeds \subseteq Seed /\ EmptyVM.seed \notin BadSeeds

VARIABLES
  live,         \* contract id -> [node, vms], for the contracts that live
  made,         \* contracts made so far
  up,           \* nodes that answer
  config,       \* the cluster the user wants
  exists,       \* the resource is in Terraform's state
  state,        \* its [master, workers, ids]: ids is node_deployment_id
  op, step,     \* the handler at work, and its next call
  k8s,          \* its cluster: [master, workers, ids]
  last,         \* how the last handler ended
  quiet,        \* history: no contract has expired since the handler began
  told,         \* history: contracts there were when a Create or Update returned
                \* an error, or a handler died
  trouble       \* what went wrong so far

chainVars == <<live, made>>
stateVars == <<exists, state>>
opVars    == <<op, step, k8s>>
histVars  == <<quiet, told>>
vars == <<chainVars, up, config, stateVars, opVars, last, histVars, trouble>>

Idle == op = "none"
Nothing == [master |-> {}, workers |-> {}, ids |-> NoIds]

-----------------------------------------------------------------------------
Init ==
  /\ live = <<>> /\ made = 0 /\ up = Node
  /\ config \in Clusters
  /\ exists = FALSE /\ state = Nothing
  /\ op = "none" /\ step = "none" /\ k8s = Nothing
  /\ last = "none" /\ quiet = TRUE /\ told = {} /\ trouble = 0

Edit ==
  /\ Idle /\ config' \in Clusters \ {config}
  /\ last' = "none"
  /\ UNCHANGED <<chainVars, up, stateVars, opVars, histVars, trouble>>

\* newK8sFromSchema: the cluster of the resource data, with the contracts of the
\* state, and none in a Create.
newK8s(c) == [master |-> c.master, workers |-> c.workers, ids |-> state.ids]

\* Its error: a seed cannot be decoded.
Decodes(c) == \A v \in machines(c) : v.seed \notin BadSeeds

Begins(handler, first, c) ==
  /\ Decodes(c)
  /\ Idle /\ op' = handler /\ step' = first /\ k8s' = newK8s(c)
  /\ last' = "none" /\ quiet' = TRUE
  /\ UNCHANGED <<chainVars, up, config, stateVars, told, trouble>>

HasRoom == made + Cardinality(Node) <= MaxContract
differs == state.master # config.master \/ state.workers # config.workers

Create == ~exists /\ HasRoom /\ Begins("create", "deploy", config)
Update == exists /\ differs /\ HasRoom /\ Begins("update", "deploy", config)
Read   == exists /\ Begins("read", "validate", state)
Delete == exists /\ Begins("delete", "cancel", state)

\* A handler returns newK8sFromSchema's error before it calls anything.  A Create
\* leaves no resource, an Update leaves the cluster it could not load in the state,
\* and there a Read or a Delete cannot load it either.
Refuses ==
  /\ Idle /\ last' = "error"
  /\ \/ ~exists /\ ~Decodes(config) /\ state' = state
     \/ /\ exists /\ differs /\ ~Decodes(config)
        /\ state' = [state EXCEPT !.master = config.master, !.workers = config.workers]
     \/ exists /\ ~Decodes(state) /\ state' = state
  /\ UNCHANGED <<chainVars, up, config, exists, opVars, histVars, trouble>>

Ends(how) == op' = "none" /\ step' = "none" /\ k8s' = Nothing /\ last' = how

\* The handler returns an error and has stored nothing.  After a Create there is
\* no resource; after an Update Terraform keeps the new cluster, and
\* node_deployment_id as it was.
Fails ==
  /\ Ends("error")
  /\ state' = IF op = "update"
              THEN [state EXCEPT !.master = config.master, !.workers = config.workers]
              ELSE state
  /\ told' = IF op \in {"create", "update"} THEN told \cup DOMAIN live' ELSE told
  /\ UNCHANGED <<exists, quiet>>

Counts == trouble < MaxTrouble /\ trouble' = trouble + 1

-----------------------------------------------------------------------------
(* The grid client.                                                        *)

Ids == DOMAIN k8s.ids
Needed == nodesOf(machines(k8s))
On(n) == {v \in machines(k8s) : v.node = n}
Lives(n) == k8s.ids[n] \in DOMAIN live

NewContracts(nodes) ==
  Bijection(made + 1 .. made + Cardinality(nodes), nodes)

\* The contracts of `new' are made, those of the nodes of `same' updated in place,
\* and those of the nodes of `less' cancelled.
Deploys(new, same, less) ==
  /\ made' = made + Cardinality(DOMAIN new)
  /\ live' = [c \in (DOMAIN live \cup DOMAIN new) \ {k8s.ids[n] : n \in less} |->
       IF c \in DOMAIN new THEN [node |-> new[c], vms |-> On(new[c])]
       ELSE IF \E n \in same : k8s.ids[n] = c
            THEN [live[c] EXCEPT !.vms = On(live[c].node)]
            ELSE live[c]]

\* Faulty: a node's own id is recorded for its contract.
DeployedSwapped(new) ==
  [n \in Needed |-> IF n \in Ids THEN k8s.ids[n] ELSE n]

\* The contracts of the cluster once those of `new' are made.
Deployed(new) ==
  [n \in Needed |-> IF n \in Ids THEN k8s.ids[n] ELSE CHOOSE c \in DOMAIN new : new[c] = n]

Kept == Ids \cap Needed
AllKeptLive == \A n \in Kept : Lives(n)

\* Faulty: machines on nodes that stay are not updated.
DeployNewOnly ==
  /\ step = "deploy" /\ step' = "sync"
  /\ AllKeptLive
  /\ \E new \in NewContracts(Needed \ Ids) :
       /\ Deploys(new, {}, Ids \ Needed)
       /\ k8s' = [k8s EXCEPT !.ids = Deployed(new)]
  /\ UNCHANGED <<up, config, stateVars, op, last, histVars, trouble>>

Deploy ==
  /\ step = "deploy" /\ step' = "sync"
  /\ AllKeptLive
  /\ \E new \in NewContracts(Needed \ Ids) :
       /\ Deploys(new, Kept, Ids \ Needed)
       /\ k8s' = [k8s EXCEPT !.ids = Deployed(new)]
  /\ UNCHANGED <<up, config, stateVars, op, last, histVars, trouble>>

\* Deploy fails with part of its work done, or reverted, and the handler stores
\* nothing of what is left.
DeployFails ==
  /\ step = "deploy"
  /\ IF AllKeptLive THEN Counts ELSE UNCHANGED trouble
  /\ \E more \in SUBSET (Needed \ Ids), less \in SUBSET (Ids \ Needed),
        same \in SUBSET {n \in Kept : Lives(n)} :
       \E new \in NewContracts(more) : Deploys(new, same, less)
  /\ Fails
  /\ UNCHANGED <<up, config>>

\* Cancel, and the id of the resource is cleared.
Cancel ==
  /\ step = "cancel"
  /\ Deploys(<<>>, {}, Ids)
  /\ Ends("deleted")
  /\ exists' = FALSE /\ state' = Nothing
  /\ UNCHANGED <<up, config, histVars, trouble>>

\* Faulty: the id is cleared although some contracts could not be cancelled.
CancelGivesUp ==
  /\ step = "cancel" /\ Counts
  /\ \E less \in SUBSET Ids : Deploys(<<>>, {}, less)
  /\ Ends("deleted")
  /\ exists' = FALSE /\ state' = Nothing
  /\ UNCHANGED <<up, config, histVars>>

CancelFails ==
  /\ step = "cancel" /\ Counts
  /\ \E less \in SUBSET Ids : Deploys(<<>>, {}, less)
  /\ Fails
  /\ UNCHANGED <<up, config>>

Goes(next) ==
  /\ step' = next
  /\ UNCHANGED <<chainVars, up, config, stateVars, op, last, histVars, trouble>>

GivesUp(forced) ==
  /\ UNCHANGED <<chainVars, up, config>>
  /\ IF forced THEN UNCHANGED trouble ELSE Counts
  /\ Fails

\* A Read asks the nodes of the machines first ...
Validate ==
  /\ step = "validate" /\ Needed \subseteq up
  /\ Goes("invalidate") /\ UNCHANGED k8s

\* ... and is an error while one of them does not answer, as node 0, of an empty
\* machine, never does.
ValidateFails == step = "validate" /\ GivesUp(~(Needed \subseteq up))

\* Faulty: the contract of a node that does not answer is taken for a dead one.
InvalidateDown ==
  /\ step = "invalidate" /\ Goes("sync")
  /\ LET nodes == {n \in Ids : Lives(n) /\ n \in up}
         valid(vms) == {v \in vms : v.node \in nodes}
     IN k8s' = [master |-> valid(k8s.master), workers |-> valid(k8s.workers),
                ids |-> Restrict(k8s.ids, nodes)]

\* InvalidateBrokenAttributes: the contracts that are gone, with their machines.
Invalidate ==
  /\ step = "invalidate" /\ Goes("sync")
  /\ LET nodes == {n \in Ids : Lives(n)}
         valid(vms) == {v \in vms : v.node \in nodes}
     IN k8s' = [master |-> valid(k8s.master), workers |-> valid(k8s.workers),
                ids |-> Restrict(k8s.ids, nodes)]

InvalidateFails == step = "invalidate" /\ GivesUp(FALSE)

\* What the cluster's contracts run; of two machines of one name, one is seen.
Runs == UNION {live[k8s.ids[n]].vms : n \in {n \in Ids : Lives(n)}}
Names(vms) == {v.name : v \in vms}
Seen(vms) == {seen \in SUBSET vms : /\ Names(seen) = Names(vms)
                                    /\ Cardinality(seen) = Cardinality(Names(vms))}

\* Faulty: the master is found by its node.
UpdateByNode ==
  /\ step = "sync" /\ Goes("store")
  /\ \E seen \in Seen(Runs) :
       LET master == {v \in seen : v.node \in nodesOf(k8s.master)} IN
       k8s' = [master |-> master, workers |-> seen \ master,
               ids |-> Restrict(k8s.ids, {n \in Ids : Lives(n)})]

\* UpdateFromRemote: the master is the machine of its name, if there is one; every
\* other machine is a worker.
UpdateFromRemote ==
  /\ step = "sync" /\ Goes("store")
  /\ \E seen \in Seen(Runs) :
       LET master == {v \in seen : v.name \in Names(k8s.master)} IN
       k8s' = [master |-> master, workers |-> seen \ master,
               ids |-> Restrict(k8s.ids, {n \in Ids : Lives(n)})]

\* In a Create or Update its error loses what Deploy made; in a Read it is a
\* warning, and nothing is stored.
UpdateFromRemoteFails ==
  /\ step = "sync"
  /\ IF op = "read"
     THEN /\ Counts /\ Ends("warned")
          /\ UNCHANGED <<chainVars, up, config, stateVars, histVars>>
     ELSE GivesUp(FALSE)

-----------------------------------------------------------------------------
\* What is written of a cluster: an empty machine for a nil master, and the workers
\* with the seed of the master.
written ==
  [master |-> IF k8s.master = {} THEN {EmptyVM} ELSE k8s.master,
   workers |-> {[w EXCEPT !.seed = s] : w \in k8s.workers, s \in {m.seed : m \in k8s.master}},
   ids |-> k8s.ids]

\* Faulty: a Read leaves the contracts that the state had in it.
storeOldIds ==
  /\ step = "store" /\ (k8s.workers # {} => k8s.master # {})
  /\ exists' = TRUE
  /\ state' = [written EXCEPT !.ids = IF op = "read" THEN state.ids ELSE k8s.ids]
  /\ Ends(IF op = "read" THEN "refreshed" ELSE "applied")
  /\ UNCHANGED <<chainVars, up, config, histVars, trouble>>

\* Create gives the resource its id even if a field cannot be set.
storeK8sState ==
  /\ step = "store" /\ (k8s.workers # {} => k8s.master # {})
  /\ exists' = TRUE
  /\ state' = written
  /\ Ends(IF op = "read" THEN "refreshed" ELSE "applied")
  /\ UNCHANGED <<chainVars, up, config, histVars, trouble>>

Dies(how) ==
  /\ Ends(how) /\ told' = told \cup DOMAIN live
  /\ UNCHANGED <<chainVars, up, config, stateVars, quiet>>

\* With workers and no master, the seeds are read from a nil master, before the
\* check that there is one: the provider panics.
StorePanics ==
  /\ step = "store" /\ k8s.workers # {} /\ k8s.master = {}
  /\ Dies("panicked") /\ UNCHANGED trouble

-----------------------------------------------------------------------------
(* The world outside.                                                      *)

\* The process dies: Terraform keeps the state it had.
Kill == ~Idle /\ Counts /\ Dies("killed")

\* A contract ends: its node bills it in vain, or its owner cancels it elsewhere.
Expire ==
  /\ Counts
  /\ \E c \in DOMAIN live : live' = Restrict(live, DOMAIN live \ {c})
  /\ quiet' = FALSE
  /\ UNCHANGED <<made, up, config, stateVars, opVars, last, told>>

Outage ==
  /\ \E n \in Node : \/ n \in up /\ up' = up \ {n} /\ Counts
                     \/ n \notin up /\ up' = up \cup {n} /\ UNCHANGED trouble
  /\ UNCHANGED <<chainVars, config, stateVars, opVars, last, histVars>>

Next ==
  \/ Edit \/ Create \/ Update \/ Read \/ Delete \/ Refuses
  \/ Deploy \/ DeployFails \/ Cancel \/ CancelFails
  \/ Validate \/ ValidateFails \/ Invalidate \/ InvalidateFails
  \/ UpdateFromRemote \/ UpdateFromRemoteFails
  \/ storeK8sState \/ StorePanics
  \/ Kill \/ Expire \/ Outage

Spec == Init /\ [][Next]_vars

-----------------------------------------------------------------------------
(* Properties.                                                             *)

IdsType == UNION {[N -> ContractId] : N \in SUBSET Node}
K8sType == [master : SUBSET Machine, workers : SUBSET VM, ids : IdsType]

ChainType ==
  /\ made \in 0 .. MaxContract /\ trouble \in 0 .. MaxTrouble
  /\ DOMAIN live \subseteq 1 .. made
  /\ live \in [DOMAIN live -> [node : Node, vms : SUBSET VM]]

StateType ==
  /\ up \subseteq Node /\ config \in Clusters
  /\ exists \in BOOLEAN /\ state \in K8sType
  /\ last \in {"none", "error", "deleted", "warned", "refreshed", "applied",
               "panicked", "killed"}
  /\ quiet \in BOOLEAN /\ told \subseteq ContractId

HandlerType ==
  /\ op \in {"none", "create", "update", "read", "delete"}
  /\ step \in {"none", "deploy", "cancel", "validate", "invalidate", "sync", "store"}
  /\ op = "none" <=> step = "none"
  /\ step = "deploy" => op \in {"create", "update"}
  /\ step = "cancel" <=> op = "delete"
  /\ step \in {"validate", "invalidate"} => op = "read"
  /\ k8s \in K8sType
  /\ step \in {"deploy", "invalidate", "sync", "store"} => k8s.master \subseteq VM

\* Every variable keeps its type, no contract is ahead of those made, the next
\* call of a handler is one its code makes, and an empty machine, once in the state,
\* gets no further than a Validate or a Cancel.
TypeOK == ChainType /\ StateType /\ HandlerType

Recorded == Range(state.ids)

\* A contract that lives while no handler is at work is in the state, unless a
\* Create or Update has returned an error, or a handler has died, since it was
\* made: the user was told of every contract that Terraform will never cancel.
OrphansAreReported == Idle => DOMAIN live \subseteq Recorded \cup told

Ledger == INSTANCE Contracts WITH alive <- DOMAIN live, used <- made, recorded <- Recorded,
  busy <- ~Idle

\* The resource accounts for its contracts as Contracts wants: whatever fails, and
\* whenever the provider dies, the state lets go of no contract that lives.
ImplementsContracts == Ledger!Spec

\* After an apply each node of the cluster has a contract of its own that runs
\* the machines written for it, seeds and all, and no other contract is
\* recorded, whatever an earlier handler left half done.
AppliedIsDeployed ==
  (last = "applied" /\ quiet) =>
    /\ DOMAIN state.ids = nodesOf(machines(config))
    /\ \A n \in DOMAIN state.ids :
         /\ state.ids[n] \in DOMAIN live
         /\ live[state.ids[n]].vms = {v \in machines(config) : v.node = n}

\* The state after an apply is the cluster the user wrote, so that the next plan
\* is empty, as long as no worker has a seed that is not the master's.
AppliedIsRecorded ==
  (last = "applied" /\ quiet
     /\ \A w \in config.workers, m \in config.master : w.seed = m.seed) => ~differs

\* After a Read that stored anything, the state lists contracts that live, and the
\* machines they run, one of each name, apart from the seeds of the workers and the
\* empty machine that stands for a master that is gone.
RefreshIsTruth ==
  (last = "refreshed" /\ quiet) =>
    LET runs == UNION {live[c].vms : c \in Recorded}
        shown == machines(state) \ {EmptyVM}
        seedless(vms) == {[name |-> v.name, node |-> v.node] : v \in vms}
    IN /\ Recorded \subseteq DOMAIN live
       /\ seedless(shown) \subseteq seedless(runs)
       /\ Names(shown) = Names(runs)
       /\ state.master \ {EmptyVM} \subseteq runs
=============================================================================
