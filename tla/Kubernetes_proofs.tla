-------------------------- MODULE Kubernetes_proofs --------------------------
(***************************************************************************)
(* Proofs about Kubernetes: its types, that it accounts for its contracts  *)
(* as Contracts wants, and that what an apply or a refresh reports is so.  *)
(***************************************************************************)
EXTENDS Kubernetes, FiniteSetTheorems, TLAPS

LEMMA IdsIs ==
  ASSUME NEW ids
  PROVE  ids \in IdsType <=>
           DOMAIN ids \subseteq Node /\ ids \in [DOMAIN ids -> ContractId]
BY DEF IdsType

LEMMA NothingIs ==
  /\ DOMAIN NoIds = {} /\ Range(NoIds) = {} /\ NoIds \in IdsType
  /\ Nothing \in K8sType /\ Nothing.ids = NoIds
<1>1. DOMAIN NoIds = {}
  BY DEF NoIds
<1>2. NoIds \in [{} -> ContractId]
  BY <1>1 DEF NoIds
<1>3. NoIds \in IdsType
  BY <1>1, <1>2, IdsIs
<1> QED BY <1>1, <1>3 DEF Range, Nothing, K8sType

LEMMA ClustersAre ==
  ASSUME NEW c \in Clusters
  PROVE  c.master \in SUBSET VM /\ c.workers \in SUBSET VM
BY KubernetesAssumption DEF ClusterType

LEMMA EmptyIsNoVM == EmptyVM \notin VM
<1>1. EmptyVM.node = 0 /\ 0 \notin Node
  BY KubernetesAssumption DEF EmptyVM
<1> QED BY <1>1 DEF VM

LEMMA RestrictIs ==
  ASSUME NEW ids \in IdsType, NEW S \in SUBSET DOMAIN ids
  PROVE  /\ Restrict(ids, S) \in IdsType
         /\ DOMAIN Restrict(ids, S) = S
         /\ \A n \in S : Restrict(ids, S)[n] = ids[n]
<1>1. DOMAIN Restrict(ids, S) = S /\ \A n \in S : Restrict(ids, S)[n] = ids[n]
  BY DEF Restrict
<1>2. Restrict(ids, S) \in [S -> ContractId]
  BY IdsIs DEF Restrict
<1>3. S \subseteq Node
  BY IdsIs
<1> QED BY <1>1, <1>2, <1>3, IdsIs

LEMMA CountsType ==
  ASSUME TypeOK, Counts PROVE trouble' \in 0 .. MaxTrouble
BY KubernetesAssumption DEF TypeOK, ChainType, Counts

-----------------------------------------------------------------------------
(* The types, with the room a Deploy needs.                                *)

Room == step = "deploy" => HasRoom

\* New contracts, one for each node of "more".
NewFor(new, more) ==
  /\ DOMAIN new = made + 1 .. made + Cardinality(more)
  /\ \A c \in DOMAIN new : new[c] \in more
  /\ \A n \in more : \E c \in DOMAIN new : new[c] = n
  /\ \A c, d \in DOMAIN new : new[c] = new[d] => c = d

LEMMA NewContractsAre ==
  ASSUME NEW more, NEW new \in NewContracts(more)
  PROVE  NewFor(new, more)
BY DEF NewContracts, NewFor, Bijection, Injection, Surjection, IsInjective

LEMMA NewNone == TypeOK => NewFor(<<>>, {})
<1>1. Cardinality({}) = 0 /\ DOMAIN <<>> = {}
  BY FS_EmptySet
<1>2. TypeOK => made + 1 .. made + 0 = {}
  BY KubernetesAssumption DEF TypeOK, ChainType
<1> QED BY <1>1, <1>2 DEF NewFor

\* What a Deploy or Cancel, whole or in part, does to the contracts.
Gives(new, less) ==
  /\ made' \in 0 .. MaxContract /\ made <= made'
  /\ DOMAIN new = made + 1 .. made'
  /\ DOMAIN live' = (DOMAIN live \cup DOMAIN new) \ {k8s.ids[n] : n \in less}
  /\ live' \in [DOMAIN live' -> [node : Node, vms : SUBSET VM]]
  /\ \A c \in DOMAIN live' : c \in DOMAIN live => live'[c].node = live[c].node
  /\ \A c \in DOMAIN live' : c \in DOMAIN new =>
       live'[c].node = new[c] /\ live'[c].vms = On(new[c])

LEMMA DeploysGives ==
  ASSUME TypeOK, NEW more \in SUBSET Node, NEW new, NewFor(new, more),
         HasRoom \/ more = {}, NEW same, NEW less, Deploys(new, same, less),
         step = "deploy" \/ (more = {} /\ same = {})
  PROVE  Gives(new, less)
<1>1. /\ made \in Nat /\ made <= MaxContract /\ MaxContract \in Nat
      /\ IsFiniteSet(Node) /\ DOMAIN live \subseteq 1 .. made
  BY KubernetesAssumption DEF TypeOK, ChainType
<1>2. /\ IsFiniteSet(more) /\ Cardinality(more) <= Cardinality(Node)
      /\ Cardinality(more) \in Nat /\ Cardinality(Node) \in Nat
  BY <1>1, FS_Subset, FS_CardinalityType
<1>3. made + Cardinality(more) <= MaxContract
  <2>1. CASE HasRoom
    BY <1>1, <1>2, <2>1 DEF HasRoom
  <2>2. CASE more = {}
    <3>1. Cardinality(more) = 0
      BY <2>2, FS_EmptySet
    <3> QED BY <1>1, <3>1
  <2> QED BY <2>1, <2>2
<1>4. DOMAIN new = made + 1 .. made + Cardinality(more)
  BY DEF NewFor
<1>5. Cardinality(DOMAIN new) = Cardinality(more)
  <2>1. CASE Cardinality(more) = 0
    <3>1. DOMAIN new = {}
      BY <1>1, <1>4, <2>1
    <3> QED BY <2>1, <3>1, FS_EmptySet
  <2>2. CASE Cardinality(more) > 0
    <3> DEFINE a == made + 1
               b == made + Cardinality(more)
    <3>1. a \in Int /\ b \in Int /\ ~(a > b) /\ b - a + 1 = Cardinality(more)
      BY <1>1, <1>2, <2>2
    <3> HIDE DEF a, b
    <3>2. Cardinality(a .. b) = b - a + 1
      BY <3>1, FS_Interval
    <3>3. Cardinality(a .. b) = Cardinality(more)
      BY <3>1, <3>2
    <3> USE DEF a, b
    <3> QED BY <1>4, <3>3
  <2> QED BY <1>2, <2>1, <2>2
<1>6. made' = made + Cardinality(more)
  BY <1>5 DEF Deploys
<1>7. made' \in 0 .. MaxContract /\ made <= made' /\ DOMAIN new = made + 1 .. made'
  BY <1>1, <1>2, <1>3, <1>4, <1>6
<1>8. DOMAIN live' = (DOMAIN live \cup DOMAIN new) \ {k8s.ids[n] : n \in less}
  BY DEF Deploys
<1>9. step = "deploy" => \A n : On(n) \in SUBSET VM
  BY DEF On, machines, TypeOK, HandlerType, K8sType
<1>10. \A c \in DOMAIN live' : c \in DOMAIN new =>
         live'[c] = [node |-> new[c], vms |-> On(new[c])]
  BY <1>8 DEF Deploys
<1>11. \A c \in DOMAIN live' : c \in DOMAIN live =>
         \/ live'[c] = live[c]
         \/ step = "deploy" /\ live'[c] = [live[c] EXCEPT !.vms = On(live[c].node)]
  <2>1. \A c \in DOMAIN live : c \notin DOMAIN new
    BY <1>1, <1>7
  <2> QED BY <1>8, <2>1 DEF Deploys
<1>12. \A c \in DOMAIN live : live[c] \in [node : Node, vms : SUBSET VM]
  BY DEF TypeOK, ChainType
<1>13. \A c \in DOMAIN live' : live'[c] \in [node : Node, vms : SUBSET VM]
  <2> SUFFICES ASSUME NEW c \in DOMAIN live'
               PROVE  live'[c] \in [node : Node, vms : SUBSET VM]
    OBVIOUS
  <2>1. CASE c \in DOMAIN new
    <3>1. new[c] \in Node /\ step = "deploy"
      BY <2>1 DEF NewFor
    <3> QED BY <1>9, <1>10, <2>1, <3>1
  <2>2. CASE c \in DOMAIN live
    <3>1. /\ live[c] \in [node : Node, vms : SUBSET VM]
          /\ step = "deploy" => On(live[c].node) \in SUBSET VM
      BY <1>9, <1>12, <2>2
    <3> QED BY <1>11, <2>2, <3>1
  <2> QED BY <1>8, <2>1, <2>2
<1>14. live' \in [DOMAIN live' -> [node : Node, vms : SUBSET VM]]
  <2>1. live' = [c \in DOMAIN live' |-> live'[c]]
    BY DEF Deploys
  <2> QED BY <1>13, <2>1
<1>15. \A c \in DOMAIN live' : c \in DOMAIN live => live'[c].node = live[c].node
  BY <1>11, <1>12
<1>16. \A c \in DOMAIN live' : c \in DOMAIN new =>
         live'[c].node = new[c] /\ live'[c].vms = On(new[c])
  BY <1>10
<1> QED BY <1>7, <1>8, <1>14, <1>15, <1>16 DEF Gives

\* The chain keeps its type through it.
LEMMA GivesChain ==
  ASSUME TypeOK, NEW new, NEW less, Gives(new, less), Counts \/ UNCHANGED trouble
  PROVE  ChainType'
<1>1. made \in Nat /\ made' \in Nat /\ made <= made' /\ DOMAIN live \subseteq 1 .. made
  BY KubernetesAssumption DEF TypeOK, ChainType, Gives
<1>2. DOMAIN live' \subseteq 1 .. made'
  BY <1>1 DEF Gives
<1>3. trouble' \in 0 .. MaxTrouble
  BY CountsType DEF TypeOK, ChainType
<1> QED BY <1>2, <1>3 DEF Gives, ChainType

LEMMA InContractId == ChainType => DOMAIN live \subseteq ContractId
<1> SUFFICES ASSUME ChainType PROVE DOMAIN live \subseteq ContractId
  OBVIOUS
<1>1. made \in 0 .. MaxContract /\ MaxContract \in Nat /\ DOMAIN live \subseteq 1 .. made
  BY KubernetesAssumption DEF ChainType
<1> QED BY <1>1 DEF ContractId

LEMMA BeginsType ==
  ASSUME TypeOK, NEW handler, NEW first, NEW c, Begins(handler, first, c),
         c.master \in SUBSET Machine, c.workers \in SUBSET VM,
         \/ /\ <<handler, first>> \in {<<"create", "deploy">>, <<"update", "deploy">>}
            /\ HasRoom /\ c.master \in SUBSET VM
         \/ <<handler, first>> \in {<<"read", "validate">>, <<"delete", "cancel">>}
  PROVE  TypeOK' /\ Room'
<1>1. k8s' \in K8sType
  BY DEF Begins, newK8s, K8sType, TypeOK, StateType
<1>2. HandlerType'
  BY <1>1 DEF Begins, newK8s, HandlerType
<1>3. StateType'
  BY DEF Begins, stateVars, TypeOK, StateType
<1>4. ChainType'
  BY DEF Begins, chainVars, TypeOK, ChainType
<1>5. Room'
  BY DEF Begins, chainVars, Room, HasRoom
<1> QED BY <1>2, <1>3, <1>4, <1>5 DEF TypeOK

LEMMA GoesType ==
  ASSUME TypeOK, ChainType', UNCHANGED <<up, config, stateVars, op, last, histVars>>,
         k8s' \in K8sType, k8s'.master \in SUBSET VM,
         \/ op = "read" /\ step' \in {"invalidate", "sync"}
         \/ op \in {"create", "update", "read"} /\ step' \in {"sync", "store"}
  PROVE  TypeOK' /\ Room'
<1>1. HandlerType'
  BY DEF TypeOK, HandlerType
<1>2. StateType'
  BY DEF stateVars, histVars, TypeOK, StateType
<1> QED BY <1>1, <1>2 DEF TypeOK, Room

LEMMA EndsType ==
  ASSUME TypeOK, ChainType',
         NEW how \in {"error", "deleted", "warned", "refreshed", "applied", "panicked",
                      "killed"},
         Ends(how), UNCHANGED <<up, config, quiet>>, exists' \in BOOLEAN,
         state' \in K8sType, told' \subseteq ContractId
  PROVE  TypeOK' /\ Room'
<1>1. HandlerType'
  BY NothingIs DEF Ends, Nothing, HandlerType
<1>2. StateType'
  BY DEF Ends, TypeOK, StateType
<1> QED BY <1>1, <1>2 DEF TypeOK, Room, Ends

\* The cluster Terraform keeps of an Update that fails.
LEMMA PlannedIs ==
  ASSUME TypeOK
  PROVE  LET planned == [state EXCEPT !.master = config.master, !.workers = config.workers]
         IN planned \in K8sType /\ planned.ids = state.ids
<1>1. state \in K8sType /\ config.master \in SUBSET VM /\ config.workers \in SUBSET VM
  BY ClustersAre DEF TypeOK, StateType
<1>2. [state EXCEPT !.master = config.master, !.workers = config.workers] \in K8sType
  BY <1>1 DEF K8sType, Machine
<1>3. [state EXCEPT !.master = config.master, !.workers = config.workers].ids = state.ids
  BY <1>1 DEF K8sType
<1> QED BY <1>2, <1>3

LEMMA RefusesState ==
  ASSUME TypeOK, Refuses
  PROVE  state' \in K8sType /\ state'.ids = state.ids
<1>1. state \in K8sType
  BY DEF TypeOK, StateType
<1>2. state' \in {state, [state EXCEPT !.master = config.master, !.workers = config.workers]}
  BY DEF Refuses
<1> QED BY <1>1, <1>2, PlannedIs

\* What the state keeps of a handler that fails.
LEMMA FailsState ==
  ASSUME TypeOK, Fails
  PROVE  state' \in K8sType /\ state'.ids = state.ids
<1>1. state \in K8sType
  BY DEF TypeOK, StateType
<1>2. state' \in {state, [state EXCEPT !.master = config.master, !.workers = config.workers]}
  BY DEF Fails
<1> QED BY <1>1, <1>2, PlannedIs

LEMMA FailsType ==
  ASSUME TypeOK, ChainType', Fails, UNCHANGED <<up, config>>
  PROVE  TypeOK' /\ Room'
<1>1. DOMAIN live' \subseteq ContractId
  <2>1. made' \in 0 .. MaxContract /\ MaxContract \in Nat /\ DOMAIN live' \subseteq 1 .. made'
    BY KubernetesAssumption DEF ChainType
  <2> QED BY <2>1 DEF ContractId
<1>2. told' \subseteq ContractId /\ exists' \in BOOLEAN /\ quiet' = quiet /\ Ends("error")
  BY <1>1 DEF Fails, TypeOK, StateType
<1> QED BY <1>2, FailsState, EndsType

LEMMA DiesType ==
  ASSUME TypeOK, ChainType', NEW how \in {"panicked", "killed"}, Dies(how)
  PROVE  TypeOK' /\ Room'
<1>1. told' \subseteq ContractId /\ exists' \in BOOLEAN /\ state' \in K8sType
  BY InContractId DEF Dies, TypeOK, StateType, stateVars
<1> QED BY <1>1, EndsType DEF Dies

LEMMA KubernetesInit == Init => TypeOK /\ Room
<1> SUFFICES ASSUME Init PROVE TypeOK /\ Room
  OBVIOUS
<1>1. DOMAIN live = {}
  BY DEF Init
<1>2. ChainType
  <2>1. live \in [DOMAIN live -> [node : Node, vms : SUBSET VM]]
    BY <1>1 DEF Init
  <2> QED BY <1>1, <2>1, KubernetesAssumption DEF Init, ChainType
<1>3. StateType /\ HandlerType
  BY NothingIs DEF Init, StateType, HandlerType
<1> QED BY <1>2, <1>3 DEF TypeOK, Room, Init

\* The machines that are deployed are on nodes.
LEMMA NeededIs ==
  ASSUME TypeOK, step = "deploy"
  PROVE  Needed \in SUBSET Node
BY DEF Needed, nodesOf, machines, VM, TypeOK, HandlerType, K8sType

\* The contracts a failed Deploy or Cancel, or a whole one, changes.
LEMMA DeploySteps ==
  ASSUME TypeOK, Room, Deploy \/ DeployFails \/ Cancel \/ CancelFails
  PROVE  \E new, less : /\ Gives(new, less) /\ less \in SUBSET Ids
                        /\ Deploy => less = Ids \ Needed
                        /\ Cancel => less = Ids /\ DOMAIN new = {}
<1>1. step = "deploy" => Needed \ Ids \in SUBSET Node
  BY NeededIs
<1>2. CASE Deploy
  <2>1. PICK new \in NewContracts(Needed \ Ids) : Deploys(new, Kept, Ids \ Needed)
    BY <1>2 DEF Deploy
  <2>2. Gives(new, Ids \ Needed) /\ ~Cancel
    BY <1>1, <1>2, <2>1, NewContractsAre, DeploysGives DEF Room, Deploy, Cancel
  <2> QED BY <2>2
<1>3. CASE DeployFails
  <2>1. PICK more \in SUBSET (Needed \ Ids), less \in SUBSET (Ids \ Needed),
             same \in SUBSET {n \in Kept : Lives(n)} :
               \E new \in NewContracts(more) : Deploys(new, same, less)
    BY <1>3 DEF DeployFails
  <2>2. PICK new \in NewContracts(more) : Deploys(new, same, less)
    BY <2>1
  <2>3. Gives(new, less)
    BY <1>1, <1>3, <2>2, NewContractsAre, DeploysGives DEF Room, DeployFails
  <2>4. ~Cancel /\ ~Deploy
    BY <1>3 DEF DeployFails, Cancel, Deploy, Fails, Ends
  <2> QED BY <2>3, <2>4
<1>4. CASE Cancel \/ CancelFails
  <2>1. PICK less \in SUBSET Ids : Deploys(<<>>, {}, less) /\ (Cancel => less = Ids)
    BY <1>4 DEF Cancel, CancelFails
  <2>2. Gives(<<>>, less) /\ DOMAIN <<>> = {} /\ ~Deploy
    BY <1>4, <2>1, NewNone, DeploysGives DEF Cancel, CancelFails, Deploy
  <2> QED BY <2>1, <2>2
<1> QED BY <1>2, <1>3, <1>4

\* Deploy: the new contracts, and the one each node of the cluster then has.
DeploysAll(new) ==
  /\ NewFor(new, Needed \ Ids) /\ Gives(new, Ids \ Needed)
  /\ Deploys(new, Kept, Ids \ Needed)
  /\ k8s' = [k8s EXCEPT !.ids = Deployed(new)]

LEMMA DeployIs ==
  ASSUME TypeOK, Room, Deploy
  PROVE  \E new : DeploysAll(new)
<1>1. Needed \ Ids \in SUBSET Node /\ step = "deploy"
  BY NeededIs DEF Deploy
<1>2. PICK new \in NewContracts(Needed \ Ids) :
        /\ Deploys(new, Kept, Ids \ Needed)
        /\ k8s' = [k8s EXCEPT !.ids = Deployed(new)]
  BY DEF Deploy
<1>3. NewFor(new, Needed \ Ids)
  BY <1>2, NewContractsAre
<1>4. HasRoom
  BY DEF Deploy, Room
<1> QED BY <1>1, <1>2, <1>3, <1>4, DeploysGives DEF DeploysAll

LEMMA DeployedIs ==
  ASSUME TypeOK, step = "deploy", NEW new, DeploysAll(new)
  PROVE  /\ k8s' \in K8sType /\ k8s'.ids \in IdsType
         /\ k8s'.master = k8s.master /\ k8s'.workers = k8s.workers
         /\ DOMAIN k8s'.ids = Needed
         /\ \A n \in Kept : k8s'.ids[n] = k8s.ids[n]
         /\ \A n \in Needed \ Ids : k8s'.ids[n] \in DOMAIN new /\ new[k8s'.ids[n]] = n
<1> DEFINE ids == Deployed(new)
<1>1. /\ k8s \in K8sType /\ k8s.ids \in IdsType
      /\ Ids \subseteq Node /\ k8s.ids \in [Ids -> ContractId]
  BY IdsIs DEF TypeOK, HandlerType, K8sType, Ids
<1>2. DOMAIN new \subseteq ContractId
  <2>1. made \in Nat /\ made' \in 0 .. MaxContract /\ MaxContract \in Nat
        /\ DOMAIN new = made + 1 .. made'
    BY KubernetesAssumption DEF TypeOK, ChainType, DeploysAll, Gives
  <2> QED BY <2>1 DEF ContractId
<1>3. \A n \in Needed \ Ids : ids[n] \in DOMAIN new /\ new[ids[n]] = n
  BY DEF DeploysAll, NewFor, Deployed
<1>4. DOMAIN ids = Needed /\ \A n \in Kept : ids[n] = k8s.ids[n]
  BY DEF Deployed, Kept
<1>5. Needed \subseteq Node
  BY NeededIs
<1>6. ids \in [Needed -> ContractId]
  <2>1. \A n \in Needed : ids[n] \in ContractId
    BY <1>1, <1>2, <1>3, <1>4 DEF Kept
  <2> QED BY <2>1 DEF Deployed
<1>7. ids \in IdsType
  BY <1>4, <1>5, <1>6, IdsIs
<1> HIDE DEF ids
<1>8. k8s' = [k8s EXCEPT !.ids = ids]
  BY DEF DeploysAll, ids
<1>9. k8s' \in K8sType /\ k8s'.ids = ids
      /\ k8s'.master = k8s.master /\ k8s'.workers = k8s.workers
  BY <1>1, <1>7, <1>8 DEF K8sType
<1> QED BY <1>3, <1>4, <1>7, <1>9

\* An empty machine is on no node that answers.
LEMMA ValidateIs ==
  ASSUME TypeOK, Validate
  PROVE  k8s.master \in SUBSET VM
<1>1. up \subseteq Node /\ 0 \notin Node /\ k8s.master \in SUBSET Machine
  BY KubernetesAssumption DEF TypeOK, StateType, HandlerType, K8sType
<1>2. \A v \in k8s.master : v.node \in Node
  BY <1>1 DEF Validate, Needed, nodesOf, machines
<1>3. EmptyVM.node = 0
  BY DEF EmptyVM
<1> QED BY <1>1, <1>2, <1>3 DEF Machine

LEMMA InvalidateIs ==
  ASSUME TypeOK, Invalidate
  PROVE  /\ k8s' \in K8sType /\ k8s'.master \in SUBSET VM
         /\ k8s'.ids = Restrict(k8s.ids, {n \in Ids : Lives(n)})
<1> DEFINE nodes == {n \in Ids : Lives(n)}
           valid(vms) == {v \in vms : v.node \in nodes}
<1>1. /\ k8s \in K8sType /\ k8s.ids \in IdsType /\ nodes \in SUBSET DOMAIN k8s.ids
      /\ k8s.master \in SUBSET VM
  BY DEF TypeOK, HandlerType, K8sType, Ids, Invalidate
<1>2. k8s' = [master |-> valid(k8s.master), workers |-> valid(k8s.workers),
              ids |-> Restrict(k8s.ids, nodes)]
  BY DEF Invalidate
<1>3. Restrict(k8s.ids, nodes) \in IdsType
  BY <1>1, RestrictIs
<1> QED BY <1>1, <1>2, <1>3 DEF K8sType

LEMMA RunsAre ==
  ASSUME TypeOK
  PROVE  Runs \in SUBSET VM
<1>1. \A c \in DOMAIN live : live[c] \in [node : Node, vms : SUBSET VM]
  BY DEF TypeOK, ChainType
<1> QED BY <1>1 DEF Runs, Lives

LEMMA RemoteIs ==
  ASSUME TypeOK, UpdateFromRemote
  PROVE  /\ k8s' \in K8sType /\ k8s'.master \in SUBSET VM
         /\ k8s'.ids = Restrict(k8s.ids, {n \in Ids : Lives(n)})
<1> DEFINE nodes == {n \in Ids : Lives(n)}
<1>1. k8s \in K8sType /\ k8s.ids \in IdsType /\ nodes \in SUBSET DOMAIN k8s.ids
  BY DEF TypeOK, HandlerType, K8sType, Ids
<1>2. PICK seen \in Seen(Runs) :
        LET master == {v \in seen : v.name \in Names(k8s.master)} IN
        k8s' = [master |-> master, workers |-> seen \ master,
                ids |-> Restrict(k8s.ids, nodes)]
  BY DEF UpdateFromRemote
<1>3. seen \in SUBSET VM
  BY <1>2, RunsAre DEF Seen
<1>4. Restrict(k8s.ids, nodes) \in IdsType
  BY <1>1, RestrictIs
<1> QED BY <1>2, <1>3, <1>4 DEF K8sType, Machine

LEMMA StoreIs ==
  ASSUME TypeOK, storeK8sState
  PROVE  /\ state' \in K8sType
         /\ state'.ids = k8s.ids
         /\ state'.master = IF k8s.master = {} THEN {EmptyVM} ELSE k8s.master
<1> DEFINE seeded == {[w EXCEPT !.seed = s] :
                        w \in k8s.workers, s \in {m.seed : m \in k8s.master}}
           master == IF k8s.master = {} THEN {EmptyVM} ELSE k8s.master
<1>1. k8s \in K8sType /\ k8s.master \in SUBSET VM
  BY DEF TypeOK, HandlerType, storeK8sState
<1>2. seeded \in SUBSET VM
  BY <1>1 DEF K8sType, VM
<1>3. master \in SUBSET Machine
  BY <1>1 DEF Machine
<1>4. state' = [master |-> master, workers |-> seeded, ids |-> k8s.ids]
  BY DEF storeK8sState, written
<1> HIDE DEF seeded, master
<1>5. state' \in K8sType /\ state'.ids = k8s.ids /\ state'.master = master
  BY <1>1, <1>2, <1>3, <1>4 DEF K8sType
<1> QED BY <1>5 DEF master

LEMMA TypeNext == TypeOK /\ Room /\ [Next]_vars => TypeOK' /\ Room'
<1> SUFFICES ASSUME TypeOK, Room, [Next]_vars PROVE TypeOK' /\ Room'
  OBVIOUS
<1>1. ASSUME Counts \/ UNCHANGED trouble, UNCHANGED chainVars PROVE ChainType'
  BY <1>1, CountsType DEF TypeOK, ChainType, chainVars
<1>2. CASE Edit
  <2>1. config' \in Clusters /\ StateType'
    BY <1>2 DEF Edit, TypeOK, StateType, stateVars, histVars
  <2>2. HandlerType' /\ Room'
    BY <1>2 DEF Edit, TypeOK, HandlerType, Room, HasRoom, opVars, chainVars
  <2> QED BY <1>1, <1>2, <2>1, <2>2 DEF Edit, TypeOK
<1>3. CASE Create \/ Update
  <2>1. /\ config.master \in SUBSET VM /\ config.workers \in SUBSET VM
        /\ config.master \in SUBSET Machine
    BY ClustersAre DEF TypeOK, StateType, Machine
  <2> QED BY <1>3, <2>1, BeginsType DEF Create, Update
<1>4. CASE Read \/ Delete
  BY <1>4, BeginsType DEF Read, Delete, TypeOK, StateType, K8sType
<1>17. CASE Refuses
  <2>1. StateType'
    BY <1>17, RefusesState DEF Refuses, TypeOK, StateType, histVars
  <2>2. HandlerType' /\ Room'
    BY <1>17 DEF Refuses, TypeOK, HandlerType, Room, HasRoom, opVars, chainVars
  <2> QED BY <1>1, <1>17, <2>1, <2>2 DEF Refuses, TypeOK
<1>5. CASE Deploy
  <2>1. PICK new : DeploysAll(new)
    BY <1>5, DeployIs
  <2>2. ChainType' /\ k8s' \in K8sType /\ k8s'.master \in SUBSET VM
    BY <1>5, <2>1, GivesChain, DeployedIs DEF Deploy, DeploysAll, TypeOK, HandlerType
  <2>3. op \in {"create", "update"}
    BY <1>5 DEF Deploy, TypeOK, HandlerType
  <2> QED BY <1>5, <2>2, <2>3, GoesType DEF Deploy
<1>6. CASE DeployFails \/ CancelFails
  <2>1. PICK new, less : Gives(new, less)
    BY <1>6, DeploySteps
  <2>2. Counts \/ UNCHANGED trouble
    BY <1>6 DEF DeployFails, CancelFails
  <2>3. ChainType'
    BY <2>1, <2>2, GivesChain
  <2> QED BY <1>6, <2>3, FailsType DEF DeployFails, CancelFails
<1>7. CASE Cancel
  <2>1. PICK new, less : Gives(new, less)
    BY <1>7, DeploySteps
  <2>2. ChainType'
    BY <1>7, <2>1, GivesChain DEF Cancel
  <2>3. told' \subseteq ContractId /\ quiet' = quiet
    BY <1>7 DEF Cancel, histVars, TypeOK, StateType
  <2> QED BY <1>7, <2>2, <2>3, NothingIs, EndsType DEF Cancel
<1>8. CASE Validate \/ Invalidate
  <2>1. k8s' \in K8sType /\ k8s'.master \in SUBSET VM
    BY <1>8, InvalidateIs, ValidateIs DEF Validate, TypeOK, HandlerType
  <2>2. op = "read" /\ step' \in {"invalidate", "sync"}
    BY <1>8 DEF Validate, Invalidate, Goes, TypeOK, HandlerType
  <2>3. ChainType' /\ UNCHANGED <<up, config, stateVars, op, last, histVars>>
    BY <1>1, <1>8 DEF Validate, Invalidate, Goes
  <2> QED BY <2>1, <2>2, <2>3, GoesType
<1>9. CASE UpdateFromRemote
  <2>1. op \in {"create", "update", "read"} /\ step' = "store"
    BY <1>9 DEF UpdateFromRemote, Goes, TypeOK, HandlerType
  <2>2. ChainType' /\ UNCHANGED <<up, config, stateVars, op, last, histVars>>
    BY <1>1, <1>9 DEF UpdateFromRemote, Goes
  <2> QED BY <1>9, <2>1, <2>2, RemoteIs, GoesType
<1>10. CASE ValidateFails \/ InvalidateFails \/ (UpdateFromRemoteFails /\ op # "read")
  <2>1. Fails /\ UNCHANGED <<chainVars, up, config>> /\ (Counts \/ UNCHANGED trouble)
    BY <1>10 DEF ValidateFails, InvalidateFails, UpdateFromRemoteFails, GivesUp
  <2> QED BY <1>1, <2>1, FailsType
<1>11. CASE UpdateFromRemoteFails /\ op = "read"
  <2>1. Ends("warned") /\ UNCHANGED <<chainVars, up, config, stateVars, histVars>> /\ Counts
    BY <1>11 DEF UpdateFromRemoteFails
  <2> QED BY <1>1, <2>1, EndsType DEF stateVars, histVars, TypeOK, StateType
<1>12. CASE storeK8sState
  <2>1. PICK how \in {"refreshed", "applied"} : Ends(how)
    BY <1>12 DEF storeK8sState
  <2>2. /\ ChainType' /\ UNCHANGED <<up, config, quiet>> /\ exists' \in BOOLEAN
        /\ told' \subseteq ContractId
    BY <1>1, <1>12 DEF storeK8sState, histVars, TypeOK, StateType
  <2> QED BY <1>12, <2>1, <2>2, StoreIs, EndsType
<1>13. CASE StorePanics \/ Kill
  <2>1. ChainType'
    BY <1>1, <1>13 DEF StorePanics, Kill, Dies
  <2> QED BY <1>13, <2>1, DiesType DEF StorePanics, Kill
<1>14. CASE Expire
  <2>1. PICK c \in DOMAIN live : live' = Restrict(live, DOMAIN live \ {c})
    BY <1>14 DEF Expire
  <2>2. ChainType'
    BY <1>14, <2>1, CountsType DEF Expire, TypeOK, ChainType, Restrict
  <2>3. StateType' /\ HandlerType' /\ Room'
    BY <1>14 DEF Expire, TypeOK, StateType, HandlerType, Room, HasRoom, stateVars, opVars
  <2> QED BY <2>2, <2>3 DEF TypeOK
<1>15. CASE Outage
  <2>1. StateType' /\ HandlerType' /\ Room'
    BY <1>15 DEF Outage, TypeOK, StateType, HandlerType, Room, HasRoom, chainVars,
       stateVars, opVars, histVars
  <2> QED BY <1>1, <1>15, <2>1 DEF Outage, TypeOK
<1>16. CASE UNCHANGED vars
  BY <1>16 DEF vars, TypeOK, ChainType, StateType, HandlerType, Room, HasRoom, chainVars,
     stateVars, opVars, histVars
<1> QED BY <1>2, <1>3, <1>4, <1>5, <1>6, <1>7, <1>8, <1>9, <1>10, <1>11, <1>12, <1>13,
           <1>14, <1>15, <1>16, <1>17 DEF Next

\* Every variable keeps its type, and a handler makes the calls its code makes, for
\* any nodes, clusters, number of contracts and failures.
THEOREM TypeCorrect == Spec => []TypeOK
<1>1. Spec => [](TypeOK /\ Room)
  BY KubernetesInit, TypeNext, PTL DEF Spec
<1> QED BY <1>1, PTL

-----------------------------------------------------------------------------
(* The account of the contracts.                                           *)

\* The state, or what the user was told, accounts for every contract that lives,
\* but while an apply holds contracts it has not stored: its cluster has those.
\* What a handler stores lets go of no contract of the state that lives.
Accounted ==
  /\ step \notin {"sync", "store"} \/ op = "read" => DOMAIN live \subseteq Recorded \cup told
  /\ step \in {"deploy", "cancel", "validate", "invalidate"} => k8s.ids = state.ids
  /\ step \in {"sync", "store"} =>
       /\ DOMAIN live \subseteq Range(k8s.ids) \cup told
       /\ Recorded \cap DOMAIN live \subseteq Range(k8s.ids)

LEMMA LivingIds ==
  Range(Restrict(k8s.ids, {n \in Ids : Lives(n)})) = Range(k8s.ids) \cap DOMAIN live
BY DEF Range, Restrict, Ids, Lives

\* After a Deploy the cluster has every contract that it had and that lives, and
\* every new one.
LEMMA DeployCovers ==
  ASSUME TypeOK, step = "deploy", NEW new, DeploysAll(new)
  PROVE  /\ DOMAIN live' \subseteq Range(k8s'.ids) \cup (DOMAIN live \ Range(k8s.ids))
         /\ Range(k8s.ids) \cap DOMAIN live' \subseteq Range(k8s'.ids)
<1>1. /\ DOMAIN k8s'.ids = Needed /\ \A n \in Kept : k8s'.ids[n] = k8s.ids[n]
      /\ \A n \in Needed \ Ids : k8s'.ids[n] \in DOMAIN new /\ new[k8s'.ids[n]] = n
  BY DeployedIs
<1>2. DOMAIN live' = (DOMAIN live \cup DOMAIN new) \ {k8s.ids[n] : n \in Ids \ Needed}
  BY DEF DeploysAll, Gives
<1>3. ASSUME NEW c \in DOMAIN new PROVE c \in Range(k8s'.ids)
  <2>1. /\ new[c] \in Needed \ Ids
        /\ \A d \in DOMAIN new : new[c] = new[d] => c = d
    BY DEF DeploysAll, NewFor
  <2>2. k8s'.ids[new[c]] = c
    BY <1>1, <2>1
  <2> QED BY <1>1, <2>1, <2>2 DEF Range
<1>4. Range(k8s.ids) \cap DOMAIN live' \subseteq Range(k8s'.ids)
  BY <1>1, <1>2 DEF Range, Ids, Kept
<1> QED BY <1>2, <1>3, <1>4

LEMMA FailsAccount ==
  ASSUME TypeOK, Accounted, Fails,
         DOMAIN live' \subseteq DOMAIN live \/ op \in {"create", "update"}
  PROVE  /\ Accounted' /\ Recorded' = Recorded /\ told \subseteq told'
         /\ DOMAIN live' \subseteq Recorded' \cup told'
<1>1. Recorded' = Recorded
  BY FailsState DEF Recorded
<1>2. told \subseteq told' /\ (op \in {"create", "update"} => DOMAIN live' \subseteq told')
  BY DEF Fails
<1>3. DOMAIN live' \subseteq Recorded' \cup told'
  <2>1. CASE op \in {"create", "update"}
    BY <1>2, <2>1
  <2>2. CASE op \notin {"create", "update"}
    <3>1. step \notin {"sync", "store"} \/ op = "read"
      BY <2>2 DEF TypeOK, HandlerType, Fails
    <3> QED BY <1>1, <1>2, <2>2, <3>1 DEF Accounted
  <2> QED BY <2>1, <2>2
<1>4. Accounted'
  BY <1>3 DEF Accounted, Fails, Ends
<1> QED BY <1>1, <1>2, <1>3, <1>4

LEMMA AccountedInit == Init => Accounted
BY NothingIs DEF Init, Accounted

LEMMA AccountedNext == TypeOK /\ Room /\ Accounted /\ [Next]_vars => Accounted'
<1> SUFFICES ASSUME TypeOK, Room, Accounted, [Next]_vars PROVE Accounted'
  OBVIOUS
<1>1. CASE Create \/ Update \/ Read \/ Delete
  <2>1. PICK handler, first, c : Begins(handler, first, c)
    BY <1>1 DEF Create, Update, Read, Delete
  <2>2. first \in {"deploy", "validate", "cancel"}
    BY <1>1, <2>1 DEF Create, Update, Read, Delete, Begins
  <2>3. step \notin {"sync", "store"}
    BY <2>1 DEF Begins, Idle, TypeOK, HandlerType
  <2> QED BY <2>1, <2>2, <2>3
         DEF Begins, newK8s, Accounted, Recorded, chainVars, stateVars
<1>15. CASE Refuses
  <2>1. state'.ids = state.ids /\ UNCHANGED <<live, k8s, step, op, told>>
    BY <1>15, RefusesState DEF Refuses, chainVars, opVars, histVars
  <2> QED BY <2>1 DEF Accounted, Recorded
<1>2. CASE Deploy
  <2>1. PICK new : DeploysAll(new)
    BY <1>2, DeployIs
  <2>2. /\ DOMAIN live \subseteq Recorded \cup told /\ k8s.ids = state.ids
        /\ step' = "sync" /\ op' # "read" /\ UNCHANGED <<state, told>>
    BY <1>2 DEF Deploy, Accounted, stateVars, histVars, TypeOK, HandlerType
  <2> QED BY <1>2, <2>1, <2>2, DeployCovers DEF Deploy, Accounted, Recorded
<1>3. CASE DeployFails
  <2>1. op \in {"create", "update"}
    BY <1>3 DEF DeployFails, TypeOK, HandlerType
  <2> QED BY <1>3, <2>1, FailsAccount DEF DeployFails
<1>4. CASE CancelFails
  <2>1. PICK less \in SUBSET Ids : Deploys(<<>>, {}, less)
    BY <1>4 DEF CancelFails
  <2>2. DOMAIN live' \subseteq DOMAIN live
    BY <2>1 DEF Deploys
  <2> QED BY <1>4, <2>2, FailsAccount DEF CancelFails
<1>5. CASE Cancel
  <2>1. DOMAIN live' = DOMAIN live \ Range(k8s.ids)
    BY <1>5 DEF Cancel, Deploys, Range, Ids
  <2>2. DOMAIN live \subseteq Range(k8s.ids) \cup told
    BY <1>5 DEF Cancel, Accounted, Recorded
  <2> QED BY <1>5, <2>1, <2>2 DEF Cancel, Ends, Accounted, histVars
<1>6. CASE Validate
  BY <1>6 DEF Validate, Goes, Accounted, chainVars, stateVars, histVars, Recorded
<1>7. CASE Invalidate
  <2>1. Range(k8s'.ids) = Range(k8s.ids) \cap DOMAIN live
    BY <1>7, InvalidateIs, LivingIds
  <2>2. k8s.ids = state.ids /\ DOMAIN live \subseteq Recorded \cup told
    BY <1>7 DEF Invalidate, Accounted
  <2>3. UNCHANGED <<live, state, told>> /\ step' = "sync"
    BY <1>7 DEF Invalidate, Goes, chainVars, stateVars, histVars
  <2> QED BY <2>1, <2>2, <2>3 DEF Accounted, Recorded
<1>8. CASE UpdateFromRemote
  <2>1. Range(k8s'.ids) = Range(k8s.ids) \cap DOMAIN live
    BY <1>8, RemoteIs, LivingIds
  <2>2. UNCHANGED <<live, state, told, op>> /\ step = "sync" /\ step' = "store"
    BY <1>8 DEF UpdateFromRemote, Goes, chainVars, stateVars, histVars
  <2> QED BY <2>1, <2>2 DEF Accounted, Recorded
<1>9. CASE ValidateFails \/ InvalidateFails \/ (UpdateFromRemoteFails /\ op # "read")
  <2>1. Fails /\ live' = live
    BY <1>9 DEF ValidateFails, InvalidateFails, UpdateFromRemoteFails, GivesUp, chainVars
  <2> QED BY <2>1, FailsAccount
<1>10. CASE UpdateFromRemoteFails /\ op = "read"
  BY <1>10 DEF UpdateFromRemoteFails, Ends, Accounted, chainVars, stateVars, histVars,
     Recorded
<1>11. CASE storeK8sState
  <2>1. UNCHANGED <<live, told>> /\ step = "store" /\ step' = "none"
    BY <1>11 DEF storeK8sState, Ends, chainVars, histVars
  <2> QED BY <1>11, <2>1, StoreIs DEF Accounted, Recorded
<1>12. CASE StorePanics \/ Kill
  BY <1>12 DEF StorePanics, Kill, Dies, Ends, Accounted, chainVars
<1>13. CASE Expire
  <2>1. DOMAIN live' \subseteq DOMAIN live
    BY <1>13 DEF Expire, Restrict
  <2> QED BY <1>13, <2>1 DEF Expire, Accounted, Recorded, stateVars, opVars
<1>14. CASE Edit \/ Outage \/ UNCHANGED vars
  BY <1>14 DEF Edit, Outage, vars, Accounted, Recorded, chainVars, stateVars, opVars,
     histVars
<1> QED BY <1>1, <1>2, <1>3, <1>4, <1>5, <1>6, <1>7, <1>8, <1>9, <1>10, <1>11, <1>12,
           <1>13, <1>14, <1>15 DEF Next

\* At rest, the user was told of every contract that lives and that Terraform will
\* never cancel.
THEOREM NoSilentOrphans == Spec => []OrphansAreReported
<1>1. TypeOK /\ Accounted => OrphansAreReported
  BY DEF TypeOK, HandlerType, Accounted, OrphansAreReported, Idle
<1>2. Spec => [](TypeOK /\ Room /\ Accounted)
  BY KubernetesInit, TypeNext, AccountedInit, AccountedNext, PTL DEF Spec
<1> QED BY <1>1, <1>2, PTL

-----------------------------------------------------------------------------
(* The refinement.                                                         *)

LEMMA LedgerInit == Init => Ledger!Init
BY NothingIs DEF Init, Ledger!Init, Recorded, Idle

LEMMA LedgerNext ==
  TypeOK /\ Room /\ Accounted /\ Accounted' /\ [Next]_vars => [Ledger!Next]_(Ledger!vars)
<1> SUFFICES ASSUME TypeOK, Room, Accounted, Accounted', [Next]_vars
             PROVE  [Ledger!Next]_(Ledger!vars)
  OBVIOUS
<1>1. made \in Nat /\ (Idle <=> step = "none")
  BY KubernetesAssumption DEF TypeOK, ChainType, HandlerType, Idle
<1>2. ASSUME UNCHANGED chainVars PROVE Ledger!Changes
  BY <1>1, <1>2 DEF chainVars, Ledger!Changes
<1>3. ASSUME Deploy \/ DeployFails \/ Cancel \/ CancelFails PROVE Ledger!Changes
  <2>1. PICK new, less : Gives(new, less)
    BY <1>3, DeploySteps
  <2>2. made' \in Nat /\ made <= made'
    BY <2>1, KubernetesAssumption DEF Gives
  <2> QED BY <2>1, <2>2 DEF Gives, Ledger!Changes
<1>4. CASE Create \/ Update \/ Read \/ Delete
  <2>1. PICK handler, first, c : Begins(handler, first, c) /\ handler # "none"
    BY <1>4 DEF Create, Update, Read, Delete
  <2>2. Ledger!Begin
    BY <2>1 DEF Begins, Ledger!Begin, Idle, Recorded, chainVars, stateVars
  <2> QED BY <2>2 DEF Ledger!Next
<1>5. CASE Deploy \/ Validate \/ Invalidate \/ UpdateFromRemote
  <2>1. Ledger!Changes
    BY <1>2, <1>3, <1>5 DEF Validate, Invalidate, UpdateFromRemote, Goes
  <2>2. ~Idle /\ op' = op /\ UNCHANGED <<state, told>>
    BY <1>1, <1>5 DEF Deploy, Validate, Invalidate, UpdateFromRemote, Goes, stateVars,
       histVars
  <2>3. Ledger!Work
    BY <2>1, <2>2 DEF Ledger!Work, Idle, Recorded
  <2> QED BY <2>3 DEF Ledger!Next
<1>6. ASSUME ~Idle, NEW how, Ends(how), Ledger!Changes, told \subseteq told',
             Recorded \cap DOMAIN live' \subseteq Recorded'
      PROVE  [Ledger!Next]_(Ledger!vars)
  <2>1. DOMAIN live' \subseteq Recorded' \cup told'
    BY <1>6 DEF Ends, Accounted
  <2>2. Ledger!Return
    BY <1>6, <2>1 DEF Ledger!Return, Ends, Idle
  <2> QED BY <2>2 DEF Ledger!Next
<1>7. CASE \/ DeployFails \/ CancelFails \/ ValidateFails \/ InvalidateFails
           \/ (UpdateFromRemoteFails /\ op # "read")
  <2>1. Fails /\ ~Idle
    BY <1>1, <1>7 DEF DeployFails, CancelFails, ValidateFails, InvalidateFails,
       UpdateFromRemoteFails, GivesUp
  <2>2. Ledger!Changes
    BY <1>2, <1>3, <1>7 DEF ValidateFails, InvalidateFails, UpdateFromRemoteFails, GivesUp
  <2>3. Recorded' = Recorded /\ told \subseteq told' /\ Ends("error")
    BY <2>1, FailsState DEF Fails, Recorded
  <2> QED BY <1>6, <2>1, <2>2, <2>3
<1>8. CASE Cancel
  <2>1. Recorded \cap DOMAIN live' = {}
    BY <1>8 DEF Cancel, Deploys, Range, Ids, Accounted, Recorded
  <2>2. ~Idle /\ Ends("deleted") /\ told' = told
    BY <1>1, <1>8 DEF Cancel, histVars
  <2> QED BY <1>3, <1>6, <1>8, <2>1, <2>2
<1>9. CASE UpdateFromRemoteFails /\ op = "read"
  <2>1. ~Idle /\ Ends("warned") /\ UNCHANGED <<chainVars, state, told>>
    BY <1>9 DEF UpdateFromRemoteFails, Idle, stateVars, histVars
  <2> QED BY <1>2, <1>6, <2>1 DEF Recorded
<1>10. CASE storeK8sState
  <2>1. PICK how : Ends(how)
    BY <1>10 DEF storeK8sState
  <2>2. ~Idle /\ UNCHANGED <<chainVars, told>> /\ step = "store"
    BY <1>1, <1>10 DEF storeK8sState, histVars
  <2>3. Recorded \cap DOMAIN live' \subseteq Recorded'
    BY <1>10, <2>2, StoreIs DEF Accounted, Recorded, chainVars
  <2> QED BY <1>2, <1>6, <2>1, <2>2, <2>3
<1>11. CASE StorePanics \/ Kill
  <2>1. PICK how : Dies(how)
    BY <1>11 DEF StorePanics, Kill
  <2>2. ~Idle
    BY <1>1, <1>11 DEF StorePanics, Kill
  <2>3. Ends(how) /\ UNCHANGED <<chainVars, state>> /\ told \subseteq told'
    BY <2>1 DEF Dies, stateVars
  <2> QED BY <1>2, <1>6, <2>2, <2>3 DEF Recorded
<1>12. CASE Expire
  <2>1. DOMAIN live' \subseteq DOMAIN live
    BY <1>12 DEF Expire, Restrict
  <2>2. Ledger!Expire
    BY <1>12, <2>1 DEF Expire, Ledger!Expire, Recorded, Idle, stateVars, opVars
  <2> QED BY <2>2 DEF Ledger!Next
<1>14. CASE Refuses
  <2>1. Recorded' = Recorded /\ UNCHANGED <<live, made, told, op>>
    BY <1>14, RefusesState DEF Refuses, Recorded, chainVars, opVars, histVars
  <2> QED BY <2>1 DEF Ledger!vars, Idle
<1>13. CASE Edit \/ Outage \/ UNCHANGED vars
  BY <1>13 DEF Edit, Outage, vars, chainVars, stateVars, opVars, histVars, Ledger!vars,
     Recorded, Idle
<1> QED BY <1>4, <1>5, <1>7, <1>8, <1>9, <1>10, <1>11, <1>12, <1>13, <1>14
       DEF Next

\* The handlers implement Contracts: whatever fails or dies, the state lets go of no
\* contract that lives, and at rest every contract is accounted for.
THEOREM KubernetesImplementsContracts == Spec => ImplementsContracts
<1>1. Spec => [](TypeOK /\ Room /\ Accounted)
  BY KubernetesInit, TypeNext, AccountedInit, AccountedNext, PTL DEF Spec
<1> QED BY <1>1, LedgerInit, LedgerNext, PTL DEF Spec, ImplementsContracts, Ledger!Spec

-----------------------------------------------------------------------------
(* What an apply leaves.                                                   *)

\* No id is ahead of the contracts made, and a contract that lives is where it is
\* recorded to be.
Matches(ids) ==
  \A n \in DOMAIN ids : /\ ids[n] \in 1 .. made
                        /\ ids[n] \in DOMAIN live => live[ids[n]].node = n

DeployedAs(ids) ==
  /\ DOMAIN ids = nodesOf(machines(config))
  /\ \A n \in DOMAIN ids : /\ ids[n] \in DOMAIN live
                           /\ live[ids[n]].vms = {v \in machines(config) : v.node = n}

\* What an apply has deployed stays so until a contract expires.
Applying ==
  /\ ~Idle => last = "none"
  /\ step = "deploy" => machines(k8s) = machines(config)
  /\ step \in {"sync", "store"} /\ op # "read" /\ quiet => DeployedAs(k8s.ids)
  /\ last = "applied" /\ quiet => DeployedAs(state.ids)

Matching == Matches(state.ids) /\ Matches(k8s.ids)

ChainKeeps ==
  /\ made <= made'
  /\ \A c \in DOMAIN live' : c \in 1 .. made => c \in DOMAIN live /\ live'[c].node = live[c].node

LEMMA GivesKeeps ==
  ASSUME TypeOK, NEW new, NEW less, Gives(new, less) PROVE ChainKeeps
<1>1. made \in Nat /\ made' \in Nat
  BY KubernetesAssumption DEF TypeOK, ChainType, Gives
<1> QED BY <1>1 DEF Gives, ChainKeeps

LEMMA StillMatches ==
  ASSUME TypeOK, ChainKeeps, made' \in Nat, NEW ids, Matches(ids)
  PROVE  \A n \in DOMAIN ids : /\ ids[n] \in 1 .. made'
                               /\ ids[n] \in DOMAIN live' => live'[ids[n]].node = n
<1>1. made \in Nat
  BY KubernetesAssumption DEF TypeOK, ChainType
<1> QED BY <1>1 DEF ChainKeeps, Matches

LEMMA NewChain ==
  TypeOK /\ Room /\ [Next]_vars => ChainKeeps /\ made' \in Nat
<1> SUFFICES ASSUME TypeOK, Room, [Next]_vars PROVE ChainKeeps /\ made' \in Nat
  OBVIOUS
<1>1. made \in Nat /\ made' \in Nat
  BY TypeNext, KubernetesAssumption DEF TypeOK, ChainType
<1>2. CASE Deploy \/ DeployFails \/ Cancel \/ CancelFails
  BY <1>1, <1>2, DeploySteps, GivesKeeps
<1>3. CASE Expire
  BY <1>1, <1>3 DEF Expire, Restrict, ChainKeeps
<1>4. ASSUME UNCHANGED chainVars PROVE ChainKeeps
  BY <1>1, <1>4 DEF chainVars, ChainKeeps
<1>5. CASE Edit \/ Create \/ Update \/ Read \/ Delete \/ Refuses \/ Outage \/ UNCHANGED vars
  BY <1>1, <1>4, <1>5 DEF Edit, Refuses, Create, Update, Read, Delete, Begins, Outage, vars
<1>6. CASE Validate \/ Invalidate \/ UpdateFromRemote \/ storeK8sState
  BY <1>1, <1>4, <1>6 DEF Validate, Invalidate, UpdateFromRemote, Goes, storeK8sState
<1>7. CASE \/ ValidateFails \/ InvalidateFails \/ UpdateFromRemoteFails
           \/ StorePanics \/ Kill
  BY <1>1, <1>4, <1>7 DEF ValidateFails, InvalidateFails, UpdateFromRemoteFails, GivesUp,
     StorePanics, Kill, Dies
<1> QED BY <1>1, <1>2, <1>3, <1>5, <1>6, <1>7 DEF Next

\* The contracts of a cluster after its Deploy: each where it is recorded to be,
\* with its machines.
LEMMA DeployPlaces ==
  ASSUME TypeOK, Matching, Deploy, NEW new, DeploysAll(new)
  PROVE  \A n \in Needed : /\ k8s'.ids[n] \in DOMAIN live'
                           /\ live'[k8s'.ids[n]].node = n
                           /\ live'[k8s'.ids[n]].vms = On(n)
<1>1. made \in Nat /\ DOMAIN live \subseteq 1 .. made /\ DOMAIN new = made + 1 .. made'
  BY KubernetesAssumption DEF TypeOK, ChainType, DeploysAll, Gives
<1>2. /\ \A n \in Kept : k8s'.ids[n] = k8s.ids[n]
      /\ \A n \in Needed \ Ids : k8s'.ids[n] \in DOMAIN new /\ new[k8s'.ids[n]] = n
  BY DeployedIs DEF Deploy
<1>3. /\ DOMAIN live' = (DOMAIN live \cup DOMAIN new) \ {k8s.ids[n] : n \in Ids \ Needed}
      /\ \A c \in DOMAIN live' : c \in DOMAIN live => live'[c].node = live[c].node
      /\ \A c \in DOMAIN live' : c \in DOMAIN new =>
           live'[c].node = new[c] /\ live'[c].vms = On(new[c])
  BY DEF DeploysAll, Gives
<1>4. \A n \in Ids : k8s.ids[n] \in 1 .. made
                     /\ (k8s.ids[n] \in DOMAIN live => live[k8s.ids[n]].node = n)
  BY DEF Matching, Matches, Ids
<1>5. ASSUME NEW n \in Needed \ Ids
      PROVE  /\ k8s'.ids[n] \in DOMAIN live' /\ live'[k8s'.ids[n]].node = n
             /\ live'[k8s'.ids[n]].vms = On(n)
  <2>1. k8s'.ids[n] \in DOMAIN new /\ new[k8s'.ids[n]] = n
    BY <1>2
  <2>2. k8s'.ids[n] \notin {k8s.ids[m] : m \in Ids \ Needed}
    BY <1>1, <1>4, <2>1
  <2> QED BY <1>3, <2>1, <2>2
<1>6. ASSUME NEW n \in Kept
      PROVE  /\ k8s'.ids[n] \in DOMAIN live' /\ live'[k8s'.ids[n]].node = n
             /\ live'[k8s'.ids[n]].vms = On(n)
  <2> DEFINE c == k8s.ids[n]
  <2>1. n \in Ids /\ n \in Needed /\ k8s'.ids[n] = c /\ c \in DOMAIN live /\ live[c].node = n
    BY <1>2, <1>4 DEF Kept, Deploy, AllKeptLive, Lives
  <2>2. c \notin {k8s.ids[m] : m \in Ids \ Needed}
    BY <1>4, <2>1
  <2>3. c \in DOMAIN live' /\ c \notin DOMAIN new
    BY <1>1, <1>3, <2>1, <2>2
  <2>4. live'[c] = [live[c] EXCEPT !.vms = On(live[c].node)]
    BY <2>1, <2>3 DEF DeploysAll, Deploys
  <2>5. live[c] \in [node : Node, vms : SUBSET VM]
    BY <2>1 DEF TypeOK, ChainType
  <2> QED BY <2>1, <2>3, <2>4, <2>5
<1> QED BY <1>5, <1>6 DEF Kept

\* Of the contracts of a cluster, those that live.
LEMMA RestrictMatches ==
  ASSUME TypeOK, Matching, NEW ids, ids = Restrict(k8s.ids, {n \in Ids : Lives(n)})
  PROVE  Matches(ids) /\ (DeployedAs(k8s.ids) => DeployedAs(ids))
<1> DEFINE kept == {n \in Ids : Lives(n)}
<1>1. DOMAIN ids = kept /\ \A n \in kept : ids[n] = k8s.ids[n]
  BY DEF Restrict
<1>2. Matches(ids)
  BY <1>1 DEF Matches, Matching, Ids
<1>3. DeployedAs(k8s.ids) => kept = DOMAIN k8s.ids
  BY DEF DeployedAs, Ids, Lives
<1> QED BY <1>1, <1>2, <1>3 DEF DeployedAs

LEMMA NoneMatch == Matches(NoIds)
BY NothingIs DEF Matches

\* A handler's cluster, and then the state, match the chain after a step.
LEMMA MatchingNext == TypeOK /\ Room /\ Matching /\ [Next]_vars => Matching'
<1> SUFFICES ASSUME TypeOK, Room, Matching, [Next]_vars PROVE Matching'
  OBVIOUS
<1>1. ChainKeeps /\ made' \in Nat
  BY NewChain
<1>2. ASSUME NEW ids, Matches(ids)
      PROVE  \A n \in DOMAIN ids : /\ ids[n] \in 1 .. made'
                                   /\ ids[n] \in DOMAIN live' => live'[ids[n]].node = n
  BY <1>1, <1>2, StillMatches
<1>3. Matches(NoIds) /\ Matches(state.ids) /\ Matches(k8s.ids)
  BY NoneMatch DEF Matching
<1>4. ASSUME state'.ids \in {NoIds, state.ids, k8s.ids}, k8s'.ids \in {NoIds, state.ids, k8s.ids}
      PROVE  Matching'
  BY <1>2, <1>3, <1>4 DEF Matching, Matches
<1>5. CASE Create \/ Update \/ Read \/ Delete
  <2>1. state' = state /\ k8s'.ids = state.ids
    BY <1>5 DEF Create, Update, Read, Delete, Begins, newK8s, stateVars
  <2> QED BY <1>4, <2>1
<1>6. CASE Deploy
  <2>1. PICK new : DeploysAll(new)
    BY <1>6, DeployIs
  <2>2. made' \in Nat /\ DOMAIN live' \subseteq 1 .. made'
    BY <1>1, <1>6, TypeNext DEF TypeOK, ChainType
  <2>3. \A n \in DOMAIN k8s'.ids : /\ k8s'.ids[n] \in 1 .. made'
                                   /\ live'[k8s'.ids[n]].node = n
    BY <1>6, <2>1, <2>2, DeployPlaces, DeployedIs DEF Deploy
  <2>4. state' = state
    BY <1>6 DEF Deploy, stateVars
  <2> QED BY <1>2, <1>3, <2>3, <2>4 DEF Matching, Matches
<1>7. CASE Invalidate \/ UpdateFromRemote
  <2>1. k8s'.ids = Restrict(k8s.ids, {n \in Ids : Lives(n)})
    BY <1>7, InvalidateIs, RemoteIs
  <2>2. Matches(k8s'.ids)
    <3> DEFINE ids == Restrict(k8s.ids, {n \in Ids : Lives(n)})
    <3>1. Matches(ids)
      BY RestrictMatches
    <3> QED BY <2>1, <3>1 DEF Matches
  <2>3. UNCHANGED <<made, live, state>>
    BY <1>7 DEF Invalidate, UpdateFromRemote, Goes, chainVars, stateVars
  <2> QED BY <1>3, <2>2, <2>3 DEF Matching, Matches
<1>8. CASE storeK8sState
  BY <1>4, <1>8, StoreIs, NothingIs DEF storeK8sState, Ends
<1>9. CASE Cancel
  BY <1>4, <1>9, NothingIs DEF Cancel, Ends
<1>10. CASE \/ DeployFails \/ CancelFails \/ ValidateFails \/ InvalidateFails
            \/ (UpdateFromRemoteFails /\ op # "read")
  <2>1. Fails
    BY <1>10 DEF DeployFails, CancelFails, ValidateFails, InvalidateFails,
       UpdateFromRemoteFails, GivesUp
  <2> QED BY <1>4, <2>1, FailsState, NothingIs DEF Fails, Ends
<1>11. CASE StorePanics \/ Kill \/ (UpdateFromRemoteFails /\ op = "read")
  <2>1. state' = state /\ k8s' = Nothing
    BY <1>11 DEF StorePanics, Kill, Dies, UpdateFromRemoteFails, Ends, stateVars
  <2> QED BY <1>4, <2>1, NothingIs
<1>13. CASE Refuses
  <2>1. state'.ids = state.ids /\ k8s' = k8s
    BY <1>13, RefusesState DEF Refuses, opVars
  <2> QED BY <1>4, <2>1
<1>12. CASE Validate \/ Expire \/ Edit \/ Outage \/ UNCHANGED vars
  <2>1. UNCHANGED <<state, k8s>>
    BY <1>12 DEF Validate, Goes, Expire, Edit, Outage, vars, stateVars, opVars
  <2> QED BY <1>4, <2>1
<1> QED BY <1>5, <1>6, <1>7, <1>8, <1>9, <1>10, <1>11, <1>12, <1>13 DEF Next

LEMMA ApplyingNext ==
  TypeOK /\ Room /\ Matching /\ Applying /\ [Next]_vars => Applying'
<1> SUFFICES ASSUME TypeOK, Room, Matching, Applying, [Next]_vars PROVE Applying'
  OBVIOUS
<1>1. (Idle <=> step = "none") /\ (last = "applied" => Idle)
  BY DEF TypeOK, HandlerType, Idle, Applying
<1>2. CASE Create \/ Update \/ Read \/ Delete
  <2>1. PICK handler, first, c : Begins(handler, first, c)
                                 /\ (first = "deploy" => c = config)
    BY <1>2 DEF Create, Update, Read, Delete
  <2>2. first \in {"deploy", "validate", "cancel"}
    BY <1>2, <2>1 DEF Create, Update, Read, Delete, Begins
  <2> QED BY <2>1, <2>2 DEF Begins, newK8s, machines, Applying
<1>3. CASE Deploy
  <2>1. PICK new : DeploysAll(new)
    BY <1>3, DeployIs
  <2>2. machines(k8s) = machines(config) /\ DOMAIN k8s'.ids = Needed
    BY <1>3, <2>1, DeployedIs DEF Deploy, Applying
  <2>3. /\ step = "deploy" /\ step' = "sync"
        /\ UNCHANGED <<config, state, op, last, quiet>>
    BY <1>3 DEF Deploy, stateVars, histVars
  <2>4. DeployedAs(k8s.ids)'
    <3>1. /\ Needed = nodesOf(machines(config))
          /\ \A n : On(n) = {v \in machines(config) : v.node = n}
      BY <2>2 DEF Needed, On
    <3>2. \A n \in Needed : /\ k8s'.ids[n] \in DOMAIN live'
                            /\ live'[k8s'.ids[n]].vms = On(n)
      BY <1>3, <2>1, DeployPlaces
    <3>3. machines(config)' = machines(config)
      BY <2>3
    <3> QED BY <2>2, <3>1, <3>2, <3>3 DEF DeployedAs
  <2>5. ~Idle
    BY <1>1, <2>3
  <2> QED BY <2>3, <2>4, <2>5 DEF Applying, Idle
<1>4. CASE UpdateFromRemote
  <2>1. UNCHANGED <<chainVars, config, state, op, last, quiet>> /\ step = "sync"
        /\ step' = "store"
    BY <1>4 DEF UpdateFromRemote, Goes, stateVars, histVars
  <2>2. op # "read" /\ quiet => DeployedAs(k8s.ids)
    BY <2>1 DEF Applying
  <2>3. k8s'.ids = Restrict(k8s.ids, {n \in Ids : Lives(n)})
    BY <1>4, RemoteIs
  <2>4. op # "read" /\ quiet => DeployedAs(k8s.ids)'
    <3> DEFINE ids == Restrict(k8s.ids, {n \in Ids : Lives(n)})
    <3>1. DeployedAs(k8s.ids) => DeployedAs(ids)
      BY RestrictMatches
    <3> QED BY <2>1, <2>2, <2>3, <3>1 DEF DeployedAs, chainVars
  <2>5. last # "applied"
    BY <1>1, <2>1
  <2> QED BY <2>1, <2>4, <2>5 DEF Applying, Idle
<1>5. CASE Validate \/ Invalidate
  <2>1. /\ step' \in {"invalidate", "sync"} /\ op = "read"
        /\ UNCHANGED <<op, last>>
    BY <1>5 DEF Validate, Invalidate, Goes, TypeOK, HandlerType
  <2> QED BY <1>1, <2>1 DEF Applying, Idle
<1>6. CASE storeK8sState
  <2>1. /\ UNCHANGED <<chainVars, config, quiet>> /\ step = "store"
        /\ Ends(IF op = "read" THEN "refreshed" ELSE "applied")
    BY <1>6 DEF storeK8sState, histVars
  <2>2. op # "read" /\ quiet => DeployedAs(k8s.ids)
    BY <2>1 DEF Applying
  <2>3. state'.ids = k8s.ids
    BY <1>6, StoreIs
  <2>4. op # "read" /\ quiet => DeployedAs(state.ids)'
    BY <2>1, <2>2, <2>3 DEF DeployedAs, chainVars
  <2> QED BY <2>1, <2>4 DEF Applying, Ends, Idle
<1>7. ASSUME NEW how, Ends(how), how # "applied" PROVE Applying'
  BY <1>7 DEF Applying, Ends, Idle
<1>8. CASE \/ DeployFails \/ Cancel \/ CancelFails \/ ValidateFails \/ InvalidateFails
           \/ UpdateFromRemoteFails
  BY <1>7, <1>8 DEF DeployFails, Cancel, CancelFails, ValidateFails, InvalidateFails,
     UpdateFromRemoteFails, GivesUp, Fails
<1>9. CASE StorePanics \/ Kill
  BY <1>7, <1>9 DEF StorePanics, Kill, Dies
<1>10. CASE Edit \/ Refuses
  BY <1>1, <1>10 DEF Edit, Refuses, Applying, Idle, opVars
<1>11. CASE Expire
  BY <1>11 DEF Expire, Applying, Idle, opVars
<1>12. CASE Outage \/ UNCHANGED vars
  BY <1>12 DEF Outage, vars, Applying, DeployedAs, Idle, chainVars, stateVars, opVars,
     histVars
<1> QED BY <1>2, <1>3, <1>4, <1>5, <1>6, <1>8, <1>9, <1>10, <1>11, <1>12 DEF Next

\* An apply that succeeds with no contract expiring leaves each node of the cluster
\* with a contract of its own that runs its machines, and no other recorded.
THEOREM AppliesDeploy == Spec => []AppliedIsDeployed
<1>1. Init => Matching /\ Applying
  BY NothingIs, NoneMatch DEF Init, Matching, Applying, Idle
<1>2. Applying => AppliedIsDeployed
  BY DEF Applying, DeployedAs, AppliedIsDeployed
<1>3. Spec => [](TypeOK /\ Room /\ Matching /\ Applying)
  BY <1>1, KubernetesInit, TypeNext, MatchingNext, ApplyingNext, PTL DEF Spec
<1> QED BY <1>2, <1>3, PTL

-----------------------------------------------------------------------------
(* What a handler stores.                                                  *)

LEMMA UnchangedApart ==
  ASSUME [Next]_vars
  PROVE  \/ Create \/ Update \/ Read \/ Delete \/ Deploy \/ UpdateFromRemote \/ storeK8sState
         \/ (Validate \/ Invalidate)
         \/ (\E how : Ends(how) /\ how \notin {"applied", "refreshed"})
         \/ Edit \/ Refuses \/ Expire
         \/ UNCHANGED <<live, config, exists, state, op, step, k8s, last, quiet>>
<1>1. CASE \/ DeployFails \/ Cancel \/ CancelFails \/ ValidateFails \/ InvalidateFails
           \/ UpdateFromRemoteFails \/ StorePanics \/ Kill
  <2>1. Ends("error") \/ Ends("deleted") \/ Ends("warned") \/ Ends("panicked") \/ Ends("killed")
    BY <1>1 DEF DeployFails, Cancel, CancelFails, ValidateFails, InvalidateFails,
       UpdateFromRemoteFails, StorePanics, Kill, GivesUp, Fails, Dies
  <2> QED BY <2>1
<1>2. CASE Outage \/ UNCHANGED vars
  BY <1>2 DEF Outage, vars, chainVars, stateVars, opVars, histVars
<1> QED BY <1>1, <1>2 DEF Next

RunsOf(ids) == UNION {live[c].vms : c \in Range(ids)}

\* A cluster has the contracts that live, and the machines they run.
Shown(c) ==
  /\ Range(c.ids) \subseteq DOMAIN live
  /\ machines(c) \subseteq RunsOf(c.ids) /\ Names(machines(c)) = Names(RunsOf(c.ids))

LEMMA RemoteShows ==
  ASSUME TypeOK, UpdateFromRemote
  PROVE  /\ Shown(k8s)'
         /\ \E seen \in Seen(Runs) :
              /\ k8s'.master = {v \in seen : v.name \in Names(k8s.master)}
              /\ k8s'.workers = seen \ k8s'.master
<1> DEFINE nodes == {n \in Ids : Lives(n)}
           less == Restrict(k8s.ids, nodes)
<1>1. PICK seen \in Seen(Runs) :
        LET master == {v \in seen : v.name \in Names(k8s.master)} IN
        k8s' = [master |-> master, workers |-> seen \ master, ids |-> less]
  BY DEF UpdateFromRemote
<1>2. /\ k8s'.master = {v \in seen : v.name \in Names(k8s.master)}
      /\ k8s'.workers = seen \ k8s'.master /\ k8s'.ids = less
  BY <1>1
<1>3. live' = live
  BY DEF UpdateFromRemote, Goes, chainVars
<1>4. Range(less) = {k8s.ids[n] : n \in nodes}
  BY DEF Range, Restrict
<1>5. Range(less) \subseteq DOMAIN live
  BY <1>4 DEF Lives
<1>6. RunsOf(less) = Runs
  BY <1>4 DEF RunsOf, Runs
<1>7. machines(k8s') = seen
  BY <1>2 DEF machines
<1> HIDE DEF less
<1>8. seen \subseteq Runs /\ Names(seen) = Names(Runs)
  BY DEF Seen
<1>9. RunsOf(k8s.ids)' = RunsOf(less)
  BY <1>2, <1>3 DEF RunsOf
<1>10. Shown(k8s)'
  BY <1>2, <1>3, <1>5, <1>6, <1>7, <1>8, <1>9 DEF Shown
<1> QED BY <1>2, <1>10

\* The workers storeK8sState writes are those of the cluster, but for their seeds.
LEMMA StoreSeeds ==
  ASSUME TypeOK, storeK8sState
  PROVE  /\ \A w \in state'.workers :
              \E v \in k8s.workers : v.name = w.name /\ v.node = w.node
         /\ \A v \in k8s.workers :
              \E w \in state'.workers : v.name = w.name /\ v.node = w.node
         /\ (\A v \in k8s.workers, m \in k8s.master : v.seed = m.seed) =>
              state'.workers = k8s.workers
<1> DEFINE seeded == {[w EXCEPT !.seed = s] :
                        w \in k8s.workers, s \in {m.seed : m \in k8s.master}}
<1>1. k8s \in K8sType /\ (k8s.workers # {} => k8s.master # {})
  BY DEF TypeOK, HandlerType, storeK8sState
<1>2. state'.workers = seeded
  BY DEF storeK8sState, written
<1> HIDE DEF seeded
<1>3. state'.workers = seeded
  BY <1>2
<1>4. ASSUME NEW v \in k8s.workers, NEW s
      PROVE  /\ [v EXCEPT !.seed = s].name = v.name /\ [v EXCEPT !.seed = s].node = v.node
             /\ v.seed = s => [v EXCEPT !.seed = s] = v
  <2>1. v \in VM
    BY <1>1 DEF K8sType
  <2> QED BY <2>1 DEF VM
<1>5. ASSUME NEW w \in seeded
      PROVE  \E v \in k8s.workers : v.name = w.name /\ v.node = w.node
  <2>1. PICK v \in k8s.workers, seed \in {m.seed : m \in k8s.master} :
          w = [v EXCEPT !.seed = seed]
    BY DEF seeded
  <2> QED BY <1>4, <2>1
<1>6. ASSUME NEW v \in k8s.workers
      PROVE  \E w \in seeded : v.name = w.name /\ v.node = w.node
  <2>1. PICK m \in k8s.master : TRUE
    BY <1>1, <1>6
  <2>2. [v EXCEPT !.seed = m.seed] \in seeded
    BY <2>1 DEF seeded
  <2> QED BY <1>4, <2>2
<1>7. ASSUME \A v \in k8s.workers, m \in k8s.master : v.seed = m.seed
      PROVE  seeded = k8s.workers
  <2>1. \A w \in seeded : w \in k8s.workers
    BY <1>4, <1>7 DEF seeded
  <2>2. ASSUME NEW v \in k8s.workers PROVE v \in seeded
    <3>1. PICK m \in k8s.master : TRUE
      BY <1>1, <2>2
    <3>2. [v EXCEPT !.seed = m.seed] \in seeded /\ v.seed = m.seed
      BY <1>7, <3>1 DEF seeded
    <3> QED BY <1>4, <3>2
  <2> QED BY <2>1, <2>2
<1> QED BY <1>3, <1>5, <1>6, <1>7

Refreshing ==
  /\ ~Idle => last = "none"
  /\ step = "store" /\ quiet => Shown(k8s)
  /\ RefreshIsTruth

\* What a Read writes shows the cluster, apart from an empty master.
LEMMA StoreRefreshes ==
  ASSUME TypeOK, Refreshing, storeK8sState, quiet
  PROVE  RefreshIsTruth'
<1> DEFINE runs == RunsOf(k8s.ids)
           shown == machines(state') \ {EmptyVM}
           seedless(vms) == {[name |-> v.name, node |-> v.node] : v \in vms}
<1>1. /\ state'.ids = k8s.ids /\ live' = live
      /\ state'.master = IF k8s.master = {} THEN {EmptyVM} ELSE k8s.master
  BY StoreIs DEF storeK8sState, chainVars
<1>2. machines(k8s) \subseteq runs /\ Names(machines(k8s)) = Names(runs)
      /\ Range(k8s.ids) \subseteq DOMAIN live
  BY DEF storeK8sState, Refreshing, Shown
<1>3. EmptyVM \notin k8s.master /\ EmptyVM \notin state'.workers
  <2>1. k8s.master \in SUBSET VM /\ state' \in K8sType
    BY StoreIs DEF storeK8sState, TypeOK, HandlerType
  <2> QED BY <2>1, EmptyIsNoVM DEF K8sType
<1>4. shown = k8s.master \cup state'.workers /\ state'.master \ {EmptyVM} = k8s.master
  BY <1>1, <1>3 DEF machines
<1> HIDE DEF runs, shown
<1>5. \A v \in shown : \E u \in machines(k8s) : u.name = v.name /\ u.node = v.node
  BY <1>4, StoreSeeds DEF machines
<1>6. \A v \in machines(k8s) : \E u \in shown : u.name = v.name /\ u.node = v.node
  BY <1>4, StoreSeeds DEF machines
<1>7. Names(shown) = Names(machines(k8s))
  BY <1>5, <1>6 DEF Names
<1>8. k8s.master \subseteq machines(k8s)
  BY DEF machines
<1>9. seedless(shown) \subseteq seedless(runs)
  BY <1>2, <1>5
<1>10. Recorded' = Range(k8s.ids)
  BY <1>1 DEF Recorded
<1>11. UNION {live'[c].vms : c \in Recorded'} = runs
  BY <1>1, <1>10 DEF runs, RunsOf
<1> QED BY <1>1, <1>2, <1>4, <1>7, <1>8, <1>9, <1>10, <1>11 DEF RefreshIsTruth, shown

LEMMA RefreshingNext == TypeOK /\ Refreshing /\ [Next]_vars => Refreshing'
<1> SUFFICES ASSUME TypeOK, Refreshing, [Next]_vars PROVE Refreshing'
  OBVIOUS
<1>1. Idle <=> step = "none"
  BY DEF TypeOK, HandlerType, Idle
<1>2. ASSUME step' # "store", last' # "refreshed", op' # "none" => last' = "none"
      PROVE  Refreshing'
  BY <1>2 DEF Refreshing, RefreshIsTruth, Idle
<1>3. CASE Create \/ Update \/ Read \/ Delete
  BY <1>2, <1>3 DEF Create, Update, Read, Delete, Begins
<1>4. CASE Deploy
  BY <1>1, <1>2, <1>4 DEF Deploy, Refreshing, Idle
<1>5. CASE Validate \/ Invalidate
  BY <1>1, <1>2, <1>5 DEF Validate, Invalidate, Goes, Refreshing, Idle
<1>6. CASE UpdateFromRemote
  <2>1. Shown(k8s)' /\ last' = "none"
    BY <1>1, <1>6, RemoteShows DEF UpdateFromRemote, Goes, Refreshing, Idle
  <2> QED BY <2>1 DEF Refreshing, RefreshIsTruth
<1>7. CASE storeK8sState
  <2>1. op' = "none" /\ step' = "none" /\ quiet' = quiet
    BY <1>7 DEF storeK8sState, Ends, histVars
  <2>2. CASE quiet
    BY <1>7, <2>1, <2>2, StoreRefreshes DEF Refreshing, Idle
  <2>3. CASE ~quiet
    BY <2>1, <2>3 DEF Refreshing, RefreshIsTruth, Idle
  <2> QED BY <2>2, <2>3
<1>8. ASSUME NEW how, Ends(how), how # "refreshed" PROVE Refreshing'
  BY <1>2, <1>8 DEF Ends
<1>9. CASE Edit \/ Refuses
  BY <1>1, <1>2, <1>9 DEF Edit, Refuses, opVars, Idle
<1>10. CASE Expire
  BY <1>10 DEF Expire, opVars, Refreshing, RefreshIsTruth, Idle
<1>11. CASE UNCHANGED <<live, config, exists, state, op, step, k8s, last, quiet>>
  BY <1>11 DEF Refreshing, RefreshIsTruth, Shown, RunsOf, Recorded, Idle
<1> QED BY <1>3, <1>4, <1>5, <1>6, <1>7, <1>8, <1>9, <1>10, <1>11, UnchangedApart

\* After a Read that stored anything, the state has the contracts that live and the
\* machines they run.
THEOREM RefreshesShow == Spec => []RefreshIsTruth
<1>1. Init => Refreshing
  BY DEF Init, Refreshing, RefreshIsTruth, Idle
<1>2. Refreshing => RefreshIsTruth
  BY DEF Refreshing
<1> QED BY <1>1, <1>2, TypeCorrect, RefreshingNext, PTL DEF Spec

\* The cluster of a handler is the one the user wrote, up to the seeds it stores.
AsWritten(c) == c.master = config.master /\ c.workers = config.workers

Recording ==
  /\ ~Idle => last = "none"
  /\ step = "deploy" \/ (step = "sync" /\ op # "read") => AsWritten(k8s)
  /\ step = "store" /\ op # "read" /\ quiet => AsWritten(k8s)
  /\ AppliedIsRecorded

\* A cluster that runs as written is found as it was written, for no two of its
\* machines have one name.
LEMMA RemoteAsWritten ==
  ASSUME TypeOK, UpdateFromRemote, DeployedAs(k8s.ids), AsWritten(k8s)
  PROVE  AsWritten(k8s)'
<1>1. config \in Clusters /\ config' = config
  BY DEF TypeOK, StateType, UpdateFromRemote, Goes
<1>2. Runs = machines(config)
  <2>1. Ids = nodesOf(machines(config))
    BY DEF DeployedAs, Ids
  <2>2. \A n \in Ids : Lives(n) /\ live[k8s.ids[n]].vms = {v \in machines(config) : v.node = n}
    BY DEF DeployedAs, Ids, Lives
  <2>3. Runs \subseteq machines(config)
    BY <2>2 DEF Runs
  <2>4. ASSUME NEW v \in machines(config) PROVE v \in Runs
    <3>1. v.node \in Ids
      BY <2>1 DEF nodesOf
    <3>2. v \in live[k8s.ids[v.node]].vms
      BY <2>2, <3>1
    <3> QED BY <2>2, <3>1, <3>2 DEF Runs
  <2> QED BY <2>3, <2>4
<1>3. PICK seen \in Seen(Runs) :
        /\ k8s'.master = {v \in seen : v.name \in Names(k8s.master)}
        /\ k8s'.workers = seen \ k8s'.master
  BY RemoteShows
<1>4. \A v, w \in machines(config) : v.name = w.name => v = w
  BY <1>1, KubernetesAssumption
<1>5. seen = machines(config)
  <2>1. seen \subseteq machines(config) /\ Names(seen) = Names(machines(config))
    BY <1>2 DEF Seen
  <2>2. ASSUME NEW v \in machines(config) PROVE v \in seen
    <3>1. v.name \in Names(seen)
      BY <2>1 DEF Names
    <3>2. PICK w \in seen : w.name = v.name
      BY <3>1 DEF Names
    <3> QED BY <1>4, <2>1, <3>2
  <2> QED BY <2>1, <2>2
<1>6. PICK m \in VM : config.master = {m} /\ m \notin config.workers
  BY <1>1, KubernetesAssumption
<1>7. Names(k8s.master) = {m.name}
  BY <1>6 DEF AsWritten, Names
<1>8. k8s'.master = {m}
  BY <1>3, <1>4, <1>5, <1>6, <1>7 DEF machines
<1>9. k8s'.workers = config.workers
  BY <1>3, <1>5, <1>6, <1>8 DEF machines
<1> QED BY <1>1, <1>6, <1>8, <1>9 DEF AsWritten

LEMMA RecordingNext ==
  TypeOK /\ Room /\ Matching /\ Applying /\ Recording /\ [Next]_vars => Recording'
<1> SUFFICES ASSUME TypeOK, Applying, Recording, [Next]_vars PROVE Recording'
  OBVIOUS
<1>1. /\ Idle <=> step = "none"
      /\ step = "deploy" => op \in {"create", "update"}
      /\ step \in {"validate", "invalidate"} => op = "read"
  BY DEF TypeOK, HandlerType, Idle
<1>2. ASSUME step' \notin {"deploy", "sync", "store"} \/ (op' = "read" /\ step' # "deploy"),
             last' # "applied", op' # "none" => last' = "none"
      PROVE  Recording'
  BY <1>2 DEF Recording, AppliedIsRecorded, Idle
<1>3. CASE Create \/ Update
  <2>1. /\ step' = "deploy" /\ last' = "none" /\ config' = config
        /\ k8s'.master = config.master /\ k8s'.workers = config.workers
    BY <1>3 DEF Create, Update, Begins, newK8s
  <2> QED BY <2>1 DEF Recording, AppliedIsRecorded, AsWritten
<1>4. CASE Read \/ Delete
  BY <1>2, <1>4 DEF Read, Delete, Begins
<1>5. CASE Deploy
  <2>1. /\ k8s'.master = k8s.master /\ k8s'.workers = k8s.workers
        /\ UNCHANGED <<config, op, last>> /\ step = "deploy" /\ step' = "sync"
    <3>1. k8s \in K8sType /\ \E new : k8s' = [k8s EXCEPT !.ids = Deployed(new)]
      BY <1>5 DEF Deploy, TypeOK, HandlerType
    <3> QED BY <1>5, <3>1 DEF Deploy, K8sType
  <2>2. last' = "none"
    BY <1>1, <2>1 DEF Recording
  <2> QED BY <2>1, <2>2 DEF Recording, AppliedIsRecorded, AsWritten
<1>6. CASE Validate \/ Invalidate
  <2>1. op' = "read" /\ step' \in {"invalidate", "sync"} /\ last' = "none"
    BY <1>1, <1>6 DEF Validate, Invalidate, Goes, Recording
  <2> QED BY <1>2, <2>1
<1>7. CASE UpdateFromRemote
  <2>1. /\ step = "sync" /\ step' = "store" /\ UNCHANGED <<op, quiet, config>> /\ last' = "none"
    BY <1>1, <1>7 DEF UpdateFromRemote, Goes, Recording, histVars
  <2>2. op # "read" /\ quiet => AsWritten(k8s)'
    <3>1. op # "read" /\ quiet => DeployedAs(k8s.ids) /\ AsWritten(k8s)
      BY <2>1 DEF Applying, Recording
    <3> QED BY <1>7, <3>1, RemoteAsWritten
  <2> QED BY <2>1, <2>2 DEF Recording, AppliedIsRecorded
<1>8. CASE storeK8sState
  <2>1. /\ step = "store" /\ op' = "none" /\ step' = "none" /\ UNCHANGED <<quiet, config>>
        /\ last' = "applied" => op # "read"
    BY <1>8 DEF storeK8sState, Ends, histVars
  <2>2. last' = "applied" /\ quiet => AsWritten(k8s)
    BY <2>1 DEF Recording
  <2>3. /\ k8s.master # {} => state'.master = k8s.master
        /\ (\A v \in k8s.workers, m \in k8s.master : v.seed = m.seed) =>
             state'.workers = k8s.workers
    BY <1>8, StoreIs, StoreSeeds
  <2>4. config.master # {}
    BY KubernetesAssumption DEF TypeOK, StateType
  <2>5. AppliedIsRecorded'
    BY <2>1, <2>2, <2>3, <2>4 DEF AppliedIsRecorded, AsWritten, differs
  <2> QED BY <2>1, <2>5 DEF Recording, Idle
<1>9. ASSUME NEW how, Ends(how), how # "applied" PROVE Recording'
  BY <1>2, <1>9 DEF Ends
<1>10. CASE Edit \/ Refuses
  BY <1>1, <1>2, <1>10 DEF Edit, Refuses, opVars, Idle
<1>11. CASE Expire
  BY <1>11 DEF Expire, opVars, stateVars, Recording, AppliedIsRecorded, AsWritten, Idle
<1>12. CASE UNCHANGED <<live, config, exists, state, op, step, k8s, last, quiet>>
  BY <1>12 DEF Recording, AppliedIsRecorded, AsWritten, differs, Idle
<1> QED BY <1>3, <1>4, <1>5, <1>6, <1>7, <1>8, <1>9, <1>10, <1>11, <1>12, UnchangedApart

\* The state after an apply is the cluster the user wrote, as long as no worker has
\* a seed that is not the master's.
THEOREM AppliesRecord == Spec => []AppliedIsRecorded
<1>1. Init => Matching /\ Applying /\ Recording
  BY NothingIs, NoneMatch DEF Init, Matching, Applying, Recording, AppliedIsRecorded, Idle
<1>2. Recording => AppliedIsRecorded
  BY DEF Recording
<1>3. Spec => [](TypeOK /\ Room /\ Matching /\ Applying /\ Recording)
  BY <1>1, KubernetesInit, TypeNext, MatchingNext, ApplyingNext, RecordingNext, PTL DEF Spec
<1> QED BY <1>2, <1>3, PTL
=============================================================================
