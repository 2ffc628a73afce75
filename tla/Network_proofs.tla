--------------------------- MODULE Network_proofs ---------------------------
(***************************************************************************)
(* Proofs about Network: its types, that it accounts for its contracts as  *)
(* Contracts wants, and that what an apply or a refresh reports is so.     *)
(***************************************************************************)
EXTENDS Network, FiniteSetTheorems, TLAPS

LEMMA NoIdsEmpty ==
  /\ DOMAIN NoIds = {} /\ Range(NoIds) = {}
  /\ NoIds \in Deployments /\ Nothing \in Known
  /\ Nothing.ids = NoIds
<1>1. DOMAIN NoIds = {}
  BY DEF NoIds
<1>2. NoIds \in [{} -> ContractId]
  BY <1>1 DEF NoIds
<1>3. NoIds \in Deployments
  BY <1>2 DEF Deployments
<1> QED BY <1>1, <1>3 DEF Range, Nothing, Known

LEMMA DeploymentsIs ==
  ASSUME NEW ids
  PROVE  ids \in Deployments <=>
           DOMAIN ids \subseteq Node /\ ids \in [DOMAIN ids -> ContractId]
BY DEF Deployments

LEMMA CountsType ==
  ASSUME TypeOK, Counts PROVE trouble' \in 0 .. MaxTrouble
BY NetworkAssumption DEF TypeOK, ChainType, Counts

-----------------------------------------------------------------------------
(* The types, with the room a Deploy needs.                                *)

\* An apply began with room for a contract on every node, and has it until it
\* deploys; no id is ahead of the contracts made.
Room ==
  /\ step \in {"load", "deploy"} /\ op \in {"create", "update"} => HasRoom
  /\ Range(state.ids) \subseteq 1 .. made /\ Range(net.ids) \subseteq 1 .. made

LEMMA MoreFits ==
  ASSUME TypeOK, NEW more \in SUBSET Node, HasRoom \/ more = {}
  PROVE  /\ Cardinality(more) \in Nat
         /\ made + Cardinality(more) <= MaxContract
<1>1. IsFiniteSet(Node) /\ made \in Nat /\ made <= MaxContract /\ MaxContract \in Nat
  BY NetworkAssumption DEF TypeOK, ChainType
<1>2. /\ IsFiniteSet(more) /\ Cardinality(more) <= Cardinality(Node)
      /\ Cardinality(more) \in Nat /\ Cardinality(Node) \in Nat
  BY <1>1, FS_Subset, FS_CardinalityType
<1>3. CASE HasRoom
  BY <1>1, <1>2, <1>3 DEF HasRoom
<1>4. CASE more = {}
  <2>1. Cardinality(more) = 0
    BY <1>4, FS_EmptySet
  <2> QED BY <1>1, <2>1
<1> QED BY <1>2, <1>3, <1>4

\* What a Deploy or Cancel, whole or in part, does to the chain and the network.
Gives(more, less, pub) ==
  /\ made' \in 0 .. MaxContract /\ made <= made'
  /\ DOMAIN live' = (DOMAIN live \cup (made + 1 .. made'))
                      \ {net.ids[n] : n \in less}
  /\ live' \in [DOMAIN live' -> Node]
  /\ \A c \in DOMAIN live' : c \in DOMAIN live => live'[c] = live[c]
  /\ net' \in Known /\ net'.nodes = net.nodes /\ net'.pub = pub
  /\ DOMAIN net'.ids = (Ids \cup more) \ less
  /\ \A n \in Ids \ less : net'.ids[n] = net.ids[n]
  /\ \A n \in more : /\ net'.ids[n] \in made + 1 .. made'
                     /\ net'.ids[n] \in DOMAIN live'
                     /\ live'[net'.ids[n]] = n
  /\ \A c \in made + 1 .. made' : \E n \in more : net'.ids[n] = c

LEMMA DeploysGives ==
  ASSUME TypeOK, Room, NEW more \in SUBSET (Node \ Ids), NEW less \in SUBSET Ids,
         NEW pub \in Node \cup {NoNode}, HasRoom \/ more = {},
         Deploys(more, less, pub)
  PROVE  Gives(more, less, pub)
<1> DEFINE fresh == made + 1 .. made + Cardinality(more)
<1>1. /\ Cardinality(more) \in Nat /\ made + Cardinality(more) <= MaxContract
      /\ made \in Nat /\ MaxContract \in Nat
  BY MoreFits, NetworkAssumption DEF TypeOK, ChainType
<1>2. made' = made + Cardinality(more)
  BY DEF Deploys
<1>3. made' \in 0 .. MaxContract /\ made <= made' /\ fresh = made + 1 .. made'
  BY <1>1, <1>2
<1>4. PICK new \in Bijection(more, fresh) :
        /\ net' = [net EXCEPT !.pub = pub, !.ids =
             [n \in (Ids \cup more) \ less |->
                IF n \in more THEN new[n] ELSE net.ids[n]]]
        /\ live' = [c \in (DOMAIN live \cup fresh) \ {net.ids[n] : n \in less} |->
                      IF c \in fresh THEN CHOOSE n \in more : new[n] = c ELSE live[c]]
  BY DEF Deploys
<1>5. /\ new \in [more -> fresh]
      /\ \A a, b \in more : new[a] = new[b] => a = b
      /\ \A t \in fresh : \E n \in more : new[n] = t
  BY <1>4 DEF Bijection, Injection, Surjection, IsInjective
<1>6. /\ net \in Known /\ Ids \subseteq Node /\ net.ids \in [Ids -> ContractId]
      /\ \A n \in Ids : net.ids[n] \in 1 .. made
  BY DeploymentsIs DEF TypeOK, HandlerType, Known, Room, Range, Ids
<1>7. /\ net'.nodes = net.nodes /\ net'.pub = pub
      /\ net'.ids = [n \in (Ids \cup more) \ less |->
                       IF n \in more THEN new[n] ELSE net.ids[n]]
      /\ net' = [nodes |-> net.nodes, ids |-> net'.ids, pub |-> pub]
  BY <1>4, <1>6 DEF Known
<1>8. /\ DOMAIN net'.ids = (Ids \cup more) \ less
      /\ \A n \in Ids \ less : net'.ids[n] = net.ids[n]
      /\ \A n \in more : net'.ids[n] = new[n]
  BY <1>7
<1>9. fresh \subseteq ContractId
  BY <1>1 DEF ContractId
<1>10. net' \in Known
  <2>1. net'.ids \in [DOMAIN net'.ids -> ContractId] /\ DOMAIN net'.ids \subseteq Node
    BY <1>5, <1>6, <1>7, <1>9
  <2> QED BY <1>6, <1>7, <2>1, DeploymentsIs DEF Known
<1>11. \A n \in less : net.ids[n] \notin fresh
  BY <1>1, <1>6
<1>12. DOMAIN live' = (DOMAIN live \cup fresh) \ {net.ids[n] : n \in less}
  BY <1>4
<1>13. \A n \in more : new[n] \in DOMAIN live' /\ live'[new[n]] = n
  <2> SUFFICES ASSUME NEW n \in more
               PROVE  new[n] \in DOMAIN live' /\ live'[new[n]] = n
    OBVIOUS
  <2>1. new[n] \in fresh /\ new[n] \in DOMAIN live'
    BY <1>5, <1>11, <1>12
  <2>2. (CHOOSE m \in more : new[m] = new[n]) = n
    BY <1>5
  <2> QED BY <1>4, <2>1, <2>2
<1>14. \A c \in DOMAIN live' : c \in DOMAIN live => live'[c] = live[c]
  <2>1. \A c \in DOMAIN live : c \notin fresh
    BY <1>1 DEF TypeOK, ChainType
  <2> QED BY <1>4, <2>1
<1>15. live' \in [DOMAIN live' -> Node]
  <2>1. \A c \in DOMAIN live' : live'[c] \in Node
    <3> SUFFICES ASSUME NEW c \in DOMAIN live' PROVE live'[c] \in Node
      OBVIOUS
    <3>1. CASE c \in DOMAIN live
      BY <1>14, <3>1 DEF TypeOK, ChainType
    <3>2. CASE c \in fresh
      <4>1. PICK n \in more : new[n] = c
        BY <1>5, <3>2
      <4> QED BY <1>13, <4>1
    <3> QED BY <1>12, <3>1, <3>2
  <2> QED BY <1>4, <2>1
<1>16. DOMAIN live' = (DOMAIN live \cup (made + 1 .. made')) \ {net.ids[n] : n \in less}
  BY <1>3, <1>12
<1>17. \A n \in more : /\ net'.ids[n] \in made + 1 .. made'
                       /\ net'.ids[n] \in DOMAIN live' /\ live'[net'.ids[n]] = n
  <2> SUFFICES ASSUME NEW n \in more
               PROVE  /\ net'.ids[n] \in made + 1 .. made'
                      /\ net'.ids[n] \in DOMAIN live' /\ live'[net'.ids[n]] = n
    OBVIOUS
  <2>1. net'.ids[n] = new[n] /\ new[n] \in fresh
    BY <1>5, <1>8
  <2>2. new[n] \in made + 1 .. made'
    BY <1>3, <2>1
  <2> QED BY <1>13, <2>1, <2>2
<1>18. \A c \in made + 1 .. made' : \E n \in more : net'.ids[n] = c
  BY <1>3, <1>5, <1>8
<1> HIDE DEF fresh
<1> QED BY <1>3, <1>7, <1>8, <1>10, <1>14, <1>15, <1>16, <1>17, <1>18 DEF Gives

LEMMA BeginsType ==
  ASSUME TypeOK, Room, NEW handler \in {"create", "read", "update", "delete"},
         Begins(handler), handler = "update" => exists,
         handler \in {"create", "update"} => HasRoom
  PROVE  TypeOK' /\ Room'
<1>1. ChainType' /\ StateType'
  BY DEF TypeOK, ChainType, StateType, Begins, chainVars, stateVars
<1>2. HandlerType'
  BY NoIdsEmpty DEF TypeOK, HandlerType, StateType, Begins, stateVars
<1>3. Room'
  BY NoIdsEmpty DEF Room, HasRoom, Begins, chainVars, stateVars
<1> QED BY <1>1, <1>2, <1>3 DEF TypeOK

\* A handler that ends, with the state as it is or with other nodes.
LEMMA EndsType ==
  ASSUME TypeOK, Room, ChainType',
         NEW how \in {"error", "killed", "refreshed", "deleted", "applied"}, Ends(how),
         state' \in Known, exists' \in BOOLEAN, tainted' \in BOOLEAN,
         ~exists' => (state' = Nothing /\ ~tainted'),
         Range(state'.ids) \subseteq 1 .. made',
         UNCHANGED <<up, config, quiet>>, told' \subseteq ContractId
  PROVE  TypeOK' /\ Room'
<1>1. StateType'
  BY DEF TypeOK, StateType, Ends
<1>2. HandlerType'
  BY NoIdsEmpty DEF HandlerType, Ends
<1>3. Room'
  BY NoIdsEmpty DEF Room, Ends
<1> QED BY <1>1, <1>2, <1>3 DEF TypeOK

LEMMA FailsType ==
  ASSUME TypeOK, Room, Fails, UNCHANGED <<chainVars, up, config, histVars>>,
         Counts \/ UNCHANGED trouble
  PROVE  TypeOK' /\ Room'
<1>1. ChainType'
  BY CountsType DEF TypeOK, ChainType, chainVars
<1>2. /\ state' \in Known /\ state'.ids = state.ids
      /\ ~exists => state' = state
  BY DEF Fails, TypeOK, StateType, HandlerType, Known
<1>3. made' = made /\ UNCHANGED <<exists, tainted, quiet, told, up, config>>
  BY DEF Fails, chainVars, histVars
<1>4. Range(state'.ids) \subseteq 1 .. made'
  BY <1>2, <1>3 DEF Room
<1> QED BY <1>1, <1>2, <1>3, <1>4, EndsType DEF Fails, TypeOK, StateType

\* A handler that goes on with the state as it is.
LEMMA GoesOnType ==
  ASSUME TypeOK, Room, ChainType', made <= made',
         UNCHANGED <<stateVars, up, config, last, op, histVars>>, failed' \in BOOLEAN,
         op # "none", step' \in {"deploy", "cancel", "invalidate", "store"},
         step' = "deploy" => op \in {"create", "update"} /\ UNCHANGED made /\ step = "load",
         step' = "cancel" => op = "delete", step' = "invalidate" => op = "read",
         net' \in Known, Range(net'.ids) \subseteq 1 .. made'
  PROVE  TypeOK' /\ Room'
<1>1. StateType'
  BY DEF TypeOK, StateType, stateVars, histVars
<1>2. HandlerType'
  BY DEF TypeOK, HandlerType, stateVars
<1>3. made \in Nat /\ made' \in Nat /\ state' = state
  BY NetworkAssumption DEF TypeOK, ChainType, stateVars
<1>4. Range(state'.ids) \subseteq 1 .. made'
  BY <1>3 DEF Room
<1>5. Room'
  BY <1>4 DEF Room, HasRoom
<1> QED BY <1>1, <1>2, <1>5 DEF TypeOK

LEMMA DeploysType ==
  ASSUME TypeOK, Room, step \in {"deploy", "cancel"}, step' = "store",
         NEW more \in SUBSET (Node \ Ids), NEW less \in SUBSET Ids,
         NEW pub \in Node \cup {NoNode}, step = "deploy" \/ more = {},
         Deploys(more, less, pub), Counts \/ UNCHANGED trouble, failed' \in BOOLEAN,
         UNCHANGED <<up, config, stateVars, op, last, histVars>>
  PROVE  TypeOK' /\ Room'
<1>1. Gives(more, less, pub)
  <2>1. HasRoom \/ more = {}
    BY DEF Room, TypeOK, HandlerType
  <2> QED BY <2>1, DeploysGives
<1>2. /\ made \in Nat /\ made' \in 0 .. MaxContract /\ made <= made'
      /\ DOMAIN live \subseteq 1 .. made
  BY <1>1, NetworkAssumption DEF Gives, TypeOK, ChainType
<1>3. DOMAIN live' \subseteq 1 .. made' /\ live' \in [DOMAIN live' -> Node]
  BY <1>1, <1>2 DEF Gives
<1>4. ChainType'
  BY <1>2, <1>3, CountsType DEF TypeOK, ChainType
<1>5. net' \in Known
  BY <1>1 DEF Gives
<1>6. \A n \in DOMAIN net'.ids : net'.ids[n] \in 1 .. made'
  <2> SUFFICES ASSUME NEW n \in DOMAIN net'.ids PROVE net'.ids[n] \in 1 .. made'
    OBVIOUS
  <2>1. n \in more \/ n \in Ids \ less
    BY <1>1 DEF Gives
  <2>2. CASE n \in more
    BY <1>1, <1>2, <2>2 DEF Gives
  <2>3. CASE n \in Ids \ less
    <3>1. net'.ids[n] = net.ids[n] /\ net.ids[n] \in 1 .. made
      BY <1>1, <2>3 DEF Gives, Room, Range, Ids
    <3> QED BY <1>2, <3>1
  <2> QED BY <2>1, <2>2, <2>3
<1>7. Range(net'.ids) \subseteq 1 .. made'
  BY <1>6 DEF Range
<1> QED BY <1>2, <1>4, <1>5, <1>7, GoesOnType DEF TypeOK, HandlerType

LEMMA DeploySteps ==
  ASSUME TypeOK, Room, Deploy \/ DeployFails \/ CancelFails
  PROVE  \E pub \in Node \cup {NoNode}, more \in SUBSET (Node \ Ids), less \in SUBSET Ids :
           /\ Deploys(more, less, pub) /\ Gives(more, less, pub)
           /\ step = "deploy" \/ more = {}
<1>1. /\ net.nodes \subseteq Node /\ net.pub \in Node \cup {NoNode}
      /\ \A pub \in Node \cup {NoNode} : Needed(pub) \subseteq Node
  BY DEF TypeOK, HandlerType, Known, Needed
<1>2. \E pub \in Node \cup {NoNode}, more \in SUBSET (Node \ Ids), less \in SUBSET Ids :
        Deploys(more, less, pub) /\ (step = "deploy" \/ more = {})
  <2>1. CASE Deploy
    <3>1. PICK pub \in Node \cup {NoNode} :
            Deploys(Needed(pub) \ Ids, Ids \ Needed(pub), pub)
      BY <2>1 DEF Deploy
    <3>2. Needed(pub) \ Ids \in SUBSET (Node \ Ids) /\ Ids \ Needed(pub) \in SUBSET Ids
      BY <1>1
    <3> QED BY <2>1, <3>1, <3>2 DEF Deploy
  <2>2. CASE DeployFails
    <3>1. PICK pub \in Node \cup {NoNode} :
            \E more \in SUBSET (Needed(pub) \ Ids), less \in SUBSET (Ids \ Needed(pub)) :
              Deploys(more, less, pub)
      BY <2>2 DEF DeployFails, PartlyDeploys
    <3>2. PICK more \in SUBSET (Needed(pub) \ Ids), less \in SUBSET (Ids \ Needed(pub)) :
              Deploys(more, less, pub)
      BY <3>1
    <3>3. more \in SUBSET (Node \ Ids) /\ less \in SUBSET Ids
      BY <1>1
    <3> QED BY <2>2, <3>2, <3>3 DEF DeployFails
  <2>3. CASE CancelFails
    <3>1. PICK less \in SUBSET Ids : Deploys({}, less, net.pub)
      BY <2>3 DEF CancelFails
    <3>2. {} \in SUBSET (Node \ Ids)
      OBVIOUS
    <3> QED BY <1>1, <3>1, <3>2
  <2> QED BY <2>1, <2>2, <2>3
<1>3. PICK pub \in Node \cup {NoNode}, more \in SUBSET (Node \ Ids), less \in SUBSET Ids :
        Deploys(more, less, pub) /\ (step = "deploy" \/ more = {})
  BY <1>2
<1>4. HasRoom \/ more = {}
  BY <1>3 DEF Room, TypeOK, HandlerType
<1>5. Gives(more, less, pub)
  BY <1>3, <1>4, DeploysGives
<1> QED BY <1>3, <1>5

LEMMA RangeOfFewer ==
  ASSUME NEW f, NEW S \in SUBSET DOMAIN f
  PROVE  /\ DOMAIN Restrict(f, S) = S /\ Range(Restrict(f, S)) \subseteq Range(f)
         /\ \A x \in S : Restrict(f, S)[x] = f[x]
BY DEF Restrict, Range

LEMMA TypeInit == Init => TypeOK /\ Room
<1> SUFFICES ASSUME Init PROVE TypeOK /\ Room
  OBVIOUS
<1>1. ChainType
  BY NetworkAssumption DEF Init, ChainType
<1>2. StateType
  <2>1. config \subseteq Node /\ config # {} /\ up \subseteq Node
    BY DEF Init
  <2> QED BY <2>1, NoIdsEmpty DEF Init, StateType
<1>3. HandlerType
  BY NoIdsEmpty DEF Init, HandlerType
<1>4. Room
  BY NoIdsEmpty DEF Init, Room
<1> QED BY <1>1, <1>2, <1>3, <1>4 DEF TypeOK

LEMMA TypeNext == TypeOK /\ Room /\ [Next]_vars => TypeOK' /\ Room'
<1> SUFFICES ASSUME TypeOK, Room, [Next]_vars PROVE TypeOK' /\ Room'
  OBVIOUS
<1>1. CASE Create \/ Update \/ Read \/ Delete
  BY <1>1, BeginsType DEF Create, Update, Read, Delete
<1>2. ASSUME Counts \/ UNCHANGED trouble, UNCHANGED chainVars
      PROVE  ChainType'
  BY <1>2, CountsType DEF TypeOK, ChainType, chainVars
<1>3. CASE Edit
  <2>1. config' \subseteq Node /\ config' # {} /\ up' = up
    BY <1>3 DEF Edit
  <2>2. StateType'
    BY <1>3, <2>1 DEF Edit, TypeOK, StateType, stateVars, histVars
  <2>3. HandlerType'
    BY <1>3 DEF Edit, TypeOK, HandlerType, opVars, stateVars
  <2>4. Room'
    BY <1>3 DEF Edit, Room, HasRoom, opVars, stateVars, chainVars
  <2> QED BY <1>2, <1>3, <2>2, <2>3, <2>4 DEF Edit, TypeOK
<1>4. CASE LoadFails \/ CreateFails \/ InvalidateFails
  BY <1>4, FailsType DEF LoadFails, CreateFails, InvalidateFails
<1>5. CASE Load
  <2>1. net' \in Known /\ net'.ids = state.ids
    BY <1>5 DEF Load, TypeOK, StateType, Known, dataNodes
  <2>2. op # "none" /\ UNCHANGED made /\ made <= made'
    BY <1>5, NetworkAssumption DEF Load, TypeOK, HandlerType, ChainType, chainVars
  <2>3. Range(net'.ids) \subseteq 1 .. made'
    BY <2>1, <2>2 DEF Room
  <2>4. ChainType'
    BY <1>2, <1>5 DEF Load
  <2>5. /\ step' \in {"deploy", "cancel", "invalidate"}
        /\ step' = "deploy" => op \in {"create", "update"}
        /\ step' = "cancel" => op = "delete"
        /\ step' = "invalidate" => op = "read"
    BY <1>5 DEF Load, TypeOK, HandlerType
  <2> QED BY <1>5, <2>1, <2>2, <2>3, <2>4, <2>5, GoesOnType DEF Load, TypeOK, HandlerType
<1>6. CASE Deploy \/ DeployFails \/ CancelFails
  <2>1. /\ step \in {"deploy", "cancel"} /\ step' = "store"
        /\ Counts \/ UNCHANGED trouble
        /\ failed' \in BOOLEAN
        /\ UNCHANGED <<up, config, stateVars, op, last, histVars>>
    BY <1>6 DEF Deploy, DeployFails, CancelFails, TypeOK, HandlerType
  <2> QED BY <1>6, <2>1, DeploySteps, DeploysType
<1>7. CASE Cancel
  <2>1. ChainType'
    BY <1>7 DEF Cancel, TypeOK, ChainType
  <2>2. Range(state'.ids) \subseteq 1 .. made'
    BY <1>7, NoIdsEmpty DEF Cancel
  <2> QED BY <1>7, <2>1, <2>2, NoIdsEmpty, EndsType DEF Cancel, histVars, TypeOK, StateType
<1>8. CASE Invalidate
  <2> DEFINE kept == {n \in Ids : net.ids[n] \in DOMAIN live}
  <2>1. PICK pub \in {net.pub, NoNode} :
          net' = [net EXCEPT !.pub = pub, !.ids = Restrict(net.ids, kept)]
    BY <1>8 DEF Invalidate
  <2>2. net \in Known /\ Range(net.ids) \subseteq 1 .. made /\ kept \subseteq DOMAIN net.ids
    BY DEF TypeOK, HandlerType, Room, Ids
  <2>3. /\ net'.ids = Restrict(net.ids, kept)
        /\ net' = [nodes |-> net.nodes, ids |-> net'.ids, pub |-> pub]
    BY <2>1, <2>2 DEF Known
  <2>4. net'.ids \in Deployments /\ Range(net'.ids) \subseteq 1 .. made
    <3>1. /\ DOMAIN net'.ids = kept /\ Range(net'.ids) \subseteq Range(net.ids)
          /\ net'.ids = [n \in kept |-> net.ids[n]]
      BY <2>2, <2>3, RangeOfFewer DEF Restrict
    <3>2. DOMAIN net.ids \subseteq Node /\ net.ids \in [DOMAIN net.ids -> ContractId]
      BY <2>2, DeploymentsIs DEF Known
    <3>3. net'.ids \in [DOMAIN net'.ids -> ContractId] /\ DOMAIN net'.ids \subseteq Node
      BY <2>2, <3>1, <3>2
    <3> QED BY <2>2, <3>1, <3>3, DeploymentsIs
  <2>5. net' \in Known
    BY <2>2, <2>3, <2>4 DEF Known
  <2>6. made' = made /\ made <= made' /\ ChainType' /\ op # "none"
    BY <1>2, <1>8, NetworkAssumption DEF Invalidate, chainVars, TypeOK, ChainType, HandlerType
  <2> QED BY <1>8, <2>4, <2>5, <2>6, GoesOnType DEF Invalidate, TypeOK, HandlerType
<1>9. CASE Store
  <2>1. storedNodes \subseteq Node /\ net \in Known
    BY DeploymentsIs DEF TypeOK, HandlerType, Known, storedNodes, Ids
  <2>2. state' \in Known /\ state'.ids = net.ids
    BY <1>9, <2>1 DEF Store, Known
  <2>3. ChainType' /\ made' = made
    BY <1>2, <1>9 DEF Store, chainVars
  <2>4. Range(state'.ids) \subseteq 1 .. made'
    BY <2>2, <2>3 DEF Room
  <2>5. PICK how \in {"error", "refreshed", "applied"} : Ends(how)
    BY <1>9 DEF Store
  <2>6. exists' = TRUE /\ tainted' \in BOOLEAN
    BY <1>9 DEF Store, TypeOK, StateType, HandlerType
  <2> QED BY <1>9, <2>2, <2>3, <2>4, <2>5, <2>6, EndsType DEF Store, histVars, TypeOK,
             StateType
<1>10. CASE Kill
  <2>1. ChainType' /\ made' = made /\ UNCHANGED stateVars /\ Ends("killed")
    BY <1>2, <1>10 DEF Kill, chainVars
  <2>2. Range(state'.ids) \subseteq 1 .. made'
    BY <2>1 DEF Room, stateVars
  <2>3. told' \subseteq ContractId
    BY <1>10, NetworkAssumption DEF Kill, TypeOK, ChainType, StateType, ContractId
  <2> QED BY <1>10, <2>1, <2>2, <2>3, EndsType DEF Kill, stateVars, TypeOK, StateType
<1>11. CASE Expire
  <2>1. PICK c \in DOMAIN live : live' = Restrict(live, DOMAIN live \ {c})
    BY <1>11 DEF Expire
  <2>2. ChainType'
    BY <1>11, <2>1, CountsType DEF Expire, TypeOK, ChainType, Restrict
  <2>3. StateType'
    BY <1>11 DEF Expire, TypeOK, StateType, stateVars
  <2>4. HandlerType'
    BY <1>11 DEF Expire, TypeOK, HandlerType, stateVars, opVars
  <2>5. Room'
    BY <1>11 DEF Expire, Room, HasRoom, stateVars, opVars
  <2> QED BY <2>2, <2>3, <2>4, <2>5 DEF TypeOK
<1>12. CASE Outage
  <2>1. StateType'
    BY <1>12 DEF Outage, TypeOK, StateType, stateVars, histVars
  <2>2. HandlerType'
    BY <1>12 DEF Outage, TypeOK, HandlerType, stateVars, opVars
  <2>3. Room'
    BY <1>12 DEF Outage, Room, HasRoom, stateVars, opVars, chainVars
  <2> QED BY <1>2, <1>12, <2>1, <2>2, <2>3 DEF Outage, TypeOK
<1>13. CASE UNCHANGED vars
  BY <1>13 DEF vars, TypeOK, ChainType, StateType, HandlerType, Room, HasRoom, chainVars,
     stateVars, opVars, histVars
<1> QED BY <1>1, <1>3, <1>4, <1>5, <1>6, <1>7, <1>8, <1>9, <1>10, <1>11, <1>12, <1>13
    DEF Next

\* Every variable keeps its type, for any number of nodes, contracts and failures.
THEOREM TypeCorrect == Spec => []TypeOK
BY TypeInit, TypeNext, PTL DEF Spec

-----------------------------------------------------------------------------
(* The contracts of the network.                                           *)

\* An id names a contract of its node, as long as the contract lives.
OnNode(ids) == \A n \in DOMAIN ids : ids[n] \in DOMAIN live => live[ids[n]] = n

AllLive(ids) == \A n \in DOMAIN ids : ids[n] \in DOMAIN live

\* A handler at work starts from the ids of the state, on the nodes of the
\* configuration when it deploys, and drops only what lives no more.
Working ==
  /\ step \in {"deploy", "cancel", "invalidate"} => net.ids = state.ids
  /\ step = "deploy" => net.nodes = config
  /\ step = "store" => Range(state.ids) \cap DOMAIN live \subseteq Range(net.ids)
  /\ step = "store" /\ op = "delete" => failed
  /\ ~Idle => last = "none"

\* Every contract alive that no handler was killed over is held: by the handler
\* that is about to store what it knows, and by the state otherwise.
held == IF step = "store" THEN net.ids ELSE state.ids
Held == DOMAIN live \subseteq Range(held) \cup told

\* What is about to be stored as a success is one.
Covers == /\ net.nodes = config /\ config \subseteq Ids
          /\ Ids \subseteq config \cup {net.pub}
Ready ==
  step = "store" /\ ~failed /\ quiet => AllLive(net.ids) /\ (op # "read" => Covers)

Reports == AppliedIsDeployed /\ RefreshIsTruth

Accounted ==
  /\ OnNode(state.ids) /\ OnNode(net.ids)
  /\ Working /\ Held /\ Ready /\ Reports

\* What Deploy and Cancel, whole or in part, do to the accounts.
LEMMA DeploysAccounted ==
  ASSUME TypeOK, Room, Accounted, step \in {"deploy", "cancel"}, step' = "store",
         NEW more \in SUBSET (Node \ Ids), NEW less \in SUBSET Ids, NEW pub,
         Gives(more, less, pub), UNCHANGED <<state, op, last, told>>,
         op = "delete" => failed'
  PROVE  OnNode(state.ids)' /\ OnNode(net.ids)' /\ Working' /\ Held'
<1>1. /\ made \in Nat /\ made' \in Nat /\ DOMAIN live \subseteq 1 .. made
      /\ \A n \in Ids : net.ids[n] \in 1 .. made
      /\ net.ids = state.ids /\ last = "none" /\ op # "none"
  BY DEF TypeOK, ChainType, HandlerType, Room, Range, Ids, Gives, Accounted, Working, Idle
<1>2. ASSUME NEW n \in Ids, net.ids[n] \in DOMAIN live'
      PROVE  net.ids[n] \in DOMAIN live /\ live'[net.ids[n]] = n /\ n \notin less
  <2>1. net.ids[n] \in DOMAIN live
    BY <1>1, <1>2 DEF Gives
  <2>2. live[net.ids[n]] = n
    BY <2>1 DEF Accounted, OnNode, Ids
  <2> QED BY <1>2, <2>1, <2>2 DEF Gives
<1>3. OnNode(state.ids)'
  BY <1>1, <1>2 DEF OnNode, Ids
<1>4. OnNode(net.ids)'
  BY <1>2 DEF OnNode, Gives
<1>5. \A n \in Ids : net.ids[n] \in DOMAIN live' => net.ids[n] \in Range(net'.ids)
  <2> SUFFICES ASSUME NEW n \in Ids, net.ids[n] \in DOMAIN live'
               PROVE  net.ids[n] \in Range(net'.ids)
    OBVIOUS
  <2>1. n \in DOMAIN net'.ids /\ net'.ids[n] = net.ids[n]
    BY <1>2 DEF Gives
  <2> QED BY <2>1 DEF Range
<1>6. Working'
  <2>1. Range(state.ids) \cap DOMAIN live' \subseteq Range(net'.ids)
    BY <1>1, <1>5 DEF Range, Ids
  <2> QED BY <1>1, <2>1 DEF Working, Idle
<1>7. Held'
  <2> SUFFICES ASSUME NEW c \in DOMAIN live', c \notin told PROVE c \in Range(net'.ids)
    BY DEF Held, held
  <2>1. CASE c \in DOMAIN live
    <3>1. c \in Range(net.ids)
      BY <1>1, <2>1 DEF Accounted, Held, held
    <3> QED BY <1>5, <3>1 DEF Range, Ids
  <2>2. CASE c \in made + 1 .. made'
    <3>1. PICK n \in more : net'.ids[n] = c
      BY <2>2 DEF Gives
    <3>2. n \in DOMAIN net'.ids
      BY DEF Gives
    <3> QED BY <3>1, <3>2 DEF Range
  <2> QED BY <2>1, <2>2 DEF Gives
<1> QED BY <1>3, <1>4, <1>6, <1>7

\* A Deploy that works has a contract alive on the nodes it was to cover.
LEMMA DeployReady ==
  ASSUME TypeOK, Room, Accounted, Deploy
  PROVE  AllLive(net.ids)' /\ Covers'
<1>1. PICK pub \in Node \cup {NoNode} :
        AllKeptLive(pub) /\ Deploys(Needed(pub) \ Ids, Ids \ Needed(pub), pub)
  BY DEF Deploy
<1>2. Gives(Needed(pub) \ Ids, Ids \ Needed(pub), pub)
  <2>1. Needed(pub) \ Ids \in SUBSET (Node \ Ids) /\ Ids \ Needed(pub) \in SUBSET Ids
    BY DEF Needed, TypeOK, HandlerType, Known
  <2>2. HasRoom
    BY DEF Deploy, Room, TypeOK, HandlerType
  <2> QED BY <1>1, <2>1, <2>2, DeploysGives
<1>3. DOMAIN net'.ids = Needed(pub) /\ net'.nodes = net.nodes /\ net'.pub = pub
  BY <1>2 DEF Gives
<1>4. \A n \in Needed(pub) \cap Ids :
        net'.ids[n] = net.ids[n] /\ net.ids[n] \in DOMAIN live
                    /\ live[net.ids[n]] = n
  BY <1>1, <1>2 DEF Gives, AllKeptLive, Accounted, OnNode, Ids
<1>5. \A m \in Ids \ Needed(pub) : \A n \in Needed(pub) \cap Ids : net.ids[m] # net.ids[n]
  BY <1>4 DEF Accounted, OnNode, Ids
<1>6. \A n \in Needed(pub) : net'.ids[n] \in DOMAIN live'
  BY <1>2, <1>4, <1>5 DEF Gives
<1>7. net.nodes = config /\ config' = config
  BY DEF Accounted, Working, Deploy
<1> QED BY <1>3, <1>6, <1>7 DEF AllLive, Covers, Needed, Ids

\* A handler that ends without storing anything.
LEMMA EndsAccounted ==
  ASSUME Accounted, NEW how \in {"error", "killed"}, Ends(how), state'.ids = state.ids,
         UNCHANGED live, told' = told \cup DOMAIN live \/ (step # "store" /\ told' = told)
  PROVE  Accounted'
<1>1. OnNode(state.ids)' /\ OnNode(net.ids)'
  BY NoIdsEmpty DEF Accounted, OnNode, Ends
<1>2. Working' /\ Ready' /\ Reports'
  BY DEF Ends, Working, Ready, Reports, AppliedIsDeployed, RefreshIsTruth, Idle
<1>3. Held'
  BY DEF Ends, Accounted, Held, held
<1> QED BY <1>1, <1>2, <1>3 DEF Accounted

LEMMA StoreAccounted ==
  ASSUME TypeOK, Accounted, Store
  PROVE  Accounted'
<1>1. /\ net \in Known /\ step = "store" /\ op \in {"create", "update", "read", "delete"}
      /\ state'.ids = net.ids /\ state'.nodes = storedNodes /\ state'.pub = net.pub
      /\ UNCHANGED <<live, config, quiet, told>>
      /\ net' = Nothing /\ op' = "none" /\ step' = "none"
      /\ last' = IF failed THEN "error" ELSE IF op = "read" THEN "refreshed" ELSE "applied"
  BY DEF TypeOK, HandlerType, Store, Known, Ends, chainVars, histVars
<1>2. OnNode(state.ids)' /\ OnNode(net.ids)'
  BY <1>1, NoIdsEmpty DEF Accounted, OnNode
<1>3. Working' /\ Ready'
  BY <1>1 DEF Working, Ready, Idle
<1>4. Held'
  BY <1>1 DEF Accounted, Held, held
<1>5. AppliedIsDeployed'
  <2> SUFFICES ASSUME last' = "applied", quiet'
               PROVE  /\ state'.nodes = config'
                      /\ config' \subseteq DOMAIN state'.ids
                      /\ DOMAIN state'.ids \subseteq config' \cup {state'.pub}
                      /\ \A n \in DOMAIN state'.ids :
                           /\ state'.ids[n] \in DOMAIN live'
                           /\ live'[state'.ids[n]] = n
    BY DEF AppliedIsDeployed
  <2>1. ~failed /\ op # "read" /\ quiet
    BY <1>1
  <2>2. AllLive(net.ids) /\ Covers
    BY <1>1, <2>1 DEF Accounted, Ready
  <2>3. storedNodes = config
    BY <2>2 DEF Covers, storedNodes
  <2> QED BY <1>1, <2>2, <2>3 DEF Covers, AllLive, Accounted, OnNode, Ids
<1>6. RefreshIsTruth'
  <2> SUFFICES ASSUME last' = "refreshed", quiet'
               PROVE  /\ \A n \in DOMAIN state'.ids :
                           /\ state'.ids[n] \in DOMAIN live'
                           /\ live'[state'.ids[n]] = n
                      /\ state'.nodes \subseteq DOMAIN state'.ids
                      /\ DOMAIN state'.ids \ state'.nodes \subseteq {state'.pub}
    BY DEF RefreshIsTruth
  <2>1. ~failed /\ quiet
    BY <1>1
  <2>2. AllLive(net.ids)
    BY <1>1, <2>1 DEF Accounted, Ready
  <2> QED BY <1>1, <2>2 DEF AllLive, Accounted, OnNode, Ids, storedNodes
<1> QED BY <1>2, <1>3, <1>4, <1>5, <1>6 DEF Accounted, Reports

\* The steps that lose a contract, or change nothing of what is accounted for.
LEMMA ExpireAccounted ==
  ASSUME Accounted, NEW S \in SUBSET DOMAIN live, live' = Restrict(live, S),
         UNCHANGED <<state, net, step, op, config, failed, told, last>>, quiet' = FALSE
  PROVE  Accounted'
<1>1. DOMAIN live' = S /\ \A c \in S : live'[c] = live[c]
  BY DEF Restrict
<1>2. OnNode(state.ids)' /\ OnNode(net.ids)'
  BY <1>1 DEF Accounted, OnNode
<1>3. Working' /\ Held'
  BY <1>1 DEF Accounted, Working, Held, held, Idle
<1>4. Ready' /\ Reports'
  BY DEF Ready, Reports, AppliedIsDeployed, RefreshIsTruth
<1> QED BY <1>2, <1>3, <1>4 DEF Accounted

LEMMA InvalidateAccounted ==
  ASSUME TypeOK, Accounted, Invalidate
  PROVE  Accounted'
<1> DEFINE kept == {n \in Ids : net.ids[n] \in DOMAIN live}
<1>1. PICK pub \in {net.pub, NoNode} :
        net' = [net EXCEPT !.pub = pub, !.ids = Restrict(net.ids, kept)]
  BY DEF Invalidate
<1>2. kept \subseteq DOMAIN net.ids /\ net'.ids = Restrict(net.ids, kept)
  BY <1>1 DEF Ids, TypeOK, HandlerType, Known
<1>3. /\ DOMAIN net'.ids = kept
      /\ \A n \in kept : net'.ids[n] = net.ids[n] /\ net.ids[n] \in DOMAIN live
  BY <1>2, RangeOfFewer
<1>4. /\ UNCHANGED <<live, state, config, quiet, told, last, op>>
      /\ step = "invalidate" /\ step' = "store" /\ op = "read" /\ last = "none"
      /\ net.ids = state.ids
  BY DEF Invalidate, chainVars, stateVars, histVars, TypeOK, HandlerType, Accounted,
     Working, Idle
<1>5. \A c \in Range(net.ids) : c \in DOMAIN live => c \in Range(net'.ids)
  BY <1>3 DEF Range, Ids
<1>6. OnNode(state.ids)' /\ OnNode(net.ids)'
  BY <1>3, <1>4 DEF Accounted, OnNode, Ids
<1>7. Working' /\ Held'
  BY <1>4, <1>5 DEF Accounted, Working, Held, held, Idle
<1>8. Ready' /\ Reports'
  BY <1>3, <1>4 DEF Ready, AllLive, Reports, AppliedIsDeployed, RefreshIsTruth
<1> QED BY <1>6, <1>7, <1>8 DEF Accounted

LEMMA AccountedNext == TypeOK /\ Room /\ Accounted /\ [Next]_vars => Accounted'
<1> SUFFICES ASSUME TypeOK, Room, Accounted, [Next]_vars PROVE Accounted'
  OBVIOUS
<1>1. CASE Create \/ Update \/ Read \/ Delete
  <2>1. /\ UNCHANGED <<live, state, config, told>> /\ net' = Nothing
        /\ step # "store" /\ step' = "load" /\ last' = "none"
    BY <1>1 DEF Create, Update, Read, Delete, Begins, Idle, chainVars, stateVars, TypeOK,
       HandlerType
  <2>2. OnNode(state.ids)' /\ OnNode(net.ids)'
    BY <2>1, NoIdsEmpty DEF Accounted, OnNode
  <2>3. Working' /\ Held' /\ Ready' /\ Reports'
    BY <2>1 DEF Accounted, Working, Held, held, Ready, Reports, AppliedIsDeployed,
       RefreshIsTruth
  <2> QED BY <2>2, <2>3 DEF Accounted
<1>2. CASE LoadFails \/ CreateFails \/ InvalidateFails
  <2>1. Fails /\ UNCHANGED <<live, told>> /\ step # "store"
    BY <1>2 DEF LoadFails, CreateFails, InvalidateFails, chainVars, histVars
  <2>2. state'.ids = state.ids /\ Ends("error")
    BY <2>1 DEF Fails, TypeOK, StateType, Known
  <2> QED BY <2>1, <2>2, EndsAccounted
<1>3. CASE Kill
  BY <1>3, EndsAccounted DEF Kill, chainVars, stateVars
<1>4. CASE Load
  <2>1. /\ UNCHANGED <<live, state, config, told, last, op>> /\ net'.ids = state.ids
        /\ step = "load" /\ step' \in {"deploy", "cancel", "invalidate"}
        /\ step' = "deploy" => net'.nodes = config
    BY <1>4 DEF Load, chainVars, stateVars, histVars, dataNodes, TypeOK, HandlerType
  <2>2. OnNode(state.ids)' /\ OnNode(net.ids)' /\ last = "none"
    BY <2>1 DEF Accounted, OnNode, Working, Idle, TypeOK, HandlerType
  <2>3. Working' /\ Held' /\ Ready' /\ Reports'
    BY <2>1, <2>2 DEF Accounted, Working, Held, held, Ready, Reports,
       AppliedIsDeployed, RefreshIsTruth
  <2> QED BY <2>2, <2>3 DEF Accounted
<1>5. CASE Deploy \/ DeployFails \/ CancelFails
  <2>1. /\ step \in {"deploy", "cancel"} /\ step' = "store"
        /\ UNCHANGED <<state, op, last, told, quiet>> /\ last = "none"
        /\ op = "delete" => failed'
    BY <1>5 DEF Deploy, DeployFails, CancelFails, stateVars, histVars, TypeOK, HandlerType,
       Accounted, Working, Idle
  <2>2. OnNode(state.ids)' /\ OnNode(net.ids)' /\ Working' /\ Held'
    BY <1>5, <2>1, DeploySteps, DeploysAccounted
  <2>3. Ready'
    <3>1. CASE Deploy
      BY <3>1, DeployReady DEF Ready
    <3>2. CASE DeployFails \/ CancelFails
      BY <3>2 DEF DeployFails, CancelFails, Ready
    <3> QED BY <1>5, <3>1, <3>2
  <2>4. Reports'
    BY <2>1 DEF Reports, AppliedIsDeployed, RefreshIsTruth
  <2> QED BY <2>2, <2>3, <2>4 DEF Accounted
<1>6. CASE Cancel
  <2>1. /\ DOMAIN live' = DOMAIN live \ Range(net.ids) /\ net' = Nothing /\ state' = Nothing
        /\ step = "cancel" /\ step' = "none" /\ op' = "none" /\ last' = "deleted"
        /\ told' = told /\ net.ids = state.ids
    BY <1>6 DEF Cancel, Ends, histVars, Accounted, Working
  <2>2. OnNode(state.ids)' /\ OnNode(net.ids)'
    BY <2>1, NoIdsEmpty DEF OnNode
  <2>3. Working' /\ Ready' /\ Reports'
    BY <2>1 DEF Working, Idle, Ready, Reports, AppliedIsDeployed, RefreshIsTruth
  <2>4. Held'
    BY <2>1 DEF Accounted, Held, held
  <2> QED BY <2>2, <2>3, <2>4 DEF Accounted
<1>7. CASE Invalidate
  BY <1>7, InvalidateAccounted
<1>8. CASE Store
  BY <1>8, StoreAccounted
<1>9. CASE Expire
  <2>1. PICK c \in DOMAIN live : live' = Restrict(live, DOMAIN live \ {c})
    BY <1>9 DEF Expire
  <2>2. DOMAIN live \ {c} \in SUBSET DOMAIN live
    OBVIOUS
  <2> QED BY <1>9, <2>1, <2>2, ExpireAccounted DEF Expire, stateVars, opVars
<1>10. CASE Edit
  <2>1. UNCHANGED <<live, state, op, step, net, failed, quiet, told>> /\ last' = "none"
        /\ Idle /\ step = "none"
    BY <1>10 DEF Edit, chainVars, stateVars, opVars, histVars, Idle, TypeOK, HandlerType
  <2>2. OnNode(state.ids)' /\ OnNode(net.ids)'
    BY <2>1 DEF Accounted, OnNode
  <2>3. Working' /\ Held' /\ Ready' /\ Reports'
    BY <2>1 DEF Accounted, Working, Held, held, Ready, Reports, AppliedIsDeployed,
       RefreshIsTruth
  <2> QED BY <2>2, <2>3 DEF Accounted
<1>11. CASE Outage \/ UNCHANGED vars
  <2>1. UNCHANGED <<live, state, op, step, net, failed, quiet, told, last, config>>
    BY <1>11 DEF Outage, vars, chainVars, stateVars, opVars, histVars
  <2>2. OnNode(state.ids)' /\ OnNode(net.ids)'
    BY <2>1 DEF Accounted, OnNode
  <2>3. Working' /\ Held'
    BY <2>1 DEF Accounted, Working, Held, held, Idle
  <2>4. Ready' /\ Reports'
    BY <2>1 DEF Accounted, Ready, AllLive, Covers, Ids, Reports, AppliedIsDeployed,
       RefreshIsTruth
  <2> QED BY <2>2, <2>3, <2>4 DEF Accounted
<1> QED BY <1>1, <1>2, <1>3, <1>4, <1>5, <1>6, <1>7, <1>8, <1>9, <1>10, <1>11 DEF Next

LEMMA AccountedInit == Init => Accounted
<1> SUFFICES ASSUME Init PROVE Accounted
  OBVIOUS
<1>1. OnNode(state.ids) /\ OnNode(net.ids)
  BY NoIdsEmpty DEF Init, OnNode
<1>2. Working /\ Ready /\ Reports
  BY DEF Init, Working, Idle, Ready, Reports, AppliedIsDeployed, RefreshIsTruth
<1>3. DOMAIN live = {}
  BY DEF Init
<1> QED BY <1>1, <1>2, <1>3 DEF Accounted, Held

LEMMA AllAccounted == Spec => [](TypeOK /\ Room /\ Accounted)
BY TypeInit, TypeNext, AccountedInit, AccountedNext, PTL DEF Spec

\* No contract is orphaned but by a kill: a Deploy or Cancel that fails half way
\* leaves none alive that the state does not record.
THEOREM OrphansNone == Spec => []NothingOrphaned
<1>1. TypeOK /\ Accounted => NothingOrphaned
  BY DEF Accounted, Held, held, Recorded, NothingOrphaned, Idle, TypeOK, HandlerType
<1> QED BY <1>1, AllAccounted, PTL

\* An apply that reports success has done what was asked.
THEOREM AppliedHolds == Spec => []AppliedIsDeployed
<1>1. Accounted => AppliedIsDeployed
  BY DEF Accounted, Reports
<1> QED BY <1>1, AllAccounted, PTL

\* A Read without an error shows the contracts that are there.
THEOREM RefreshHolds == Spec => []RefreshIsTruth
<1>1. Accounted => RefreshIsTruth
  BY DEF Accounted, Reports
<1> QED BY <1>1, AllAccounted, PTL

LEMMA KeepsLive ==
  ASSUME TypeOK, Accounted, [Next]_vars
  PROVE  Recorded \cap DOMAIN live' \subseteq Recorded'
<1> USE DEF Recorded
<1>1. CASE Store
  <2>1. net \in Known /\ state'.ids = net.ids /\ live' = live
    BY <1>1 DEF Store, TypeOK, HandlerType, Known, chainVars
  <2> QED BY <1>1, <2>1 DEF Store, Accounted, Working
<1>2. CASE Cancel
  <2>1. DOMAIN live' = DOMAIN live \ Range(net.ids) /\ net.ids = state.ids
    BY <1>2 DEF Cancel, Accounted, Working
  <2> QED BY <2>1
<1>3. CASE LoadFails \/ CreateFails \/ InvalidateFails
  BY <1>3 DEF LoadFails, CreateFails, InvalidateFails, Fails, TypeOK, StateType, Known
<1>4. CASE \/ Edit \/ Create \/ Update \/ Read \/ Delete \/ Load \/ Deploy
           \/ DeployFails \/ CancelFails \/ Invalidate \/ Kill \/ Expire \/ Outage
           \/ UNCHANGED vars
  BY <1>4 DEF Edit, Create, Update, Read, Delete, Begins, Load, Deploy, DeployFails,
     CancelFails, Invalidate, Kill, Expire, Outage, vars, stateVars
<1> QED BY <1>1, <1>2, <1>3, <1>4 DEF Next

\* The state lets go of no contract that lives, in no step.
THEOREM NeverForgets == Spec => NeverForgetsLive
<1>1. TypeOK /\ Accounted /\ [Next]_vars =>
        [Recorded \cap DOMAIN live' \subseteq Recorded']_vars
  BY KeepsLive
<1> QED BY <1>1, AllAccounted, PTL DEF Spec, NeverForgetsLive

-----------------------------------------------------------------------------
(* The refinement.                                                         *)

LEMMA LedgerInit == Init => Ledger!Init
BY NoIdsEmpty DEF Init, Ledger!Init, Recorded, Idle

LEMMA LedgerNext ==
  TypeOK /\ Room /\ Accounted /\ Accounted' /\ [Next]_vars => [Ledger!Next]_(Ledger!vars)
<1> SUFFICES ASSUME TypeOK, Room, Accounted, Accounted', [Next]_vars
             PROVE  [Ledger!Next]_(Ledger!vars)
  OBVIOUS
<1>1. made \in Nat /\ (Idle <=> step = "none")
  BY NetworkAssumption DEF TypeOK, ChainType, HandlerType, Idle
<1>2. ASSUME made' = made, DOMAIN live' \subseteq DOMAIN live PROVE Ledger!Changes
  BY <1>1, <1>2 DEF Ledger!Changes
<1>3. CASE Create \/ Update \/ Read \/ Delete
  <2>1. PICK handler : Begins(handler) /\ handler # "none"
    BY <1>3 DEF Create, Update, Read, Delete
  <2>2. Ledger!Begin
    BY <2>1 DEF Begins, Ledger!Begin, Idle, Recorded, chainVars, stateVars
  <2> QED BY <2>2 DEF Ledger!Next
<1>4. CASE Deploy \/ DeployFails \/ CancelFails
  <2>1. PICK pub, more, less : Gives(more, less, pub)
    BY <1>4, DeploySteps
  <2>2. Ledger!Changes
    BY <1>1, <2>1, NetworkAssumption DEF Gives, Ledger!Changes
  <2>3. ~Idle /\ op' = op /\ UNCHANGED <<state, told>>
    BY <1>1, <1>4 DEF Deploy, DeployFails, CancelFails, stateVars, histVars
  <2>4. Ledger!Work
    BY <2>2, <2>3 DEF Ledger!Work, Idle, Recorded
  <2> QED BY <2>4 DEF Ledger!Next
<1>5. CASE Load \/ Invalidate
  BY <1>5 DEF Load, Invalidate, chainVars, stateVars, histVars, Ledger!vars, Recorded, Idle
<1>6. ASSUME ~Idle, NEW how, Ends(how), made' = made, DOMAIN live' \subseteq DOMAIN live,
             told \subseteq told'
      PROVE  [Ledger!Next]_(Ledger!vars)
  <2>1. DOMAIN live' \subseteq Recorded' \cup told'
    BY <1>6 DEF Ends, Accounted, Held, held, Recorded
  <2>2. Recorded \cap DOMAIN live' \subseteq Recorded'
    BY KeepsLive
  <2>3. Ledger!Return
    BY <1>2, <1>6, <2>1, <2>2 DEF Ledger!Return, Ends, Idle
  <2> QED BY <2>3 DEF Ledger!Next
<1>7. CASE LoadFails \/ CreateFails \/ InvalidateFails
  BY <1>1, <1>6, <1>7 DEF LoadFails, CreateFails, InvalidateFails, Fails, chainVars, histVars
<1>8. CASE Cancel
  BY <1>1, <1>6, <1>8 DEF Cancel, histVars
<1>9. CASE Store
  BY <1>1, <1>6, <1>9 DEF Store, chainVars, histVars
<1>10. CASE Kill
  BY <1>6, <1>10 DEF Kill, chainVars
<1>11. CASE Expire
  <2>1. DOMAIN live' \subseteq DOMAIN live
    BY <1>11 DEF Expire, Restrict
  <2>2. Ledger!Expire
    BY <1>11, <2>1 DEF Expire, Ledger!Expire, Recorded, Idle, stateVars, opVars
  <2> QED BY <2>2 DEF Ledger!Next
<1>12. CASE Edit \/ Outage \/ UNCHANGED vars
  BY <1>12 DEF Edit, Outage, vars, chainVars, stateVars, opVars, histVars, Ledger!vars,
     Recorded, Idle
<1> QED BY <1>3, <1>4, <1>5, <1>7, <1>8, <1>9, <1>10, <1>11, <1>12 DEF Next

\* The handlers implement Contracts: whatever fails or is killed, the state lets go
\* of no contract that lives, and at rest every contract is accounted for.
THEOREM NetworkImplementsContracts == Spec => ImplementsContracts
BY AllAccounted, LedgerInit, LedgerNext, PTL DEF Spec, ImplementsContracts, Ledger!Spec
=============================================================================
