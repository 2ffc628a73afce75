---------------------------- MODULE Gateway_proofs ----------------------------
(***************************************************************************)
(* Proofs about Gateway: its types, that it accounts for its contracts as  *)
(* Contracts wants, and what an apply and a refresh leave.                 *)
(***************************************************************************)
EXTENDS Gateway, TLAPS

LEMMA NoIdsAre == DOMAIN NoIds = {} /\ Range(NoIds) = {} /\ NoIds \in [{} -> ContractId]
BY DEF NoIds, Range

LEMMA GatewaysAre ==
  ASSUME NEW wanted, wanted.node \in Node, wanted.name \in Name,
         wanted.version \in Version \cup {NoVersion},
         NEW ids, DOMAIN ids \subseteq Node, ids \in [DOMAIN ids -> ContractId],
         NEW id \in ContractId \cup {NoName}
  PROVE  GatewayOK(Gateways(wanted, ids, id))
<1> DEFINE g == Gateways(wanted, ids, id)
<1>1. /\ g.node = wanted.node /\ g.name = wanted.name /\ g.version = wanted.version
      /\ g.ids = ids /\ g.nameId = id
  BY DEF Gateways
<1>2. g = Gateways(wantedOf(g), g.ids, g.nameId)
  BY DEF Gateways, wantedOf
<1> QED BY <1>1, <1>2 DEF GatewayOK

LEMMA NothingIs ==
  ASSUME NEW wanted \in Wanted
  PROVE  /\ GatewayOK(Nothing(wanted)) /\ wantedOf(Nothing(wanted)) = wanted
         /\ Nothing(wanted).ids = NoIds /\ Nothing(wanted).nameId = NoName
<1>1. GatewayOK(Gateways(wanted, NoIds, NoName))
  BY NoIdsAre, GatewaysAre DEF Wanted
<1>2. wantedOf(Gateways(wanted, NoIds, NoName)) = wanted
  BY DEF wantedOf, Gateways, Wanted
<1> QED BY <1>1, <1>2 DEF Nothing, Gateways

\* A gateway with other ids and another version is one.
With(g, ids, id, v) == [g EXCEPT !.ids = ids, !.nameId = id, !.version = v]

LEMMA WithIs ==
  ASSUME NEW g, GatewayOK(g), NEW ids, DOMAIN ids \subseteq Node,
         ids \in [DOMAIN ids -> ContractId], NEW id \in ContractId \cup {NoName},
         NEW v \in Version \cup {NoVersion}
  PROVE  /\ GatewayOK(With(g, ids, id, v))
         /\ With(g, ids, id, v).ids = ids /\ With(g, ids, id, v).nameId = id
         /\ With(g, ids, id, v).version = v
         /\ With(g, ids, id, v).node = g.node /\ With(g, ids, id, v).name = g.name
<1> DEFINE Kind == [node : Node, name : Name, version : Version \cup {NoVersion},
                     ids : {g.ids, ids}, nameId : ContractId \cup {NoName}]
           h == [g EXCEPT !.ids = ids, !.nameId = id, !.version = v]
<1>1. g \in Kind
  BY DEF GatewayOK, Gateways, wantedOf
<1>2. /\ h \in Kind /\ h.ids = ids /\ h.nameId = id /\ h.version = v
      /\ h.node = g.node /\ h.name = g.name
  BY <1>1
<1>3. ASSUME NEW x \in Kind
      PROVE  x = [node |-> x.node, name |-> x.name, version |-> x.version, ids |-> x.ids,
                  nameId |-> x.nameId]
  OBVIOUS
<1>4. h = With(g, ids, id, v)
  BY DEF With
<1> HIDE DEF h, Kind
<1>5. h = Gateways(wantedOf(h), h.ids, h.nameId)
  BY <1>2, <1>3 DEF Gateways, wantedOf
<1>6. GatewayOK(h)
  BY <1>2, <1>5 DEF GatewayOK
<1> QED BY <1>2, <1>4, <1>6

LEMMA CountsType ==
  ASSUME TypeOK, Counts PROVE trouble' \in 0 .. MaxTrouble
BY GatewayAssumption DEF TypeOK, ChainType, Counts

-----------------------------------------------------------------------------
(* The types, with the room a Deploy needs.                                *)

\* The ids of a gateway are behind those made, and those of its nodes are never a
\* name's, nor the other way round.
Behind(g) ==
  /\ Range(g.ids) \subseteq 1 .. made /\ Range(g.ids) \cap DOMAIN nameLive = {}
  /\ g.nameId \in (1 .. made) \cup {NoName} /\ g.nameId \notin DOMAIN nodeLive
  /\ kind = "fqdn" => g.nameId = NoName

\* An apply has the gateway the user wants, and room for two contracts, until it
\* deploys; no contract is recorded of a resource that does not exist.
Room ==
  /\ op \in {"create", "update"} /\ step \in {"load", "deploy"} =>
       HasRoom /\ wantedOf(gw) = config
  /\ ~exists => state.ids = NoIds /\ state.nameId = NoName
  /\ Behind(state) /\ Behind(gw)

\* What a step may do to the contracts: what is new has new ids, of one sort.
ChainKeeps ==
  /\ made' \in 0 .. MaxContract /\ made <= made'
  /\ DOMAIN nodeLive' \subseteq DOMAIN nodeLive \cup (made + 1 .. made')
  /\ DOMAIN nameLive' \subseteq DOMAIN nameLive \cup (made + 1 .. made')

LEMMA NumbersAre ==
  TypeOK => /\ made \in Nat /\ MaxContract \in Nat /\ made <= MaxContract
            /\ DOMAIN nodeLive \subseteq 1 .. made /\ DOMAIN nameLive \subseteq 1 .. made
BY GatewayAssumption DEF TypeOK, ChainType, Live

StaysBehind(g) ==
  /\ Range(g.ids) \subseteq 1 .. made' /\ Range(g.ids) \cap DOMAIN nameLive' = {}
  /\ g.nameId \in (1 .. made') \cup {NoName} /\ g.nameId \notin DOMAIN nodeLive'
  /\ kind' = "fqdn" => g.nameId = NoName

LEMMA StillBehind ==
  ASSUME TypeOK, ChainKeeps, UNCHANGED kind, NEW g, Behind(g)
  PROVE  \A h : h.ids = g.ids /\ h.nameId = g.nameId => StaysBehind(h)
<1>1. made \in Nat /\ made' \in Nat /\ made <= made' /\ MaxContract \in Nat /\ made' <= MaxContract
  BY NumbersAre DEF ChainKeeps
<1>2. NoName \notin made + 1 .. made'
  BY <1>1, GatewayAssumption DEF ContractId
<1> QED BY <1>1, <1>2 DEF Behind, ChainKeeps, StaysBehind

LEMMA NoneBehind ==
  ASSUME TypeOK, NEW g, g.ids = NoIds, g.nameId = NoName
  PROVE  Behind(g)
<1>1. NoName \notin DOMAIN nodeLive
  BY NumbersAre, GatewayAssumption DEF ContractId
<1> QED BY <1>1, NoIdsAre DEF Behind

LEMMA NamelessIs == TypeOK /\ Room => (kind = "fqdn" => NameIsKept /\ gw.nameId = NoName)
BY DEF Room, Behind, NameIsKept

\* The contracts that a Deploy makes have new ids, one each.
NewIds ==
  /\ made' \in 0 .. MaxContract /\ made <= made'
  /\ ~NameIsKept => nameId \in made + 1 .. made'
  /\ gw.node \notin Ids => /\ nodeId \in made + 1 .. made'
                           /\ ~NameIsKept => nodeId # nameId
  /\ NameIsKept => nameId = gw.nameId
  /\ gw.node \in Ids => nodeId = gw.ids[gw.node]

LEMMA MakesNew ==
  ASSUME TypeOK, Room, step = "deploy", Makes
  PROVE  NewIds
<1>1. made \in Nat /\ MaxContract \in Nat /\ made + 2 <= MaxContract
  BY NumbersAre DEF Room, HasRoom, TypeOK, HandlerType
<1>2. ~NameIsKept => nameId = made + 1
  BY DEF nameId
<1>3. NameIsKept => nameId = gw.nameId
  BY DEF nameId
<1>4. gw.node \in Ids => nodeId = gw.ids[gw.node]
  BY DEF nodeId
<1>5. gw.node \notin Ids => nodeId = IF NameIsKept THEN made + 1 ELSE made + 2
  BY DEF nodeId
<1>6. made' = made + (IF NameIsKept THEN 0 ELSE 1) + (IF gw.node \in Ids THEN 0 ELSE 1)
  BY DEF Makes
<1>7. CASE NameIsKept /\ gw.node \in Ids
  BY <1>1, <1>3, <1>4, <1>6, <1>7 DEF NewIds
<1>8. CASE NameIsKept /\ gw.node \notin Ids
  BY <1>1, <1>3, <1>5, <1>6, <1>8 DEF NewIds
<1>9. CASE ~NameIsKept /\ gw.node \in Ids
  BY <1>1, <1>2, <1>4, <1>6, <1>9 DEF NewIds
<1>10. CASE ~NameIsKept /\ gw.node \notin Ids
  BY <1>1, <1>2, <1>5, <1>6, <1>10 DEF NewIds
<1> QED BY <1>7, <1>8, <1>9, <1>10

\* What becomes of the name contracts, and of the nodes', in a Deploy that fails
\* or not.
NameGives ==
  /\ nameLive' \in [DOMAIN nameLive' -> Name]
  /\ DOMAIN nameLive' \subseteq DOMAIN nameLive \cup (IF NameIsKept THEN {} ELSE {nameId})

NodeGives ==
  /\ nodeLive' \in [DOMAIN nodeLive' -> [node : Node, version : Version]]
  /\ DOMAIN nodeLive' \subseteq
       DOMAIN nodeLive \cup (IF gw.node \in Ids THEN {} ELSE {nodeId})

LEMMA NameSteps ==
  ASSUME TypeOK, DeploysName \/ PartlyDeploysName \/ UNCHANGED nameLive
  PROVE  NameGives
<1>1. nameLive \in [DOMAIN nameLive -> Name] /\ gw.name \in Name
  BY DEF TypeOK, ChainType, HandlerType, GatewayOK
<1>2. CASE UNCHANGED nameLive
  BY <1>1, <1>2 DEF NameGives
<1>3. CASE PartlyDeploysName
  BY <1>1, <1>3 DEF PartlyDeploysName, Restrict, NameGives
<1>4. CASE DeploysName /\ ~UNCHANGED nameLive
  BY <1>1, <1>4 DEF DeploysName, NameGives
<1> QED BY <1>2, <1>3, <1>4

LEMMA NodeSteps ==
  ASSUME TypeOK, gw.version \in Version, NEW less,
         (KeptLives /\ DeploysNode(less)) \/ UNCHANGED nodeLive
  PROVE  NodeGives
<1>1. /\ nodeLive \in [DOMAIN nodeLive -> [node : Node, version : Version]]
      /\ [node |-> gw.node, version |-> gw.version] \in [node : Node, version : Version]
  BY DEF TypeOK, ChainType, HandlerType, GatewayOK
<1>2. CASE UNCHANGED nodeLive
  BY <1>1, <1>2 DEF NodeGives
<1>3. CASE KeptLives /\ DeploysNode(less)
  <2>1. gw.node \in Ids => nodeId \in DOMAIN nodeLive
    BY <1>3 DEF KeptLives, nodeId
  <2>2. DOMAIN nodeLive' = (DOMAIN nodeLive \ less) \cup {nodeId}
    BY <1>3 DEF DeploysNode
  <2>3. nodeLive' \in [DOMAIN nodeLive' -> [node : Node, version : Version]]
    BY <1>1, <1>3 DEF DeploysNode
  <2> QED BY <2>1, <2>2, <2>3 DEF NodeGives
<1> QED BY <1>2, <1>3

\* The chain keeps its type in it.
LEMMA DeploysChain ==
  ASSUME TypeOK, Room, step = "deploy", Makes, NameGives, NodeGives, UNCHANGED kind,
         Counts \/ UNCHANGED trouble
  PROVE  ChainKeeps /\ ChainType'
<1>1. NewIds
  BY MakesNew
<1>2. /\ made \in Nat /\ made' \in Nat /\ made <= made' /\ made' \in 0 .. MaxContract
      /\ DOMAIN nodeLive \subseteq 1 .. made /\ DOMAIN nameLive \subseteq 1 .. made
      /\ DOMAIN nodeLive \cap DOMAIN nameLive = {}
  BY <1>1, NumbersAre, GatewayAssumption DEF NewIds, TypeOK, ChainType
<1>3. ChainKeeps
  BY <1>1, <1>2 DEF NewIds, NameGives, NodeGives, ChainKeeps
<1>4. Live' \subseteq 1 .. made'
  BY <1>2, <1>3 DEF ChainKeeps, Live
<1>5. DOMAIN nodeLive' \cap DOMAIN nameLive' = {}
  BY <1>1, <1>2 DEF NewIds, NameGives, NodeGives
<1>6. kind' = "fqdn" => DOMAIN nameLive' = {}
  BY NamelessIs DEF NameGives, TypeOK, ChainType
<1>7. trouble' \in 0 .. MaxTrouble
  BY CountsType DEF TypeOK, ChainType
<1> QED BY <1>2, <1>3, <1>4, <1>5, <1>6, <1>7 DEF ChainType, NameGives, NodeGives

LEMMA WantsVersion ==
  ASSUME TypeOK, Room, step = "deploy" PROVE gw.version \in Version
<1>1. wantedOf(gw) = config /\ config \in Wanted
  BY DEF TypeOK, StateType, HandlerType, Room
<1> QED BY <1>1 DEF wantedOf, Wanted

LEMMA DeploySteps ==
  ASSUME TypeOK, Room, Deploy \/ DeployFails
  PROVE  ChainKeeps /\ ChainType'
<1>1. step = "deploy" /\ Makes /\ UNCHANGED kind /\ (Counts \/ UNCHANGED trouble)
  BY DEF Deploy, DeployFails, Goes, userVars
<1>2. DeploysName \/ PartlyDeploysName \/ UNCHANGED nameLive
  BY DEF Deploy, DeployFails
<1>3. PICK less : (KeptLives /\ DeploysNode(less)) \/ UNCHANGED nodeLive
  BY DEF Deploy, DeployFails
<1>4. NameGives /\ NodeGives
  BY <1>1, <1>2, <1>3, NameSteps, NodeSteps, WantsVersion
<1> QED BY <1>1, <1>4, DeploysChain

\* Contracts that end.
LEMMA FewerChain ==
  ASSUME TypeOK, NEW nodes, NEW names, UNCHANGED <<made, kind>>, Counts \/ UNCHANGED trouble,
         nodeLive' = Restrict(nodeLive, DOMAIN nodeLive \ nodes),
         nameLive' = Restrict(nameLive, DOMAIN nameLive \ names)
  PROVE  ChainKeeps /\ ChainType'
<1>1. trouble' \in 0 .. MaxTrouble
  BY CountsType DEF TypeOK, ChainType
<1>2. DOMAIN nodeLive' = DOMAIN nodeLive \ nodes /\ DOMAIN nameLive' = DOMAIN nameLive \ names
  BY DEF Restrict
<1>3. nodeLive' \in [DOMAIN nodeLive' -> [node : Node, version : Version]]
  BY DEF Restrict, TypeOK, ChainType
<1>4. nameLive' \in [DOMAIN nameLive' -> Name]
  BY DEF Restrict, TypeOK, ChainType
<1>5. ChainKeeps
  <2>1. made' \in 0 .. MaxContract /\ made <= made'
    BY NumbersAre DEF TypeOK, ChainType
  <2> QED BY <1>2, <2>1 DEF ChainKeeps
<1> QED BY <1>1, <1>2, <1>3, <1>4, <1>5 DEF TypeOK, ChainType, Live

LEMMA SameChain ==
  ASSUME TypeOK, UNCHANGED <<chainVars, kind>>, Counts \/ UNCHANGED trouble
  PROVE  ChainKeeps /\ ChainType'
<1>1. trouble' \in 0 .. MaxTrouble
  BY CountsType DEF TypeOK, ChainType
<1>2. ChainKeeps
  BY NumbersAre DEF chainVars, ChainKeeps, TypeOK, ChainType
<1> QED BY <1>1, <1>2 DEF chainVars, TypeOK, ChainType, Live

\* What a handler leaves when it ends: with the contracts of the state, its own, or
\* none.
LEMMA EndsType ==
  ASSUME TypeOK, Room, ChainKeeps, ChainType', UNCHANGED <<userVars, quiet>>,
         NEW how \in {"error", "deleted", "warned", "refreshed", "applied", "killed"},
         Ends(how), exists' \in BOOLEAN, GatewayOK(state'), StaysBehind(state'),
         ~exists' => state'.ids = NoIds /\ state'.nameId = NoName,
         told' \subseteq ContractId
  PROVE  TypeOK' /\ Room'
<1>1. config \in Wanted /\ config' = config /\ kind' = kind /\ kind \in {"name", "fqdn"}
  BY DEF TypeOK, StateType, userVars
<1>2. GatewayOK(gw') /\ gw'.ids = NoIds /\ gw'.nameId = NoName
  BY <1>1, NothingIs DEF Ends
<1>3. StateType'
  BY <1>1 DEF Ends, StateType, TypeOK
<1>4. HandlerType'
  BY <1>2 DEF Ends, HandlerType, Idle
<1>5. StaysBehind(gw')
  <2> DEFINE none == Nothing(config)
  <2>1. none.ids = NoIds /\ none.nameId = NoName
    BY <1>1, NothingIs
  <2>2. Behind(none)
    BY <2>1, NoneBehind
  <2> HIDE DEF none
  <2> QED BY <1>1, <1>2, <2>1, <2>2, StillBehind
<1>6. Room'
  BY <1>5 DEF Ends, Room, Behind, StaysBehind
<1> QED BY <1>3, <1>4, <1>6 DEF TypeOK

\* What the state keeps of a handler that fails.
LEMMA FailsState ==
  ASSUME TypeOK, Fails
  PROVE  GatewayOK(state') /\ state'.ids = state.ids /\ state'.nameId = state.nameId
<1>1. GatewayOK(state) /\ config \in Wanted
  BY DEF TypeOK, StateType
<1> DEFINE kept == Gateways(config, state.ids, state.nameId)
<1>2. GatewayOK(kept)
  BY <1>1, GatewaysAre DEF GatewayOK, Wanted
<1>3. kept.ids = state.ids /\ kept.nameId = state.nameId
  BY DEF Gateways
<1>4. state' \in {kept, state}
  BY DEF Fails
<1> HIDE DEF kept
<1> QED BY <1>1, <1>2, <1>3, <1>4

LEMMA FailsType ==
  ASSUME TypeOK, Room, ChainKeeps, ChainType', UNCHANGED userVars, Fails
  PROVE  TypeOK' /\ Room'
<1>1. Live' \subseteq ContractId
  <2>1. made' \in 0 .. MaxContract /\ MaxContract \in Nat /\ Live' \subseteq 1 .. made'
    BY GatewayAssumption DEF ChainType
  <2> QED BY <2>1 DEF ContractId
<1>2. /\ Ends("error") /\ quiet' = quiet /\ told' \subseteq ContractId
      /\ exists' = exists /\ exists \in BOOLEAN
  BY <1>1 DEF Fails, TypeOK, StateType, Live
<1>3. GatewayOK(state') /\ state'.ids = state.ids /\ state'.nameId = state.nameId
  BY FailsState
<1>4. StaysBehind(state')
  BY <1>3, StillBehind DEF Room, userVars
<1>5. ~exists' => state'.ids = NoIds /\ state'.nameId = NoName
  BY <1>2, <1>3 DEF Room
<1> QED BY <1>2, <1>3, <1>4, <1>5, EndsType

LEMMA GoesType ==
  ASSUME TypeOK, Room, ChainKeeps, ChainType', Goes(step'), GatewayOK(gw'), StaysBehind(gw'),
         \/ op \in {"create", "update", "read", "delete"} /\ step' \in {"sync", "set"}
         \/ op \in {"create", "update"} /\ step' = "deploy" /\ UNCHANGED <<made, gw>> /\ step = "load"
         \/ op = "delete" /\ step' = "cancel"
  PROVE  TypeOK' /\ Room'
<1>1. StateType'
  BY DEF Goes, TypeOK, StateType, userVars, stateVars, histVars
<1>2. HandlerType'
  BY DEF Goes, TypeOK, HandlerType, Idle
<1>3. StaysBehind(state')
  BY StillBehind DEF Goes, Room, stateVars, userVars
<1>4. op' = op /\ UNCHANGED <<config, exists, state>>
  BY DEF Goes, userVars, stateVars
<1>5. op \in {"create", "update"} /\ step' \in {"load", "deploy"} =>
        HasRoom' /\ wantedOf(gw)' = config'
  BY <1>4 DEF Room, HasRoom
<1>6. Room'
  BY <1>3, <1>4, <1>5 DEF Room, Behind, StaysBehind
<1> QED BY <1>1, <1>2, <1>6 DEF TypeOK

LEMMA BeginsType ==
  ASSUME TypeOK, Room, NEW handler \in {"create", "update", "read", "delete"}, NEW wanted,
         Begins(handler, wanted),
         \/ handler \in {"create", "update"} /\ HasRoom /\ wanted = config
         \/ handler \in {"read", "delete"} /\ exists /\ wanted = wantedOf(state)
  PROVE  TypeOK' /\ Room'
<1>1. /\ GatewayOK(state) /\ config \in Wanted
      /\ UNCHANGED <<kind, config, exists, state, nodeLive, nameLive, made, trouble>>
  BY DEF Begins, TypeOK, StateType, chainVars, userVars, stateVars
<1> DEFINE held == Gateways(wanted, state.ids, state.nameId)
<1>2. /\ wanted.node \in Node /\ wanted.name \in Name
      /\ wanted.version \in Version \cup {NoVersion}
  BY <1>1 DEF GatewayOK, wantedOf, Wanted
<1>3. /\ GatewayOK(held) /\ held.ids = state.ids /\ held.nameId = state.nameId
      /\ wantedOf(held) = wantedOf(wanted)
  BY <1>1, <1>2, GatewaysAre DEF GatewayOK, Gateways, wantedOf
<1>4. exists => gw' = held
  BY DEF Begins
<1>5. ~exists => gw' = Nothing(config)
  BY DEF Begins
<1>6. Nothing(config).ids = NoIds /\ Nothing(config).nameId = NoName
      /\ GatewayOK(Nothing(config)) /\ wantedOf(Nothing(config)) = config
  BY <1>1, NothingIs
<1> HIDE DEF held
<1>7. GatewayOK(gw') /\ gw'.ids = state.ids /\ gw'.nameId = state.nameId
  BY <1>3, <1>4, <1>5, <1>6 DEF Room
<1>8. wanted = config => wantedOf(gw') = config
  BY <1>1, <1>3, <1>4, <1>5, <1>6 DEF wantedOf, Wanted
<1>9. ChainKeeps /\ ChainType'
  BY <1>1, SameChain DEF chainVars
<1>10. StaysBehind(gw') /\ StaysBehind(state')
  BY <1>1, <1>7, <1>9, StillBehind DEF Room
<1>11. StateType'
  BY <1>1 DEF Begins, TypeOK, StateType
<1>12. HandlerType'
  BY <1>7 DEF Begins, HandlerType, Idle
<1>13. op' \in {"create", "update"} => HasRoom' /\ wantedOf(gw') = config'
  BY <1>1, <1>8 DEF Begins, HasRoom
<1>14. Room'
  BY <1>1, <1>10, <1>13 DEF Room, Behind, StaysBehind
<1> QED BY <1>9, <1>11, <1>12, <1>14 DEF TypeOK

LEMMA GatewayInit == Init => TypeOK /\ Room
<1> SUFFICES ASSUME Init PROVE TypeOK /\ Room
  OBVIOUS
<1>1. config \in Wanted /\ state = Nothing(config) /\ gw = Nothing(config)
  BY DEF Init
<1>2. /\ GatewayOK(state) /\ state.ids = NoIds /\ state.nameId = NoName
      /\ GatewayOK(gw) /\ gw.ids = NoIds /\ gw.nameId = NoName
  BY <1>1, NothingIs
<1>3. DOMAIN nodeLive = {} /\ DOMAIN nameLive = {} /\ made = 0
  BY DEF Init
<1>4. ChainType
  <2>1. nodeLive \in [DOMAIN nodeLive -> [node : Node, version : Version]]
    BY <1>3 DEF Init
  <2>2. nameLive \in [DOMAIN nameLive -> Name]
    BY <1>3 DEF Init
  <2> QED BY <1>3, <2>1, <2>2, GatewayAssumption DEF Init, ChainType, Live
<1>5. StateType /\ HandlerType
  BY <1>2 DEF Init, StateType, HandlerType, Idle
<1>6. TypeOK
  BY <1>4, <1>5 DEF TypeOK
<1>7. Behind(state) /\ Behind(gw)
  BY <1>2, <1>6, NoneBehind
<1> QED BY <1>2, <1>6, <1>7 DEF Room, Init

LEMMA DeployIs ==
  ASSUME TypeOK, Room, Deploy
  PROVE  /\ NewIds /\ GatewayOK(gw') /\ StaysBehind(gw')
         /\ DOMAIN gw'.ids = {gw.node} /\ gw'.ids[gw.node] = nodeId
         /\ gw'.nameId = nameId /\ wantedOf(gw') = wantedOf(gw)
<1> DEFINE ids == [n \in {gw.node} |-> nodeId]
<1>1. NewIds /\ ChainKeeps
  BY MakesNew, DeploySteps DEF Deploy
<1>2. /\ made \in Nat /\ made' \in Nat /\ made <= made' /\ made' <= MaxContract
      /\ MaxContract \in Nat
      /\ DOMAIN nodeLive \subseteq 1 .. made /\ DOMAIN nameLive \subseteq 1 .. made
  BY <1>1, NumbersAre DEF ChainKeeps
<1>3. GatewayOK(gw) /\ Behind(gw) /\ kind' = kind
  BY DEF TypeOK, HandlerType, Room, Deploy, Goes, userVars
<1>4. gw.node \in Ids => nodeId \in 1 .. made /\ nodeId \notin DOMAIN nameLive
  BY <1>1, <1>3 DEF NewIds, Behind, Range, Ids
<1>5. nodeId \in 1 .. made' /\ nodeId \in ContractId
  BY <1>1, <1>2, <1>4 DEF NewIds, ContractId
<1>6. nameId \in (1 .. made') \cup {NoName} /\ nameId \in ContractId \cup {NoName}
  BY <1>1, <1>2, <1>3 DEF NewIds, ContractId, Behind
<1>7. gw' = With(gw, ids, nameId, gw.version)
  BY <1>3 DEF Deploy, GatewayOK, Gateways, With
<1>8. DOMAIN ids \subseteq Node /\ ids \in [DOMAIN ids -> ContractId]
  BY <1>3, <1>5 DEF GatewayOK
<1>9. DOMAIN ids = {gw.node} /\ ids[gw.node] = nodeId /\ Range(ids) = {nodeId}
  BY DEF Range
<1> HIDE DEF ids
<1>10. /\ GatewayOK(gw') /\ gw'.ids = ids /\ gw'.nameId = nameId
       /\ gw'.version = gw.version /\ gw'.node = gw.node /\ gw'.name = gw.name
  <2>1. gw.version \in Version \cup {NoVersion}
    BY <1>3 DEF GatewayOK
  <2>2. \A id \in ContractId \cup {NoName}, v \in Version \cup {NoVersion} :
          /\ GatewayOK(With(gw, ids, id, v))
          /\ With(gw, ids, id, v).ids = ids /\ With(gw, ids, id, v).nameId = id
          /\ With(gw, ids, id, v).version = v
          /\ With(gw, ids, id, v).node = gw.node /\ With(gw, ids, id, v).name = gw.name
    BY <1>3, <1>8, WithIs
  <2> QED BY <1>6, <1>7, <2>1, <2>2
<1>11. nodeId \notin DOMAIN nameLive'
  <2>1. NameGives
    BY NameSteps DEF Deploy
  <2> QED BY <1>1, <1>2, <1>4, <2>1 DEF NewIds, NameGives
<1>12. nameId \notin DOMAIN nodeLive'
  <2>1. DOMAIN nodeLive' \subseteq DOMAIN nodeLive \cup {nodeId}
    BY DEF Deploy, DeploysNode
  <2>2. nameId \notin DOMAIN nodeLive
    BY <1>1, <1>2, <1>3 DEF NewIds, Behind
  <2>3. nameId # nodeId
    <3>1. CASE NameIsKept /\ gw.node \in Ids
      <4>1. nameId = gw.nameId /\ nodeId = gw.ids[gw.node]
        BY <1>1, <3>1 DEF NewIds
      <4>2. nodeId \in DOMAIN nodeLive
        BY <3>1, <4>1 DEF Deploy, KeptLives
      <4> QED BY <2>2, <4>2
    <3>2. CASE NameIsKept /\ gw.node \notin Ids
      BY <1>1, <1>2, <1>3, <1>5, <3>2, GatewayAssumption DEF NewIds, Behind
    <3>3. CASE ~NameIsKept
      BY <1>1, <1>2, <1>4, <3>3 DEF NewIds
    <3> QED BY <3>1, <3>2, <3>3
  <2> QED BY <2>1, <2>2, <2>3
<1>13. kind' = "fqdn" => nameId = NoName
  BY <1>1, <1>3, NamelessIs DEF NewIds
<1>14. StaysBehind(gw')
  BY <1>5, <1>6, <1>9, <1>10, <1>11, <1>12, <1>13 DEF StaysBehind
<1> QED BY <1>1, <1>9, <1>10, <1>14 DEF wantedOf

\* The contracts of the gateway that live, with what its node runs.
LEMMA SyncIs ==
  ASSUME TypeOK, Room, Sync
  PROVE  /\ GatewayOK(gw') /\ StaysBehind(gw') /\ UNCHANGED chainVars
         /\ DOMAIN gw'.ids = {n \in Ids : gw.ids[n] \in DOMAIN nodeLive}
         /\ \A n \in DOMAIN gw'.ids : gw'.ids[n] = gw.ids[n]
         /\ gw'.nameId = IF gw.nameId \in DOMAIN nameLive THEN gw.nameId ELSE NoName
         /\ gw'.node = gw.node /\ gw'.name = gw.name
         /\ gw'.version = IF gw.node \in DOMAIN gw'.ids
                          THEN nodeLive[gw'.ids[gw.node]].version ELSE NoVersion
<1> DEFINE nodes == {n \in Ids : gw.ids[n] \in DOMAIN nodeLive}
           ids == Restrict(gw.ids, nodes)
           id == IF gw.nameId \in DOMAIN nameLive THEN gw.nameId ELSE NoName
           v == IF gw.node \in nodes THEN nodeLive[gw.ids[gw.node]].version ELSE NoVersion
<1>1. GatewayOK(gw) /\ Behind(gw) /\ kind' = kind /\ UNCHANGED chainVars
  BY DEF TypeOK, HandlerType, Room, Sync, Goes, userVars
<1>2. DOMAIN ids = nodes /\ \A n \in nodes : ids[n] = gw.ids[n]
  BY DEF Restrict
<1>3. DOMAIN ids \subseteq Node /\ ids \in [DOMAIN ids -> ContractId]
  BY <1>1 DEF GatewayOK, Restrict, Ids
<1>4. id \in ContractId \cup {NoName}
  BY <1>1 DEF GatewayOK
<1>5. v \in Version \cup {NoVersion}
  BY DEF TypeOK, ChainType
<1>6. gw' = With(gw, ids, id, v)
  BY <1>1 DEF Sync, GatewayOK, Gateways, With
<1>7. /\ GatewayOK(gw') /\ gw'.ids = ids /\ gw'.nameId = id /\ gw'.version = v
      /\ gw'.node = gw.node /\ gw'.name = gw.name
  <2> HIDE DEF ids, id, v
  <2> QED BY <1>1, <1>3, <1>4, <1>5, <1>6, WithIs
<1>8. Range(ids) \subseteq Range(gw.ids)
  BY <1>2 DEF Range, Ids
<1>9. Range(gw'.ids) \subseteq 1 .. made /\ Range(gw'.ids) \cap DOMAIN nameLive = {}
  BY <1>1, <1>7, <1>8 DEF Behind
<1>10. /\ gw'.nameId \in (1 .. made) \cup {NoName} /\ gw'.nameId \notin DOMAIN nodeLive
       /\ kind = "fqdn" => gw'.nameId = NoName
  <2>1. NoName \notin DOMAIN nodeLive
    BY NumbersAre, GatewayAssumption DEF ContractId
  <2> QED BY <1>1, <1>7, <2>1 DEF Behind
<1>11. StaysBehind(gw')
  BY <1>1, <1>9, <1>10 DEF StaysBehind, chainVars
<1> QED BY <1>1, <1>2, <1>7, <1>11

LEMMA TypeNext == TypeOK /\ Room /\ [Next]_vars => TypeOK' /\ Room' /\ ChainKeeps
<1> SUFFICES ASSUME TypeOK, Room, [Next]_vars PROVE TypeOK' /\ Room' /\ ChainKeeps
  OBVIOUS
<1>1. ASSUME UNCHANGED <<chainVars, userVars>>, Counts \/ UNCHANGED trouble
      PROVE  ChainKeeps /\ ChainType'
  BY <1>1, SameChain DEF userVars
<1>2. CASE Create \/ Update
  <2>1. PICK handler \in {"create", "update"} : Begins(handler, config) /\ HasRoom
    BY <1>2 DEF Create, Update
  <2>2. ChainKeeps
    BY <1>1, <2>1 DEF Begins
  <2> QED BY <2>1, <2>2, BeginsType
<1>3. CASE Read \/ Delete
  <2>1. PICK handler \in {"read", "delete"} : Begins(handler, wantedOf(state)) /\ exists
    BY <1>3 DEF Read, Delete
  <2>2. ChainKeeps
    BY <1>1, <2>1 DEF Begins
  <2> QED BY <2>1, <2>2, BeginsType
<1>4. CASE Load
  <2>1. ChainKeeps /\ ChainType' /\ step' = firstCall /\ Goes(step') /\ UNCHANGED <<made, gw>>
    BY <1>1, <1>4 DEF Load, Goes, chainVars
  <2>2. GatewayOK(gw') /\ StaysBehind(gw')
    BY <2>1, StillBehind DEF TypeOK, HandlerType, Room, Goes, userVars
  <2>3. /\ step = "load" /\ op \in {"create", "update", "read", "delete"}
        /\ op \in {"create", "update"} => step' = "deploy"
        /\ op = "read" => step' = "sync"
        /\ op = "delete" => step' = "cancel"
    BY <1>4, <2>1 DEF Load, firstCall, TypeOK, HandlerType, Idle
  <2> QED BY <2>1, <2>2, <2>3, GoesType
<1>5. CASE Deploy
  <2>1. ChainKeeps /\ ChainType' /\ GatewayOK(gw') /\ StaysBehind(gw')
    BY <1>5, DeploySteps, DeployIs
  <2>2. Goes(step') /\ step' = "sync" /\ op \in {"create", "update"}
    BY <1>5 DEF Deploy, Goes, TypeOK, HandlerType
  <2> QED BY <2>1, <2>2, GoesType
<1>6. CASE DeployFails
  BY <1>6, DeploySteps, FailsType DEF DeployFails
<1>7. CASE Cancel \/ CancelFails
  <2>1. PICK nodes, names : Cancels(nodes, names)
    BY <1>7 DEF Cancel, CancelFails
  <2>2. kind' = kind /\ (Counts \/ UNCHANGED trouble)
    BY <1>7 DEF Cancel, CancelFails, Goes, userVars
  <2>3. ChainKeeps /\ ChainType'
    BY <2>1, <2>2, FewerChain DEF Cancels
  <2>4. CASE CancelFails
    BY <2>3, <2>4, FailsType DEF CancelFails
  <2>5. CASE Cancel
    <3>1. Goes(step') /\ step' = "sync" /\ op = "delete" /\ gw' = gw
      BY <2>5 DEF Cancel, Goes, TypeOK, HandlerType
    <3>2. GatewayOK(gw') /\ StaysBehind(gw')
      BY <2>2, <2>3, <3>1, StillBehind DEF TypeOK, HandlerType, Room
    <3> QED BY <2>3, <3>1, <3>2, GoesType
  <2> QED BY <1>7, <2>4, <2>5
<1>8. CASE Sync
  <2>1. GatewayOK(gw') /\ StaysBehind(gw') /\ UNCHANGED chainVars
    BY <1>8, SyncIs
  <2>2. Goes(step') /\ step' = "set" /\ op \in {"create", "update", "read", "delete"}
    BY <1>8 DEF Sync, Goes, TypeOK, HandlerType, Idle
  <2>3. ChainKeeps /\ ChainType'
    BY <1>1, <2>1, <2>2 DEF Goes
  <2> QED BY <2>1, <2>2, <2>3, GoesType
<1>9. CASE LoadFails \/ (SyncFails /\ op # "read")
  <2>1. Fails /\ UNCHANGED <<chainVars, userVars>> /\ (Counts \/ UNCHANGED trouble)
    BY <1>9 DEF LoadFails, SyncFails
  <2> QED BY <1>1, <2>1, FailsType
<1>10. CASE SyncFails /\ op = "read"
  <2>1. Ends("warned") /\ UNCHANGED <<chainVars, userVars, exists, state, quiet, told>>
    BY <1>10 DEF SyncFails, stateVars, histVars
  <2>2. ChainKeeps /\ ChainType'
    BY <1>1, <1>10, <2>1 DEF SyncFails
  <2>3. StaysBehind(state')
    BY <2>1, <2>2, StillBehind DEF Room, userVars
  <2> QED BY <2>1, <2>2, <2>3, EndsType DEF TypeOK, StateType, Room
<1>11. CASE Set
  <2>1. UNCHANGED <<chainVars, userVars, quiet, told, trouble>>
        /\ exists' = (op # "delete")
        /\ state' = IF op = "delete" THEN Nothing(config) ELSE gw
    BY <1>11 DEF Set, histVars
  <2>2. ChainKeeps /\ ChainType'
    BY <1>1, <2>1
  <2>3. PICK how \in {"refreshed", "deleted", "applied"} : Ends(how)
    BY <1>11 DEF Set
  <2> DEFINE none == Nothing(config)
  <2>4. GatewayOK(none) /\ none.ids = NoIds /\ none.nameId = NoName
    BY NothingIs DEF TypeOK, StateType
  <2>5. Behind(none)
    BY <2>4, NoneBehind
  <2>6. state' = IF op = "delete" THEN none ELSE gw
    BY <2>1
  <2> HIDE DEF none
  <2>7. GatewayOK(state') /\ StaysBehind(state')
    BY <2>1, <2>2, <2>4, <2>5, <2>6, StillBehind DEF TypeOK, HandlerType, Room, userVars
  <2>8. ~exists' => state'.ids = NoIds /\ state'.nameId = NoName
    BY <2>1, <2>4, <2>6
  <2> QED BY <2>1, <2>2, <2>3, <2>7, <2>8, EndsType DEF TypeOK, StateType
<1>12. CASE Kill
  <2>1. Ends("killed") /\ UNCHANGED <<chainVars, userVars, exists, state, quiet>>
        /\ told' = told \cup Live
    BY <1>12 DEF Kill, stateVars
  <2>2. ChainKeeps /\ ChainType'
    BY <1>1, <1>12, <2>1 DEF Kill
  <2>3. StaysBehind(state')
    BY <2>1, <2>2, StillBehind DEF Room, userVars
  <2>4. told' \subseteq ContractId
    <3>1. Live \subseteq ContractId
      BY NumbersAre DEF Live, ContractId
    <3> QED BY <2>1, <3>1 DEF TypeOK, StateType
  <2> QED BY <2>1, <2>2, <2>3, <2>4, EndsType DEF TypeOK, StateType, Room
<1>13. CASE Expire
  <2>1. PICK c \in Live : /\ nodeLive' = Restrict(nodeLive, DOMAIN nodeLive \ {c})
                          /\ nameLive' = Restrict(nameLive, DOMAIN nameLive \ {c})
    BY <1>13 DEF Expire
  <2>2. UNCHANGED <<made, kind>> /\ Counts
    BY <1>13 DEF Expire, userVars
  <2>3. ChainKeeps /\ ChainType'
    BY <2>1, <2>2, FewerChain
  <2>4. UNCHANGED <<config, exists, state, op, step, gw, last, told, made>> /\ quiet' = FALSE
    BY <1>13 DEF Expire, userVars, stateVars, opVars
  <2>5. StateType' /\ HandlerType'
    BY <2>2, <2>4 DEF TypeOK, StateType, HandlerType, Idle
  <2>6. StaysBehind(state') /\ StaysBehind(gw')
    BY <2>2, <2>3, <2>4, StillBehind DEF Room
  <2>7. Room'
    BY <2>4, <2>6 DEF Room, HasRoom, Behind, StaysBehind
  <2> QED BY <2>3, <2>5, <2>7 DEF TypeOK
<1>14. CASE Edit
  <2>1. /\ config' \in Wanted /\ gw' = Nothing(config') /\ last' = "none"
        /\ UNCHANGED <<chainVars, kind, exists, state, op, step, quiet, told, trouble>>
        /\ op = "none"
    BY <1>14 DEF Edit, stateVars, histVars, Idle
  <2>2. ChainKeeps /\ ChainType'
    BY <2>1, SameChain
  <2>3. GatewayOK(gw') /\ gw'.ids = NoIds /\ gw'.nameId = NoName
    BY <2>1, NothingIs
  <2>4. StaysBehind(state')
    BY <2>1, <2>2, StillBehind DEF Room
  <2>5. StaysBehind(gw')
    <3> DEFINE none == Nothing(config)
    <3>1. none.ids = NoIds /\ none.nameId = NoName
      BY NothingIs DEF TypeOK, StateType
    <3>2. Behind(none)
      BY <3>1, NoneBehind
    <3> HIDE DEF none
    <3> QED BY <2>1, <2>2, <2>3, <3>1, <3>2, StillBehind
  <2>6. StateType' /\ HandlerType'
    BY <2>1, <2>3 DEF TypeOK, StateType, HandlerType, Idle
  <2>7. Room'
    BY <2>1, <2>4, <2>5 DEF Room, Behind, StaysBehind
  <2> QED BY <2>2, <2>6, <2>7 DEF TypeOK
<1>15. CASE UNCHANGED vars
  <2>1. UNCHANGED <<chainVars, kind, config, exists, state, op, step, gw, last, quiet, told,
                    trouble>>
    BY <1>15 DEF vars, userVars, stateVars, opVars, histVars
  <2>2. ChainKeeps /\ ChainType'
    BY <2>1, SameChain
  <2>3. StateType' /\ HandlerType'
    BY <2>1 DEF TypeOK, StateType, HandlerType, Idle
  <2>4. StaysBehind(state') /\ StaysBehind(gw')
    BY <2>1, <2>2, StillBehind DEF Room
  <2>5. Room'
    BY <2>1, <2>4 DEF Room, HasRoom, Behind, StaysBehind, chainVars
  <2> QED BY <2>2, <2>3, <2>5 DEF TypeOK
<1> QED BY <1>2, <1>3, <1>4, <1>5, <1>6, <1>7, <1>8, <1>9, <1>10, <1>11, <1>12, <1>13,
           <1>14, <1>15 DEF Next

\* Every variable keeps its type, no contract is both a node's and a name's, and a
\* gateway by its domain has no name contract, for any nodes, names and failures.
THEOREM TypeCorrect == Spec => []TypeOK
<1>1. Spec => [](TypeOK /\ Room)
  BY GatewayInit, TypeNext, PTL DEF Spec
<1> QED BY <1>1, PTL

-----------------------------------------------------------------------------
(* The account of the contracts.                                           *)

\* What the state will record if the handler now ends well.
Held == IF op = "delete" THEN {} ELSE Recorded(gw)

SameIds(g, h) == g.ids = h.ids /\ g.nameId = h.nameId

\* The state, or what the user was told, accounts for every contract that lives,
\* but while an apply holds contracts it has not stored: its gateway has those.
\* What a handler stores lets go of no contract of the state that lives.
Accounted ==
  /\ step \notin {"sync", "set"} \/ op \in {"read", "delete"} =>
       Live \subseteq Recorded(state) \cup told
  /\ step \in {"load", "deploy", "cancel"} => SameIds(gw, state)
  /\ step \in {"sync", "set"} =>
       /\ Live \subseteq Held \cup told
       /\ Recorded(state) \cap Live \subseteq Held

LEMMA RecordedAre ==
  /\ \A g, h : SameIds(g, h) => Recorded(g) = Recorded(h)
  /\ \A g : g.ids = NoIds /\ g.nameId = NoName => Recorded(g) = {}
BY NoIdsAre DEF SameIds, Recorded

LEMMA BeginsIds ==
  ASSUME TypeOK, Room, NEW handler, NEW wanted, Begins(handler, wanted)
  PROVE  SameIds(gw', state)
<1>1. exists => gw' = Gateways(wanted, state.ids, state.nameId)
  BY DEF Begins
<1>2. ~exists => gw' = Gateways(wanted, NoIds, NoName)
  BY DEF Begins, Nothing
<1> QED BY <1>1, <1>2 DEF Gateways, SameIds, Room

\* After a Deploy the gateway has every contract it had and that lives, and every
\* new one.
LEMMA DeployCovers ==
  ASSUME TypeOK, Room, Deploy
  PROVE  /\ Live' \subseteq Recorded(gw') \cup (Live \ Recorded(gw))
         /\ Recorded(gw) \cap Live' \subseteq Recorded(gw')
<1>1. /\ Behind(gw) /\ GatewayOK(gw)
      /\ DOMAIN nodeLive \subseteq 1 .. made /\ DOMAIN nameLive \subseteq 1 .. made
      /\ NoName \notin DOMAIN nodeLive \cup DOMAIN nameLive
  BY NumbersAre, GatewayAssumption DEF Room, TypeOK, HandlerType, ContractId
<1>2. /\ NewIds /\ DOMAIN gw'.ids = {gw.node} /\ gw'.ids[gw.node] = nodeId
      /\ gw'.nameId = nameId
  BY DeployIs
<1>3. /\ made \in Nat /\ made' \in 0 .. MaxContract /\ MaxContract \in Nat
      /\ NoName \notin made + 1 .. made'
  BY <1>2, NumbersAre, GatewayAssumption DEF NewIds, ContractId
<1>4. Recorded(gw') = {nodeId} \cup ({nameId} \ {NoName})
  BY <1>2 DEF Recorded, Range
<1>5. ASSUME NEW c \in DOMAIN nodeLive'
      PROVE  /\ c \in Recorded(gw') \cup (Live \ Recorded(gw))
             /\ c \in Recorded(gw) => c \in Recorded(gw')
  <2>1. c = nodeId \/ (c \in DOMAIN nodeLive /\ c \notin Others)
    BY DEF Deploy, DeploysNode
  <2>2. c \in DOMAIN nodeLive => c # gw.nameId
    BY <1>1 DEF Behind
  <2>3. ASSUME c \in DOMAIN nodeLive, c \notin Others, c \in Range(gw.ids) PROVE c = nodeId
    BY <1>2, <2>3 DEF Range, Others, Ids, NewIds
  <2> QED BY <1>4, <2>1, <2>2, <2>3 DEF Recorded, Live
<1>6. ASSUME NEW c \in DOMAIN nameLive'
      PROVE  /\ c \in Recorded(gw') \cup (Live \ Recorded(gw))
             /\ c \in Recorded(gw) => c \in Recorded(gw')
  <2>1. c \in DOMAIN nameLive => c \notin Range(gw.ids)
    BY <1>1 DEF Behind
  <2>2. CASE NameIsKept
    <3>1. c \in DOMAIN nameLive /\ nameId = gw.nameId
      BY <1>2, <2>2 DEF Deploy, DeploysName, NewIds
    <3>2. c # NoName
      BY <1>1, <3>1
    <3> QED BY <1>4, <2>1, <3>1, <3>2 DEF Recorded, Live
  <2>3. CASE ~NameIsKept
    <3>1. c = nameId \/ (c \in DOMAIN nameLive /\ c # gw.nameId)
      BY <2>3 DEF Deploy, DeploysName
    <3>2. nameId # NoName
      BY <1>2, <1>3, <2>3 DEF NewIds
    <3> QED BY <1>4, <2>1, <3>1, <3>2 DEF Recorded, Live
  <2> QED BY <2>2, <2>3
<1> QED BY <1>5, <1>6 DEF Live

LEMMA FailsAccount ==
  ASSUME TypeOK, Accounted, Fails, Live' \subseteq Live \/ op \in {"create", "update"}
  PROVE  /\ Accounted' /\ Recorded(state') = Recorded(state) /\ told \subseteq told'
         /\ Live' \subseteq Recorded(state') \cup told'
<1>1. Recorded(state') = Recorded(state)
  BY FailsState, RecordedAre DEF SameIds
<1>2. told \subseteq told' /\ (op \in {"create", "update"} => Live' \subseteq told')
  BY DEF Fails, Live
<1>3. Live' \subseteq Recorded(state') \cup told'
  <2>1. CASE op \in {"create", "update"}
    BY <1>2, <2>1
  <2>2. CASE op \notin {"create", "update"}
    <3>1. op \in {"read", "delete"} \/ step \notin {"sync", "set"}
      BY <2>2 DEF TypeOK, HandlerType, Idle
    <3> QED BY <1>1, <1>2, <2>2, <3>1 DEF Accounted
  <2> QED BY <2>1, <2>2
<1>4. Accounted'
  BY <1>3 DEF Accounted, Fails, Ends
<1> QED BY <1>1, <1>2, <1>3, <1>4

LEMMA AccountedInit == Init => Accounted
BY DEF Init, Accounted, Live

LEMMA AccountedNext == TypeOK /\ Room /\ Accounted /\ [Next]_vars => Accounted'
<1> SUFFICES ASSUME TypeOK, Room, Accounted, [Next]_vars PROVE Accounted'
  OBVIOUS
<1>1. ASSUME UNCHANGED <<nodeLive, nameLive>> PROVE Live' = Live
  BY <1>1 DEF Live
<1>2. CASE Create \/ Update \/ Read \/ Delete
  <2>1. PICK handler, wanted : Begins(handler, wanted)
    BY <1>2 DEF Create, Update, Read, Delete
  <2>2. /\ step = "none" /\ step' = "load" /\ UNCHANGED <<state, told, nodeLive, nameLive>>
    BY <2>1 DEF Begins, TypeOK, HandlerType, chainVars, stateVars
  <2>3. SameIds(gw', state)
    BY <2>1, BeginsIds
  <2> QED BY <1>1, <2>2, <2>3 DEF Accounted, SameIds
<1>3. CASE Load
  <2>1. /\ UNCHANGED <<nodeLive, nameLive, gw, state, told, op>> /\ step = "load"
        /\ step' = firstCall /\ (op = "read" => step' = "sync")
        /\ op # "read" => step' \in {"deploy", "cancel"}
    BY <1>3 DEF Load, Goes, firstCall, chainVars, stateVars, histVars
  <2>2. /\ Live \subseteq Recorded(state) \cup told /\ SameIds(gw, state)
        /\ Recorded(gw) = Recorded(state)
    BY <2>1, RecordedAre DEF Accounted
  <2> QED BY <1>1, <2>1, <2>2 DEF Accounted, Held
<1>4. CASE Deploy
  <2>1. /\ Live \subseteq Recorded(state) \cup told /\ Recorded(gw) = Recorded(state)
        /\ op' = op /\ op \in {"create", "update"} /\ step' = "sync"
        /\ UNCHANGED <<state, told>>
    BY <1>4, RecordedAre DEF Deploy, Goes, Accounted, stateVars, histVars, TypeOK, HandlerType
  <2> QED BY <1>4, <2>1, DeployCovers DEF Accounted, Held
<1>5. CASE DeployFails
  BY <1>5, FailsAccount DEF DeployFails, TypeOK, HandlerType
<1>6. CASE CancelFails
  <2>1. Live' \subseteq Live
    BY <1>6 DEF CancelFails, Cancels, Restrict, Live
  <2> QED BY <1>6, <2>1, FailsAccount DEF CancelFails
<1>7. CASE Cancel
  <2>1. /\ Live \subseteq Recorded(state) \cup told /\ Recorded(gw) = Recorded(state)
        /\ op' = op /\ op = "delete" /\ step' = "sync" /\ UNCHANGED <<state, told>>
    BY <1>7, RecordedAre DEF Cancel, Goes, Accounted, stateVars, histVars, TypeOK, HandlerType
  <2>2. Live' \subseteq Live \ Recorded(gw)
    <3>1. Behind(gw)
      BY DEF Room
    <3>2. /\ DOMAIN nodeLive' = DOMAIN nodeLive \ Range(gw.ids)
          /\ DOMAIN nameLive' = DOMAIN nameLive \ {gw.nameId}
      BY <1>7 DEF Cancel, Cancels, Restrict
    <3> QED BY <3>1, <3>2 DEF Behind, Live, Recorded
  <2> QED BY <2>1, <2>2 DEF Accounted, Held
<1>8. CASE Sync
  <2>1. /\ UNCHANGED <<nodeLive, nameLive, state, told, op>> /\ step = "sync" /\ step' = "set"
    BY <1>8 DEF Sync, Goes, chainVars, stateVars, histVars
  <2>2. Recorded(gw) \cap Live \subseteq Recorded(gw')
    <3>1. Behind(gw) /\ NoName \notin Live
      BY NumbersAre, GatewayAssumption DEF Room, Live, ContractId
    <3>2. /\ DOMAIN gw'.ids = {n \in Ids : gw.ids[n] \in DOMAIN nodeLive}
          /\ \A n \in DOMAIN gw'.ids : gw'.ids[n] = gw.ids[n]
          /\ gw'.nameId = IF gw.nameId \in DOMAIN nameLive THEN gw.nameId ELSE NoName
      BY <1>8, SyncIs
    <3> QED BY <3>1, <3>2 DEF Recorded, Range, Behind, Live, Ids
  <2>3. Held \cap Live \subseteq Held'
    BY <2>1, <2>2 DEF Held
  <2> QED BY <1>1, <2>1, <2>3 DEF Accounted
<1>9. CASE LoadFails \/ (SyncFails /\ op # "read")
  <2>1. Fails /\ UNCHANGED <<nodeLive, nameLive>>
    BY <1>9 DEF LoadFails, SyncFails, chainVars
  <2> QED BY <1>1, <2>1, FailsAccount
<1>10. CASE SyncFails /\ op = "read"
  <2>1. Ends("warned") /\ UNCHANGED <<nodeLive, nameLive, state, told>>
    BY <1>10 DEF SyncFails, chainVars, stateVars, histVars
  <2> QED BY <1>1, <1>10, <2>1 DEF Accounted, Ends
<1>11. CASE Set
  <2>1. /\ UNCHANGED <<nodeLive, nameLive, told>> /\ step = "set" /\ step' = "none"
        /\ state' = IF op = "delete" THEN Nothing(config) ELSE gw
    BY <1>11 DEF Set, Ends, chainVars, histVars
  <2>2. Held \subseteq Recorded(state')
    BY <2>1 DEF Held
  <2> QED BY <1>1, <2>1, <2>2 DEF Accounted
<1>12. CASE Kill
  BY <1>12 DEF Kill, Ends, Accounted, chainVars, Live
<1>13. CASE Expire
  <2>1. Live' \subseteq Live
    BY <1>13 DEF Expire, Restrict, Live
  <2>2. UNCHANGED <<state, told, op, step, gw>>
    BY <1>13 DEF Expire, stateVars, opVars
  <2> QED BY <2>1, <2>2 DEF Accounted, Held, SameIds
<1>14. CASE Edit
  <2>1. UNCHANGED <<nodeLive, nameLive, state, told, op, step>> /\ step = "none"
    BY <1>14 DEF Edit, chainVars, stateVars, histVars, TypeOK, HandlerType
  <2> QED BY <1>1, <2>1 DEF Accounted
<1>15. CASE UNCHANGED vars
  <2>1. UNCHANGED <<nodeLive, nameLive, state, told, op, step, gw>>
    BY <1>15 DEF vars, chainVars, stateVars, histVars, opVars
  <2> QED BY <1>1, <2>1 DEF Accounted, Held, SameIds
<1> QED BY <1>2, <1>3, <1>4, <1>5, <1>6, <1>7, <1>8, <1>9, <1>10, <1>11, <1>12, <1>13,
           <1>14, <1>15 DEF Next

LEMMA Account == Spec => [](TypeOK /\ Room /\ Accounted)
BY GatewayInit, TypeNext, AccountedInit, AccountedNext, PTL DEF Spec

\* At rest, the user was told of every contract that lives and that Terraform will
\* never cancel.
THEOREM NoSilentOrphans == Spec => []OrphansAreReported
<1>1. TypeOK /\ Accounted => OrphansAreReported
  BY DEF TypeOK, HandlerType, Accounted, OrphansAreReported, Idle
<1> QED BY <1>1, Account, PTL

-----------------------------------------------------------------------------
(* The refinement.                                                         *)

LEMMA LedgerInit == Init => Ledger!Init
<1> SUFFICES ASSUME Init PROVE Ledger!Init
  OBVIOUS
<1>1. Recorded(state) = {}
  BY NothingIs, RecordedAre DEF Init
<1> QED BY <1>1 DEF Init, Ledger!Init, Idle, Live

LEMMA LedgerNext ==
  TypeOK /\ Room /\ Accounted /\ Accounted' /\ [Next]_vars => [Ledger!Next]_(Ledger!vars)
<1> SUFFICES ASSUME TypeOK, Room, Accounted, Accounted', [Next]_vars
             PROVE  [Ledger!Next]_(Ledger!vars)
  OBVIOUS
<1>1. Ledger!Changes
  <2>1. ChainKeeps
    BY TypeNext
  <2>2. made' \in Nat /\ made <= made'
    BY <2>1, GatewayAssumption DEF ChainKeeps
  <2> QED BY <2>1, <2>2 DEF ChainKeeps, Ledger!Changes, Live
<1>2. ASSUME ~Idle, op' = op, UNCHANGED <<state, told>> PROVE [Ledger!Next]_(Ledger!vars)
  <2>1. Ledger!Work
    BY <1>1, <1>2 DEF Ledger!Work, Idle
  <2> QED BY <2>1 DEF Ledger!Next
<1>3. ASSUME ~Idle, NEW how, Ends(how), told \subseteq told',
             Recorded(state) \cap Live' \subseteq Recorded(state')
      PROVE  [Ledger!Next]_(Ledger!vars)
  <2>1. Live' \subseteq Recorded(state') \cup told'
    BY <1>3 DEF Ends, Accounted
  <2>2. Ledger!Return
    BY <1>1, <1>3, <2>1 DEF Ledger!Return, Ends, Idle
  <2> QED BY <2>2 DEF Ledger!Next
<1>4. CASE Create \/ Update \/ Read \/ Delete
  <2>1. PICK handler, wanted : Begins(handler, wanted) /\ handler # "none"
    BY <1>4 DEF Create, Update, Read, Delete
  <2>2. Ledger!Begin
    BY <2>1 DEF Begins, Ledger!Begin, Idle, Live, chainVars, stateVars
  <2> QED BY <2>2 DEF Ledger!Next
<1>5. CASE Load \/ Deploy \/ Cancel \/ Sync
  <2>1. ~Idle /\ op' = op /\ UNCHANGED <<state, told>>
    BY <1>5 DEF Load, Deploy, Cancel, Sync, Goes, stateVars, histVars, TypeOK, HandlerType
  <2> QED BY <1>2, <2>1
<1>6. CASE LoadFails \/ DeployFails \/ CancelFails \/ (SyncFails /\ op # "read")
  <2>1. Fails /\ ~Idle
    BY <1>6 DEF LoadFails, DeployFails, CancelFails, SyncFails, TypeOK, HandlerType
  <2>2. Recorded(state') = Recorded(state) /\ told \subseteq told' /\ Ends("error")
    BY <2>1, FailsState, RecordedAre DEF Fails, SameIds
  <2> QED BY <1>3, <2>1, <2>2
<1>7. CASE (SyncFails /\ op = "read") \/ Kill
  <2>1. PICK how : Ends(how) /\ ~Idle /\ state' = state /\ told \subseteq told'
    BY <1>7 DEF SyncFails, Kill, stateVars, histVars, Idle
  <2> QED BY <1>3, <2>1
<1>8. CASE Set
  <2>1. /\ UNCHANGED <<nodeLive, nameLive, told>> /\ step = "set" /\ ~Idle
        /\ state' = IF op = "delete" THEN Nothing(config) ELSE gw
    BY <1>8 DEF Set, chainVars, histVars, TypeOK, HandlerType
  <2>2. Held \subseteq Recorded(state') /\ Live' = Live
    BY <2>1 DEF Held, Live
  <2>3. PICK how : Ends(how)
    BY <1>8 DEF Set
  <2> QED BY <1>3, <2>1, <2>2, <2>3 DEF Accounted
<1>9. CASE Expire
  <2>1. Live' \subseteq Live
    BY <1>9 DEF Expire, Restrict, Live
  <2>2. Ledger!Expire
    BY <1>9, <2>1 DEF Expire, Ledger!Expire, Idle, stateVars, opVars
  <2> QED BY <2>2 DEF Ledger!Next
<1>10. CASE Edit \/ UNCHANGED vars
  BY <1>10 DEF Edit, vars, chainVars, stateVars, opVars, histVars, Ledger!vars, Idle, Live
<1> QED BY <1>4, <1>5, <1>6, <1>7, <1>8, <1>9, <1>10 DEF Next

\* The handlers implement Contracts: whatever fails or dies, the state lets go of no
\* contract that lives, and at rest every contract is accounted for.
THEOREM GatewayImplementsContracts == Spec => ImplementsContracts
BY Account, LedgerInit, LedgerNext, PTL DEF Spec, ImplementsContracts, Ledger!Spec

-----------------------------------------------------------------------------
(* What runs, and what an apply or a refresh leaves.                       *)

\* Backends that pass validateBackends, and none else, reach Deploy.
Validated ==
  /\ step = "deploy" => gw.version \in Valid
  /\ NothingInvalidRuns

LEMMA ValidatedNext == TypeOK /\ Room /\ Validated /\ [Next]_vars => Validated'
<1> SUFFICES ASSUME TypeOK, Room, Validated, [Next]_vars PROVE Validated'
  OBVIOUS
<1>1. ASSUME step' # "deploy", UNCHANGED nodeLive PROVE Validated'
  BY <1>1 DEF Validated, NothingInvalidRuns
<1>2. CASE Load
  <2>1. CASE op \in {"create", "update"}
    <3>1. gw.version # NoVersion
      <4>1. wantedOf(gw) = config /\ config \in Wanted
        BY <1>2, <2>1 DEF Load, TypeOK, StateType, Room
      <4> QED BY <4>1, GatewayAssumption DEF wantedOf, Wanted
    <3> QED BY <1>2, <3>1 DEF Load, Validated, NothingInvalidRuns, chainVars
  <2>2. CASE op \notin {"create", "update"}
    <3>1. op \in {"read", "delete"}
      BY <1>2, <2>2 DEF Load, TypeOK, HandlerType, Idle
    <3> QED BY <1>1, <1>2, <3>1 DEF Load, Goes, firstCall, chainVars
  <2> QED BY <2>1, <2>2
<1>3. CASE Deploy \/ DeployFails
  <2>1. PICK less : DeploysNode(less) \/ UNCHANGED nodeLive
    BY <1>3 DEF Deploy, DeployFails
  <2>2. gw.version \in Valid /\ step' # "deploy"
    BY <1>3 DEF Deploy, DeployFails, Goes, Fails, Ends, Validated
  <2> QED BY <2>1, <2>2 DEF DeploysNode, Validated, NothingInvalidRuns
<1>4. CASE Cancel \/ CancelFails
  <2>1. PICK nodes : nodeLive' = Restrict(nodeLive, DOMAIN nodeLive \ nodes)
    BY <1>4 DEF Cancel, CancelFails, Cancels
  <2>2. step' # "deploy"
    BY <1>4 DEF Cancel, CancelFails, Goes, Fails, Ends
  <2> QED BY <2>1, <2>2 DEF Restrict, Validated, NothingInvalidRuns
<1>5. CASE Expire
  BY <1>5 DEF Expire, Restrict, Validated, NothingInvalidRuns, opVars
<1>6. CASE \/ Create \/ Update \/ Read \/ Delete \/ LoadFails \/ Sync \/ SyncFails \/ Set
           \/ Kill \/ Edit
  <2>1. UNCHANGED nodeLive /\ step' # "deploy"
    BY <1>6 DEF Create, Update, Read, Delete, Begins, LoadFails, Sync, SyncFails, Set, Kill,
       Edit, Goes, Fails, Ends, chainVars, TypeOK, HandlerType
  <2> QED BY <1>1, <2>1
<1>7. CASE UNCHANGED vars
  BY <1>7 DEF vars, chainVars, opVars, Validated, NothingInvalidRuns
<1> QED BY <1>2, <1>3, <1>4, <1>5, <1>6, <1>7 DEF Next

\* What validateBackends refuses is never deployed.
THEOREM RefusedNeverRuns == Spec => []NothingInvalidRuns
<1>1. Init => Validated
  BY DEF Init, Validated, NothingInvalidRuns
<1>2. Validated => NothingInvalidRuns
  BY DEF Validated
<1> QED BY <1>1, <1>2, GatewayInit, TypeNext, ValidatedNext, PTL DEF Spec

\* The gateway serves what the user wants.
Serves(g) ==
  /\ wantedOf(g) = config
  /\ DOMAIN g.ids = {config.node} /\ g.ids[config.node] \in DOMAIN nodeLive
  /\ nodeLive[g.ids[config.node]] = [node |-> config.node, version |-> config.version]
  /\ kind = "name" => g.nameId \in DOMAIN nameLive /\ nameLive[g.nameId] = config.name

\* The gateway is what there is of it.
Shows(g) ==
  /\ Recorded(g) \subseteq Live
  /\ g.version = IF g.node \in DOMAIN g.ids
                 THEN nodeLive[g.ids[g.node]].version ELSE NoVersion

\* What an apply has deployed, and a Read has seen, stays so until a contract expires.
Settling ==
  /\ ~Idle => last = "none"
  /\ step \in {"sync", "set"} /\ op \in {"create", "update"} /\ quiet => Serves(gw)
  /\ step = "set" /\ op = "read" /\ quiet => Shows(gw)
  /\ last = "applied" /\ quiet => Serves(state)
  /\ last = "refreshed" /\ quiet => Shows(state)

LEMMA DeployServes ==
  ASSUME TypeOK, Room, Deploy
  PROVE  Serves(gw)'
<1>1. /\ NewIds /\ DOMAIN gw'.ids = {gw.node} /\ gw'.ids[gw.node] = nodeId
      /\ gw'.nameId = nameId /\ wantedOf(gw') = wantedOf(gw)
  BY DeployIs
<1>2. wantedOf(gw) = config /\ UNCHANGED <<config, kind>> /\ kind \in {"name", "fqdn"}
  BY DEF Deploy, Goes, userVars, TypeOK, StateType, HandlerType, Room
<1>3. gw.node = config.node /\ gw.version = config.version /\ gw.name = config.name
  BY <1>2 DEF wantedOf
<1>4. nodeId \in DOMAIN nodeLive'
      /\ nodeLive'[nodeId] = [node |-> gw.node, version |-> gw.version]
  BY DEF Deploy, DeploysNode
<1>5. kind = "name" => nameId \in DOMAIN nameLive' /\ nameLive'[nameId] = gw.name
  BY <1>1 DEF Deploy, DeploysName, NewIds, NameIsKept
<1> QED BY <1>1, <1>2, <1>3, <1>4, <1>5 DEF Serves

LEMMA SyncShows ==
  ASSUME TypeOK, Room, Sync
  PROVE  Shows(gw') /\ (Serves(gw) => Serves(gw'))
<1>1. /\ GatewayOK(gw')
      /\ DOMAIN gw'.ids = {n \in Ids : gw.ids[n] \in DOMAIN nodeLive}
      /\ \A n \in DOMAIN gw'.ids : gw'.ids[n] = gw.ids[n]
      /\ gw'.nameId = IF gw.nameId \in DOMAIN nameLive THEN gw.nameId ELSE NoName
      /\ gw'.node = gw.node /\ gw'.name = gw.name
      /\ gw'.version = IF gw.node \in DOMAIN gw'.ids
                       THEN nodeLive[gw'.ids[gw.node]].version ELSE NoVersion
  BY SyncIs
<1>2. Shows(gw')
  BY <1>1 DEF Shows, Recorded, Range, Live
<1>3. ASSUME Serves(gw) PROVE Serves(gw')
  <2>1. /\ gw.node = config.node /\ gw.name = config.name /\ gw.version = config.version
        /\ Ids = {config.node} /\ gw.ids[config.node] \in DOMAIN nodeLive
    BY <1>3 DEF Serves, wantedOf, Ids
  <2>2. DOMAIN gw'.ids = {config.node} /\ gw'.ids[config.node] = gw.ids[config.node]
    BY <1>1, <2>1
  <2>3. gw'.version = config.version
    BY <1>1, <1>3, <2>1, <2>2 DEF Serves
  <2>4. wantedOf(gw') = config
    BY <1>1, <1>3, <2>1, <2>3 DEF Serves, wantedOf
  <2>5. kind = "name" => gw'.nameId = gw.nameId
    BY <1>1, <1>3 DEF Serves
  <2> QED BY <1>3, <2>2, <2>4, <2>5 DEF Serves
<1> QED BY <1>2, <1>3

LEMMA SettlingNext == TypeOK /\ Room /\ Settling /\ [Next]_vars => Settling'
<1> SUFFICES ASSUME TypeOK, Room, Settling, [Next]_vars PROVE Settling'
  OBVIOUS
<1>1. (Idle <=> step = "none") /\ (last # "none" => Idle)
  BY DEF TypeOK, HandlerType, Settling
<1>2. CASE Create \/ Update \/ Read \/ Delete
  BY <1>2 DEF Create, Update, Read, Delete, Begins, Settling
<1>3. CASE Load
  <2>1. /\ step = "load" /\ step' = firstCall /\ UNCHANGED <<op, last>>
        /\ op \in {"create", "update", "read", "delete"}
    BY <1>3 DEF Load, Goes, TypeOK, HandlerType, Idle
  <2>2. step' # "set" /\ (op \in {"create", "update"} => step' = "deploy")
    BY <2>1 DEF firstCall
  <2> QED BY <1>1, <2>1, <2>2 DEF Settling, Idle
<1>4. CASE Deploy
  <2>1. Serves(gw)' /\ UNCHANGED <<op, last>> /\ step = "deploy" /\ step' = "sync"
    BY <1>4, DeployServes DEF Deploy, Goes
  <2> QED BY <1>1, <2>1 DEF Settling, Idle
<1>5. CASE Cancel
  <2>1. op = "delete" /\ UNCHANGED <<op, last>> /\ step = "cancel"
    BY <1>5 DEF Cancel, Goes, TypeOK, HandlerType
  <2> QED BY <1>1, <2>1 DEF Settling, Idle
<1>6. CASE Sync
  <2>1. /\ UNCHANGED <<op, last, quiet, nodeLive, nameLive, kind, config>>
        /\ step = "sync" /\ step' = "set"
    BY <1>6 DEF Sync, Goes, chainVars, userVars, histVars
  <2>2. Shows(gw)' /\ (Serves(gw) => Serves(gw)')
    <3>1. Shows(gw') /\ (Serves(gw) => Serves(gw'))
      BY <1>6, SyncShows
    <3> QED BY <2>1, <3>1 DEF Shows, Serves, Live
  <2> QED BY <1>1, <2>1, <2>2 DEF Settling, Idle
<1>7. ASSUME NEW how, Ends(how), how \notin {"applied", "refreshed"} PROVE Settling'
  BY <1>7 DEF Settling, Ends, Idle
<1>8. CASE \/ LoadFails \/ DeployFails \/ CancelFails \/ SyncFails \/ Kill
  <2>1. PICK how : Ends(how) /\ how \notin {"applied", "refreshed"}
    BY <1>8 DEF LoadFails, DeployFails, CancelFails, SyncFails, Kill, Fails
  <2> QED BY <1>7, <2>1
<1>9. CASE Set
  <2>1. /\ UNCHANGED <<nodeLive, nameLive, kind, config, quiet>> /\ step = "set"
        /\ Ends(CASE op = "read" -> "refreshed" [] op = "delete" -> "deleted"
                  [] OTHER -> "applied")
        /\ op # "delete" => state' = gw
        /\ op \in {"create", "update", "read", "delete"}
    BY <1>9 DEF Set, chainVars, userVars, histVars, TypeOK, HandlerType, Idle
  <2>2. CASE op = "delete"
    BY <1>7, <2>1, <2>2
  <2>3. CASE op = "read"
    <3>1. Ends("refreshed") /\ state' = gw /\ (quiet => Shows(gw))
      BY <2>1, <2>3 DEF Settling
    <3>2. quiet => Shows(state)'
      BY <2>1, <3>1 DEF Shows, Live
    <3> QED BY <2>1, <3>1, <3>2 DEF Settling, Ends, Idle
  <2>4. CASE op \in {"create", "update"}
    <3>1. Ends("applied") /\ state' = gw /\ (quiet => Serves(gw))
      BY <2>1, <2>4 DEF Settling
    <3>2. quiet => Serves(state)'
      BY <2>1, <3>1 DEF Serves
    <3> QED BY <2>1, <3>1, <3>2 DEF Settling, Ends, Idle
  <2> QED BY <2>1, <2>2, <2>3, <2>4
<1>10. CASE Edit
  BY <1>1, <1>10 DEF Edit, Settling, Idle
<1>11. CASE Expire
  BY <1>11 DEF Expire, Settling, Idle, opVars
<1>12. CASE UNCHANGED vars
  BY <1>12 DEF vars, Settling, Serves, Shows, Idle, Live, chainVars, userVars, stateVars,
     opVars, histVars
<1> QED BY <1>2, <1>3, <1>4, <1>5, <1>6, <1>8, <1>9, <1>10, <1>11, <1>12 DEF Next

LEMMA Settled == Spec => [](TypeOK /\ Room /\ Settling)
<1>1. Init => Settling
  BY DEF Init, Settling, Idle
<1> QED BY <1>1, GatewayInit, TypeNext, SettlingNext, PTL DEF Spec

\* An apply that succeeds with no contract expiring leaves the node serving what the
\* user wrote under its name, and the state saying so.
THEOREM AppliesDeploy == Spec => []AppliedIsDeployed
<1>1. TypeOK /\ Settling => AppliedIsDeployed
  <2> SUFFICES ASSUME TypeOK, Settling, last = "applied", quiet
               PROVE  /\ wantedOf(state) = config
                      /\ \E c \in DOMAIN nodeLive : /\ state.ids = [n \in {config.node} |-> c]
                                                    /\ nodeLive[c].node = config.node
                                                    /\ nodeLive[c].version = config.version
                      /\ kind = "name" => /\ state.nameId \in DOMAIN nameLive
                                          /\ nameLive[state.nameId] = config.name
    BY DEF AppliedIsDeployed
  <2>1. Serves(state)
    BY DEF Settling
  <2>2. state.ids \in [DOMAIN state.ids -> ContractId]
    BY DEF TypeOK, StateType, GatewayOK
  <2>3. state.ids = [n \in {config.node} |-> state.ids[config.node]]
    BY <2>1, <2>2 DEF Serves
  <2> QED BY <2>1, <2>3 DEF Serves
<1> QED BY <1>1, Settled, PTL

\* A Read that stores anything stores what there is.
THEOREM RefreshesShow == Spec => []RefreshIsTruth
<1>1. Settling => RefreshIsTruth
  BY DEF Settling, Shows, RefreshIsTruth
<1> QED BY <1>1, Settled, PTL
=============================================================================
