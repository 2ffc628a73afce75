--------------------------- MODULE Scheduler_proofs ---------------------------
(***************************************************************************)
(* Proofs about Scheduler, for every grid, request list and page size.     *)
(***************************************************************************)
EXTENDS Scheduler, SequenceTheorems, FiniteSetTheorems, TLAPS

-----------------------------------------------------------------------------
(* The types of the operators.                                             *)

LEMMA MinusType ==
  ASSUME NEW a \in 0 .. Word - 1, NEW b \in 0 .. Word - 1
  PROVE  /\ Minus(a, b) \in 0 .. Word - 1
         /\ b <= a => Minus(a, b) = a - b
BY ConstantsAssumption DEF Minus

LEMMA CapacityAt ==
  ASSUME NEW c \in Capacity, NEW k \in Resource
  PROVE  c[k] \in 0 .. Word - 1
BY DEF Capacity

LEMMA freeCapacityType ==
  ASSUME NEW node \in GridNode
  PROVE  freeCapacity(node) \in Capacity
<1>1. node.Total \in Capacity /\ node.Used \in Capacity
  BY DEF GridNode
<1>2. \A k \in Resource : Minus(node.Total[k], node.Used[k]) \in 0 .. Word - 1
  BY <1>1, CapacityAt, MinusType
<1> QED BY <1>2 DEF freeCapacity, Capacity

LEMMA CheckedResources == Checked \subseteq Resource
BY DEF Checked, Resource

LEMMA RequestCapacity ==
  ASSUME NEW r \in Request
  PROVE  r.Capacity \in Capacity
BY DEF Request

LEMMA consumeType ==
  ASSUME NEW free \in Capacity, NEW r \in Request
  PROVE  /\ consume(free, r) \in Capacity
         /\ \A k \in Checked : r.Capacity[k] <= free[k] =>
              consume(free, r)[k] = free[k] - r.Capacity[k]
         /\ \A k \in Resource \ Checked : consume(free, r)[k] = free[k]
<1>1. \A k \in Resource : /\ free[k] \in 0 .. Word - 1
                          /\ r.Capacity[k] \in 0 .. Word - 1
  BY CapacityAt, RequestCapacity
<1>2. \A k \in Resource : Minus(free[k], r.Capacity[k]) \in 0 .. Word - 1
  BY <1>1, MinusType
<1>3. consume(free, r) \in Capacity
  BY <1>1, <1>2 DEF consume, Capacity
<1>4. \A k \in Checked : r.Capacity[k] <= free[k] =>
        consume(free, r)[k] = free[k] - r.Capacity[k]
  BY <1>1, MinusType, CheckedResources DEF consume
<1>5. \A k \in Resource \ Checked : consume(free, r)[k] = free[k]
  BY DEF consume
<1> QED BY <1>3, <1>4, <1>5

LEMMA PublicIPsType ==
  ASSUME NEW ips \in Seq(Nat)
  PROVE  getPublicIPsCount(ips) \in Nat
<1>1. DOMAIN ips = 1 .. Len(ips) /\ Len(ips) \in Nat
  OBVIOUS
<1>2. IsFiniteSet(DOMAIN ips)
  BY <1>1, FS_Interval
<1>3. IsFiniteSet({j \in DOMAIN ips : ips[j] = 0})
  BY <1>2, FS_Subset
<1> QED BY <1>3, FS_CardinalityType DEF getPublicIPsCount

LEMMA constructFilterType ==
  ASSUME NEW r \in Request
  PROVE  constructFilter(r) \in NodeFilter
BY DEF Request, constructFilter, NodeFilter, Feature, Full, Light

LEMMA PageMatches ==
  ASSUME NEW flt, NEW lim, NEW n \in Page(flt, lim)
  PROVE  n \in NodeId /\ Matches(flt, n)
<1> DEFINE S == {m \in NodeId : Matches(flt, m)}
<1>1. ProxyOrder(S) \in Seq(S)
  BY ProxyOrderAssumption
<1>2. \A x \in 1 .. Len(ProxyOrder(S)) : ProxyOrder(S)[x] \in S
  <2> HIDE DEF S
  <2> QED BY <1>1
<1>3. n \in S
  BY <1>2 DEF Page, Listing
<1> QED BY <1>3

LEMMA NextPageType ==
  ASSUME NEW lim \in [Page : {1, 2}, Size : Nat \ {0}]
  PROVE  NextPage(lim) \in [Page : {1, 2}, Size : Nat \ {0}]
<1>1. lim.Page \in {1, 2} /\ lim.Size \in Nat \ {0}
  OBVIOUS
<1>2. 2 * lim.Size \in Nat \ {0}
  BY <1>1
<1> QED BY <1>1, <1>2 DEF NextPage

LEMMA FirstPageType == FirstPage \in [Page : {1, 2}, Size : Nat \ {0}]
BY ConstantsAssumption DEF FirstPage

LEMMA addNodesType ==
  ASSUME GridType, CacheType, NEW page \in SUBSET NodeId
  PROVE  /\ DOMAIN addNodes(page) = DOMAIN nodes \cup page
         /\ DOMAIN addNodes(page) \subseteq NodeId
         /\ addNodes(page) \in [DOMAIN addNodes(page) -> NodeInfo]
         /\ \A n \in DOMAIN nodes : addNodes(page)[n] = nodes[n]
         /\ \A n \in page \ DOMAIN nodes :
              addNodes(page)[n] = [FreeCapacity |-> freeCapacity(proxyNodes[n]),
                                   Node |-> proxyNodes[n]]
<1>1. \A n \in page : /\ proxyNodes[n] \in GridNode
                      /\ freeCapacity(proxyNodes[n]) \in Capacity
  BY freeCapacityType DEF GridType
<1>2. \A n \in DOMAIN nodes : nodes[n] \in NodeInfo
  BY DEF CacheType
<1>3. \A n \in page :
        [FreeCapacity |-> freeCapacity(proxyNodes[n]), Node |-> proxyNodes[n]]
          \in NodeInfo
  BY <1>1 DEF NodeInfo
<1>4. DOMAIN nodes \subseteq NodeId
  BY DEF CacheType
<1> QED BY <1>2, <1>3, <1>4 DEF addNodes

\* A page joins the cache, each new node with the capacity it is listed with.
LEMMA ListPageCache ==
  ASSUME TypeOK, ListPage
  PROVE  /\ Page(f, l) \subseteq NodeId
         /\ DOMAIN nodes' = DOMAIN nodes \cup Page(f, l) /\ DOMAIN nodes' \subseteq NodeId
         /\ nodes' \in [DOMAIN nodes' -> NodeInfo]
         /\ \A n \in DOMAIN nodes : nodes'[n] = nodes[n]
         /\ \A n \in DOMAIN nodes' \ DOMAIN nodes :
              /\ n \in Page(f, l) /\ nodes'[n].Node = proxyNodes[n]
              /\ nodes'[n].FreeCapacity = freeCapacity(nodes'[n].Node)
<1>1. Page(f, l) \in SUBSET NodeId /\ nodes' = addNodes(Page(f, l))
  BY PageMatches DEF ListPage
<1>2. /\ DOMAIN nodes' = DOMAIN nodes \cup Page(f, l) /\ DOMAIN nodes' \subseteq NodeId
      /\ nodes' \in [DOMAIN nodes' -> NodeInfo]
      /\ \A n \in DOMAIN nodes : nodes'[n] = nodes[n]
      /\ \A n \in Page(f, l) \ DOMAIN nodes :
           nodes'[n] = [FreeCapacity |-> freeCapacity(proxyNodes[n]),
                        Node |-> proxyNodes[n]]
  BY <1>1, addNodesType DEF TypeOK
<1>3. ASSUME NEW n \in DOMAIN nodes' \ DOMAIN nodes
      PROVE  /\ n \in Page(f, l) /\ nodes'[n].Node = proxyNodes[n]
             /\ nodes'[n].FreeCapacity = freeCapacity(nodes'[n].Node)
  <2>1. n \in Page(f, l) \ DOMAIN nodes
    BY <1>2, <1>3
  <2>2. nodes'[n].Node = proxyNodes[n]
    BY <1>2, <2>1
  <2>3. nodes'[n].FreeCapacity = freeCapacity(proxyNodes[n])
    BY <1>2, <2>1
  <2> QED BY <2>1, <2>2, <2>3
<1> QED BY <1>1, <1>2, <1>3

LEMMA withFarmsType ==
  ASSUME GridType, CacheType, NEW learned \in SUBSET FarmId
  PROVE  /\ DOMAIN withFarms(learned) \subseteq FarmId
         /\ withFarms(learned) \in [DOMAIN withFarms(learned) -> [freeIPs : Nat]]
<1>1. \A x \in learned : getPublicIPsCount(proxyFarms[x].PublicIps) \in Nat
  BY PublicIPsType DEF GridType, GridFarm
<1>2. \A x \in DOMAIN farms : farms[x] \in [freeIPs : Nat]
  BY DEF CacheType
<1> QED BY <1>1, <1>2 DEF withFarms, CacheType

-----------------------------------------------------------------------------
(* What the two ends of a search do to the cache.                          *)

\* The node found fulfils the request.
LEMMA FoundNode ==
  ASSUME TypeOK, NEW learned, NEW n \in DOMAIN nodes, getNode(req, learned, n)
  PROVE  \E farm : fulfils(n, nodes[n], req, farm)
<1>1. n # NoNode
  BY ConstantsAssumption DEF TypeOK, CacheType
<1> QED BY <1>1 DEF getNode

LEMMA PlaceCache ==
  ASSUME TypeOK, NEW learned, NEW n \in DOMAIN nodes, Place(learned, n)
  PROVE  /\ DOMAIN nodes' = DOMAIN nodes
         /\ \A m \in DOMAIN nodes \ {n} : nodes'[m] = nodes[m]
         /\ nodes'[n] \in NodeInfo
         /\ nodes'[n].Node = nodes[n].Node
         /\ \A k \in Checked :
              /\ req.Capacity[k] <= nodes[n].FreeCapacity[k]
              /\ nodes'[n].FreeCapacity[k]
                   = nodes[n].FreeCapacity[k] - req.Capacity[k]
         /\ \A k \in Resource \ Checked :
              nodes'[n].FreeCapacity[k] = nodes[n].FreeCapacity[k]
<1>1. /\ nodes \in [DOMAIN nodes -> NodeInfo] /\ req \in Request
  BY DEF TypeOK, LoopType, CacheType
<1>2. nodes[n] \in NodeInfo /\ nodes[n].FreeCapacity \in Capacity
  BY <1>1 DEF NodeInfo
<1>3. nodes' = [nodes EXCEPT ![n].FreeCapacity = consume(@, req)]
  BY DEF Place
<1>4. /\ DOMAIN nodes' = DOMAIN nodes
      /\ \A m \in DOMAIN nodes \ {n} : nodes'[m] = nodes[m]
      /\ nodes'[n] = [nodes[n] EXCEPT !.FreeCapacity = consume(@, req)]
  BY <1>1, <1>3
<1>5. /\ nodes'[n].Node = nodes[n].Node
      /\ nodes'[n].FreeCapacity = consume(nodes[n].FreeCapacity, req)
  BY <1>2, <1>4 DEF NodeInfo
<1>6. nodes'[n] \in NodeInfo
  BY <1>1, <1>2, <1>4, consumeType DEF NodeInfo
<1>7. \A k \in Checked : req.Capacity[k] <= nodes[n].FreeCapacity[k]
  BY FoundNode DEF Place, fulfils
<1> QED BY <1>1, <1>2, <1>4, <1>5, <1>6, <1>7, consumeType

LEMMA AssignType ==
  ASSUME TypeOK, NEW n \in NodeId, NEW via \in {"proxy", "bot"}, Assign(n, via)
  PROVE  /\ assignment' \in Assignment /\ assignedNodes' \subseteq NodeId
         /\ placed' \in Seq([req : Request, node : NodeId, via : {"proxy", "bot"}])
         /\ i' \in Nat \ {0} /\ pc' \in Running \cup Final
<1>1. req.Name \in Names
  BY DEF TypeOK, LoopType, Request
<1>2. PICK D \in SUBSET Names : assignment \in [D -> NodeId]
  BY DEF TypeOK, ResultType, Assignment
<1>3. assignment' \in [D \cup {req.Name} -> NodeId]
  BY <1>1, <1>2 DEF Assign
<1>4. assignment' \in Assignment
  BY <1>1, <1>3 DEF Assignment
<1>5. [req |-> req, node |-> n, via |-> via]
        \in [req : Request, node : NodeId, via : {"proxy", "bot"}]
  BY DEF TypeOK, LoopType
<1>6. placed' \in Seq([req : Request, node : NodeId, via : {"proxy", "bot"}])
  BY <1>5 DEF TypeOK, ResultType, Assign
<1>7. i' \in Nat \ {0} /\ pc' \in Running \cup Final
  BY DEF TypeOK, LoopType, Assign, Running
<1> QED BY <1>4, <1>6, <1>7 DEF TypeOK, ResultType, Assign

LEMMA PlaceType ==
  ASSUME TypeOK, NEW learned \in SUBSET FarmId, NEW n \in DOMAIN nodes,
         Place(learned, n), UNCHANGED <<reqs, req, gridVars>>
  PROVE  GridType' /\ CacheType' /\ LoopType' /\ ResultType'
<1>1. n \in NodeId
  BY DEF TypeOK, CacheType
<1>2. GridType'
  BY DEF TypeOK, GridType, gridVars
<1>3. DOMAIN nodes' \subseteq NodeId /\ nodes' \in [DOMAIN nodes' -> NodeInfo]
  <2>1. /\ DOMAIN nodes' = DOMAIN nodes /\ nodes'[n] \in NodeInfo
        /\ \A m \in DOMAIN nodes \ {n} : nodes'[m] = nodes[m]
    BY PlaceCache
  <2>2. /\ DOMAIN nodes' = DOMAIN nodes
        /\ \A m \in DOMAIN nodes : nodes'[m] \in NodeInfo
    BY <2>1 DEF TypeOK, CacheType
  <2>3. nodes' = [nodes EXCEPT ![n].FreeCapacity = consume(@, req)]
    BY DEF Place
  <2> QED BY <2>2, <2>3 DEF TypeOK, CacheType
<1>4. CacheType'
  BY <1>3, withFarmsType DEF TypeOK, CacheType, Place, consumePublicIPs
<1>5. Assign(n, "proxy")
  BY DEF Place
<1>6. LoopType'
  BY <1>1, <1>5, AssignType DEF TypeOK, LoopType
<1>7. booked' \in [NodeId -> [Resource -> Nat]]
  <2>1. \A k \in Resource : req.Capacity[k] \in Nat
    BY RequestCapacity, CapacityAt DEF TypeOK, LoopType
  <2> QED BY <1>1, <2>1 DEF TypeOK, ResultType, Place
<1>8. ResultType'
  BY <1>1, <1>5, <1>7, AssignType DEF ResultType
<1> QED BY <1>2, <1>4, <1>6, <1>8

LEMMA GoOnType ==
  ASSUME TypeOK, NEW learned \in SUBSET FarmId, GoOn(learned),
         UNCHANGED <<reqs, req, gridVars>>
  PROVE  /\ GridType' /\ CacheType' /\ LoopType' /\ ResultType'
         /\ missed' \in BOOLEAN
<1>1. GridType'
  BY DEF TypeOK, GridType, gridVars
<1>2. CacheType'
  BY withFarmsType DEF TypeOK, CacheType, GoOn
<1>3. LoopType'
  BY DEF TypeOK, LoopType, GoOn, Running
<1>4. ResultType'
  BY DEF TypeOK, ResultType, GoOn, asgVars
<1>5. missed' \in BOOLEAN
  BY DEF GoOn, passedOver
<1> QED BY <1>1, <1>2, <1>3, <1>4, <1>5

LEMMA SearchType ==
  ASSUME TypeOK, Search
  PROVE  /\ GridType' /\ CacheType' /\ LoopType' /\ ResultType'
         /\ missed' \in BOOLEAN
<1>1. PICK learned \in SUBSET FarmId :
        (\E n \in DOMAIN nodes : Place(learned, n)) \/ GoOn(learned)
  BY DEF Search
<1>2. UNCHANGED <<reqs, req, gridVars>>
  BY DEF Search
<1>3. CASE GoOn(learned)
  BY <1>2, <1>3, GoOnType
<1>4. ASSUME NEW n \in DOMAIN nodes, Place(learned, n)
      PROVE  /\ GridType' /\ CacheType' /\ LoopType' /\ ResultType'
             /\ missed' \in BOOLEAN
  BY <1>2, <1>4, PlaceType DEF Place, TypeOK, PageType
<1> QED BY <1>1, <1>3, <1>4

-----------------------------------------------------------------------------
(* Type correctness.                                                       *)

LEMMA TypeInit == Init => TypeOK
<1> SUFFICES ASSUME Init PROVE TypeOK
  OBVIOUS
<1> USE DEF Init
<1>1. GridType
  BY ConstantsAssumption, InputsAssumption DEF GridType
<1>2. CacheType
  BY DEF CacheType
<1>3. ZeroRequest \in Request
  <2>1. [k \in Resource |-> 0] \in Capacity
    BY ConstantsAssumption DEF Capacity
  <2>2. (CHOOSE x \in Names : TRUE) \in Names
    BY ConstantsAssumption
  <2> QED BY <2>1, <2>2 DEF ZeroRequest, Request, AnyFarm
<1>4. LoopType
  BY <1>3, InputsAssumption DEF LoopType, Running
<1>5. PageType
  BY <1>3, constructFilterType, FirstPageType DEF PageType
<1>6. assignment \in Assignment /\ assignedNodes \subseteq NodeId
  <2>1. assignment \in Assignment
    BY InputsAssumption
  <2>2. PICK D \in SUBSET Names : assignment \in [D -> NodeId]
    BY <2>1 DEF Assignment
  <2> QED BY <2>1, <2>2 DEF AssignedNodes
<1>7. booked \in [NodeId -> [Resource -> Nat]]
  BY DEF EmptyBooking
<1>8. ResultType
  BY <1>6, <1>7 DEF ResultType
<1> QED BY <1>1, <1>2, <1>4, <1>5, <1>8 DEF TypeOK

LEMMA OtherTenantType ==
  ASSUME TypeOK, OtherTenant
  PROVE  GridType'
<1>1. drift' \in 0 .. MaxDrift
  BY ConstantsAssumption DEF TypeOK, GridType, OtherTenant
<1>2. ASSUME NEW n \in NodeId, NodeChanges(n)
      PROVE  GridType'
  <2>1. proxyFarms' \in [FarmId -> GridFarm]
    BY <1>2 DEF TypeOK, GridType, NodeChanges
  <2>2. proxyNodes[n] \in GridNode
    BY DEF TypeOK, GridType
  <2>3. CASE proxyNodes' = [proxyNodes EXCEPT ![n].Up = ~@]
    <3>1. [proxyNodes[n] EXCEPT !.Up = ~@] \in GridNode
      BY <2>2 DEF GridNode
    <3>2. proxyNodes' \in [NodeId -> GridNode]
      BY <2>3, <3>1 DEF TypeOK, GridType
    <3> QED BY <1>1, <2>1, <3>2 DEF GridType
  <2>4. ASSUME NEW k \in Checked, proxyNodes[n].Used[k] < proxyNodes[n].Total[k],
               proxyNodes' = [proxyNodes EXCEPT ![n].Used[k] = @ + 1]
        PROVE  GridType'
    <3>1. proxyNodes[n].Used \in Capacity /\ proxyNodes[n].Total \in Capacity
      BY <2>2 DEF GridNode
    <3>2. /\ proxyNodes[n].Used[k] \in 0 .. Word - 1
          /\ proxyNodes[n].Total[k] \in 0 .. Word - 1
      BY <3>1, CapacityAt, CheckedResources
    <3>3. proxyNodes[n].Used[k] + 1 \in 0 .. Word - 1
      BY <2>4, <3>2, ConstantsAssumption
    <3>4. [proxyNodes[n].Used EXCEPT ![k] = @ + 1] \in Capacity
      BY <3>1, <3>3 DEF Capacity
    <3>5. [proxyNodes[n] EXCEPT !.Used[k] = @ + 1] \in GridNode
      BY <2>2, <3>4 DEF GridNode
    <3>6. proxyNodes' \in [NodeId -> GridNode]
      BY <2>4, <3>5 DEF TypeOK, GridType
    <3> QED BY <1>1, <2>1, <3>6 DEF GridType
  <2> QED BY <1>2, <2>3, <2>4 DEF NodeChanges
<1>3. ASSUME NEW x \in FarmId, IPReserved(x)
      PROVE  GridType'
  <2>1. PICK j \in DOMAIN proxyFarms[x].PublicIps :
          proxyFarms' = [proxyFarms EXCEPT ![x].PublicIps[j] = 1]
    BY <1>3 DEF IPReserved
  <2>2. proxyFarms[x] \in GridFarm
    BY DEF TypeOK, GridType
  <2>3. [proxyFarms[x].PublicIps EXCEPT ![j] = 1] \in Seq(Nat)
    BY <2>2 DEF GridFarm
  <2>4. [proxyFarms[x] EXCEPT !.PublicIps[j] = 1] \in GridFarm
    BY <2>2, <2>3 DEF GridFarm
  <2>5. proxyFarms' \in [FarmId -> GridFarm]
    BY <2>1, <2>4 DEF TypeOK, GridType
  <2> QED BY <1>1, <1>3, <2>5 DEF TypeOK, GridType, IPReserved
<1> QED BY <1>2, <1>3 DEF OtherTenant

LEMMA TypeNext == TypeOK /\ [Next]_vars => TypeOK'
<1> SUFFICES ASSUME TypeOK, [Next]_vars PROVE TypeOK'
  OBVIOUS
<1>1. CASE TakeRequest
  <2>1. reqs[i] \in Request
    BY <1>1 DEF TypeOK, LoopType, TakeRequest
  <2>2. [reqs[i] EXCEPT !.NodeExclude = @ \cup assignedNodes] \in Request
    BY <2>1 DEF TypeOK, ResultType, Request
  <2>3. LoopType'
    BY <1>1, <2>1, <2>2 DEF TypeOK, LoopType, TakeRequest, Running
  <2>4. GridType' /\ CacheType' /\ PageType' /\ ResultType'
    BY <1>1 DEF TypeOK, GridType, CacheType, PageType, ResultType, TakeRequest,
                gridVars, cacheVars, pageVars, asgVars
  <2> QED BY <2>3, <2>4 DEF TypeOK
<1>2. CASE \/ ReturnAssignment \/ FarmNotFound \/ BotAnswersPing \/ BotSilent
           \/ BotFails \/ ListFails \/ NoNodesFound
  BY <1>2 DEF TypeOK, GridType, CacheType, LoopType, PageType, ResultType,
       ReturnAssignment, FarmNotFound, BotAnswersPing, BotSilent, BotFails,
       ListFails, NoNodesFound, Running, Final,
       gridVars, cacheVars, loopVars, pageVars, asgVars
<1>3. CASE FarmFound
  <2>1. CacheType'
    BY <1>3, withFarmsType DEF TypeOK, CacheType, FarmFound
  <2>2. GridType' /\ LoopType' /\ PageType' /\ ResultType'
    BY <1>3 DEF TypeOK, GridType, LoopType, PageType, ResultType, FarmFound,
                Running, gridVars, loopVars, pageVars, asgVars
  <2> QED BY <2>1, <2>2 DEF TypeOK
<1>4. CASE BotFindsNode
  <2>1. PICK n \in NodeId : Assign(n, "bot")
    BY <1>4 DEF BotFindsNode, BotOffers
  <2>2. LoopType' /\ ResultType'
    BY <1>4, <2>1, AssignType DEF TypeOK, LoopType, ResultType, BotFindsNode
  <2>3. GridType' /\ CacheType' /\ PageType'
    BY <1>4 DEF TypeOK, GridType, CacheType, PageType, BotFindsNode,
                gridVars, cacheVars, pageVars
  <2> QED BY <2>2, <2>3 DEF TypeOK
<1>5. CASE SearchCache
  <2>1. f' \in NodeFilter /\ l' \in [Page : {1, 2}, Size : Nat \ {0}]
    BY <1>5, constructFilterType, FirstPageType DEF SearchCache, TypeOK, LoopType
  <2> QED BY <1>5, <2>1, SearchType DEF SearchCache, TypeOK, PageType
<1>6. CASE FallBackToFull
  BY <1>6 DEF TypeOK, GridType, CacheType, LoopType, PageType, ResultType,
       FallBackToFull, NodeFilter, Feature, gridVars, cacheVars, loopVars, asgVars
<1>7. CASE ListPage
  <2>1. CacheType'
    BY <1>7, ListPageCache DEF ListPage, TypeOK, CacheType
  <2>2. PageType'
    BY <1>7, NextPageType DEF ListPage, TypeOK, PageType
  <2>3. GridType' /\ LoopType' /\ ResultType'
    BY <1>7 DEF TypeOK, GridType, LoopType, ResultType, ListPage, Running,
                gridVars, loopVars, asgVars
  <2> QED BY <2>1, <2>2, <2>3 DEF TypeOK
<1>10. CASE SearchPage
  BY <1>10, SearchType DEF SearchPage, TypeOK, PageType, pageVars
<1>8. CASE OtherTenant
  <2>1. GridType'
    BY <1>8, OtherTenantType
  <2>2. CacheType' /\ LoopType' /\ PageType' /\ ResultType'
    BY <1>8 DEF TypeOK, CacheType, LoopType, PageType, ResultType, OtherTenant,
                cacheVars, loopVars, pageVars, asgVars
  <2> QED BY <2>1, <2>2 DEF TypeOK
<1>9. CASE UNCHANGED vars
  BY <1>9 DEF TypeOK, GridType, CacheType, LoopType, PageType, ResultType, vars,
              gridVars, cacheVars, loopVars, pageVars, asgVars
<1> QED BY <1>1, <1>2, <1>3, <1>4, <1>5, <1>6, <1>7, <1>8, <1>9, <1>10 DEF Next, Step

\* Every variable keeps its type, whatever the grid, the requests and the page
\* size: in particular the cache's counters stay in the range of a uint64.
THEOREM TypeCorrect == Spec => []TypeOK
<1>1. Init => TypeOK
  BY TypeInit
<1>2. TypeOK /\ [Next]_vars => TypeOK'
  BY TypeNext
<1> QED BY <1>1, <1>2, PTL DEF Spec

LEMMA StepKeepsGrid == Step => UNCHANGED gridVars
BY DEF Step, TakeRequest, ReturnAssignment, FarmFound, FarmNotFound, BotAnswersPing,
       BotSilent, BotFindsNode, BotFails, SearchCache, ListFails, NoNodesFound,
       FallBackToFull, ListPage, SearchPage, Search

-----------------------------------------------------------------------------
(* Capacity is conserved: what a cached node has left and what was booked   *)
(* on it add up to what it had when it was listed.                          *)

Conserved ==
  /\ \A n \in DOMAIN nodes, k \in Checked :
       nodes[n].FreeCapacity[k] + booked[n][k] = freeCapacity(nodes[n].Node)[k]
  /\ \A n \in NodeId \ DOMAIN nodes, k \in Checked : booked[n][k] = 0

\* A step leaves the cache and the bookings alone, adds a page to the cache, or
\* puts the request on a cached node.
LEMMA CacheSteps ==
  ASSUME [Next]_vars
  PROVE  \/ UNCHANGED <<nodes, booked>>
         \/ ListPage
         \/ \E learned \in SUBSET FarmId, n \in DOMAIN nodes : Place(learned, n)
<1>1. CASE SearchCache \/ SearchPage
  <2>1. PICK learned \in SUBSET FarmId :
          (\E n \in DOMAIN nodes : Place(learned, n)) \/ GoOn(learned)
    BY <1>1 DEF SearchCache, SearchPage, Search
  <2>2. CASE GoOn(learned)
    BY <2>2 DEF GoOn
  <2> QED BY <2>1, <2>2
<1>2. CASE \/ TakeRequest \/ ReturnAssignment \/ FarmFound \/ FarmNotFound
           \/ BotAnswersPing \/ BotSilent \/ BotFindsNode \/ BotFails
           \/ ListFails \/ NoNodesFound \/ FallBackToFull \/ OtherTenant
           \/ UNCHANGED vars
  BY <1>2 DEF TakeRequest, ReturnAssignment, FarmFound, FarmNotFound, BotAnswersPing,
     BotSilent, BotFindsNode, BotFails, ListFails, NoNodesFound, FallBackToFull,
     OtherTenant, vars, cacheVars
<1> QED BY <1>1, <1>2 DEF Next, Step

LEMMA BookedAfterPlace ==
  ASSUME TypeOK, NEW learned, NEW n \in NodeId, Place(learned, n)
  PROVE  /\ \A m \in NodeId \ {n} : booked'[m] = booked[m]
         /\ \A k \in Checked : booked'[n][k] = booked[n][k] + req.Capacity[k]
BY CheckedResources DEF Place, TypeOK, ResultType

LEMMA ConservedNext == TypeOK /\ Conserved /\ [Next]_vars => Conserved'
<1> SUFFICES ASSUME TypeOK, Conserved, [Next]_vars PROVE Conserved'
  OBVIOUS
<1>1. CASE UNCHANGED <<nodes, booked>>
  BY <1>1 DEF Conserved
<1>2. CASE ListPage
  <2>1. /\ DOMAIN nodes \subseteq DOMAIN nodes' /\ DOMAIN nodes' \subseteq NodeId
        /\ nodes' \in [DOMAIN nodes' -> NodeInfo]
        /\ \A m \in DOMAIN nodes : nodes'[m] = nodes[m]
        /\ \A m \in DOMAIN nodes' \ DOMAIN nodes :
             nodes'[m].FreeCapacity = freeCapacity(nodes'[m].Node)
        /\ booked' = booked
    BY <1>2, ListPageCache DEF ListPage
  <2>2. ASSUME NEW m \in DOMAIN nodes', NEW k \in Checked
        PROVE  nodes'[m].FreeCapacity[k] + booked[m][k]
                 = freeCapacity(nodes'[m].Node)[k]
    <3>1. CASE m \in DOMAIN nodes
      BY <2>1, <3>1 DEF Conserved
    <3>2. CASE m \notin DOMAIN nodes
      <4>1. nodes'[m].FreeCapacity = freeCapacity(nodes'[m].Node) /\ booked[m][k] = 0
        BY <2>1, <3>2 DEF Conserved
      <4>2. freeCapacity(nodes'[m].Node) \in Capacity
        BY <2>1, freeCapacityType DEF NodeInfo
      <4>3. freeCapacity(nodes'[m].Node)[k] \in Nat
        BY <4>2, CapacityAt, CheckedResources
      <4> QED BY <4>1, <4>3
    <3> QED BY <3>1, <3>2
  <2>3. \A m \in NodeId \ DOMAIN nodes', k \in Checked : booked[m][k] = 0
    BY <2>1 DEF Conserved
  <2> QED BY <2>1, <2>2, <2>3 DEF Conserved
<1>3. ASSUME NEW learned \in SUBSET FarmId, NEW n \in DOMAIN nodes, Place(learned, n)
      PROVE  Conserved'
  <2>1. n \in NodeId
    BY DEF TypeOK, CacheType
  <2>2. /\ DOMAIN nodes' = DOMAIN nodes
        /\ \A m \in DOMAIN nodes \ {n} : nodes'[m] = nodes[m]
        /\ nodes'[n] \in NodeInfo
        /\ nodes'[n].Node = nodes[n].Node
        /\ \A k \in Checked :
             /\ req.Capacity[k] <= nodes[n].FreeCapacity[k]
             /\ nodes'[n].FreeCapacity[k]
                  = nodes[n].FreeCapacity[k] - req.Capacity[k]
        /\ \A k \in Resource \ Checked :
             nodes'[n].FreeCapacity[k] = nodes[n].FreeCapacity[k]
    BY <1>3, PlaceCache, Zenon
  <2>3. /\ \A m \in NodeId \ {n} : booked'[m] = booked[m]
        /\ \A k \in Checked : booked'[n][k] = booked[n][k] + req.Capacity[k]
    BY <1>3, <2>1, BookedAfterPlace
  <2>4. \A m \in NodeId \ DOMAIN nodes', k \in Checked : booked'[m][k] = 0
    BY <1>3, <2>2, <2>3 DEF Conserved
  <2>5. \A m \in DOMAIN nodes \ {n}, k \in Checked :
          nodes'[m].FreeCapacity[k] + booked'[m][k]
            = freeCapacity(nodes'[m].Node)[k]
    <3>1. \A m \in DOMAIN nodes \ {n} : m \in NodeId \ {n}
      BY DEF TypeOK, CacheType
    <3> QED BY <2>2, <2>3, <3>1 DEF Conserved
  <2>6. ASSUME NEW k \in Checked
        PROVE  nodes'[n].FreeCapacity[k] + booked'[n][k]
                 = freeCapacity(nodes'[n].Node)[k]
    <3>1. nodes[n].FreeCapacity[k] + booked[n][k] = freeCapacity(nodes[n].Node)[k]
      BY <1>3 DEF Conserved
    <3>2. /\ nodes[n].FreeCapacity[k] \in Int /\ req.Capacity[k] \in Int
          /\ booked[n][k] \in Int
      <4>1. nodes[n].FreeCapacity \in Capacity
        BY <1>3 DEF TypeOK, CacheType, NodeInfo
      <4>2. req.Capacity \in Capacity
        BY RequestCapacity DEF TypeOK, LoopType
      <4> QED BY <2>1, <4>1, <4>2, CapacityAt, CheckedResources
              DEF TypeOK, ResultType
    <3> QED BY <2>2, <2>3, <3>1, <3>2
  <2> QED BY <2>2, <2>4, <2>5, <2>6 DEF Conserved
<1> QED BY <1>1, <1>2, <1>3, CacheSteps

LEMMA ConservedSuffices == TypeOK /\ Conserved => NoOvercommit
<1> SUFFICES ASSUME TypeOK, Conserved, NEW n \in DOMAIN nodes, NEW k \in Checked
             PROVE  booked[n][k] <= freeCapacity(nodes[n].Node)[k]
  BY DEF NoOvercommit
<1>1. nodes[n].FreeCapacity[k] \in Nat
  <2>1. nodes[n].FreeCapacity \in Capacity
    BY DEF TypeOK, CacheType, NodeInfo
  <2> QED BY <2>1, CapacityAt, CheckedResources
<1>2. booked[n][k] \in Nat
  BY CheckedResources DEF TypeOK, CacheType, ResultType
<1>3. nodes[n].FreeCapacity[k] + booked[n][k] = freeCapacity(nodes[n].Node)[k]
  BY DEF Conserved
<1> QED BY <1>1, <1>2, <1>3

\* However many requests a run puts on a node, they never take more of a
\* resource than the node had when it was listed.
THEOREM CapacityKept == Spec => []NoOvercommit
<1>1. Init => TypeOK /\ Conserved
  <2>1. Init => Conserved
    BY CheckedResources DEF Init, Conserved, EmptyBooking
  <2> QED BY <2>1, TypeInit
<1>2. TypeOK /\ Conserved /\ [Next]_vars => TypeOK' /\ Conserved'
  BY TypeNext, ConservedNext
<1>3. TypeOK /\ Conserved => NoOvercommit
  BY ConservedSuffices
<1> QED BY <1>1, <1>2, <1>3, PTL DEF Spec

-----------------------------------------------------------------------------
(* What a step does to a cached node.                                      *)

LEMMA CacheShrinksNext ==
  ASSUME TypeOK, [Next]_vars, NEW n \in DOMAIN nodes
  PROVE  /\ n \in DOMAIN nodes' /\ nodes'[n].Node = nodes[n].Node
         /\ \A k \in Resource :
              nodes'[n].FreeCapacity[k] <= nodes[n].FreeCapacity[k]
<1>1. \A k \in Resource : nodes[n].FreeCapacity[k] \in Nat
  <2>1. nodes[n].FreeCapacity \in Capacity
    BY DEF TypeOK, CacheType, NodeInfo
  <2> QED BY <2>1, CapacityAt
<1>2. \A k \in Checked : req.Capacity[k] \in Nat
  BY RequestCapacity, CapacityAt, CheckedResources DEF TypeOK, LoopType
<1>3. CASE UNCHANGED <<nodes, booked>>
  BY <1>1, <1>3
<1>4. CASE ListPage
  <2>1. n \in DOMAIN nodes' /\ nodes'[n] = nodes[n]
    BY <1>4, ListPageCache
  <2> QED BY <1>1, <2>1
<1>5. ASSUME NEW learned \in SUBSET FarmId, NEW m \in DOMAIN nodes, Place(learned, m)
      PROVE  /\ n \in DOMAIN nodes' /\ nodes'[n].Node = nodes[n].Node
             /\ \A k \in Resource :
                  nodes'[n].FreeCapacity[k] <= nodes[n].FreeCapacity[k]
  <2>1. /\ DOMAIN nodes' = DOMAIN nodes
        /\ \A x \in DOMAIN nodes \ {m} : nodes'[x] = nodes[x]
        /\ nodes'[m] \in NodeInfo
        /\ nodes'[m].Node = nodes[m].Node
        /\ \A k \in Checked :
             /\ req.Capacity[k] <= nodes[m].FreeCapacity[k]
             /\ nodes'[m].FreeCapacity[k]
                  = nodes[m].FreeCapacity[k] - req.Capacity[k]
        /\ \A k \in Resource \ Checked :
             nodes'[m].FreeCapacity[k] = nodes[m].FreeCapacity[k]
    BY <1>5, PlaceCache, Zenon
  <2>2. CASE n # m
    BY <1>1, <2>1, <2>2
  <2>3. CASE n = m
    <3>1. \A k \in Checked :
            nodes'[n].FreeCapacity[k] <= nodes[n].FreeCapacity[k]
      BY <1>1, <1>2, <2>1, <2>3, CheckedResources
    <3>2. \A k \in Resource \ Checked :
            nodes'[n].FreeCapacity[k] <= nodes[n].FreeCapacity[k]
      BY <1>1, <2>1, <2>3
    <3> QED BY <2>1, <2>3, <3>1, <3>2
  <2> QED BY <2>2, <2>3
<1> QED BY <1>1, <1>3, <1>4, <1>5, CacheSteps

\* No step of a run takes a node out of the cache, lists it anew, or gives it
\* back capacity.
THEOREM CacheShrinks == Spec => CacheOnlyShrinks
<1>1. TypeOK /\ [Next]_vars =>
        [\A n \in DOMAIN nodes :
           /\ n \in DOMAIN nodes' /\ nodes'[n].Node = nodes[n].Node
           /\ \A k \in Resource :
                nodes'[n].FreeCapacity[k] <= nodes[n].FreeCapacity[k]]_vars
  BY CacheShrinksNext
<1> QED BY <1>1, TypeCorrect, PTL DEF Spec, CacheOnlyShrinks

-----------------------------------------------------------------------------
(* The node of a distinct request.                                         *)

\* Where the run is while a node is looked for.
Asking == {"farm", "ping", "ask", "search", "list", "look"}

\* While a distinct request is being placed, every node that is assigned is
\* among those it excludes, and no assignment or placement is forgotten.
Excluded ==
  /\ \A x \in DOMAIN assignment : assignment[x] \in assignedNodes
  /\ \A j \in DOMAIN placed : placed[j].node \in assignedNodes
  /\ pc \in Asking /\ req.Distinct =>
       assignedNodes \subseteq req.NodeExclude

\* A node is assigned by the bot or by the proxy's search, and either way it
\* is none of those the request excludes.
LEMMA AssignSteps ==
  ASSUME TypeOK, [Next]_vars
  PROVE  \/ UNCHANGED asgVars
         \/ /\ pc \in Asking /\ UNCHANGED <<reqs, req>>
            /\ \E n \in NodeId \ req.NodeExclude :
                 \/ /\ n \in BotOffers(req.FarmID, buildNodeOptions(req))
                    /\ Assign(n, "bot") /\ pc = "ask" /\ UNCHANGED nodes
                 \/ /\ n \in DOMAIN nodes /\ Assign(n, "proxy")
                    /\ pc \in {"search", "look"}
                    /\ \E learned \in SUBSET FarmId : Place(learned, n)
<1>1. CASE BotFindsNode
  <2>1. PICK n \in BotOffers(req.FarmID, buildNodeOptions(req)) : Assign(n, "bot")
    BY <1>1 DEF BotFindsNode
  <2>2. n \in NodeId \ req.NodeExclude
    BY <2>1 DEF BotOffers, buildNodeOptions
  <2> QED BY <1>1, <2>1, <2>2 DEF BotFindsNode, Asking, cacheVars
<1>2. CASE SearchCache \/ SearchPage
  <2>1. PICK learned \in SUBSET FarmId :
          (\E n \in DOMAIN nodes : Place(learned, n)) \/ GoOn(learned)
    BY <1>2 DEF SearchCache, SearchPage, Search
  <2>2. CASE GoOn(learned)
    BY <2>2 DEF GoOn
  <2>3. ASSUME NEW n \in DOMAIN nodes, Place(learned, n)
        PROVE  n \in NodeId \ req.NodeExclude /\ Assign(n, "proxy")
    <3>1. n \in NodeId
      BY DEF TypeOK, CacheType
    <3>2. \E farm : fulfils(n, nodes[n], req, farm)
      BY <2>3, FoundNode DEF Place
    <3> QED BY <2>3, <3>1, <3>2 DEF fulfils, Place
  <2>4. pc \in {"search", "look"} /\ UNCHANGED <<reqs, req>>
    BY <1>2 DEF SearchCache, SearchPage, Search
  <2> QED BY <2>1, <2>2, <2>3, <2>4 DEF Asking
<1>3. CASE \/ TakeRequest \/ ReturnAssignment \/ FarmFound \/ FarmNotFound
           \/ BotAnswersPing \/ BotSilent \/ BotFails \/ ListFails
           \/ NoNodesFound \/ FallBackToFull \/ ListPage
           \/ OtherTenant \/ UNCHANGED vars
  BY <1>3 DEF TakeRequest, ReturnAssignment, FarmFound, FarmNotFound, BotAnswersPing,
       BotSilent, BotFails, ListFails, NoNodesFound, FallBackToFull, ListPage,
       OtherTenant, vars
<1> QED BY <1>1, <1>2, <1>3 DEF Next, Step

\* What Assign appends.
LEMMA AssignPlaced ==
  ASSUME TypeOK, NEW n, NEW via, Assign(n, via)
  PROVE  /\ DOMAIN placed' = DOMAIN placed \cup {Len(placed) + 1}
         /\ Len(placed) + 1 \notin DOMAIN placed
         /\ Len(placed) \in Nat /\ DOMAIN placed = 1 .. Len(placed)
         /\ \A j \in DOMAIN placed : placed'[j] = placed[j]
         /\ placed'[Len(placed) + 1] = [req |-> req, node |-> n, via |-> via]
BY DEF TypeOK, ResultType, Assign

LEMMA NothingPlaced ==
  ASSUME TypeOK, UNCHANGED asgVars, NEW n, NEW via, Assign(n, via)
  PROVE  FALSE
<1>1. placed' = placed /\ Len(placed) + 1 \in DOMAIN placed'
  BY AssignPlaced DEF asgVars
<1> QED BY <1>1, AssignPlaced

LEMMA AssignAssignment ==
  ASSUME NEW n, NEW via, Assign(n, via)
  PROVE  /\ DOMAIN assignment' = DOMAIN assignment \cup {req.Name}
         /\ assignment'[req.Name] = n
         /\ \A x \in DOMAIN assignment \ {req.Name} :
              assignment'[x] = assignment[x]
         /\ assignedNodes' = assignedNodes \cup {n}
         /\ pc' = "next"
BY DEF Assign

LEMMA ExcludedNext == TypeOK /\ Excluded /\ [Next]_vars => Excluded'
<1> SUFFICES ASSUME TypeOK, Excluded, [Next]_vars PROVE Excluded'
  OBVIOUS
<1>1. CASE TakeRequest
  <2>1. reqs[i] \in Request
    BY <1>1 DEF TypeOK, LoopType, TakeRequest
  <2>2. req'.Distinct => assignedNodes \subseteq req'.NodeExclude
    BY <1>1, <2>1 DEF TakeRequest, Request
  <2> QED BY <1>1, <2>2 DEF Excluded, TakeRequest, asgVars
<1>2. CASE UNCHANGED asgVars /\ ~TakeRequest
  <2>1. pc' \in Asking => pc \in Asking /\ UNCHANGED req
    BY <1>2 DEF Next, Step, Search, ReturnAssignment, FarmFound, FarmNotFound,
         BotAnswersPing, BotSilent, BotFindsNode, BotFails, SearchCache, ListFails,
         NoNodesFound, FallBackToFull, ListPage, SearchPage, Place, GoOn, Assign,
         OtherTenant, vars, loopVars, Asking
  <2> QED BY <1>2, <2>1 DEF Excluded, asgVars
<1>3. ASSUME NEW n \in NodeId, NEW via \in {"proxy", "bot"}, Assign(n, via)
      PROVE  Excluded'
  <2>1. \A x \in DOMAIN assignment' : assignment'[x] \in assignedNodes'
    BY <1>3, AssignAssignment DEF Excluded
  <2>2. \A j \in DOMAIN placed' : placed'[j].node \in assignedNodes'
    <3>1. /\ DOMAIN placed' = DOMAIN placed \cup {Len(placed) + 1}
          /\ \A j \in DOMAIN placed : placed'[j] = placed[j]
          /\ placed'[Len(placed) + 1] = [req |-> req, node |-> n, via |-> via]
      BY <1>3, AssignPlaced
    <3>2. placed'[Len(placed) + 1].node = n
      BY <3>1
    <3>3. assignedNodes' = assignedNodes \cup {n}
      BY <1>3 DEF Assign
    <3> QED BY <3>1, <3>2, <3>3 DEF Excluded
  <2>3. pc' \notin Asking
    BY <1>3 DEF Assign, Asking
  <2> QED BY <2>1, <2>2, <2>3 DEF Excluded
<1> QED BY <1>1, <1>2, <1>3, AssignSteps

LEMMA DistinctNext ==
  TypeOK /\ Excluded /\ DistinctFromEarlier /\ [Next]_vars => DistinctFromEarlier'
<1> SUFFICES ASSUME TypeOK, Excluded, DistinctFromEarlier, [Next]_vars
             PROVE  DistinctFromEarlier'
  OBVIOUS
<1>1. CASE UNCHANGED asgVars
  BY <1>1 DEF DistinctFromEarlier, asgVars
<1>2. ASSUME pc \in Asking,
             NEW n \in NodeId \ req.NodeExclude, NEW via \in {"proxy", "bot"},
             Assign(n, via)
      PROVE  DistinctFromEarlier'
  <2> DEFINE last == Len(placed) + 1
  <2>1. /\ DOMAIN placed' = DOMAIN placed \cup {last} /\ last \notin DOMAIN placed
        /\ Len(placed) \in Nat /\ DOMAIN placed = 1 .. Len(placed)
        /\ \A j \in DOMAIN placed : placed'[j] = placed[j]
        /\ placed'[last] = [req |-> req, node |-> n, via |-> via]
    BY <1>2, AssignPlaced
  <2>2. req.Distinct => n \notin assignedNodes
    BY <1>2 DEF Excluded
  <2> SUFFICES ASSUME NEW j \in DOMAIN placed', placed'[j].req.Distinct
               PROVE  /\ \A h \in 1 .. j - 1 : placed'[h].node # placed'[j].node
                      /\ \A x \in DOMAIN assignment' :
                           (\A h \in DOMAIN placed' : placed'[h].req.Name # x)
                             => assignment'[x] # placed'[j].node
    BY DEF DistinctFromEarlier
  <2>3. \A x \in DOMAIN assignment' :
          (\A h \in DOMAIN placed' : placed'[h].req.Name # x) =>
            /\ x \in DOMAIN assignment /\ assignment'[x] = assignment[x]
            /\ \A h \in DOMAIN placed : placed[h].req.Name # x
    BY <1>2, <2>1, AssignAssignment
  <2>4. CASE j = last
    <3>1. \A h \in 1 .. j - 1 : h \in DOMAIN placed /\ placed'[h] = placed[h]
      BY <2>1, <2>4
    <3>2. placed'[j].node = n /\ n \notin assignedNodes
      BY <2>1, <2>2, <2>4
    <3> QED BY <2>3, <3>1, <3>2 DEF Excluded
  <2>5. CASE j \in DOMAIN placed
    <3>1. \A h \in 1 .. j - 1 : h \in DOMAIN placed /\ placed'[h] = placed[h]
      BY <2>1, <2>5
    <3>2. placed'[j] = placed[j]
      BY <2>1, <2>5
    <3> QED BY <2>3, <2>5, <3>1, <3>2 DEF DistinctFromEarlier
  <2> QED BY <2>1, <2>4, <2>5
<1> QED BY <1>1, <1>2, AssignSteps

\* The node of a distinct request is held by no request placed before it, and
\* by none of the assignments the run was given.
THEOREM DistinctKept == Spec => []DistinctFromEarlier
<1>1. Init => TypeOK /\ Excluded /\ DistinctFromEarlier
  <2>1. Init => Excluded
    BY DEF Init, Excluded, AssignedNodes, Asking
  <2>2. Init => DistinctFromEarlier
    BY DEF Init, DistinctFromEarlier
  <2> QED BY <2>1, <2>2, TypeInit
<1>2. TypeOK /\ Excluded /\ DistinctFromEarlier /\ [Next]_vars =>
        TypeOK' /\ Excluded' /\ DistinctFromEarlier'
  BY TypeNext, ExcludedNext, DistinctNext
<1> QED BY <1>1, <1>2, PTL DEF Spec

-----------------------------------------------------------------------------
(* Where the nodes of the cache come from.                                 *)

LeftOver(node) ==
  \E h \in DOMAIN placed :
    placed[h].via = "proxy" /\ ListedLightFor(placed[h].req, node)

\* A cached node was up when it was listed.  It has the full features, or it was
\* listed for a request that needs none, one placed before or the one at hand.
Origin ==
  \A n \in DOMAIN nodes :
    LET node == nodes[n].Node IN
      /\ node.Up
      /\ \/ Full \in node.Features
         \/ LeftOver(node)
         \/ /\ pc \in {"list", "look", "noNodes", "failed"}
            /\ ListedLightFor(req, node)

\* The filter is that of the request at hand, or asks for full nodes.
Filtered == pc \in {"list", "look"} => f.Features = Full \/ f = constructFilter(req)

PlacedCached ==
  \A j \in DOMAIN placed : placed[j].via = "proxy" => placed[j].node \in DOMAIN nodes

\* A node matches what the filter of a request asks for, or it is a full one.
LEMMA MatchesLight ==
  ASSUME NEW r \in Request, NEW n \in NodeId, Matches(constructFilter(r), n)
  PROVE  Full \in proxyNodes[n].Features \/ ListedLightFor(r, proxyNodes[n])
<1>1. CASE r.Yggdrasil \/ r.Wireguard \/ r.PublicConfig \/ r.PublicIpsCount # 0
  BY <1>1 DEF Matches, constructFilter
<1>2. CASE ~(r.Yggdrasil \/ r.Wireguard \/ r.PublicConfig \/ r.PublicIpsCount # 0)
  <2>1. constructFilter(r).Features = Light /\ constructFilter(r).Free = r.Capacity
        /\ constructFilter(r).FarmID = r.FarmID /\ constructFilter(r).Rentable = r.Dedicated
    BY <1>2 DEF constructFilter
  <2> QED BY <1>2, <2>1 DEF Matches, ListedLightFor
<1> QED BY <1>1, <1>2

\* A step that places nothing takes no request away from a run that lists nodes.
LEMMA StillListing ==
  ASSUME TypeOK, Filtered, [Next]_vars, UNCHANGED asgVars
  PROVE  /\ pc \in {"list", "look", "noNodes", "failed"} =>
              /\ pc' \in {"list", "look", "noNodes", "failed"} /\ req' = req
         /\ Filtered'
<1>1. CASE TakeRequest \/ ReturnAssignment \/ FarmFound \/ FarmNotFound
           \/ BotAnswersPing \/ BotSilent \/ BotFails
  BY <1>1 DEF TakeRequest, ReturnAssignment, FarmFound, FarmNotFound,
     BotAnswersPing, BotSilent, BotFails, Filtered
<1>2. CASE BotFindsNode
  BY <1>2, NothingPlaced DEF BotFindsNode
<1>3. CASE ListFails \/ NoNodesFound \/ FallBackToFull \/ ListPage
  BY <1>3 DEF ListFails, NoNodesFound, FallBackToFull, ListPage, Filtered,
     loopVars, pageVars, TypeOK, PageType, NodeFilter
<1>4. CASE SearchCache \/ SearchPage
  <2>1. pc' = "list" /\ req' = req
    <3>1. PICK learned \in SUBSET FarmId :
            (\E n \in DOMAIN nodes : Place(learned, n)) \/ GoOn(learned)
      BY <1>4 DEF SearchCache, SearchPage, Search
    <3>2. CASE GoOn(learned)
      BY <1>4, <3>2 DEF GoOn, SearchCache, SearchPage, Search
    <3> QED BY <3>1, <3>2, NothingPlaced DEF Place
  <2>2. CASE SearchCache
    BY <2>1, <2>2 DEF SearchCache, Filtered
  <2>3. CASE SearchPage
    BY <2>1, <2>3 DEF SearchPage, Filtered, pageVars
  <2> QED BY <1>4, <2>1, <2>2, <2>3
<1>5. CASE OtherTenant \/ UNCHANGED vars
  BY <1>5 DEF OtherTenant, vars, loopVars, pageVars, Filtered
<1> QED BY <1>1, <1>2, <1>3, <1>4, <1>5 DEF Next, Step

LEMMA OriginNext ==
  ASSUME TypeOK, Origin, Filtered, PlacedCached, FeaturesOrLeftOver, [Next]_vars
  PROVE  Origin' /\ Filtered' /\ PlacedCached' /\ FeaturesOrLeftOver'
<1>1. \A n \in DOMAIN nodes : n \in DOMAIN nodes' /\ nodes'[n].Node = nodes[n].Node
  BY CacheShrinksNext
<1>2. CASE UNCHANGED asgVars
  <2>1. placed' = placed
    BY <1>2 DEF asgVars
  <2>2. PlacedCached' /\ FeaturesOrLeftOver'
    BY <1>1, <2>1 DEF PlacedCached, FeaturesOrLeftOver
  <2>3. /\ pc \in {"list", "look", "noNodes", "failed"} =>
             /\ pc' \in {"list", "look", "noNodes", "failed"} /\ req' = req
        /\ Filtered'
    BY <1>2, StillListing
  <2>4. ASSUME NEW n \in DOMAIN nodes'
        PROVE  LET node == nodes'[n].Node IN
                 /\ node.Up
                 /\ \/ Full \in node.Features
                    \/ LeftOver(node)
                    \/ /\ pc' \in {"list", "look", "noNodes", "failed"}
                       /\ ListedLightFor(req', node)
    <3>1. CASE n \in DOMAIN nodes
      BY <1>1, <2>3, <3>1 DEF Origin
    <3>2. CASE n \notin DOMAIN nodes
      <4>1. ListPage
        BY <2>4, <3>2, CacheSteps, PlaceCache
      <4>2. n \in Page(f, l) /\ nodes'[n].Node = proxyNodes[n]
        BY <2>4, <3>2, <4>1, ListPageCache
      <4>3. n \in NodeId /\ Matches(f, n)
        BY <4>2, PageMatches
      <4>4. Full \in proxyNodes[n].Features \/ ListedLightFor(req, proxyNodes[n])
        <5>1. CASE f.Features = Full
          BY <4>3, <5>1 DEF Matches
        <5>2. CASE f = constructFilter(req)
          BY <4>3, <5>2, MatchesLight DEF TypeOK, LoopType
        <5> QED BY <4>1, <5>1, <5>2 DEF ListPage, Filtered
      <4>5. proxyNodes[n].Up /\ pc' = "look" /\ req' = req
        BY <4>1, <4>3 DEF Matches, ListPage, loopVars
      <4> QED BY <4>2, <4>4, <4>5
    <3> QED BY <3>1, <3>2
  <2>5. Origin'
    BY <2>1, <2>4 DEF Origin, LeftOver
  <2> QED BY <2>2, <2>3, <2>5
<1>3. ASSUME NEW n, NEW via, Assign(n, via), DOMAIN nodes' = DOMAIN nodes,
             via = "proxy" \/ pc = "ask", pc \in Asking,
             via = "proxy" => n \in DOMAIN nodes /\ pc \in {"search", "look"}
      PROVE  Origin' /\ Filtered' /\ PlacedCached' /\ FeaturesOrLeftOver'
  <2> DEFINE last == Len(placed) + 1
  <2>1. /\ DOMAIN placed' = DOMAIN placed \cup {last} /\ last \notin DOMAIN placed
        /\ Len(placed) \in Nat /\ DOMAIN placed = 1 .. Len(placed)
        /\ \A j \in DOMAIN placed : placed'[j] = placed[j]
        /\ placed'[last] = [req |-> req, node |-> n, via |-> via]
    BY <1>3, AssignPlaced
  <2>2. /\ placed'[last].req = req /\ placed'[last].node = n
        /\ placed'[last].via = via
    BY <2>1
  <2>3. pc' = "next"
    BY <1>3 DEF Assign
  <2>4. PlacedCached'
    BY <1>1, <1>3, <2>1, <2>2 DEF PlacedCached
  <2>5. ASSUME NEW m \in DOMAIN nodes
        PROVE  /\ nodes[m].Node.Up
               /\ Full \in nodes[m].Node.Features \/ LeftOver(nodes[m].Node)'
    <3>1. LeftOver(nodes[m].Node) => LeftOver(nodes[m].Node)'
      BY <1>1, <2>1 DEF LeftOver
    <3>2. CASE pc = "look" /\ ListedLightFor(req, nodes[m].Node)
      <4>1. last \in DOMAIN placed' /\ placed'[last].via = "proxy"
        BY <1>3, <2>1, <2>2, <3>2
      <4>2. ListedLightFor(placed'[last].req, nodes'[m].Node)
        BY <1>1, <2>2, <3>2
      <4>3. nodes[m].Node.Up
        BY DEF Origin
      <4> QED BY <4>1, <4>2, <4>3 DEF LeftOver
    <3> QED BY <1>3, <3>1, <3>2 DEF Origin, Asking
  <2>6. Origin'
    BY <1>1, <1>3, <2>3, <2>5 DEF Origin
  <2>7. FeaturesOrLeftOver'
    <3> SUFFICES ASSUME NEW j \in DOMAIN placed', placed'[j].via = "proxy"
                 PROVE  LET r == placed'[j].req
                            node == nodes'[placed'[j].node].Node
                        IN /\ node.Up
                           /\ r.Yggdrasil \/ r.Wireguard \/ r.PublicConfig
                                \/ r.PublicIpsCount # 0 =>
                                \/ Full \in node.Features
                                \/ \E h \in 1 .. j - 1 :
                                     /\ placed'[h].via = "proxy"
                                     /\ ListedLightFor(placed'[h].req, node)
      BY DEF FeaturesOrLeftOver
    <3>1. \A h \in 1 .. j - 1 : h \in DOMAIN placed /\ placed'[h] = placed[h]
      BY <2>1
    <3>2. CASE j \in DOMAIN placed
      <4>1. placed'[j] = placed[j] /\ placed[j].node \in DOMAIN nodes
        BY <2>1, <3>2 DEF PlacedCached
      <4> QED BY <1>1, <3>1, <3>2, <4>1 DEF FeaturesOrLeftOver
    <3>3. CASE j = last
      <4>1. n \in DOMAIN nodes /\ nodes'[n].Node = nodes[n].Node
        BY <1>1, <1>3, <2>2, <3>3
      <4>2. DOMAIN placed = 1 .. j - 1
        BY <2>1, <3>3
      <4>3. /\ nodes[n].Node.Up
            /\ \/ Full \in nodes[n].Node.Features
               \/ LeftOver(nodes[n].Node)
               \/ ListedLightFor(req, nodes[n].Node)
        BY <4>1 DEF Origin
      <4>4. ListedLightFor(req, nodes[n].Node) =>
              ~(req.Yggdrasil \/ req.Wireguard \/ req.PublicConfig
                 \/ req.PublicIpsCount # 0)
        BY DEF ListedLightFor
      <4> QED BY <2>2, <3>1, <3>3, <4>1, <4>2, <4>3, <4>4 DEF LeftOver
    <3> QED BY <2>1, <3>2, <3>3
  <2> QED BY <2>3, <2>4, <2>6, <2>7 DEF Filtered
<1> QED
  <2>1. ASSUME NEW learned, NEW n \in DOMAIN nodes, Place(learned, n)
        PROVE  DOMAIN nodes' = DOMAIN nodes
    BY <2>1, PlaceCache
  <2> QED BY <1>2, <1>3, <2>1, AssignSteps

\* Of a request through the proxy, what only the proxy's filter looks at holds of
\* its node when it was listed for it, and may fail only on one left over from the
\* listing of an earlier request.
THEOREM FeaturesKept == Spec => []FeaturesOrLeftOver
<1>1. Init => Origin /\ Filtered /\ PlacedCached /\ FeaturesOrLeftOver
  BY DEF Init, Origin, Filtered, PlacedCached, FeaturesOrLeftOver
<1>2. TypeOK /\ Origin /\ Filtered /\ PlacedCached /\ FeaturesOrLeftOver /\ [Next]_vars
        => Origin' /\ Filtered' /\ PlacedCached' /\ FeaturesOrLeftOver'
  BY OriginNext
<1> QED BY <1>1, <1>2, TypeCorrect, PTL DEF Spec

-----------------------------------------------------------------------------
(* What the farmerbot's node has of its request.                           *)

\* Rounding down to gigabytes loses less than one of them.
LEMMA RoundedDown ==
  ASSUME NEW x \in Nat
  PROVE  x \div GB \in Int /\ x < (x \div GB) * GB + GB
BY ConstantsAssumption

NearlyFits(r, n) ==
  LET node == proxyNodes[n]
      free(k) == node.Total[k] - node.Used[k]
  IN /\ free("CRU") >= r.Capacity["CRU"]
     /\ \A k \in Checked : r.Capacity[k] < free(k) + GB
     /\ r.PublicIpsCount <= getPublicIPsCount(proxyFarms[node.FarmID].PublicIps)
     /\ node.FarmID = r.FarmID /\ n \notin r.NodeExclude
     /\ r.PublicConfig => node.Domain
     /\ r.Dedicated => node.Dedicated
     /\ r.Certified => node.Certified

LEMMA OfferNearlyFits ==
  ASSUME TypeOK, NEW n \in BotOffers(req.FarmID, buildNodeOptions(req)),
         req \in Request
  PROVE  NearlyFits(req, n)
<1> DEFINE node == proxyNodes[n]
           free(k) == node.Total[k] - node.Used[k]
           size == buildNodeOptions(req).Size
<1>1. /\ node.FarmID = req.FarmID /\ n \notin req.NodeExclude
      /\ req.PublicIpsCount <= getPublicIPsCount(proxyFarms[node.FarmID].PublicIps)
      /\ req.PublicConfig => node.Domain
      /\ req.Dedicated => node.Dedicated
      /\ req.Certified => node.Certified
      /\ n \in NodeId
      /\ \A k \in Resource : free(k) >= size[k] * (IF k = "CRU" THEN 1 ELSE GB)
  BY DEF BotOffers, buildNodeOptions
<1>2. /\ size = [k \in Resource |-> IF k = "CRU" THEN req.Capacity[k]
                                    ELSE req.Capacity[k] \div GB]
      /\ "CRU" \in Resource
  BY DEF buildNodeOptions, Resource
<1>3. \A k \in Resource : req.Capacity[k] \in Nat
  BY RequestCapacity, CapacityAt, ConstantsAssumption
<1>4. free("CRU") >= req.Capacity["CRU"]
  <2>1. size["CRU"] = req.Capacity["CRU"]
    BY <1>2
  <2>2. free("CRU") >= size["CRU"] * 1
    BY <1>1, <1>2
  <2> QED BY <1>2, <1>3, <2>1, <2>2
<1>5. ASSUME NEW k \in Checked PROVE req.Capacity[k] < free(k) + GB
  <2>1. k \in Resource /\ k # "CRU"
    BY CheckedResources DEF Checked
  <2>2. free(k) >= (req.Capacity[k] \div GB) * GB
    BY <1>1, <1>2, <2>1
  <2>3. node \in GridNode
    BY <1>1 DEF TypeOK, GridType
  <2>4. free(k) \in Int
    <3>1. node.Total \in Capacity /\ node.Used \in Capacity
      BY <2>3 DEF GridNode
    <3>2. node.Total[k] \in Int /\ node.Used[k] \in Int
      BY <2>1, <3>1, CapacityAt, ConstantsAssumption
    <3> QED BY <3>2
  <2>5. /\ req.Capacity[k] \in Nat /\ req.Capacity[k] \div GB \in Int
        /\ req.Capacity[k] < (req.Capacity[k] \div GB) * GB + GB
    BY <1>3, <2>1, RoundedDown
  <2> HIDE DEF free
  <2> QED BY <2>2, <2>4, <2>5, ConstantsAssumption
<1> QED BY <1>1, <1>4, <1>5 DEF NearlyFits

LEMMA NearlyFitsNext ==
  TypeOK /\ BotNodeNearlyFits /\ [Next]_vars => BotNodeNearlyFits'
<1> SUFFICES ASSUME TypeOK, BotNodeNearlyFits, [Next]_vars, drift' = 0
             PROVE  BotNodeNearlyFits'
  BY DEF BotNodeNearlyFits
<1>1. UNCHANGED gridVars
  <2>1. CASE OtherTenant
    BY <2>1 DEF OtherTenant, TypeOK, GridType
  <2>2. CASE Step \/ UNCHANGED vars
    BY <2>2, StepKeepsGrid DEF vars
  <2> QED BY <2>1, <2>2 DEF Next
<1>2. \A j \in DOMAIN placed : placed[j].via = "bot" =>
        NearlyFits(placed[j].req, placed[j].node)
  <2>1. drift = 0
    BY <1>1 DEF gridVars
  <2> QED BY <2>1 DEF BotNodeNearlyFits, NearlyFits
<1>3. CASE UNCHANGED placed
  BY <1>1, <1>2, <1>3 DEF BotNodeNearlyFits, NearlyFits, gridVars, getPublicIPsCount
<1>4. ASSUME NEW n, NEW via, Assign(n, via), via = "bot" => NearlyFits(req, n)
      PROVE  BotNodeNearlyFits'
  <2> DEFINE last == Len(placed) + 1
  <2>1. /\ DOMAIN placed' = DOMAIN placed \cup {last}
        /\ \A j \in DOMAIN placed : placed'[j] = placed[j]
        /\ placed'[last] = [req |-> req, node |-> n, via |-> via]
    BY <1>4, AssignPlaced
  <2>2. /\ placed'[last].req = req /\ placed'[last].node = n
        /\ placed'[last].via = via
    BY <2>1
  <2>3. ASSUME NEW j \in DOMAIN placed', placed'[j].via = "bot"
        PROVE  NearlyFits(placed[j].req, placed[j].node)'
    <3>1. CASE j \in DOMAIN placed
      BY <1>1, <1>2, <2>1, <2>3, <3>1 DEF NearlyFits, gridVars, getPublicIPsCount
    <3>2. CASE j = last
      BY <1>1, <1>4, <2>2, <2>3, <3>2 DEF NearlyFits, gridVars, getPublicIPsCount
    <3> QED BY <2>1, <3>1, <3>2
  <2> QED BY <2>3 DEF BotNodeNearlyFits, NearlyFits
<1>5. CASE UNCHANGED asgVars
  BY <1>3, <1>5 DEF asgVars
<1>6. ASSUME NEW n \in BotOffers(req.FarmID, buildNodeOptions(req)), Assign(n, "bot")
      PROVE  BotNodeNearlyFits'
  BY <1>4, <1>6, OfferNearlyFits DEF TypeOK, LoopType
<1>7. ASSUME NEW n, Assign(n, "proxy")
      PROVE  BotNodeNearlyFits'
  BY <1>4, <1>7
<1> QED BY <1>5, <1>6, <1>7, AssignSteps

\* On a grid that stands still, the farmerbot's node falls short of a request's
\* memory and disks by less than the gigabyte that rounding the options leaves out,
\* and has the rest of what the options tell of.
THEOREM BotNearlyFits == Spec => []BotNodeNearlyFits
<1>1. Init => BotNodeNearlyFits
  BY DEF Init, BotNodeNearlyFits
<1> QED BY <1>1, TypeCorrect, NearlyFitsNext, PTL DEF Spec

-----------------------------------------------------------------------------
(* How far the pages have got.                                             *)

ListedBefore(flt, lim) ==
  \A x \in 1 .. Len(Listing(flt)) :
    x <= (lim.Page - 1) * lim.Size => Listing(flt)[x] \in DOMAIN nodes

FarmOf(n) ==
  [freeIPs |-> getPublicIPsCount(proxyFarms[nodes[n].Node.FarmID].PublicIps)]

OwnMatchesCached ==
  \A n \in NodeId : Matches(constructFilter(req), n) => n \in DOMAIN nodes

\* The farms cached are as the proxy shows them.
FarmsFresh ==
  \A x \in DOMAIN farms :
    farms[x] = [freeIPs |-> getPublicIPsCount(proxyFarms[x].PublicIps)]

\* Before a page is asked for, the pages before were cached whole; once the filter
\* fell back to full nodes, all the light ones were.
PagesCover ==
  pc \in {"list", "look"} =>
    /\ l = FirstPage \/ l.Page = 2
    /\ \/ f = constructFilter(req) /\ ListedBefore(f, l)
       \/ f.Features = Full /\ OwnMatchesCached

\* No cached node will do, unless its farm is not known.
NoneFits ==
  pc \in {"list", "noNodes"} /\ ~missed =>
    \A n \in DOMAIN nodes : ~fulfils(n, nodes[n], req, FarmOf(n))

Searched ==
  drift = 0 => /\ FarmsFresh /\ PagesCover /\ NoneFits
               /\ pc = "noNodes" => OwnMatchesCached

\* An empty page comes after the last node of the listing.
LEMMA EmptyPageIsLast ==
  ASSUME NEW flt, NEW lim \in [Page : {1, 2}, Size : Nat \ {0}],
         Page(flt, lim) = {}, ListedBefore(flt, lim),
         NEW n \in NodeId, Matches(flt, n)
  PROVE  n \in DOMAIN nodes
<1> DEFINE S == {m \in NodeId : Matches(flt, m)}
           s == ProxyOrder(S)
<1>1. s \in Seq(S) /\ n \in S
  BY ProxyOrderAssumption
<1>2. PICK j \in 1 .. Len(s) : s[j] = n
  BY <1>1, ProxyOrderAssumption
<1>3. Listing(flt) = s
  BY DEF Listing
<1> HIDE DEF s, S
<1> DEFINE lo == (lim.Page - 1) * lim.Size
           hi == lim.Page * lim.Size
<1>4. lo \in Nat /\ hi \in Nat /\ hi > lo
  <2>1. lim.Page \in {1, 2} /\ lim.Size \in Nat \ {0}
    OBVIOUS
  <2>2. CASE lim.Page = 1
    <3>1. lo = 0 /\ hi = lim.Size
      BY <2>1, <2>2
    <3> QED BY <2>1, <3>1
  <2>3. CASE lim.Page = 2
    <3>1. lo = lim.Size /\ hi = lim.Size + lim.Size
      BY <2>1, <2>3
    <3> HIDE DEF lo, hi
    <3> QED BY <2>1, <3>1
  <2> QED BY <2>1, <2>2, <2>3
<1>5. /\ \A x \in 1 .. Len(s) : x > lo /\ x <= hi => s[x] \in Page(flt, lim)
      /\ \A x \in 1 .. Len(s) : x <= lo => s[x] \in DOMAIN nodes
  BY <1>3 DEF Page, ListedBefore
<1> HIDE DEF lo, hi
<1>6. Len(s) <= lo
  <2>1. ASSUME lo + 1 \in 1 .. Len(s) PROVE FALSE
    <3>1. lo + 1 > lo /\ lo + 1 <= hi
      BY <1>4, <2>1
    <3>2. s[lo + 1] \in Page(flt, lim)
      BY <1>5, <2>1, <3>1
    <3> QED BY <3>2
  <2>2. Len(s) \in Nat
    BY <1>1
  <2> QED BY <1>4, <2>1, <2>2
<1>7. j <= lo
  BY <1>1, <1>2, <1>4, <1>6
<1> QED BY <1>2, <1>5, <1>7

LEMMA withFarmsFresh ==
  ASSUME FarmsFresh, NEW learned, NEW x \in DOMAIN withFarms(learned)
  PROVE  withFarms(learned)[x]
           = [freeIPs |-> getPublicIPsCount(proxyFarms[x].PublicIps)]
BY DEF FarmsFresh, withFarms

LEMMA FarmsFreshNext ==
  ASSUME TypeOK, FarmsFresh, [Next]_vars, UNCHANGED gridVars
  PROVE  FarmsFresh'
<1>1. UNCHANGED farms \/ \E learned : farms' = withFarms(learned)
  BY DEF Next, Step, TakeRequest, ReturnAssignment, FarmFound, FarmNotFound,
         BotAnswersPing, BotSilent, BotFindsNode, BotFails, SearchCache, ListPage,
         SearchPage, Search, ListFails, NoNodesFound, FallBackToFull, OtherTenant,
         Place, GoOn, consumePublicIPs, vars, cacheVars
<1>2. UNCHANGED proxyFarms
  BY DEF gridVars
<1>3. CASE UNCHANGED farms
  BY <1>2, <1>3 DEF FarmsFresh
<1>4. ASSUME NEW learned, farms' = withFarms(learned)
      PROVE  FarmsFresh'
  <2>1. \A x \in DOMAIN farms' :
          farms'[x] = [freeIPs |-> getPublicIPsCount(proxyFarms[x].PublicIps)]
    BY <1>4, withFarmsFresh
  <2> QED BY <1>2, <2>1 DEF FarmsFresh
<1> QED BY <1>1, <1>3, <1>4

\* The page turned to begins where the last one ended.
LEMMA NextPageBegins ==
  ASSUME NEW lim \in [Page : {1, 2}, Size : Nat \ {0}],
         lim = FirstPage \/ lim.Page = 2
  PROVE  /\ NextPage(lim).Page = 2
         /\ (NextPage(lim).Page - 1) * NextPage(lim).Size = lim.Page * lim.Size
<1>1. lim.Page \in {1, 2} /\ lim.Size \in Nat \ {0}
  OBVIOUS
<1>2. CASE lim = FirstPage
  <2>1. lim.Page = 1 /\ lim.Size = PageSize
    BY <1>2 DEF FirstPage
  <2>2. NextPage(lim).Page = 2 /\ NextPage(lim).Size = lim.Size
    BY <1>1, <2>1 DEF NextPage
  <2> QED BY <1>1, <2>1, <2>2
<1>3. CASE lim.Page = 2
  <2>1. NextPage(lim).Page = 2 /\ NextPage(lim).Size = 2 * lim.Size
    BY <1>1, <1>3 DEF NextPage
  <2> QED BY <1>1, <1>3, <2>1
<1> QED BY <1>2, <1>3

LEMMA GoOnNoneFits ==
  ASSUME FarmsFresh, NEW learned, GoOn(learned), UNCHANGED <<gridVars, req>>
  PROVE  NoneFits'
<1> SUFFICES ASSUME ~missed', NEW n \in DOMAIN nodes
             PROVE  ~fulfils(n, nodes[n], req, FarmOf(n)')
  <2>1. nodes' = nodes /\ req' = req
    BY DEF GoOn
  <2> QED BY <2>1 DEF NoneFits, fulfils
<1> DEFINE x == nodes[n].Node.FarmID
<1>1. ~passedOver(learned)
  BY DEF GoOn
<1>2. /\ x \in DOMAIN withFarms(learned)
      /\ ~fulfils(n, nodes[n], req, withFarms(learned)[x])
  BY <1>1 DEF passedOver
<1>3. withFarms(learned)[x]
        = [freeIPs |-> getPublicIPsCount(proxyFarms[x].PublicIps)]
  BY <1>2, withFarmsFresh
<1>4. FarmOf(n)' = withFarms(learned)[x]
  BY <1>3 DEF FarmOf, GoOn, gridVars, getPublicIPsCount
<1> QED BY <1>2, <1>4

\* A search places the request, or finds that none of the cache will do.
LEMMA SearchEnds ==
  ASSUME FarmsFresh, Search
  PROVE  /\ pc' \in {"next", "list"} /\ UNCHANGED <<gridVars, req>>
         /\ pc' = "list" => NoneFits' /\ nodes' = nodes
<1>1. PICK learned \in SUBSET FarmId :
        (\E n \in DOMAIN nodes : Place(learned, n)) \/ GoOn(learned)
  BY DEF Search
<1>2. UNCHANGED <<gridVars, req>>
  BY DEF Search
<1>3. CASE \E n \in DOMAIN nodes : Place(learned, n)
  BY <1>2, <1>3 DEF Place, Assign
<1>4. CASE GoOn(learned)
  <2>1. NoneFits'
    BY <1>2, <1>4, GoOnNoneFits
  <2> QED BY <1>2, <1>4, <2>1 DEF GoOn
<1> QED BY <1>1, <1>3, <1>4

LEMMA SearchedNext == TypeOK /\ Searched /\ [Next]_vars => Searched'
<1> SUFFICES ASSUME TypeOK, Searched, [Next]_vars, drift' = 0
             PROVE  Searched'
  BY DEF Searched
<1>1. drift = 0 /\ UNCHANGED gridVars
  <2>1. CASE OtherTenant
    BY <2>1 DEF OtherTenant, TypeOK, GridType
  <2>2. CASE Step \/ UNCHANGED vars
    BY <2>2, StepKeepsGrid DEF vars, gridVars
  <2> QED BY <2>1, <2>2 DEF Next
<1>2. /\ FarmsFresh /\ PagesCover /\ NoneFits /\ (pc = "noNodes" => OwnMatchesCached)
      /\ FarmsFresh'
  BY <1>1, FarmsFreshNext DEF Searched
<1>3. ASSUME pc' \notin {"list", "look", "noNodes"}
      PROVE  Searched'
  BY <1>2, <1>3 DEF Searched, PagesCover, NoneFits
<1>4. CASE TakeRequest \/ ReturnAssignment \/ FarmFound \/ FarmNotFound
           \/ BotAnswersPing \/ BotSilent \/ BotFindsNode \/ BotFails \/ ListFails
  BY <1>3, <1>4 DEF TakeRequest, ReturnAssignment, FarmFound, FarmNotFound,
     BotAnswersPing, BotSilent, BotFindsNode, BotFails, ListFails, Assign
<1>5. ASSUME PagesCover, pc = "list", Page(f, l) = {}
      PROVE  OwnMatchesCached
  BY <1>5, EmptyPageIsLast DEF PagesCover, OwnMatchesCached, TypeOK, PageType
<1>6. CASE NoNodesFound
  <2>1. OwnMatchesCached
    BY <1>2, <1>5, <1>6 DEF NoNodesFound
  <2>2. UNCHANGED <<gridVars, cacheVars, req, missed>> /\ pc = "list" /\ pc' = "noNodes"
    BY <1>6 DEF NoNodesFound, loopVars
  <2>3. OwnMatchesCached'
    BY <2>1, <2>2 DEF OwnMatchesCached, Matches, getPublicIPsCount, gridVars, cacheVars
  <2>4. NoneFits'
    BY <1>2, <2>2 DEF NoneFits, fulfils, FarmOf, getPublicIPsCount, gridVars, cacheVars
  <2> QED BY <1>2, <2>2, <2>3, <2>4 DEF Searched, PagesCover
<1>7. CASE FallBackToFull
  <2>1. OwnMatchesCached
    <3>1. f = constructFilter(req)
      BY <1>2, <1>7 DEF FallBackToFull, PagesCover
    <3> QED BY <1>2, <1>5, <1>7, <3>1 DEF FallBackToFull
  <2>2. /\ UNCHANGED <<gridVars, cacheVars, req, missed, l>>
        /\ pc = "list" /\ pc' = "list" /\ f'.Features = Full
    BY <1>7 DEF FallBackToFull, loopVars, TypeOK, PageType, NodeFilter
  <2>3. OwnMatchesCached'
    BY <2>1, <2>2 DEF OwnMatchesCached, Matches, getPublicIPsCount, gridVars, cacheVars
  <2>4. NoneFits'
    BY <1>2, <2>2 DEF NoneFits, fulfils, FarmOf, getPublicIPsCount, gridVars, cacheVars
  <2>5. PagesCover'
    BY <1>2, <2>2, <2>3 DEF PagesCover, FirstPage
  <2> QED BY <1>2, <2>2, <2>3, <2>4, <2>5 DEF Searched
<1>8. CASE SearchCache
  <2>1. /\ pc' \in {"next", "list"} /\ UNCHANGED <<gridVars, req>>
        /\ pc' = "list" => NoneFits'
    BY <1>2, <1>8, SearchEnds DEF SearchCache
  <2>2. f' = constructFilter(req) /\ l' = FirstPage
    BY <1>8 DEF SearchCache
  <2>3. ListedBefore(f, l)'
    <3>1. (l'.Page - 1) * l'.Size = 0
      BY <2>2, ConstantsAssumption DEF FirstPage
    <3> HIDE <2>2
    <3> QED BY <3>1 DEF ListedBefore
  <2>4. PagesCover'
    BY <2>1, <2>2, <2>3 DEF PagesCover, FirstPage, constructFilter
  <2> QED BY <1>2, <1>3, <2>1, <2>4 DEF Searched
<1>9. CASE SearchPage
  <2>1. /\ pc' \in {"next", "list"} /\ UNCHANGED <<gridVars, req>>
        /\ pc' = "list" => NoneFits' /\ nodes' = nodes
    BY <1>2, <1>9, SearchEnds DEF SearchPage
  <2>2. pc = "look" /\ UNCHANGED <<f, l>>
    BY <1>9 DEF SearchPage, pageVars
  <2>3. CASE pc' = "next"
    BY <1>3, <2>3
  <2>4. CASE pc' = "list"
    <3>1. UNCHANGED <<proxyNodes, proxyFarms, nodes, req, f, l>>
      BY <2>1, <2>2, <2>4 DEF gridVars
    <3>2. UNCHANGED <<Listing(f), OwnMatchesCached>>
      BY <3>1 DEF Listing, OwnMatchesCached, Matches, getPublicIPsCount
    <3>3. PagesCover'
      BY <1>2, <2>2, <3>1, <3>2 DEF PagesCover, ListedBefore
    <3> QED BY <1>2, <2>1, <2>4, <3>3 DEF Searched
  <2> QED BY <2>1, <2>3, <2>4
<1>12. CASE ListPage
  <2>1. DOMAIN nodes' = DOMAIN nodes \cup Page(f, l)
    BY <1>12, ListPageCache
  <2>2. /\ pc = "list" /\ pc' = "look" /\ l' = NextPage(l)
        /\ UNCHANGED <<gridVars, req, f>>
    BY <1>12 DEF ListPage, loopVars
  <2>3. l \in [Page : {1, 2}, Size : Nat \ {0}]
    BY DEF TypeOK, PageType
  <2>4. /\ l'.Page = 2
        /\ (l'.Page - 1) * l'.Size = l.Page * l.Size
    BY <1>2, <2>2, <2>3, NextPageBegins DEF PagesCover
  <2>5. ListedBefore(f, l) => ListedBefore(f, l)'
    <3> SUFFICES ASSUME ListedBefore(f, l), NEW x \in 1 .. Len(Listing(f)),
                        x <= l.Page * l.Size
                 PROVE  Listing(f)[x] \in DOMAIN nodes'
      <4>1. Listing(f)' = Listing(f)
        BY <2>2 DEF Listing, Matches, getPublicIPsCount, gridVars
      <4> QED BY <2>4, <4>1 DEF ListedBefore
    <3>1. CASE x <= (l.Page - 1) * l.Size
      BY <2>1, <3>1 DEF ListedBefore
    <3>2. CASE ~(x <= (l.Page - 1) * l.Size)
      <4>1. x > (l.Page - 1) * l.Size
        <5>1. (l.Page - 1) * l.Size \in Int
          BY <2>3
        <5> QED BY <3>2, <5>1
      <4>2. Listing(f)[x] \in Page(f, l)
        BY <4>1 DEF Page
      <4> QED BY <2>1, <4>2
    <3> QED BY <3>1, <3>2
  <2>6. OwnMatchesCached => OwnMatchesCached'
    BY <2>1, <2>2 DEF OwnMatchesCached, Matches, getPublicIPsCount, gridVars
  <2>7. PagesCover'
    BY <1>2, <2>2, <2>4, <2>5, <2>6 DEF PagesCover
  <2> QED BY <1>2, <2>2, <2>7 DEF Searched, NoneFits
<1>10. CASE UNCHANGED vars
  <2>1. UNCHANGED <<proxyNodes, proxyFarms, nodes, req, f, l, pc, missed>>
    BY <1>10 DEF vars, gridVars, cacheVars, loopVars, pageVars
  <2>2. UNCHANGED <<Listing(f), OwnMatchesCached>>
    BY <2>1 DEF Listing, OwnMatchesCached, Matches, getPublicIPsCount
  <2>3. PagesCover'
    BY <1>2, <2>1, <2>2 DEF PagesCover, ListedBefore
  <2>4. NoneFits'
    <3>1. ASSUME pc \in {"list", "noNodes"}, ~missed, NEW n \in DOMAIN nodes
          PROVE  ~fulfils(n, nodes[n], req, FarmOf(n))
      BY <1>2, <3>1 DEF NoneFits
    <3>2. ASSUME NEW n \in DOMAIN nodes PROVE UNCHANGED FarmOf(n)
      BY <2>1 DEF FarmOf, getPublicIPsCount
    <3> QED BY <2>1, <3>1, <3>2 DEF NoneFits, fulfils
  <2> QED BY <1>2, <2>1, <2>2, <2>3, <2>4 DEF Searched
<1>11. CASE OtherTenant
  BY <1>1, <1>11 DEF OtherTenant
<1> QED BY <1>4, <1>6, <1>7, <1>8, <1>9, <1>10, <1>11, <1>12 DEF Next, Step

LEMMA SearchedSuffices == Searched => SearchIsExhaustive
<1> SUFFICES ASSUME Searched, pc = "noNodes", drift = 0, ~missed,
                    NEW n \in NodeId, Matches(constructFilter(req), n)
             PROVE  n \in DOMAIN nodes /\ ~fulfils(n, nodes[n], req, FarmOf(n))
  BY DEF SearchIsExhaustive, FarmOf
<1>1. n \in DOMAIN nodes
  BY DEF Searched, OwnMatchesCached
<1>2. ~fulfils(n, nodes[n], req, FarmOf(n))
  BY <1>1 DEF Searched, NoneFits
<1> QED BY <1>1, <1>2

\* A run that gives up has listed every node its request's own filter lists, and
\* none of them will do: the doubling pages leave no gap.
THEOREM SearchKept == Spec => []SearchIsExhaustive
<1>1. Init => Searched
  BY DEF Init, Searched, FarmsFresh, PagesCover, NoneFits
<1>2. Searched => SearchIsExhaustive
  BY SearchedSuffices
<1> QED BY <1>1, <1>2, TypeCorrect, SearchedNext, PTL DEF Spec

-----------------------------------------------------------------------------
(* What a run promises its caller: initial states are NodePlacement's, and *)
(* each step is one of NodePlacement's or leaves its variables alone.       *)

\* While a node is looked for, the request at hand is the next of the list, and
\* has lost none of what NodePlacement looks at.
Taken ==
  pc \in Asking =>
    /\ i <= Len(reqs)
    /\ req.Name = reqs[i].Name /\ req.Capacity = reqs[i].Capacity
    /\ req.Distinct = reqs[i].Distinct
    /\ reqs[i].NodeExclude \subseteq req.NodeExclude

LEMMA TakenNext == TypeOK /\ Taken /\ [Next]_vars => Taken'
<1> SUFFICES ASSUME TypeOK, Taken, [Next]_vars PROVE Taken'
  OBVIOUS
<1>1. CASE TakeRequest
  <2>1. reqs[i] \in Request
    BY <1>1 DEF TypeOK, LoopType, TakeRequest
  <2>2. /\ req'.Name = reqs[i].Name /\ req'.Capacity = reqs[i].Capacity
        /\ req'.Distinct = reqs[i].Distinct
        /\ reqs[i].NodeExclude \subseteq req'.NodeExclude
    BY <1>1, <2>1 DEF TakeRequest, Request
  <2> QED BY <1>1, <2>2 DEF Taken, TakeRequest
<1>2. CASE pc' \notin Asking
  BY <1>2 DEF Taken
<1>3. ASSUME pc \in Asking, UNCHANGED loopVars
      PROVE  Taken'
  BY <1>3 DEF Taken, loopVars
<1>4. CASE SearchCache \/ SearchPage
  <2>1. PICK learned \in SUBSET FarmId :
          (\E n \in DOMAIN nodes : Place(learned, n)) \/ GoOn(learned)
    BY <1>4 DEF SearchCache, SearchPage, Search
  <2>2. CASE GoOn(learned)
    <3>1. pc \in Asking /\ UNCHANGED loopVars
      BY <1>4, <2>2 DEF GoOn, SearchCache, SearchPage, Search, Asking, loopVars
    <3> QED BY <1>3, <3>1
  <2>3. CASE \E n \in DOMAIN nodes : Place(learned, n)
    BY <1>2, <2>3 DEF Place, Assign, Asking
  <2> QED BY <2>1, <2>2, <2>3
<1>7. CASE BotFindsNode
  BY <1>2, <1>7 DEF BotFindsNode, Assign, Asking
<1>8. CASE ReturnAssignment
  BY <1>2, <1>8 DEF ReturnAssignment, Asking
<1>9. CASE \/ FarmFound \/ FarmNotFound \/ BotAnswersPing \/ BotSilent \/ BotFails
           \/ ListFails \/ NoNodesFound \/ FallBackToFull \/ ListPage
  BY <1>3, <1>9 DEF FarmFound, FarmNotFound, BotAnswersPing, BotSilent, BotFails,
     ListFails, NoNodesFound, FallBackToFull, ListPage, Asking
<1>10. CASE OtherTenant \/ UNCHANGED vars
  BY <1>10 DEF Taken, OtherTenant, vars, loopVars
<1> QED BY <1>1, <1>4, <1>7, <1>8, <1>9, <1>10 DEF Next, Step

-----------------------------------------------------------------------------
(* The requests still to be placed.                                        *)

Queue == SubSeq(reqs, i, Len(reqs))

LEMMA QueueHead ==
  ASSUME TypeOK, i <= Len(reqs)
  PROVE  /\ Queue # <<>> /\ Head(Queue) = reqs[i]
         /\ Tail(Queue) = SubSeq(reqs, i + 1, Len(reqs))
<1>1. /\ reqs \in Seq(Request) /\ i \in Nat \ {0} /\ Len(reqs) \in Nat
  BY DEF TypeOK, LoopType
<1>2. Len(Queue) = Len(reqs) - i + 1
  <2>1. i \in Int /\ Len(reqs) \in Int /\ \A x \in i .. Len(reqs) : reqs[x] \in Request
    BY <1>1
  <2>2. Len(SubSeq(reqs, i, Len(reqs)))
          = IF i <= Len(reqs) THEN Len(reqs) - i + 1 ELSE 0
    BY ONLY <2>1, SubSeqProperties
  <2> QED BY <2>2 DEF Queue
<1>3. Queue # <<>>
  BY <1>1, <1>2
<1>4. i \in 1 .. Len(reqs) /\ Len(reqs) \in i .. Len(reqs)
  BY <1>1
<1> QED BY <1>1, <1>3, <1>4, HeadTailOfSubSeq DEF Queue

LEMMA QueueEmpty ==
  ASSUME TypeOK, i > Len(reqs)
  PROVE  Queue = <<>>
<1>1. reqs \in Seq(Request) /\ i \in Nat \ {0} /\ Len(reqs) \in Nat
  BY DEF TypeOK, LoopType
<1> QED BY <1>1, SubSeqEmpty DEF Queue

-----------------------------------------------------------------------------
(* What is left of the nodes.                                              *)

\* A step lets node n give "taken" when each node keeps the capacity it had, or
\* comes into sight with it, but for what node n gives.
LEMMA StepGives ==
  ASSUME TypeOK, CacheType', DOMAIN nodes \subseteq DOMAIN nodes', NEW n, NEW taken,
         \A m \in DOMAIN nodes, k \in Checked :
           nodes'[m].FreeCapacity[k] + (IF m = n THEN taken[k] ELSE 0)
             = nodes[m].FreeCapacity[k],
         \A m \in DOMAIN nodes' \ DOMAIN nodes, k \in Checked :
           nodes'[m].FreeCapacity[k] + (IF m = n THEN taken[k] ELSE 0)
             \in 0 .. Word - 1
  PROVE  Placement!Gives(n, taken)
<1>1. \A m \in DOMAIN nodes', k \in Checked :
        nodes'[m].FreeCapacity[k] \in 0 .. Word - 1
  <2> TAKE m \in DOMAIN nodes', k \in Checked
  <2>1. nodes'[m].FreeCapacity \in Capacity
    BY DEF CacheType, NodeInfo
  <2> QED BY <2>1, CapacityAt, CheckedResources
<1>2. DOMAIN nodes' \subseteq NodeId
  BY DEF CacheType
<1> DEFINE Left == [m \in DOMAIN nodes |-> [k \in Checked |-> nodes[m].FreeCapacity[k]]]
<1>3. /\ DOMAIN Left = DOMAIN nodes /\ DOMAIN Left' = DOMAIN nodes'
      /\ \A m \in DOMAIN nodes, k \in Checked : Left[m][k] = nodes[m].FreeCapacity[k]
      /\ \A m \in DOMAIN nodes', k \in Checked : Left'[m][k] = nodes'[m].FreeCapacity[k]
  OBVIOUS
<1>4. Left' \in [DOMAIN nodes' -> [Checked -> 0 .. Word - 1]]
  BY <1>1
<1> HIDE DEF Left
<1>5. /\ DOMAIN Left \subseteq DOMAIN Left' /\ DOMAIN Left' \subseteq NodeId
      /\ Left' \in [DOMAIN Left' -> [Checked -> 0 .. Word - 1]]
      /\ \A m \in DOMAIN Left', k \in Checked :
           LET before == Left'[m][k] + IF m = n THEN taken[k] ELSE 0
           IN  IF m \in DOMAIN Left THEN before = Left[m][k]
                                    ELSE before \in 0 .. Word - 1
  BY <1>2, <1>3, <1>4
<1> QED BY <1>5 DEF Placement!Gives, Left

\* A page brings nodes into sight.
LEMMA ListPageLooks ==
  ASSUME TypeOK, TypeOK', ListPage
  PROVE  Placement!Look
<1>1. /\ DOMAIN nodes' = DOMAIN nodes \cup Page(f, l)
      /\ \A m \in DOMAIN nodes : nodes'[m] = nodes[m]
  BY ListPageCache
<1>2. PICK n \in DOMAIN nodes' : TRUE
  BY <1>1 DEF ListPage
<1>3. ASSUME NEW m \in DOMAIN nodes', NEW k \in Checked
      PROVE  /\ nodes'[m].FreeCapacity[k] + (IF m = n THEN Placement!Nothing[k] ELSE 0)
                  = nodes'[m].FreeCapacity[k]
             /\ nodes'[m].FreeCapacity[k] \in 0 .. Word - 1
  <2>1. nodes'[m].FreeCapacity \in Capacity
    BY DEF TypeOK, CacheType, NodeInfo
  <2>2. nodes'[m].FreeCapacity[k] \in 0 .. Word - 1
    BY <2>1, CapacityAt, CheckedResources
  <2> QED BY <2>2 DEF Placement!Nothing
<1>4. CacheType'
  BY DEF TypeOK
<1>5. Placement!Gives(n, Placement!Nothing)
  BY <1>1, <1>3, <1>4, StepGives
<1>6. n \in NodeId
  BY <1>4 DEF CacheType
<1> QED BY <1>5, <1>6 DEF Placement!Look, ListPage, loopVars, asgVars, Running

\* A node a request is put on.
LEMMA AssignPuts ==
  ASSUME TypeOK, Taken, Excluded, pc \in Asking,
         NEW n \in NodeId \ req.NodeExclude, NEW via, Assign(n, via),
         UNCHANGED <<reqs, req>>
  PROVE  Placement!PutsOn(n)
<1>1. i <= Len(reqs) /\ Queue # <<>> /\ Head(Queue) = reqs[i]
  BY QueueHead DEF Taken
<1>2. Queue' = Tail(Queue)
  BY <1>1, QueueHead DEF Queue, Assign
<1>3. /\ req.Name = reqs[i].Name /\ n \notin reqs[i].NodeExclude
      /\ reqs[i].Distinct => n \notin assignedNodes
  BY DEF Taken, Excluded, Asking
<1>4. /\ assignment' = [x \in DOMAIN assignment \cup {reqs[i].Name} |->
                         IF x = reqs[i].Name THEN n ELSE assignment[x]]
      /\ assignedNodes' = assignedNodes \cup {n} /\ pc' = "next"
  BY <1>3 DEF Assign
<1> QED BY <1>1, <1>2, <1>3, <1>4 DEF Placement!PutsOn, Queue, Running, Asking

LEMMA PlacePuts ==
  ASSUME TypeOK, TypeOK', Taken, Excluded, pc \in Asking, UNCHANGED <<reqs, req>>,
         NEW learned, NEW n \in (DOMAIN nodes) \ req.NodeExclude, Place(learned, n)
  PROVE  Placement!PutByProxy(n)
<1>1. n \in NodeId /\ n \notin req.NodeExclude /\ Assign(n, "proxy")
  BY DEF Place, TypeOK, CacheType
<1>2. Placement!PutsOn(n)
  BY <1>1, AssignPuts
<1>3. Head(Queue).Capacity = req.Capacity
  BY QueueHead DEF Taken
<1>4. /\ DOMAIN nodes' = DOMAIN nodes
      /\ \A m \in DOMAIN nodes, k \in Checked :
           nodes'[m].FreeCapacity[k] + (IF m = n THEN req.Capacity[k] ELSE 0)
             = nodes[m].FreeCapacity[k]
  <2>1. /\ DOMAIN nodes' = DOMAIN nodes
        /\ \A m \in DOMAIN nodes \ {n} : nodes'[m] = nodes[m]
        /\ nodes'[n] \in NodeInfo
        /\ nodes'[n].Node = nodes[n].Node
        /\ \A k \in Checked :
             /\ req.Capacity[k] <= nodes[n].FreeCapacity[k]
             /\ nodes'[n].FreeCapacity[k]
                  = nodes[n].FreeCapacity[k] - req.Capacity[k]
        /\ \A k \in Resource \ Checked :
             nodes'[n].FreeCapacity[k] = nodes[n].FreeCapacity[k]
    BY PlaceCache, Zenon
  <2>2. ASSUME NEW m \in DOMAIN nodes, NEW k \in Checked
        PROVE  nodes'[m].FreeCapacity[k] + (IF m = n THEN req.Capacity[k] ELSE 0)
                 = nodes[m].FreeCapacity[k]
    <3>1. nodes[m].FreeCapacity \in Capacity /\ req.Capacity \in Capacity
      BY RequestCapacity DEF CacheType, NodeInfo, TypeOK, LoopType
    <3>2. /\ nodes[m].FreeCapacity[k] \in 0 .. Word - 1
          /\ req.Capacity[k] \in 0 .. Word - 1
      BY <3>1, CapacityAt, CheckedResources
    <3> QED BY <2>1, <3>2, ConstantsAssumption
  <2> QED BY <2>1, <2>2
<1>5. Placement!Gives(n, Head(Queue).Capacity)
  <2>1. CacheType'
    BY DEF TypeOK
  <2>2. PICK taken : taken = Head(Queue).Capacity
    OBVIOUS
  <2>3. \A m \in DOMAIN nodes, k \in Checked :
          nodes'[m].FreeCapacity[k] + (IF m = n THEN taken[k] ELSE 0)
            = nodes[m].FreeCapacity[k]
    BY <1>3, <1>4, <2>2
  <2>4. Placement!Gives(n, taken)
    BY <1>4, <2>1, <2>3, StepGives
  <2> QED BY <2>2, <2>4 DEF Placement!Gives
<1>6. n \in DOMAIN nodes'
  BY <1>4
<1> QED BY <1>2, <1>5, <1>6 DEF Placement!PutByProxy, Queue

-----------------------------------------------------------------------------
(* The refinement.                                                         *)

LEMMA InitImplements == Init => Placement!PlacementInit
<1> SUFFICES ASSUME Init PROVE Placement!PlacementInit
  OBVIOUS
<1>1. SubSeq(reqs, i, Len(reqs)) = reqs
  <2>1. reqs \in Seq(Request) /\ i = 1 /\ Len(reqs) \in Nat
    BY InputsAssumption DEF Init
  <2> QED BY <2>1
<1>2. [n \in DOMAIN nodes |-> [k \in Checked |-> nodes[n].FreeCapacity[k]]] = <<>>
  <2>1. DOMAIN nodes = {}
    BY DEF Init
  <2> QED BY <2>1
<1>3. Placement!Begin(reqs, assignment)
  BY <1>1, <1>2 DEF Init, Placement!Begin, Placement!Holds, AssignedNodes, Running
<1> QED BY <1>3 DEF Init, Placement!PlacementInit

\* Node n, which is given the request at hand, by proxy or by bot.
Puts(n, via) ==
  /\ pc \in Asking /\ Assign(n, via)
  /\ Placement!PutByProxy(n) \/ Placement!PutByBot(n)

\* What else a step may look like to the caller; nothing is placed by it.
PutsNone ==
  /\ placed' = placed
  /\ \/ Placement!Look \/ Placement!GiveUp \/ Placement!Return
     \/ UNCHANGED Placement!placementVars

LEMMA StepsSeen ==
  ASSUME TypeOK, TypeOK', Taken, Excluded, [Next]_vars
  PROVE  (\E n \in NodeId, via \in {"proxy", "bot"} : Puts(n, via)) \/ PutsNone
<1>1. ASSUME pc \in Running, pc' \in Running,
             UNCHANGED <<reqs, i, nodes, assignment, assignedNodes, placed>>
      PROVE  PutsNone
  BY <1>1 DEF Placement!placementVars, PutsNone
<1>2. CASE \/ TakeRequest \/ FarmFound \/ FarmNotFound \/ BotAnswersPing \/ BotSilent
           \/ FallBackToFull \/ OtherTenant
  BY <1>1, <1>2 DEF TakeRequest, FarmFound, FarmNotFound, BotAnswersPing, BotSilent,
     FallBackToFull, OtherTenant, gridVars, cacheVars, loopVars, asgVars, Running
<1>3. CASE UNCHANGED vars
  BY <1>3 DEF vars, cacheVars, loopVars, asgVars, Placement!placementVars, PutsNone
<1>4. CASE BotFails \/ ListFails \/ NoNodesFound
  <2>1. Placement!GiveUp
    BY <1>4 DEF BotFails, ListFails, NoNodesFound, cacheVars, loopVars, asgVars,
       Placement!GiveUp, Running
  <2> QED BY <1>4, <2>1 DEF PutsNone, BotFails, ListFails, NoNodesFound, asgVars
<1>5. CASE ReturnAssignment
  <2>1. Queue = <<>>
    BY <1>5, QueueEmpty DEF ReturnAssignment
  <2>2. Placement!Return
    BY <1>5, <2>1 DEF ReturnAssignment, cacheVars, loopVars, asgVars, Queue,
       Placement!Return, Running
  <2> QED BY <1>5, <2>2 DEF PutsNone, ReturnAssignment, asgVars
<1>6. ASSUME NEW n \in NodeId \ req.NodeExclude, Assign(n, "bot"), UNCHANGED nodes,
             pc \in Asking, UNCHANGED <<reqs, req>>
      PROVE  Puts(n, "bot")
  <2>1. Placement!PutByBot(n)
    BY <1>6, AssignPuts DEF Placement!PutByBot
  <2> QED BY <1>6, <2>1 DEF Puts
<1>7. ASSUME NEW n \in NodeId \ req.NodeExclude, n \in DOMAIN nodes,
             NEW learned, Place(learned, n), pc \in Asking, UNCHANGED <<reqs, req>>
      PROVE  Puts(n, "proxy")
  <2>1. Placement!PutByProxy(n)
    BY <1>7, PlacePuts
  <2> QED BY <1>7, <2>1 DEF Puts, Place
<1>8. CASE ListPage
  BY <1>8, ListPageLooks DEF PutsNone, ListPage, asgVars
<1>9. CASE (SearchCache \/ SearchPage) /\ UNCHANGED asgVars
  <2>1. PICK learned \in SUBSET FarmId :
          (\E n \in DOMAIN nodes : Place(learned, n)) \/ GoOn(learned)
    BY <1>9 DEF SearchCache, SearchPage, Search
  <2>2. GoOn(learned)
    BY <1>9, <2>1, NothingPlaced DEF Place
  <2>3. UNCHANGED <<reqs, i, nodes, assignment, assignedNodes, placed>>
    BY <1>9, <2>2 DEF SearchCache, SearchPage, Search, GoOn, asgVars
  <2> QED BY <1>1, <1>9, <2>2, <2>3 DEF GoOn, SearchCache, SearchPage, Running
<1>10. CASE BotFindsNode /\ UNCHANGED asgVars
  BY <1>10, NothingPlaced DEF BotFindsNode
<1>11. CASE UNCHANGED asgVars
  BY <1>2, <1>3, <1>4, <1>5, <1>8, <1>9, <1>10, <1>11 DEF Next, Step
<1> QED BY <1>6, <1>7, <1>11, AssignSteps

LEMMA NextImplements ==
  TypeOK /\ TypeOK' /\ Taken /\ Excluded /\ [Next]_vars
    => [Placement!PlacementNext]_(Placement!placementVars)
<1> SUFFICES ASSUME TypeOK, TypeOK', Taken, Excluded, [Next]_vars
             PROVE  Placement!PlacementNext \/ UNCHANGED Placement!placementVars
  OBVIOUS
<1>1. (\E n \in NodeId, via \in {"proxy", "bot"} : Puts(n, via)) \/ PutsNone
  BY StepsSeen
<1>2. ASSUME NEW n \in NodeId, NEW via, Puts(n, via)
      PROVE  Placement!PlacementNext
  BY <1>2 DEF Puts, Placement!PlacementNext
<1>3. CASE PutsNone
  BY <1>3 DEF PutsNone, Placement!PlacementNext
<1> QED BY <1>1, <1>2, <1>3

\* For every grid and request list, a run of ProcessRequests, with its pages, its
\* cache and the farmerbots, does what NodePlacement promises its caller.
THEOREM Implements == Spec => ImplementsPlacement
<1>1. Init => Taken /\ Excluded /\ Placement!PlacementInit
  BY InitImplements DEF Init, Taken, Excluded, Asking, AssignedNodes
<1> QED BY <1>1, TypeCorrect, TakenNext, ExcludedNext, NextImplements,
           PTL DEF Spec, ImplementsPlacement, Placement!PlacementSpec

-----------------------------------------------------------------------------
(* A run comes to its end.                                                 *)

\* The parts of Rank.
RequestsLeft == Len(reqs) + 1 - i

CallsLeft ==
  CASE pc = "next" -> 5 [] pc = "farm" -> 4 [] pc = "ping" -> 3
    [] pc \in {"ask", "search"} -> 2 [] pc \in {"list", "look"} -> 1 [] OTHER -> 0

FallbackLeft == IF f.Features = Full THEN 0 ELSE 1

NodesLeft ==
  LET passed == (l.Page - 1) * l.Size
  IN  IF passed < Cardinality(NodeId) THEN Cardinality(NodeId) - passed ELSE 0

SearchLeft == IF pc = "look" THEN 1 ELSE 0

\* Five natural numbers.
RankTyped ==
  /\ Rank = <<RequestsLeft, CallsLeft, FallbackLeft, NodesLeft, SearchLeft>>
  /\ RequestsLeft \in Nat /\ CallsLeft \in Nat
  /\ FallbackLeft \in Nat /\ NodesLeft \in Nat /\ SearchLeft \in Nat

\* The loop stops at the end of the list, and paging leaves the first page before
\* the size grows.
Counted == i <= Len(reqs) + 1 /\ (l.Page = 1 => l.Size = PageSize)

LEMMA Passed ==
  ASSUME NEW lim \in [Page : {1, 2}, Size : Nat \ {0}]
  PROVE  /\ (lim.Page - 1) * lim.Size = IF lim.Page = 1 THEN 0 ELSE lim.Size
         /\ (lim.Page - 1) * lim.Size \in Nat
<1>1. CASE lim.Page = 1
  BY <1>1
<1>2. CASE lim.Page = 2
  BY <1>2
<1> QED BY <1>1, <1>2

LEMMA RankIs == TypeOK /\ Counted => RankTyped
<1> SUFFICES ASSUME TypeOK, Counted PROVE RankTyped
  OBVIOUS
<1>1. Rank = <<RequestsLeft, CallsLeft, FallbackLeft, NodesLeft, SearchLeft>>
  BY DEF Rank, RequestsLeft, CallsLeft, FallbackLeft, NodesLeft, SearchLeft
<1>2. RequestsLeft \in Nat
  BY DEF RequestsLeft, Counted, TypeOK, LoopType
<1>3. CallsLeft \in Nat /\ FallbackLeft \in Nat /\ SearchLeft \in Nat
  BY DEF CallsLeft, FallbackLeft, SearchLeft
<1>4. NodesLeft \in Nat
  <2>1. Cardinality(NodeId) \in Nat
    BY ConstantsAssumption, FS_CardinalityType
  <2>2. (l.Page - 1) * l.Size \in Nat
    BY Passed DEF TypeOK, PageType
  <2> QED BY <2>1, <2>2 DEF NodesLeft
<1> QED BY <1>1, <1>2, <1>3, <1>4 DEF RankTyped

LEMMA Lexicographic ==
  ASSUME NEW a1, NEW a2, NEW a3, NEW a4, NEW a5,
         NEW b1, NEW b2, NEW b3, NEW b4, NEW b5,
         \/ b1 < a1
         \/ b1 = a1 /\ b2 < a2
         \/ b1 = a1 /\ b2 = a2 /\ b3 < a3
         \/ b1 = a1 /\ b2 = a2 /\ b3 = a3 /\ b4 < a4
         \/ b1 = a1 /\ b2 = a2 /\ b3 = a3 /\ b4 = a4 /\ b5 < a5
  PROVE  Below(<<b1, b2, b3, b4, b5>>, <<a1, a2, a3, a4, a5>>)
<1> DEFINE r == <<b1, b2, b3, b4, b5>>
           s == <<a1, a2, a3, a4, a5>>
<1>1. /\ DOMAIN s = 1 .. 5
      /\ r[1] = b1 /\ r[2] = b2 /\ r[3] = b3 /\ r[4] = b4 /\ r[5] = b5
      /\ s[1] = a1 /\ s[2] = a2 /\ s[3] = a3 /\ s[4] = a4 /\ s[5] = a5
  OBVIOUS
<1> HIDE DEF r, s
<1>2. \E k \in 1 .. 5 : r[k] < s[k] /\ \A h \in 1 .. k - 1 : r[h] = s[h]
  <2>1. CASE b1 < a1
    <3>1. \A h \in 1 .. 1 - 1 : r[h] = s[h]
      OBVIOUS
    <3> QED BY <1>1, <2>1, <3>1
  <2>2. CASE b1 = a1 /\ b2 < a2
    <3>1. \A h \in 1 .. 2 - 1 : h = 1
      OBVIOUS
    <3>2. r[2] < s[2] /\ \A h \in 1 .. 2 - 1 : r[h] = s[h]
      BY <1>1, <2>2, <3>1
    <3> QED BY <3>2
  <2>3. CASE b1 = a1 /\ b2 = a2 /\ b3 < a3
    <3>1. \A h \in 1 .. 3 - 1 : h = 1 \/ h = 2
      OBVIOUS
    <3>2. r[3] < s[3] /\ \A h \in 1 .. 3 - 1 : r[h] = s[h]
      BY <1>1, <2>3, <3>1
    <3> QED BY <3>2
  <2>4. CASE b1 = a1 /\ b2 = a2 /\ b3 = a3 /\ b4 < a4
    <3>1. \A h \in 1 .. 4 - 1 : h = 1 \/ h = 2 \/ h = 3
      OBVIOUS
    <3>2. r[4] < s[4] /\ \A h \in 1 .. 4 - 1 : r[h] = s[h]
      BY <1>1, <2>4, <3>1
    <3> QED BY <3>2
  <2>5. CASE b1 = a1 /\ b2 = a2 /\ b3 = a3 /\ b4 = a4 /\ b5 < a5
    <3>1. \A h \in 1 .. 5 - 1 : h = 1 \/ h = 2 \/ h = 3 \/ h = 4
      OBVIOUS
    <3>2. r[5] < s[5] /\ \A h \in 1 .. 5 - 1 : r[h] = s[h]
      BY <1>1, <2>5, <3>1
    <3> QED BY <3>2
  <2> QED BY <2>1, <2>2, <2>3, <2>4, <2>5
<1> QED BY <1>1, <1>2 DEF Below, r, s

\* A page that is not empty leaves nodes for the next one, and that one begins
\* further on, whether the page is turned or its size doubled.
LEMMA PageLeavesFewer ==
  ASSUME TypeOK, Counted, Page(f, l) # {}, l' = NextPage(l)
  PROVE  NodesLeft' < NodesLeft
<1> DEFINE S == {n \in NodeId : Matches(f, n)}
           s == ProxyOrder(S)
           N == Cardinality(NodeId)
           first == (l.Page - 1) * l.Size
           next == (l'.Page - 1) * l'.Size
<1>1. N \in Nat /\ Len(s) \in Nat /\ Len(s) <= N
  <2>1. IsFiniteSet(NodeId) /\ S \in SUBSET NodeId
    BY ConstantsAssumption
  <2>2. N \in Nat /\ Cardinality(S) \in Nat /\ Cardinality(S) <= N
    BY <2>1, FS_CardinalityType, FS_Subset
  <2>3. Len(s) = Cardinality(S)
    BY <2>1, ProxyOrderAssumption
  <2> QED BY <2>2, <2>3
<1>2. first \in Nat /\ next \in Nat /\ first < next
  <2>1. l \in [Page : {1, 2}, Size : Nat \ {0}]
    BY DEF TypeOK, PageType
  <2>2. l' \in [Page : {1, 2}, Size : Nat \ {0}]
    BY <2>1, NextPageType
  <2>3. /\ first = IF l.Page = 1 THEN 0 ELSE l.Size
        /\ next = IF l'.Page = 1 THEN 0 ELSE l'.Size
        /\ first \in Nat /\ next \in Nat
    BY <2>1, <2>2, Passed
  <2> HIDE DEF first, next
  <2>4. l.Page \in {1, 2} /\ l.Size \in Nat \ {0} /\ (l.Page = 1 => l.Size = PageSize)
    BY <2>1 DEF Counted
  <2>5. CASE l.Page = 1
    <3>1. l'.Page = 2 /\ l'.Size = l.Size
      BY <2>1, <2>4, <2>5 DEF NextPage
    <3> QED BY <2>3, <2>4, <2>5, <3>1
  <2>6. CASE l.Page = 2
    <3>1. l'.Page = 2 /\ l'.Size = 2 * l.Size
      BY <2>1, <2>6 DEF NextPage
    <3> QED BY <2>3, <2>4, <2>6, <3>1
  <2> QED BY <2>4, <2>5, <2>6
<1>3. first < N
  <2>1. PICK x \in 1 .. Len(s) : x > first
    BY DEF Page, Listing
  <2> QED BY <1>1, <1>2, <2>1
<1> HIDE DEF first, next, N
<1>4. NodesLeft = N - first
  BY <1>3 DEF NodesLeft, first, N
<1>5. NodesLeft' = IF next < N THEN N - next ELSE 0
  BY DEF NodesLeft, next, N
<1> QED BY <1>1, <1>2, <1>3, <1>4, <1>5

LEMMA CountedNext == TypeOK /\ Taken /\ Counted /\ [Next]_vars => Counted'
<1> SUFFICES ASSUME TypeOK, Taken, Counted, [Next]_vars PROVE Counted'
  OBVIOUS
<1> DEFINE First(lim) == lim.Page = 1 => lim.Size = PageSize
<1>1. First(l) /\ First(FirstPage) /\ First(NextPage(l))
  <2>1. l \in [Page : {1, 2}, Size : Nat \ {0}]
    BY DEF TypeOK, PageType
  <2> QED BY <2>1 DEF Counted, FirstPage, NextPage
<1>2. First(l')
  BY <1>1 DEF Next, Step, TakeRequest, ReturnAssignment, FarmFound, FarmNotFound,
     BotAnswersPing, BotSilent, BotFindsNode, BotFails, SearchCache, ListFails,
     NoNodesFound, FallBackToFull, ListPage, SearchPage, OtherTenant, vars, pageVars
<1>3. i' <= Len(reqs') + 1
  <2>1. CASE UNCHANGED <<reqs, i>>
    BY <2>1 DEF Counted
  <2>2. ASSUME NEW n, NEW via, Assign(n, via), pc \in Asking, reqs' = reqs
        PROVE  i' <= Len(reqs') + 1
    <3>1. i <= Len(reqs) /\ i \in Nat /\ Len(reqs) \in Nat /\ i' = i + 1
      BY <2>2 DEF Taken, TypeOK, LoopType, Assign
    <3> QED BY <2>2, <3>1
  <2>3. UNCHANGED asgVars => UNCHANGED <<reqs, i>>
    <3>1. CASE SearchCache \/ SearchPage \/ BotFindsNode
      BY <3>1, NothingPlaced DEF SearchCache, SearchPage, Search, BotFindsNode,
         Place, GoOn
    <3>2. CASE \/ TakeRequest \/ ReturnAssignment \/ FarmFound \/ FarmNotFound
               \/ BotAnswersPing \/ BotSilent \/ BotFails \/ ListFails
               \/ NoNodesFound \/ FallBackToFull \/ ListPage \/ OtherTenant
               \/ UNCHANGED vars
      BY <3>2 DEF TakeRequest, ReturnAssignment, FarmFound, FarmNotFound,
         BotAnswersPing, BotSilent, BotFails, ListFails, NoNodesFound,
         FallBackToFull, ListPage, OtherTenant, vars, loopVars
    <3> QED BY <3>1, <3>2 DEF Next, Step
  <2> QED BY <2>1, <2>2, <2>3, AssignSteps
<1> QED BY <1>2, <1>3 DEF Counted

LEMMA ProgressNext ==
  ASSUME TypeOK, TypeOK', Taken, Counted, Counted', Next
  PROVE  /\ Rank' \in [1 .. 5 -> Nat]
         /\ IF drift' = drift THEN Below(Rank', Rank) ELSE Rank' = Rank
<1>1. RankTyped
  BY RankIs
<1>2. RankTyped'
  BY RankIs, PTL
<1>3. Rank' \in [1 .. 5 -> Nat]
  BY <1>2 DEF RankTyped
<1>4. CASE OtherTenant
  <2>1. drift \in Nat /\ drift' = drift + 1
    BY <1>4, ConstantsAssumption DEF OtherTenant, TypeOK, GridType
  <2>2. drift' # drift
    BY <2>1
  <2>3. UNCHANGED <<reqs, i, pc, f, l>>
    BY <1>4 DEF OtherTenant, loopVars, pageVars
  <2>4. Rank' = Rank
    BY <2>3 DEF Rank
  <2> QED BY <1>3, <2>2, <2>4
<1>5. CASE Step
  <2>1. drift' = drift
    BY <1>5, StepKeepsGrid DEF gridVars
  <2>2. SUFFICES \/ RequestsLeft' < RequestsLeft
                 \/ RequestsLeft' = RequestsLeft /\ CallsLeft' < CallsLeft
                 \/ /\ RequestsLeft' = RequestsLeft /\ CallsLeft' = CallsLeft
                    /\ FallbackLeft' < FallbackLeft
                 \/ /\ RequestsLeft' = RequestsLeft /\ CallsLeft' = CallsLeft
                    /\ FallbackLeft' = FallbackLeft /\ NodesLeft' < NodesLeft
                 \/ /\ RequestsLeft' = RequestsLeft /\ CallsLeft' = CallsLeft
                    /\ FallbackLeft' = FallbackLeft /\ NodesLeft' = NodesLeft
                    /\ SearchLeft' < SearchLeft
    BY <1>1, <1>2, <1>3, <2>1, Lexicographic DEF RankTyped
  <2>3. ASSUME UNCHANGED <<reqs, i>>
        PROVE  RequestsLeft' = RequestsLeft
    BY <2>3 DEF RequestsLeft
  <2>4. ASSUME NEW n, NEW via, Assign(n, via), reqs' = reqs
        PROVE  RequestsLeft' < RequestsLeft
    BY <2>4 DEF RequestsLeft, Assign, TypeOK, LoopType
  <2>5. CASE \/ TakeRequest \/ ReturnAssignment \/ FarmFound \/ FarmNotFound
             \/ BotAnswersPing \/ BotSilent \/ BotFails \/ ListFails \/ NoNodesFound
    <3>1. UNCHANGED <<reqs, i>> /\ CallsLeft' < CallsLeft
      BY <2>5 DEF TakeRequest, ReturnAssignment, FarmFound, FarmNotFound,
         BotAnswersPing, BotSilent, BotFails, ListFails, NoNodesFound, loopVars,
         CallsLeft
    <3> QED BY <2>3, <3>1
  <2>6. CASE BotFindsNode
    BY <2>4, <2>6 DEF BotFindsNode
  <2>7. CASE SearchCache \/ SearchPage
    <3>1. PICK learned \in SUBSET FarmId :
            (\E n \in DOMAIN nodes : Place(learned, n)) \/ GoOn(learned)
      BY <2>7 DEF SearchCache, SearchPage, Search
    <3>2. reqs' = reqs
      BY <2>7 DEF SearchCache, SearchPage, Search
    <3>3. CASE GoOn(learned) /\ SearchCache
      <4>1. UNCHANGED <<reqs, i>> /\ CallsLeft' < CallsLeft
        BY <3>2, <3>3 DEF GoOn, SearchCache, CallsLeft
      <4> QED BY <2>3, <4>1
    <3>4. CASE GoOn(learned) /\ SearchPage
      <4>1. UNCHANGED <<reqs, i, f, l>> /\ pc = "look" /\ pc' = "list"
        BY <3>2, <3>4 DEF GoOn, SearchPage, pageVars
      <4>2. /\ CallsLeft' = CallsLeft /\ FallbackLeft' = FallbackLeft
            /\ NodesLeft' = NodesLeft /\ SearchLeft' < SearchLeft
        BY <4>1 DEF CallsLeft, FallbackLeft, NodesLeft, SearchLeft
      <4> QED BY <2>3, <4>1, <4>2
    <3> QED BY <2>4, <2>7, <3>1, <3>2, <3>3, <3>4 DEF Place
  <2>8. CASE FallBackToFull
    <3>1. UNCHANGED <<reqs, i, pc>> /\ f'.Features = Full /\ f.Features # Full
      BY <2>8 DEF FallBackToFull, loopVars, TypeOK, PageType, NodeFilter
    <3>2. CallsLeft' = CallsLeft /\ FallbackLeft' < FallbackLeft
      BY <3>1 DEF CallsLeft, FallbackLeft
    <3> QED BY <2>3, <3>1, <3>2
  <2>9. CASE ListPage
    <3>1. UNCHANGED <<reqs, i, f>> /\ pc = "list" /\ pc' = "look"
      BY <2>9 DEF ListPage, loopVars
    <3>2. CallsLeft' = CallsLeft /\ FallbackLeft' = FallbackLeft
      BY <3>1 DEF CallsLeft, FallbackLeft
    <3>3. NodesLeft' < NodesLeft
      BY <2>9, PageLeavesFewer DEF ListPage
    <3> QED BY <2>3, <3>1, <3>2, <3>3
  <2> QED BY <1>5, <2>5, <2>6, <2>7, <2>8, <2>9 DEF Step
<1> QED BY <1>4, <1>5 DEF Next

\* Each step of a run brings it nearer to its end, on any grid, however long its
\* listings are and however it changes meanwhile: no run takes steps for ever.
THEOREM RunsEnd == Spec => StepsProgress
<1>1. Init => Taken /\ Counted
  BY InputsAssumption DEF Init, Taken, Counted, Asking, FirstPage
<1>2. TypeOK /\ TypeOK' /\ Taken /\ Counted /\ Counted' /\ [Next]_vars
        => [/\ Rank' \in [1 .. 5 -> Nat]
            /\ IF drift' = drift THEN Below(Rank', Rank) ELSE Rank' = Rank]_vars
  BY ProgressNext
<1> QED BY <1>1, <1>2, TypeCorrect, TakenNext, CountedNext, PTL DEF Spec, StepsProgress

=============================================================================
