------------------------------ MODULE Scheduler ------------------------------
(***************************************************************************)
(* The scheduler package: one run of Scheduler.ProcessRequests.            *)
(*                                                                         *)
(* A run takes a list of capacity requests and picks a node for each one.  *)
(* A request bound to a farm is first offered to the farm's farmerbot; all *)
(* other requests are placed by paging through the grid proxy, whose       *)
(* answers are cached (nodes, farms) for the rest of the run.  The calls   *)
(* that leave the process (proxy, farmerbot) are separate steps, so the    *)
(* grid may change, or a call may fail, between any two of them.  Only the *)
(* farm lookups of one getNode are a single step: each reads its own farm, *)
(* once, so a change between two of them is as good as one before or after *)
(* the step.                                                               *)
(***************************************************************************)
EXTENDS Integers, Sequences, FiniteSets

CONSTANTS
  NodeId,         \* ids of the nodes of the grid
  FarmId,         \* ids of the farms of the grid
  Names,          \* request names
  Word,           \* number of values of the capacity counters (2^64)
  PageSize,       \* size of the first page asked of the proxy (10)
  GB,             \* capacity units in one gigabyte (1024^3 bytes)
  Grids,          \* nodes of the grid a run may start from
  FarmTables,     \* farms of the grid a run may start from
  RequestLists,   \* request lists a run may be given
  Assignments,    \* assignments a run may be given: request name -> node id
  MaxDrift,       \* bound on the changes other tenants make during a run
  ProxyOrder(_)   \* the order in which the proxy lists a set of nodes

Resource == {"MRU", "SRU", "HRU", "CRU"}
Checked  == {"MRU", "SRU", "HRU"}       \* what fulfils and consume look at
Capacity == [Resource -> 0 .. Word - 1]

\* A pair of zos features, the full network/zmachine or the light one.
Full    == "network"
Light   == "network-light"
Feature == {Full, Light}

NoNode  == 0        \* getNode's answer when no cached node will do
AnyFarm == 0        \* FarmID of a request that names no farm

GridNode == [FarmID : FarmId, Total : Capacity, Used : Capacity,
             Domain : BOOLEAN, Dedicated : BOOLEAN, Certified : BOOLEAN,
             Features : SUBSET Feature, Up : BOOLEAN]

\* A farm is the list of the contracts its public ips are reserved by; 0: free.
GridFarm == [PublicIps : Seq(Nat)]

Request == [Name : Names, Capacity : Capacity, FarmID : Nat,
            PublicConfig : BOOLEAN, PublicIpsCount : Nat,
            Certified : BOOLEAN, Dedicated : BOOLEAN,
            NodeExclude : SUBSET NodeId, Distinct : BOOLEAN,
            Yggdrasil : BOOLEAN, Wireguard : BOOLEAN]

\* A map from request names to node ids.
Assignment == UNION {[D -> NodeId] : D \in SUBSET Names}

ASSUME ConstantsAssumption ==
  /\ NodeId \subseteq Nat \ {NoNode} /\ IsFiniteSet(NodeId)
  /\ FarmId \subseteq Nat \ {AnyFarm}
  /\ Word \in Nat \ {0} /\ PageSize \in Nat \ {0} /\ GB \in Nat \ {0}
  /\ Names # {} /\ MaxDrift \in Nat

ASSUME InputsAssumption ==
  /\ \A g \in Grids : g \in [NodeId -> GridNode]
  /\ \A t \in FarmTables : t \in [FarmId -> GridFarm]
  /\ \A rs \in RequestLists : rs \in Seq(Request)
  /\ \A a \in Assignments : a \in Assignment

\* The proxy lists every node of the set it is asked for, once.
ASSUME ProxyOrderAssumption ==
  \A S \in SUBSET NodeId :
    LET s == ProxyOrder(S) IN
      /\ s \in Seq(S) /\ Len(s) = Cardinality(S)
      /\ \A n \in S : \E j \in 1 .. Len(s) : s[j] = n

VARIABLES
  proxyNodes,     \* the grid, as the proxy sees it
  proxyFarms,
  drift,          \* changes other tenants have made
  nodes,          \* Scheduler.nodes: id -> [FreeCapacity, Node]
  farms,          \* Scheduler.farms: id -> [freeIPs]
  reqs,           \* the request list of ProcessRequests
  i,              \* index of the request at hand
  req,            \* its copy, NodeExclude extended if it is Distinct
  f,              \* the NodeFilter of gridProxySchedule
  l,              \* its Limit
  assignment,
  assignedNodes,
  pc,             \* where the run is
  missed,         \* history: the search passed over a node, its farm unknown
  placed,         \* history: the placements, in order
  booked          \* history: per node, capacity placed through the proxy

gridVars  == <<proxyNodes, proxyFarms, drift>>
cacheVars == <<nodes, farms>>
loopVars  == <<reqs, i, req>>
pageVars  == <<f, l>>
asgVars   == <<assignment, assignedNodes, placed>>
vars == <<gridVars, cacheVars, loopVars, pageVars, asgVars, pc, missed, booked>>

Running == {"next", "farm", "ping", "ask", "search", "list", "look"}
Final   == {"done", "noNodes", "failed"}

-----------------------------------------------------------------------------
(* Capacity arithmetic: Go's uint64, which wraps around.                   *)

Minus(a, b) == IF b <= a THEN a - b ELSE a - b + Word

freeCapacity(node) == [k \in Resource |-> Minus(node.Total[k], node.Used[k])]

\* Faulty: the structure consumed from is a copy.
consumeCopy(free, r) == free

consume(free, r) ==
  [k \in Resource |-> IF k \in Checked THEN Minus(free[k], r.Capacity[k])
                                       ELSE free[k]]

fulfils(n, info, r, farm) ==
  /\ \A k \in Checked : r.Capacity[k] <= info.FreeCapacity[k]
  /\ r.FarmID # AnyFarm => info.Node.FarmID = r.FarmID
  /\ r.PublicConfig => info.Node.Domain
  /\ r.PublicIpsCount <= farm.freeIPs
  /\ r.Dedicated => info.Node.Dedicated
  /\ r.Certified => info.Node.Certified
  /\ n \notin r.NodeExclude

-----------------------------------------------------------------------------
(* The grid proxy.                                                         *)

getPublicIPsCount(ips) == Cardinality({j \in DOMAIN ips : ips[j] = 0})

\* Faulty: a request for a private network is content with a light node.
constructFilterLight(r) ==
  [FarmID |-> r.FarmID, Free |-> r.Capacity, Domain |-> r.PublicConfig,
   FreeIPs |-> r.PublicIpsCount, Rentable |-> r.Dedicated,
   Features |-> IF r.PublicConfig \/ r.PublicIpsCount # 0 THEN Full ELSE Light]

constructFilter(r) ==
  [FarmID |-> r.FarmID, Free |-> r.Capacity, Domain |-> r.PublicConfig,
   FreeIPs |-> r.PublicIpsCount, Rentable |-> r.Dedicated,
   Features |-> IF r.Yggdrasil \/ r.Wireguard \/ r.PublicConfig
                     \/ r.PublicIpsCount # 0
                THEN Full ELSE Light]

\* What the proxy makes of a filter; it subtracts in signed arithmetic.
Matches(flt, n) ==
  LET node == proxyNodes[n] IN
    /\ node.Up
    /\ flt.FarmID # AnyFarm => node.FarmID = flt.FarmID
    /\ \A k \in Checked :
         flt.Free[k] # 0 => node.Total[k] - node.Used[k] >= flt.Free[k]
    /\ flt.Domain => node.Domain
    /\ flt.FreeIPs <= getPublicIPsCount(proxyFarms[node.FarmID].PublicIps)
    /\ flt.Rentable => node.Dedicated
    /\ flt.Features \in node.Features

Listing(flt) == ProxyOrder({n \in NodeId : Matches(flt, n)})

\* GridProxyClient.Nodes: the nodes on one page of the listing.
Page(flt, lim) ==
  LET s == Listing(flt)
  IN  {s[j] : j \in {x \in 1 .. Len(s) : /\ x > (lim.Page - 1) * lim.Size
                                         /\ x <= lim.Page * lim.Size}}

FirstPage == [Page |-> 1, Size |-> PageSize]

\* Faulty: the size doubles with the first turn of the page; the page turns on.
NextPageSkips(lim) == [Page |-> 2, Size |-> 2 * lim.Size]
NextPageTurns(lim) == [lim EXCEPT !.Page = @ + 1]

\* Faulty: the size of page 2 stays.
NextPageStays(lim) == [lim EXCEPT !.Page = 2]

NextPage(lim) ==
  IF lim.Page = 1 /\ lim.Size = PageSize THEN [lim EXCEPT !.Page = 2]
                                         ELSE [lim EXCEPT !.Size = 2 * @]

\* getFarmInfo: the farms known once those of the set "learned" were fetched.
withFarms(learned) ==
  [x \in DOMAIN farms \cup learned |->
     IF x \in DOMAIN farms THEN farms[x]
     ELSE [freeIPs |-> getPublicIPsCount(proxyFarms[x].PublicIps)]]

\* Faulty: a node listed again replaces its entry.
addNodesAnew(page) ==
  [n \in DOMAIN nodes \cup page |->
     IF n \notin page THEN nodes[n]
     ELSE [FreeCapacity |-> freeCapacity(proxyNodes[n]),
           Node |-> proxyNodes[n]]]

\* The nodes of a page join the cache; those already there are kept as they are.
addNodes(page) ==
  [n \in DOMAIN nodes \cup page |->
     IF n \in DOMAIN nodes THEN nodes[n]
     ELSE [FreeCapacity |-> freeCapacity(proxyNodes[n]),
           Node |-> proxyNodes[n]]]

\* consumePublicIPs works on a copy of the map's value: the map keeps its own.
consumePublicIPs(fs, farmID, ips) == fs

\* getNode: the cached nodes are visited in random order, and the first one
\* that fulfils r is the answer n.  A node whose farm cannot be looked up is
\* passed over; "learned" are the farms whose lookup succeeded on the way.
getNode(r, learned, n) ==
  LET fs      == withFarms(learned)
      farm(m) == nodes[m].Node.FarmID
      fits(m) == /\ farm(m) \in DOMAIN fs
                 /\ fulfils(m, nodes[m], r, fs[farm(m)])
  IN /\ learned \subseteq {farm(m) : m \in DOMAIN nodes} \ DOMAIN farms
     /\ \A x \in learned :
          \/ n # NoNode /\ x = farm(n)
          \/ \E m \in DOMAIN nodes : farm(m) = x /\ ~fits(m)
     /\ \/ n \in DOMAIN nodes /\ fits(n)
        \/ /\ n = NoNode
           /\ \A m \in DOMAIN nodes : farm(m) \in DOMAIN farms => ~fits(m)

\* Such a search passed over a node it might have used, its farm not known.
passedOver(learned) ==
  \E m \in DOMAIN nodes : LET x == nodes[m].Node.FarmID IN
    \/ x \notin DOMAIN withFarms(learned)
    \/ fulfils(m, nodes[m], req, withFarms(learned)[x])

-----------------------------------------------------------------------------
(* Initially the run is about to take its first request.                   *)

AssignedNodes(a) == {a[x] : x \in DOMAIN a}

\* The zero value of the Go structure.
ZeroRequest ==
  [Name |-> CHOOSE x \in Names : TRUE, Capacity |-> [k \in Resource |-> 0],
   FarmID |-> AnyFarm, PublicConfig |-> FALSE, PublicIpsCount |-> 0,
   Certified |-> FALSE, Dedicated |-> FALSE, NodeExclude |-> {},
   Distinct |-> FALSE, Yggdrasil |-> FALSE, Wireguard |-> FALSE]

EmptyBooking == [n \in NodeId |-> [k \in Resource |-> 0]]

Init ==
  /\ proxyNodes \in Grids /\ proxyFarms \in FarmTables /\ drift = 0
  /\ nodes = <<>> /\ farms = <<>>
  /\ reqs \in RequestLists /\ i = 1
  /\ req = ZeroRequest /\ f = constructFilter(req) /\ l = FirstPage
  /\ assignment \in Assignments
  /\ assignedNodes = AssignedNodes(assignment)
  /\ pc = "next" /\ missed = FALSE /\ placed = <<>> /\ booked = EmptyBooking

(***************************************************************************)
(* The loop of ProcessRequests, and the choice Schedule makes.             *)
(***************************************************************************)
TakeRequest ==
  /\ pc = "next" /\ i <= Len(reqs)
  /\ req' = IF reqs[i].Distinct
            THEN [reqs[i] EXCEPT !.NodeExclude = @ \cup assignedNodes]
            ELSE reqs[i]
  /\ pc' = IF reqs[i].FarmID # AnyFarm THEN "farm" ELSE "search"
  /\ missed' = FALSE
  /\ UNCHANGED <<gridVars, cacheVars, reqs, i, pageVars, asgVars, booked>>

\* Faulty: the last request is left out.
ReturnEarly ==
  /\ pc = "next" /\ i >= Len(reqs)
  /\ pc' = "done"
  /\ UNCHANGED <<gridVars, cacheVars, loopVars, pageVars, asgVars, missed, booked>>

ReturnAssignment ==
  /\ pc = "next" /\ i > Len(reqs)
  /\ pc' = "done"
  /\ UNCHANGED <<gridVars, cacheVars, loopVars, pageVars, asgVars, missed, booked>>

\* Faulty: the node is not remembered as assigned.
AssignForgets(n, via) ==
  /\ assignment' = [x \in DOMAIN assignment \cup {req.Name} |->
                      IF x = req.Name THEN n ELSE assignment[x]]
  /\ placed' = Append(placed, [req |-> req, node |-> n, via |-> via])
  /\ i' = i + 1 /\ pc' = "next"
  /\ UNCHANGED assignedNodes

\* What ProcessRequests does with a node Schedule returned.
Assign(n, via) ==
  /\ assignment' = [x \in DOMAIN assignment \cup {req.Name} |->
                      IF x = req.Name THEN n ELSE assignment[x]]
  /\ assignedNodes' = assignedNodes \cup {n}
  /\ placed' = Append(placed, [req |-> req, node |-> n, via |-> via])
  /\ i' = i + 1 /\ pc' = "next"

(***************************************************************************)
(* The farmerbot.  The ping runs under a 40ns deadline (rmbTimeout is a    *)
(* bare number), so whether a bot that exists is seen at all is a race.    *)
(***************************************************************************)
FarmFound ==
  /\ pc = "farm" /\ req.FarmID \in FarmId
  /\ farms' = withFarms({req.FarmID})
  /\ pc' = "ping"
  /\ UNCHANGED <<gridVars, nodes, loopVars, pageVars, asgVars, missed, booked>>

\* The lookup fails, unless it is known: the request goes to the proxy.
FarmNotFound ==
  /\ pc = "farm" /\ req.FarmID \notin DOMAIN farms
  /\ pc' = "search"
  /\ UNCHANGED <<gridVars, cacheVars, loopVars, pageVars, asgVars, missed, booked>>

BotAnswersPing ==
  /\ pc = "ping"
  /\ pc' = "ask"
  /\ UNCHANGED <<gridVars, cacheVars, loopVars, pageVars, asgVars, missed, booked>>

\* The ping fails: the request goes to the proxy.
BotSilent ==
  /\ pc = "ping"
  /\ pc' = "search"
  /\ UNCHANGED <<gridVars, cacheVars, loopVars, pageVars, asgVars, missed, booked>>

\* Faulty: the nodes to exclude are left out.
buildNodeOptionsForAny(r) ==
  [NodesExcluded |-> {}, Certified |-> r.Certified,
   Dedicated |-> r.Dedicated, PublicConfig |-> r.PublicConfig,
   PublicIPs |-> r.PublicIpsCount,
   Size |-> [k \in Resource |-> IF k = "CRU" THEN r.Capacity[k]
                                             ELSE r.Capacity[k] \div GB]]

\* The options sent to the bot: sizes in whole gigabytes, rounded down.
buildNodeOptions(r) ==
  [NodesExcluded |-> r.NodeExclude, Certified |-> r.Certified,
   Dedicated |-> r.Dedicated, PublicConfig |-> r.PublicConfig,
   PublicIPs |-> r.PublicIpsCount,
   Size |-> [k \in Resource |-> IF k = "CRU" THEN r.Capacity[k]
                                             ELSE r.Capacity[k] \div GB]]

\* What a farmerbot makes of the options: one of its farm's nodes.
BotOffers(farmID, o) ==
  {n \in NodeId : LET node == proxyNodes[n] IN
     /\ node.Up /\ node.FarmID = farmID /\ n \notin o.NodesExcluded
     /\ o.Certified => node.Certified
     /\ o.Dedicated => node.Dedicated
     /\ o.PublicConfig => node.Domain
     /\ o.PublicIPs <= getPublicIPsCount(proxyFarms[farmID].PublicIps)
     /\ \A k \in Resource :
          node.Total[k] - node.Used[k] >= o.Size[k] * (IF k = "CRU" THEN 1 ELSE GB)}

BotFindsNode ==
  /\ pc = "ask"
  /\ \E n \in BotOffers(req.FarmID, buildNodeOptions(req)) : Assign(n, "bot")
  /\ UNCHANGED <<gridVars, cacheVars, reqs, req, pageVars, missed, booked>>

BotFails ==
  /\ pc = "ask"
  /\ pc' = "failed"
  /\ UNCHANGED <<gridVars, cacheVars, loopVars, pageVars, asgVars, missed, booked>>

(***************************************************************************)
(* gridProxySchedule.                                                      *)
(***************************************************************************)

\* The search ends with a node: its capacity is consumed in the cache, and it is
\* assigned.
Place(learned, n) ==
  /\ getNode(req, learned, n)
  /\ nodes' = [nodes EXCEPT ![n].FreeCapacity = consume(@, req)]
  /\ farms' = consumePublicIPs(withFarms(learned), nodes[n].Node.FarmID,
                              req.PublicIpsCount)
  /\ booked' = [booked EXCEPT ![n] =
                  [k \in Resource |->
                     @[k] + IF k \in Checked THEN req.Capacity[k] ELSE 0]]
  /\ Assign(n, "proxy")
  /\ UNCHANGED missed

\* The loop goes on: no cached node will do.
GoOn(learned) ==
  /\ getNode(req, learned, NoNode)
  /\ farms' = withFarms(learned)
  /\ missed' = passedOver(learned)
  /\ pc' = "list"
  /\ UNCHANGED <<nodes, i, asgVars, booked>>

Search ==
  /\ \E learned \in SUBSET FarmId :
       (\E n \in DOMAIN nodes : Place(learned, n)) \/ GoOn(learned)
  /\ UNCHANGED <<gridVars, reqs, req>>

\* The first look, at the nodes cached so far.
SearchCache ==
  /\ pc = "search" /\ Search
  /\ f' = constructFilter(req) /\ l' = FirstPage

\* The proxy returns an error.
ListFails ==
  /\ pc = "list"
  /\ pc' = "failed"
  /\ UNCHANGED <<gridVars, cacheVars, loopVars, pageVars, asgVars, missed, booked>>

\* An empty page of full nodes: there is nothing left to ask for.
NoNodesFound ==
  /\ pc = "list" /\ Page(f, l) = {} /\ f.Features = Full
  /\ pc' = "noNodes"
  /\ UNCHANGED <<gridVars, cacheVars, loopVars, pageVars, asgVars, missed, booked>>

\* Faulty: the same filter is asked for again.
FallBackToSame ==
  /\ pc = "list" /\ Page(f, l) = {} /\ f.Features # Full
  /\ UNCHANGED vars

\* An empty page of light nodes: go on with full ones, on the page reached.
FallBackToFull ==
  /\ pc = "list" /\ Page(f, l) = {} /\ f.Features # Full
  /\ f' = [f EXCEPT !.Features = Full]
  /\ UNCHANGED <<gridVars, cacheVars, loopVars, l, asgVars, pc, missed, booked>>

\* A page of nodes joins the cache.  The page is turned at once: the code turns
\* it after the search, which does not look at it.
ListPage ==
  /\ pc = "list" /\ Page(f, l) # {}
  /\ nodes' = addNodes(Page(f, l)) /\ l' = NextPage(l)
  /\ pc' = "look"
  /\ UNCHANGED <<gridVars, farms, loopVars, f, asgVars, missed, booked>>

\* The cache is searched again.
SearchPage == pc = "look" /\ Search /\ UNCHANGED pageVars

(***************************************************************************)
(* Other tenants of the grid, while the run is under way.                  *)
(***************************************************************************)
NodeChanges(n) ==
  /\ \/ proxyNodes' = [proxyNodes EXCEPT ![n].Up = ~@]
     \/ \E k \in Checked :
          /\ proxyNodes[n].Used[k] < proxyNodes[n].Total[k]
          /\ proxyNodes' = [proxyNodes EXCEPT ![n].Used[k] = @ + 1]
  /\ UNCHANGED proxyFarms

IPReserved(x) ==
  /\ \E j \in DOMAIN proxyFarms[x].PublicIps :
       /\ proxyFarms[x].PublicIps[j] = 0
       /\ proxyFarms' = [proxyFarms EXCEPT ![x].PublicIps[j] = 1]
  /\ UNCHANGED proxyNodes

OtherTenant ==
  /\ pc \in Running /\ drift < MaxDrift
  /\ drift' = drift + 1
  /\ (\E n \in NodeId : NodeChanges(n)) \/ (\E x \in FarmId : IPReserved(x))
  /\ UNCHANGED <<cacheVars, loopVars, pageVars, asgVars, pc, missed, booked>>

Step ==
  \/ TakeRequest \/ ReturnAssignment
  \/ FarmFound \/ FarmNotFound
  \/ BotAnswersPing \/ BotSilent \/ BotFindsNode \/ BotFails
  \/ SearchCache \/ ListFails \/ NoNodesFound \/ FallBackToFull
  \/ ListPage \/ SearchPage

Next == Step \/ OtherTenant

Spec == Init /\ [][Next]_vars

\* The steps of a run whose calls are answered: those to the proxy return, and
\* those to farmerbots have deadlines.
Answered ==
  \/ TakeRequest \/ ReturnAssignment
  \/ FarmFound \/ FarmNotFound
  \/ BotAnswersPing \/ BotSilent \/ BotFindsNode \/ BotFails
  \/ SearchCache \/ NoNodesFound \/ FallBackToFull \/ ListPage \/ SearchPage

-----------------------------------------------------------------------------
(* Properties.                                                             *)

NodeInfo == [FreeCapacity : Capacity, Node : GridNode]

NodeFilter == [FarmID : Nat, Free : Capacity, Domain : BOOLEAN, FreeIPs : Nat,
               Rentable : BOOLEAN, Features : Feature]

GridType ==
  /\ proxyNodes \in [NodeId -> GridNode]
  /\ proxyFarms \in [FarmId -> GridFarm]
  /\ drift \in 0 .. MaxDrift

CacheType ==
  /\ DOMAIN nodes \subseteq NodeId /\ nodes \in [DOMAIN nodes -> NodeInfo]
  /\ DOMAIN farms \subseteq FarmId /\ farms \in [DOMAIN farms -> [freeIPs : Nat]]

LoopType ==
  /\ reqs \in Seq(Request) /\ i \in Nat \ {0} /\ req \in Request
  /\ pc \in Running \cup Final

PageType ==
  /\ f \in NodeFilter /\ l \in [Page : {1, 2}, Size : Nat \ {0}]
  /\ missed \in BOOLEAN

ResultType ==
  /\ assignment \in Assignment /\ assignedNodes \subseteq NodeId
  /\ placed \in Seq([req : Request, node : NodeId, via : {"proxy", "bot"}])
  /\ booked \in [NodeId -> [Resource -> Nat]]

\* Every variable has its type; in particular no counter of the cache leaves
\* the range of a uint64, and the page asked for is the first or the second.
TypeOK == GridType /\ CacheType /\ LoopType /\ PageType /\ ResultType

\* However many requests the run puts on a node through the proxy, together
\* they never take more of a resource than the node had when it was listed.
\* (fulfils, consume and addNodes, over the whole run.)
NoOvercommit ==
  \A n \in DOMAIN nodes, k \in Checked :
    booked[n][k] <= freeCapacity(nodes[n].Node)[k]

\* A Distinct request gets a node that no assignment it was given holds and
\* that no earlier request of the run was put on, by whichever way.
DistinctFromEarlier ==
  \A j \in DOMAIN placed : placed[j].req.Distinct =>
    /\ \A h \in 1 .. j - 1 : placed[h].node # placed[j].node
    /\ \A x \in DOMAIN assignment :
         (\A h \in DOMAIN placed : placed[h].req.Name # x)
           => assignment[x] # placed[j].node

\* A cached node is never listed again: its attributes stay those it was first
\* listed with, and its free capacity is only ever consumed, never wrapped
\* around or restored by a later page.
CacheOnlyShrinks ==
  [][\A n \in DOMAIN nodes :
       /\ n \in DOMAIN nodes' /\ nodes'[n].Node = nodes[n].Node
       /\ \A k \in Resource :
            nodes'[n].FreeCapacity[k] <= nodes[n].FreeCapacity[k]]_vars

\* A node as it was listed is one to list for request r: it has room for it, and
\* the light features, which do when r has no use for the full ones.
ListedLightFor(r, node) ==
  /\ ~r.Yggdrasil /\ ~r.Wireguard /\ ~r.PublicConfig /\ r.PublicIpsCount = 0
  /\ Light \in node.Features
  /\ r.FarmID # AnyFarm => node.FarmID = r.FarmID
  /\ \A k \in Checked :
       r.Capacity[k] # 0 => node.Total[k] - node.Used[k] >= r.Capacity[k]
  /\ r.Dedicated => node.Dedicated

\* What resource_scheduler.go:66 and :71 say of yggdrasil and wireguard, "pick only
\* nodes supporting" them, is asked of the proxy alone, and the cache is searched
\* without it.  So a request through the proxy that needs the full network gets a
\* node that has it, or one left over from the listing of an earlier request, which
\* needed none.  In particular it gets what it needs when all requests before it
\* need it too.  Every node was up when it was listed.
FeaturesOrLeftOver ==
  \A j \in DOMAIN placed :
    LET r == placed[j].req
        node == nodes[placed[j].node].Node
    IN placed[j].via = "proxy" =>
         /\ node.Up
         /\ r.Yggdrasil \/ r.Wireguard \/ r.PublicConfig \/ r.PublicIpsCount # 0 =>
              \/ Full \in node.Features
              \/ \E h \in 1 .. j - 1 :
                   placed[h].via = "proxy" /\ ListedLightFor(placed[h].req, node)

\* When the run gives up with NoNodesFoundErr on a grid that stood still and
\* whose farms it could look up, the pages asked for have covered the whole
\* listing of the request's own filter, and no node of it will do.
SearchIsExhaustive ==
  pc = "noNodes" /\ drift = 0 /\ ~missed =>
    \A n \in NodeId : Matches(constructFilter(req), n) =>
      /\ n \in DOMAIN nodes
      /\ ~fulfils(n, nodes[n], req,
                  [freeIPs |-> getPublicIPsCount(
                     proxyFarms[nodes[n].Node.FarmID].PublicIps)])

\* How far a run is from its end: the requests left, the calls left for the one
\* at hand, the fallback, the nodes that the page to be asked for leaves over, and
\* the search of the page that was answered.
Rank ==
  LET passed == (l.Page - 1) * l.Size IN
    <<Len(reqs) + 1 - i,
      CASE pc = "next" -> 5 [] pc = "farm" -> 4 [] pc = "ping" -> 3
        [] pc \in {"ask", "search"} -> 2 [] pc \in {"list", "look"} -> 1 [] OTHER -> 0,
      IF f.Features = Full THEN 0 ELSE 1,
      IF passed < Cardinality(NodeId) THEN Cardinality(NodeId) - passed ELSE 0,
      IF pc = "look" THEN 1 ELSE 0>>

Below(r, s) == \E k \in DOMAIN s : r[k] < s[k] /\ \A h \in 1 .. k - 1 : r[h] = s[h]

\* Nothing a run does is done in vain: each of its steps lowers a rank of five
\* natural numbers, and no change of the grid under it raises the rank again, so
\* a run cannot page for ever through a grid that others keep in motion.
StepsProgress ==
  [][/\ Rank' \in [1 .. 5 -> Nat]
     /\ IF drift' = drift THEN Below(Rank', Rank) ELSE Rank' = Rank]_vars

\* The run, as its caller sees it: the requests from the one at hand on are
\* still to be placed, and what is left of a node is what its cached entry says.
Placement == INSTANCE NodePlacement WITH
  Node <- NodeId, Kinds <- Checked, Amounts <- 0 .. Word - 1,
  Queues <- RequestLists, Givens <- Assignments,
  queue  <- SubSeq(reqs, i, Len(reqs)),
  out    <- assignment,
  held   <- assignedNodes,
  left   <- [n \in DOMAIN nodes |-> [k \in Checked |-> nodes[n].FreeCapacity[k]]],
  status <- IF pc \in Running THEN "placing" ELSE pc

\* Paging, the cache and the farmerbot stay behind that promise: requests are
\* placed one by one and in order, on nodes they do not exclude, each taking
\* just its capacity from its node, and "done" means that all were placed.
ImplementsPlacement == Placement!PlacementSpec

\* What scheduler.go:143 says of Schedule, of a request whose light nodes will
\* not do: NoNodesFoundErr means that no full node, seen or not, will do either.
FallbackIsExhaustive ==
  pc = "noNodes" /\ drift = 0 /\ ~missed =>
    \A n \in NodeId \ DOMAIN nodes :
      Matches([constructFilter(req) EXCEPT !.Features = Full], n) =>
        ~fulfils(n, [FreeCapacity |-> freeCapacity(proxyNodes[n]),
                     Node |-> proxyNodes[n]], req,
                 [freeIPs |-> getPublicIPsCount(
                    proxyFarms[proxyNodes[n].FarmID].PublicIps)])

\* What resource_scheduler.go:81 says of public_ips_count: two requests put on
\* one farm can have the ips they require, the farm has so many free.
PublicIPsNotOversold ==
  \A h, j \in DOMAIN placed :
    LET farm(x) == nodes[placed[x].node].Node.FarmID
    IN /\ h < j /\ placed[h].via = "proxy" /\ placed[j].via = "proxy"
       /\ farm(h) = farm(j)
       => placed[h].req.PublicIpsCount + placed[j].req.PublicIpsCount
            <= farms[farm(j)].freeIPs

\* Sizes go to the farmerbot in whole gigabytes, and what it finds is taken
\* unseen.  On a grid that stands still its node falls short of the memory and the
\* disks of a request by less than a gigabyte each, and has all the rest that the
\* options tell of: cores, free public ips, farm, domain, certification.  Of
\* yggdrasil and wireguard they tell nothing (farmer_bot.go:71-110), nor does this.
BotNodeNearlyFits ==
  \A j \in DOMAIN placed :
    placed[j].via = "bot" /\ drift = 0 =>
      LET r == placed[j].req
          node == proxyNodes[placed[j].node]
          free(k) == node.Total[k] - node.Used[k]
      IN /\ free("CRU") >= r.Capacity["CRU"]
         /\ \A k \in Checked : r.Capacity[k] < free(k) + GB
         /\ r.PublicIpsCount <= getPublicIPsCount(proxyFarms[node.FarmID].PublicIps)
         /\ node.FarmID = r.FarmID /\ placed[j].node \notin r.NodeExclude
         /\ r.PublicConfig => node.Domain
         /\ r.Dedicated => node.Dedicated
         /\ r.Certified => node.Certified

=============================================================================
