----------------------- MODULE ScheduledResource_proofs -----------------------
(***************************************************************************)
(* A proof that ScheduledResource implements SchedulerResource: a handler  *)
(* gives the run what the abstract one is given, each step of the run is a *)
(* step of its abstraction, and what the abstract resource is proved to do *)
(* for its user the resource with the real scheduler does.                 *)
(***************************************************************************)
EXTENDS ScheduledResource, Scheduler_proofs

\* The theorems about SchedulerResource, for this resource.
ResP == INSTANCE SchedulerResource_proofs WITH
  Node <- NodeId, Kinds <- Checked, Amounts <- 0 .. Word - 1,
  Queues <- RequestLists, Givens <- Assignments,
  queue  <- SubSeq(reqs, i, Len(reqs)),
  out    <- assignment,
  held   <- assignedNodes,
  left   <- [n \in DOMAIN nodes |-> [k \in Checked |-> nodes[n].FreeCapacity[k]]],
  status <- IF pc \in Running THEN "placing" ELSE pc,
  run    <- [j \in DOMAIN placed |->
               [name |-> placed[j].req.Name, node |-> placed[j].node,
                distinct |-> placed[j].req.Distinct]]

-----------------------------------------------------------------------------
(* The requests a run is given.                                            *)

LEMMA ResourceAssumed ==
  /\ Word \in Nat \ {0} /\ Word32 \in Nat \ {0} /\ MB \in Nat
  /\ Checked \subseteq ResP!Sizes
  /\ \A c \in Configs : c \in Seq(ResP!ConfigRequest)
  /\ MaxApplies \in Nat
<1>1. \A c \in Configs : c \in Seq(ResP!ConfigRequest)
  BY LifeAssumption DEF Res!ConfigRequest, ResP!ConfigRequest
<1> QED BY <1>1, ConstantsAssumption, LifeAssumption DEF Checked, ResP!Sizes

LEMMA RequestIs == ResP!Request = Request
<1>1. ResP!Sizes \cup {"CRU"} = Resource
  BY DEF ResP!Sizes, Resource
<1> QED BY <1>1 DEF ResP!Request, Request, Capacity

LEMMA RequestsGiven ==
  ASSUME config \in Configs, NEW a
  PROVE  Res!parseRequests(config, a) \in Seq(Request)
<1>1. config \in Seq(ResP!ConfigRequest)
  BY ResourceAssumed
<1>2. ResP!Filters(ResP!parseRequests(config, a), config, a, Len(config))
  BY <1>1, ResourceAssumed, ResP!parseRequestsFilters
<1>3. ResP!parseRequests(config, a) \in Seq(Request)
  BY <1>2, RequestIs DEF ResP!Filters
<1>4. ResP!parseRequests(config, a) = Res!parseRequests(config, a)
  BY DEF ResP!parseRequests, Res!parseRequests, ResP!parseRequest, Res!parseRequest,
     ResP!bytes, Res!bytes, ResP!uint32, Res!uint32, ResP!Sizes, Res!Sizes
<1> QED BY <1>3, <1>4

-----------------------------------------------------------------------------
(* The run stays one of Scheduler's.                                       *)

\* A run under way is one of those that Scheduler_proofs is about, and it works
\* for a resource of the configuration with nodes of the grid.
Underway ==
  /\ TypeOK /\ Taken /\ Excluded
  /\ config \in Configs /\ stNodes \in Assignment

LEMMA EmptyIsAssignment == <<>> \in Assignment /\ AssignedNodes(<<>>) = {}
<1>1. <<>> \in [{} -> NodeId]
  OBVIOUS
<1> QED BY <1>1 DEF Assignment, AssignedNodes

LEMMA ZeroIsRequest == ZeroRequest \in Request
<1>1. [k \in Resource |-> 0] \in Capacity
  BY ConstantsAssumption DEF Capacity
<1>2. (CHOOSE x \in Names : TRUE) \in Names
  BY ConstantsAssumption
<1> QED BY <1>1, <1>2 DEF ZeroRequest, Request, AnyFarm

LEMMA NewRunUnderway ==
  ASSUME NEW a \in Assignment, NEW list \in Seq(Request), NewRun(a, list)
  PROVE  (TypeOK /\ Taken /\ Excluded)'
<1> USE DEF NewRun
<1>1. GridType'
  BY ConstantsAssumption, InputsAssumption DEF GridType
<1>2. CacheType'
  BY DEF CacheType
<1>3. LoopType'
  BY ZeroIsRequest DEF LoopType, Running
<1>4. PageType'
  BY ZeroIsRequest, constructFilterType, FirstPageType DEF PageType
<1>5. AssignedNodes(a) \subseteq NodeId
  <2>1. PICK D \in SUBSET Names : a \in [D -> NodeId]
    BY DEF Assignment
  <2> QED BY <2>1 DEF AssignedNodes
<1>6. ResultType'
  BY <1>5 DEF ResultType, EmptyBooking
<1>7. Taken'
  BY DEF Taken, Asking
<1>8. Excluded'
  BY DEF Excluded, AssignedNodes, Asking
<1> QED BY <1>1, <1>2, <1>3, <1>4, <1>6, <1>7, <1>8 DEF TypeOK

LEMMA InitUnderway == LifeInit => Underway
<1> SUFFICES ASSUME LifeInit PROVE Underway
  OBVIOUS
<1> USE DEF LifeInit
<1>1. GridType
  BY ConstantsAssumption, InputsAssumption DEF GridType
<1>2. CacheType
  BY DEF CacheType
<1>3. LoopType
  BY ZeroIsRequest, EmptySeq DEF LoopType, Final
<1>4. PageType
  BY ZeroIsRequest, constructFilterType, FirstPageType DEF PageType
<1>5. ResultType
  BY EmptyIsAssignment, EmptySeq DEF ResultType, EmptyBooking
<1>6. Taken /\ Excluded
  BY DEF Taken, Asking, Excluded
<1> QED BY <1>1, <1>2, <1>3, <1>4, <1>5, <1>6, EmptyIsAssignment DEF TypeOK, Underway

LEMMA UnderwayNext == Underway /\ [LifeNext]_lifeVars => Underway'
<1> SUFFICES ASSUME Underway, [LifeNext]_lifeVars PROVE Underway'
  OBVIOUS
<1>1. ASSUME NEW handler, Starts(handler)
      PROVE  Underway'
  <2>1. NewRun(stNodes, Res!parseRequests(config, stNodes))
    BY <1>1 DEF Starts, Schedules, Res!parseAssignment
  <2>2. Res!parseRequests(config, stNodes) \in Seq(Request)
    BY RequestsGiven DEF Underway
  <2>3. (TypeOK /\ Taken /\ Excluded)'
    BY <2>1, <2>2, NewRunUnderway DEF Underway
  <2> QED BY <1>1, <2>3 DEF Underway, Starts
<1>2. CASE Runs
  <2>1. (TypeOK /\ Taken /\ Excluded)'
    BY <1>2, TypeNext, TakenNext, ExcludedNext DEF Runs, Underway
  <2> QED BY <1>2, <2>1 DEF Underway, Runs, handlerVars
<1>3. ASSUME UNCHANGED vars, config' \in Configs, stNodes' \in Assignment
      PROVE  Underway'
  <2>1. (TypeOK /\ Taken /\ Excluded)'
    BY <1>3, TypeNext, TakenNext, ExcludedNext DEF Underway
  <2> QED BY <1>3, <2>1 DEF Underway
<1>4. CASE Store
  <2>1. stNodes' = assignment /\ config' = config
    BY <1>4 DEF Store, Res!Store
  <2>2. assignment \in Assignment
    BY DEF Underway, TypeOK, ResultType
  <2> QED BY <1>3, <1>4, <2>1, <2>2 DEF Store, Underway
<1>5. CASE ReturnError \/ Crash
  BY <1>3, <1>5 DEF ReturnError, Crash, Res!ReturnError, Res!Crash, Res!stateVars, Underway
<1>6. CASE Edit
  BY <1>3, <1>6 DEF Edit, Res!Edit, Res!stateVars, Underway
<1>7. CASE Delete
  BY <1>3, <1>7, EmptyIsAssignment DEF Delete, Res!Delete, Underway
<1>8. CASE UNCHANGED lifeVars
  BY <1>3, <1>8 DEF lifeVars, handlerVars, Underway
<1> QED BY <1>1, <1>2, <1>4, <1>5, <1>6, <1>7, <1>8 DEF LifeNext, Create, Update

-----------------------------------------------------------------------------
(* The resource with the real scheduler does what the abstract one does.   *)

RunOf == [j \in DOMAIN placed |->
            [name |-> placed[j].req.Name, node |-> placed[j].node,
             distinct |-> placed[j].req.Distinct]]

LEMMA PlacedGrows ==
  ASSUME TypeOK, NEW n \in NodeId, NEW via \in {"proxy", "bot"}, Assign(n, via)
  PROVE  RunOf' = Append(RunOf, [name |-> req.Name, node |-> n, distinct |-> req.Distinct])
<1> DEFINE P == [req |-> req, node |-> n, via |-> via]
           e == [name |-> req.Name, node |-> n, distinct |-> req.Distinct]
           L == Len(placed)
<1>1. /\ placed' = Append(placed, P) /\ L \in Nat /\ DOMAIN placed = 1 .. L
      /\ placed' \in Seq([req : Request, node : NodeId, via : {"proxy", "bot"}])
      /\ Len(placed') = L + 1 /\ DOMAIN placed' = 1 .. (L + 1)
      /\ \A j \in 1 .. L : placed'[j] = placed[j]
      /\ placed'[L + 1] = P
  <2>1. placed \in Seq([req : Request, node : NodeId, via : {"proxy", "bot"}])
    BY DEF TypeOK, ResultType
  <2>2. P \in [req : Request, node : NodeId, via : {"proxy", "bot"}]
    BY DEF TypeOK, LoopType
  <2>3. placed' = Append(placed, P)
    BY DEF Assign
  <2> QED BY <2>1, <2>2, <2>3, AppendProperties, LenProperties
<1>2. RunOf = [j \in 1 .. L |-> RunOf[j]] /\ DOMAIN RunOf = 1 .. L
  BY <1>1 DEF RunOf
<1>3. RunOf \in Seq({RunOf[j] : j \in 1 .. L}) /\ Len(RunOf) = L
  BY <1>1, <1>2
<1>4. /\ DOMAIN Append(RunOf, e) = 1 .. (L + 1)
      /\ \A j \in 1 .. L : Append(RunOf, e)[j] = RunOf[j]
      /\ Append(RunOf, e)[L + 1] = e
      /\ Append(RunOf, e) = [j \in 1 .. (L + 1) |-> Append(RunOf, e)[j]]
  BY <1>1, <1>3
<1>5. RunOf' = [j \in 1 .. (L + 1) |->
                 [name |-> placed'[j].req.Name, node |-> placed'[j].node,
                  distinct |-> placed'[j].req.Distinct]]
  BY <1>1 DEF RunOf
<1>6. ASSUME NEW j \in 1 .. (L + 1)
      PROVE  Append(RunOf, e)[j] = [name |-> placed'[j].req.Name, node |-> placed'[j].node,
                                    distinct |-> placed'[j].req.Distinct]
  BY <1>1, <1>4 DEF RunOf
<1> QED BY <1>4, <1>5, <1>6

LEMMA InitIs == LifeInit => Res!Init
<1> SUFFICES ASSUME LifeInit PROVE Res!Init
  OBVIOUS
<1>1. SubSeq(reqs, i, Len(reqs)) = <<>>
  BY DEF LifeInit
<1>2. DOMAIN nodes = {} /\ DOMAIN placed = {}
  BY DEF LifeInit
<1> QED BY <1>1, <1>2 DEF LifeInit, Res!Init, Running

LEMMA StartsAre ==
  ASSUME Underway, NEW handler, Starts(handler)
  PROVE  Res!Starts(handler)
<1> DEFINE list == Res!parseRequests(config, stNodes)
<1>1. NewRun(stNodes, list)
  BY DEF Starts, Schedules, Res!parseAssignment
<1>2. list \in Seq(Request)
  BY RequestsGiven DEF Underway
<1> HIDE DEF list
<1>3. SubSeq(reqs', i', Len(reqs')) = list
  BY <1>1, <1>2 DEF NewRun
<1>4. DOMAIN nodes' = {} /\ DOMAIN placed' = {} /\ pc' = "next"
  BY <1>1 DEF NewRun
<1>5. assignment' = stNodes /\ assignedNodes' = Res!Holds(stNodes)
  BY <1>1 DEF NewRun, AssignedNodes, Res!Holds
<1> QED BY <1>3, <1>4, <1>5 DEF Starts, Res!Starts, Res!parseAssignment, Res!stateVars,
           Running, list

LEMMA RunsAre ==
  ASSUME Underway, Underway', Runs
  PROVE  [Res!Next]_(Res!vars)
<1>1. /\ TypeOK /\ TypeOK' /\ Taken /\ Excluded /\ [Next]_vars /\ op # "none"
      /\ UNCHANGED handlerVars
  BY DEF Underway, Runs
<1>2. (\E n \in NodeId, via \in {"proxy", "bot"} : Puts(n, via)) \/ PutsNone
  BY <1>1, StepsSeen
<1>3. ASSUME NEW n \in NodeId, NEW via \in {"proxy", "bot"}, Puts(n, via)
      PROVE  Res!PlaceByProxy \/ Res!PlaceByBot
  <2>1. /\ pc \in Asking /\ Assign(n, via)
        /\ Placement!PutByProxy(n) \/ Placement!PutByBot(n)
    BY <1>3 DEF Puts
  <2>2. Head(Queue).Name = req.Name /\ Head(Queue).Distinct = req.Distinct
    BY <1>1, <2>1, QueueHead DEF Taken
  <2>3. RunOf' = Append(RunOf, [name |-> Head(Queue).Name, node |-> n,
                               distinct |-> Head(Queue).Distinct])
    BY <1>1, <2>1, <2>2, PlacedGrows
  <2>4. Res!Placed(n)
    BY <1>1, <2>3 DEF Res!Placed, Res!stateVars, handlerVars, RunOf, Queue
  <2>5. CASE Placement!PutByBot(n)
    <3>1. Res!PutByBot(n)
      BY <2>5 DEF Placement!PutByBot, Res!PutByBot, Placement!PutsOn, Res!PutsOn
    <3> QED BY <1>1, <2>4, <3>1 DEF Res!PlaceByBot
  <2>6. CASE Placement!PutByProxy(n)
    <3>1. Res!PutByProxy(n)
      BY <2>6 DEF Placement!PutByProxy, Res!PutByProxy, Placement!PutsOn, Res!PutsOn,
         Placement!Gives, Res!Gives
    <3>2. [m \in DOMAIN nodes' |-> [k \in Checked |-> nodes'[m].FreeCapacity[k]]] \in Res!Sights
      BY <3>1 DEF Res!PutByProxy, Res!Gives, Res!Sights
    <3> QED BY <1>1, <2>4, <3>1, <3>2 DEF Res!PlaceByProxy
  <2> QED BY <2>1, <2>5, <2>6
<1>4. CASE PutsNone
  <2>1. UNCHANGED Res!resourceVars
    BY <1>1, <1>4 DEF PutsNone, Res!resourceVars, Res!stateVars, handlerVars
  <2>2. CASE Placement!Look
    <3>1. Res!Look
      BY <2>2 DEF Placement!Look, Res!Look, Placement!Gives, Res!Gives, Placement!Nothing,
         Res!Nothing
    <3>2. [m \in DOMAIN nodes' |-> [k \in Checked |-> nodes'[m].FreeCapacity[k]]] \in Res!Sights
      BY <3>1 DEF Res!Look, Res!Gives, Res!Sights
    <3> QED BY <1>1, <2>1, <3>1, <3>2 DEF Res!RunLooks, Res!Next
  <2>3. CASE Placement!GiveUp
    BY <1>1, <2>1, <2>3 DEF Placement!GiveUp, Res!GiveUp, Res!RunFails, Res!Next
  <2>4. CASE Placement!Return
    BY <1>1, <2>1, <2>4 DEF Placement!Return, Res!Return, Res!RunReturns, Res!Next
  <2>5. CASE UNCHANGED Placement!placementVars
    BY <2>1, <2>5 DEF Placement!placementVars, Res!placementVars, Res!vars
  <2> QED BY <1>4, <2>2, <2>3, <2>4, <2>5 DEF PutsNone
<1> QED BY <1>2, <1>3, <1>4 DEF Res!Next

LEMMA NextIs ==
  Underway /\ Underway' /\ [LifeNext]_lifeVars => [Res!Next]_(Res!vars)
<1> SUFFICES ASSUME Underway, Underway', [LifeNext]_lifeVars
             PROVE  [Res!Next]_(Res!vars)
  OBVIOUS
<1>1. CASE Create \/ Update
  BY <1>1, StartsAre DEF Create, Update, Starts, Res!Create, Res!Update, Res!Next
<1>2. CASE Runs
  BY <1>2, RunsAre
<1>3. CASE Store \/ ReturnError \/ Crash \/ Edit \/ Delete
  BY <1>3 DEF Store, ReturnError, Crash, Edit, Delete, Res!Next
<1>4. CASE UNCHANGED lifeVars
  BY <1>4 DEF lifeVars, vars, handlerVars, cacheVars, loopVars, asgVars, Res!vars,
     Res!placementVars, Res!resourceVars, Res!stateVars
<1> QED BY <1>1, <1>2, <1>3, <1>4 DEF LifeNext

LEMMA AlwaysUnderway == LifeSpec => []Underway
BY InitUnderway, UnderwayNext, PTL DEF LifeSpec

\* A grid_scheduler that runs the real scheduler does only what one may do that
\* runs its abstraction, whatever the grid, the requests and the failures.
THEOREM ResourceImplements == LifeSpec => ImplementsResource
BY AlwaysUnderway, InitIs, NextIs, PTL DEF LifeSpec, ImplementsResource, Res!Spec

-----------------------------------------------------------------------------
(* What that means to the user.                                            *)

\* The two instances of SchedulerResource are of the same definitions.
LEMMA SameVars == UNCHANGED Res!vars <=> UNCHANGED ResP!vars
BY DEF Res!vars, ResP!vars, Res!placementVars, ResP!placementVars, Res!resourceVars,
   ResP!resourceVars, Res!stateVars, ResP!stateVars

LEMMA SameSpec == Res!Spec => ResP!Spec
<1>1. Res!Init => ResP!Init
  BY DEF Res!Init, ResP!Init
<1>2. /\ Res!Starts("create") <=> ResP!Starts("create")
      /\ Res!Starts("update") <=> ResP!Starts("update")
  BY DEF Res!Starts, ResP!Starts, Res!Holds, ResP!Holds, Res!parseAssignment,
     ResP!parseAssignment, Res!parseRequests, ResP!parseRequests, Res!parseRequest,
     ResP!parseRequest, Res!bytes, ResP!bytes, Res!uint32, ResP!uint32, Res!Sizes,
     ResP!Sizes, Res!stateVars, ResP!stateVars
<1>3. Res!Edit \/ Res!Create \/ Res!Update => ResP!Edit \/ ResP!Create \/ ResP!Update
  BY <1>2 DEF Res!Edit, ResP!Edit, Res!Create, ResP!Create, Res!Update, ResP!Update,
     Res!placementVars, ResP!placementVars, Res!stateVars, ResP!stateVars
<1>4. Res!PlaceByProxy \/ Res!PlaceByBot => ResP!PlaceByProxy \/ ResP!PlaceByBot
  BY DEF Res!PlaceByProxy, ResP!PlaceByProxy, Res!PlaceByBot, ResP!PlaceByBot, Res!Placed,
     ResP!Placed, Res!Sights, ResP!Sights, Res!PutByProxy, ResP!PutByProxy, Res!PutByBot,
     ResP!PutByBot, Res!PutsOn, ResP!PutsOn, Res!Gives, ResP!Gives, Res!stateVars,
     ResP!stateVars
<1>5. Res!RunLooks \/ Res!RunFails \/ Res!RunReturns
        => ResP!RunLooks \/ ResP!RunFails \/ ResP!RunReturns
  BY DEF Res!RunLooks, ResP!RunLooks, Res!RunFails, ResP!RunFails, Res!RunReturns,
     ResP!RunReturns, Res!Look, ResP!Look, Res!GiveUp, ResP!GiveUp, Res!Return,
     ResP!Return, Res!Gives, ResP!Gives, Res!Nothing, ResP!Nothing, Res!Sights,
     ResP!Sights, Res!resourceVars, ResP!resourceVars, Res!stateVars, ResP!stateVars
<1>6. Res!Store \/ Res!ReturnError \/ Res!Crash \/ Res!Delete
        => ResP!Store \/ ResP!ReturnError \/ ResP!Crash \/ ResP!Delete
  BY DEF Res!Store, ResP!Store, Res!ReturnError, ResP!ReturnError, Res!Crash, ResP!Crash,
     Res!Delete, ResP!Delete, Res!Succeeded, ResP!Succeeded, Res!placementVars,
     ResP!placementVars, Res!stateVars, ResP!stateVars
<1>7. [Res!Next]_(Res!vars) => [ResP!Next]_(ResP!vars)
  BY <1>3, <1>4, <1>5, <1>6, SameVars DEF Res!Next, ResP!Next
<1> QED BY <1>1, <1>7, PTL DEF Res!Spec, ResP!Spec

LEMMA LifeIs == LifeSpec => ResP!Spec
BY ResourceImplements, SameSpec DEF ImplementsResource

\* A request that has its node keeps it: the runs of later applies leave it where
\* it is, whether they succeed, fail at some call or are killed between two.
THEOREM NodesStay == LifeSpec => Res!AssignmentStable
<1>1. ResP!Spec => ResP!AssignmentStable
  BY ResP!AssignmentsStay, ResourceAssumed
<1>2. [exists /\ exists' =>
         \A x \in DOMAIN stNodes :
           x \in DOMAIN stNodes' /\ stNodes'[x] = stNodes[x]]_(ResP!vars)
      => [exists /\ exists' =>
            \A x \in DOMAIN stNodes :
              x \in DOMAIN stNodes' /\ stNodes'[x] = stNodes[x]]_(Res!vars)
  BY SameVars
<1> QED BY <1>1, <1>2, LifeIs, PTL DEF Res!AssignmentStable, ResP!AssignmentStable

\* However the proxy lists the grid and the farmerbots choose, a request that was
\* distinct when it was placed shares its node with none placed in an apply before.
THEOREM DistinctStays == LifeSpec => []Res!DistinctAcrossUpdates
<1>1. ResP!Spec => []ResP!DistinctAcrossUpdates
  BY ResP!DistinctStays, ResourceAssumed
<1>2. ResP!DistinctAcrossUpdates => Res!DistinctAcrossUpdates
  BY DEF ResP!DistinctAcrossUpdates, Res!DistinctAcrossUpdates
<1> QED BY <1>1, <1>2, LifeIs, PTL

\* An apply that ends well leaves every request of the configuration with a node.
THEOREM AppliesPlace == LifeSpec => []Res!AppliedIsPlaced
<1>1. ResP!Spec => []ResP!AppliedIsPlaced
  BY ResP!AppliesPlace, ResourceAssumed
<1>2. ResP!AppliedIsPlaced => Res!AppliedIsPlaced
  BY DEF ResP!AppliedIsPlaced, Res!AppliedIsPlaced
<1> QED BY <1>1, <1>2, LifeIs, PTL

-----------------------------------------------------------------------------
(* What is proved of a run holds of the runs of a resource.                *)

\* What each run keeps, with its own cache, from its own start.
Kept ==
  /\ Conserved /\ DistinctFromEarlier /\ BotNodeNearlyFits
  /\ Origin /\ Filtered /\ PlacedCached /\ FeaturesOrLeftOver
  /\ Searched /\ Counted

LEMMA InitKept == LifeInit => Kept
<1> SUFFICES ASSUME LifeInit PROVE Kept
  OBVIOUS
<1> USE DEF LifeInit
<1>1. Conserved
  BY CheckedResources DEF Conserved, EmptyBooking
<1>2. DistinctFromEarlier /\ BotNodeNearlyFits
  BY DEF DistinctFromEarlier, BotNodeNearlyFits
<1>3. Searched /\ Counted
  BY DEF Searched, FarmsFresh, PagesCover, NoneFits, Counted, FirstPage
<1>4. Origin /\ Filtered /\ PlacedCached /\ FeaturesOrLeftOver
  BY DEF Origin, Filtered, PlacedCached, FeaturesOrLeftOver
<1> QED BY <1>1, <1>2, <1>3, <1>4 DEF Kept

LEMMA RunKept == TypeOK /\ Taken /\ Excluded /\ Kept /\ [Next]_vars => Kept'
BY ConservedNext, DistinctNext, OriginNext, NearlyFitsNext, SearchedNext, CountedNext
   DEF Kept

LEMMA KeptNext == Underway /\ Kept /\ [LifeNext]_lifeVars => Kept'
<1> SUFFICES ASSUME Underway, Kept, [LifeNext]_lifeVars PROVE Kept'
  OBVIOUS
<1>1. ASSUME NEW handler, Starts(handler)
      PROVE  Kept'
  <2>1. NewRun(stNodes, Res!parseRequests(config, stNodes))
    BY <1>1 DEF Starts, Schedules, Res!parseAssignment
  <2>2. Res!parseRequests(config, stNodes) \in Seq(Request)
    BY RequestsGiven DEF Underway
  <2>3. /\ nodes' = <<>> /\ farms' = <<>> /\ placed' = <<>> /\ booked' = EmptyBooking
        /\ i' = 1 /\ reqs' \in Seq(Request) /\ l' = FirstPage /\ pc' = "next"
    BY <2>1, <2>2 DEF NewRun
  <2>4. Conserved'
    BY <2>3, CheckedResources DEF Conserved, EmptyBooking
  <2>5. (DistinctFromEarlier /\ BotNodeNearlyFits)'
    BY <2>3 DEF DistinctFromEarlier, BotNodeNearlyFits
  <2>6. Searched'
    BY <2>3 DEF Searched, FarmsFresh, PagesCover, NoneFits
  <2>7. Counted'
    BY <2>3 DEF Counted, FirstPage
  <2>8. (Origin /\ Filtered /\ PlacedCached /\ FeaturesOrLeftOver)'
    BY <2>3 DEF Origin, Filtered, PlacedCached, FeaturesOrLeftOver
  <2> QED BY <2>4, <2>5, <2>6, <2>7, <2>8 DEF Kept
<1>2. [Next]_vars \/ \E handler : Starts(handler)
  BY DEF LifeNext, Create, Update, Runs, Store, ReturnError, Crash, Edit, Delete, lifeVars
<1> QED BY <1>1, <1>2, RunKept DEF Underway

LEMMA AlwaysKept == LifeSpec => [](Underway /\ Kept)
BY InitUnderway, UnderwayNext, InitKept, KeptNext, PTL DEF LifeSpec

\* What a run promises holds of every run of the resource, which is given its
\* requests and nodes by a handler, on a grid that has changed since the run before:
\* capacity, distinctness, features, what the farmerbot's node may lack,
\* and that giving up means that nothing would do.
THEOREM RunsHold ==
  LifeSpec => [](/\ NoOvercommit /\ DistinctFromEarlier /\ FeaturesOrLeftOver
                 /\ BotNodeNearlyFits /\ SearchIsExhaustive)
<1>1. Underway /\ Kept => /\ NoOvercommit /\ DistinctFromEarlier /\ FeaturesOrLeftOver
                          /\ BotNodeNearlyFits /\ SearchIsExhaustive
  BY ConservedSuffices, SearchedSuffices DEF Underway, Kept
<1> QED BY <1>1, AlwaysKept, PTL

\* While a handler is at work it returns, is killed, or takes a step that lowers
\* the rank of its run; others may change the grid, MaxDrift times, and raise it not.
HandlersProgress ==
  [][op # "none" /\ op' # "none" =>
       \/ drift' = drift /\ Below(Rank', Rank)
       \/ drift' = drift + 1 /\ drift' <= MaxDrift /\ Rank' = Rank]_lifeVars

\* No handler is at work for ever: with the ranks of RunsEnd, which are five natural
\* numbers, only finitely many steps lie between its call and its end.
THEOREM HandlersEnd == LifeSpec => HandlersProgress
<1>1. ASSUME Underway, Underway', Kept, Kept', LifeNext, op # "none", op' # "none"
      PROVE  \/ drift' = drift /\ Below(Rank', Rank)
             \/ drift' = drift + 1 /\ drift' <= MaxDrift /\ Rank' = Rank
  <2>1. Next
    BY <1>1 DEF LifeNext, Create, Update, Starts, Runs, Store, ReturnError, Crash, Edit,
       Delete, Res!Store, Res!ReturnError, Res!Crash, Res!Edit, Res!Delete
  <2>2. IF drift' = drift THEN Below(Rank', Rank) ELSE Rank' = Rank
    BY <1>1, <2>1, ProgressNext DEF Underway, Kept
  <2>3. drift' = drift \/ (drift' = drift + 1 /\ drift < MaxDrift)
    BY <2>1 DEF Next, Step, TakeRequest, ReturnAssignment, FarmFound, FarmNotFound,
       BotAnswersPing, BotSilent, BotFindsNode, BotFails, Search, SearchCache, ListFails,
       NoNodesFound, FallBackToFull, ListPage, SearchPage, OtherTenant, gridVars
  <2>4. drift \in Nat /\ MaxDrift \in Nat
    BY <1>1, ConstantsAssumption DEF Underway, TypeOK, GridType
  <2> QED BY <2>2, <2>3, <2>4
<1>2. Underway /\ Underway' /\ Kept /\ Kept' /\ [LifeNext]_lifeVars =>
        [op # "none" /\ op' # "none" =>
           \/ drift' = drift /\ Below(Rank', Rank)
           \/ drift' = drift + 1 /\ drift' <= MaxDrift /\ Rank' = Rank]_lifeVars
  BY <1>1
<1> QED BY <1>2, AlwaysKept, PTL DEF LifeSpec, HandlersProgress
=============================================================================
