----------------------- MODULE SchedulerResource_proofs -----------------------
(***************************************************************************)
(* Proofs about SchedulerResource: its types, and that over any number of  *)
(* applies a request keeps its node, a distinct one shares it with none    *)
(* placed before it, and an apply that ends well leaves none without.      *)
(***************************************************************************)
EXTENDS SchedulerResource, SequenceTheorems, WellFoundedInduction, TLAPS

\* What induction comes to here: a set of naturals has a least member.
LEMMA LeastMember ==
  ASSUME NEW T \in SUBSET Nat, T # {}
  PROVE  \E m \in T : \A k \in T : m <= k
<1> DEFINE R == OpToRel(<, Nat)
<1>1. IsWellFoundedOn(R, Nat)
  BY NatLessThanWellFounded
<1>2. R = {s \in Nat \X Nat : s[1] < s[2]}
  BY DEF OpToRel
<1> HIDE DEF R
<1>3. PICK m \in T : \A k \in T : ~ (<<k, m>> \in R)
  BY <1>1, WFMin
<1>4. ASSUME NEW k \in T, k < m PROVE FALSE
  <2>1. <<k, m>> \in Nat \X Nat /\ <<k, m>>[1] < <<k, m>>[2]
    BY <1>4
  <2>2. <<k, m>> \in R
    BY <1>2, <2>1
  <2> QED BY <1>3, <2>2
<1>5. \A k \in T : m <= k
  BY <1>4
<1> QED BY <1>5

-----------------------------------------------------------------------------
(* What parseRequests returns.                                             *)

Request == [Name : Names, Capacity : [Sizes \cup {"CRU"} -> Amounts], FarmID : Nat,
            PublicConfig : BOOLEAN, PublicIpsCount : Nat,
            Certified : BOOLEAN, Dedicated : BOOLEAN,
            NodeExclude : SUBSET Node, Distinct : BOOLEAN,
            Yggdrasil : BOOLEAN, Wireguard : BOOLEAN]

LEMMA ConvertedTypes ==
  ASSUME NEW x \in Int
  PROVE  uint32(x) \in Nat /\ bytes(x) \in Amounts
<1>1. \A y \in Int, w \in Nat \ {0} : y % w \in 0 .. w - 1
  OBVIOUS
<1>2. x * MB \in Int
  BY ResourceAssumption
<1> QED BY <1>1, <1>2, ResourceAssumption DEF uint32, bytes

LEMMA parseRequestIs ==
  ASSUME NEW r \in ConfigRequest
  PROVE  parseRequest(r) \in Request /\ parseRequest(r).Name = r.name
<1>1. /\ uint32(r.farm_id) \in Nat /\ uint32(r.public_ips_count) \in Nat
      /\ bytes(r.mru) \in Amounts /\ bytes(r.sru) \in Amounts
      /\ bytes(r.hru) \in Amounts
  BY ConvertedTypes DEF ConfigRequest
<1>2. 0 \in Amounts
  BY ResourceAssumption
<1> QED BY <1>1, <1>2 DEF parseRequest, ConfigRequest, Request, Sizes

\* One round of its loop, on the requests g has for the rounds before.
Round(list, assignment, g, n) ==
  IF n = 0 THEN <<>>
  ELSE IF list[n].name \in DOMAIN assignment THEN g[n - 1]
       ELSE Append(g[n - 1], parseRequest(list[n]))

\* The loop can be run for any number of rounds.
LEMMA RoundsExist ==
  ASSUME NEW list, NEW assignment, NEW len \in Nat
  PROVE  \E g : g = [n \in 0 .. len |-> Round(list, assignment, g, n)]
<1> DEFINE Runs(m) == \E g : g = [n \in 0 .. m |-> Round(list, assignment, g, n)]
           T == {m \in Nat : ~ Runs(m)}
<1>1. SUFFICES ASSUME T # {} PROVE FALSE
  OBVIOUS
<1> HIDE DEF Runs
<1>2. PICK m \in T : \A k \in T : m <= k
  BY <1>1, LeastMember
<1>3. CASE m = 0
  <2> DEFINE g == [n \in 0 .. 0 |-> <<>>]
  <2>1. g = [n \in 0 .. 0 |-> Round(list, assignment, g, n)]
    BY DEF Round
  <2>2. Runs(0)
    BY <2>1 DEF Runs
  <2> QED BY <1>3, <2>2
<1>4. CASE m # 0
  <2>1. m \in Nat /\ m - 1 \in Nat /\ m - 1 \notin T
    BY <1>2, <1>4
  <2>2. Runs(m - 1)
    BY <2>1
  <2>3. PICK g : g = [n \in 0 .. (m - 1) |-> Round(list, assignment, g, n)]
    BY <2>2 DEF Runs
  <2> DEFINE h == [n \in 0 .. m |-> IF n = m THEN Round(list, assignment, g, m) ELSE g[n]]
  <2>4. ASSUME NEW n \in 0 .. m PROVE h[n] = Round(list, assignment, h, n)
    <3>1. n # 0 => h[n - 1] = g[n - 1]
      BY <2>1
    <3>2. Round(list, assignment, h, n) = Round(list, assignment, g, n)
      BY <3>1 DEF Round
    <3>3. CASE n = m
      BY <3>2, <3>3
    <3>4. CASE n # m
      <4>1. n \in 0 .. (m - 1)
        BY <2>1, <3>4
      <4>2. g[n] = Round(list, assignment, g, n)
        BY <2>3, <4>1
      <4> QED BY <3>2, <3>4, <4>2
    <3> QED BY <3>3, <3>4
  <2>5. h = [n \in 0 .. m |-> Round(list, assignment, h, n)]
    BY <2>4
  <2>6. Runs(m)
    BY <2>5 DEF Runs
  <2> QED BY <1>2, <2>6
<1> QED BY <1>3, <1>4

LEMMA parseRequestsRuns ==
  ASSUME NEW list, NEW assignment, Len(list) \in Nat
  PROVE  \E g : /\ \A n \in 0 .. Len(list) : g[n] = Round(list, assignment, g, n)
                /\ parseRequests(list, assignment) = g[Len(list)]
<1> DEFINE IsRun(g) == g = [n \in 0 .. Len(list) |-> Round(list, assignment, g, n)]
           reqs == CHOOSE g : IsRun(g)
<1>1. parseRequests(list, assignment) = reqs[Len(list)]
  BY DEF parseRequests, Round
<1>2. \E g : IsRun(g)
  BY RoundsExist
<1> HIDE DEF IsRun
<1>3. IsRun(reqs)
  BY <1>2
<1> HIDE DEF reqs
<1>4. \A n \in 0 .. Len(list) : reqs[n] = Round(list, assignment, reqs, n)
  BY <1>3 DEF IsRun
<1> QED BY <1>1, <1>4

\* The queue has the requests without a node, and no other.
Filters(q, list, assignment, n) ==
  /\ q \in Seq(Request)
  /\ \A j \in 1 .. Len(q) : q[j].Name \notin DOMAIN assignment
  /\ \A j \in 1 .. n : \/ list[j].name \in DOMAIN assignment
                       \/ \E k \in 1 .. Len(q) : q[k].Name = list[j].name

LEMMA RoundFilters ==
  ASSUME NEW list \in Seq(ConfigRequest), NEW assignment, NEW g, NEW n \in 1 .. Len(list),
         Filters(g[n - 1], list, assignment, n - 1)
  PROVE  Filters(Round(list, assignment, g, n), list, assignment, n)
<1> DEFINE q == g[n - 1]
           r == parseRequest(list[n])
<1>1. list[n] \in ConfigRequest /\ n # 0 /\ n \in Nat
  BY LenProperties
<1>2. r \in Request /\ r.Name = list[n].name
  BY <1>1, parseRequestIs
<1>3. /\ q \in Seq(Request)
      /\ \A j \in 1 .. Len(q) : q[j].Name \notin DOMAIN assignment
      /\ \A j \in 1 .. (n - 1) : \/ list[j].name \in DOMAIN assignment
                                 \/ \E k \in 1 .. Len(q) : q[k].Name = list[j].name
  BY DEF Filters
<1>4. Round(list, assignment, g, n)
        = IF list[n].name \in DOMAIN assignment THEN q ELSE Append(q, r)
  BY <1>1 DEF Round
<1> HIDE DEF q, r
<1>5. CASE list[n].name \in DOMAIN assignment
  <2>1. Round(list, assignment, g, n) = q
    BY <1>4, <1>5
  <2> QED BY <1>1, <1>3, <1>5, <2>1 DEF Filters
<1>6. CASE list[n].name \notin DOMAIN assignment
  <2> DEFINE a == Append(q, r)
  <2>1. /\ a \in Seq(Request) /\ Len(a) = Len(q) + 1 /\ Len(q) \in Nat
        /\ \A j \in 1 .. Len(q) : a[j] = q[j]
        /\ a[Len(q) + 1] = r
    BY <1>2, <1>3, AppendProperties, LenProperties
  <2>2. Round(list, assignment, g, n) = a
    BY <1>4, <1>6
  <2> HIDE DEF a
  <2>3. \A j \in 1 .. Len(a) : a[j].Name \notin DOMAIN assignment
    BY <1>2, <1>3, <1>6, <2>1
  <2>4. ASSUME NEW j \in 1 .. n
        PROVE  \/ list[j].name \in DOMAIN assignment
               \/ \E k \in 1 .. Len(a) : a[k].Name = list[j].name
    <3>1. CASE j = n
      <4>1. Len(a) \in 1 .. Len(a) /\ a[Len(a)].Name = list[j].name
        BY <1>2, <2>1, <3>1
      <4> QED BY <4>1
    <3>2. CASE j # n
      <4>1. j \in 1 .. (n - 1)
        BY <1>1, <3>2
      <4>2. 1 .. Len(q) \subseteq 1 .. Len(a)
        BY <2>1
      <4> QED BY <1>3, <2>1, <4>1, <4>2
    <3> QED BY <3>1, <3>2
  <2> QED BY <2>1, <2>2, <2>3, <2>4 DEF Filters
<1> QED BY <1>5, <1>6

LEMMA parseRequestsFilters ==
  ASSUME NEW list \in Seq(ConfigRequest), NEW assignment
  PROVE  Filters(parseRequests(list, assignment), list, assignment, Len(list))
<1>1. Len(list) \in Nat
  BY LenProperties
<1>2. PICK g : /\ \A n \in 0 .. Len(list) : g[n] = Round(list, assignment, g, n)
               /\ parseRequests(list, assignment) = g[Len(list)]
  BY <1>1, parseRequestsRuns
<1> DEFINE T == {n \in 0 .. Len(list) : ~ Filters(g[n], list, assignment, n)}
<1>3. ASSUME T # {} PROVE FALSE
  <2>1. PICK m \in T : \A k \in T : m <= k
    <3>1. T \in SUBSET Nat
      BY <1>1
    <3> QED BY <1>3, <3>1, LeastMember
  <2>2. CASE m = 0
    <3>1. g[0] = <<>>
      BY <1>1, <1>2 DEF Round
    <3>2. Filters(g[0], list, assignment, 0)
      BY <3>1 DEF Filters
    <3> QED BY <2>1, <2>2, <3>2
  <2>3. CASE m # 0
    <3>1. m \in 1 .. Len(list) /\ m - 1 \in 0 .. Len(list) /\ m - 1 \notin T
      BY <1>1, <2>1, <2>3
    <3>2. Filters(g[m - 1], list, assignment, m - 1)
      BY <3>1
    <3>3. Filters(Round(list, assignment, g, m), list, assignment, m)
      BY <3>1, <3>2, RoundFilters
    <3>4. g[m] = Round(list, assignment, g, m)
      BY <1>2, <3>1
    <3> QED BY <2>1, <3>3, <3>4
  <2> QED BY <2>2, <2>3
<1>4. Filters(g[Len(list)], list, assignment, Len(list))
  BY <1>1, <1>3
<1> QED BY <1>2, <1>4
-----------------------------------------------------------------------------
(* The handlers.                                                           *)

Entry == [name : Names, node : Node, distinct : BOOLEAN]

\* The queue of a handler at work has requests without a node only; the others of
\* the configuration are in the assignment, which begins with the nodes of the state.
Working ==
  /\ queue \in Seq(Request) /\ run \in Seq(Entry) /\ kept \in Seq(Entry)
  /\ op = "update" => exists
  /\ op # "none" =>
       /\ \A x \in DOMAIN stNodes : x \in DOMAIN out /\ out[x] = stNodes[x]
       /\ \A j \in 1 .. Len(queue) : queue[j].Name \notin DOMAIN stNodes
       /\ \A j \in 1 .. Len(config) :
            \/ config[j].name \in DOMAIN out
            \/ \E k \in 1 .. Len(queue) : queue[k].Name = config[j].name
       /\ status = "done" => queue = <<>>

LEMMA EmptyHolds == DOMAIN <<>> = {} /\ Holds(<<>>) = {}
BY DEF Holds

LEMMA configIs == config \in Configs => config \in Seq(ConfigRequest)
BY ResourceAssumption

\* What a placement does to the variables of a run.
LEMMA PutIs ==
  ASSUME TypeOK, Working, NEW n \in Node, PutsOn(n), Placed(n), op # "none",
         NEW r, r = Head(queue)
  PROVE  /\ r \in Request /\ r.Name \notin DOMAIN stNodes
         /\ queue' \in Seq(Request) /\ Len(queue) \in Nat
         /\ 1 \in 1 .. Len(queue) /\ queue[1] = r
         /\ Len(queue') = Len(queue) - 1
         /\ \A j \in 1 .. Len(queue') : j + 1 \in 1 .. Len(queue) /\ queue'[j] = queue[j + 1]
         /\ DOMAIN out' = DOMAIN out \cup {r.Name} /\ out'[r.Name] = n
         /\ \A x \in DOMAIN out \ {r.Name} : out'[x] = out[x]
         /\ held' = held \cup {n} /\ (r.Distinct => n \notin held)
         /\ run' = Append(run, [name |-> r.Name, node |-> n, distinct |-> r.Distinct])
         /\ [name |-> r.Name, node |-> n, distinct |-> r.Distinct] \in Entry
         /\ status = "placing" /\ status' = status
         /\ UNCHANGED <<config, exists, stRequests, stNodes, kept, op, applies, last>>
<1>1. queue # <<>> /\ queue \in Seq(Request)
  BY DEF PutsOn, Working
<1>2. /\ r = queue[1] /\ r \in Request /\ queue' = Tail(queue) /\ queue' \in Seq(Request)
      /\ Len(queue) \in Nat /\ Len(queue) # 0 /\ Len(queue') = Len(queue) - 1
      /\ \A j \in 1 .. Len(queue') : queue'[j] = queue[j + 1]
  BY <1>1, HeadTailProperties, LenProperties, EmptySeq DEF PutsOn
<1>3. 1 \in 1 .. Len(queue) /\ \A j \in 1 .. Len(queue') : j + 1 \in 1 .. Len(queue)
  BY <1>2
<1>4. r.Name \notin DOMAIN stNodes
  BY <1>2, <1>3 DEF Working
<1>5. /\ DOMAIN out' = DOMAIN out \cup {r.Name} /\ out'[r.Name] = n
      /\ \A x \in DOMAIN out \ {r.Name} : out'[x] = out[x]
  BY DEF PutsOn
<1>6. /\ held' = held \cup {n} /\ (r.Distinct => n \notin held)
      /\ status = "placing" /\ status' = status
  BY DEF PutsOn
<1>7. /\ run' = Append(run, [name |-> r.Name, node |-> n, distinct |-> r.Distinct])
      /\ UNCHANGED <<config, exists, stRequests, stNodes, kept, op, applies, last>>
  BY DEF Placed, stateVars
<1>8. [name |-> r.Name, node |-> n, distinct |-> r.Distinct] \in Entry
  BY <1>2 DEF Request, Entry
<1> QED BY <1>2, <1>3, <1>4, <1>5, <1>6, <1>7, <1>8

\* Both ways of placing are one here.
Put == op # "none" /\ \E n \in Node : PutsOn(n) /\ Placed(n)

LEMMA PutCases == PlaceByProxy \/ PlaceByBot => Put
BY DEF PlaceByProxy, PlaceByBot, PutByProxy, PutByBot, Put

LEMMA TypeNext == TypeOK /\ Working /\ [Next]_vars => TypeOK'
<1> SUFFICES ASSUME TypeOK, Working, [Next]_vars PROVE TypeOK'
  OBVIOUS
<1>1. CASE Create \/ Update
  <2>1. PICK handler \in {"create", "update"} : Starts(handler) /\ applies < MaxApplies
    BY <1>1 DEF Create, Update
  <2>2. /\ op' = handler /\ applies' = applies + 1 /\ status' = "placing"
        /\ out' = stNodes /\ held' = Holds(stNodes)
        /\ UNCHANGED <<config, exists, stRequests, stNodes, last>>
    BY <2>1 DEF Starts, parseAssignment, stateVars
  <2>3. applies' \in 0 .. MaxApplies
    BY <2>1, <2>2, ResourceAssumption DEF TypeOK
  <2> QED BY <2>1, <2>2, <2>3 DEF TypeOK, Holds
<1>2. CASE Put
  <2>1. PICK n \in Node : PutsOn(n) /\ Placed(n) /\ op # "none"
    BY <1>2 DEF Put
  <2> DEFINE r == Head(queue)
  <2>2. /\ r \in Request /\ DOMAIN out' = DOMAIN out \cup {r.Name} /\ out'[r.Name] = n
        /\ \A x \in DOMAIN out \ {r.Name} : out'[x] = out[x]
        /\ held' = held \cup {n} /\ status = "placing" /\ status' = status
        /\ UNCHANGED <<config, exists, stRequests, stNodes, kept, op, applies, last>>
    BY <2>1, PutIs
  <2>3. r.Name \in Names
    BY <2>2 DEF Request
  <2> HIDE DEF r
  <2>4. DOMAIN out' \subseteq Names /\ Holds(out') \subseteq held' /\ held' \subseteq Node
    BY <2>2, <2>3 DEF TypeOK, Holds
  <2> QED BY <2>2, <2>4 DEF TypeOK
<1>3. CASE RunLooks \/ RunFails \/ RunReturns
  BY <1>3 DEF RunLooks, RunFails, RunReturns, Look, GiveUp, Return, resourceVars, stateVars, TypeOK
<1>4. CASE Store
  <2>1. DOMAIN out \subseteq Names /\ Holds(out) \subseteq Node
    BY DEF TypeOK
  <2> QED BY <1>4, <2>1 DEF Store, placementVars, TypeOK
<1>5. CASE ReturnError
  BY <1>5 DEF ReturnError, placementVars, TypeOK, Working
<1>6. CASE Edit
  BY <1>6 DEF Edit, placementVars, stateVars, TypeOK
<1>7. CASE Crash
  BY <1>7 DEF Crash, placementVars, stateVars, TypeOK
<1>8. CASE Delete
  BY <1>8, EmptyHolds DEF Delete, placementVars, TypeOK
<1>9. CASE UNCHANGED vars
  BY <1>9 DEF vars, placementVars, resourceVars, stateVars, TypeOK
<1> QED BY <1>1, <1>2, <1>3, <1>4, <1>5, <1>6, <1>7, <1>8, <1>9, PutCases DEF Next

LEMMA WorkingNext == TypeOK /\ Working /\ [Next]_vars => Working'
<1> SUFFICES ASSUME TypeOK, Working, [Next]_vars PROVE Working'
  OBVIOUS
<1>0. <<>> \in Seq(Entry) /\ <<>> \in Seq(Request)
  BY EmptySeq
<1>1. CASE Create \/ Update
  <2>1. /\ queue' = parseRequests(config, stNodes) /\ run' = <<>> /\ status' = "placing"
        /\ out' = stNodes /\ UNCHANGED <<config, exists, stNodes, kept>>
        /\ (op' = "update" => exists)
    BY <1>1 DEF Create, Update, Starts, parseAssignment, stateVars
  <2>2. Filters(queue', config, stNodes, Len(config))
    <3>1. config \in Seq(ConfigRequest)
      BY configIs DEF TypeOK
    <3> QED BY <2>1, <3>1, parseRequestsFilters
  <2> QED BY <1>0, <2>1, <2>2 DEF Working, Filters
<1>2. CASE Put
  <2>1. PICK n \in Node : PutsOn(n) /\ Placed(n) /\ op # "none"
    BY <1>2 DEF Put
  <2> DEFINE r == Head(queue)
             e == [name |-> r.Name, node |-> n, distinct |-> r.Distinct]
  <2>2. /\ r.Name \notin DOMAIN stNodes
        /\ queue' \in Seq(Request) /\ Len(queue) \in Nat
        /\ 1 \in 1 .. Len(queue) /\ queue[1] = r
        /\ Len(queue') = Len(queue) - 1
        /\ \A j \in 1 .. Len(queue') : j + 1 \in 1 .. Len(queue) /\ queue'[j] = queue[j + 1]
        /\ DOMAIN out' = DOMAIN out \cup {r.Name}
        /\ \A x \in DOMAIN out \ {r.Name} : out'[x] = out[x]
        /\ run' = Append(run, e) /\ e \in Entry
        /\ status = "placing" /\ status' = status
        /\ UNCHANGED <<config, exists, stRequests, stNodes, kept, op, applies, last>>
    BY <2>1, PutIs
  <2> HIDE DEF r, e
  <2>3. run' \in Seq(Entry)
    BY <2>2, AppendProperties DEF Working
  <2>4. \A x \in DOMAIN stNodes : x \in DOMAIN out' /\ out'[x] = stNodes[x]
    BY <2>1, <2>2 DEF Working
  <2>5. \A j \in 1 .. Len(queue') : queue'[j].Name \notin DOMAIN stNodes
    BY <2>1, <2>2 DEF Working
  <2>6. ASSUME NEW j \in 1 .. Len(config), config[j].name \notin DOMAIN out'
        PROVE  \E k \in 1 .. Len(queue') : queue'[k].Name = config[j].name
    <3>1. PICK k \in 1 .. Len(queue) : queue[k].Name = config[j].name
      BY <2>1, <2>2, <2>6 DEF Working
    <3>2. k # 1
      BY <2>2, <2>6, <3>1
    <3>3. k - 1 \in 1 .. Len(queue') /\ queue'[k - 1] = queue[k]
      BY <2>2, <3>2
    <3> QED BY <3>1, <3>3
  <2> QED BY <2>2, <2>3, <2>4, <2>5, <2>6 DEF Working
<1>3. CASE RunLooks \/ RunFails \/ RunReturns
  BY <1>3 DEF RunLooks, RunFails, RunReturns, Look, GiveUp, Return, resourceVars, stateVars, Working
<1>4. CASE Store
  <2>1. kept' \in Seq(Entry)
    BY <1>4, ConcatProperties DEF Store, Working
  <2> QED BY <1>4, <2>1 DEF Store, placementVars, Working
<1>5. CASE ReturnError \/ Edit \/ Crash
  BY <1>5 DEF ReturnError, Edit, Crash, placementVars, stateVars, Working
<1>6. CASE Delete
  BY <1>0, <1>6 DEF Delete, placementVars, Working
<1>7. CASE UNCHANGED vars
  BY <1>7 DEF vars, placementVars, resourceVars, stateVars, Working
<1> QED BY <1>1, <1>2, <1>3, <1>4, <1>5, <1>6, <1>7, PutCases DEF Next

LEMMA InitHolds == Init => TypeOK /\ Working
<1> SUFFICES ASSUME Init PROVE TypeOK /\ Working
  OBVIOUS
<1>1. TypeOK
  BY EmptyHolds, ResourceAssumption DEF Init, TypeOK
<1>2. Working
  BY EmptySeq DEF Init, Working
<1> QED BY <1>1, <1>2

LEMMA WorkingKept == Spec => [](TypeOK /\ Working)
BY InitHolds, TypeNext, WorkingNext, PTL DEF Spec

\* Every variable has its type, for any requests, nodes and number of applies.
THEOREM TypeCorrect == Spec => []TypeOK
BY WorkingKept, PTL
-----------------------------------------------------------------------------
(* What the state has.                                                     *)

LEMMA PlacedNext ==
  ASSUME TypeOK, Working, AppliedIsPlaced, [Next]_vars
  PROVE  AppliedIsPlaced'
<1>1. CASE Store
  <2>1. /\ stRequests' = config /\ stNodes' = out /\ op # "none" /\ status = "done"
    BY <1>1 DEF Store, Succeeded
  <2>2. queue = <<>> /\ Len(queue) = 0
    BY <2>1, EmptySeq DEF Working
  <2>3. config \in Seq(ConfigRequest)
    BY configIs DEF TypeOK
  <2>4. DOMAIN config = 1 .. Len(config)
    BY <2>3, LenProperties
  <2>5. \A j \in 1 .. Len(config) : config[j].name \in DOMAIN out
    BY <2>1, <2>2 DEF Working
  <2> QED BY <2>1, <2>4, <2>5 DEF AppliedIsPlaced
<1>2. CASE Create \/ Update \/ Put \/ RunLooks \/ RunFails \/ RunReturns
  <2>1. op' # "none"
    BY <1>2 DEF Create, Update, Starts, Put, Placed, RunLooks, RunFails, RunReturns, resourceVars
  <2> QED BY <2>1 DEF AppliedIsPlaced
<1>3. CASE ReturnError \/ Crash \/ Delete
  BY <1>3 DEF ReturnError, Crash, Delete, AppliedIsPlaced
<1>4. CASE Edit \/ UNCHANGED vars
  BY <1>4 DEF Edit, vars, resourceVars, stateVars, AppliedIsPlaced
<1> QED BY <1>1, <1>2, <1>3, <1>4, PutCases DEF Next

\* An apply that ends well leaves every request of the configuration with a node.
THEOREM AppliesPlace == Spec => []AppliedIsPlaced
<1>1. Init => AppliedIsPlaced
  BY DEF Init, AppliedIsPlaced
<1>2. TypeOK /\ Working /\ AppliedIsPlaced /\ [Next]_vars => AppliedIsPlaced'
  BY PlacedNext
<1> QED BY <1>1, <1>2, WorkingKept, PTL DEF Spec

LEMMA StableNext ==
  ASSUME Working, [Next]_vars, exists, exists', NEW x \in DOMAIN stNodes
  PROVE  x \in DOMAIN stNodes' /\ stNodes'[x] = stNodes[x]
<1>1. CASE Store
  BY <1>1 DEF Store, Working
<1>2. CASE Delete
  BY <1>2 DEF Delete
<1>3. CASE Create \/ Update \/ Put \/ RunLooks \/ RunFails \/ RunReturns
  <2>1. stNodes' = stNodes
    BY <1>3 DEF Create, Update, Starts, Put, Placed, RunLooks, RunFails, RunReturns, resourceVars,
       stateVars
  <2> QED BY <2>1
<1>4. CASE ReturnError \/ Crash \/ Edit \/ UNCHANGED vars
  <2>1. stNodes' = stNodes
    BY <1>4 DEF ReturnError, Crash, Edit, vars, resourceVars, stateVars
  <2> QED BY <2>1
<1> QED BY <1>1, <1>2, <1>3, <1>4, PutCases DEF Next

\* A request that has its node keeps it as long as the resource lives.
THEOREM AssignmentsStay == Spec => AssignmentStable
<1>1. Working /\ [Next]_vars =>
        [exists /\ exists' =>
           \A x \in DOMAIN stNodes :
             x \in DOMAIN stNodes' /\ stNodes'[x] = stNodes[x]]_vars
  BY StableNext
<1> QED BY <1>1, WorkingKept, PTL DEF Spec, AssignmentStable

\* What a run has placed is held, and a distinct request of it is apart from what
\* the run, and the state it began with, had before.
Apart ==
  /\ \A h \in 1 .. Len(kept) : kept[h].name \in DOMAIN stNodes
  /\ DistinctAcrossUpdates
  /\ op # "none" =>
       /\ Holds(stNodes) \subseteq held
       /\ \A h \in 1 .. Len(run) :
            /\ run[h].name \in DOMAIN out /\ run[h].node \in held
            /\ run[h].distinct => run[h].node \notin Holds(stNodes)
       /\ \A h, j \in 1 .. Len(run) :
            h < j /\ run[j].distinct => run[h].node # run[j].node

LEMMA ApartPut ==
  ASSUME TypeOK, Working, Apart, Put
  PROVE  Apart'
<1>1. PICK n \in Node : PutsOn(n) /\ Placed(n) /\ op # "none"
  BY DEF Put
<1> DEFINE r == Head(queue)
           e == [name |-> r.Name, node |-> n, distinct |-> r.Distinct]
<1>2. /\ DOMAIN out' = DOMAIN out \cup {r.Name}
      /\ held' = held \cup {n} /\ (r.Distinct => n \notin held)
      /\ run' = Append(run, e) /\ e \in Entry
      /\ UNCHANGED <<config, exists, stRequests, stNodes, kept, op, applies, last>>
  BY <1>1, PutIs
<1>3. e.name = r.Name /\ e.node = n /\ e.distinct = r.Distinct
  OBVIOUS
<1> HIDE DEF r, e
<1>4. /\ Len(run) \in Nat /\ Len(run') = Len(run) + 1
      /\ \A h \in 1 .. Len(run) : run'[h] = run[h]
      /\ run'[Len(run) + 1] = e
  BY <1>2, AppendProperties, LenProperties DEF Working
<1>5. /\ Holds(stNodes) \subseteq held
      /\ \A h \in 1 .. Len(run) :
           /\ run[h].name \in DOMAIN out /\ run[h].node \in held
           /\ run[h].distinct => run[h].node \notin Holds(stNodes)
      /\ \A h, j \in 1 .. Len(run) :
           h < j /\ run[j].distinct => run[h].node # run[j].node
  BY <1>1 DEF Apart
<1>6. Holds(stNodes') = Holds(stNodes)
  BY <1>2
<1>7. \A h \in 1 .. Len(run') : h \in 1 .. Len(run) \/ h = Len(run) + 1
  BY <1>4
<1>8. ASSUME NEW h \in 1 .. Len(run')
      PROVE  /\ run'[h].name \in DOMAIN out' /\ run'[h].node \in held'
             /\ run'[h].distinct => run'[h].node \notin Holds(stNodes')
  <2>1. CASE h \in 1 .. Len(run)
    BY <1>2, <1>4, <1>5, <1>6, <2>1
  <2>2. CASE h = Len(run) + 1
    <3>1. run'[h] = e
      BY <1>4, <2>2
    <3> QED BY <1>2, <1>3, <1>5, <1>6, <3>1
  <2> QED BY <1>7, <2>1, <2>2
<1>9. ASSUME NEW h \in 1 .. Len(run'), NEW j \in 1 .. Len(run'), h < j, run'[j].distinct
      PROVE  run'[h].node # run'[j].node
  <2>1. h \in 1 .. Len(run)
    BY <1>4, <1>9
  <2>2. run'[h] = run[h] /\ run[h].node \in held
    BY <1>4, <1>5, <2>1
  <2>3. CASE j \in 1 .. Len(run)
    BY <1>4, <1>5, <1>9, <2>1, <2>2, <2>3
  <2>4. CASE j = Len(run) + 1
    <3>1. run'[j] = e
      BY <1>4, <2>4
    <3> QED BY <1>2, <1>3, <1>9, <2>2, <3>1
  <2> QED BY <1>7, <2>3, <2>4
<1>10. DistinctAcrossUpdates'
  BY <1>2 DEF Apart, DistinctAcrossUpdates
<1>11. \A h \in 1 .. Len(kept') : kept'[h].name \in DOMAIN stNodes'
  BY <1>2 DEF Apart
<1>12. Holds(stNodes') \subseteq held'
  BY <1>2, <1>5, <1>6
<1> QED BY <1>8, <1>9, <1>10, <1>11, <1>12 DEF Apart

LEMMA ApartStore ==
  ASSUME TypeOK, Working, Apart, Store
  PROVE  Apart'
<1>1. kept' = kept \o run /\ stNodes' = out /\ op' = "none" /\ op # "none"
  BY DEF Store
<1> DEFINE K == Len(kept)
<1>2. /\ K \in Nat /\ Len(run) \in Nat /\ Len(kept') = K + Len(run)
      /\ kept' \in Seq(Entry) /\ kept \in Seq(Entry)
      /\ \A h \in 1 .. Len(kept') : kept'[h] = IF h <= K THEN kept[h] ELSE run[h - K]
  BY <1>1, ConcatProperties, LenProperties DEF Working
<1>3. DOMAIN kept = 1 .. K /\ DOMAIN kept' = 1 .. Len(kept')
  BY <1>2, LenProperties
<1> HIDE DEF K
<1>4. ASSUME NEW h \in 1 .. Len(kept')
      PROVE  \/ h \in 1 .. K /\ kept'[h] = kept[h]
             \/ h - K \in 1 .. Len(run) /\ K < h /\ kept'[h] = run[h - K]
  BY <1>2
<1>5. \A x \in DOMAIN stNodes : x \in DOMAIN out /\ out[x] = stNodes[x]
  BY <1>1 DEF Working
<1>6. \A h \in 1 .. K : kept[h].name \in DOMAIN stNodes
  BY DEF Apart, K
<1>7. /\ \A h \in 1 .. Len(run) :
           /\ run[h].name \in DOMAIN out
           /\ run[h].distinct => run[h].node \notin Holds(stNodes)
      /\ \A h, j \in 1 .. Len(run) :
           h < j /\ run[j].distinct => run[h].node # run[j].node
  BY <1>1 DEF Apart
<1>8. \A h \in 1 .. Len(kept') : kept'[h].name \in DOMAIN stNodes'
  BY <1>1, <1>4, <1>5, <1>6, <1>7
<1>9. ASSUME NEW h \in 1 .. Len(kept'), NEW j \in 1 .. Len(kept'), h < j,
             kept'[j].distinct, kept'[h].name # kept'[j].name,
             out[kept'[h].name] = kept'[h].node
      PROVE  kept'[h].node # kept'[j].node
  <2>1. CASE j \in 1 .. K
    <3>1. h \in 1 .. K /\ kept'[h] = kept[h] /\ kept'[j] = kept[j]
      BY <1>2, <1>9, <2>1
    <3>2. stNodes[kept[h].name] = kept[h].node
      BY <1>5, <1>6, <1>9, <3>1
    <3> QED BY <1>3, <1>9, <2>1, <3>1, <3>2 DEF Apart, DistinctAcrossUpdates
  <2>2. CASE j - K \in 1 .. Len(run) /\ K < j /\ kept'[j] = run[j - K]
    <3>1. CASE h \in 1 .. K /\ kept'[h] = kept[h]
      <4>1. kept[h].name \in DOMAIN stNodes /\ stNodes[kept[h].name] = kept[h].node
        BY <1>5, <1>6, <1>9, <3>1
      <4>2. kept[h].node \in Holds(stNodes)
        BY <4>1 DEF Holds
      <4> QED BY <1>7, <1>9, <2>2, <3>1, <4>2
    <3>2. CASE h - K \in 1 .. Len(run) /\ K < h /\ kept'[h] = run[h - K]
      <4>1. h - K < j - K
        BY <1>2, <1>9
      <4> QED BY <1>7, <1>9, <2>2, <3>2, <4>1
    <3> QED BY <1>4, <3>1, <3>2
  <2> QED BY <1>4, <2>1, <2>2
<1>10. DistinctAcrossUpdates'
  BY <1>1, <1>3, <1>9 DEF DistinctAcrossUpdates
<1> QED BY <1>1, <1>8, <1>10 DEF Apart

LEMMA ApartNext == TypeOK /\ Working /\ Apart /\ [Next]_vars => Apart'
<1> SUFFICES ASSUME TypeOK, Working, Apart, [Next]_vars PROVE Apart'
  OBVIOUS
<1>1. CASE Create \/ Update
  <2>1. /\ held' = Holds(stNodes) /\ run' = <<>> /\ UNCHANGED <<stNodes, kept>>
    BY <1>1 DEF Create, Update, Starts, parseAssignment, stateVars
  <2>2. Len(run') = 0
    BY <2>1, EmptySeq
  <2> QED BY <2>1, <2>2 DEF Apart, DistinctAcrossUpdates
<1>2. CASE RunLooks \/ RunFails \/ RunReturns
  <2>1. UNCHANGED <<stNodes, kept, run, op, out, held>>
    BY <1>2 DEF RunLooks, RunFails, RunReturns, Look, GiveUp, Return, resourceVars, stateVars
  <2> QED BY <2>1 DEF Apart, DistinctAcrossUpdates
<1>3. CASE ReturnError \/ Crash \/ Edit
  <2>1. UNCHANGED <<stNodes, kept>> /\ op' = "none"
    BY <1>3 DEF ReturnError, Crash, Edit, stateVars
  <2> QED BY <2>1 DEF Apart, DistinctAcrossUpdates
<1>4. CASE Delete
  <2>1. kept' = <<>> /\ Len(kept') = 0 /\ op' = "none"
    BY <1>4, EmptySeq DEF Delete
  <2> QED BY <2>1, EmptyHolds DEF Apart, DistinctAcrossUpdates
<1>5. CASE UNCHANGED vars
  <2>1. UNCHANGED <<stNodes, kept, run, op, out, held>>
    BY <1>5 DEF vars, placementVars, resourceVars, stateVars
  <2> QED BY <2>1 DEF Apart, DistinctAcrossUpdates
<1> QED BY <1>1, <1>2, <1>3, <1>4, <1>5, PutCases, ApartPut, ApartStore DEF Next

\* A request that was distinct when placed shares its node with none placed before.
THEOREM DistinctStays == Spec => []DistinctAcrossUpdates
<1>1. Init => Apart
  <2> SUFFICES ASSUME Init PROVE Apart
    OBVIOUS
  <2>1. kept = <<>> /\ Len(kept) = 0 /\ op = "none"
    BY EmptySeq DEF Init
  <2> QED BY <2>1, EmptyHolds DEF Apart, DistinctAcrossUpdates
<1>2. Apart => DistinctAcrossUpdates
  BY DEF Apart
<1> QED BY <1>1, <1>2, WorkingKept, ApartNext, PTL DEF Spec
=============================================================================
