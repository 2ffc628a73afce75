-------------------------- MODULE SchedulerResource --------------------------
(***************************************************************************)
(* One grid_scheduler resource over its life: the handlers of              *)
(* resource_scheduler.go, called by Terraform as the user edits the        *)
(* configuration, applies it and destroys it.                              *)
(*                                                                         *)
(* A handler's call of ProcessRequests is a run of NodePlacement, one      *)
(* request at a time, so it may fail, or the provider be killed, half way. *)
(***************************************************************************)
EXTENDS NodePlacement, FiniteSets

CONSTANTS
  Names,        \* request names
  Configs,      \* request lists the user may write
  Word,         \* number of values of a uint64
  Word32,       \* number of values of a uint32
  MB,           \* capacity units in one megabyte (1024^2 bytes)
  MaxApplies    \* bound on the applies

\* A request as the user writes it: sizes are in megabytes, and no number is kept
\* from being negative or too large.
ConfigRequest ==
  [name : Names, mru : Int, sru : Int, hru : Int, farm_id : Int,
   public_config : BOOLEAN, public_ips_count : Int, certified : BOOLEAN,
   dedicated : BOOLEAN, node_exclude : SUBSET Int, distinct : BOOLEAN,
   yggdrasil : BOOLEAN, wireguard : BOOLEAN]

Sizes == {"MRU", "SRU", "HRU"}

ASSUME ResourceAssumption ==
  /\ Word \in Nat \ {0} /\ Word32 \in Nat \ {0} /\ MB \in Nat
  /\ Amounts = 0 .. Word - 1 /\ Kinds \subseteq Sizes
  /\ \A c \in Configs : c \in Seq(ConfigRequest)
  /\ MaxApplies \in Nat

VARIABLES
  config,       \* the requests of the configuration
  exists,       \* the resource is in Terraform's state
  stRequests,   \* "requests" in the state
  stNodes,      \* "nodes" in the state
  op,           \* the handler at work: "none", "create" or "update"
  applies,      \* applies begun
  last,         \* how the last one ended
  run,          \* history: the placements of the run, [name, node, distinct]
  kept          \* history: those of the runs whose result was stored

stateVars    == <<exists, stRequests, stNodes, kept>>
resourceVars == <<config, stateVars, op, applies, last, run>>
vars == <<placementVars, resourceVars>>

-----------------------------------------------------------------------------
parseAssignment(nodes) == nodes

\* Go's conversions, which wrap around.
uint32(x) == x % Word32
bytes(mb) == (mb * MB) % Word

\* The request made of one of the configuration.  Its CPUs are not passed on.
parseRequest(r) ==
  [Name |-> r.name,
   Capacity |-> [k \in Sizes \cup {"CRU"} |->
                   CASE k = "MRU" -> bytes(r.mru) [] k = "SRU" -> bytes(r.sru)
                     [] k = "HRU" -> bytes(r.hru) [] OTHER -> 0],
   FarmID |-> uint32(r.farm_id), PublicConfig |-> r.public_config,
   PublicIpsCount |-> uint32(r.public_ips_count), Certified |-> r.certified,
   Dedicated |-> r.dedicated,
   NodeExclude |-> {n \in Node : \E x \in r.node_exclude : uint32(x) = n},
   Distinct |-> r.distinct, Yggdrasil |-> r.yggdrasil, Wireguard |-> r.wireguard]

\* Faulty: requests already assigned are scheduled again.
parseAllRequests(list, assignment) ==
  [j \in DOMAIN list |-> parseRequest(list[j])]

\* Those of the list that have no node yet, after each request of the list.
parseRequests(list, assignment) ==
  LET reqs[n \in 0 .. Len(list)] ==
        IF n = 0 THEN <<>>
        ELSE IF list[n].name \in DOMAIN assignment THEN reqs[n - 1]
             ELSE Append(reqs[n - 1], parseRequest(list[n]))
  IN  reqs[Len(list)]

\* schedule calls ProcessRequests of a new Scheduler.
Starts(handler) ==
  LET assignment == parseAssignment(stNodes) IN
    /\ op' = handler /\ applies' = applies + 1
    /\ queue' = parseRequests(config, assignment)
    /\ out' = assignment /\ held' = Holds(assignment)
    /\ left' = <<>> /\ status' = "placing" /\ run' = <<>>
    /\ UNCHANGED <<config, stateVars, last>>

Init ==
  /\ config \in Configs /\ exists = FALSE /\ stRequests = <<>> /\ stNodes = <<>>
  /\ op = "none" /\ applies = 0 /\ last = "none" /\ run = <<>> /\ kept = <<>>
  /\ queue = <<>> /\ out = <<>> /\ held = {} /\ left = <<>> /\ status = "done"

\* The user edits the configuration.
Edit ==
  /\ op = "none" /\ applies < MaxApplies
  /\ config' \in Configs \ {config}
  /\ UNCHANGED <<placementVars, stateVars, op, applies, last, run>>

\* An apply of a resource that is not in the state calls Create, and one of a
\* resource whose requests differ from the configuration's calls Update; the
\* Read before it leaves the state as it is.
Create == op = "none" /\ applies < MaxApplies /\ ~exists /\ Starts("create")

Update ==
  /\ op = "none" /\ applies < MaxApplies /\ exists /\ stRequests # config
  /\ Starts("update")

\* ProcessRequests places the next request.
Placed(n) ==
  LET r == Head(queue) IN
    /\ run' = Append(run, [name |-> r.Name, node |-> n, distinct |-> r.Distinct])
    /\ UNCHANGED <<config, stateVars, op, applies, last>>

Sights == UNION {[D -> [Kinds -> Amounts]] : D \in SUBSET Node}

PlaceByProxy ==
  /\ op # "none" /\ left' \in Sights
  /\ \E n \in Node : PutByProxy(n) /\ Placed(n)

PlaceByBot == op # "none" /\ \E n \in Node : PutByBot(n) /\ Placed(n)

\* It looks at nodes and takes none of them.
RunLooks ==
  /\ op # "none" /\ left' \in Sights /\ Look /\ UNCHANGED resourceVars

RunFails == op # "none" /\ GiveUp /\ UNCHANGED resourceVars

RunReturns == op # "none" /\ Return /\ UNCHANGED resourceVars

\* Faulty: the error of ProcessRequests is dropped.
AnyEnd == status # "placing"

Succeeded == status = "done"

\* schedule sets "nodes", Create the id, and Terraform saves the state.
Store ==
  /\ op # "none" /\ Succeeded
  /\ exists' = TRUE /\ stRequests' = config /\ stNodes' = out
  /\ kept' = kept \o run /\ last' = "ok" /\ op' = "none"
  /\ UNCHANGED <<placementVars, config, applies, run>>

\* The handler returns an error.  A Create that set no id leaves no state; after
\* an Update Terraform saves the new requests, with the nodes of before.
ReturnError ==
  /\ op # "none" /\ status \in {"noNodes", "failed"} /\ ~Succeeded
  /\ stRequests' = IF op = "update" THEN config ELSE stRequests
  /\ last' = "error" /\ op' = "none"
  /\ UNCHANGED <<placementVars, config, exists, stNodes, kept, applies, run>>

\* The provider is killed before it answers: nothing is saved.
Crash ==
  /\ op # "none"
  /\ last' = "crashed" /\ op' = "none"
  /\ UNCHANGED <<placementVars, config, stateVars, applies, run>>

\* Faulty: the nodes stay behind for the resource made next.
DeleteKeepsNodes ==
  /\ op = "none" /\ exists
  /\ exists' = FALSE /\ stRequests' = <<>> /\ kept' = <<>> /\ last' = "none"
  /\ UNCHANGED <<placementVars, config, stNodes, op, applies, run>>

\* terraform destroy.
Delete ==
  /\ op = "none" /\ exists
  /\ exists' = FALSE /\ stRequests' = <<>> /\ stNodes' = <<>> /\ kept' = <<>>
  /\ last' = "none"
  /\ UNCHANGED <<placementVars, config, op, applies, run>>

Next ==
  \/ Edit \/ Create \/ Update \/ PlaceByProxy \/ PlaceByBot \/ RunLooks
  \/ RunFails \/ RunReturns \/ Store \/ ReturnError \/ Crash \/ Delete

Spec == Init /\ [][Next]_vars

-----------------------------------------------------------------------------
(* Properties.                                                             *)

\* Every variable has its type, and a resource that is not in the state has
\* neither requests nor nodes there.
TypeOK ==
  /\ config \in Configs /\ stRequests \in Configs \cup {<<>>}
  /\ DOMAIN stNodes \subseteq Names /\ Holds(stNodes) \subseteq Node
  /\ DOMAIN out \subseteq Names /\ Holds(out) \subseteq held /\ held \subseteq Node
  /\ op \in {"none", "create", "update"} /\ applies \in 0 .. MaxApplies
  /\ last \in {"none", "ok", "error", "crashed"}
  /\ status \in {"placing", "done", "noNodes", "failed"}
  /\ ~exists => stRequests = <<>> /\ stNodes = <<>>

\* A request that has its node keeps it as long as the resource lives: through
\* updates that succeed, fail or are cut off, changes of the request itself, and
\* its removal from the configuration and return to it.
AssignmentStable ==
  [][exists /\ exists' =>
       \A x \in DOMAIN stNodes :
         x \in DOMAIN stNodes' /\ stNodes'[x] = stNodes[x]]_vars

\* Distinctness outlives the apply: a request that was distinct when it was
\* placed shares its node with no request placed before it, in whichever apply,
\* though that request be gone from the configuration.
DistinctAcrossUpdates ==
  \A h, j \in DOMAIN kept :
    /\ h < j /\ kept[j].distinct /\ kept[h].name # kept[j].name
    /\ stNodes[kept[h].name] = kept[h].node
    => kept[h].node # kept[j].node

\* An apply that ends well leaves every request of the configuration with a node.
AppliedIsPlaced ==
  last = "ok" /\ op = "none" =>
    \A j \in DOMAIN stRequests : stRequests[j].name \in DOMAIN stNodes

\* What resource_scheduler.go:114 says of "nodes": it maps the requests of the
\* resource to their nodes, whenever the resource is in the state and at rest.
RequestsHaveNodes ==
  exists /\ op = "none" =>
    \A j \in DOMAIN stRequests : stRequests[j].name \in DOMAIN stNodes
=============================================================================
