-------------------------- MODULE ScheduledResource --------------------------
(***************************************************************************)
(* A grid_scheduler resource whose applies run the scheduler itself: the   *)
(* handlers of SchedulerResource, where a call of ProcessRequests takes    *)
(* the steps of Scheduler instead of those of its abstraction, so that an  *)
(* apply may fail or be killed at any call to the proxy or a farmerbot.    *)
(***************************************************************************)
EXTENDS Scheduler

CONSTANTS
  Configs,      \* request lists the user may write
  Word32,       \* number of values of a uint32
  MB,           \* capacity units in one megabyte
  MaxApplies    \* bound on the applies

VARIABLES
  config,       \* the requests of the configuration
  exists,       \* the resource is in Terraform's state
  stRequests,   \* "requests" in the state
  stNodes,      \* "nodes" in the state
  op,           \* the handler at work: "none", "create" or "update"
  applies,      \* applies begun
  last,         \* how the last one ended
  kept          \* history: the placements of the runs whose result was stored

handlerVars == <<config, exists, stRequests, stNodes, op, applies, last, kept>>
lifeVars == <<vars, handlerVars>>

\* The resource, with the run as Scheduler!Placement has it; the placements of a
\* run are those that were made, by proxy or by bot.
Res == INSTANCE SchedulerResource WITH
  Node <- NodeId, Kinds <- Checked, Amounts <- 0 .. Word - 1,
  Queues <- RequestLists, Givens <- Assignments,
  queue  <- SubSeq(reqs, i, Len(reqs)),
  out    <- assignment,
  held   <- assignedNodes,
  left   <- [n \in DOMAIN nodes |-> [k \in Checked |-> nodes[n].FreeCapacity[k]]],
  status <- IF pc \in Running THEN "placing" ELSE pc,
  run    <- [j \in DOMAIN placed |->
               [name |-> placed[j].req.Name, node |-> placed[j].node,
                distinct |-> placed[j].req.Distinct]]

ASSUME LifeAssumption ==
  /\ \A c \in Configs : c \in Seq(Res!ConfigRequest)
  /\ Word32 \in Nat \ {0} /\ MB \in Nat /\ MaxApplies \in Nat

-----------------------------------------------------------------------------
\* Nothing is in the state, and no scheduler has run.
LifeInit ==
  /\ proxyNodes \in Grids /\ proxyFarms \in FarmTables /\ drift = 0
  /\ nodes = <<>> /\ farms = <<>>
  /\ reqs = <<>> /\ i = 1
  /\ req = ZeroRequest /\ f = constructFilter(req) /\ l = FirstPage
  /\ assignment = <<>> /\ assignedNodes = {}
  /\ pc = "done" /\ missed = FALSE /\ placed = <<>> /\ booked = EmptyBooking
  /\ config \in Configs /\ exists = FALSE /\ stRequests = <<>> /\ stNodes = <<>>
  /\ op = "none" /\ applies = 0 /\ last = "none" /\ kept = <<>>

\* A new Scheduler, without a cache, on the grid as it is by now, is given the
\* assignment of the state and the requests that have no node in it.
NewRun(assigned, list) ==
  /\ proxyNodes' \in Grids /\ proxyFarms' \in FarmTables /\ drift' = 0
  /\ nodes' = <<>> /\ farms' = <<>>
  /\ reqs' = list /\ i' = 1
  /\ req' = ZeroRequest /\ f' = constructFilter(ZeroRequest) /\ l' = FirstPage
  /\ assignment' = assigned /\ assignedNodes' = AssignedNodes(assigned)
  /\ pc' = "next" /\ missed' = FALSE /\ placed' = <<>> /\ booked' = EmptyBooking

\* Faulty: the nodes of the state are not handed on.
SchedulesAfresh == NewRun(<<>>, Res!parseRequests(config, stNodes))

Schedules ==
  LET assigned == Res!parseAssignment(stNodes)
  IN  NewRun(assigned, Res!parseRequests(config, assigned))

Starts(handler) ==
  /\ op = "none" /\ applies < MaxApplies
  /\ Schedules
  /\ op' = handler /\ applies' = applies + 1
  /\ UNCHANGED <<config, exists, stRequests, stNodes, last, kept>>

Create == ~exists /\ Starts("create")

Update == exists /\ stRequests # config /\ Starts("update")

\* The run under way takes a step, or another tenant does.
Runs == op # "none" /\ Next /\ UNCHANGED handlerVars

\* The run has ended and the handler answers; or the provider is killed, before
\* the end or after it.
Store       == UNCHANGED vars /\ Res!Store
ReturnError == UNCHANGED vars /\ Res!ReturnError
Crash       == UNCHANGED vars /\ Res!Crash

Edit   == UNCHANGED vars /\ Res!Edit
Delete == UNCHANGED vars /\ Res!Delete

LifeNext ==
  \/ Create \/ Update \/ Runs \/ Store \/ ReturnError \/ Crash \/ Edit \/ Delete

LifeSpec == LifeInit /\ [][LifeNext]_lifeVars

\* Calls are answered sooner or later, and a run that has ended is reported.
Proceeds ==
  \/ op # "none" /\ Answered /\ UNCHANGED handlerVars
  \/ Store \/ ReturnError

FairLifeSpec == LifeSpec /\ WF_lifeVars(Proceeds)

-----------------------------------------------------------------------------
(* Properties.                                                             *)

\* The resource with the real scheduler is a SchedulerResource.  So paging, the
\* cache, the farmerbot and a kill between any two calls leave what that module
\* promises: nodes that stay, distinctness over applies, no request left out.
ImplementsResource == Res!Spec

\* An apply comes to its end, though the proxy never fails: pages double until one
\* is empty, the features fall back once, and the handler answers.
AppliesEnd == op # "none" ~> op = "none"
=============================================================================
