---------------------------- MODULE NodePlacement ----------------------------
(***************************************************************************)
(* What a call of Scheduler.ProcessRequests promises its caller, whatever  *)
(* the proxy and the farmerbots answer: requests are placed in order, the  *)
(* node of each is none it excludes, that of a distinct one is held by no  *)
(* assignment made so far, and the requests put on a node fit together in  *)
(* the capacity it was first seen with.  A call may give up at any point.  *)
(***************************************************************************)
EXTENDS Integers, Sequences

CONSTANTS
  Node,       \* ids of the nodes
  Kinds,      \* the kinds of capacity that are accounted for
  Amounts,    \* amounts of capacity
  Queues,     \* request lists a call may be given
  Givens      \* assignments a call may be given

VARIABLES
  queue,      \* the requests still to be placed
  out,        \* the assignment: request name -> node
  held,       \* nodes held by some assignment
  left,       \* per node seen, the capacity left of each kind
  status      \* "placing", "done", "noNodes" or "failed"

placementVars == <<queue, out, held, left, status>>

\* Faulty: the assignments given are not looked at.
HoldsNone(a) == {}

Holds(a) == {a[x] : x \in DOMAIN a}

\* A call begins, with nothing seen of the grid.
Begin(q, a) == queue = q /\ out = a /\ held = Holds(a) /\ left = <<>>
               /\ status = "placing"

PlacementInit == \E q \in Queues, a \in Givens : Begin(q, a)

\* Nodes come into sight with some capacity, and from what is left of them
\* node n gives "taken"; nodes seen before are otherwise as they were.
Gives(n, taken) ==
  /\ DOMAIN left \subseteq DOMAIN left' /\ DOMAIN left' \subseteq Node
  /\ left' \in [DOMAIN left' -> [Kinds -> Amounts]]
  /\ \A m \in DOMAIN left', k \in Kinds :
       LET before == left'[m][k] + IF m = n THEN taken[k] ELSE 0
       IN  IF m \in DOMAIN left THEN before = left[m][k] ELSE before \in Amounts

Nothing == [k \in Kinds |-> 0]

\* The next request is put on node n.
PutsOn(n) ==
  LET r == Head(queue) IN
    /\ status = "placing" /\ queue # <<>>
    /\ n \notin r.NodeExclude /\ (r.Distinct => n \notin held)
    /\ queue' = Tail(queue)
    /\ out' = [x \in DOMAIN out \cup {r.Name} |-> IF x = r.Name THEN n ELSE out[x]]
    /\ held' = held \cup {n}
    /\ UNCHANGED status

\* A node the caller's accounts know gives the capacity, or the farmerbot names
\* a node, whose capacity is the bot's affair.
PutByProxy(n) == PutsOn(n) /\ n \in DOMAIN left' /\ Gives(n, Head(queue).Capacity)
PutByBot(n)   == PutsOn(n) /\ UNCHANGED left

Look ==
  /\ status = "placing" /\ \E n \in Node : Gives(n, Nothing)
  /\ UNCHANGED <<queue, out, held, status>>

GiveUp ==
  /\ status = "placing" /\ status' \in {"noNodes", "failed"}
  /\ UNCHANGED <<queue, out, held, left>>

Return ==
  /\ status = "placing" /\ queue = <<>> /\ status' = "done"
  /\ UNCHANGED <<queue, out, held, left>>

PlacementNext ==
  \/ \E n \in Node : PutByProxy(n) \/ PutByBot(n)
  \/ Look \/ GiveUp \/ Return

PlacementSpec == PlacementInit /\ [][PlacementNext]_placementVars

=============================================================================
