------------------------- MODULE MCSchedulerResource -------------------------
(***************************************************************************)
(* A grid_scheduler with at most two requests, of three names, on two      *)
(* nodes, applied three times.                                             *)
(***************************************************************************)
EXTENDS SchedulerResource

MCNames == {"a", "b", "c"}

Req(name) ==
  [name |-> name, mru |-> 1, sru |-> 0, hru |-> 0, farm_id |-> 0,
   public_config |-> FALSE, public_ips_count |-> 0, certified |-> FALSE,
   dedicated |-> FALSE, node_exclude |-> {}, distinct |-> FALSE,
   yggdrasil |-> FALSE, wireguard |-> FALSE]
Distinct(r) == [r EXCEPT !.distinct = TRUE]

\* One has a size that wraps to nothing, and one an excluded id that is node 1.
MCConfigs ==
  {<<Req("a")>>, <<Req("b"), Distinct(Req("c"))>>, <<Distinct(Req("b")), Req("a")>>,
   <<Req("a"), Req("a")>>, <<[Req("a") EXCEPT !.mru = -2]>>,
   <<Distinct([Req("a") EXCEPT !.node_exclude = {-3}]), Distinct(Req("c"))>>}

MCQueues == {<<>>}
MCGivens == {<<>>}
=============================================================================
