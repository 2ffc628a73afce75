------------------------- MODULE MCScheduledResource -------------------------
(***************************************************************************)
(* A grid_scheduler with at most two requests on two nodes of one farm,    *)
(* one of them too small for two requests, listed one to a page.           *)
(***************************************************************************)
EXTENDS ScheduledResource, SequencesExt

MCNodeId == 1 .. 2
MCFarmId == {1}
MCNames  == {"a", "b"}

MCProxyOrder(S) == SetToSortSeq(S, <)

Amount(m) == [k \in Resource |-> IF k = "MRU" THEN m ELSE 0]

GNode(total, feats) ==
  [FarmID |-> 1, Total |-> Amount(total), Used |-> Amount(0), Domain |-> FALSE,
   Dedicated |-> FALSE, Certified |-> FALSE, Features |-> feats, Up |-> TRUE]

\* Both nodes light; the larger one not; one node down.
MCGrids ==
  {<<GNode(1, Feature), GNode(2, Feature)>>,
   <<GNode(1, {Light}), GNode(2, {Full})>>,
   <<GNode(2, Feature), [GNode(1, Feature) EXCEPT !.Up = FALSE]>>}

MCFarmTables == {<<[PublicIps |-> <<>>]>>}

Req(name, m) ==
  [name |-> name, mru |-> m, sru |-> 0, hru |-> 0, farm_id |-> 0,
   public_config |-> FALSE, public_ips_count |-> 0, certified |-> FALSE,
   dedicated |-> FALSE, node_exclude |-> {}, distinct |-> FALSE,
   yggdrasil |-> FALSE, wireguard |-> FALSE]
Distinct(r) == [r EXCEPT !.distinct = TRUE]
OnFarm(r)   == [r EXCEPT !.farm_id = 1]

\* One request; another that is distinct, after and before it; one for the bot and
\* one that only the larger node can take; a distinct one for the bot; one whose size
\* is negative, and wraps to more than any node has.
MCConfigs ==
  {<<Req("a", 1)>>, <<Req("a", 1), Distinct(Req("b", 1))>>,
   <<Distinct(Req("b", 1)), Req("a", 2)>>, <<Req("a", 2), OnFarm(Req("b", 1))>>,
   <<OnFarm(Distinct(Req("a", 1)))>>, <<Req("a", -1)>>}

\* Runs are given lists and assignments by the handlers alone.
MCRequestLists == {}
MCAssignments  == {}
=============================================================================
