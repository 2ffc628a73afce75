----------------------------- MODULE MCScheduler -----------------------------
(***************************************************************************)
(* Small instances of Scheduler: three nodes on two farms, pages of one    *)
(* node, capacities of at most four units of half a gigabyte each.         *)
(***************************************************************************)
EXTENDS Scheduler, SequencesExt

MCNodeId == 1 .. 3
MCFarmId == 1 .. 2
MCNames  == {"a", "b", "c", "d"}

\* The proxy lists nodes by id.
MCProxyOrder(S) == SetToSortSeq(S, <)

Amount(m, s, h, c) ==
  [k \in Resource |-> CASE k = "MRU" -> m [] k = "SRU" -> s
                        [] k = "HRU" -> h [] OTHER -> c]

GNode(farm, total, used, feats) ==
  [FarmID |-> farm, Total |-> total, Used |-> used, Domain |-> FALSE,
   Dedicated |-> FALSE, Certified |-> FALSE, Features |-> feats, Up |-> TRUE]

Small == Amount(2, 2, 1, 1)
Large == Amount(4, 3, 2, 2)
Nil   == Amount(0, 0, 0, 0)
Some  == Amount(1, 0, 0, 0)

\* Nodes of both kinds, one half used, one a dedicated and certified gateway.
MixedGrid ==
  <<GNode(1, Large, Some, Feature), GNode(1, Small, Nil, {Light}),
    [GNode(2, Small, Nil, Feature)
       EXCEPT !.Domain = TRUE, !.Dedicated = TRUE, !.Certified = TRUE]>>

\* One light node before two full ones: the light listing is the shorter.
SplitGrid ==
  <<GNode(1, Small, Nil, {Light}), GNode(1, Large, Nil, {Full}),
    GNode(2, Small, Some, {Full})>>

\* Three nodes alike, the second one down.
TwinGrid ==
  <<GNode(1, Small, Nil, Feature),
    [GNode(2, Small, Nil, Feature) EXCEPT !.Up = FALSE],
    GNode(2, Small, Nil, Feature)>>

MCGrids      == {MixedGrid, SplitGrid, TwinGrid}
MCFarmTables == {<<[PublicIps |-> <<0>>], [PublicIps |-> <<0, 7>>]>>}

Req(name, cap) == [ZeroRequest EXCEPT !.Name = name, !.Capacity = cap]

Asks(name) ==
  {Req(name, Amount(1, 1, 0, 1)),
   [Req(name, Amount(2, 1, 1, 0)) EXCEPT !.Distinct = TRUE],
   Req(name, Amount(3, 2, 0, 0)),
   [Req(name, Amount(1, 0, 0, 0)) EXCEPT !.FarmID = 1],
   [Req(name, Amount(3, 0, 0, 0)) EXCEPT
      !.FarmID = 2, !.Distinct = TRUE, !.PublicIpsCount = 1],
   [Req(name, Amount(1, 0, 0, 0)) EXCEPT !.PublicIpsCount = 1],
   [Req(name, Amount(1, 0, 0, 0)) EXCEPT !.Yggdrasil = TRUE],
   [Req(name, Amount(1, 0, 0, 0)) EXCEPT !.PublicConfig = TRUE],
   [Req(name, Amount(1, 0, 0, 0)) EXCEPT !.Certified = TRUE]}

Pairs == {<<x, y>> : x \in Asks("a"), y \in Asks("b")}

\* Three requests for a node that has room for two of them.
Crowd == {<<Req("a", Amount(1, 1, 0, 1)), Req("b", Amount(1, 0, 0, 0)),
            x>> : x \in {y \in Asks("c") : ~y.PublicConfig}}

MCRequestLists == Pairs \cup Crowd
MCAssignments  == {<<>>, [x \in {"d"} |-> 1]}
=============================================================================
