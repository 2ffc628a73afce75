----------------------------- MODULE MCNetwork -----------------------------
(* Nodes that may be listed, hidden, or dropped from one apply to the next. *)
EXTENDS Network, TLC

Symmetric == Permutations(Node)
===========================================================================
