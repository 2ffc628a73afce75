---------------------------- MODULE MCLocalState ----------------------------
(* Two processes at a time, two networks, one node. *)
EXTENDS LocalState, TLC

Symmetric == Permutations(Process) \cup Permutations(Network)
===========================================================================
