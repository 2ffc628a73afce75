--------------------------- MODULE MCDeployment ---------------------------
(* Two nodes, two versions: an update in place and one to another node.    *)
EXTENDS Deployment, TLC

Symmetric == Permutations(Node) \cup Permutations(Version)
===========================================================================
