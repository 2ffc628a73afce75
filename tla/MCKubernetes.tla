---------------------------- MODULE MCKubernetes ----------------------------
EXTENDS Kubernetes, TLC
CONSTANTS n1, n2, m, w, s1, s2, bad

vm(name, node, seed) == [name |-> name, node |-> node, seed |-> seed]
cluster(master, workers) == [master |-> {master}, workers |-> workers]

\* A master and a worker apart, together, or of different seeds, and a master
\* alone, that has moved; and a master alone, of a seed that is not hexadecimal.
MCClusters ==
  {cluster(vm(m, n1, s1), {vm(w, n2, s1)}), cluster(vm(m, n1, s1), {vm(w, n1, s1)}),
   cluster(vm(m, n1, s1), {vm(w, n2, s2)}), cluster(vm(m, n2, s1), {}),
   cluster(vm(m, n1, bad), {})}
=============================================================================
