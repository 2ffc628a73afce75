------------------------------ MODULE MCGateway ------------------------------
EXTENDS Gateway, TLC
CONSTANTS n1, n2, a, b, v1, v2, bad
Alike == Permutations({n1, n2}) \cup Permutations({a, b}) \cup Permutations({v1, v2})
=============================================================================
