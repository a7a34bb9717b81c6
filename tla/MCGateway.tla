----------------------------- MODULE MCGateway -----------------------------
EXTENDS Gateway, TLC

CONSTANTS r1, r2, t1, t2, s1, s2, o

Symmetry == Permutations({r1, r2}) \cup Permutations({t1, t2}) \cup Permutations({s1, s2})
=============================================================================
