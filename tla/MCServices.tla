----------------------------- MODULE MCServices ------------------------------
EXTENDS Services, TLC
CONSTANTS a1, a2, b1, b2, h1, h2
As == {a1, a2}
Bs == {b1, b2}
Handlers == {h1, h2}
Alike == Permutations(As) \cup Permutations(Bs) \cup Permutations(Handlers)
=============================================================================
