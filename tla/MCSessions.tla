----------------------------- MODULE MCSessions -----------------------------
EXTENDS Sessions, TLC

Symmetry == Permutations(Requests) \cup Permutations(TokenIds) \cup Permutations(Users)
=============================================================================
