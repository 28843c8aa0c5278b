----------------------------- MODULE MCProgress -----------------------------
EXTENDS Progress, TLC

Symmetry == Permutations(Requests) \cup Permutations(Levels)

\* score 2 in 5 seconds beats score 2 in 9 seconds
TwoResults == {<<2, 5>>, <<2, 9>>}
=============================================================================
