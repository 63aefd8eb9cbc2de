--------------------------- MODULE MCClusterRepl ---------------------------
EXTENDS ClusterRepl, TLC

CONSTANTS a, b, u, f

TwoNodes == {a, b}
Symm == Permutations(TwoNodes)
============================================================================
