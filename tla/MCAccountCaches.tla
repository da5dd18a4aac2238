--------------------------- MODULE MCAccountCaches ---------------------------
EXTENDS AccountCaches
CONSTANTS u1, u2, n1, n2, n3
MCUsers == {u1, u2}
MCNames == {n1, n2, n3}
Symmetry == Permutations(MCUsers) \cup Permutations(MCNames)
=============================================================================
