------------------------------ MODULE MCAccounts ------------------------------
EXTENDS Accounts, TLC
CONSTANTS u1, u2, s1, p1, p2
MCUsers == {u1, u2}
MCSessions == {s1}
MCProcs == {p1, p2}
Symmetry == Permutations(MCProcs)
=============================================================================
