----------------------------- MODULE MCAutoReply -----------------------------
EXTENDS AutoReply, TLC
CONSTANTS r1, r2, i1, i2, l1, l2, human, other, m1, m2, m3, q1, q2
MCRoom == {r1, r2}
MCInstance == {i1, i2}
MCLineId == {l1, l2}
MCNumber == {human, other}
MCMessage == {m1, m2, m3}
MCRequest == {q1, q2}
Symmetry == Permutations(MCRoom) \union Permutations(MCInstance) \union Permutations(MCLineId)
            \union Permutations(MCMessage) \union Permutations(MCRequest)
=============================================================================
