---------------------------- MODULE MCPageCache ----------------------------
EXTENDS PageCache, TLC

CONSTANTS p1, p2, p3, a1, a2, a3, v1, v2

MCPageId == {p1, p2, p3}
MCAddr == {a1, a2, a3}
MCValue == {v1, v2}

\* Pages, addresses and contents are only compared for equality.
Symmetry ==
    Permutations(MCPageId) \cup Permutations(MCAddr) \cup Permutations(MCValue)
============================================================================
