--------------------------- MODULE MCPackEntities ---------------------------
EXTENDS PackEntities, TLC

CONSTANTS t1, t2, s1, s2, e1, e2

MCThreads == {t1, t2}
MCSlots == {s1, s2}
MCEntities == {e1, e2}
MCSymmetry == Permutations(MCSlots) \cup Permutations(MCEntities)
===============================================================================
