----------------------------- MODULE MC_Registry -----------------------------
EXTENDS Registry

CONSTANTS n1, n2, t1, t2

MCNames == {n1, n2}
MCTwoTypes == {t1, t2}
MCIds == {1, 2}
MCBadT1 == {t1}
=============================================================================
