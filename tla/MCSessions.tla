----------------------------- MODULE MCSessions -----------------------------
EXTENDS Sessions, TLC

CONSTANTS alice, bob, s1, s2

Symm == Permutations(Slots)
=============================================================================
