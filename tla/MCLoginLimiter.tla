--------------------------- MODULE MCLoginLimiter ---------------------------
EXTENDS LoginLimiter, TLC

CONSTANTS a1, a2, c1, c2

Symm == Permutations(Addrs) \cup Permutations(Logins)
=============================================================================
