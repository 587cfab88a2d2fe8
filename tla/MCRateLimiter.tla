--------------------------- MODULE MCRateLimiter ---------------------------
EXTENDS RateLimiter, TLC

CONSTANTS k1, c1, c2, a1

Symm == Permutations(Callers)
=============================================================================
