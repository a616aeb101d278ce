---------------------------- MODULE MCApiLimits ----------------------------
EXTENDS ApiLimits, TLC

CONSTANTS p1, p2, k1, k2

AnyOrder == Permutations({p1, p2}) \cup Permutations({k1, k2})
=============================================================================
