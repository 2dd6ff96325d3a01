---------------------------- MODULE MCIndexFile ----------------------------
EXTENDS IndexFile, TLC

CONSTANTS s1, s2, w1, w2, k1, k2

Alike == Permutations({s1, s2}) \cup Permutations({w1, w2}) \cup Permutations({k1, k2})
=============================================================================
