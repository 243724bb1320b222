---------------------------- MODULE MCTokenBucket ----------------------------
\* Instances of TokenBucket for TLC.
EXTENDS TokenBucket, TLC

CONSTANTS c1, c2, c3

MCCalls2 == {c1, c2}
MCCalls3 == {c1, c2, c3}
MCSymmetry3 == Permutations(MCCalls3)
=============================================================================
