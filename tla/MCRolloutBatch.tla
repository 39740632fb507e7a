----------------------------- MODULE MCRolloutBatch ----------------------------
\* Two workers of two trajectories each.  A cache holds no more than its
\* worker's trajectories, so a new batch evicts the entries of the one before;
\* those of the first worker come back to theirs for a second generation.
EXTENDS RolloutBatch

CONSTANTS s1, s2

MCServers == {s1, s2}
MCMaxGens == <<2, 2, 1, 0>>
===============================================================================
