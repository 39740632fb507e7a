\* Two batches over two workers, with concurrent trajectories that may raise.
CONSTANTS
    s1 = s1
    s2 = s2
    Servers <- MCServers
    Workers = 2
    Share = 2
    CacheSize = 2
    MaxGens <- MCMaxGens
    MaxBatches = 2
SPECIFICATION FairSpec
INVARIANTS
    Aligned
    AwakeWhileRunning
    Sticky
    Balanced
PROPERTY BatchEnds
\* Training ends after the last batch or a failure.
CHECK_DEADLOCK FALSE
