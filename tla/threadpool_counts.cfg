SPECIFICATION Spec
CONSTANTS
    NThreadsMax = 2
    NNodes = 1
    FineChunks = 3
    ChunksPerThread = 1
    CountSets <- MCMixedCounts
    MaxGraphs = 3
\* A freed pool takes no further step.
CHECK_DEADLOCK FALSE
INVARIANT QuietPool
