SPECIFICATION Spec
CONSTANTS
    NThreadsMax = 3
    NNodes = 2
    FineChunks = 4
    ChunksPerThread = 2
    CountSets <- MCFixedCounts
    MaxGraphs = 2
\* A freed pool takes no further step.
CHECK_DEADLOCK FALSE
INVARIANTS TypeOK InStep ChunksOnce AbortStops QuietPool NeverStuck
PROPERTIES GraphReturns FreeReturns
