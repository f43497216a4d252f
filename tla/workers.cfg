SPECIFICATION FairSpec
CONSTANTS
    NumExperts = 2
    NRows = 5
    RowsPerChunk = 2
    MaxThreads = 3
    Defects <- MCDefects
INVARIANTS
    TypeOK
    NoSharedRows
    QuantizedOnce
    SizeExact
    InvalidReported
PROPERTIES
    CallEnds
\* The tensor is done when the call returns or throws.
CHECK_DEADLOCK FALSE
