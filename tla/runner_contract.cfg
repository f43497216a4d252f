SPECIFICATION FairSpec
CONSTANTS
    Prefixes <- MCPrefixes
    PrefixLen <- MCPrefixLen
    PrefixMask <- MCPrefixMask
    Hash <- MCHash
    NoMask <- MCNoMask
    Garbage = Garbage
    NumLayers = 2
    MaxSeqLen = 3
    NumSteps = 2
    Faults = {"frontend", "suffix"}
PROPERTIES
    ImplementsContract
\* An aborted process takes no further step.
CHECK_DEADLOCK FALSE
