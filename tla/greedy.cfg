SPECIFICATION FairSpec
CONSTANTS
    QuantTypes <- MCQuantTypes
    NoiseAt <- MCNoiseAt
    NumTensors = 3
    Layer <- MCLayer
    Params <- MCParams
    Scores <- MCScores
    Targets <- MCTargets
INVARIANTS
    TypeOK
    WithinBudget
    BooksBalance
    BaseOnMenu
    CandidatesQueued
    NeverUnderestimates
    MaximalAtEnd
PROPERTIES
    Terminates
\* The allocator stops when it returns.
CHECK_DEADLOCK FALSE
