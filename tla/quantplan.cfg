SPECIFICATION Spec
CONSTANTS
    NLayer = 11
    Inputs <- MCInputs
    Emissions <- MCEmissions
    Upgrades <- MCUpgrades
    UpTypes = {"Q4_K"}
    Columns <- MCColumns
    Importance <- MCImportance
    Sources = {"BF16", "Q4_K"}
INVARIANTS TypeOK PlanKept HeaderMeansWhole CounterIsLayer KernelHasWeights
\* The quantizer stops when it returns or fails.
CHECK_DEADLOCK FALSE
