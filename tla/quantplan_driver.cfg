SPECIFICATION Spec
CONSTANTS
    NLayer = 11
    Inputs <- MCInputs
    Emissions <- MCDriverEmissions
    Upgrades <- MCUpgrades
    UpTypes = {"Q4_K"}
    Columns <- MCColumns
    Importance <- MCImportance
    Sources = {"BF16"}
INVARIANTS PlanKept
\* The quantizer stops when it returns or fails.
CHECK_DEADLOCK FALSE
