SPECIFICATION Spec
CONSTANTS
    a1 = a1
    a2 = a2
    Applies <- MCApplies
    Inputs <- MCInputs
    Installed <- MCInstalled
SYMMETRY Symmetry
INVARIANTS
    EnvPointsToModel
    ServiceRunsTheFile
PROPERTIES
    FailedApplyRestores
CHECK_DEADLOCK FALSE
