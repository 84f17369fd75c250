SPECIFICATION Spec
CONSTANTS
    Beyond = "other memory"
    MaxLost = 0
    Machines <- MCMachines
CHECK_DEADLOCK FALSE
INVARIANT
    LabelTrue
