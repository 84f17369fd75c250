SPECIFICATION Spec
CONSTANTS
    Beyond = "other memory"
    MaxLost = 1
    Machines <- MCMachines
CHECK_DEADLOCK FALSE
INVARIANTS
    TypeOK
    DriverIsAssigned
    CardOwnsDepth
    NumberIsPlace
    RowTellsMode
    CodeTellsMode
    WordTellsMode
    FoundAgain
