SPECIFICATION Spec
CONSTANTS
    NoFile = NoFile
    MaxName = 3
    Room = 18
    Chosen <- MCModes
    Systems <- AllSystems
    Files <- MCFiles
    Faults = {"path", "load", "open"}
    Saves = 2
CHECK_DEADLOCK FALSE
INVARIANT FailureLeavesFile
PROPERTY StoresMode
