SPECIFICATION Spec
CONSTANTS
    NoFile = NoFile
    MaxName = 3
    Room = 18
    Chosen <- Sagas
    Systems <- AllSystems
    Files <- AnyFile
    Faults = {}
    Saves = 1
CHECK_DEADLOCK FALSE
INVARIANT ExampleWorks
