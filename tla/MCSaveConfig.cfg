SPECIFICATION Spec
CONSTANTS
    NoFile = NoFile
    MaxName = 3
    Room = 18
    Chosen <- MCChosen
    Systems <- AllSystems
    Files <- AnyFile
    Faults = {}
    Saves = 3
CHECK_DEADLOCK FALSE
INVARIANTS
    TypeOK
    SavedIsOnDisk
PROPERTY StaysUsable
