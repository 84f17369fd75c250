SPECIFICATION Spec
CONSTANTS
    NoFile = NoFile
    MaxName = 3
    Room = 18
    Chosen <- MCChosen
    Systems <- AllSystems
    Files <- Expected
    Faults = {"open", "write"}
    Saves = 1
CHECK_DEADLOCK FALSE
INVARIANT SavedMeansWritten
