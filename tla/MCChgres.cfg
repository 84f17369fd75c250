SPECIFICATION MainSpec
CONSTANTS
    NoFile = NoFile
    MaxName = 3
    Room = 18
    Saves = 1
    Chosen <- MCChosen
    Systems <- MCSystems
    Files <- MCFiles
    Slots = {1}
    Limit = 2
    Wrap = 6
    MaxTime = 2
    Faults = {"path", "load", "open", "write"}
CHECK_DEADLOCK FALSE
INVARIANTS
    ErrorMeansNothingDone
    SilentMeansDone
    SavedBeforeApplied
    ResetFindsWhole
