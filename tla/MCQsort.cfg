SPECIFICATION FairSpec
CONSTANTS
    MAX_THRESH = 4
    Size <- MCSize
    Tables <- MCTables
CHECK_DEADLOCK FALSE
INVARIANTS
    InBounds
    KeepsNodes
    Sorts
    StackHalves
PROPERTY Terminates
