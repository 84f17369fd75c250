SPECIFICATION FairSpec
CONSTANTS
    Slots <- MCSlots
    Limit = 3
    Wrap = 8
    MaxTime = 3
CHECK_DEADLOCK FALSE
INVARIANTS
    TypeOK
    KillsOnlyVetoing
    PatientUntilLimit
PROPERTIES
    NoResetAfterSwitch
    Terminates
