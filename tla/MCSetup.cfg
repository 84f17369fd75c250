SPECIFICATION Spec
CONSTANTS
    AesVersions = {288, 920, 1024, 1040}
    Hardware <- MCHardware
    Others <- MCOthers
CHECK_DEADLOCK FALSE
INVARIANT RecognisesSystem
