SPECIFICATION Spec
CONSTANTS
    A = A
    B = B
    x = x
    y = y
    None = None
    Keys <- MCKeys
    Letters <- MCLetters
    Environment <- MCEnvironment
    Files <- MCFiles
INVARIANTS
    TypeOK
    ResultIsConsistent
CHECK_DEADLOCK FALSE
