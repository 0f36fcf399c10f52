SPECIFICATION Spec
CONSTANTS
    timeout = timeout
    verbose = verbose
    t = t
    v = v
    thirty = thirty
    word = word
    echo = echo
    list = list
    NoShort = NoShort
    NoDefault = NoDefault
    Fallback = Fallback
    LongNames <- MCLongNames
    ShortNames <- MCShortNames
    Values <- MCValues
    Numbers = {thirty}
    Registrations <- MCRegistrations
    Functions <- MCFunctions
    Callbacks = {"returns", "throws", "none"}
    Thrown = {"runtime_error", "NetworkException", "ConnectionException", "PermissionException", "other"}
    MaxArgs = 3
    MaxHandlers = 3
INVARIANTS
    IInv
    ArgumentsAccountedFor
    CommandGetsOptions
    AbortIsExplained
    HandledByLatest
    FailureIsReported
CHECK_DEADLOCK FALSE
