SPECIFICATION Spec
CONSTANTS
    Providers = 2
    MaxCallbacks = 2
    MaxAttempts = 3
    MaxDepth = 2
INVARIANTS
    IInv
    LoopsInOrder
    BootedMeansCalled
    OncePerBootstrap
    RunningMeansBooted
CHECK_DEADLOCK FALSE
