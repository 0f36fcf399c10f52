SPECIFICATION Spec
CONSTANTS
    t1 = t1
    t2 = t2
    plain = plain
    nested = nested
    web = web
    None = None
    Threads <- MCThreads
    Aliases <- MCAliases
    Groups <- MCGroups
    Reentrant <- MCReentrant
    MaxRegistrations = 3
    MaxInstances = 2
INVARIANTS
    IInv
    OneInstancePerSingleton
PROPERTIES
    OnlyEnabledGiven
    LockIsReleased
