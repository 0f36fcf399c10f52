SPECIFICATION FairSpec
CONSTANTS
    Names = {n1, n2, n3}
    MaxDependencies = 2
INVARIANTS
    IInv
    SortedRespectsDependencies
    ReportedCycleIsReal
PROPERTIES
    ImplementsSort
    Advances
CHECK_DEADLOCK FALSE
