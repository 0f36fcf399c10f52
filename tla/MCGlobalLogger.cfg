SPECIFICATION Spec
SYMMETRY Symmetry
CONSTANTS
    t1 = t1
    t2 = t2
    Threads = {t1, t2}
    LevelsUsed = {1}
    Configs <- MCConfigs
    MainConfig <- MCMainConfig
    DefaultConfig <- MCDefaultConfig
    ProviderLevels = {}
    Plain = TRUE
    MaxLoggers = 2
    MaxGuards = 3
    MaxFailures = 1
INVARIANTS
    IInv
    GlobalIsOne
    LoneLoggerWrites
    GuardsRestoreLevel
PROPERTIES
    GlobalStays
