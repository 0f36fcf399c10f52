SPECIFICATION Spec
CONSTANTS
    loader = loader
    other = other
    Absent = Absent
    Nobody = Nobody
    Threads <- MCThreads
    Loader = loader
    Keys <- MCKeys
    Words <- MCWords
    TrueWords <- MCTrueWords
    FalseWords = {}
    Number <- MCNumber
    Half = 4
    Stored <- MCStored
    Batches <- MCBatches
    Groups <- MCGroups
    Settings <- MCSettings
    EnvKey = "APP_ENV"
    DebugKey = "APP_DEBUG"
    Default <- MCDefault
    Disks <- MCDisks
    Base = ".env"
    AppEnvs <- MCAppEnvs
INVARIANTS
    IInv
    LoadedSettings
    SettingsFromFile
    ThrowIsExplained
PROPERTIES
    RepositoryIsAtomic
