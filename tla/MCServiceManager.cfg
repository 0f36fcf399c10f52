SPECIFICATION Spec
CONSTANTS
    core = core
    app = app
    lazy = lazy
    rogue = rogue
    x = x
    y = y
    Providers <- MCProviders
    Aliases <- MCAliases
    Deps <- MCDeps
    Provides <- MCProvides
    Deferred <- MCDeferred
    MaxDepth = 2
INVARIANTS
    IInv
    DependenciesRegisteredFirst
    DependenciesBootedFirst
    RegisterAllCompletes
    BootedMeansBooted
    DeferredStaysReachable
PROPERTIES
    RegistrationIsOver
    ImplementsLifecycle
