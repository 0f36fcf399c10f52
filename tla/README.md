# Verification of Tufan

Tufan is a small C++23 application framework: an `Application` that owns a dependency
container, a service registry, a configuration repository, a logger and a
`ServiceManager`, which takes *service providers* through their life cycle. This directory
holds TLA+ models of it, TLC configurations that check them on small instances, and
proofs of their main properties for every instance, checked by TLAPS.

The models are read from the sources under `engine/`. At this commit the sources do not
build as they stand (`ServiceManager.hh:67` declares `eferredMap_` where the code uses
`deferredMap_`, `Container.cc:46` declares a second `lock` in the same scope, several
includes name directories that do not exist, `main.cc` names a class `TufanException` that
`Exceptions.hh` calls `CyberForgeException`). Where that is so the models take the
statements as they are evidently meant to be parsed, and change nothing else.

## Inventory

| Component | State | Operations | What is hard | What makes it correct |
|---|---|---|---|---|
| **ServiceManager** (`services/ServiceManager.*`, `ServiceProvider.*`) | `providers_`/`byName_`, `deferredMap_`, `registered_`, `booted_`; two flags in each provider | `add`, `registerAll`, `bootAll`, `bootstrap`, `loadDeferredFor`, queries | `register_()` and `boot()` are user code that gets the application and may call every operation again, or throw | providers pass absent → added → registered → booted in order and in dependency order; the two phases mean what they say; failures can be retried |
| **Dependency sort** (`ServiceManager.cc:256-298`) | locals of a recursive search | `sortByDependencies` | cycles, diamonds, missing and repeated dependencies | a dependency order, or an exception that tells the truth; termination |
| **ServiceRegistry** (`foundation/ServiceRegistry.hh`) | `entries_` with metadata, factory and cached instance, under a `shared_mutex` | `service`, `module`, `driver`, `bind`, `instance`, `resolve*`, `enable`, `disable`, `clear`, lists | factories run with the lock held exclusively; caching against replacement and disabling | one instance per singleton entry; no lost lock; no resolution of a disabled entry |
| **Container** (`foundation/Container.*`, `Binding.hh`) | `bindings_` under a `shared_mutex` | `bindRaw`, `instanceRaw`, `makeRaw`, `hasRaw`, `flush` | `makeRaw` goes from the shared to the exclusive lock | a resolution ends; a singleton is built once |
| **Application** (`foundation/Application.*`) | `booted_`, `running_`, environment, callback vectors | `bootstrap`, `run`, `terminate`, `onBooting`, `onBooted` | callbacks that register callbacks or call `bootstrap`; exceptions half way | each step once per boot, in order; a retry after a failure |
| **Logger**, `Global` (`logger/*`) | a level per logger, one filter for the whole log core, a global logger | `setLevel`, `channel`, `withLevel`, `Global::init`/`get` | levels of different loggers write the same filter; guards out of order; unsynchronised `get` | a logger lets through what its level says |
| **Repository** (`configuration/Repository.hh`) | typed map under a `shared_mutex` | `set`, `setMany`, `get`, `remove`, `clear` | check-then-act between calls; narrowing conversions | a read returns what some write put there |
| **EnvParser** (`configuration/EnvParser.cc`) | none | `parse`, `parseString` | first definition wins, interpolation from what precedes | a value depends on earlier lines only |
| **Console** (`console/*`) | registered commands | `handle`, `parse` | short and long options, defaults | a given option reaches the command |
| **ExceptionHandler** (`exceptions/Handler.*`) | list of handlers | `on`, `onAny`, `onUnhandled`, `handle`, `wrap` | last handler first; base classes hide derived ones; handlers that throw | the handler added last decides; a failure is not taken for a success |
| **Program** (`main.cc`) | the handlers, the kernel | `wrap`, the start, `handle`, `exit` | three places catch exceptions | the exit code |
| **Facades**, concrete providers | – | forwarding and wiring | – | – |

Calls go from `main` to `Application::bootstrap`, from there to the callbacks and the
providers, and from a provider back to the application and through it to the manager, the
container and the registry. The manager and the application have no locks and belong to one
thread; container, registry and repository are shared between threads.

## Modules

| Module | What it is |
|---|---|
| `DependencyOrder` | what a dependency order and a cycle are |
| `SortSpec` | what callers of `sortByDependencies` rely on: an order or a truthful exception, eventually |
| `TopologicalSort`, `TopologicalSortProofs` | `sortByDependencies` and the recursive `topologicalSort`, one action per branch |
| `Lifecycle` | what the manager promises: states of providers and two phases |
| `ServiceManager`, `ServiceManagerProofs` | the manager and its re-entrant calls |
| `Application`, `ApplicationProofs` | `bootstrap`, `run`, `terminate` and the callbacks they make |
| `ServiceRegistry`, `ServiceRegistryProofs` | the registry of components, used by several threads |
| `ConfigValues` | the typed values of the configuration and what `castValue` and `fromString` make of them |
| `ConfigurationSpec` | what the repository promises: every call is one step |
| `Configuration` | the repository behind its `shared_mutex` |
| `EnvironmentLoad`, `EnvironmentLoadProofs` | `Application::loadEnvironment` over that repository, beside other threads |
| `EnvParser`, `EnvParserProofs` | the parser of env files |
| `Console` | the kernel: registered commands, `ArgumentParser::parse`, the defaults, what `execute()` reads |
| `ExceptionHandler` | the classes of exceptions and the handler found for one of them |
| `Program`, `ProgramProofs` | `main.cc`: the handlers, the wrapped start, the kernel and the exit code |
| `Logger` | loggers over the shared core of Boost.Log |
| `GlobalLogger`, `GlobalLoggerProofs` | `Global::init` and `Global::get`, from several threads |
| `Container` | bindings behind a `shared_mutex` |
| `MC...` | instances for TLC |

`EnvironmentLoad` composes the application's loader with the repository; `GlobalLogger`
composes the global logger with the loggers; `Program` composes the exception handler with
the console kernel (neither `Console` nor `ExceptionHandler` has a specification of its own).
The manager uses the sort through `SortSpec`'s notion of order. `Application` and the manager
are not composed, because the code does not: the application's own `registerProviders` and
`bootProviders` go over its vector `providers_`, and nothing there calls the manager.

### The sort

A frame of `stack` is an active call of `topologicalSort`: its provider, whether it is past
its two early exits, and how many entries of `dependencies()` its loop has taken up. The
locals `visited`, `inStack` and `result` are those of `sortByDependencies`; `next` is its
position in `providers_`. `DetectCycle`, `ReturnVisited` and `Enter` are the three ways
through lines 275-284, `SkipMissing` and `Descend` the two through the loop, `Finish` lines
295-297. `Init` ranges over every order of every set of names and every list of
dependencies up to `MaxDependencies` long, so a list may repeat a name, name its own
provider or name one that was never added.

### The manager

`byName` stands for `providers_` and `byName_` (they hold the same providers), `deferredMap`,
`registered` and `booted` for the fields of those names, `isRegistered` and `isBooted` for
the flags of the providers. The manager is single-threaded but re-entrant, and that is where
its difficulty lies: a frame of `stack` is a call in progress, with the operation, the loop
it is in (`phase`), the providers of its own sorted copy still to come (`todo`), the
providers that existed when it sorted (`scope`), and whether the callback of the first of
`todo` is running (`inCall`). While it is, any operation may be called; the callback then
returns (`RegisterReturns`, `BootReturns`, `LoadRegisterReturns`, `LoadBootReturns`) or
throws (`CallbackThrows`), which ends the call of the manager; what it had not yet done is
not done. `bootstrap` is one frame that goes from one loop to the other (`FinishRegister`).
Operations that return or throw before changing anything (a duplicate `add`, `registerAll`
when done, `bootAll` too early, a cyclic sort, an unknown alias, a loaded provider) are the
`...AtOnce` actions.

The sort is used through its specification: some order of `Orders`, or an exception if there
is a cycle. Hence the manager's properties do not depend on the order of `add`. That
exactly one of the two exists is checked in `MCTopologicalSort` (`CyclicMeansNoOrder`).
Texts printed or carried by exceptions, the warnings of `checkDependencies` and the queries
are left out: they change nothing. `add(nullptr)` throws before it changes anything.

### The application

`bootstrap` goes through four loops: booting callbacks, `register_()`, `boot()`, booted
callbacks. A frame of `stack` is a call of `bootstrap` (or of `run`, which calls it): the
loop it is in, the position in it, the size the vector had when the loop began, and whether
the element is being called. While it is, that code may add callbacks, call `bootstrap`,
`run` or `terminate`, return (`CallReturns`) or throw (`CallThrows`). `booted_` is set by
`Finish` only, so a nested `bootstrap` starts again from the first loop. A callback pushed
into the vector a loop runs over may move it, which leaves the loop with invalid iterators;
the model then chooses whether the program goes on or has `crashed`, after which nothing
happens. `attempts`, `early` and `called` are history. `BootstrapAtOnce` covers a booted
application and a `loadEnvironment` that throws. `Application.cc` uses `providers_`, which
`Application.hh` fills in a function that is commented out; the model takes it as a vector
of constant size `Providers`.

### The registry

Every operation of `ServiceRegistry.hh` takes `mutex_` and keeps it to its end; those that
call nothing are one action (`Bind`, `BindInstance`, `SetEnabled`, `Clear`). `resolve`,
`resolveByType` and `resolveByTag` run factories, so they are several: `Resolve` or
`ResolveGroup` takes the lock (`holder`) and lists the components to build
(`calls[t].todo`); each is served from the cache (`ReturnCached`) or by its factory
(`CallFactory`, then `FactoryReturns` or `FactoryThrows`). Registrations are numbered, so
that a component registered again is told apart from its predecessor. `given` records what calls
were given so far; `gave` is what the last step gave, or `None`, so that giving the same cached
object once more is an event too. `registerEntry`, `enable`, `disable` and `clear` are declared and
used but have no body in the repository; they are modelled from their declarations and the
tests, and `registerEntry` may either replace or keep an entry that is there. Whether
recursive locking of a `shared_mutex` blocks is undefined, so a factory of `Reentrant` may
wait for itself for ever.

### The configuration

`data` is `data_`: every key has a typed value or `Absent`. `Set`, `Remove`, `Clear`, `Has`,
`Get` and `Size` do one thing to the map while they hold the lock and are one action; they
can happen when the lock can be had (`Exclusive`, `Shared`). `setMany` and `keysWithPrefix`
go through the map element by element under `writer` and `readers`, in any order, as
`std::unordered_map` iterates. `Cast` is `castValue`: the same type, or a conversion of a
`std::string`, or an exception (`Refused`); a string literal is stored as `const char*`, which
is neither. Integers are narrowed to the type asked for as the build narrows them (`Narrow`,
with `2 * Half` values). Floating-point values convert in the same way and are left out. The
repository refines `ConfigurationSpec`: `contents` is `data` overlaid with what a running
`setMany` has still to write.

`EnvironmentLoad` follows `loadEnvironment`: it chooses the file by the `APP_ENV` of the
process (`Begin`, `BeginWithoutFile`), stores it (`Store`), and then for each setting calls
`has` (`Check`) and, if it is there, `get` (`Copy`), each of which takes the lock for itself.
Between any two of these steps other threads call anything of the repository (`OthersCall`).
`past` records what each key has held since the file was stored; it is cleared at the end.

### The parser of env files

A line is what `parseLine` tells apart: the key, the quotes, the text between them, and a
tail (a comment or a carriage return) that decides whether the quotes are recognised. A text is
a sequence of letters and references. `Stripped` is `stripQuotes`, `Interpolated` is
`interpolate`, `Emplace` and `EmplaceRefused` are the two outcomes of `emplace`.

### The console

`commands` is `commands_`: a name and the options that `configure()` declares; `Register`
replaces a command of the same name, as `commands_[name] = ...` does. `Handle` picks a
command, or returns at once (`HandleNoCommand`). An argument has one of the six kinds that
`parse` distinguishes (see the head of `Console`), and each branch of the parser's loop is an
action: `ReadFlag`, `ReadAssign`, `ReadWithValue`, `ReadWithoutValue`, `ReadPositional`.
`PrintHelpOrVersion` and `Execute` are what `handle` does with the result; the short names of
`Kernel.cc:67-73` have no effect and are not in `FillDefaults`. A running command reads an
option (`ReadOption`) as text, number, bool or with the template for another type, and then
returns or throws. `stoi` and `stod` in a `noexcept` function end the program (`aborted`).
A command reads at most once in the model: what it reads is kept in the history variable
`read`, and reading changes nothing else.

### The exception handler and the program

`Base` is the class hierarchy, `Ancestors` what a `dynamic_cast` accepts. `handle` is `Catch`
(or `CatchNothing`), then one `TryHandler` for each handler from the last to the first, then
`TryAny`, then `Report` for the callback. An added function is its class, its answer and
whether it throws; an exception out of it ends the program, because `dispatch` and `handle`
are `noexcept` (`aborted`). `Program` adds the handlers of `main.cc` (`AddMainHandlers`) or any
others (`AddFunction`, for programs of another kind), and follows `wrap` from the start of the
application (`StartUp`, `StartUpThrows`) through the kernel (`UseConsole`) to `std::exit`
(`Exit`), or to the handler if something that is no `std::exception` gets through the kernel
(`Escape`). `Wrap` is the handler without a console.

### The container

`makeRaw` takes `mutex_` shared (`Make`), looks the binding up (`Found`, `NotResolved`), and takes
`mutex_` exclusively without having let go of it (`Resolve`). The standard leaves that
undefined; with the POSIX read-write locks the build uses the thread waits, and so it does in
the model. The other calls take the mutex for one step.

### The loggers

`loggers` lists the loggers made, each with its configuration and `currentLevel_`; `filter`,
`consoleSinks` and `fileSinks` are the state of the one Boost core they share. `Construct`
and `ConstructThrows` are the constructor (the console sink stays if the log directory cannot
be made), `Channel` makes a child, `WithLevel` and `EndGuard` are a `LevelGuard`'s
life. `Written` says how many copies of a message reach which target. Nothing guards
`currentLevel_`, so loggers are used by one thread at a time in the model. `GlobalLogger`
adds `Global::init` and `Global::get`: `std::call_once` is modelled as the standard
specifies it (one call runs the function, others wait, an exception leaves the flag unset). The
pointer is read in `get` without a lock: the read gives the old or the new pointer.

## What is checked

| Run | States | Instance |
|---|---|---|
| `topological_sort` | 105,113 | all sets of up to three providers in every order, lists of up to two dependencies |
| `service_manager` | 107,391 | two eager and two deferred providers, calls nested to depth 2 |
| `application` | 463,234 | two providers, two callbacks of each kind, three attempts, depth 2 |
| `service_registry` | 151,186 | two threads, two components (one with a re-entrant factory), one group, three registrations, two objects |
| `environment_load` | 1,246,170 | the loader and another thread, two settings, words of every kind of convertibility, no env file, `.env` alone, or `.env` and the file of the environment with either contents |
| `env_parser` | 206,794 | every file of up to three lines, over two keys, six forms of value and three texts |
| `program` | 304,303 | two commands (one registered twice), every list of up to three arguments, up to three handlers for classes above and below each other |
| `global_logger` | 664,932 | two threads, two loggers, three guards one inside the other, one constructor that throws |
| `env_single_quotes`, `console_short_names`, `network_exit`, `container` | – | the disagreements described under *Findings* |

Each property has a mutant: a definition with a plausible bug (they are next to the original
and marked "Variant of"), under which TLC finds that property violated.

**`topological_sort`.** Three nodes suffice for a diamond's two paths to one node and for
cycles of every kind of length relevant to the two tests at the entry (self, two, longer).
- `SortedRespectsDependencies`, `ReportedCycleIsReal`: the two outcomes are right.
- `ImplementsSort`: the search refines `SortSpec`, termination included.
- `Advances`: every step makes a measure of the search smaller, in lexicographic order: providers
  not entered yet, the outer loop, open calls, the loop of the innermost of them. This is why it
  ends on cyclic dependencies too, and the part of termination that can be proved.
- `IInv`: the inductive invariant of the proofs.

**`service_manager`.** `core` and `app` are eager, `app` depends on `core`. `lazy` and `rogue`
are deferred and both provide the alias `x`, `rogue` alone provides `y`. `core` depends on
`rogue`, and `lazy` and `rogue` depend on `app`: without `rogue`, `core` has a missing
dependency; with it, `core`, `rogue` and `app` form a cycle and every sort throws. Depth 2
contains an operation inside each callback of each other one, an inner loop that ends the
phase of an outer one, and a load inside a loop; a third level adds only repetitions of
these (it has been run: 1.5 million states, no error).
- `DependenciesRegisteredFirst`, `DependenciesBootedFirst`: the order of callbacks, in spite
  of providers added, registered or booted by the callbacks in between.
- `RegisterAllCompletes`: no exception and no re-entrant call makes `registerAll` pass over a
  provider and return normally.
- `BootedMeansBooted`: `booted_` is true of every eager provider that was registered, for good.
- `RegistrationIsOver`: after `registered_` is set no eager provider is registered. This is
  what the code does with late providers; it is worth knowing, because `bootstrap` goes on
  returning normally.
- `DeferredStaysReachable`: as long as no provider of an alias is booted, the alias leads to one
  of them, whatever loads have thrown and whichever provider took the alias over. Once one is
  booted nothing more is promised: a load erases the alias for the others too.
- `ImplementsLifecycle`: the manager refines `Lifecycle`.

**`application`.** Three attempts are one that fails, one nested in another, and one more.
- `LoopsInOrder`: no element of a loop is called before every early element of the loops
  ahead of it has been: no provider is booted before all are registered.
- `BootedMeansCalled`: `booted_` means nothing that was there at the start was passed over.
- `OncePerBootstrap`: what was called n times took n bootstraps.
- `RunningMeansBooted`: `run` does not get past a `bootstrap` that throws.

Of a crash nothing is claimed: using iterators of a vector that has moved is undefined, and no
document says that callbacks may not add callbacks.

**`service_registry`.** Three registrations let one component be replaced while the other
stays; two objects are enough to tell a cached object from a new one.
- `OneInstancePerSingleton`: everyone who resolves one registration of a singleton gets the
  same object, across failures of the factory, `disable` and `enable`.
- `OnlyEnabledGiven`: every time an object is given out, built just now or cached and given before,
  it is the object of a component that is registered and enabled at that moment. It is about the
  step that gives (`gave`); in `given` a cached object that is given again would not show.
- `LockIsReleased`: a thread that took `mutex_` lets go of it, whatever factories throw,
  unless it is in a factory that uses the registry.

**`environment_load`.**
- `RepositoryIsAtomic`: the repository refines `ConfigurationSpec`; nobody sees half of a
  `setMany`, and a list of keys was true at one moment.
- `LoadedSettings`: every setting copied is a value the repository held under its key after
  the file was stored, or what it was if the key was missing.
- `SettingsFromFile`: a setting that the file chosen has and that no other thread changes is what
  that file says. The file is that of the `APP_ENV` of the process, or `.env` if there is none;
  `APP_ENV` in the file then wins over that of the process, so `environment_` may be another than
  the one the file was chosen for, but the settings never come from two files, and what the
  repository held before is overwritten. Both files exist with different contents, in both ways
  round, so that taking the other one shows.
- `ThrowIsExplained`: after the file is in, `loadEnvironment` throws only for a key that was
  removed between `has` and `get`, or whose value does not convert. The settings before it
  have been replaced by then, and stay so.

**`env_parser`.** `ResultIsConsistent`: every key has the text of its first line, with each
reference replaced by the value the result holds for it if it was defined on an earlier line.
Three lines hold a definition, a redefinition and a use, in every order.

**`program`.** Three arguments hold an option with its value and something behind or in front
of it, or the same option again. Three handlers are one for a class, one above and one below
it, in every order, some of which throw or decline.
- `ArgumentsAccountedFor`: no argument is lost or used twice.
- `CommandGetsOptions`: under a long name the command, the one registered last under its
  name, finds what was given last, or the declared default, or nothing.
- `AbortIsExplained`: reading a number ends the program exactly if what the user gave last (or
  the default, if nothing was given) is no number. An option that is missing altogether never does.
- `HandledByLatest`: who answers an exception is the handler added last among those that
  accept and answer it, and the callback for unhandled exceptions is called only if nobody answers.
- `FailureIsReported`: if no added function answers with 0 and `onAny` was called, whatever
  throws, wherever it is caught, the program does not end with 0. Without `onAny`, or with
  one that returns `HandlerResult::unhandled()` itself, it may: that answer has the exit code 0
  (`Handler.hh:33`).
- `IInv`: the inductive invariant of the proofs.

**`global_logger`.** One thread runs the constructor while the other waits for it or gets the logger.
- `GlobalIsOne`: every `get` gives the same logger and never a null pointer.
- `GlobalStays`: the first successful `init` decides.
- `LoneLoggerWrites`: with one logger, what its level admits reaches each target once, and
  nothing else is written. It speaks of one logger because with more the filter is that of
  the logger set last, and sinks add up; no document promises anything for that case. `Off`
  is excluded from what is logged: it is a threshold and not a severity.
- `GuardsRestoreLevel`: the outermost guard gives back the level set outside of it.
- `IInv`: how `call_once`, the flag, the pointer and the loggers agree.

**Deadlock** is checked in `service_manager`, `service_registry`, `environment_load`
and `global_logger`. In the sort, the env parser and the program the computation ends; the application may have
crashed.

**Symmetry** is used in `global_logger` only: its threads are interchangeable in the model, and
no liveness is checked there.

**Fairness.** `ImplementsSort` needs weak fairness of the sort's steps: it runs in one thread that
takes steps as long as it can. `LockIsReleased` assumes that a thread which holds `mutex_` is scheduled
and that a factory ends, unless it uses the registry (`Progress`).
`MakeReturns` assumes that a thread in `makeRaw` goes on whenever it can, so what is found there is
no lack of scheduling. No other property needs any.

### Findings

- `env_single_quotes`: `parseLine` interpolates every value, also one in single quotes, which
  `EnvParser.cc:91` says is taken literally (`SingleQuotesAreLiteral`).
- `console_short_names`: an option given by its short name never gets to its long name; the
  condition of `Kernel.cc:67` excludes that of line 69, and the default is used
  (`ShortNamesAreSynonyms`).
- `network_exit`: `main` adds a handler for `NetworkException` that answers 2 (`main.cc:109-113`,
  and 2 is what the class says, `Exceptions.hh:137-140`), and behind it one for the base class.
  `dispatch` tries the latter first, so the program ends with 1 (`NetworkErrorsExitWithTwo`). A network
  error inside a command does not get that far: the kernel catches it and returns 1.
- `container`: the first `make` of a bound type waits for a lock its own thread holds
  (`MakeReturns`); `ContainerTest.cc:43-48` expects two calls to return.

## What is proved

The proofs hold for every value of the constants that satisfies the assumptions named
`...Assumption` in the modules. These give the constants their types, and require no more than
that the sets of names or providers are finite, that thread and key names differ from the
values that stand for "none", and, in the configuration, that `setMany` is given strings and
the environment's files hold strings, as its type `map<string, string>` says. The bounds on
registrations, objects, callbacks and nesting are constants too: what is proved holds for each.

**The sort.** `SortedRespectsDependencies` and `ReportedCycleIsReal` say nothing about a search
under way; `IInv` does. `InStackIsCallStack`: `inStack` is the set of providers whose calls are
past the early exits, each with one call (without it the exception proves nothing).
`CallsFollowDependencies`: each call was made for the dependency its caller took up last, so
that the stack from the reappearing provider on is a cycle. `VisitedIsResult`,
`ResultIsClosed`: `result` lists the visited providers and each dependency precedes what needs
it. `TakenIsProcessed`: what a loop has passed is missing or visited, except for the call now
active; it is what makes `ResultIsClosed` survive `Finish`. `PassedIsVisited`: the outer loop
misses nobody. One lemma per action gives `SearchInvariant`; from it follow `SortedIsOrder`,
`CycleIsReal` and `SearchImplementsSort` (every step is a step of `SortSpec` or a stutter; it
is about the safety part).
`OrderOrCycle` is about `DependencyOrder` alone: a finite set has a dependency order exactly if it
has no cycle. Of a cycle the member that comes first in an order has a dependency before it. Without
a cycle an ordered part that contains its dependencies (`ClosedPart`) can be extended, because some
provider left over depends on none of the others left over (`OneMore`). With it,
`NoCycleIsMissed`: what is sorted has no cycle.
`SearchAdvances` (of `Advances`) and `NothingAdvancesForEver` (no infinite sequence of measures gets
smaller at every step) together say that the sort makes finitely many steps. What is left to TLC is
the last inference, from there to `<>`, which needs fairness.

**The manager.** `IInv` gives each call on the stack its invariant, whatever is called above it.
`RegisteringOK`: every eager provider of `scope` no longer in `todo` is registered, `todo` is
in dependency order, and once `registered_` is set (by an inner call) the whole scope is
registered. `BootingOK`: the same for boots; it can speak of all registered providers and not
only of those in the loop's copy because nothing eager is registered after `registered_`.
`LoadingOK`: a load is about a deferred provider. `Nested`: of two register loops the
inner one has sorted all the outer one has; therefore the end of the inner one is right
to set `registered_` although the outer one is not done. `CallStaysOK` is the heart of the
proof: what is true of a suspended call stays true while flags only grow.
From `Invariant` follow the theorems named after each property, `NoLateRegistration`, and
`LifecycleImplemented`.

**The application.** `LoopsInOrder` is not inductive: it does not say what a call in progress has
done. `FramesOK` does, for every frame of the stack: the loops ahead of its own are done, and
of its own loop what it has passed. It survives the calls above it because `called` only grows and
`early` is fixed with the first attempt (`FirstAttempt`, `EarlyAreThere`). Theorems: `LoopOrder`,
`BootedIsComplete`, `RunningIsBooted`.
`OncePerBootstrap` needs a count: `CallsCounted` says that what an element was called, plus the
calls in progress that have still to reach it (`Waiting`), is at most the number of bootstraps begun.
A call turns one of the latter into one of the former; the theorem is `CalledOnce`.

**The registry.** `OneInstancePerSingleton` is about what was given; `GivenIsCached` ties it to
what is cached, as long as the registration is there; `IdsAreDistinct` says a new
registration is none of those; and `CallsAreAlone` is the lock discipline: the thread in a call
is the holder, so no entry is replaced, disabled or filled between `CallFactory` and
`FactoryReturns`. Theorems: `SingletonIsUnique`, `DisabledIsNotGiven` (of `OnlyEnabledGiven`).
Behind `LockIsReleased` stand two safety facts: who holds `mutex_` is in a call with something left
to do, also after exceptions (`HolderIsInCall`), and every step taken meanwhile is one of that call and
shortens it (`HolderGoesOn`).

**The parser.** `IInv` adds to `ResultIsConsistent` that `result` is a function. The proof is that what
a line has seen of the result (`SeenBy`) is not changed by later lines (`SeenGrows`). The theorem
is `Consistent`. `NoReferenceLeft` (of `TypeOK`) says that values are plain text: it follows
`interpolate` through a text piece by piece (`FlattenType`, `InterpolatedType`).

**The configuration.** `LockProtects` says what the threads in `setMany` and `keysWithPrefix`
rely on: one writer or several readers, and a found set that is right for what was looked at;
from it `Atomicity` follows, step by step (`WriteRefines`, `ReadRefines`). `LoaderCalls` and
`SettingsSoFar` say where the loader is and that `past` contains the present contents while it
copies. `SettingsAreLoaded` and `ThrowingIsExplained` are proved by invariants of their own on top.
For `SettingsAreTheFiles` the invariant is `FileStored`: while the loader holds the lock nobody else
writes (`OnlyLoaderStores`), so what it has put in of the file stays there until it lets go, and is
in `past` from then on; with `SettingsAreLoaded` that leaves no other value for an undisturbed key.

**The global logger.** `IInv` ties the parts of `call_once` together: the flag is set only with the
pointer, one thread at a time is in the constructor, and what a thread was given is the pointer. `OneGlobal` and
`GlobalKept` follow from it. `LevelsRestored` and `LoneLogger` each have an invariant of their own on top: the
guards of one logger lie over each other and each holds the level below it; and a logger that is
alone has the filter to itself.

**The program.** `DispatchInOrder` says how far `dispatch` has come: no handler it has passed was
willing (`Willing`), so that the first it finds is the one added last. `KernelInOrder` does the same
for `parse`: `OptionsSoFar` is what the options hold after the arguments read, and that the
parser is never at an argument that is another one's value (`IsValue`); this is the reason why one look back
is enough to say what an argument is. `RegisteredLast` is about the commands. `StagesAgree` connects
the three places that catch exceptions with the exit code. Theorems: `LatestDecides`,
`OptionsAreMeant`, `AbortExplained`, `FailuresAreReported`, and `ArgumentsAreAccountedFor`, which counts:
the place of a word in the list of positional arguments is the number of such words up to it.

**Induction.** The library's induction theorems take an operator and cannot be used. Where a proof
is an induction over a number or a length it takes the least counterexample instead: `Least` (a
nonempty set of naturals has a least member, from the well-founded order on finite sets of the library) and
`UpTo` (what holds of 0 and carries over from i to i + 1 holds up to n) are stated for sets, which are
values. This serves the texts of the parser, the existence of orders and the end of the sort.

**Model-checked only:** the liveness properties, `LockIsReleased`, `MakeReturns` and the liveness half
of `ImplementsSort`: fairness and `ENABLED` are beyond the prover. Of the first and the last the safety
facts they rest on are proved, as said above. `MakeReturns` does not hold (see *Findings*). All
other properties of the passing runs are theorems.

## Not modelled

- **Facades, concrete providers:** they forward or wire. The manager's model allows
  its callbacks everything the concrete providers do to it; of `LogServiceProvider` the
  configurations it may give to `Global::init` are in `GlobalLogger`.
- **Parts of modelled components:** `registerBaseBindings` and the destructor of the application,
  the two scanners of `main.cc`, reading env files, floating-point values of the
  configuration, the messages and contexts of exceptions, formatting and colours everywhere.
- `IConfig` has no implementation. Tests are read as statements of intent.

`components` in `PROJECT.json` lists every part with its status, `hazards` what is hard to test
and which properties are about it.

## Plan

Done: dependency sort, service manager, application, registry, configuration with the
environment's load, env parser, console, exception handler and the program around them,
loggers and the global logger, container.

Left, in this order:
1. A statement of what `option<T>` gives for a `std::string` (`main.cc:68` never sees `--module`), as
   soon as a document says what it should.
2. `Container` under a repaired `makeRaw` (release, then lock, then look again): a singleton is
   built once, and a factory that makes further types does not wait for itself.
3. Proofs: that a bootstrap of the manager whose callbacks return ends, by a measure as for the sort.
