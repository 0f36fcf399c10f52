--------------------------------- MODULE Logger ---------------------------------
(***************************************************************************)
(* engine/logger/Logger.cc: loggers, each with a level of its own, over    *)
(* the one core of Boost.Log, whose filter and sinks they share.  Nothing  *)
(* in Logger guards its members, so one thread at a time uses loggers.     *)
(***************************************************************************)
EXTENDS Integers, Sequences, SequencesExt, FiniteSets

CONSTANTS
    LevelsUsed,  \* the levels setLevel and withLevel are called with
    Configs,     \* the configurations loggers are made with
    MaxLoggers,  \* bound on the loggers made
    MaxGuards,   \* bound on the level guards alive at a time
    MaxFailures  \* bound on the constructors that throw

\* LogLevel, from Trace to Off.
Info == 2
Off == 6
Levels == 0..Off

LoggerConfig == [level : Levels, toConsole : BOOLEAN, toFile : BOOLEAN,
                 colorized : BOOLEAN]

ASSUME LoggerAssumption ==
    /\ LevelsUsed \subseteq Levels
    /\ Configs \subseteq LoggerConfig
    /\ {MaxLoggers, MaxGuards, MaxFailures} \subseteq Nat

VARIABLES
    loggers,       \* config_ and currentLevel_ of each, in the order made, and
                   \* the level it was given outside of guards (history)
    filter,        \* the least severity the core passes on
    consoleSinks,  \* how often console and file log were added to the core
    fileSinks,
    guards,        \* the LevelGuards alive, the innermost last
    failures       \* how many constructors have thrown (history)

core == <<filter, consoleSinks, fileSinks>>

logging == <<loggers, core, guards, failures>>

InitLogging ==
    /\ loggers = << >>
    /\ filter = 0
    /\ consoleSinks = 0
    /\ fileSinks = 0
    /\ guards = << >>
    /\ failures = 0

\* toBoostLevel: there is no severity for Off.
ToBoostLevel(level) == IF level = Off THEN Info ELSE level

One(b) == IF b THEN 1 ELSE 0

\* setup: a sink for every target, and the filter for this logger's level.
Construct(config, level) ==
    /\ Len(loggers) < MaxLoggers
    /\ loggers' = Append(loggers, [config |-> config, level |-> level, outer |-> level])
    /\ consoleSinks' = consoleSinks + One(config.toConsole)
    /\ fileSinks' = fileSinks + One(config.toFile)
    /\ filter' = ToBoostLevel(config.level)
    /\ UNCHANGED <<guards, failures>>

\* create_directories throws: the console sink stays.
ConstructThrows(config) ==
    /\ config.toFile
    /\ failures < MaxFailures
    /\ failures' = failures + 1
    /\ consoleSinks' = consoleSinks + One(config.toConsole)
    /\ UNCHANGED <<loggers, filter, fileSinks, guards>>

Create(config) == Construct(config, config.level) \/ ConstructThrows(config)

\* channel: the child is made from the configuration, which sets the filter, and
\* takes over the level afterwards.
Channel(l) ==
    \/ Construct(loggers[l].config, loggers[l].level)
    \/ ConstructThrows(loggers[l].config)

\* Variant of ChangeLevel: the filter is left alone.
ChangeOwnLevel(l, level, outer) ==
    /\ loggers' = [loggers EXCEPT ![l].level = level, ![l].outer = outer]
    /\ UNCHANGED <<core, failures>>

\* setLevel
ChangeLevel(l, level, outer) ==
    /\ loggers' = [loggers EXCEPT ![l].level = level, ![l].outer = outer]
    /\ filter' = ToBoostLevel(level)
    /\ UNCHANGED <<consoleSinks, fileSinks, failures>>

Guarded(l) == \E i \in DOMAIN guards : guards[i].logger = l

SetLevel(l, level) ==
    /\ ChangeLevel(l, level, IF Guarded(l) THEN loggers[l].outer ELSE level)
    /\ UNCHANGED guards

\* Variant of WithLevel: the guard keeps the configured level.
WithLevelOfConfig(l, level) ==
    /\ Len(guards) < MaxGuards
    /\ guards' = Append(guards, [logger |-> l, prev |-> loggers[l].config.level])
    /\ ChangeLevel(l, level, loggers[l].outer)

\* withLevel, and the end of the scope of the innermost guard.
WithLevel(l, level) ==
    /\ Len(guards) < MaxGuards
    /\ guards' = Append(guards, [logger |-> l, prev |-> loggers[l].level])
    /\ ChangeLevel(l, level, loggers[l].outer)

EndGuard ==
    /\ guards # << >>
    /\ guards' = Front(guards)
    /\ ChangeLevel(Last(guards).logger, Last(guards).prev,
                   loggers[Last(guards).logger].outer)

UseLoggers ==
    \/ \E config \in Configs : Create(config)
    \/ \E l \in DOMAIN loggers : Channel(l)
    \/ \E l \in DOMAIN loggers, level \in LevelsUsed :
          SetLevel(l, level) \/ WithLevel(l, level)
    \/ EndGuard

-------------------------------------------------------------------------------

\* What log(level, ...) writes: how many copies to the console and to files.  A
\* core without sinks writes to the console.
Silence == [console |-> 0, file |-> 0]

Written(l, level) ==
    LET config == loggers[l].config IN
    CASE level < loggers[l].level -> Silence
      [] level >= loggers[l].level /\ config.colorized /\ config.toConsole ->
            [console |-> 1, file |-> 0]
      [] level >= loggers[l].level /\ ~(config.colorized /\ config.toConsole) ->
            IF level = Off \/ level < filter THEN Silence
            ELSE IF consoleSinks + fileSinks = 0 THEN [console |-> 1, file |-> 0]
            ELSE [console |-> consoleSinks, file |-> fileSinks]

-------------------------------------------------------------------------------

LoggingTypeOK ==
    /\ loggers \in Seq([config : LoggerConfig, level : Levels, outer : Levels])
    /\ filter \in 0..5
    /\ {consoleSinks, fileSinks, failures} \subseteq Nat
    /\ guards \in Seq([logger : DOMAIN loggers, prev : Levels])

\* A program with one logger: what its level admits is written once to every
\* target of its configuration, and nothing else is, however setLevel and nested
\* guards change the level.  With colours, the console is the only target.
LoneLoggerWrites ==
    Len(loggers) = 1 /\ failures = 0 =>
        LET config == loggers[1].config IN
        \A level \in Levels \ {Off} :
            Written(1, level) =
                IF level < loggers[1].level THEN Silence
                ELSE [console |-> One(config.toConsole \/ ~config.toFile),
                      file |-> One(config.toFile
                                   /\ ~(config.colorized /\ config.toConsole))]

IsOutermost(i, l) ==
    /\ guards[i].logger = l
    /\ \A j \in 1..(i - 1) : guards[j].logger # l

\* The end of the outermost guard of a logger gives it back the level it had
\* been given outside, whatever levels were set and guards ended meanwhile.
GuardsRestoreLevel ==
    \A l \in DOMAIN loggers :
        /\ ~Guarded(l) => loggers[l].level = loggers[l].outer
        /\ \A i \in DOMAIN guards :
              IsOutermost(i, l) => guards[i].prev = loggers[l].outer

================================================================================
