--------------------------- MODULE GlobalLoggerProofs ---------------------------
(***************************************************************************)
(* Proofs about GlobalLogger: there is one global logger, made once, and   *)
(* what the levels and guards of loggers promise.                          *)
(***************************************************************************)
EXTENDS GlobalLogger, SequenceTheorems, TLAPS

Made == [config : LoggerConfig, level : Levels, outer : Levels]

USE DEF core, logging, initialising

-------------------------------------------------------------------------------

LEMMA SinkCount == \A b \in BOOLEAN : One(b) \in Nat
  BY DEF One

LEMMA SeverityType == \A level \in Levels : ToBoostLevel(level) \in 0..5
  BY DEF ToBoostLevel, Levels, Off, Info

LEMMA SeqOfMore ==
    ASSUME NEW S, NEW T, S \subseteq T, NEW s \in Seq(S)
    PROVE  s \in Seq(T)
<1>1. Len(s) \in Nat /\ s \in [1..Len(s) -> S]
  BY LenProperties
<1>2. s \in [1..Len(s) -> T]
  BY <1>1
<1> QED  BY <1>1, <1>2, SeqDef

LEMMA ConstructTypes ==
    ASSUME LoggingTypeOK, NEW config \in LoggerConfig, NEW level \in Levels,
           Construct(config, level)
    PROVE  /\ LoggingTypeOK'
           /\ loggers' = Append(loggers, [config |-> config, level |-> level, outer |-> level])
           /\ Len(loggers) \in Nat
           /\ Len(loggers') = Len(loggers) + 1
           /\ DOMAIN loggers = 1..Len(loggers)
           /\ DOMAIN loggers' = 1..Len(loggers')
           /\ \A l \in DOMAIN loggers : loggers'[l] = loggers[l]
<1> DEFINE new == [config |-> config, level |-> level, outer |-> level]
<1>1. new \in Made
  BY DEF Made
<1>2. loggers \in Seq(Made) /\ loggers' = Append(loggers, new)
  BY DEF LoggingTypeOK, Construct, Made
<1>3. /\ loggers' \in Seq(Made)
      /\ Len(loggers') = Len(loggers) + 1
      /\ \A l \in DOMAIN loggers : loggers'[l] = loggers[l]
      /\ DOMAIN loggers = 1..Len(loggers)
      /\ DOMAIN loggers' = 1..Len(loggers')
      /\ DOMAIN loggers \subseteq DOMAIN loggers'
  <2> HIDE DEF Made, new
  <2> QED  BY <1>1, <1>2
<1>4. filter' \in 0..5
  BY SeverityType DEF Construct, LoggerConfig
<1>5. {consoleSinks', fileSinks', failures'} \subseteq Nat
  BY SinkCount DEF Construct, LoggingTypeOK, LoggerConfig
<1>6. guards' \in Seq([logger : DOMAIN loggers', prev : Levels])
  <2>1. guards' = guards /\ guards \in Seq([logger : DOMAIN loggers, prev : Levels])
    BY DEF Construct, LoggingTypeOK
  <2>2. [logger : DOMAIN loggers, prev : Levels]
            \subseteq [logger : DOMAIN loggers', prev : Levels]
    BY <1>3
  <2> QED  BY <2>1, <2>2, SeqOfMore
<1>7. LoggingTypeOK'
  BY <1>3, <1>4, <1>5, <1>6 DEF LoggingTypeOK, Made
<1>8. Len(loggers) \in Nat
  BY <1>2
<1> QED  BY <1>2, <1>3, <1>7, <1>8

LEMMA ThrowTypes ==
    ASSUME LoggingTypeOK, NEW config \in LoggerConfig, ConstructThrows(config)
    PROVE  LoggingTypeOK'
<1>1. {consoleSinks', failures'} \subseteq Nat
  BY SinkCount DEF ConstructThrows, LoggingTypeOK, LoggerConfig
<1> QED  BY <1>1 DEF ConstructThrows, LoggingTypeOK

\* What a change of a level does to the logger it is about, and the others.
LEMMA LevelChange ==
    ASSUME LoggingTypeOK, NEW l \in DOMAIN loggers, NEW level \in Levels,
           NEW outer \in Levels, ChangeLevel(l, level, outer)
    PROVE  /\ loggers' \in Seq(Made)
           /\ Len(loggers') = Len(loggers)
           /\ DOMAIN loggers' = DOMAIN loggers
           /\ loggers'[l].level = level
           /\ loggers'[l].outer = outer
           /\ \A m \in DOMAIN loggers : loggers'[m].config = loggers[m].config
           /\ \A m \in DOMAIN loggers \ {l} : loggers'[m] = loggers[m]
           /\ filter' \in 0..5
<1>1. loggers \in Seq(Made)
  BY DEF LoggingTypeOK, Made
<1>2. loggers' = [loggers EXCEPT ![l].level = level, ![l].outer = outer]
  BY DEF ChangeLevel
<1>3. loggers[l] \in Made
  BY <1>1
<1>4. [loggers[l] EXCEPT !.level = level, !.outer = outer] \in Made
  BY <1>3 DEF Made
<1>5. loggers' = [loggers EXCEPT ![l] =
                    [loggers[l] EXCEPT !.level = level, !.outer = outer]]
  BY <1>1, <1>2
<1>6. filter' \in 0..5
  BY SeverityType DEF ChangeLevel
<1> HIDE DEF Made
<1>7. loggers' \in Seq(Made) /\ Len(loggers') = Len(loggers)
  BY <1>1, <1>4, <1>5
<1>8. DOMAIN loggers' = DOMAIN loggers
  BY <1>5
<1>9. \A m \in DOMAIN loggers \ {l} : loggers'[m] = loggers[m]
  BY <1>5
<1>10. loggers'[l] = [loggers[l] EXCEPT !.level = level, !.outer = outer]
  BY <1>5
<1>11. /\ loggers'[l].level = level
       /\ loggers'[l].outer = outer
       /\ loggers'[l].config = loggers[l].config
  BY <1>3, <1>10 DEF Made
<1> QED  BY <1>6, <1>7, <1>8, <1>9, <1>11

LEMMA LevelTypes ==
    ASSUME LoggingTypeOK, NEW l \in DOMAIN loggers, NEW level \in Levels,
           NEW outer \in Levels, ChangeLevel(l, level, outer),
           guards' \in Seq([logger : DOMAIN loggers, prev : Levels])
    PROVE  LoggingTypeOK'
<1>1. UNCHANGED <<consoleSinks, fileSinks, failures>>
  BY DEF ChangeLevel
<1> QED  BY <1>1, LevelChange DEF LoggingTypeOK, Made

-------------------------------------------------------------------------------

\* A change of a level is made to the logger the innermost guard is about, to
\* one that is given the level outside of guards, or under a new guard.
LEMMA EndGuardChanges ==
    ASSUME LoggingTypeOK, EndGuard
    PROVE  /\ Len(guards) >= 1
           /\ Last(guards) = guards[Len(guards)]
           /\ Last(guards).logger \in DOMAIN loggers
           /\ Last(guards).prev \in Levels
           /\ loggers[Last(guards).logger].outer \in Levels
           /\ guards' = Front(guards)
           /\ guards' \in Seq([logger : DOMAIN loggers, prev : Levels])
           /\ Len(guards') = Len(guards) - 1
           /\ \A i \in DOMAIN guards' : guards'[i] = guards[i]
<1> DEFINE Guard == [logger : DOMAIN loggers, prev : Levels]
<1>1. guards \in Seq(Guard) /\ guards # << >>
  BY DEF LoggingTypeOK, EndGuard
<1>2. /\ Last(guards) = guards[Len(guards)]
      /\ guards' = Front(guards)
      /\ Len(guards) >= 1
      /\ Len(guards) \in Nat
  BY <1>1, EmptySeq DEF EndGuard, Last
<1>3. guards[Len(guards)] \in Guard
  <2> HIDE DEF Guard
  <2>1. \A i \in 1..Len(guards) : guards[i] \in Guard
    BY <1>1
  <2> QED  BY <1>2, <2>1
<1>4. guards' \in Seq(Guard) /\ Len(guards') = Len(guards) - 1
      /\ \A i \in DOMAIN guards' : guards'[i] = guards[i]
  <2> HIDE DEF Guard
  <2>1. guards' = [i \in 1..(Len(guards) - 1) |-> guards[i]]
    BY <1>2 DEF Front
  <2>2. guards' \in Seq(Guard)
    BY <1>1, <1>2, <2>1
  <2> QED  BY <1>2, <2>1, <2>2
<1>5. loggers[Last(guards).logger].outer \in Levels
  <2>1. loggers \in Seq(Made) /\ Last(guards).logger \in DOMAIN loggers
    BY <1>2, <1>3 DEF LoggingTypeOK, Made
  <2>2. loggers[Last(guards).logger] \in Made
    BY <2>1
  <2> QED  BY <2>2 DEF Made
<1> QED  BY <1>2, <1>3, <1>4, <1>5

LEMMA OuterType ==
    ASSUME LoggingTypeOK, NEW l \in DOMAIN loggers
    PROVE  /\ loggers[l] \in Made
           /\ loggers[l].config \in LoggerConfig
           /\ loggers[l].config.level \in Levels
           /\ loggers[l].level \in Levels
           /\ loggers[l].outer \in Levels
<1>1. loggers \in Seq(Made)
  BY DEF LoggingTypeOK, Made
<1>2. loggers[l] \in Made
  BY <1>1
<1> QED  BY <1>2 DEF Made, LoggerConfig

\* What a use of loggers can be.
LEMMA UseIs ==
    ASSUME LoggingTypeOK, UseLoggers
    PROVE  \/ \E config \in LoggerConfig, level \in Levels :
                 /\ Construct(config, level)
                 /\ Len(loggers) = 0 => level = config.level
           \/ \E config \in LoggerConfig : ConstructThrows(config)
           \/ \E l \in DOMAIN loggers, level \in Levels : SetLevel(l, level)
           \/ \E l \in DOMAIN loggers, level \in Levels : WithLevel(l, level)
           \/ EndGuard
<1>1. \A config \in Configs : config \in LoggerConfig /\ config.level \in Levels
  BY LoggerAssumption DEF LoggerConfig
<1>2. CASE \E config \in Configs : Create(config)
  BY <1>1, <1>2 DEF Create
<1>3. CASE \E l \in DOMAIN loggers : Channel(l)
  <2>1. PICK l \in DOMAIN loggers : Channel(l)
    BY <1>3
  <2>2. Len(loggers) # 0
    BY <2>1 DEF LoggingTypeOK
  <2> QED  BY <2>1, <2>2, OuterType DEF Channel
<1>4. CASE \E l \in DOMAIN loggers, level \in LevelsUsed :
               SetLevel(l, level) \/ WithLevel(l, level)
  BY <1>4, LoggerAssumption
<1> QED  BY <1>2, <1>3, <1>4 DEF UseLoggers

LEMMA UseTypes ==
    ASSUME LoggingTypeOK, UseLoggers
    PROVE  LoggingTypeOK' /\ DOMAIN loggers \subseteq DOMAIN loggers'
<1>1. ASSUME NEW config \in LoggerConfig, NEW level \in Levels,
             Construct(config, level)
      PROVE  LoggingTypeOK' /\ DOMAIN loggers \subseteq DOMAIN loggers'
  <2>1. /\ LoggingTypeOK'
        /\ Len(loggers) \in Nat
        /\ Len(loggers') = Len(loggers) + 1
        /\ DOMAIN loggers = 1..Len(loggers)
        /\ DOMAIN loggers' = 1..Len(loggers')
    BY <1>1, ConstructTypes
  <2> QED  BY <2>1
<1>2. CASE \E config \in LoggerConfig : ConstructThrows(config)
  BY <1>2, ThrowTypes DEF ConstructThrows
<1>3. ASSUME NEW l \in DOMAIN loggers, NEW level \in Levels, SetLevel(l, level)
      PROVE  LoggingTypeOK' /\ DOMAIN loggers \subseteq DOMAIN loggers'
  <2>1. /\ ChangeLevel(l, level, IF Guarded(l) THEN loggers[l].outer ELSE level)
        /\ guards' \in Seq([logger : DOMAIN loggers, prev : Levels])
    BY <1>3 DEF SetLevel, LoggingTypeOK
  <2>2. (IF Guarded(l) THEN loggers[l].outer ELSE level) \in Levels
    BY OuterType
  <2> QED  BY <2>1, <2>2, LevelTypes, LevelChange
<1>4. ASSUME NEW l \in DOMAIN loggers, NEW level \in Levels, WithLevel(l, level)
      PROVE  LoggingTypeOK' /\ DOMAIN loggers \subseteq DOMAIN loggers'
  <2>1. [logger |-> l, prev |-> loggers[l].level] \in [logger : DOMAIN loggers, prev : Levels]
    BY OuterType
  <2>2. guards' \in Seq([logger : DOMAIN loggers, prev : Levels])
    BY <1>4, <2>1 DEF WithLevel, LoggingTypeOK
  <2> QED  BY <1>4, <2>2, OuterType, LevelTypes, LevelChange DEF WithLevel
<1>5. CASE EndGuard
  BY <1>5, EndGuardChanges, LevelTypes, LevelChange DEF EndGuard
<1> QED  BY <1>1, <1>2, <1>3, <1>4, <1>5, UseIs

-------------------------------------------------------------------------------

LEMMA InitTypes == Init => IInv
<1> SUFFICES ASSUME Init
             PROVE  IInv
  OBVIOUS
<1>1. LoggingTypeOK
  BY DEF Init, InitLogging, LoggingTypeOK
<1>2. TypeOK
  BY <1>1, GlobalLoggerAssumption DEF Init, TypeOK
<1> QED  BY <1>2 DEF Init, IInv, OneMakes, Making

LEMMA WantedType ==
    \A config \in {MainConfig} \cup ProviderConfigs : config \in LoggerConfig
<1>1. MainConfig \in LoggerConfig
  BY GlobalLoggerAssumption
<1>2. \A level \in ProviderLevels \cup {Info} : level \in Levels
  BY GlobalLoggerAssumption DEF Levels, Off, Info
<1>3. ASSUME NEW level \in ProviderLevels \cup {Info}, NEW channel
      PROVE  [level |-> level, toConsole |-> channel \in {"console", "both"},
              toFile |-> channel \in {"file", "both"}, colorized |-> ~Plain]
                 \in LoggerConfig
  <2>1. /\ (channel \in {"console", "both"}) \in BOOLEAN
        /\ (channel \in {"file", "both"}) \in BOOLEAN
        /\ (~Plain) \in BOOLEAN
    OBVIOUS
  <2> QED  BY <1>2, <2>1, Zenon DEF LoggerConfig
<1> QED  BY <1>1, <1>3 DEF ProviderConfigs

\* The steps that make a logger, or fail to, keep the types of loggers.
LEMMA MakeTypes ==
    ASSUME TypeOK, NEW t \in Threads, Make(t)
    PROVE  /\ LoggingTypeOK'
           /\ DOMAIN loggers \subseteq DOMAIN loggers'
           /\ global' \in DOMAIN loggers'
           /\ global' # 0
<1>1. wanted[t] \in LoggerConfig /\ wanted[t].level \in Levels
  BY DEF TypeOK, LoggerConfig
<1>2. /\ LoggingTypeOK'
      /\ Len(loggers) \in Nat
      /\ Len(loggers') = Len(loggers) + 1
      /\ DOMAIN loggers = 1..Len(loggers)
      /\ DOMAIN loggers' = 1..Len(loggers')
  BY <1>1, ConstructTypes DEF Make, TypeOK
<1>3. global' = Len(loggers')
  BY DEF Make
<1> QED  BY <1>2, <1>3

LEMMA MakeThrowsTypes ==
    ASSUME TypeOK, NEW t \in Threads, MakeThrows(t)
    PROVE  LoggingTypeOK' /\ loggers' = loggers
<1>1. wanted[t] \in LoggerConfig
  BY DEF TypeOK
<1> QED  BY <1>1, ThrowTypes DEF MakeThrows, TypeOK, ConstructThrows

LEMMA TypeOKNext == TypeOK /\ [Next]_vars => TypeOK'
<1> SUFFICES ASSUME TypeOK, [Next]_vars
             PROVE  TypeOK'
  OBVIOUS
<1> USE DEF TypeOK
<1>1. CASE Use
  BY <1>1, UseTypes DEF Use
<1>2. ASSUME NEW t \in Threads, CallStep(t)
      PROVE  TypeOK'
  <2>1. ASSUME NEW config \in {MainConfig} \cup ProviderConfigs, CallInit(t, config)
        PROVE  TypeOK'
    BY <2>1, WantedType DEF CallInit, LoggingTypeOK
  <2>2. CASE Get(t)
    BY <2>2, GlobalLoggerAssumption DEF Get, LoggingTypeOK
  <2>3. CASE Enter(t)
    BY <2>3 DEF Enter, LoggingTypeOK
  <2>4. CASE Make(t)
    BY <2>4, MakeTypes DEF Make
  <2>5. CASE MakeThrows(t)
    BY <2>5, MakeThrowsTypes, GlobalLoggerAssumption DEF MakeThrows, Forget
  <2>6. CASE SetFlag(t)
    BY <2>6 DEF SetFlag, LoggingTypeOK
  <2>7. CASE Pass(t)
    BY <2>7 DEF Pass, LoggingTypeOK
  <2>8. CASE Leave(t)
    BY <2>8, GlobalLoggerAssumption DEF Leave, Forget, LoggingTypeOK
  <2> QED  BY <1>2, <2>1, <2>2, <2>3, <2>4, <2>5, <2>6, <2>7, <2>8 DEF CallStep
<1>3. CASE UNCHANGED vars
  BY <1>3 DEF vars, LoggingTypeOK
<1> QED  BY <1>1, <1>2, <1>3 DEF Next

LEMMA OneMakesNext == IInv /\ [Next]_vars => OneMakes'
<1> SUFFICES ASSUME IInv, [Next]_vars
             PROVE  OneMakes'
  OBVIOUS
<1> USE DEF IInv, OneMakes, Making
<1>1. pc \in [Threads -> {"out", "calling", "making", "made", "leaving"}]
  BY DEF TypeOK
<1>2. CASE Use
  BY <1>2 DEF Use
<1>3. ASSUME NEW t \in Threads, CallStep(t)
      PROVE  OneMakes'
  <2>1. ASSUME NEW config, CallInit(t, config)
        PROVE  OneMakes'
    BY <1>1, <2>1 DEF CallInit
  <2>2. CASE Get(t)
    BY <1>1, <2>2 DEF Get
  <2>3. CASE Enter(t)
    BY <1>1, <2>3 DEF Enter
  <2>4. CASE Make(t)
    <3>1. global' # 0
      BY <2>4, MakeTypes
    <3> QED  BY <1>1, <2>4, <3>1 DEF Make
  <2>5. CASE MakeThrows(t)
    BY <1>1, <2>5 DEF MakeThrows
  <2>6. CASE SetFlag(t)
    BY <1>1, <2>6 DEF SetFlag
  <2>7. CASE Pass(t)
    BY <1>1, <2>7 DEF Pass
  <2>8. CASE Leave(t)
    BY <1>1, <2>8 DEF Leave
  <2> QED  BY <1>3, <2>1, <2>2, <2>3, <2>4, <2>5, <2>6, <2>7, <2>8 DEF CallStep
<1>4. CASE UNCHANGED vars
  BY <1>4 DEF vars
<1> QED  BY <1>2, <1>3, <1>4 DEF Next

\* In every state of the program the variables have their types, and one thread
\* at a time is inside the call_once of Global::init.
THEOREM Invariant == Spec => []IInv
<1>1. Init => IInv
  BY InitTypes
<1>2. IInv /\ [Next]_vars => IInv'
  BY TypeOKNext, OneMakesNext DEF IInv
<1> QED  BY <1>1, <1>2, PTL DEF Spec

-------------------------------------------------------------------------------

\* The pointer is assigned by Make only, while it is null.
LEMMA GlobalNext == IInv /\ [Next]_vars => (global # 0 => global' = global)
<1> SUFFICES ASSUME IInv, [Next]_vars, global # 0
             PROVE  global' = global
  OBVIOUS
<1>1. CASE Use
  BY <1>1 DEF Use
<1>2. ASSUME NEW t \in Threads, Make(t)
      PROVE  FALSE
  BY <1>2 DEF Make, IInv, OneMakes, Making
<1>3. ASSUME NEW t \in Threads, CallStep(t)
      PROVE  global' = global
  BY <1>2, <1>3 DEF CallStep, CallInit, Get, Enter, MakeThrows, SetFlag, Pass, Leave
<1>4. CASE UNCHANGED vars
  BY <1>4 DEF vars
<1> QED  BY <1>1, <1>3, <1>4 DEF Next

\* The global logger, once made, is never replaced by another.
THEOREM GlobalKept == Spec => GlobalStays
<1>1. IInv /\ [Next]_vars => [global # 0 => global' = global]_vars
  BY GlobalNext
<1> QED  BY <1>1, Invariant, PTL DEF Spec, GlobalStays

LEMMA GivenNext == IInv /\ GlobalIsOne /\ [Next]_vars => GlobalIsOne'
<1> SUFFICES ASSUME IInv, GlobalIsOne, [Next]_vars
             PROVE  GlobalIsOne'
  OBVIOUS
<1>1. global # 0 => global' = global
  BY GlobalNext
<1>2. CASE given' = given
  BY <1>1, <1>2 DEF GlobalIsOne
<1>3. ASSUME NEW t \in Threads, Get(t)
      PROVE  GlobalIsOne'
  BY <1>1, <1>3 DEF GlobalIsOne, Get
<1>4. ASSUME NEW t \in Threads, Leave(t)
      PROVE  GlobalIsOne'
  <2>1. global # 0 /\ global' = global
    BY <1>4 DEF Leave, IInv, OneMakes
  <2> QED  BY <1>4, <2>1 DEF GlobalIsOne, Leave
<1>5. CASE Use \/ UNCHANGED vars
  BY <1>2, <1>5 DEF Use, vars
<1>6. ASSUME NEW t \in Threads, CallStep(t)
      PROVE  GlobalIsOne'
  BY <1>2, <1>3, <1>4, <1>6 DEF CallStep, CallInit, Enter, Make, MakeThrows, SetFlag, Pass
<1> QED  BY <1>5, <1>6 DEF Next

\* Global::get returns the same logger to every caller, and never a null one.
THEOREM OneGlobal == Spec => []GlobalIsOne
<1>1. Init => GlobalIsOne
  BY DEF Init, GlobalIsOne
<1> QED  BY <1>1, GivenNext, Invariant, PTL DEF Spec

-------------------------------------------------------------------------------

\* A change of the level of l leaves what holds of the other loggers.
LEMMA OthersKeep ==
    ASSUME LoggingTypeOK, NEW l \in DOMAIN loggers, NEW level \in Levels,
           NEW outer \in Levels, ChangeLevel(l, level, outer), guards' = guards,
           GuardsRestoreLevel,
           ~Guarded(l) => level = outer,
           Guarded(l) => outer = loggers[l].outer
    PROVE  GuardsRestoreLevel'
<1>1. /\ DOMAIN loggers' = DOMAIN loggers
      /\ loggers'[l].level = level
      /\ loggers'[l].outer = outer
      /\ \A m \in DOMAIN loggers \ {l} : loggers'[m] = loggers[m]
  BY LevelChange
<1>2. \A m \in DOMAIN loggers : Guarded(m)' = Guarded(m)
  BY DEF Guarded
<1>3. \A m \in DOMAIN loggers, i \in DOMAIN guards :
          IsOutermost(i, m)' = IsOutermost(i, m)
  BY DEF IsOutermost
<1>4. \A m \in DOMAIN loggers, i \in DOMAIN guards :
          IsOutermost(i, m) => Guarded(m)
  BY DEF IsOutermost, Guarded
<1> QED  BY <1>1, <1>2, <1>3, <1>4 DEF GuardsRestoreLevel

LEMMA ConstructKeepsLevels ==
    ASSUME LoggingTypeOK, GuardsRestoreLevel, NEW config \in LoggerConfig,
           NEW level \in Levels, Construct(config, level)
    PROVE  GuardsRestoreLevel'
<1> DEFINE new == [config |-> config, level |-> level, outer |-> level]
           n == Len(loggers) + 1
<1>1. /\ Len(loggers) \in Nat
      /\ loggers' = Append(loggers, new)
      /\ DOMAIN loggers = 1..Len(loggers)
      /\ DOMAIN loggers' = 1..n
      /\ \A l \in DOMAIN loggers : loggers'[l] = loggers[l]
  BY ConstructTypes
<1>2. guards' = guards
  BY DEF Construct
<1>3. loggers'[n] = new
  BY <1>1 DEF LoggingTypeOK
<1>4. n \notin DOMAIN loggers /\ DOMAIN loggers' = DOMAIN loggers \cup {n}
  BY <1>1
<1>5. \A i \in DOMAIN guards : guards[i].logger \in DOMAIN loggers
  <2> DEFINE Guard == [logger : DOMAIN loggers, prev : Levels]
  <2>1. guards \in Seq(Guard)
    BY DEF LoggingTypeOK
  <2>2. \A i \in DOMAIN guards : guards[i] \in Guard
    <3> HIDE DEF Guard
    <3> QED  BY <2>1
  <2> QED  BY <2>2
<1> HIDE DEF n
<1>6. ASSUME NEW l \in DOMAIN loggers'
      PROVE  /\ ~Guarded(l)' => loggers'[l].level = loggers'[l].outer
             /\ \A i \in DOMAIN guards' :
                    IsOutermost(i, l)' => guards'[i].prev = loggers'[l].outer
  <2>1. CASE l = n
    BY <1>2, <1>3, <1>4, <1>5, <2>1 DEF IsOutermost
  <2>2. CASE l \in DOMAIN loggers
    BY <1>1, <1>2, <2>2 DEF IsOutermost, Guarded, GuardsRestoreLevel
  <2> QED  BY <1>4, <2>1, <2>2
<1> QED  BY <1>6 DEF GuardsRestoreLevel

LEMMA WithLevelKeepsLevels ==
    ASSUME LoggingTypeOK, GuardsRestoreLevel, NEW l \in DOMAIN loggers,
           NEW level \in Levels, WithLevel(l, level)
    PROVE  GuardsRestoreLevel'
<1> DEFINE guard == [logger |-> l, prev |-> loggers[l].level]
           n == Len(guards) + 1
<1>1. /\ DOMAIN loggers' = DOMAIN loggers
      /\ loggers'[l].outer = loggers[l].outer
      /\ \A m \in DOMAIN loggers \ {l} : loggers'[m] = loggers[m]
  BY OuterType, LevelChange DEF WithLevel
<1>2. /\ guards' = Append(guards, guard)
      /\ guards \in Seq([logger : DOMAIN loggers, prev : Levels])
      /\ guard \in [logger : DOMAIN loggers, prev : Levels]
  BY OuterType DEF WithLevel, LoggingTypeOK
<1>3. /\ Len(guards) \in Nat
      /\ DOMAIN guards = 1..Len(guards)
      /\ DOMAIN guards' = 1..n
      /\ guards'[n] = guard
      /\ \A i \in DOMAIN guards : guards'[i] = guards[i]
  <2> HIDE DEF guard
  <2> QED  BY <1>2
<1>4. n \in DOMAIN guards' /\ DOMAIN guards' = DOMAIN guards \cup {n}
  BY <1>3
<1>5. \A m : Guarded(m)' <=> Guarded(m) \/ m = l
  BY <1>3, <1>4 DEF Guarded
<1>6. \A m : \A i \in DOMAIN guards : IsOutermost(i, m)' <=> IsOutermost(i, m)
  BY <1>3 DEF IsOutermost
<1>7. \A m, i : i = n /\ IsOutermost(i, m)' => m = l /\ ~Guarded(l)
  <2>1. guards'[n].logger = l
    BY <1>3
  <2>2. \A i \in DOMAIN guards : i \in 1..(n - 1)
    BY <1>3
  <2> HIDE DEF n, guard
  <2> QED  BY <1>3, <2>1, <2>2 DEF IsOutermost, Guarded
<1> HIDE DEF n
<1>8. ASSUME NEW m \in DOMAIN loggers'
      PROVE  /\ ~Guarded(m)' => loggers'[m].level = loggers'[m].outer
             /\ \A i \in DOMAIN guards' :
                    IsOutermost(i, m)' => guards'[i].prev = loggers'[m].outer
  <2>1. loggers'[m].outer = loggers[m].outer
    BY <1>1
  <2>2. ~Guarded(m)' => loggers'[m].level = loggers'[m].outer
    BY <1>1, <1>5 DEF GuardsRestoreLevel
  <2>3. ASSUME NEW i \in DOMAIN guards, IsOutermost(i, m)'
        PROVE  guards'[i].prev = loggers'[m].outer
    BY <1>1, <1>3, <1>6, <2>1, <2>3 DEF GuardsRestoreLevel
  <2>4. \A i : i = n /\ IsOutermost(i, m)' => guards'[i].prev = loggers'[m].outer
    BY <1>3, <1>7, <2>1 DEF GuardsRestoreLevel
  <2> QED  BY <1>4, <2>2, <2>3, <2>4
<1> QED  BY <1>8 DEF GuardsRestoreLevel

LEMMA EndGuardKeepsLevels ==
    ASSUME LoggingTypeOK, GuardsRestoreLevel, EndGuard
    PROVE  GuardsRestoreLevel'
<1> DEFINE n == Len(guards)
           l == guards[n].logger
<1>1. /\ n >= 1
      /\ Last(guards) = guards[n]
      /\ l \in DOMAIN loggers
      /\ guards[n].prev \in Levels
      /\ loggers[l].outer \in Levels
      /\ Len(guards') = n - 1
      /\ \A i \in DOMAIN guards' : guards'[i] = guards[i]
  BY EndGuardChanges
<1>2. ChangeLevel(l, guards[n].prev, loggers[l].outer)
  BY <1>1 DEF EndGuard
<1>3. /\ DOMAIN loggers' = DOMAIN loggers
      /\ loggers'[l].level = guards[n].prev
      /\ loggers'[l].outer = loggers[l].outer
      /\ \A m \in DOMAIN loggers \ {l} : loggers'[m] = loggers[m]
  <2> HIDE DEF n, l
  <2> QED  BY <1>1, <1>2, LevelChange
<1>4. n \in Nat /\ DOMAIN guards = 1..n /\ DOMAIN guards' = 1..(n - 1)
  <2> DEFINE Guard == [logger : DOMAIN loggers, prev : Levels]
  <2>1. guards \in Seq(Guard) /\ guards' \in Seq(Guard)
    BY EndGuardChanges DEF LoggingTypeOK
  <2> HIDE DEF Guard
  <2> QED  BY <1>1, <2>1
<1>5. /\ n \in DOMAIN guards
      /\ DOMAIN guards = DOMAIN guards' \cup {n}
      /\ DOMAIN guards' \subseteq DOMAIN guards
  BY <1>1, <1>4
<1>6. \A m : \A i \in DOMAIN guards' : IsOutermost(i, m)' <=> IsOutermost(i, m)
  <2>1. \A i \in DOMAIN guards' : \A j \in 1..(i - 1) : j \in DOMAIN guards'
    BY <1>4
  <2> HIDE DEF n, l
  <2> QED  BY <1>1, <2>1 DEF IsOutermost
<1>7. \A m : m # l => (Guarded(m)' <=> Guarded(m))
  BY <1>1, <1>5 DEF Guarded
<1>8. \A m : m = l /\ ~Guarded(m)' => IsOutermost(n, m)
  BY <1>1, <1>4 DEF Guarded, IsOutermost
<1> HIDE DEF n, l
<1>9. ASSUME NEW m \in DOMAIN loggers'
      PROVE  /\ ~Guarded(m)' => loggers'[m].level = loggers'[m].outer
             /\ \A i \in DOMAIN guards' :
                    IsOutermost(i, m)' => guards'[i].prev = loggers'[m].outer
  <2>1. loggers'[m].outer = loggers[m].outer
    BY <1>1, <1>3
  <2>2. ~Guarded(m)' => loggers'[m].level = loggers'[m].outer
    BY <1>1, <1>3, <1>5, <1>7, <1>8 DEF GuardsRestoreLevel
  <2>3. \A i \in DOMAIN guards' :
            IsOutermost(i, m)' => guards'[i].prev = loggers'[m].outer
    BY <1>1, <1>3, <1>5, <1>6, <2>1 DEF GuardsRestoreLevel
  <2> QED  BY <2>2, <2>3
<1> QED  BY <1>9 DEF GuardsRestoreLevel

LEMMA UseKeepsLevels ==
    ASSUME LoggingTypeOK, GuardsRestoreLevel, UseLoggers
    PROVE  GuardsRestoreLevel'
<1>1. CASE \E config \in LoggerConfig, level \in Levels : Construct(config, level)
  BY <1>1, ConstructKeepsLevels
<1>2. CASE \E config \in LoggerConfig : ConstructThrows(config)
  BY <1>2 DEF ConstructThrows, GuardsRestoreLevel, IsOutermost, Guarded
<1>3. ASSUME NEW l \in DOMAIN loggers, NEW level \in Levels, SetLevel(l, level)
      PROVE  GuardsRestoreLevel'
  BY <1>3, OuterType, OthersKeep DEF SetLevel
<1>4. CASE \E l \in DOMAIN loggers, level \in Levels : WithLevel(l, level)
  BY <1>4, WithLevelKeepsLevels
<1>5. CASE EndGuard
  BY <1>5, EndGuardKeepsLevels
<1> QED  BY <1>1, <1>2, <1>3, <1>4, <1>5, UseIs

\* What a step does to loggers: a use of them, the making of the global one or
\* its failure, or nothing.
LEMMA StepOnLoggers ==
    ASSUME TypeOK, [Next]_vars
    PROVE  \/ UseLoggers
           \/ \E config \in LoggerConfig : Construct(config, config.level)
           \/ \E config \in LoggerConfig : ConstructThrows(config)
           \/ UNCHANGED logging
<1>1. ASSUME NEW t \in Threads, Make(t)
      PROVE  \E config \in LoggerConfig : Construct(config, config.level)
  BY <1>1 DEF Make, TypeOK
<1>2. ASSUME NEW t \in Threads, MakeThrows(t)
      PROVE  \E config \in LoggerConfig : ConstructThrows(config)
  BY <1>2 DEF MakeThrows, TypeOK
<1>3. ASSUME NEW t \in Threads, CallStep(t), ~Make(t), ~MakeThrows(t)
      PROVE  UNCHANGED logging
  BY <1>3 DEF CallStep, CallInit, Get, Enter, SetFlag, Pass, Leave
<1> QED  BY <1>1, <1>2, <1>3 DEF Next, Use, vars

LEMMA LevelsNext == IInv /\ GuardsRestoreLevel /\ [Next]_vars => GuardsRestoreLevel'
<1> SUFFICES ASSUME IInv, GuardsRestoreLevel, [Next]_vars
             PROVE  GuardsRestoreLevel'
  OBVIOUS
<1>1. TypeOK /\ LoggingTypeOK
  BY DEF IInv, TypeOK
<1>2. \A config \in LoggerConfig : config.level \in Levels
  BY DEF LoggerConfig
<1>3. CASE UseLoggers
  BY <1>1, <1>3, UseKeepsLevels
<1>4. CASE \E config \in LoggerConfig : Construct(config, config.level)
  BY <1>1, <1>2, <1>4, ConstructKeepsLevels
<1>5. CASE \E config \in LoggerConfig : ConstructThrows(config)
  BY <1>5 DEF ConstructThrows, GuardsRestoreLevel, IsOutermost, Guarded
<1>6. CASE UNCHANGED logging
  BY <1>6 DEF GuardsRestoreLevel, IsOutermost, Guarded
<1> QED  BY <1>1, <1>3, <1>4, <1>5, <1>6, StepOnLoggers

\* When no guard of a logger is alive, its level is the one it was last given
\* outside of guards, and the outermost guard will give that one back.
THEOREM LevelsRestored == Spec => []GuardsRestoreLevel
<1>1. Init => GuardsRestoreLevel
  BY DEF Init, InitLogging, GuardsRestoreLevel
<1> QED  BY <1>1, LevelsNext, Invariant, PTL DEF Spec

-------------------------------------------------------------------------------

\* As long as no constructor threw and one logger was made, the core has exactly
\* the sinks and the filter that one gave it.
LoneCore ==
    failures = 0 =>
        /\ Len(loggers) = 0 => consoleSinks = 0 /\ fileSinks = 0
        /\ Len(loggers) = 1 =>
              /\ filter = ToBoostLevel(loggers[1].level)
              /\ consoleSinks = One(loggers[1].config.toConsole)
              /\ fileSinks = One(loggers[1].config.toFile)

LEMMA LoneCoreConstruct ==
    ASSUME LoggingTypeOK, LoneCore, NEW config \in LoggerConfig,
           NEW level \in Levels, Construct(config, level),
           Len(loggers) = 0 => level = config.level
    PROVE  LoneCore'
<1> DEFINE new == [config |-> config, level |-> level, outer |-> level]
<1>1. /\ Len(loggers) \in Nat
      /\ loggers' = Append(loggers, new)
      /\ Len(loggers') = Len(loggers) + 1
  BY ConstructTypes
<1>2. SUFFICES ASSUME failures = 0, Len(loggers) = 0
               PROVE  LoneCore'
  BY <1>1 DEF LoneCore, Construct
<1>3. loggers'[1] = new
  BY <1>1, <1>2 DEF LoggingTypeOK
<1>4. /\ loggers'[1].level = config.level
      /\ loggers'[1].config = config
  BY <1>2, <1>3
<1>5. /\ One(config.toConsole) \in Nat
      /\ One(config.toFile) \in Nat
  BY SinkCount DEF LoggerConfig
<1>6. /\ filter' = ToBoostLevel(config.level)
      /\ consoleSinks' = One(config.toConsole)
      /\ fileSinks' = One(config.toFile)
  BY <1>2, <1>5 DEF Construct, LoneCore
<1> QED  BY <1>1, <1>2, <1>4, <1>6 DEF LoneCore

LEMMA LoneCoreChange ==
    ASSUME LoggingTypeOK, LoneCore, NEW l \in DOMAIN loggers, NEW level \in Levels,
           NEW outer \in Levels, ChangeLevel(l, level, outer)
    PROVE  LoneCore'
<1>1. /\ Len(loggers') = Len(loggers)
      /\ loggers'[l].level = level
      /\ \A m \in DOMAIN loggers : loggers'[m].config = loggers[m].config
  BY LevelChange
<1>2. /\ filter' = ToBoostLevel(level)
      /\ UNCHANGED <<consoleSinks, fileSinks, failures>>
  BY DEF ChangeLevel
<1>3. DOMAIN loggers = 1..Len(loggers) /\ Len(loggers) \in Nat
  <2> HIDE DEF Made
  <2>1. loggers \in Seq(Made)
    BY DEF LoggingTypeOK, Made
  <2> QED  BY <2>1
<1>4. CASE Len(loggers) = 1
  <2>1. l = 1
    BY <1>3, <1>4
  <2> QED  BY <1>1, <1>2, <1>4, <2>1 DEF LoneCore
<1>5. CASE Len(loggers) # 1
  BY <1>1, <1>2, <1>5 DEF LoneCore
<1> QED  BY <1>4, <1>5

LEMMA LoneCoreThrow ==
    ASSUME LoggingTypeOK, NEW config \in LoggerConfig, ConstructThrows(config)
    PROVE  LoneCore'
<1>1. failures' # 0
  BY DEF LoggingTypeOK, ConstructThrows
<1> QED  BY <1>1 DEF LoneCore

LEMMA LoneCoreNext == IInv /\ LoneCore /\ [Next]_vars => LoneCore'
<1> SUFFICES ASSUME IInv, LoneCore, [Next]_vars
             PROVE  LoneCore'
  OBVIOUS
<1>1. TypeOK /\ LoggingTypeOK
  BY DEF IInv, TypeOK
<1>2. CASE UseLoggers
  <2>1. CASE \E config \in LoggerConfig, level \in Levels :
                 /\ Construct(config, level)
                 /\ Len(loggers) = 0 => level = config.level
    BY <1>1, <2>1, LoneCoreConstruct
  <2>2. CASE \E config \in LoggerConfig : ConstructThrows(config)
    BY <1>1, <2>2, LoneCoreThrow
  <2>3. CASE \E l \in DOMAIN loggers, level \in Levels : SetLevel(l, level)
    BY <1>1, <2>3, OuterType, LoneCoreChange DEF SetLevel
  <2>4. CASE \E l \in DOMAIN loggers, level \in Levels : WithLevel(l, level)
    BY <1>1, <2>4, OuterType, LoneCoreChange DEF WithLevel
  <2>5. CASE EndGuard
    BY <1>1, <2>5, EndGuardChanges, LoneCoreChange DEF EndGuard
  <2> QED  BY <1>1, <1>2, <2>1, <2>2, <2>3, <2>4, <2>5, UseIs
<1>3. CASE \E config \in LoggerConfig : Construct(config, config.level)
  BY <1>1, <1>3, LoneCoreConstruct DEF LoggerConfig
<1>4. CASE \E config \in LoggerConfig : ConstructThrows(config)
  BY <1>1, <1>4, LoneCoreThrow
<1>5. CASE UNCHANGED logging
  BY <1>5 DEF LoneCore
<1> QED  BY <1>1, <1>2, <1>3, <1>4, <1>5, StepOnLoggers

LEMMA LoneLoggerWritesIt ==
    ASSUME LoggingTypeOK, LoneCore
    PROVE  LoneLoggerWrites
<1>1. SUFFICES ASSUME Len(loggers) = 1, failures = 0,
                      NEW level \in Levels \ {Off}
               PROVE  Written(1, level) =
                        IF level < loggers[1].level THEN Silence
                        ELSE [console |-> One(loggers[1].config.toConsole
                                                \/ ~loggers[1].config.toFile),
                              file |-> One(loggers[1].config.toFile
                                             /\ ~(loggers[1].config.colorized
                                                  /\ loggers[1].config.toConsole))]
  BY DEF LoneLoggerWrites
<1> DEFINE config == loggers[1].config
           own == loggers[1].level
<1>2. /\ own \in Levels
      /\ config.toConsole \in BOOLEAN
      /\ config.toFile \in BOOLEAN
      /\ config.colorized \in BOOLEAN
  <2>1. 1 \in DOMAIN loggers
    BY <1>1 DEF LoggingTypeOK
  <2> QED  BY <2>1, OuterType DEF LoggerConfig
<1>3. /\ filter = ToBoostLevel(own)
      /\ consoleSinks = One(config.toConsole)
      /\ fileSinks = One(config.toFile)
  BY <1>1 DEF LoneCore
<1>4. Written(1, level) =
        CASE level < own -> Silence
          [] level >= own /\ config.colorized /\ config.toConsole ->
                [console |-> 1, file |-> 0]
          [] level >= own /\ ~(config.colorized /\ config.toConsole) ->
                IF level = Off \/ level < filter THEN Silence
                ELSE IF consoleSinks + fileSinks = 0 THEN [console |-> 1, file |-> 0]
                ELSE [console |-> consoleSinks, file |-> fileSinks]
  BY DEF Written
<1>5. level \in 0..5 /\ own \in 0..6
  BY <1>2 DEF Levels, Off
<1> HIDE DEF config, own
<1>6. CASE level < own
  BY <1>4, <1>5, <1>6 DEF config, own
<1>7. CASE level >= own
  <2>1. own \in 0..5 /\ filter = own
    BY <1>3, <1>5, <1>7 DEF ToBoostLevel, Off
  <2>2. CASE config.colorized /\ config.toConsole
    BY <1>4, <1>5, <1>7, <2>2 DEF One, config, own
  <2>3. CASE ~(config.colorized /\ config.toConsole)
    <3>1. Written(1, level) =
            IF consoleSinks + fileSinks = 0 THEN [console |-> 1, file |-> 0]
            ELSE [console |-> consoleSinks, file |-> fileSinks]
      BY <1>4, <1>5, <1>7, <2>1, <2>3 DEF Off
    <3>2. CASE config.toConsole /\ config.toFile
      BY <1>3, <1>5, <1>7, <2>3, <3>1, <3>2 DEF One, config, own
    <3>3. CASE config.toConsole /\ ~config.toFile
      BY <1>3, <1>5, <1>7, <2>3, <3>1, <3>3 DEF One, config, own
    <3>4. CASE ~config.toConsole /\ config.toFile
      BY <1>3, <1>5, <1>7, <2>3, <3>1, <3>4 DEF One, config, own
    <3>5. CASE ~config.toConsole /\ ~config.toFile
      BY <1>3, <1>5, <1>7, <2>3, <3>1, <3>5 DEF One, config, own
    <3> QED  BY <1>2, <3>2, <3>3, <3>4, <3>5
  <2> QED  BY <2>2, <2>3
<1> QED  BY <1>5, <1>6, <1>7

\* A program with one logger writes each message its level admits exactly once to
\* every target of the configuration, whatever levels and guards came before.
THEOREM LoneLogger == Spec => []LoneLoggerWrites
<1>1. Init => LoneCore
  BY DEF Init, InitLogging, LoneCore
<1>2. IInv /\ LoneCore => LoneLoggerWrites
  BY LoneLoggerWritesIt DEF IInv, TypeOK
<1> QED  BY <1>1, <1>2, LoneCoreNext, Invariant, PTL DEF Spec

================================================================================
