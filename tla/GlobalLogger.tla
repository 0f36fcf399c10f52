------------------------------ MODULE GlobalLogger ------------------------------
(***************************************************************************)
(* Logger::Global (engine/logger/Logger.cc): init makes the global logger  *)
(* under std::call_once, get makes it on the first use, from any thread.   *)
(* What std::call_once does is modelled as the standard has it: one call   *)
(* runs at a time, others wait, and one that throws leaves the flag unset. *)
(***************************************************************************)
EXTENDS Logger

CONSTANTS
    Threads,
    MainConfig,     \* what main gives to init
    DefaultConfig,  \* what get does
    ProviderLevels, \* the levels LOG_LEVEL may name in the configuration
    Plain           \* the application is in production, and not in debug mode

ASSUME GlobalLoggerAssumption ==
    /\ {MainConfig, DefaultConfig} \subseteq LoggerConfig
    /\ ProviderLevels \subseteq Levels
    /\ Plain \in BOOLEAN

VARIABLES
    flag,     \* initFlag
    global,   \* globalLogger: its place in loggers, or 0
    pc,       \* where each thread is in init or get
    wanted,   \* the configuration it gives to init
    getting,  \* whether it is in get
    given     \* what the calls of get have returned, 0 for *nullptr (history)

initialising == <<flag, global, pc, wanted, getting, given>>

vars == <<logging, initialising>>

\* LogServiceProvider::register_: LOG_LEVEL or info, LOG_CHANNEL, and colours
\* unless the application is in production and not in debug mode.
ProviderConfigs ==
    {[level |-> level, toConsole |-> channel \in {"console", "both"},
      toFile |-> channel \in {"file", "both"}, colorized |-> ~Plain] :
        level \in ProviderLevels \cup {Info},
        channel \in {"console", "file", "both", "other"}}

Init ==
    /\ InitLogging
    /\ flag = "unset"
    /\ global = 0
    /\ pc = [t \in Threads |-> "out"]
    /\ wanted = [t \in Threads |-> DefaultConfig]
    /\ getting = [t \in Threads |-> FALSE]
    /\ given = {}

\* init
CallInit(t, config) ==
    /\ pc[t] = "out"
    /\ pc' = [pc EXCEPT ![t] = "calling"]
    /\ wanted' = [wanted EXCEPT ![t] = config]
    /\ UNCHANGED <<logging, flag, global, getting, given>>

\* get: the pointer is read without a lock.
Get(t) ==
    /\ pc[t] = "out"
    /\ IF global # 0
       THEN given' = given \cup {global} /\ UNCHANGED <<pc, wanted, getting>>
       ELSE /\ pc' = [pc EXCEPT ![t] = "calling"]
            /\ wanted' = [wanted EXCEPT ![t] = DefaultConfig]
            /\ getting' = [getting EXCEPT ![t] = TRUE]
            /\ UNCHANGED given
    /\ UNCHANGED <<logging, flag, global>>

\* The end of a call.
Forget(t) ==
    /\ wanted' = [wanted EXCEPT ![t] = DefaultConfig]
    /\ getting' = [getting EXCEPT ![t] = FALSE]

\* Variant of Enter: the function runs in every call.
EnterAgain(t) ==
    /\ pc[t] = "calling"
    /\ flag # "running"
    /\ flag' = "running"
    /\ pc' = [pc EXCEPT ![t] = "making"]
    /\ UNCHANGED <<logging, global, wanted, getting, given>>

\* std::call_once
Enter(t) ==
    /\ pc[t] = "calling"
    /\ flag = "unset"
    /\ flag' = "running"
    /\ pc' = [pc EXCEPT ![t] = "making"]
    /\ UNCHANGED <<logging, global, wanted, getting, given>>

\* The logger is made, and the pointer assigned.
Make(t) ==
    /\ pc[t] = "making"
    /\ Construct(wanted[t], wanted[t].level)
    /\ global' = Len(loggers')
    /\ pc' = [pc EXCEPT ![t] = "made"]
    /\ UNCHANGED <<flag, wanted, getting, given>>

\* Variant of MakeThrows: the flag is set although there is no logger.
MakeThrowsOnce(t) ==
    /\ pc[t] = "making"
    /\ ConstructThrows(wanted[t])
    /\ flag' = "set"
    /\ pc' = [pc EXCEPT ![t] = "out"]
    /\ Forget(t)
    /\ UNCHANGED <<global, given>>

MakeThrows(t) ==
    /\ pc[t] = "making"
    /\ ConstructThrows(wanted[t])
    /\ flag' = "unset"
    /\ pc' = [pc EXCEPT ![t] = "out"]
    /\ Forget(t)
    /\ UNCHANGED <<global, given>>

SetFlag(t) ==
    /\ pc[t] = "made"
    /\ flag' = "set"
    /\ pc' = [pc EXCEPT ![t] = "leaving"]
    /\ UNCHANGED <<logging, global, wanted, getting, given>>

\* Variant of Pass: a call in progress in another thread is not waited for.
PassEarly(t) ==
    /\ pc[t] = "calling"
    /\ flag # "unset"
    /\ pc' = [pc EXCEPT ![t] = "leaving"]
    /\ UNCHANGED <<logging, flag, global, wanted, getting, given>>

Pass(t) ==
    /\ pc[t] = "calling"
    /\ flag = "set"
    /\ pc' = [pc EXCEPT ![t] = "leaving"]
    /\ UNCHANGED <<logging, flag, global, wanted, getting, given>>

\* init returns; get returns *globalLogger.
Leave(t) ==
    /\ pc[t] = "leaving"
    /\ pc' = [pc EXCEPT ![t] = "out"]
    /\ Forget(t)
    /\ given' = IF getting[t] THEN given \cup {global} ELSE given
    /\ UNCHANGED <<logging, flag, global>>

CallStep(t) ==
    \/ \E config \in {MainConfig} \cup ProviderConfigs : CallInit(t, config)
    \/ Get(t) \/ Enter(t) \/ Make(t) \/ MakeThrows(t) \/ SetFlag(t) \/ Pass(t)
    \/ Leave(t)

Use == UseLoggers /\ UNCHANGED initialising

Next == Use \/ \E t \in Threads : CallStep(t)

Spec == Init /\ [][Next]_vars

-------------------------------------------------------------------------------

TypeOK ==
    /\ LoggingTypeOK
    /\ flag \in {"unset", "running", "set"}
    /\ global \in {0} \cup DOMAIN loggers
    /\ pc \in [Threads -> {"out", "calling", "making", "made", "leaving"}]
    /\ wanted \in [Threads -> LoggerConfig]
    /\ getting \in [Threads -> BOOLEAN]
    /\ given \subseteq {0} \cup DOMAIN loggers

Making(t) == pc[t] \in {"making", "made"}

\* One thread at a time is inside std::call_once, and whoever has come through
\* it without an exception finds the global logger made.
OneMakes ==
    /\ flag = "running" <=> \E t \in Threads : Making(t)
    /\ \A t, u \in Threads : Making(t) /\ Making(u) => t = u
    /\ global # 0 <=> flag = "set" \/ \E t \in Threads : pc[t] = "made"
    /\ \A t \in Threads : pc[t] = "leaving" => flag = "set"

\* The type invariant, and what std::call_once in Global::init keeps true.
IInv == TypeOK /\ OneMakes

\* All calls of Global::get, in all threads, give the same logger, in spite of
\* the unlocked read of the pointer, calls of init at the same time, and a
\* constructor that throws.
GlobalIsOne == given \subseteq {global} \ {0}

\* The first init that succeeds decides: the global logger is never replaced.
GlobalStays == [][global # 0 => global' = global]_vars

================================================================================
