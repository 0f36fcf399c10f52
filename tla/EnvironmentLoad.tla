---------------------------- MODULE EnvironmentLoad ----------------------------
(***************************************************************************)
(* Application::loadEnvironment (engine/foundation/Application.cc) puts    *)
(* what the env file says into the configuration repository, and copies    *)
(* the application's settings back from it, each with a has and a get.     *)
(* The repository is open to the other threads all the time.               *)
(***************************************************************************)
EXTENDS Configuration, Sequences

CONSTANTS
    Loader,    \* the thread that boots the application
    Settings,  \* the keys it copies, in order
    EnvKey,    \* "APP_ENV", which is copied to environment_
    DebugKey,  \* "APP_DEBUG", which is copied to debug_
    Default,   \* what the members of Application begin with
    Disks,     \* the env files that may exist: name |-> contents
    Base,      \* the name of ".env"; that of ".env.x" is the word x
    AppEnvs    \* what APP_ENV may be in the process environment

ASSUME EnvironmentLoadAssumption ==
    /\ Loader \in Threads
    /\ Settings \in Seq(Keys)
    /\ Default \in [Keys -> Value]
    /\ Base \notin Words
    /\ AppEnvs \subseteq Words \cup {Absent}
    /\ EnvKey \in Keys
    /\ \A d \in Disks :
          /\ DOMAIN d \subseteq Words \cup {Base}
          /\ \A file \in DOMAIN d : d[file] \in Batches

VARIABLES
    appEnv,   \* APP_ENV of the process environment
    disk,
    stage,    \* where loadEnvironment is
    at,       \* the setting it has come to
    setting,  \* name_, version_, environment_ and debug_, under their keys
    past      \* what each key has held while the settings are copied (history)

load == <<appEnv, disk, stage, at, setting>>

vars == <<repository, load, past>>

Stages == {"begin", "store", "check", "copy", "done", "threw"}

TypeOf(k) == IF k = DebugKey THEN "bool" ELSE "string"

NothingHeld == [k \in Keys |-> {}]

Init ==
    /\ InitRepository
    /\ appEnv \in AppEnvs
    /\ disk \in Disks
    /\ stage = "begin"
    /\ at = 1
    /\ setting = Default
    /\ past = NothingHeld

Remember == past' = [k \in Keys |-> past[k] \cup {data'[k]}]

\* The file of that environment if there is one, or ".env".
EnvFile == IF appEnv \in DOMAIN disk THEN appEnv ELSE Base

\* Variant of Begin: the file of the environment counts only without a ".env".
BeginWithBase ==
    LET file == IF Base \in DOMAIN disk THEN Base ELSE EnvFile IN
    /\ stage = "begin"
    /\ setting' = IF appEnv = Absent THEN setting
                  ELSE [setting EXCEPT ![EnvKey] = String(appEnv)]
    /\ file \in DOMAIN disk
    /\ BeginSetMany(Loader, disk[file])
    /\ stage' = "store"
    /\ UNCHANGED <<appEnv, disk, at, past>>

\* The file is parsed, and setMany has the lock.
Begin ==
    /\ stage = "begin"
    /\ setting' = IF appEnv = Absent THEN setting
                  ELSE [setting EXCEPT ![EnvKey] = String(appEnv)]
    /\ EnvFile \in DOMAIN disk
    /\ BeginSetMany(Loader, disk[EnvFile])
    /\ stage' = "store"
    /\ UNCHANGED <<appEnv, disk, at, past>>

\* There is no file, or it cannot be opened.
BeginWithoutFile ==
    /\ stage = "begin"
    /\ setting' = IF appEnv = Absent THEN setting
                  ELSE [setting EXCEPT ![EnvKey] = String(appEnv)]
    /\ stage' = IF EnvFile \in DOMAIN disk THEN "threw" ELSE "done"
    /\ UNCHANGED <<repository, appEnv, disk, at, past>>

Store ==
    /\ stage = "store"
    /\ \/ (\E k \in Keys : SetNext(Loader, k)) /\ UNCHANGED <<load, past>>
       \/ /\ EndSetMany(Loader)
          /\ Remember
          /\ stage' = "check"
          /\ UNCHANGED <<appEnv, disk, at, setting>>

\* Variant of Check: the setting is taken to be there.
CheckNothing ==
    /\ stage = "check"
    /\ IF at > Len(Settings)
       THEN stage' = "done" /\ past' = NothingHeld /\ UNCHANGED <<repository, at>>
       ELSE stage' = "copy" /\ Has(Loader, Settings[at]) /\ UNCHANGED <<at, past>>
    /\ UNCHANGED <<appEnv, disk, setting>>

\* has
Check ==
    /\ stage = "check"
    /\ IF at > Len(Settings)
       THEN stage' = "done" /\ past' = NothingHeld /\ UNCHANGED <<repository, at>>
       ELSE /\ Has(Loader, Settings[at])
            /\ IF data[Settings[at]] # Absent
               THEN stage' = "copy" /\ UNCHANGED at
               ELSE at' = at + 1 /\ UNCHANGED stage
            /\ UNCHANGED past
    /\ UNCHANGED <<appEnv, disk, setting>>

\* Variant of Copy: every setting is read as a string.
CopyUnconverted ==
    LET k == Settings[at] IN
    /\ stage = "copy"
    /\ Get(Loader, "string", k)
    /\ IF told'[Loader] = Refused
       THEN stage' = "threw" /\ UNCHANGED <<at, setting>>
       ELSE /\ setting' = [setting EXCEPT ![k] = told'[Loader].value]
            /\ stage' = "check"
            /\ at' = at + 1
    /\ UNCHANGED <<appEnv, disk, past>>

\* get, which has its own lock: what has said may not hold any more.
Copy ==
    LET k == Settings[at] IN
    /\ stage = "copy"
    /\ Get(Loader, TypeOf(k), k)
    /\ IF told'[Loader] = Refused
       THEN stage' = "threw" /\ UNCHANGED <<at, setting>>
       ELSE /\ setting' = [setting EXCEPT ![k] = told'[Loader].value]
            /\ stage' = "check"
            /\ at' = at + 1
    /\ UNCHANGED <<appEnv, disk, past>>

\* What the other threads do with the repository meanwhile.
OthersCall ==
    /\ \E t \in Threads \ {Loader} : CallStep(t)
    /\ IF stage \in {"check", "copy"} THEN Remember ELSE UNCHANGED past
    /\ UNCHANGED load

Next == Begin \/ BeginWithoutFile \/ Store \/ Check \/ Copy \/ OthersCall

Spec == Init /\ [][Next]_vars

-------------------------------------------------------------------------------

TypeOK ==
    /\ RepositoryTypeOK
    /\ told = [t \in Threads |-> told[t]]
    /\ appEnv \in AppEnvs
    /\ disk \in Disks
    /\ stage \in Stages
    /\ at \in 1..(Len(Settings) + 1)
    /\ setting \in [Keys -> Value]
    /\ past \in [Keys -> SUBSET (Value \cup {Absent})]

\* The calls of the loader are those of its stage, and what the repository holds
\* while it copies is among what the keys have held.
LoaderCalls ==
    /\ call[Loader].op = IF stage = "store" THEN "setMany" ELSE "none"
    /\ stage \in {"begin", "store"} => at = 1
    /\ stage = "copy" =>
          /\ at <= Len(Settings)
          /\ past[Settings[at]] \ {Absent} # {}
    /\ stage \in {"check", "copy"} => \A k \in Keys : data[k] \in past[k]

\* The value of a setting that is not in the repository.
Initially(k) == IF k = EnvKey /\ appEnv # Absent THEN String(appEnv) ELSE Default[k]

Copied(k) == \E v \in past[k] \ {Absent} : setting[k] = Cast(TypeOf(k), v)

CopiedOrAbsent(k) == Copied(k) \/ (setting[k] = Initially(k) /\ Absent \in past[k])

SettingsSoFar ==
    /\ stage = "begin" => setting = Default
    /\ stage \in {"begin", "store"} => past = NothingHeld
    /\ stage \in {"store", "check", "copy"} =>
          \A k \in Keys : Copied(k) \/ setting[k] = Initially(k)

\* Every setting that loadEnvironment has come past is what the repository held
\* under its key at some time after the file was put in, converted to the type
\* of the setting, or what it was before if the key was missing at some time.
\* So it is what the file says unless another thread changed that key.
LoadedSettings ==
    stage \in {"check", "copy", "threw"} /\ past # NothingHeld =>
        \A i \in 1..(at - 1) : CopiedOrAbsent(Settings[i])

\* No other thread has changed k since the file was put in.
Undisturbed(k) == \E w \in past[k] : past[k] = {w}

\* The file that APP_ENV of the process chooses, which is ".env" only if there is
\* no other, decides the settings it has: APP_ENV in that file replaces the one of
\* the process, nothing of the other file comes in, and what was in the repository
\* before is overwritten.
SettingsFromFile ==
    stage \in {"check", "copy", "threw"} /\ past # NothingHeld =>
        \A i \in 1..(at - 1), file \in DOMAIN disk :
            LET k == Settings[i] IN
            /\ file = appEnv \/ (file = Base /\ appEnv \notin DOMAIN disk)
            /\ disk[file][k] # Absent
            /\ Undisturbed(k)
            => setting[k] = Cast(TypeOf(k), disk[file][k])

\* Once the file is in, loadEnvironment throws only for a key that was there: it
\* was removed between has and get, or holds a value that does not convert.
ThrowIsExplained ==
    stage = "threw" /\ past # NothingHeld =>
        LET held == past[Settings[at]] IN
        /\ held \ {Absent} # {}
        /\ \/ Absent \in held
           \/ \E v \in held \ {Absent} : Cast(TypeOf(Settings[at]), v) = Absent

\* The type invariant, what the lock of the repository (the shared_mutex of
\* Repository.hh) protects, and what loadEnvironment has done with it so far.
IInv == TypeOK /\ LockProtects /\ LoaderCalls /\ SettingsSoFar

\* setMany and keysWithPrefix of Repository.hh are one step to every other call:
\* no one sees half of a batch, and a list of keys was true at one moment.
RepositoryIsAtomic == Abstract!Spec

================================================================================
