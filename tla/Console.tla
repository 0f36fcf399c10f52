-------------------------------- MODULE Console --------------------------------
(***************************************************************************)
(* engine/console: ConsoleKernel, with ArgumentParser::parse and           *)
(* CommandContext, from the registration of the commands to what execute() *)
(* does with the options it finds.                                         *)
(*                                                                         *)
(* An argument behind the command is what parse tells apart:               *)
(*   [kind |-> "flag"]    --help, -h, --version or -V (name: which of them) *)
(*   [kind |-> "assign"]  --name=value                                     *)
(*   [kind |-> "long"]    --name                                           *)
(*   [kind |-> "short"]   -n                                               *)
(*   [kind |-> "plain"]   a word that does not begin with a dash           *)
(*   [kind |-> "odd"]     a dash alone, or with several letters            *)
(***************************************************************************)
EXTENDS Integers, Sequences, FiniteSetsExt

CONSTANTS
    Registrations, \* the commands given to register_, in order
    LongNames,
    ShortNames,
    Values,        \* words an argument may be or hold
    Numbers,       \* those of them stoi and stod accept
    MaxArgs,       \* bound: arguments behind the command
    NoShort,       \* an option without a short name
    NoDefault,     \* an option whose default is the empty string
    Fallback       \* the default a command gives when it reads an option

\* The value of an option that was given without one.
True == "true"

Names == LongNames \cup ShortNames

ASSUME ConsoleAssumption ==
    /\ Len(Registrations) \in Nat
    /\ DOMAIN Registrations = 1..Len(Registrations)
    /\ \A r \in DOMAIN Registrations :
          LET declared == Registrations[r].options IN
          /\ \A o \in declared :
                /\ o.name \in LongNames
                /\ o.shortName \in ShortNames \cup {NoShort}
                /\ o.hasValue \in BOOLEAN
                /\ o.defaultValue \in Values \cup {NoDefault}
          /\ \A o, p \in declared : o.name = p.name => o = p
    /\ NoShort \notin ShortNames
    /\ {NoDefault, Fallback} \cap (Values \cup {True}) = {}
    /\ Numbers \subseteq Values
    /\ MaxArgs \in Nat

Argument ==
    [kind : {"flag"}, name : {"help", "version"}, value : {True}]
        \cup [kind : {"assign"}, name : LongNames, value : Values]
        \cup [kind : {"long"}, name : LongNames, value : {True}]
        \cup [kind : {"short"}, name : ShortNames, value : {True}]
        \cup [kind : {"plain", "odd"}, name : {"none"}, value : Values]

VARIABLES
    registered,  \* how many of the commands are registered
    commands,    \* commands_: name |-> what the command declares with addOption
    kernel,      \* where ConsoleKernel is
    command,     \* the command that is run
    argv,        \* the arguments behind the command
    i,           \* the argument to read
    options,     \* result.options: name |-> value
    positional,  \* result.positional
    flags,       \* which of hasHelp and hasVersion are set
    read,        \* what execute() has read last (history)
    returned     \* what handle returns

parse == <<i, options, positional, flags>>

kernelState == <<registered, commands, command, argv>>

console == <<kernelState, kernel, parse, read, returned>>

NotRead == [name |-> "none", as |-> "none", value |-> Fallback]

InitConsole ==
    /\ registered = 0
    /\ commands = << >>
    /\ kernel = "registering"
    /\ command = "none"
    /\ argv = << >>
    /\ i = 1
    /\ options = << >>
    /\ positional = << >>
    /\ flags = {}
    /\ read = NotRead
    /\ returned = 0

With(f, name, value) ==
    [n \in DOMAIN f \cup {name} |-> IF n = name THEN value ELSE f[n]]

-------------------------------------------------------------------------------

\* Variant of Register: a command that is there stays.
RegisterOnce ==
    /\ kernel = "registering"
    /\ registered < Len(Registrations)
    /\ registered' = registered + 1
    /\ LET new == Registrations[registered + 1] IN
       commands' = With(commands, new.name,
                        IF new.name \in DOMAIN commands THEN commands[new.name]
                        ELSE new.options)
    /\ UNCHANGED <<kernel, command, argv, parse, read, returned>>

\* register_: a command replaces one of the same name.
Register ==
    /\ kernel = "registering"
    /\ registered < Len(Registrations)
    /\ registered' = registered + 1
    /\ LET new == Registrations[registered + 1] IN
       commands' = With(commands, new.name, new.options)
    /\ UNCHANGED <<kernel, command, argv, parse, read, returned>>

HandleReturns(code) ==
    /\ kernel' = "returned"
    /\ returned' = code

\* handle: there is no command, a flag in its place, or an unknown one.
HandleNoCommand(first) ==
    /\ HandleReturns(IF first = "unknown" THEN 1 ELSE 0)
    /\ UNCHANGED <<kernelState, parse, read>>

HandleCommand(name, args) ==
    /\ command' = name
    /\ argv' = args
    /\ kernel' = "parsing"
    /\ UNCHANGED <<registered, commands, parse, read, returned>>

\* What the command declares: parse gets it as knownOptions.
known == commands[command]

\* Argument a names an option that is declared to have a value.
WantsValue(a) ==
    \E o \in known :
        o.hasValue /\ \/ a.kind = "long" /\ o.name = a.name
                      \/ a.kind = "short" /\ o.shortName = a.name

Reading(kinds) ==
    /\ kernel = "parsing"
    /\ i <= Len(argv)
    /\ argv[i].kind \in kinds
    /\ UNCHANGED <<kernelState, kernel, read, returned>>

ValueFollows ==
    /\ WantsValue(argv[i])
    /\ i < Len(argv)
    /\ argv[i + 1].kind = "plain"

Insert(name, value) == options' = With(options, name, value)

ReadFlag ==
    /\ Reading({"flag"})
    /\ flags' = flags \cup {argv[i].name}
    /\ i' = i + 1
    /\ UNCHANGED <<options, positional>>

ReadAssign ==
    /\ Reading({"assign"})
    /\ Insert(argv[i].name, argv[i].value)
    /\ i' = i + 1
    /\ UNCHANGED <<positional, flags>>

\* Variant of ReadWithValue: the value is not passed over.
ReadWithValueInPlace ==
    /\ Reading({"long", "short"})
    /\ ValueFollows
    /\ Insert(argv[i].name, argv[i + 1].value)
    /\ i' = i + 1
    /\ UNCHANGED <<positional, flags>>

\* --name value and -n value.
ReadWithValue ==
    /\ Reading({"long", "short"})
    /\ ValueFollows
    /\ Insert(argv[i].name, argv[i + 1].value)
    /\ i' = i + 2
    /\ UNCHANGED <<positional, flags>>

\* Variant of ReadWithoutValue: what is not a value is passed over all the same.
ReadWithoutValueSkipping ==
    /\ Reading({"long", "short"})
    /\ ~ValueFollows
    /\ Insert(argv[i].name, True)
    /\ i' = IF WantsValue(argv[i]) THEN i + 2 ELSE i + 1
    /\ UNCHANGED <<positional, flags>>

\* An option without a value, or one whose value is missing: what follows
\* begins with a dash, or nothing does.
ReadWithoutValue ==
    /\ Reading({"long", "short"})
    /\ ~ValueFollows
    /\ Insert(argv[i].name, True)
    /\ i' = i + 1
    /\ UNCHANGED <<positional, flags>>

ReadPositional ==
    /\ Reading({"plain", "odd"})
    /\ positional' = Append(positional, argv[i].value)
    /\ i' = i + 1
    /\ UNCHANGED <<options, flags>>

Parsed == kernel = "parsing" /\ i > Len(argv)

\* The help or the version of the command is printed.
PrintHelpOrVersion ==
    /\ Parsed
    /\ flags # {}
    /\ HandleReturns(0)
    /\ UNCHANGED <<kernelState, parse, read>>

\* The options that get their default value.
Missing ==
    {o \in known : o.name \notin DOMAIN options /\ o.defaultValue # NoDefault}

DefaultOf(name) == (CHOOSE o \in known : o.name = name).defaultValue

\* Variant of FillDefaults: an option given without a value gets its default.
FillMoreDefaults ==
    [n \in DOMAIN options \cup {o.name : o \in Missing} |->
        IF n \in DOMAIN options
           /\ (options[n] # True \/ n \notin {o.name : o \in known}
               \/ DefaultOf(n) = NoDefault)
        THEN options[n] ELSE DefaultOf(n)]

\* The test of the short names in this loop contradicts itself and never has
\* effect.
FillDefaults ==
    [n \in DOMAIN options \cup {o.name : o \in Missing} |->
        IF n \in DOMAIN options THEN options[n] ELSE DefaultOf(n)]

Execute ==
    /\ Parsed
    /\ flags = {}
    /\ options' = FillDefaults
    /\ kernel' = "executing"
    /\ UNCHANGED <<kernelState, i, positional, flags, read, returned>>

-------------------------------------------------------------------------------

\* CommandContext::option: as text, or converted by the template.  The template
\* for std::string has no conversion and gives the default.  (No word is "1", the other true one.)
Converted(as, value) ==
    CASE as = "text" -> value
      [] as = "number" -> value
      [] as = "bool" -> IF value = True THEN True ELSE "false"
      [] as = "string" -> Fallback

\* Variant of ReadOption: an option that was not given is converted as well.
ReadMissing(name, as) ==
    /\ read = NotRead  \* bound: one reading
    /\ LET value == IF name \in DOMAIN options THEN options[name] ELSE Fallback IN
       /\ read' = [name |-> name, as |-> as, value |-> Converted(as, value)]
       /\ kernel' = IF as = "number" /\ value \notin Numbers
                    THEN "aborted" ELSE kernel
    /\ UNCHANGED <<kernelState, parse, returned>>

\* stoi and stod throw for what is no number, and option() is noexcept.
ReadOption(name, as) ==
    /\ read = NotRead  \* bound: one reading
    /\ IF name \in DOMAIN options
       THEN /\ read' = [name |-> name, as |-> as, value |-> Converted(as, options[name])]
            /\ kernel' = IF as = "number" /\ options[name] \notin Numbers
                         THEN "aborted" ELSE kernel
       ELSE /\ read' = [name |-> name, as |-> as, value |-> Fallback]
            /\ UNCHANGED kernel
    /\ UNCHANGED <<kernelState, parse, returned>>

\* What execute() returns, handle does.
Return(code) ==
    /\ HandleReturns(code)
    /\ UNCHANGED <<kernelState, parse, read>>

\* Variant of ThrowStd: the failed command looks like one that did its work.
ThrowStdUnnoticed ==
    /\ kernel' = "failed"
    /\ returned' = 0
    /\ UNCHANGED <<kernelState, parse, read>>

\* execute() throws a std::exception, of whatever class: handle returns 1.
ThrowStd ==
    /\ kernel' = "failed"
    /\ returned' = 1
    /\ UNCHANGED <<kernelState, parse, read>>

\* It throws something else, which goes through handle.
ThrowOther ==
    /\ kernel' = "escaped"
    /\ UNCHANGED <<kernelState, parse, read, returned>>

ParseStep ==
    \/ ReadFlag
    \/ ReadAssign
    \/ ReadWithValue
    \/ ReadWithoutValue
    \/ ReadPositional

ExecuteStep ==
    /\ kernel = "executing"
    /\ \/ \E o \in known, as \in {"text", "number", "bool", "string"} :
             ReadOption(o.name, as)
       \/ \E code \in {0, 1} : Return(code)
       \/ ThrowStd
       \/ ThrowOther

Handle ==
    /\ kernel = "registering"
    /\ registered = Len(Registrations)
    /\ \/ \E first \in {"nothing", "help", "version", "unknown"} : HandleNoCommand(first)
       \/ \E name \in DOMAIN commands, n \in 0..MaxArgs :
             \E args \in [1..n -> Argument] : HandleCommand(name, args)

ConsoleStep ==
    \/ Register
    \/ Handle
    \/ ParseStep
    \/ PrintHelpOrVersion
    \/ Execute
    \/ ExecuteStep

-------------------------------------------------------------------------------

ConsoleTypeOK ==
    /\ registered \in 0..Len(Registrations)
    /\ command \in DOMAIN commands \cup {"none"}
    /\ argv \in Seq(Argument)
    /\ kernel \in {"registering", "parsing", "executing", "returned", "failed",
                   "escaped", "aborted"}
    /\ i \in 1..(Len(argv) + 1)
    /\ DOMAIN options \subseteq Names
    /\ \A n \in DOMAIN options : options[n] \in Values \cup {True}
    /\ positional \in Seq(Values)
    /\ flags \subseteq {"help", "version"}
    /\ read.as \in {"none", "text", "number", "bool", "string"}
    /\ read.value \in Values \cup {True, "false", Fallback}
    /\ returned \in {0, 1}

\* The argument at p is the value of the option in front of it.  This needs no
\* scan from the left: a word is never an option, so the argument in front of a
\* word cannot itself have been taken as a value.
IsValue(p) ==
    /\ p > 1
    /\ argv[p].kind = "plain"
    /\ WantsValue(argv[p - 1])

IsPositional(p) == argv[p].kind \in {"plain", "odd"} /\ ~IsValue(p)

Gives(p, name) == argv[p].kind \in {"assign", "long", "short"} /\ argv[p].name = name

\* What the option at p is set to.
ValueAt(p) ==
    IF p < Len(argv) /\ IsValue(p + 1) THEN argv[p + 1].value ELSE argv[p].value

\* commands_ holds under each name the command that was registered last.
RegisteredLast ==
    \A name \in DOMAIN commands :
        \E r \in 1..registered :
            /\ Registrations[r].name = name
            /\ Registrations[r].options = commands[name]
            /\ \A s \in (r + 1)..registered : Registrations[s].name # name

\* What was given last under a name, in the arguments up to end.
GivenLast(name, value, end) ==
    \E p \in 1..end :
        /\ Gives(p, name)
        /\ ValueAt(p) = value
        /\ \A q \in (p + 1)..end : ~Gives(q, name)

\* The options after the arguments that are read: parse is never at a value.
OptionsSoFar ==
    /\ i <= Len(argv) => ~IsValue(i)
    /\ \A n \in Names :
          IF n \in DOMAIN options THEN GivenLast(n, options[n], i - 1)
          ELSE \A p \in 1..(i - 1) : ~Gives(p, n)

PositionalsUpTo(p) == {q \in 1..p : IsPositional(q)}

\* No argument is lost or used twice: the words that are not values are the
\* positional arguments, in order, and an option has the value given last.
ArgumentsAccountedFor ==
    /\ Len(positional) = Cardinality(PositionalsUpTo(i - 1))
    /\ \A p \in PositionalsUpTo(i - 1) :
          positional[Cardinality(PositionalsUpTo(p))] = argv[p].value
    /\ \A p \in 1..(i - 1), n \in Names :
          /\ Gives(p, n)
          /\ \A q \in (p + 1)..(i - 1) : ~Gives(q, n)
          => n \in DOMAIN options /\ options[n] = ValueAt(p)

\* The options of the command in force: of those registered under one name, the
\* last.
Declared ==
    LET same == {r \in DOMAIN Registrations : Registrations[r].name = command} IN
    Registrations[Max(same)].options

Given(name) == {p \in DOMAIN argv : Gives(p, name)}

\* What the user or else the declaration says of an option.
Meant(o) ==
    IF Given(o.name) # {}
    THEN ValueAt(CHOOSE p \in Given(o.name) : \A q \in Given(o.name) : q <= p)
    ELSE o.defaultValue

\* What a command finds under a long name is what the user gave last, or the
\* declared default if the name was not given; it finds nothing under a name
\* that was neither given nor has a default.
CommandGetsOptions ==
    kernel = "executing" =>
        \A o \in Declared :
            /\ o.name \in DOMAIN options <=> Meant(o) # NoDefault
            /\ o.name \in DOMAIN options => options[o.name] = Meant(o)

\* A command that reads a number ends the program exactly if there is something
\* else to read: what the user gave last is no number, or has no value, or it is
\* the declared default that is no number.
AbortIsExplained ==
    read.as = "number" =>
        \A o \in Declared :
            o.name = read.name =>
                (kernel = "aborted" <=> Meant(o) \notin Numbers \cup {NoDefault})

\* What the kernel keeps true on its way to execute().
KernelInOrder ==
    /\ RegisteredLast
    /\ kernel # "registering" => registered = Len(Registrations)
    /\ kernel = "registering" => i = 1 /\ options = << >>
    /\ kernel = "parsing" => OptionsSoFar
    /\ kernel \in {"parsing", "executing"} => command \in DOMAIN commands
    /\ kernel \in {"registering", "parsing"} => read = NotRead
    /\ CommandGetsOptions
    /\ AbortIsExplained

\* The help of a command shows an option as "--name, -n" (Command.hh:186-187):
\* what is given under the short name is found under the long one.
ShortNamesAreSynonyms ==
    kernel = "executing" =>
        \A o \in Declared, p \in DOMAIN argv :
            /\ Gives(p, o.shortName)
            /\ \A q \in DOMAIN argv \ {p} :
                  ~Gives(q, o.shortName) /\ ~Gives(q, o.name)
            => o.name \in DOMAIN options /\ options[o.name] = ValueAt(p)

================================================================================
