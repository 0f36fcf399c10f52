------------------------------ MODULE ProgramProofs ------------------------------
(***************************************************************************)
(* Proofs about Program, for every list of handlers, every command and     *)
(* option, and every list of arguments.                                    *)
(***************************************************************************)
EXTENDS Program, SequenceTheorems, FiniteSetTheorems, TLAPS

USE DEF program, functions, handleState, console, kernelState, parse

-------------------------------------------------------------------------------

\* The names that stand for no exception, and for one that is none of the standard
\* library, are not among the classes.
LEMMA NotStd == "none" \notin StdClasses /\ "other" \notin StdClasses
  BY DEF StdClasses, Base

LEMMA MaxOf ==
    ASSUME NEW S, NEW m \in S, S \subseteq Int, \A j \in S : j <= m
    PROVE  Max(S) = m
<1> DEFINE Greatest(x) == x \in S /\ \A y \in S : x >= y
<1>1. Greatest(m)
  OBVIOUS
<1>2. \A x : Greatest(x) => x = m
  OBVIOUS
<1> QED  BY <1>1, <1>2 DEF Max

LEMMA ResultTypes == {Ok, Unhandled, Unknown} \subseteq Results
  BY DEF Ok, Unhandled, Unknown, Results

LEMMA FunctionTypes ==
    ASSUME NEW function \in Function \cup {NoFunction}
    PROVE  /\ function.answer \in Results
           /\ function.answer.handled \in BOOLEAN
           /\ function.throws \in BOOLEAN
<1>1. /\ function.answer \in Results
      /\ function.throws \in BOOLEAN
  <2>1. CASE function \in Function
    BY <2>1 DEF Function
  <2>2. CASE function = NoFunction
    BY <2>2, ResultTypes DEF NoFunction
  <2> QED  BY <2>1, <2>2
<1> QED  BY <1>1 DEF Results

\* The handler whose turn it is.
LEMMA HandlerInTurn ==
    ASSUME HandlerTypeOK, handling = "dispatch", it > 0
    PROVE  /\ it \in 1..Len(handlers)
           /\ handlers[it] \in Function
  BY DEF HandlerTypeOK

LEMMA TryHandlerTypes == HandlerTypeOK /\ TryHandler => HandlerTypeOK'
<1> SUFFICES ASSUME HandlerTypeOK, TryHandler
             PROVE  HandlerTypeOK'
  OBVIOUS
<1>1. /\ it \in 1..Len(handlers)
      /\ handlers[it] \in Function
  BY HandlerInTurn DEF TryHandler
<1>2. /\ handlers[it].answer \in Results
      /\ handlers[it].throws \in BOOLEAN
      /\ handlers[it].answer.handled \in BOOLEAN
  BY <1>1, FunctionTypes
<1>3. CASE Accepts(handlers[it]) /\ (handlers[it].throws \/ handlers[it].answer.handled)
  <2>1. handling' \in {"done", "aborted"} /\ result' = handlers[it].answer
    BY <1>2, <1>3 DEF TryHandler, Answered
  <2> QED  BY <1>2, <1>3, <2>1 DEF TryHandler, HandlerTypeOK
<1>4. CASE ~(Accepts(handlers[it]) /\ (handlers[it].throws \/ handlers[it].answer.handled))
  <2>1. it' = it - 1 /\ UNCHANGED <<result, handling, functions, caught, reported>>
    BY <1>4 DEF TryHandler
  <2>2. it' \in 0..Len(handlers)
    BY <1>1, <2>1
  <2> QED  BY <2>1, <2>2 DEF HandlerTypeOK
<1> QED  BY <1>3, <1>4

LEMMA TryHandlerInOrder ==
    ASSUME HandlerTypeOK, DispatchInOrder, TryHandler
    PROVE  DispatchInOrder'
<1> DEFINE function == handlers[it]
<1>1. /\ it \in 1..Len(handlers)
      /\ function \in Function
      /\ caught \in StdClasses
      /\ handling = "dispatch"
  BY HandlerInTurn DEF TryHandler, HandlerTypeOK
<1>2. /\ function.throws \in BOOLEAN
      /\ function.answer.handled \in BOOLEAN
  BY <1>1, FunctionTypes
<1>3. /\ ~reported
      /\ \A j \in Willing : j <= it
  BY <1>1 DEF DispatchInOrder
<1>4. /\ UNCHANGED <<functions, caught, reported>>
      /\ Willing' = Willing
      /\ Decides' = Decides
  BY DEF TryHandler, Willing, Accepts, Decides
<1>5. DOMAIN handlers = 1..Len(handlers) /\ Len(handlers) \in Nat
  BY DEF HandlerTypeOK
<1>6. it \in Willing <=> Accepts(function) /\ (function.throws \/ function.answer.handled)
  BY <1>1, <1>5 DEF Willing
<1>7. Willing \subseteq Int
  BY <1>5 DEF Willing
<1>8. CASE it \in Willing
  <2>1. Max(Willing) = it
    BY <1>3, <1>7, <1>8, MaxOf
  <2>2. Decides = function
    BY <1>8, <2>1 DEF Decides
  <2>3. /\ result' = function.answer
        /\ handling' = IF function.throws THEN "aborted" ELSE "done"
    BY <1>2, <1>6, <1>8 DEF TryHandler, Answered
  <2>4. HandledByLatest'
    BY <1>3, <1>4, <2>2, <2>3 DEF HandledByLatest
  <2>5. caught # "other"
    BY <1>1, NotStd
  <2>6. Decides' \in Added'
    BY <1>1, <1>4, <1>5, <2>2 DEF Added
  <2> QED  BY <1>4, <2>3, <2>4, <2>5, <2>6 DEF DispatchInOrder
<1>9. CASE it \notin Willing
  <2>1. it' = it - 1 /\ UNCHANGED <<result, handling>>
    BY <1>6, <1>9 DEF TryHandler
  <2>2. \A j \in Willing : j <= it - 1
    BY <1>1, <1>3, <1>7, <1>9
  <2>3. HandledByLatest'
    BY <1>1, <2>1 DEF HandledByLatest
  <2>4. caught # "other"
    BY <1>1, NotStd
  <2> QED  BY <1>1, <1>3, <1>4, <2>1, <2>2, <2>3, <2>4 DEF DispatchInOrder
<1> QED  BY <1>8, <1>9

LEMMA TryAnyInOrder ==
    ASSUME HandlerTypeOK, DispatchInOrder, TryAny
    PROVE  HandlerTypeOK' /\ DispatchInOrder'
<1>1. /\ caught \in StdClasses
      /\ handling = "dispatch"
      /\ it = 0
      /\ anyHandler \in Function \cup {NoFunction}
  BY DEF TryAny, HandlerTypeOK
<1>2. /\ anyHandler.answer \in Results
      /\ anyHandler.throws \in BOOLEAN
      /\ anyHandler.answer.handled \in BOOLEAN
  BY <1>1, FunctionTypes
<1>3. UNCHANGED <<functions, caught, it, reported>>
  BY DEF TryAny
<1>4. ~reported /\ Willing = {}
  <2>1. \A j \in Willing : j <= 0 /\ j \in 1..Len(handlers)
    BY <1>1 DEF DispatchInOrder, Willing, HandlerTypeOK
  <2> QED  BY <1>1, <2>1 DEF DispatchInOrder
<1>5. Decides = anyHandler
  BY <1>4 DEF Decides
<1>6. Willing' = Willing /\ Decides' = Decides
  BY <1>3 DEF Willing, Accepts, Decides
<1>7. /\ result' = anyHandler.answer
      /\ handling' = CASE anyHandler.throws -> "aborted"
                       [] ~anyHandler.throws /\ anyHandler.answer.handled -> "done"
                       [] ~anyHandler.throws /\ ~anyHandler.answer.handled -> "unhandled"
  <2>1. CASE anyHandler # NoFunction
    BY <2>1 DEF TryAny, Answered
  <2>2. CASE anyHandler = NoFunction
    <3>1. ~anyHandler.throws /\ ~anyHandler.answer.handled /\ anyHandler.answer = Unhandled
      BY <2>2 DEF NoFunction, Unhandled
    <3> QED  BY <2>2, <3>1 DEF TryAny
  <2> QED  BY <2>1, <2>2
<1>8. caught # "other"
  BY <1>1, NotStd
<1>9. HandlerTypeOK'
  BY <1>1, <1>2, <1>3, <1>7 DEF HandlerTypeOK
<1>10. CASE anyHandler.throws \/ anyHandler.answer.handled
  <2>1. handling' = IF anyHandler.throws THEN "aborted" ELSE "done"
    BY <1>2, <1>7, <1>10
  <2>2. HandledByLatest'
    BY <1>3, <1>4, <1>5, <1>6, <1>7, <2>1 DEF HandledByLatest
  <2>3. Decides' \in Added'
    BY <1>3, <1>5, <1>6 DEF Added
  <2> QED  BY <1>3, <1>8, <1>9, <2>1, <2>2, <2>3 DEF DispatchInOrder
<1>11. CASE ~anyHandler.throws /\ ~anyHandler.answer.handled
  <2>1. handling' = "unhandled"
    BY <1>2, <1>7, <1>11
  <2>2. HandledByLatest'
    BY <2>1 DEF HandledByLatest
  <2> QED  BY <1>1, <1>3, <1>4, <1>6, <1>7, <1>8, <1>9, <1>11, <2>1, <2>2 DEF DispatchInOrder
<1> QED  BY <1>2, <1>10, <1>11

LEMMA ReportInOrder ==
    ASSUME HandlerTypeOK, DispatchInOrder, Report
    PROVE  HandlerTypeOK' /\ DispatchInOrder'
<1>1. /\ caught \in StdClasses
      /\ ~reported
      /\ Willing = {}
      /\ ~anyHandler.throws /\ ~anyHandler.answer.handled
      /\ result = anyHandler.answer
  BY DEF DispatchInOrder, Report
<1>2. UNCHANGED <<functions, caught, it, result>>
  BY DEF Report
<1>3. Decides = anyHandler /\ Decides' = Decides
  BY <1>1, <1>2 DEF Decides, Willing, Accepts
<1>4. /\ reported' = (unhandledHandler # "none")
      /\ handling' = IF unhandledHandler = "throws" THEN "aborted" ELSE "done"
  BY DEF Report
<1>5. HandlerTypeOK'
  BY <1>2, <1>4 DEF HandlerTypeOK
<1>6. HandledByLatest'
  BY <1>1, <1>2, <1>3, <1>4 DEF HandledByLatest
<1>7. caught # "other"
  BY <1>1, NotStd
<1>8. Decides' \in Added'
  BY <1>2, <1>3 DEF Added
<1> QED  BY <1>2, <1>4, <1>5, <1>6, <1>7, <1>8 DEF DispatchInOrder

LEMMA CatchInOrder ==
    ASSUME HandlerTypeOK, ~reported, NEW c \in StdClasses \cup {"other"}, Catch(c)
    PROVE  HandlerTypeOK' /\ DispatchInOrder'
<1>1. /\ UNCHANGED <<functions, reported>>
      /\ caught' = c
      /\ it' = Len(handlers)
  BY DEF Catch
<1>2. CASE c \in StdClasses
  <2>1. handling' = "dispatch" /\ UNCHANGED result
    BY <1>2 DEF Catch
  <2>2. HandlerTypeOK'
    BY <1>1, <1>2, <2>1 DEF HandlerTypeOK
  <2>3. \A j \in Willing' : j <= Len(handlers)
    BY <1>1 DEF Willing, HandlerTypeOK
  <2> QED  BY <1>1, <1>2, <2>1, <2>2, <2>3, NotStd DEF DispatchInOrder, HandledByLatest
<1>3. CASE c = "other"
  <2>1. handling' = "done" /\ result' = Unknown
    BY <1>3, NotStd DEF Catch
  <2>2. HandlerTypeOK'
    BY <1>1, <1>3, <2>1, ResultTypes DEF HandlerTypeOK
  <2> QED  BY <1>1, <1>3, <2>1, <2>2, NotStd DEF DispatchInOrder, HandledByLatest
<1> QED  BY <1>2, <1>3

LEMMA CatchNothingInOrder ==
    ASSUME HandlerTypeOK, caught = "none", CatchNothing
    PROVE  HandlerTypeOK' /\ DispatchInOrder'
<1>1. HandlerTypeOK'
  BY ResultTypes DEF CatchNothing, HandlerTypeOK
<1> QED  BY <1>1, NotStd DEF CatchNothing, DispatchInOrder, HandledByLatest

-------------------------------------------------------------------------------

\* The options a command in commands_ declares.
LEMMA KnownDeclared ==
    ASSUME ConsoleTypeOK, RegisteredLast, command \in DOMAIN commands
    PROVE  /\ \A o \in known :
                 /\ o.name \in LongNames
                 /\ o.defaultValue \in Values \cup {NoDefault}
           /\ \A o, p \in known : o.name = p.name => o = p
<1>1. PICK r \in 1..registered : Registrations[r].options = commands[command]
  BY DEF RegisteredLast
<1>2. r \in DOMAIN Registrations
  BY ConsoleAssumption DEF ConsoleTypeOK
<1> QED  BY <1>1, <1>2, ConsoleAssumption DEF known

\* What an argument is.
LEMMA ArgumentTypes ==
    ASSUME NEW a \in Argument
    PROVE  /\ a.kind \in {"assign", "long", "short"} => a.name \in Names
           /\ a.kind = "flag" => a.name \in {"help", "version"}
           /\ a.kind \in {"plain", "odd"} => a.value \in Values
           /\ a.value \in Values \cup {True}
  BY DEF Argument, Names

LEMMA ArgvTypes ==
    ASSUME ConsoleTypeOK, NEW p \in 1..Len(argv)
    PROVE  /\ argv[p] \in Argument
           /\ Len(argv) \in Nat
           /\ ValueAt(p) \in Values \cup {True}
<1>1. argv[p] \in Argument /\ Len(argv) \in Nat
  BY DEF ConsoleTypeOK
<1>2. p < Len(argv) => argv[p + 1] \in Argument
  BY DEF ConsoleTypeOK
<1> QED  BY <1>1, <1>2, ArgumentTypes DEF ValueAt

\* Only a word is a value, and only behind an option.
LEMMA OnlyWordsAreValues ==
    ASSUME ConsoleTypeOK, NEW p \in Int
    PROVE  IsValue(p) => /\ argv[p].kind = "plain"
                         /\ argv[p - 1].kind \in {"long", "short"}
                         /\ WantsValue(argv[p - 1])
  BY DEF IsValue, WantsValue

\* Where the command and its arguments stay, so does what is said of them.
LEMMA ArgumentsKept ==
    ASSUME UNCHANGED kernelState, NEW p, NEW name
    PROVE  /\ Gives(p, name)' <=> Gives(p, name)
           /\ IsValue(p)' <=> IsValue(p)
           /\ ValueAt(p)' = ValueAt(p)
  BY DEF Gives, IsValue, WantsValue, ValueAt, known

\* The kernel's part of the invariant while it parses.
Parsing ==
    /\ ConsoleTypeOK
    /\ RegisteredLast
    /\ OptionsSoFar
    /\ command \in DOMAIN commands

\* An argument that is no option, as parse passes over it.
LEMMA PassOver ==
    ASSUME Parsing, Reading({"flag", "plain", "odd"}), i' = i + 1, UNCHANGED options
    PROVE  OptionsSoFar'
<1>1. /\ i \in 1..Len(argv)
      /\ UNCHANGED kernelState
      /\ Len(argv) \in Nat
  BY DEF Parsing, Reading, ConsoleTypeOK
<1>2. \A n : ~Gives(i, n)
  BY DEF Reading, Gives
<1>3. ~IsValue(i + 1)
  BY <1>1, OnlyWordsAreValues DEF Parsing, Reading
<1>4. (i <= Len(argv) => ~IsValue(i))'
  BY <1>1, <1>3 DEF IsValue, WantsValue, known
<1>5. ASSUME NEW n \in Names
      PROVE  (IF n \in DOMAIN options THEN GivenLast(n, options[n], i - 1)
              ELSE \A p \in 1..(i - 1) : ~Gives(p, n))'
  <2>1. CASE n \in DOMAIN options
    <3>1. PICK p \in 1..(i - 1) : /\ Gives(p, n)
                                  /\ ValueAt(p) = options[n]
                                  /\ \A q \in (p + 1)..(i - 1) : ~Gives(q, n)
      BY <2>1, <1>5 DEF Parsing, OptionsSoFar, GivenLast
    <3>2. \A q \in (p + 1)..i : ~Gives(q, n)
      BY <1>1, <1>2, <3>1
    <3> QED  BY <1>1, <2>1, <3>1, <3>2, ArgumentsKept DEF GivenLast
  <2>2. CASE n \notin DOMAIN options
    <3>1. \A p \in 1..i : ~Gives(p, n)
      BY <1>1, <1>2, <2>2, <1>5 DEF Parsing, OptionsSoFar
    <3> QED  BY <1>1, <2>2, <3>1, ArgumentsKept
  <2> QED  BY <2>1, <2>2
<1> QED  BY <1>4, <1>5 DEF OptionsSoFar

\* What lies before b lies before a, at a, or between the two.
LEMMA Between ==
    ASSUME NEW a \in Int, NEW b \in Int, a < b, NEW p \in Int,
           NEW q \in p..(b - 1)
    PROVE  q \in p..(a - 1) \/ q = a \/ q \in (a + 1)..(b - 1)
OBVIOUS

\* What a step over an option takes: its argument, and the value behind it.
Taken ==
    /\ i' = i + 1 \/ i' = i + 2
    /\ i' = i + 2 => argv[i + 1].kind = "plain"
    /\ i' - 1 <= Len(argv)
    /\ i' = i + 1 => ~IsValue(i + 1) \/ i = Len(argv)

\* An option, with the value behind it if it has one.
LEMMA TakeOption ==
    ASSUME Parsing, Reading({"assign", "long", "short"}), Taken,
           Insert(argv[i].name, ValueAt(i))
    PROVE  OptionsSoFar'
<1>1. /\ i \in 1..Len(argv)
      /\ UNCHANGED kernelState
      /\ Len(argv) \in Nat
  BY DEF Parsing, Reading, ConsoleTypeOK
<1>2. i' = i + 1 \/ i' = i + 2
  BY DEF Taken
<1>3. i \in Nat \ {0}
  BY <1>1
<1>4. /\ i \in Int /\ i' \in Int /\ 1 \in Int /\ i < i'
      /\ i \in 1..(i' - 1)
  BY <1>2, <1>3
<1>5. \A n : Gives(i, n) <=> n = argv[i].name
  BY DEF Reading, Gives
<1>6. \A q \in (i + 1)..(i' - 1) : \A n : ~Gives(q, n)
  <2> TAKE q \in (i + 1)..(i' - 1)
  <2>1. i' = i + 2
    BY <1>2, <1>3
  <2>2. q = i + 1
    BY <1>3, <2>1
  <2>3. argv[i + 1].kind = "plain"
    BY <2>1 DEF Taken
  <2> QED  BY <2>2, <2>3 DEF Gives
<1>7. \/ i' = i + 1 /\ ~IsValue(i + 1)
      \/ i' = i + 2 /\ ~IsValue(i + 2)
      \/ i' > Len(argv)
  <2>1. i' = i + 2 => ~IsValue(i + 2)
    BY <1>1, OnlyWordsAreValues DEF Parsing, Taken
  <2> QED  BY <1>1, <1>2, <2>1 DEF Taken
<1>8. (i <= Len(argv) => ~IsValue(i))'
  <2>1. argv' = argv /\ \A n : (IsValue(n) <=> IsValue(n)')
    BY <1>1 DEF IsValue, WantsValue, known
  <2>2. i' \in Int /\ (i' <= Len(argv) => ~IsValue(i'))
    BY <1>4, <1>1, <1>7
  <2> QED  BY <2>1, <2>2 DEF IsValue, WantsValue, known
<1>9. ASSUME NEW n \in Names
      PROVE  (IF n \in DOMAIN options THEN GivenLast(n, options[n], i - 1)
              ELSE \A p \in 1..(i - 1) : ~Gives(p, n))'
  <2>1. CASE n = argv[i].name
    <3>1. n \in DOMAIN options' /\ options'[n] = ValueAt(i)
      BY <2>1 DEF Insert, With
    <3>2. /\ i \in 1..(i' - 1)
          /\ Gives(i, n)
          /\ \A q \in (i + 1)..(i' - 1) : ~Gives(q, n)
      BY <1>4, <1>5, <1>6, <2>1
    <3> QED  BY <1>1, <3>1, <3>2, ArgumentsKept DEF GivenLast
  <2>2. CASE n # argv[i].name
    <3>1. /\ n \in DOMAIN options' <=> n \in DOMAIN options
          /\ n \in DOMAIN options => options'[n] = options[n]
      BY <2>2 DEF Insert, With
    <3>2. ~Gives(i, n) /\ \A q \in (i + 1)..(i' - 1) : ~Gives(q, n)
      BY <1>5, <1>6, <2>2
    <3>3. CASE n \in DOMAIN options
      <4>1. PICK p \in 1..(i - 1) : /\ Gives(p, n)
                                    /\ ValueAt(p) = options[n]
                                    /\ \A q \in (p + 1)..(i - 1) : ~Gives(q, n)
        BY <3>3, <1>9 DEF Parsing, OptionsSoFar, GivenLast
      <4>2. p \in 1..(i' - 1) /\ p + 1 \in Int
        <5>1. p \in Int /\ p >= 1 /\ p < i
          BY <1>3
        <5>2. p \in 1..(i' - 1)
          BY <1>2, <1>3, <5>1
        <5> QED  BY <5>1, <5>2
      <4>3. ASSUME NEW q \in (p + 1)..(i' - 1) PROVE ~Gives(q, n)
        <5>1. q \in (p + 1)..(i - 1) \/ q = i \/ q \in (i + 1)..(i' - 1)
          BY <1>4, <4>2, Between
        <5> QED  BY <3>2, <4>1, <5>1
      <4> QED  BY <1>1, <3>1, <3>3, <4>1, <4>2, <4>3, ArgumentsKept DEF GivenLast
    <3>4. CASE n \notin DOMAIN options
      <4>1. \A p \in 1..(i - 1) : ~Gives(p, n)
        BY <3>4, <1>9 DEF Parsing, OptionsSoFar
      <4>2. ASSUME NEW q \in 1..(i' - 1) PROVE ~Gives(q, n)
        <5>1. q \in 1..(i - 1) \/ q = i \/ q \in (i + 1)..(i' - 1)
          BY <1>4, Between
        <5> QED  BY <3>2, <4>1, <5>1
      <4> QED  BY <1>1, <3>1, <3>4, <4>2, ArgumentsKept
    <3> QED  BY <3>3, <3>4
  <2> QED  BY <2>1, <2>2
<1> QED  BY <1>8, <1>9 DEF OptionsSoFar

-------------------------------------------------------------------------------

ConsoleInOrder == ConsoleTypeOK /\ KernelInOrder

\* What AbortIsExplained and CommandGetsOptions speak of stays with the command
\* and its arguments.
LEMMA MeaningKept ==
    ASSUME UNCHANGED kernelState
    PROVE  /\ Declared' = Declared
           /\ \A o : Meant(o)' = Meant(o)
  BY DEF Declared, Meant, Given, Gives, ValueAt, IsValue, WantsValue, known

LEMMA RegisterInOrder ==
    ASSUME ConsoleInOrder, Register
    PROVE  ConsoleInOrder'
<1> DEFINE new == Registrations[registered + 1]
<1>1. /\ kernel = "registering" /\ kernel' = kernel
      /\ registered \in 0..Len(Registrations)
      /\ registered' = registered + 1
      /\ registered' \in 1..Len(Registrations)
      /\ commands' = With(commands, new.name, new.options)
      /\ read = NotRead
      /\ UNCHANGED <<command, argv, parse, read, returned>>
  BY ConsoleAssumption DEF Register, ConsoleInOrder, ConsoleTypeOK, KernelInOrder
<1>2. DOMAIN commands' = DOMAIN commands \cup {new.name}
  BY <1>1 DEF With
<1>3. ConsoleTypeOK'
  BY <1>1, <1>2 DEF ConsoleInOrder, ConsoleTypeOK
<1>4. RegisteredLast'
  <2> SUFFICES ASSUME NEW name \in DOMAIN commands'
               PROVE  \E r \in 1..registered' :
                         /\ Registrations[r].name = name
                         /\ Registrations[r].options = commands'[name]
                         /\ \A s \in (r + 1)..registered' : Registrations[s].name # name
    BY DEF RegisteredLast
  <2>1. CASE name = new.name
    <3>1. commands'[name] = new.options
      BY <1>1, <2>1 DEF With
    <3> QED  BY <1>1, <2>1, <3>1
  <2>2. CASE name # new.name
    <3>1. name \in DOMAIN commands /\ commands'[name] = commands[name]
      BY <1>1, <1>2, <2>2 DEF With
    <3>2. PICK r \in 1..registered :
                 /\ Registrations[r].name = name
                 /\ Registrations[r].options = commands[name]
                 /\ \A s \in (r + 1)..registered : Registrations[s].name # name
      BY <3>1 DEF ConsoleInOrder, KernelInOrder, RegisteredLast
    <3>3. ASSUME NEW s \in (r + 1)..registered'
          PROVE  Registrations[s].name # name
      <4>1. s \in (r + 1)..registered \/ s = registered + 1
        BY <1>1, <3>2, <3>3
      <4> QED  BY <2>2, <3>2, <4>1
    <3> QED  BY <1>1, <3>1, <3>2, <3>3
  <2> QED  BY <2>1, <2>2
<1>5. CommandGetsOptions' /\ AbortIsExplained'
  BY <1>1 DEF CommandGetsOptions, AbortIsExplained, NotRead
<1> QED  BY <1>1, <1>3, <1>4, <1>5 DEF ConsoleInOrder, KernelInOrder

LEMMA HandleInOrder ==
    ASSUME ConsoleInOrder, Handle
    PROVE  ConsoleInOrder'
<1>1. /\ kernel = "registering"
      /\ registered = Len(Registrations)
      /\ i = 1 /\ options = << >>
      /\ read = NotRead
      /\ ConsoleTypeOK
      /\ RegisteredLast
  BY DEF Handle, ConsoleInOrder, KernelInOrder
<1>2. ASSUME NEW first, HandleNoCommand(first)
      PROVE  ConsoleInOrder'
  <2>1. ConsoleTypeOK'
    BY <1>1, <1>2 DEF HandleNoCommand, HandleReturns, ConsoleTypeOK
  <2> QED  BY <1>1, <1>2, <2>1
           DEF HandleNoCommand, HandleReturns, ConsoleInOrder, KernelInOrder, RegisteredLast,
               CommandGetsOptions, AbortIsExplained, NotRead
<1>3. ASSUME NEW name \in DOMAIN commands, NEW n \in 0..MaxArgs,
             NEW args \in [1..n -> Argument], HandleCommand(name, args)
      PROVE  ConsoleInOrder'
  <2>1. args \in Seq(Argument) /\ Len(args) \in Nat
    BY <1>3, ConsoleAssumption
  <2>2. /\ UNCHANGED <<registered, commands, parse, read, returned>>
        /\ command' = name /\ argv' = args /\ kernel' = "parsing"
    BY <1>3 DEF HandleCommand
  <2>3. ConsoleTypeOK'
    BY <1>1, <2>1, <2>2 DEF ConsoleTypeOK
  <2>4. OptionsSoFar'
    BY <1>1, <2>2 DEF OptionsSoFar, IsValue
  <2>5. CommandGetsOptions' /\ AbortIsExplained'
    BY <1>1, <2>2 DEF CommandGetsOptions, AbortIsExplained, NotRead
  <2>6. RegisteredLast'
    BY <1>1, <2>2 DEF RegisteredLast
  <2> QED  BY <1>1, <2>2, <2>3, <2>4, <2>5, <2>6 DEF ConsoleInOrder, KernelInOrder
<1> QED  BY <1>2, <1>3 DEF Handle

\* parse, an argument at a time.
LEMMA ParseInOrder ==
    ASSUME ConsoleInOrder, ParseStep
    PROVE  ConsoleInOrder'
<1>1. /\ kernel = "parsing" /\ kernel' = kernel
      /\ UNCHANGED <<kernelState, read, returned>>
      /\ i \in 1..Len(argv)
      /\ Len(argv) \in Nat
  BY DEF ParseStep, ReadFlag, ReadAssign, ReadWithValue, ReadWithoutValue, ReadPositional,
         Reading, ConsoleInOrder, ConsoleTypeOK
<1>2. /\ Parsing
      /\ read = NotRead
      /\ registered = Len(Registrations)
  BY <1>1 DEF ConsoleInOrder, KernelInOrder, Parsing
<1>3. /\ argv[i] \in Argument
      /\ ValueAt(i) \in Values \cup {True}
  BY <1>1, ArgvTypes DEF ConsoleInOrder
<1>4. ASSUME ConsoleTypeOK', OptionsSoFar'
      PROVE  ConsoleInOrder'
  <2>1. RegisteredLast'
    BY <1>1, <1>2 DEF Parsing, RegisteredLast
  <2>2. CommandGetsOptions' /\ AbortIsExplained'
    BY <1>1, <1>2 DEF CommandGetsOptions, AbortIsExplained, NotRead
  <2> QED  BY <1>1, <1>2, <1>4, <2>1, <2>2 DEF ConsoleInOrder, KernelInOrder, Parsing
<1>5. CASE ReadFlag
  <2>1. argv[i].name \in {"help", "version"}
    BY <1>3, <1>5, ArgumentTypes DEF ReadFlag, Reading
  <2>2. ConsoleTypeOK'
    <3>1. flags' \subseteq {"help", "version"}
      BY <1>5, <2>1 DEF ReadFlag, ConsoleInOrder, ConsoleTypeOK
    <3>2. i' = i + 1 /\ UNCHANGED <<options, positional>>
      BY <1>5 DEF ReadFlag
    <3> QED  BY <1>1, <3>1, <3>2 DEF ConsoleInOrder, ConsoleTypeOK
  <2>3. Reading({"flag", "plain", "odd"}) /\ i' = i + 1 /\ UNCHANGED options
    BY <1>5 DEF ReadFlag, Reading
  <2> QED  BY <1>2, <1>4, <2>2, <2>3, PassOver
<1>6. CASE ReadPositional
  <2>1. argv[i].value \in Values
    BY <1>3, <1>6, ArgumentTypes DEF ReadPositional, Reading
  <2>2. ConsoleTypeOK'
    BY <1>1, <1>6, <2>1 DEF ReadPositional, ConsoleInOrder, ConsoleTypeOK
  <2>3. Reading({"flag", "plain", "odd"}) /\ i' = i + 1 /\ UNCHANGED options
    BY <1>6 DEF ReadPositional, Reading
  <2> QED  BY <1>2, <1>4, <2>2, <2>3, PassOver
<1>7. ASSUME Reading({"assign", "long", "short"}), UNCHANGED <<positional, flags>>,
             Taken, Insert(argv[i].name, ValueAt(i))
      PROVE  ConsoleInOrder'
  <2>1. argv[i].name \in Names
    BY <1>3, <1>7, ArgumentTypes DEF Reading
  <2>2. /\ DOMAIN options' = DOMAIN options \cup {argv[i].name}
        /\ \A n \in DOMAIN options' : options'[n] \in {options[n], ValueAt(i)}
        /\ \A n \in DOMAIN options' : n \in DOMAIN options \/ options'[n] = ValueAt(i)
    BY <1>7 DEF Insert, With
  <2>3. \A n \in DOMAIN options' : options'[n] \in Values \cup {True}
    BY <1>3, <2>2 DEF ConsoleInOrder, ConsoleTypeOK
  <2>4. i' \in 1..(Len(argv) + 1)
    BY <1>1, <1>7 DEF Taken
  <2>5. ConsoleTypeOK'
    BY <1>1, <1>7, <2>1, <2>2, <2>3, <2>4 DEF ConsoleInOrder, ConsoleTypeOK
  <2>6. OptionsSoFar'
    BY <1>2, <1>7, TakeOption
  <2> QED  BY <1>4, <2>5, <2>6
<1>8. CASE ReadAssign
  <2>1. ~IsValue(i + 1)
    BY <1>1, <1>8, OnlyWordsAreValues DEF ReadAssign, Reading, ConsoleInOrder
  <2>2. ValueAt(i) = argv[i].value
    BY <2>1 DEF ValueAt
  <2>3. Taken
    BY <1>1, <1>8, <2>1 DEF ReadAssign, Taken
  <2> QED  BY <1>7, <1>8, <2>2, <2>3 DEF ReadAssign, Reading
<1>9. CASE ReadWithValue
  <2>1. IsValue(i + 1)
    BY <1>1, <1>9 DEF ReadWithValue, ValueFollows, IsValue
  <2>2. ValueAt(i) = argv[i + 1].value
    BY <1>9, <2>1 DEF ReadWithValue, ValueFollows, ValueAt
  <2>3. Taken
    BY <1>1, <1>9 DEF ReadWithValue, ValueFollows, Taken
  <2> QED  BY <1>7, <1>9, <2>2, <2>3 DEF ReadWithValue, Reading
<1>10. CASE ReadWithoutValue
  <2>1. ~IsValue(i + 1) \/ i = Len(argv)
    BY <1>1, <1>10 DEF ReadWithoutValue, ValueFollows, IsValue
  <2>2. ValueAt(i) = argv[i].value
    BY <1>1, <2>1 DEF ValueAt
  <2>3. argv[i].value = True
    BY <1>3, <1>10 DEF ReadWithoutValue, Reading, Argument
  <2>4. Taken
    BY <1>1, <1>10, <2>1 DEF ReadWithoutValue, Taken
  <2> QED  BY <1>7, <1>10, <2>2, <2>3, <2>4 DEF ReadWithoutValue, Reading
<1> QED  BY <1>5, <1>6, <1>8, <1>9, <1>10 DEF ParseStep

\* The command in force is the one Declared finds.
LEMMA DeclaredIsKnown ==
    ASSUME ConsoleInOrder, kernel # "registering", command \in DOMAIN commands
    PROVE  Declared = known
<1> DEFINE same == {r \in DOMAIN Registrations : Registrations[r].name = command}
<1>1. PICK r \in 1..registered :
             /\ Registrations[r].name = command
             /\ Registrations[r].options = commands[command]
             /\ \A s \in (r + 1)..registered : Registrations[s].name # command
  BY DEF ConsoleInOrder, KernelInOrder, RegisteredLast
<1>2. registered = Len(Registrations)
  BY DEF ConsoleInOrder, KernelInOrder
<1>3. r \in same /\ same \subseteq Int
  BY <1>1, <1>2, ConsoleAssumption
<1>4. \A s \in same : s <= r
  <2> TAKE s \in same
  <2>1. s \in (r + 1)..registered \/ s <= r
    BY <1>1, <1>2, ConsoleAssumption
  <2> QED  BY <1>1, <2>1
<1>5. Max(same) = r
  BY <1>3, <1>4, MaxOf
<1> QED  BY <1>1, <1>5 DEF Declared, known

\* What the options hold when every argument is read is what the user meant.
LEMMA AllRead ==
    ASSUME ConsoleTypeOK, OptionsSoFar, i > Len(argv), NEW name \in Names
    PROVE  /\ name \in DOMAIN options <=> Given(name) # {}
           /\ name \in DOMAIN options =>
                 options[name] = ValueAt(CHOOSE p \in Given(name) :
                                            \A q \in Given(name) : q <= p)
<1>1. /\ i - 1 = Len(argv)
      /\ DOMAIN argv = 1..Len(argv)
      /\ Len(argv) \in Nat
  BY DEF ConsoleTypeOK
<1>2. CASE name \in DOMAIN options
  <2>1. PICK p \in 1..Len(argv) : /\ Gives(p, name)
                                  /\ ValueAt(p) = options[name]
                                  /\ \A q \in (p + 1)..Len(argv) : ~Gives(q, name)
    BY <1>1, <1>2 DEF OptionsSoFar, GivenLast
  <2> DEFINE Latest(x) == x \in Given(name) /\ \A q \in Given(name) : q <= x
  <2>2. p \in Given(name) /\ Given(name) \subseteq Int
    BY <1>1, <2>1 DEF Given
  <2>3. \A q \in Given(name) : q <= p
    <3> TAKE q \in Given(name)
    <3>1. q \in (p + 1)..Len(argv) \/ q <= p
      BY <1>1, <2>1 DEF Given
    <3> QED  BY <2>1, <3>1 DEF Given
  <2>4. \A x : Latest(x) => x = p
    BY <2>2, <2>3
  <2>5. (CHOOSE x \in Given(name) : \A q \in Given(name) : q <= x) = p
    BY <2>2, <2>3, <2>4
  <2> QED  BY <1>2, <2>1, <2>2, <2>5
<1>3. CASE name \notin DOMAIN options
  <2>1. Given(name) = {}
    BY <1>1, <1>3 DEF OptionsSoFar, Given
  <2> QED  BY <1>3, <2>1
<1> QED  BY <1>2, <1>3

\* After the defaults are filled in, the command finds what was meant.
LEMMA ExecuteFinds ==
    ASSUME ConsoleInOrder, Execute
    PROVE  /\ DOMAIN options' \subseteq Names
           /\ \A n \in DOMAIN options' : options'[n] \in Values \cup {True}
           /\ CommandGetsOptions'
<1>1. /\ kernel = "parsing" /\ i > Len(argv)
      /\ kernel' = "executing"
      /\ UNCHANGED kernelState
      /\ options' = FillDefaults
  BY DEF Execute, Parsed
<1>2. /\ ConsoleTypeOK /\ RegisteredLast /\ OptionsSoFar
      /\ command \in DOMAIN commands
  BY <1>1 DEF ConsoleInOrder, KernelInOrder
<1>3. /\ \A o \in known : o.name \in LongNames /\ o.defaultValue \in Values \cup {NoDefault}
      /\ \A o, p \in known : o.name = p.name => o = p
  BY <1>2, KnownDeclared
<1>4. \A o \in known : DefaultOf(o.name) = o.defaultValue
  <2> TAKE o \in known
  <2>1. (CHOOSE p \in known : p.name = o.name) = o
    BY <1>3
  <2> QED  BY <2>1 DEF DefaultOf
<1>5. Missing \subseteq known
  BY DEF Missing
<1>6. DOMAIN options' = DOMAIN options \cup {o.name : o \in Missing}
  BY <1>1 DEF FillDefaults
<1>7. \A n \in DOMAIN options' :
         IF n \in DOMAIN options THEN options'[n] = options[n]
         ELSE \E o \in Missing : n = o.name /\ options'[n] = o.defaultValue
  <2> TAKE n \in DOMAIN options'
  <2>1. options'[n] = IF n \in DOMAIN options THEN options[n] ELSE DefaultOf(n)
    BY <1>1 DEF FillDefaults
  <2>2. n \in DOMAIN options \/ \E o \in Missing : n = o.name
    BY <1>6
  <2> QED  BY <1>4, <1>5, <2>1, <2>2
<1>8. \A o \in Missing : o.defaultValue \in Values
  BY <1>3 DEF Missing
<1>9. DOMAIN options' \subseteq Names
  BY <1>2, <1>3, <1>5, <1>6 DEF ConsoleTypeOK, Names
<1>10. \A n \in DOMAIN options' : options'[n] \in Values \cup {True}
  BY <1>2, <1>7, <1>8 DEF ConsoleTypeOK
<1>11. ASSUME NEW o \in known
       PROVE  /\ o.name \in DOMAIN options' <=> Meant(o) # NoDefault
              /\ o.name \in DOMAIN options' => options'[o.name] = Meant(o)
  <2>1. o.name \in Names
    BY <1>3 DEF Names
  <2>2. CASE o.name \in DOMAIN options
    <3>1. Meant(o) = options[o.name]
      BY <1>1, <1>2, <2>1, <2>2, AllRead DEF Meant
    <3>2. options[o.name] \in Values \cup {True}
      BY <1>2, <2>2 DEF ConsoleTypeOK
    <3>3. Meant(o) # NoDefault
      BY <3>1, <3>2, ConsoleAssumption
    <3> QED  BY <1>6, <1>7, <2>2, <3>1, <3>3
  <2>3. CASE o.name \notin DOMAIN options
    <3>1. Meant(o) = o.defaultValue
      BY <1>1, <1>2, <2>1, <2>3, AllRead DEF Meant
    <3>2. \A p \in Missing : p.name = o.name => p = o
      BY <1>3, <1>5
    <3>3. o \in Missing <=> o.defaultValue # NoDefault
      BY <2>3 DEF Missing
    <3>4. o.name \in DOMAIN options' <=> o \in Missing
      BY <1>6, <2>3, <3>2
    <3> QED  BY <1>7, <2>3, <3>1, <3>2, <3>3, <3>4
  <2> QED  BY <2>2, <2>3
<1>12. Declared = known
  BY <1>1, <1>2, DeclaredIsKnown
<1>13. CommandGetsOptions'
  BY <1>1, <1>11, <1>12, MeaningKept DEF CommandGetsOptions
<1> QED  BY <1>9, <1>10, <1>13

LEMMA ExecuteInOrder ==
    ASSUME ConsoleInOrder, Execute
    PROVE  ConsoleInOrder'
<1>1. /\ kernel = "parsing"
      /\ kernel' = "executing"
      /\ UNCHANGED <<kernelState, i, positional, flags, read, returned>>
  BY DEF Execute, Parsed
<1>2. ConsoleTypeOK'
  BY <1>1, ExecuteFinds DEF ConsoleInOrder, ConsoleTypeOK
<1>3. RegisteredLast'
  BY <1>1 DEF ConsoleInOrder, KernelInOrder, RegisteredLast
<1>4. AbortIsExplained'
  BY <1>1 DEF ConsoleInOrder, KernelInOrder, AbortIsExplained, NotRead
<1> QED  BY <1>1, <1>2, <1>3, <1>4, ExecuteFinds DEF ConsoleInOrder, KernelInOrder

LEMMA ReadOptionInOrder ==
    ASSUME ConsoleInOrder, kernel = "executing", NEW o \in known,
           NEW as \in {"text", "number", "bool", "string"}, ReadOption(o.name, as)
    PROVE  ConsoleInOrder'
<1>1. /\ UNCHANGED <<kernelState, parse, returned>>
      /\ command \in DOMAIN commands
      /\ ConsoleTypeOK /\ RegisteredLast /\ CommandGetsOptions
      /\ registered = Len(Registrations)
  BY DEF ReadOption, ConsoleInOrder, KernelInOrder
<1>2. /\ read'.name = o.name
      /\ read'.as = as
      /\ read'.value \in Values \cup {True, "false", Fallback}
      /\ kernel' = IF o.name \in DOMAIN options /\ as = "number" /\ options[o.name] \notin Numbers
                   THEN "aborted" ELSE "executing"
  <2>1. CASE o.name \in DOMAIN options
    <3>1. Converted(as, options[o.name]) \in {options[o.name], True, "false", Fallback}
      BY DEF Converted
    <3>2. options[o.name] \in Values \cup {True}
      BY <1>1, <2>1 DEF ConsoleTypeOK
    <3>3. /\ read' = [name |-> o.name, as |-> as, value |-> Converted(as, options[o.name])]
          /\ kernel' = IF as = "number" /\ options[o.name] \notin Numbers
                       THEN "aborted" ELSE kernel
      BY <2>1 DEF ReadOption
    <3> QED  BY <2>1, <3>1, <3>2, <3>3
  <2>2. CASE o.name \notin DOMAIN options
    <3>1. /\ read' = [name |-> o.name, as |-> as, value |-> Fallback]
          /\ kernel' = kernel
      BY <2>2 DEF ReadOption
    <3> QED  BY <2>2, <3>1
  <2> QED  BY <2>1, <2>2
<1>3. ConsoleTypeOK'
  BY <1>1, <1>2 DEF ConsoleTypeOK
<1>4. RegisteredLast'
  BY <1>1 DEF RegisteredLast
<1>5. Declared = known
  BY <1>1, DeclaredIsKnown
<1>6. Declared' = Declared /\ \A p : Meant(p)' = Meant(p)
  BY <1>1, MeaningKept
<1>7. CommandGetsOptions'
  BY <1>1, <1>6 DEF CommandGetsOptions
<1>8. AbortIsExplained'
  <2> SUFFICES ASSUME as = "number", NEW p \in known, p.name = o.name
               PROVE  kernel' = "aborted" <=> Meant(p) \notin Numbers \cup {NoDefault}
    BY <1>2, <1>5, <1>6 DEF AbortIsExplained
  <2>1. p = o
    BY <1>1, KnownDeclared
  <2>2. /\ o.name \in DOMAIN options <=> Meant(o) # NoDefault
        /\ o.name \in DOMAIN options => options[o.name] = Meant(o)
    BY <1>1, <1>5 DEF CommandGetsOptions
  <2> QED  BY <1>2, <2>1, <2>2
<1> QED  BY <1>1, <1>2, <1>3, <1>4, <1>7, <1>8 DEF ConsoleInOrder, KernelInOrder

\* The steps that end handle.
LEMMA LeaveInOrder ==
    ASSUME ConsoleInOrder, kernel \in {"parsing", "executing"},
           kernel' \in {"returned", "failed", "escaped"}, returned' \in {0, 1},
           UNCHANGED <<kernelState, parse, read>>
    PROVE  ConsoleInOrder'
<1>1. ConsoleTypeOK'
  BY DEF ConsoleInOrder, ConsoleTypeOK
<1>2. RegisteredLast'
  BY DEF ConsoleInOrder, KernelInOrder, RegisteredLast
<1>3. AbortIsExplained'
  <2>1. AbortIsExplained
    BY DEF ConsoleInOrder, KernelInOrder
  <2> QED  BY <2>1, MeaningKept DEF AbortIsExplained
<1> QED  BY <1>1, <1>2, <1>3 DEF ConsoleInOrder, KernelInOrder, CommandGetsOptions

LEMMA ConsoleStepInOrder ==
    ASSUME ConsoleInOrder, ConsoleStep
    PROVE  ConsoleInOrder'
<1>1. CASE Register
  BY <1>1, RegisterInOrder
<1>2. CASE Handle
  BY <1>2, HandleInOrder
<1>3. CASE ParseStep
  BY <1>3, ParseInOrder
<1>4. CASE PrintHelpOrVersion
  BY <1>4, LeaveInOrder DEF PrintHelpOrVersion, Parsed, HandleReturns
<1>5. CASE Execute
  BY <1>5, ExecuteInOrder
<1>6. CASE ExecuteStep
  <2>1. CASE \E o \in known, as \in {"text", "number", "bool", "string"} :
                ReadOption(o.name, as)
    BY <1>6, <2>1, ReadOptionInOrder DEF ExecuteStep
  <2>2. CASE (\E code \in {0, 1} : Return(code)) \/ ThrowStd
    BY <1>6, <2>2, LeaveInOrder DEF ExecuteStep, Return, HandleReturns, ThrowStd
  <2>3. CASE ThrowOther
    <3>1. returned' \in {0, 1}
      BY <2>3 DEF ThrowOther, ConsoleInOrder, ConsoleTypeOK
    <3> QED  BY <1>6, <2>3, <3>1, LeaveInOrder DEF ExecuteStep, ThrowOther
  <2> QED  BY <1>6, <2>1, <2>2, <2>3 DEF ExecuteStep
<1> QED  BY <1>1, <1>2, <1>3, <1>4, <1>5, <1>6 DEF ConsoleStep

LEMMA ConsoleKept ==
    ASSUME ConsoleInOrder, UNCHANGED console
    PROVE  ConsoleInOrder'
<1>1. ConsoleTypeOK' /\ RegisteredLast'
  BY DEF ConsoleInOrder, KernelInOrder, ConsoleTypeOK, RegisteredLast
<1>2. OptionsSoFar' <=> OptionsSoFar
  BY DEF OptionsSoFar, GivenLast, IsValue, ValueAt, Gives, WantsValue, known
<1>3. CommandGetsOptions' /\ AbortIsExplained'
  BY MeaningKept DEF ConsoleInOrder, KernelInOrder, CommandGetsOptions, AbortIsExplained
<1> QED  BY <1>1, <1>2, <1>3 DEF ConsoleInOrder, KernelInOrder

-------------------------------------------------------------------------------

LEMMA InitInv == Init => IInv
<1> SUFFICES ASSUME Init
             PROVE  IInv
  OBVIOUS
<1>1. HandlerTypeOK
  <2>1. Ok \in Results
    BY ResultTypes
  <2>2. handlers \in Seq(Function)
    BY DEF Init, InitHandler
  <2> QED  BY <2>1, <2>2 DEF Init, InitHandler, HandlerTypeOK
<1>2. DispatchInOrder
  BY NotStd DEF Init, InitHandler, DispatchInOrder, HandledByLatest
<1>3. ConsoleTypeOK
  BY ConsoleAssumption DEF Init, InitConsole, ConsoleTypeOK, NotRead
<1>4. KernelInOrder
  BY DEF Init, InitConsole, KernelInOrder, RegisteredLast, NotRead, CommandGetsOptions,
         AbortIsExplained
<1> QED  BY <1>1, <1>2, <1>3, <1>4 DEF Init, InitHandler, InitConsole, IInv, TypeOK, StagesAgree

\* The parts of the invariant, each kept by what does not touch its variables.
LEMMA HandlerKept ==
    ASSUME HandlerTypeOK, DispatchInOrder, UNCHANGED <<functions, handleState>>
    PROVE  HandlerTypeOK' /\ DispatchInOrder'
  BY DEF HandlerTypeOK, DispatchInOrder, HandledByLatest, Willing, Decides, Accepts, Added

\* Functions are added before there is anything to handle.
LEMMA AddedInOrder ==
    ASSUME HandlerTypeOK, handling = "no", caught = "none", ~reported,
           handlers' \in Seq(Function), anyHandler' \in Function \cup {NoFunction},
           unhandledHandler' \in {"report", "returns", "throws", "none"},
           UNCHANGED handleState
    PROVE  HandlerTypeOK' /\ DispatchInOrder'
<1>1. HandlerTypeOK'
  BY DEF HandlerTypeOK
<1>2. DispatchInOrder'
  BY NotStd DEF DispatchInOrder, HandledByLatest
<1> QED  BY <1>1, <1>2

LEMMA MainFunctions == MainHandlers \in Seq(Function) /\ MainAny \in Function
  BY DEF MainHandlers, MainAny, Function, Fail, Results, StdClasses, Base

\* An exception is given to handle, in whatever stage.
LEMMA CaughtInOrder ==
    ASSUME IInv,
           \/ kernel = "registering" /\ \E c \in Thrown : Catch(c)
           \/ kernel = "escaped" /\ Catch("other"),
           stage \in {"adding", "starting", "console"}, stage' = "catching",
           UNCHANGED <<exitCode, console>>
    PROVE  IInv'
<1> PICK c \in StdClasses \cup {"other"} :
             /\ Catch(c)
             /\ kernel = "registering" \/ (kernel = "escaped" /\ c = "other")
  BY ProgramAssumption DEF Catch
<1>1. HandlerTypeOK /\ DispatchInOrder /\ ConsoleInOrder /\ StagesAgree /\ exitCode \in Int
  BY DEF IInv, TypeOK, ConsoleInOrder
<1>2. handling = "no" /\ ~reported
  BY <1>1 DEF StagesAgree
<1>3. HandlerTypeOK' /\ DispatchInOrder'
  BY <1>1, <1>2, CatchInOrder
<1>4. handling' \in {"dispatch", "done"} /\ caught' = c
  BY DEF Catch
<1>5. StagesAgree'
  BY <1>1, <1>4 DEF StagesAgree
<1> QED  BY <1>1, <1>3, <1>5, ConsoleKept DEF IInv, TypeOK, ConsoleInOrder

LEMMA NextInv == IInv /\ [Next]_vars => IInv'
<1> SUFFICES ASSUME IInv, [Next]_vars
             PROVE  IInv'
  OBVIOUS
<1> USE DEF TypeOK
<1>1. HandlerTypeOK /\ DispatchInOrder /\ ConsoleInOrder /\ StagesAgree
  BY DEF IInv, ConsoleInOrder
<1>2. ASSUME HandlerTypeOK', DispatchInOrder', ConsoleInOrder', StagesAgree',
             stage' \in {"adding", "starting", "console", "catching", "ended"},
             exitCode' \in Int
      PROVE  IInv'
  BY <1>2 DEF IInv, ConsoleInOrder
<1>3. /\ stage \in {"adding", "starting", "console", "catching", "ended"}
      /\ exitCode \in Int
      /\ result.exitCode \in Int
      /\ returned \in Int
  BY DEF IInv, HandlerTypeOK, Results, ConsoleTypeOK
<1>4. CASE AddFunction
  <2>1. handling = "no" /\ caught = "none" /\ ~reported
    BY <1>1, <1>4 DEF AddFunction, StagesAgree
  <2>2. /\ handlers' \in Seq(Function)
        /\ anyHandler' \in Function \cup {NoFunction}
        /\ unhandledHandler' \in {"report", "returns", "throws", "none"}
        /\ UNCHANGED handleState
    BY <1>1, <1>4, ProgramAssumption DEF AddFunction, On, OnAny, OnUnhandled, HandlerTypeOK
  <2>3. HandlerTypeOK' /\ DispatchInOrder'
    BY <1>1, <2>1, <2>2, AddedInOrder
  <2>4. UNCHANGED <<program, console>>
    BY <1>4 DEF AddFunction
  <2>5. stage = "adding"
    BY <1>4 DEF AddFunction
  <2>6. StagesAgree'
    BY <1>1, <2>2, <2>4, <2>5 DEF StagesAgree
  <2> QED  BY <1>1, <1>2, <1>3, <2>3, <2>4, <2>6, ConsoleKept
<1>5. CASE AddMainHandlers
  <2>1. handling = "no" /\ caught = "none" /\ ~reported
    BY <1>1, <1>5 DEF AddMainHandlers, StagesAgree
  <2>2. /\ handlers' \in Seq(Function)
        /\ anyHandler' \in Function
        /\ unhandledHandler' = unhandledHandler
        /\ UNCHANGED handleState
    BY <1>5, MainFunctions DEF AddMainHandlers
  <2>3. HandlerTypeOK' /\ DispatchInOrder'
    <3>1. unhandledHandler \in {"report", "returns", "throws", "none"}
      BY <1>1 DEF HandlerTypeOK
    <3> QED  BY <1>1, <2>1, <2>2, <3>1, AddedInOrder
  <2>4. StagesAgree'
    BY <1>1, <1>5 DEF AddMainHandlers, StagesAgree
  <2> QED  BY <1>1, <1>2, <1>3, <1>5, <2>3, <2>4, ConsoleKept DEF AddMainHandlers
<1>6. CASE StartUp
  <2>1. StagesAgree'
    BY <1>1, <1>6 DEF StartUp, StagesAgree
  <2> QED  BY <1>1, <1>2, <1>3, <1>6, <2>1, ConsoleKept, HandlerKept DEF StartUp
<1>8. CASE StartUpThrows
  <2>1. kernel = "registering"
    BY <1>1, <1>8 DEF StartUpThrows, StagesAgree
  <2> QED  BY <1>8, <2>1, CaughtInOrder DEF StartUpThrows
<1>9. CASE UseConsole
  <2>1. ConsoleInOrder'
    BY <1>1, <1>9, ConsoleStepInOrder DEF UseConsole
  <2>2. /\ stage = "console"
        /\ UNCHANGED <<program, functions, handleState>>
    BY <1>9 DEF UseConsole
  <2>3. kernel' = "failed" => returned' = 1
    BY <1>9 DEF UseConsole, ConsoleStep, Register, Handle, HandleNoCommand, HandleReturns,
                HandleCommand, ParseStep, ReadFlag, ReadAssign, ReadWithValue,
                ReadWithoutValue, ReadPositional, Reading, PrintHelpOrVersion, Execute,
                ExecuteStep, ReadOption, Return, ThrowStd, ThrowOther, Parsed
  <2>4. StagesAgree'
    BY <1>1, <2>2, <2>3 DEF StagesAgree
  <2> QED  BY <1>1, <1>2, <1>3, <2>1, <2>2, <2>4, HandlerKept
<1>10. CASE Exit
  <2>1. StagesAgree'
    BY <1>1, <1>10 DEF Exit, StagesAgree
  <2> QED  BY <1>1, <1>2, <1>3, <1>10, <2>1, ConsoleKept, HandlerKept DEF Exit
<1>11. CASE Escape
  BY <1>11, CaughtInOrder DEF Escape
<1>12. CASE Wrap
  <2>1. /\ stage = "adding" /\ stage' = "catching"
        /\ UNCHANGED <<exitCode, console>>
        /\ kernel = "registering"
    BY <1>1, <1>12 DEF Wrap, StagesAgree
  <2>2. CASE CatchNothing
    <3>1. handling = "no" /\ caught = "none" /\ ~reported
      BY <1>1, <2>1 DEF StagesAgree
    <3>2. HandlerTypeOK' /\ DispatchInOrder'
      BY <1>1, <2>2, <3>1, CatchNothingInOrder
    <3>3. StagesAgree'
      BY <1>1, <2>1, <2>2 DEF CatchNothing, StagesAgree
    <3> QED  BY <1>1, <1>2, <1>3, <2>1, <3>2, <3>3, ConsoleKept
  <2>3. CASE \E c \in Thrown : Catch(c)
    BY <2>1, <2>3, CaughtInOrder
  <2> QED  BY <1>12, <2>2, <2>3 DEF Wrap
<1>13. CASE HandleException
  <2>1. /\ stage = "catching"
        /\ UNCHANGED <<program, console>>
        /\ HandlerStep
    BY <1>13 DEF HandleException
  <2>2. HandlerTypeOK' /\ DispatchInOrder'
    BY <1>1, <2>1, TryHandlerTypes, TryHandlerInOrder, TryAnyInOrder, ReportInOrder
       DEF HandlerStep
  <2>3. handling' # "no" /\ caught' = caught
    BY <1>1, <2>1 DEF HandlerStep, TryHandler, TryAny, Report, Answered, HandlerTypeOK
  <2>4. StagesAgree'
    BY <1>1, <2>1, <2>3 DEF StagesAgree
  <2> QED  BY <1>1, <1>2, <1>3, <2>1, <2>2, <2>4, ConsoleKept
<1>14. CASE EndWithAnswer
  <2>1. StagesAgree'
    BY <1>1, <1>14 DEF EndWithAnswer, StagesAgree
  <2> QED  BY <1>1, <1>2, <1>3, <1>14, <2>1, ConsoleKept, HandlerKept DEF EndWithAnswer
<1>15. CASE UNCHANGED vars
  <2>1. StagesAgree'
    BY <1>1, <1>15 DEF vars, StagesAgree
  <2> QED  BY <1>1, <1>2, <1>3, <1>15, <2>1, ConsoleKept, HandlerKept DEF vars
<1> QED  BY <1>4, <1>5, <1>6, <1>8, <1>9, <1>10, <1>11, <1>12, <1>13, <1>14, <1>15 DEF Next

-------------------------------------------------------------------------------

\* The invariant of the program: what each stage may find, how far parse and
\* dispatch have come, and what they have found so far.
THEOREM Invariant == Spec => []IInv
  BY InitInv, NextInv, PTL DEF Spec

\* Of the handlers that accept an exception and answer it, the one added last
\* decides (Handler.cc:68-85), whatever the classes of the others.
THEOREM LatestDecides == Spec => []HandledByLatest
<1>1. IInv => HandledByLatest
  BY DEF IInv, DispatchInOrder
<1> QED  BY <1>1, Invariant, PTL

\* What a command finds under a long name is what was given last or else the
\* declared default (Parser.cc:7-94, Kernel.cc:57-75), for every list of
\* arguments.
THEOREM OptionsAreMeant == Spec => []CommandGetsOptions
<1>1. IInv => CommandGetsOptions
  BY DEF IInv, KernelInOrder
<1> QED  BY <1>1, Invariant, PTL

\* A command that reads a number ends the program (Command.hh:89) exactly if what
\* it should read is no number.
THEOREM AbortExplained == Spec => []AbortIsExplained
<1>1. IInv => AbortIsExplained
  BY DEF IInv, KernelInOrder
<1> QED  BY <1>1, Invariant, PTL

\* If every function that was added fails with a code, and onAny has one, an
\* exception never ends the program with 0 (main.cc:122-167).
THEOREM FailuresAreReported == Spec => []FailureIsReported
<1>1. IInv => FailureIsReported
  <2> SUFFICES ASSUME IInv, stage = "ended", Strict,
                      caught # "none" \/ kernel \in {"failed", "escaped"}
               PROVE  exitCode # 0
    BY DEF FailureIsReported
  <2>1. StagesAgree /\ HandlerTypeOK /\ DispatchInOrder
    BY DEF IInv, TypeOK
  <2>2. CASE handling = "no"
    BY <2>1, <2>2 DEF StagesAgree
  <2>3. CASE handling = "done" /\ exitCode = result.exitCode /\ caught = "other"
    BY <2>1, <2>3 DEF DispatchInOrder, Unknown
  <2>4. CASE handling = "done" /\ exitCode = result.exitCode /\ caught \in StdClasses
    <3>1. result = Decides.answer
      BY <2>1, <2>4 DEF DispatchInOrder, HandledByLatest
    <3>2. Decides \in Added
      BY <2>1, <2>4 DEF DispatchInOrder
    <3> QED  BY <2>4, <3>1, <3>2 DEF Strict
  <2>5. caught \in StdClasses \cup {"none", "other"}
    BY <2>1 DEF HandlerTypeOK
  <2> QED  BY <2>1, <2>2, <2>3, <2>4, <2>5 DEF StagesAgree
<1> QED  BY <1>1, Invariant, PTL

-------------------------------------------------------------------------------

LEMMA PositionalsKept ==
    ASSUME UNCHANGED kernelState
    PROVE  /\ \A p : PositionalsUpTo(p)' = PositionalsUpTo(p)
           /\ argv' = argv
  BY DEF PositionalsUpTo, IsPositional, IsValue, WantsValue, known

LEMMA PositionalsFinite ==
    ASSUME NEW n \in Int
    PROVE  IsFiniteSet(PositionalsUpTo(n)) /\ Cardinality(PositionalsUpTo(n)) \in Nat
<1>1. PositionalsUpTo(n) \in SUBSET (1..n)
  BY DEF PositionalsUpTo
<1> QED  BY <1>1, FS_Interval, FS_Subset, FS_CardinalityType

\* Positional arguments are counted in order.
LEMMA CountedInOrder ==
    ASSUME NEW n \in Int, NEW p \in PositionalsUpTo(n)
    PROVE  Cardinality(PositionalsUpTo(p)) \in 1..Cardinality(PositionalsUpTo(n))
<1>1. p \in Int /\ p \in PositionalsUpTo(p) /\ PositionalsUpTo(p) \in SUBSET PositionalsUpTo(n)
  BY DEF PositionalsUpTo
<1>2. Cardinality(PositionalsUpTo(p)) <= Cardinality(PositionalsUpTo(n))
  BY <1>1, PositionalsFinite, FS_Subset
<1>3. Cardinality(PositionalsUpTo(p)) # 0
  BY <1>1, PositionalsFinite, FS_EmptySet
<1> QED  BY <1>1, <1>2, <1>3, PositionalsFinite

PositionalsInOrder ==
    /\ Len(positional) = Cardinality(PositionalsUpTo(i - 1))
    /\ \A p \in PositionalsUpTo(i - 1) :
          positional[Cardinality(PositionalsUpTo(p))] = argv[p].value

OptionsGiven ==
    \A p \in 1..(i - 1), n \in Names :
        /\ Gives(p, n)
        /\ \A q \in (p + 1)..(i - 1) : ~Gives(q, n)
        => n \in DOMAIN options /\ options[n] = ValueAt(p)

\* A step of parse passes over what is no positional argument, or appends it.
LEMMA PassPositional ==
    ASSUME PositionalsInOrder, ConsoleTypeOK, UNCHANGED kernelState, i' = i + 1 \/ i' = i + 2,
           \/ /\ positional' = positional
              /\ PositionalsUpTo(i' - 1) = PositionalsUpTo(i - 1)
           \/ /\ positional' = Append(positional, argv[i].value)
              /\ PositionalsUpTo(i' - 1) = PositionalsUpTo(i - 1) \cup {i}
              /\ i' = i + 1
    PROVE  PositionalsInOrder'
<1> DEFINE past == PositionalsUpTo(i - 1)
           count == Cardinality(past)
<1>1. /\ i \in Nat \ {0}
      /\ positional \in Seq(Values)
      /\ IsFiniteSet(past) /\ count \in Nat
      /\ Len(positional) = count
      /\ \A p \in past : positional[Cardinality(PositionalsUpTo(p))] = argv[p].value
  BY PositionalsFinite DEF ConsoleTypeOK, PositionalsInOrder
<1>2. CASE /\ positional' = positional
           /\ PositionalsUpTo(i' - 1) = past
  BY <1>1, <1>2, PositionalsKept DEF PositionalsInOrder
<1>3. CASE /\ positional' = Append(positional, argv[i].value)
           /\ PositionalsUpTo(i' - 1) = past \cup {i}
           /\ i' = i + 1
  <2>1. i \notin past /\ i' - 1 = i
    BY <1>1, <1>3 DEF PositionalsUpTo
  <2>2. Cardinality(PositionalsUpTo(i)) = count + 1
    BY <1>1, <1>3, <2>1, FS_AddElement
  <2>3. ASSUME NEW p \in PositionalsUpTo(i)
        PROVE  positional'[Cardinality(PositionalsUpTo(p))] = argv[p].value
    <3>1. CASE p = i
      BY <1>1, <1>3, <2>2, <3>1
    <3>2. CASE p # i
      <4>1. p \in past
        BY <1>3, <2>1, <3>2
      <4>2. Cardinality(PositionalsUpTo(p)) \in 1..count
        BY <1>1, <4>1, CountedInOrder
      <4> QED  BY <1>1, <1>3, <4>1, <4>2
    <3> QED  BY <3>1, <3>2
  <2>4. Len(positional') = count + 1
    BY <1>1, <1>3
  <2>5. (i - 1)' = i
    BY <2>1
  <2> HIDE DEF past, count
  <2> QED  BY <2>2, <2>3, <2>4, <2>5, PositionalsKept DEF PositionalsInOrder
<1> QED  BY <1>2, <1>3

\* While parse reads, OptionsSoFar says as much of the options.
LEMMA SoFarGiven == OptionsSoFar /\ ConsoleTypeOK => OptionsGiven
<1> SUFFICES ASSUME OptionsSoFar, ConsoleTypeOK,
                    NEW p \in 1..(i - 1), NEW n \in Names, Gives(p, n),
                    \A q \in (p + 1)..(i - 1) : ~Gives(q, n)
             PROVE  n \in DOMAIN options /\ options[n] = ValueAt(p)
  BY DEF OptionsGiven
<1>1. n \in DOMAIN options
  BY DEF OptionsSoFar
<1>2. PICK last \in 1..(i - 1) : /\ Gives(last, n)
                                 /\ ValueAt(last) = options[n]
                                 /\ \A q \in (last + 1)..(i - 1) : ~Gives(q, n)
  BY <1>1 DEF OptionsSoFar, GivenLast
<1>3. i \in Int
  BY DEF ConsoleTypeOK
<1>4. last = p
  BY <1>2, <1>3
<1> QED  BY <1>1, <1>2, <1>4

LEMMA ConsoleAccounts ==
    ASSUME ConsoleInOrder, ArgumentsAccountedFor, ConsoleStep
    PROVE  ArgumentsAccountedFor'
<1>1. PositionalsInOrder /\ OptionsGiven /\ ConsoleTypeOK /\ i \in Nat \ {0}
  BY DEF ArgumentsAccountedFor, PositionalsInOrder, OptionsGiven, ConsoleInOrder, ConsoleTypeOK
<1>2. ASSUME PositionalsInOrder', OptionsGiven'
      PROVE  ArgumentsAccountedFor'
  BY <1>2 DEF ArgumentsAccountedFor, PositionalsInOrder, OptionsGiven
<1>3. CASE kernel = "registering"
  <2>1. i = 1 /\ positional' = positional /\ i' = i
    BY <1>3 DEF ConsoleInOrder, KernelInOrder, ConsoleStep, Register, Handle, HandleNoCommand,
                HandleCommand, ParseStep, ReadFlag, ReadAssign, ReadWithValue, ReadWithoutValue,
                ReadPositional, Reading, PrintHelpOrVersion, Execute, ExecuteStep, Parsed
  <2>2. PositionalsUpTo(0) = {} /\ PositionalsUpTo(0)' = {} /\ i - 1 = 0 /\ i' - 1 = 0
    BY <2>1 DEF PositionalsUpTo
  <2>3. PositionalsInOrder'
    BY <1>1, <2>1, <2>2 DEF PositionalsInOrder
  <2>4. OptionsGiven'
    BY <2>1 DEF OptionsGiven
  <2> QED  BY <1>2, <2>3, <2>4
<1>4. ASSUME UNCHANGED <<kernelState, i, positional>>,
             \A n \in DOMAIN options : n \in DOMAIN options' /\ options'[n] = options[n]
      PROVE  ArgumentsAccountedFor'
  <2>1. PositionalsInOrder'
    BY <1>1, <1>4, PositionalsKept DEF PositionalsInOrder
  <2>2. \A p, n : /\ Gives(p, n)' <=> Gives(p, n)
                  /\ ValueAt(p)' = ValueAt(p)
    BY <1>4 DEF Gives, ValueAt, IsValue, WantsValue, known
  <2>3. OptionsGiven'
    BY <1>1, <1>4, <2>2 DEF OptionsGiven
  <2> QED  BY <1>2, <2>1, <2>3
<1>5. CASE ParseStep
  <2>1. /\ kernel' = "parsing" /\ kernel = "parsing"
        /\ UNCHANGED kernelState
        /\ i \in 1..Len(argv)
        /\ Len(argv) \in Nat
        /\ OptionsSoFar
    BY <1>5 DEF ParseStep, ReadFlag, ReadAssign, ReadWithValue, ReadWithoutValue,
                ReadPositional, Reading, ConsoleInOrder, ConsoleTypeOK, KernelInOrder
  <2>2. OptionsSoFar' /\ ConsoleTypeOK'
    BY <1>5, <2>1, ParseInOrder DEF ConsoleInOrder, KernelInOrder
  <2>3. OptionsGiven'
    BY <2>2, SoFarGiven, PTL
  <2>4. IsPositional(i) <=> argv[i].kind \in {"plain", "odd"}
    BY <2>1 DEF OptionsSoFar, IsPositional
  <2>5. PositionalsUpTo(i) = PositionalsUpTo(i - 1) \cup (IF IsPositional(i) THEN {i} ELSE {})
    BY <2>1 DEF PositionalsUpTo
  <2>6. CASE ReadFlag \/ ReadAssign \/ ReadWithoutValue
    <3>1. ~IsPositional(i) /\ i' = i + 1 /\ positional' = positional
      BY <2>4, <2>6 DEF ReadFlag, ReadAssign, ReadWithoutValue, Reading
    <3>2. i' - 1 = i
      BY <2>1, <3>1
    <3>3. PositionalsUpTo(i' - 1) = PositionalsUpTo(i - 1)
      BY <2>5, <3>1, <3>2
    <3> QED  BY <1>1, <1>2, <2>1, <2>3, <3>1, <3>3, PassPositional
  <2>7. CASE ReadWithValue
    <3>1. /\ ~IsPositional(i) /\ IsValue(i + 1) /\ i + 1 <= Len(argv)
          /\ i' = i + 2 /\ positional' = positional
      BY <2>1, <2>4, <2>7 DEF ReadWithValue, Reading, ValueFollows, IsValue
    <3>2. PositionalsUpTo(i + 1) = PositionalsUpTo(i)
      BY <2>1, <3>1 DEF PositionalsUpTo, IsPositional
    <3>3. PositionalsUpTo(i' - 1) = PositionalsUpTo(i - 1)
      BY <2>1, <2>5, <3>1, <3>2
    <3> QED  BY <1>1, <1>2, <2>1, <2>3, <3>1, <3>3, PassPositional
  <2>8. CASE ReadPositional
    <3>1. /\ IsPositional(i) /\ i' = i + 1
          /\ positional' = Append(positional, argv[i].value)
      BY <2>4, <2>8 DEF ReadPositional, Reading
    <3>2. PositionalsUpTo(i' - 1) = PositionalsUpTo(i - 1) \cup {i}
      BY <2>1, <2>5, <3>1
    <3> QED  BY <1>1, <1>2, <2>1, <2>3, <3>1, <3>2, PassPositional
  <2> QED  BY <1>5, <2>6, <2>7, <2>8 DEF ParseStep
<1>6. CASE PrintHelpOrVersion
  BY <1>4, <1>6 DEF PrintHelpOrVersion, HandleReturns
<1>7. CASE Execute
  BY <1>4, <1>7 DEF Execute, FillDefaults
<1>8. CASE ExecuteStep
  BY <1>4, <1>8 DEF ExecuteStep, ReadOption, Return, HandleReturns, ThrowStd, ThrowOther
<1>9. CASE Register \/ Handle
  BY <1>3, <1>9 DEF Register, Handle
<1> QED  BY <1>5, <1>6, <1>7, <1>8, <1>9 DEF ConsoleStep

\* Whatever the arguments, parse loses none of them and uses none of them twice
\* (Parser.cc:7-94): the positional arguments are the words that no option takes, in
\* order, and no default that is filled in later (Kernel.cc:57-75) takes the place of
\* what was given.
THEOREM ArgumentsAreAccountedFor == Spec => []ArgumentsAccountedFor
<1>1. Init => ArgumentsAccountedFor
  <2>1. PositionalsUpTo(0) = {}
    BY DEF PositionalsUpTo
  <2> QED  BY <2>1, FS_EmptySet DEF Init, InitConsole, ArgumentsAccountedFor
<1>2. IInv /\ ArgumentsAccountedFor /\ [Next]_vars => ArgumentsAccountedFor'
  <2> SUFFICES ASSUME IInv, ArgumentsAccountedFor, [Next]_vars
               PROVE  ArgumentsAccountedFor'
    OBVIOUS
  <2>1. CASE UNCHANGED console
    <3>1. /\ UNCHANGED <<kernelState, i, positional, options>>
          /\ \A p : PositionalsUpTo(p)' = PositionalsUpTo(p)
          /\ \A p, n : /\ Gives(p, n)' <=> Gives(p, n)
                       /\ ValueAt(p)' = ValueAt(p)
      BY <2>1, PositionalsKept DEF Gives, ValueAt, IsValue, WantsValue, known
    <3> QED  BY <3>1 DEF ArgumentsAccountedFor
  <2>2. CASE ConsoleStep
    BY <2>2, ConsoleAccounts DEF IInv, TypeOK, ConsoleInOrder
  <2> QED
    BY <2>1, <2>2 DEF Next, vars, AddFunction, AddMainHandlers, StartUp, StartUpThrows,
       UseConsole, Exit, Escape, Wrap, HandleException, EndWithAnswer
<1> QED  BY <1>1, <1>2, Invariant, PTL DEF Spec

================================================================================
