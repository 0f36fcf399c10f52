---------------------------- MODULE ExceptionHandler ----------------------------
(***************************************************************************)
(* engine/exceptions: the classes of exceptions, and ExceptionHandler,     *)
(* which finds for one of them the handler that answers.                   *)
(***************************************************************************)
EXTENDS Integers, Sequences, FiniteSetsExt

\* What each class derives from.  The names stand for the classes of
\* Exceptions.hh, for ContainerException of foundation_exceptions.hh, for the
\* ConfigException of config_exceptions.hh (SettingsException here), and for those
\* of the standard library that are thrown in the repository.
Base == [
    runtime_error |-> "exception",
    logic_error |-> "exception",
    invalid_argument |-> "logic_error",
    ContainerException |-> "runtime_error",
    SettingsException |-> "runtime_error",
    CyberForgeException |-> "runtime_error",
    ConfigException |-> "CyberForgeException",
    EnvNotFoundException |-> "ConfigException",
    KeyNotFoundException |-> "ConfigException",
    RegistryException |-> "CyberForgeException",
    ComponentNotFoundException |-> "RegistryException",
    ComponentDisabledException |-> "RegistryException",
    DependencyException |-> "RegistryException",
    NetworkException |-> "CyberForgeException",
    ConnectionException |-> "NetworkException",
    TimeoutException |-> "NetworkException",
    ScanException |-> "CyberForgeException",
    TargetException |-> "ScanException",
    PermissionException |-> "CyberForgeException",
    IOException |-> "CyberForgeException",
    FileNotFoundException |-> "IOException",
    NotImplementedException |-> "CyberForgeException",
    InvalidArgumentException |-> "CyberForgeException"]

StdClasses == DOMAIN Base \cup {"exception"}

\* A class and those it derives from: what a dynamic_cast of its objects accepts.
Ancestors[c \in StdClasses] ==
    {c} \cup IF c = "exception" THEN {} ELSE Ancestors[Base[c]]

\* exitCode(): what the class says a program should end with.
ExitCode(c) ==
    CASE "NetworkException" \in Ancestors[c] -> 2
      [] "PermissionException" \in Ancestors[c] -> 77
      [] Ancestors[c] \cap {"NetworkException", "PermissionException"} = {} -> 1

\* HandlerResult
Ok == [handled |-> TRUE, exitCode |-> 0]
Fail(code) == [handled |-> TRUE, exitCode |-> code]
Unhandled == [handled |-> FALSE, exitCode |-> 0]
Unknown == [handled |-> FALSE, exitCode |-> 1]

Results == [handled : BOOLEAN, exitCode : Int]

\* A function given to on<class>, or, with class "exception", to onAny: what it
\* answers, or that it throws.  NoFunction is an empty std::function.
Function == [class : StdClasses, answer : Results, throws : BOOLEAN]
NoFunction == [class |-> "none", answer |-> Unhandled, throws |-> FALSE]

VARIABLES
    handlers,         \* handlers_
    anyHandler,       \* anyHandler_
    unhandledHandler, \* unhandledHandler_: "report", or "returns", "throws" or "none"
    caught,           \* the class of the exception in handle, "none" before that
    it,               \* the handler dispatch tries next
    result,           \* what handle returns
    reported,         \* whether unhandledHandler_ was called
    handling          \* where handle is

functions == <<handlers, anyHandler, unhandledHandler>>

handleState == <<caught, it, result, reported, handling>>

InitHandler ==
    /\ handlers = << >>
    /\ anyHandler = NoFunction
    /\ unhandledHandler = "report"
    /\ caught = "none"
    /\ it = 0
    /\ result = Ok
    /\ reported = FALSE
    /\ handling = "no"

-------------------------------------------------------------------------------

On(function) ==
    /\ handlers' = Append(handlers, function)
    /\ UNCHANGED <<anyHandler, unhandledHandler, handleState>>

OnAny(function) ==
    /\ anyHandler' = function
    /\ UNCHANGED <<handlers, unhandledHandler, handleState>>

OnUnhandled(callback) ==
    /\ unhandledHandler' = callback
    /\ UNCHANGED <<handlers, anyHandler, handleState>>

\* handle with an exception: one that is no std::exception is not dispatched.
Catch(c) ==
    /\ handling = "no"
    /\ caught' = c
    /\ it' = Len(handlers)
    /\ IF c \in StdClasses
       THEN handling' = "dispatch" /\ UNCHANGED result
       ELSE handling' = "done" /\ result' = Unknown
    /\ UNCHANGED <<functions, reported>>

\* handle without one, or a wrapped function that returns.
CatchNothing ==
    /\ handling = "no"
    /\ handling' = "done"
    /\ result' = Ok
    /\ UNCHANGED <<functions, caught, it, reported>>

\* The function in turn is called: handle is noexcept, so an exception of its own
\* ends the program.
Answered(function) ==
    /\ result' = function.answer
    /\ handling' = CASE function.throws -> "aborted"
                     [] ~function.throws /\ function.answer.handled -> "done"
                     [] ~function.throws /\ ~function.answer.handled -> "unhandled"

Accepts(function) == function.class \in Ancestors[caught]

\* Variant of TryHandler: a handler is tried for objects of its very class only.
TryHandlerOfClass ==
    /\ handling = "dispatch"
    /\ it > 0
    /\ LET function == handlers[it] IN
       IF function.class = caught /\ (function.throws \/ function.answer.handled)
       THEN Answered(function) /\ UNCHANGED it
       ELSE it' = it - 1 /\ UNCHANGED <<result, handling>>
    /\ UNCHANGED <<functions, caught, reported>>

\* dispatch: handlers are tried in the reverse of their order, until one accepts
\* the exception and says that it is handled.
TryHandler ==
    /\ handling = "dispatch"
    /\ it > 0
    /\ LET function == handlers[it] IN
       IF Accepts(function) /\ (function.throws \/ function.answer.handled)
       THEN Answered(function) /\ UNCHANGED it
       ELSE it' = it - 1 /\ UNCHANGED <<result, handling>>
    /\ UNCHANGED <<functions, caught, reported>>

TryAny ==
    /\ handling = "dispatch"
    /\ it = 0
    /\ IF anyHandler # NoFunction THEN Answered(anyHandler)
       ELSE handling' = "unhandled" /\ result' = Unhandled
    /\ UNCHANGED <<functions, caught, it, reported>>

Report ==
    /\ handling = "unhandled"
    /\ reported' = (unhandledHandler # "none")
    /\ handling' = IF unhandledHandler = "throws" THEN "aborted" ELSE "done"
    /\ UNCHANGED <<functions, caught, it, result>>

HandlerStep == TryHandler \/ TryAny \/ Report

-------------------------------------------------------------------------------

HandlerTypeOK ==
    /\ handlers \in Seq(Function)
    /\ anyHandler \in Function \cup {NoFunction}
    /\ unhandledHandler \in {"report", "returns", "throws", "none"}
    /\ caught \in StdClasses \cup {"none", "other"}
    /\ handling = "dispatch" => caught \in StdClasses /\ it \in 0..Len(handlers)
    /\ result \in Results
    /\ reported \in BOOLEAN
    /\ handling \in {"no", "dispatch", "unhandled", "done", "aborted"}

\* The handlers that have an answer to the exception.
Willing ==
    {j \in DOMAIN handlers :
        /\ Accepts(handlers[j])
        /\ handlers[j].throws \/ handlers[j].answer.handled}

\* Who decides: of the handlers that are willing the one added last, whatever
\* their classes and whatever was added in between; without one, onAny's.
Decides ==
    IF Willing # {} THEN handlers[Max(Willing)] ELSE anyHandler

Added == {handlers[j] : j \in DOMAIN handlers} \cup {anyHandler}

\* An exception of the standard hierarchy gets the answer of who decides, and the
\* callback for unhandled exceptions is called only if that is none.
HandledByLatest ==
    caught \in StdClasses /\ handling \in {"done", "aborted"} =>
        /\ handling = "done" => ~Decides.throws /\ result = Decides.answer
        /\ handling = "aborted" => Decides.throws \/ reported
        /\ reported =>
              /\ ~Decides.throws /\ ~Decides.answer.handled
              /\ unhandledHandler # "none"

\* What dispatch keeps true on its way: no handler it has passed over was willing,
\* and the callback is called last.
DispatchInOrder ==
    /\ caught = "other" => handling = "done" /\ result = Unknown
    /\ handling = "dispatch" => ~reported /\ \A j \in Willing : j <= it
    /\ handling = "unhandled" =>
          /\ caught \in StdClasses
          /\ ~reported
          /\ Willing = {}
          /\ ~anyHandler.throws /\ ~anyHandler.answer.handled
          /\ result = anyHandler.answer
    /\ caught \in StdClasses /\ handling = "done" => Decides \in Added
    /\ HandledByLatest

================================================================================
