--------------------------------- MODULE Program ---------------------------------
(***************************************************************************)
(* main.cc: an ExceptionHandler wraps the start of the application and the *)
(* console kernel, and its answer is the exit code.  A program of another  *)
(* kind adds handlers of its own and wraps some other function.            *)
(***************************************************************************)
EXTENDS Console, ExceptionHandler

CONSTANTS
    Functions,   \* what other programs give to on and onAny
    Callbacks,   \* and to onUnhandled
    MaxHandlers, \* bound: their handlers
    Thrown       \* what wrapped functions throw

\* main.cc says TufanException for the base class CyberForgeException.
MainHandlers ==
    <<[class |-> "NetworkException", answer |-> Fail(2), throws |-> FALSE],
      [class |-> "CyberForgeException", answer |-> Fail(1), throws |-> FALSE]>>

MainAny == [class |-> "exception", answer |-> Fail(1), throws |-> FALSE]

ASSUME ProgramAssumption ==
    /\ Functions \subseteq Function
    /\ Callbacks \subseteq {"returns", "throws", "none"}
    /\ MaxHandlers \in Nat
    /\ Thrown \subseteq StdClasses \cup {"other"}

VARIABLES
    stage,   \* where the program is
    exitCode

program == <<stage, exitCode>>

vars == <<program, functions, handleState, console>>

Init ==
    /\ InitHandler
    /\ InitConsole
    /\ stage = "adding"
    /\ exitCode = 0

\* on, onAny and onUnhandled.
AddFunction ==
    /\ stage = "adding"
    /\ \/ /\ Len(handlers) < MaxHandlers
          /\ \E function \in Functions : On(function)
       \/ \E function \in Functions :
             function.class = "exception" /\ OnAny(function)
       \/ \E callback \in Callbacks : OnUnhandled(callback)
    /\ UNCHANGED <<program, console>>

AddMainHandlers ==
    /\ stage = "adding"
    /\ functions = << << >>, NoFunction, "report">>
    /\ handlers' = MainHandlers
    /\ anyHandler' = MainAny
    /\ stage' = "starting"
    /\ UNCHANGED <<unhandledHandler, exitCode, handleState, console>>

\* Application::create, Global::init and bootstrap.
StartUp ==
    /\ stage = "starting"
    /\ stage' = "console"
    /\ UNCHANGED <<exitCode, functions, handleState, console>>

StartUpThrows ==
    /\ stage = "starting"
    /\ \E c \in Thrown : Catch(c)
    /\ stage' = "catching"
    /\ UNCHANGED <<exitCode, console>>

UseConsole ==
    /\ stage = "console"
    /\ ConsoleStep
    /\ UNCHANGED <<program, functions, handleState>>

\* std::exit(console.handle(argc, argv))
Exit ==
    /\ stage = "console"
    /\ kernel \in {"returned", "failed"}
    /\ stage' = "ended"
    /\ exitCode' = returned
    /\ UNCHANGED <<functions, handleState, console>>

\* What is no std::exception comes through the kernel.
Escape ==
    /\ stage = "console"
    /\ kernel = "escaped"
    /\ Catch("other")
    /\ stage' = "catching"
    /\ UNCHANGED <<exitCode, console>>

\* Another program wraps a function, or gives an exception to handle.
Wrap ==
    /\ stage = "adding"
    /\ CatchNothing \/ \E c \in Thrown : Catch(c)
    /\ stage' = "catching"
    /\ UNCHANGED <<exitCode, console>>

HandleException ==
    /\ stage = "catching"
    /\ HandlerStep
    /\ UNCHANGED <<program, console>>

\* The answer gives the exit code.
EndWithAnswer ==
    /\ stage = "catching"
    /\ handling = "done"
    /\ stage' = "ended"
    /\ exitCode' = result.exitCode
    /\ UNCHANGED <<functions, handleState, console>>

Next ==
    \/ AddFunction
    \/ AddMainHandlers
    \/ StartUp
    \/ StartUpThrows
    \/ UseConsole
    \/ Exit
    \/ Escape
    \/ Wrap
    \/ HandleException
    \/ EndWithAnswer

Spec == Init /\ [][Next]_vars

-------------------------------------------------------------------------------

TypeOK ==
    /\ HandlerTypeOK
    /\ ConsoleTypeOK
    /\ stage \in {"adding", "starting", "console", "catching", "ended"}
    /\ exitCode \in Int

\* What ExceptionHandler, the kernel and the exit code are in each stage.
StagesAgree ==
    /\ stage \in {"adding", "starting", "console"} => handling = "no"
    /\ handling = "no" => caught = "none" /\ ~reported
    /\ stage \in {"adding", "starting"} => kernel = "registering"
    /\ kernel = "failed" => returned = 1
    /\ kernel = "escaped" => stage = "console" \/ caught = "other"
    /\ stage = "catching" => handling # "no" /\ kernel \in {"registering", "escaped"}
    /\ stage = "ended" =>
          \/ /\ handling = "done"
             /\ exitCode = result.exitCode
             /\ kernel \in {"registering", "escaped"}
          \/ /\ handling = "no"
             /\ exitCode = returned
             /\ kernel \in {"returned", "failed"}

\* The inductive invariant.
IInv == TypeOK /\ StagesAgree /\ DispatchInOrder /\ KernelInOrder

\* No function that was added hides a failure: each fails with a code that is not
\* 0, and there is one for every exception.
Strict ==
    /\ anyHandler # NoFunction
    /\ \A function \in Added : function.answer.exitCode # 0

\* Whatever throws, in the start of the application, in a command or in the
\* wrapped function, and whoever catches it, the program does not end with 0.
FailureIsReported ==
    stage = "ended" /\ Strict /\ (caught # "none" \/ kernel \in {"failed", "escaped"})
        => exitCode # 0

\* main adds a handler for NetworkException that answers 2 (main.cc:109-113), and
\* so does the class (Exceptions.hh:137-140): a network error ends the program
\* with the code of its class.
NetworkErrorsExitWithTwo ==
    stage = "ended" /\ handlers = MainHandlers /\ caught \in StdClasses
        /\ "NetworkException" \in Ancestors[caught]
        => exitCode = ExitCode(caught)

================================================================================
