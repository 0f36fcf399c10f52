------------------------------ MODULE Application ------------------------------
(***************************************************************************)
(* engine/foundation/Application.cc: bootstrap, run and terminate, with    *)
(* the callbacks and providers that bootstrap calls.                       *)
(*                                                                         *)
(* What bootstrap calls is code of the program: it may call the            *)
(* Application again, return, or throw.  The variable stack holds the      *)
(* calls of bootstrap (and of run, which calls it) that have not returned. *)
(* bootstrap goes through four loops; an element of a loop is known by its *)
(* position in the vector.                                                 *)
(***************************************************************************)
EXTENDS Integers, Sequences

CONSTANTS
    Providers,     \* how many elements providers_ has
    MaxCallbacks,  \* bound: callbacks of either kind
    MaxAttempts,   \* bound: bootstraps that get past their guard
    MaxDepth       \* bound: calls nested through callbacks

ASSUME ApplicationAssumption ==
    /\ Providers \in Nat
    /\ MaxCallbacks \in Nat
    /\ MaxAttempts \in Nat
    /\ MaxDepth \in Nat \ {0}

VARIABLES
    booted,     \* booted_
    running,    \* running_
    callbacks,  \* the sizes of bootingCallbacks_ and bootedCallbacks_
    crashed,    \* a vector has been moved under the loop over it
    stack,      \* calls in progress, outermost first
    attempts,   \* history: bootstraps that got past their guard
    early,      \* history: callbacks when the first of them began
    called      \* history: how often each element of each loop was called

vars == <<booted, running, callbacks, crashed, stack, attempts, early, called>>
history == <<attempts, early, called>>

\* The loops of bootstrap: booting callbacks, register_() and boot() of the
\* providers, booted callbacks.
Loops == 1..4

Booting == 1

Booted == 4

Kinds == {Booting, Booted}

Positions == 1..(Providers + MaxCallbacks)

Init ==
    /\ booted = FALSE
    /\ running = FALSE
    /\ callbacks = [k \in Kinds |-> 0]
    /\ crashed = FALSE
    /\ stack = << >>
    /\ attempts = 0
    /\ early = [k \in Kinds |-> 0]
    /\ called = [l \in Loops |-> [i \in Positions |-> 0]]

\* How many elements loop l has when it begins, given the sizes of the vectors.
Size(l, sizes) == IF l \in Kinds THEN sizes[l] ELSE Providers

Top == stack[Len(stack)]

Below == SubSeq(stack, 1, Len(stack) - 1)

SetTop(frame) == stack' = [stack EXCEPT ![Len(stack)] = frame]

\* Control is outside: no call is in progress, or the last one has called out.
CanCall == ~crashed /\ (stack # << >> => Top.inCall)

InLoop == ~crashed /\ stack # << >> /\ ~Top.inCall

InCallback == ~crashed /\ stack # << >> /\ Top.inCall

-------------------------------------------------------------------------------

\* onBooting and onBooted.  A vector that grows while a loop runs over it may
\* be moved, which leaves the loop's iterators behind.
AddCallback(k) ==
    /\ CanCall
    /\ callbacks[k] < MaxCallbacks
    /\ callbacks' = [callbacks EXCEPT ![k] = @ + 1]
    /\ early' = IF attempts = 0 THEN callbacks' ELSE early
    /\ crashed' \in IF \E f \in 1..Len(stack) : stack[f].loop = k
                    THEN BOOLEAN ELSE {FALSE}
    /\ UNCHANGED <<booted, running, stack, attempts, called>>

Enter(function) ==
    /\ Len(stack) < MaxDepth
    /\ stack' = Append(stack, [function |-> function, loop |-> Booting, at |-> 1,
                               end |-> Size(Booting, callbacks), inCall |-> FALSE])

\* Variant of Begin: run sets running_ at once.
BeginRunning(function) ==
    /\ CanCall
    /\ ~booted
    /\ attempts < MaxAttempts
    /\ attempts' = attempts + 1
    /\ Enter(function)
    /\ running' = (function = "run")
    /\ UNCHANGED <<booted, callbacks, crashed, early, called>>

\* bootstrap, or run that calls it: the environment is loaded, and the first
\* loop begins.
Begin(function) ==
    /\ CanCall
    /\ ~booted
    /\ attempts < MaxAttempts
    /\ attempts' = attempts + 1
    /\ Enter(function)
    /\ UNCHANGED <<booted, running, callbacks, crashed, early, called>>

\* bootstrap of a booted application, or one whose loadEnvironment throws.
BootstrapAtOnce ==
    /\ CanCall
    /\ UNCHANGED vars

RunBooted ==
    /\ CanCall
    /\ booted
    /\ running' = TRUE
    /\ UNCHANGED <<booted, callbacks, crashed, stack, history>>

Terminate ==
    /\ CanCall
    /\ running' = FALSE
    /\ UNCHANGED <<booted, callbacks, crashed, stack, history>>

-------------------------------------------------------------------------------

CallNext ==
    /\ InLoop
    /\ Top.at <= Top.end
    /\ called' = [called EXCEPT ![Top.loop][Top.at] = @ + 1]
    /\ SetTop([Top EXCEPT !.inCall = TRUE])
    /\ UNCHANGED <<booted, running, callbacks, crashed, attempts, early>>

\* Variant of CallReturns: the loop stays where it is.
CallReturnsInPlace ==
    /\ InCallback
    /\ \/ SetTop([Top EXCEPT !.inCall = FALSE, !.at = @ + 1])
       \/ called[Top.loop][Top.at] <= attempts /\ SetTop([Top EXCEPT !.inCall = FALSE])
    /\ UNCHANGED <<booted, running, callbacks, crashed, history>>

CallReturns ==
    /\ InCallback
    /\ SetTop([Top EXCEPT !.inCall = FALSE, !.at = @ + 1])
    /\ UNCHANGED <<booted, running, callbacks, crashed, history>>

\* The exception ends the bootstrap; it goes to what called bootstrap.
CallThrows ==
    /\ InCallback
    /\ stack' = Below
    /\ UNCHANGED <<booted, running, callbacks, crashed, history>>

\* Variant of NextLoop: the last element of the next loop is left out.
NextLoopShort ==
    /\ InLoop
    /\ Top.at > Top.end
    /\ Top.loop # Booted
    /\ SetTop([Top EXCEPT !.loop = @ + 1, !.at = 1,
                          !.end = Size(Top.loop + 1, callbacks) - 1])
    /\ UNCHANGED <<booted, running, callbacks, crashed, history>>

\* Variant of NextLoop: a loop that was left by an exception is not repeated.
NextLoopResuming ==
    /\ InLoop
    /\ Top.at > Top.end
    /\ Top.loop # Booted
    /\ SetTop([Top EXCEPT !.loop = @ + 1,
                          !.at = IF called[Top.loop + 1][1] > 0
                                 THEN Size(Top.loop + 1, callbacks) + 1 ELSE 1,
                          !.end = Size(Top.loop + 1, callbacks)])
    /\ UNCHANGED <<booted, running, callbacks, crashed, history>>

NextLoop ==
    /\ InLoop
    /\ Top.at > Top.end
    /\ Top.loop # Booted
    /\ SetTop([Top EXCEPT !.loop = @ + 1, !.at = 1,
                          !.end = Size(Top.loop + 1, callbacks)])
    /\ UNCHANGED <<booted, running, callbacks, crashed, history>>

Finish ==
    /\ InLoop
    /\ Top.at > Top.end
    /\ Top.loop = Booted
    /\ booted' = TRUE
    /\ running' = (running \/ Top.function = "run")
    /\ stack' = Below
    /\ UNCHANGED <<callbacks, crashed, history>>

-------------------------------------------------------------------------------

Next ==
    \/ \E k \in Kinds : AddCallback(k)
    \/ \E function \in {"bootstrap", "run"} : Begin(function)
    \/ BootstrapAtOnce
    \/ RunBooted
    \/ Terminate
    \/ CallNext
    \/ CallReturns
    \/ CallThrows
    \/ NextLoop
    \/ Finish

Spec == Init /\ [][Next]_vars

-------------------------------------------------------------------------------

Frame ==
    [function : {"bootstrap", "run"}, loop : Loops,
     at : Nat \ {0}, end : Nat, inCall : BOOLEAN]

\* The variables have their types.
TypeOK ==
    /\ booted \in BOOLEAN
    /\ running \in BOOLEAN
    /\ callbacks \in [Kinds -> 0..MaxCallbacks]
    /\ crashed \in BOOLEAN
    /\ stack \in Seq(Frame)
    /\ attempts \in 0..MaxAttempts
    /\ early \in [Kinds -> 0..MaxCallbacks]
    /\ called \in [Loops -> [Positions -> Nat]]

\* Every early element of loop l has been called.
LoopDone(l) == \A i \in 1..Size(l, early) : called[l][i] > 0

\* Nothing of a loop is called before the loops ahead of it have called all
\* that was there when the first bootstrap began: no provider is booted, by
\* whatever attempt and nesting, before all are registered.
LoopsInOrder ==
    \A l \in Loops, i \in Positions :
        called[l][i] > 0 => \A k \in 1..(l - 1) : LoopDone(k)

\* booted_ means that every provider was registered and booted and every
\* callback in place before the first bootstrap was called, although attempts
\* fail half way and callbacks boot the application themselves.
BootedMeansCalled == booted => \A l \in Loops : LoopDone(l)

\* One bootstrap calls nothing twice: what is called n times took n of them.
OncePerBootstrap ==
    \A l \in Loops, i \in Positions : called[l][i] <= attempts

\* A running application is booted: run does not get past a bootstrap that
\* throws, and terminate and run may be called from callbacks.
RunningMeansBooted == running => booted

\* A call in progress has done all loops ahead of its own, and of its own loop
\* the elements it has passed; only the innermost call may be between calls.
FrameOK(f) ==
    /\ f.at <= f.end + 1
    /\ f.inCall => f.at <= f.end
    /\ Size(f.loop, early) <= f.end
    /\ f.end <= Providers + MaxCallbacks
    /\ \A k \in 1..(f.loop - 1) : LoopDone(k)
    /\ \A i \in 1..Size(f.loop, early) :
          i < f.at \/ (i = f.at /\ f.inCall) => called[f.loop][i] > 0

FramesOK == \A n \in 1..Len(stack) : FrameOK(stack[n])

\* Before the first attempt every callback is early and nothing has happened.
FirstAttempt ==
    attempts = 0 =>
        /\ early = callbacks
        /\ stack = << >>
        /\ ~booted
        /\ \A l \in Loops, i \in Positions : called[l][i] = 0

EarlyAreThere == \A k \in Kinds : early[k] <= callbacks[k]

\* The inductive invariant.
IInv ==
    /\ TypeOK
    /\ EarlyAreThere
    /\ FirstAttempt
    /\ FramesOK
    /\ LoopsInOrder
    /\ BootedMeansCalled
    /\ RunningMeansBooted

================================================================================
