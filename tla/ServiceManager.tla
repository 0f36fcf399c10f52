---------------------------- MODULE ServiceManager ----------------------------
(***************************************************************************)
(* engine/services/ServiceManager.cc and the two flags of ServiceProvider. *)
(*                                                                         *)
(* The manager is single-threaded and re-entrant: register_() and boot()   *)
(* of a provider get the Application, hence the manager, and may call any  *)
(* of its operations, return, or throw.  The variable stack holds the      *)
(* manager's calls that have not returned; between two callbacks a call    *)
(* runs its loop, during a callback control is outside.                    *)
(*                                                                         *)
(* sortByDependencies is taken from its specification (SortSpec, which     *)
(* TopologicalSort implements): some order of Orders, or an exception if   *)
(* the dependencies are cyclic.                                            *)
(***************************************************************************)
EXTENDS Integers, DependencyOrder

CONSTANTS
    Providers,  \* service providers, identified with their names
    Aliases,    \* component aliases
    Deps,       \* Deps[p]: the providers in dependencies() of p
    Provides,   \* Provides[p]: the aliases in provides() of p
    Deferred,   \* the providers with isDeferred()
    MaxDepth    \* bound: calls of the manager nested through callbacks

ASSUME ProvidersAssumption ==
    /\ IsFiniteSet(Providers)
    /\ Deps \in [Providers -> SUBSET Providers]
    /\ Provides \in [Providers -> SUBSET Aliases]
    /\ Deferred \subseteq Providers
    /\ MaxDepth \in Nat \ {0}

VARIABLES
    byName,        \* the providers added (providers_ and byName_)
    deferredMap,   \* deferredMap_: alias |-> deferred provider
    isRegistered,  \* the providers with registered_ set
    isBooted,      \* the providers with booted_ set
    registered,    \* ServiceManager::registered_
    booted,        \* ServiceManager::booted_
    stack          \* the calls in progress, outermost first

flags == <<isRegistered, isBooted>>
phases == <<registered, booted>>
vars == <<byName, deferredMap, isRegistered, isBooted, registered, booted, stack>>

Init ==
    /\ byName = {}
    /\ deferredMap = << >>
    /\ isRegistered = {}
    /\ isBooted = {}
    /\ registered = FALSE
    /\ booted = FALSE
    /\ stack = << >>

-------------------------------------------------------------------------------

\* Variant of SortedProviders: the providers in any order.
UnsortedProviders == Bijection(1..Cardinality(byName), byName)

\* What sortByDependencies may return now, and when it throws instead.
SortedProviders == Orders(Deps, byName)

SortThrows == Cyclic(Deps, byName)

\* A call in progress: the operation, the loop it is in, the providers its
\* loop has still to see, those it sorted, and whether the first of todo is
\* running its callback.
Loop(op, phase, order) ==
    [op |-> op, phase |-> phase, todo |-> order, scope |-> byName, inCall |-> FALSE]

Load(p, phase) ==
    [op |-> "load", phase |-> phase, todo |-> <<p>>, scope |-> {}, inCall |-> TRUE]

Top == stack[Len(stack)]
Current == Head(Top.todo)

Push(call) == stack' = Append(stack, call)
Pop == stack' = SubSeq(stack, 1, Len(stack) - 1)
Continue(call) == stack' = [stack EXCEPT ![Len(stack)] = call]

\* The caller, or a callback, has control and may call the manager.
CanCall ==
    /\ stack # << >> => Top.inCall
    /\ Len(stack) < MaxDepth

-------------------------------------------------------------------------------
(***************************************************************************)
(* Operations called from outside, a callback included.  An operation that *)
(* returns or throws before it changes anything is a step that changes     *)
(* nothing.                                                                *)
(***************************************************************************)

Add(p) ==
    /\ CanCall
    /\ p \notin byName
    /\ byName' = byName \union {p}
    /\ deferredMap' =
           IF p \in Deferred
           THEN [a \in DOMAIN deferredMap \union Provides[p] |->
                    IF a \in Provides[p] THEN p ELSE deferredMap[a]]
           ELSE deferredMap
    /\ UNCHANGED <<flags, phases, stack>>

AddDuplicate(p) ==
    /\ CanCall
    /\ p \in byName
    /\ UNCHANGED vars

\* Variant of RegisterAll: the early return for registered_ is missing.
RegisterAllAgain ==
    /\ CanCall
    /\ \E order \in SortedProviders : Push(Loop("registerAll", "register", order))
    /\ UNCHANGED <<byName, deferredMap, flags, phases>>

RegisterAll ==
    /\ CanCall
    /\ ~registered
    /\ \E order \in SortedProviders : Push(Loop("registerAll", "register", order))
    /\ UNCHANGED <<byName, deferredMap, flags, phases>>

RegisterAllAtOnce ==
    /\ CanCall
    /\ registered \/ SortThrows
    /\ UNCHANGED vars

\* Variant of BootAll: the logic_error for a missing registerAll is gone.
BootAllUnregistered ==
    /\ CanCall
    /\ ~booted
    /\ \E order \in SortedProviders : Push(Loop("bootAll", "boot", order))
    /\ UNCHANGED <<byName, deferredMap, flags, phases>>

BootAll ==
    /\ CanCall
    /\ registered
    /\ ~booted
    /\ \E order \in SortedProviders : Push(Loop("bootAll", "boot", order))
    /\ UNCHANGED <<byName, deferredMap, flags, phases>>

BootAllAtOnce ==
    /\ CanCall
    /\ ~registered \/ booted \/ SortThrows
    /\ UNCHANGED vars

Bootstrap ==
    /\ CanCall
    /\ \/ /\ ~registered
          /\ \E order \in SortedProviders : Push(Loop("bootstrap", "register", order))
       \/ /\ registered
          /\ ~booted
          /\ \E order \in SortedProviders : Push(Loop("bootstrap", "boot", order))
    /\ UNCHANGED <<byName, deferredMap, flags, phases>>

BootstrapAtOnce ==
    /\ CanCall
    /\ (registered /\ booted) \/ SortThrows
    /\ UNCHANGED vars

\* Variant of LoadDeferredFor: the aliases are erased before the load.
LoadErasingFirst(alias) ==
    /\ CanCall
    /\ alias \in DOMAIN deferredMap
    /\ LET p == deferredMap[alias]
       IN  /\ p \notin isBooted
           /\ Push(Load(p, IF p \in isRegistered THEN "boot" ELSE "register"))
           /\ deferredMap' = Restrict(deferredMap, DOMAIN deferredMap \ Provides[p])
    /\ UNCHANGED <<byName, flags, phases>>

\* Variant of LoadDeferredFor: register_() is left out.
LoadBootingOnly(alias) ==
    /\ CanCall
    /\ alias \in DOMAIN deferredMap
    /\ deferredMap[alias] \notin isBooted
    /\ Push(Load(deferredMap[alias], "boot"))
    /\ UNCHANGED <<byName, deferredMap, flags, phases>>

LoadDeferredFor(alias) ==
    /\ CanCall
    /\ alias \in DOMAIN deferredMap
    /\ LET p == deferredMap[alias]
       IN  /\ p \notin isBooted
           /\ Push(Load(p, IF p \in isRegistered THEN "boot" ELSE "register"))
    /\ UNCHANGED <<byName, deferredMap, flags, phases>>

LoadAtOnce(alias) ==
    /\ CanCall
    /\ alias \in DOMAIN deferredMap => deferredMap[alias] \in isBooted
    /\ UNCHANGED vars

-------------------------------------------------------------------------------
(***************************************************************************)
(* The loops of registerAll and bootAll, bootstrap being the two in turn.  *)
(***************************************************************************)
InLoop(phase) == stack # << >> /\ ~Top.inCall /\ Top.phase = phase

InCallback(phase) == stack # << >> /\ Top.inCall /\ Top.phase = phase

NextProvider == [Top EXCEPT !.todo = Tail(@), !.inCall = FALSE]

SkipRegister ==
    /\ InLoop("register")
    /\ Top.todo # << >>
    /\ Current \in isRegistered \union Deferred
    /\ Continue(NextProvider)
    /\ UNCHANGED <<byName, deferredMap, flags, phases>>

CallRegister ==
    /\ InLoop("register")
    /\ Top.todo # << >>
    /\ Current \notin isRegistered \union Deferred
    /\ Continue([Top EXCEPT !.inCall = TRUE])
    /\ UNCHANGED <<byName, deferredMap, flags, phases>>

RegisterReturns ==
    /\ InCallback("register")
    /\ Top.op # "load"
    /\ isRegistered' = isRegistered \union {Current}
    /\ Continue(NextProvider)
    /\ UNCHANGED <<byName, deferredMap, isBooted, phases>>

SkipBoot ==
    /\ InLoop("boot")
    /\ Top.todo # << >>
    /\ Current \in isBooted \/ Current \notin isRegistered
    /\ Continue(NextProvider)
    /\ UNCHANGED <<byName, deferredMap, flags, phases>>

CallBoot ==
    /\ InLoop("boot")
    /\ Top.todo # << >>
    /\ Current \notin isBooted
    /\ Current \in isRegistered
    /\ Continue([Top EXCEPT !.inCall = TRUE])
    /\ UNCHANGED <<byName, deferredMap, flags, phases>>

BootReturns ==
    /\ InCallback("boot")
    /\ Top.op # "load"
    /\ isBooted' = isBooted \union {Current}
    /\ Continue(NextProvider)
    /\ UNCHANGED <<byName, deferredMap, isRegistered, phases>>

\* Variant of FinishRegister: bootstrap forgets to set registered_.
FinishRegisterUnmarked ==
    /\ InLoop("register")
    /\ Top.todo = << >>
    /\ registered' = (registered \/ Top.op = "registerAll")
    /\ \/ /\ Top.op = "registerAll" \/ booted \/ SortThrows
          /\ Pop
       \/ /\ Top.op = "bootstrap"
          /\ ~booted
          /\ \E order \in SortedProviders : Continue(Loop("bootstrap", "boot", order))
    /\ UNCHANGED <<byName, deferredMap, flags, booted>>

\* The register loop is over.  In bootstrap, bootAll follows at once: it
\* returns if a callback has had everything booted meanwhile, throws if a
\* callback has added a cycle, and sorts anew otherwise.
FinishRegister ==
    /\ InLoop("register")
    /\ Top.todo = << >>
    /\ registered' = TRUE
    /\ \/ /\ Top.op = "registerAll" \/ booted \/ SortThrows
          /\ Pop
       \/ /\ Top.op = "bootstrap"
          /\ ~booted
          /\ \E order \in SortedProviders : Continue(Loop("bootstrap", "boot", order))
    /\ UNCHANGED <<byName, deferredMap, flags, booted>>

FinishBoot ==
    /\ InLoop("boot")
    /\ Top.todo = << >>
    /\ booted' = TRUE
    /\ Pop
    /\ UNCHANGED <<byName, deferredMap, flags, registered>>

-------------------------------------------------------------------------------
(***************************************************************************)
(* loadDeferredFor: register_(), unless done before, then boot().          *)
(***************************************************************************)
LoadRegisterReturns ==
    /\ InCallback("register")
    /\ Top.op = "load"
    /\ isRegistered' = isRegistered \union {Current}
    /\ Continue(Load(Current, "boot"))
    /\ UNCHANGED <<byName, deferredMap, isBooted, phases>>

LoadBootReturns ==
    /\ InCallback("boot")
    /\ Top.op = "load"
    /\ isBooted' = isBooted \union {Current}
    /\ deferredMap' = Restrict(deferredMap, DOMAIN deferredMap \ Provides[Current])
    /\ Pop
    /\ UNCHANGED <<byName, isRegistered, phases>>

\* Variant of CallbackThrows: the loop catches the exception and goes on.
CallbackThrowsPassedOver ==
    /\ stack # << >>
    /\ Top.inCall
    /\ IF Top.op = "load" THEN Pop ELSE Continue(NextProvider)
    /\ UNCHANGED <<byName, deferredMap, flags, phases>>

(***************************************************************************)
(* register_() or boot() throws.  The call of the manager ends there: the  *)
(* provider stays unmarked and the phase unfinished, and the exception     *)
(* reaches the code that made the call, which may handle it.               *)
(***************************************************************************)
CallbackThrows ==
    /\ stack # << >>
    /\ Top.inCall
    /\ Pop
    /\ UNCHANGED <<byName, deferredMap, flags, phases>>

Next ==
    \/ \E p \in Providers : Add(p) \/ AddDuplicate(p)
    \/ \E a \in Aliases : LoadDeferredFor(a) \/ LoadAtOnce(a)
    \/ RegisterAll \/ RegisterAllAtOnce
    \/ BootAll \/ BootAllAtOnce
    \/ Bootstrap \/ BootstrapAtOnce
    \/ SkipRegister \/ CallRegister \/ RegisterReturns \/ FinishRegister
    \/ SkipBoot \/ CallBoot \/ BootReturns \/ FinishBoot
    \/ LoadRegisterReturns \/ LoadBootReturns
    \/ CallbackThrows

Spec == Init /\ [][Next]_vars

-------------------------------------------------------------------------------

Frame ==
    [op : {"registerAll", "bootAll", "bootstrap", "load"},
     phase : {"register", "boot"},
     todo : Seq(Providers),
     scope : SUBSET Providers,
     inCall : BOOLEAN]

\* The types of the variables.
TypeOK ==
    /\ byName \subseteq Providers
    /\ DOMAIN deferredMap \subseteq Aliases
    /\ deferredMap \in [DOMAIN deferredMap -> Providers]
    /\ isRegistered \subseteq Providers
    /\ isBooted \subseteq Providers
    /\ registered \in BOOLEAN
    /\ booted \in BOOLEAN
    /\ stack \in Seq(Frame)

Registering(call) == call.op # "load" /\ call.phase = "register"
Booting(call) == call.op # "load" /\ call.phase = "boot"

Eager == Providers \ Deferred

\* register_() of a provider runs in registerAll only when every eager
\* provider it depends on, of those added when registerAll sorted, has been
\* registered - whatever the callbacks before it called or added.
DependenciesRegisteredFirst ==
    \A k \in DOMAIN stack :
        Registering(stack[k]) /\ stack[k].inCall =>
            Deps[Head(stack[k].todo)] \cap stack[k].scope \cap Eager \subseteq isRegistered

\* boot() of a provider runs in bootAll only when every eager provider it
\* depends on that is registered has been booted.
DependenciesBootedFirst ==
    \A k \in DOMAIN stack :
        Booting(stack[k]) /\ stack[k].inCall =>
            Deps[Head(stack[k].todo)] \cap isRegistered \cap Eager \subseteq isBooted

\* registerAll returns normally only when every eager provider added before
\* it sorted is registered: no exception in a callback and no re-entrant call
\* lets it pass one over.
RegisterAllCompletes ==
    \A k \in DOMAIN stack :
        Registering(stack[k]) /\ stack[k].todo = << >> =>
            stack[k].scope \cap Eager \subseteq isRegistered

\* booted_ says that every eager provider that was registered is booted, from
\* the return of the first bootAll on and for good.
BootedMeansBooted == booted => registered /\ isRegistered \cap Eager \subseteq isBooted

\* Once registered_ is set no eager provider is registered any more: one that
\* is added later, by a callback for instance, stays as it is, although
\* registerAll, bootAll and bootstrap go on returning normally.
RegistrationIsOver ==
    [][registered => isRegistered' \cap Eager = isRegistered \cap Eager]_vars

\* The deferred providers added that provide alias.
ProvidersOf(alias) == {p \in byName \cap Deferred : alias \in Provides[p]}

\* As long as no provider of an alias is booted, the alias leads to one of
\* them: whatever loads of it, or of another alias, have thrown, and whoever
\* took it over from whom.  If only one provider has it, it leads to that one.
DeferredStaysReachable ==
    \A a \in Aliases :
        ProvidersOf(a) # {} /\ ProvidersOf(a) \cap isBooted = {} =>
            a \in DOMAIN deferredMap /\ deferredMap[a] \in ProvidersOf(a)

-------------------------------------------------------------------------------
(***************************************************************************)
(* The inductive invariant behind the properties above.                    *)
(***************************************************************************)

\* A call of registerAll, or the first half of bootstrap.
RegisteringOK(call) ==
    /\ Range(call.todo) \subseteq call.scope
    /\ call.scope \subseteq byName
    /\ Respects(Deps, call.todo)
    /\ (call.scope \cap Eager) \ Range(call.todo) \subseteq isRegistered
    /\ call.inCall => call.todo # << >> /\ Head(call.todo) \in Eager
    /\ registered => call.scope \cap Eager \subseteq isRegistered

\* A call of bootAll, or the second half of bootstrap.
BootingOK(call) ==
    /\ registered
    /\ Respects(Deps, call.todo)
    /\ (isRegistered \cap Eager) \ Range(call.todo) \subseteq isBooted
    /\ call.inCall => call.todo # << >> /\ Head(call.todo) \in isRegistered

\* A call of loadDeferredFor, which is always in a callback.
LoadingOK(call) ==
    /\ call.inCall
    /\ call.todo # << >>
    /\ Head(call.todo) \in byName \cap Deferred
    /\ call.phase = "boot" => Head(call.todo) \in isRegistered

CallOK(call) ==
    /\ Registering(call) => RegisteringOK(call)
    /\ Booting(call) => BootingOK(call)
    /\ call.op = "load" => LoadingOK(call)

\* Only the last call may be between callbacks, and of two register loops the
\* inner one has sorted all the outer one has.
Nested(calls) ==
    /\ \A k \in 1..Len(calls) - 1 : calls[k].inCall
    /\ \A j, k \in DOMAIN calls :
           j < k /\ Registering(calls[j]) /\ Registering(calls[k])
               => calls[j].scope \subseteq calls[k].scope

IInv ==
    /\ TypeOK
    /\ isBooted \subseteq isRegistered
    /\ isRegistered \subseteq byName
    /\ Range(deferredMap) \subseteq byName \cap Deferred
    /\ BootedMeansBooted
    /\ DeferredStaysReachable
    /\ \A call \in Range(stack) : CallOK(call)
    /\ Nested(stack)

-------------------------------------------------------------------------------

\* The manager implements the life cycle of Lifecycle.
StateOf(p) ==
    CASE p \in isBooted -> "booted"
      [] p \in isRegistered \ isBooted -> "registered"
      [] p \in byName \ (isRegistered \union isBooted) -> "added"
      [] OTHER -> "absent"

Life == INSTANCE Lifecycle WITH
            state <- [p \in Providers |-> StateOf(p)],
            phase <- IF booted THEN "booted"
                     ELSE IF registered THEN "registered" ELSE "configuring"

ImplementsLifecycle == Life!Spec

================================================================================
