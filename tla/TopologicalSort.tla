---------------------------- MODULE TopologicalSort ----------------------------
(***************************************************************************)
(* ServiceManager::sortByDependencies and the recursive topologicalSort it *)
(* calls (src/engine/services/ServiceManager.cc:256-298), one step per     *)
(* branch.  The C++ call stack is the variable stack: one frame per active *)
(* call of topologicalSort.                                                *)
(***************************************************************************)
EXTENDS Integers, DependencyOrder

CONSTANTS
    Names,            \* provider names, those of missing providers included
    MaxDependencies   \* bound: the length of a dependencies() list in Init

ASSUME NamesAssumption == IsFiniteSet(Names)
ASSUME MaxDependenciesAssumption == MaxDependencies \in Nat

VARIABLES
    providers,  \* providers_: the names in the order they were added
    deps,       \* what dependencies() of each added provider returns
    next,       \* sortByDependencies: the next index into providers_
    stack,      \* the active calls of topologicalSort, outermost first
    visited, inStack, result,  \* the locals of sortByDependencies
    status      \* "sorting", "sorted" (returned) or "cycle" (threw)

input == <<providers, deps>>
locals == <<visited, inStack, result>>
vars == <<providers, deps, next, stack, visited, inStack, result, status>>

\* byName_ has exactly the added providers as its keys.
Added == Range(providers)

\* dependencies() as a set, the form in which DependencyOrder speaks of it.
DependsOn == [p \in Added |-> Range(deps[p])]

-------------------------------------------------------------------------------

\* add() ignores a name it already has, so every order of adds is injective.
AddOrders == UNION {Bijection(1..Cardinality(S), S) : S \in SUBSET Names}

DependencyLists == UNION {[1..n -> Names] : n \in 0..MaxDependencies}

Init ==
    /\ providers \in AddOrders
    /\ deps \in [Added -> DependencyLists]
    /\ next = 1
    /\ stack = << >>
    /\ visited = {}
    /\ inStack = {}
    /\ result = << >>
    /\ status = "sorting"

-------------------------------------------------------------------------------

\* A frame: the provider of the call, whether the call is past its two early
\* exits (entered), and how many dependencies its loop has taken up.
Call(p) == [node |-> p, entered |-> FALSE, taken |-> 0]

Top == stack[Len(stack)]
Pop == SubSeq(stack, 1, Len(stack) - 1)

Running == status = "sorting" /\ stack # << >>
AtEntry == Running /\ ~Top.entered
InLoop  == Running /\ Top.entered

(***************************************************************************)
(* The loop of sortByDependencies, between two calls of topologicalSort.   *)
(***************************************************************************)
BetweenCalls == status = "sorting" /\ stack = << >>

VisitProvider ==
    /\ BetweenCalls
    /\ next \in DOMAIN providers
    /\ providers[next] \notin visited
    /\ stack' = <<Call(providers[next])>>
    /\ next' = next + 1
    /\ UNCHANGED <<input, locals, status>>

PassVisitedProvider ==
    /\ BetweenCalls
    /\ next \in DOMAIN providers
    /\ providers[next] \in visited
    /\ next' = next + 1
    /\ UNCHANGED <<input, locals, stack, status>>

ReturnResult ==
    /\ BetweenCalls
    /\ next \notin DOMAIN providers
    /\ status' = "sorted"
    /\ UNCHANGED <<input, locals, next, stack>>

(***************************************************************************)
(* The entry of topologicalSort: the throw, the early return, the insert.  *)
(***************************************************************************)
\* Variant of DetectCycle: a cycle is passed over instead of thrown.
DetectCycleSilently ==
    /\ AtEntry
    /\ Top.node \in inStack
    /\ stack' = Pop
    /\ UNCHANGED <<input, locals, next, status>>

DetectCycle ==
    /\ AtEntry
    /\ Top.node \in inStack
    /\ status' = "cycle"
    /\ UNCHANGED <<input, locals, next, stack>>

ReturnVisited ==
    /\ AtEntry
    /\ Top.node \notin inStack
    /\ Top.node \in visited
    /\ stack' = Pop
    /\ UNCHANGED <<input, locals, next, status>>

\* Variant of Enter: the provider counts as visited from its entry on.
EnterAsVisited ==
    /\ AtEntry
    /\ Top.node \notin inStack
    /\ Top.node \notin visited
    /\ inStack' = inStack \union {Top.node}
    /\ visited' = visited \union {Top.node}
    /\ stack' = [stack EXCEPT ![Len(stack)].entered = TRUE]
    /\ UNCHANGED <<input, result, next, status>>

\* Variant of Enter: a provider that is being visited can be entered again.
EnterUnmarked ==
    /\ AtEntry
    /\ Top.node \notin inStack
    /\ Top.node \notin visited
    /\ stack' = [stack EXCEPT ![Len(stack)].entered = TRUE]
    /\ UNCHANGED <<input, locals, next, status>>

Enter ==
    /\ AtEntry
    /\ Top.node \notin inStack
    /\ Top.node \notin visited
    /\ inStack' = inStack \union {Top.node}
    /\ stack' = [stack EXCEPT ![Len(stack)].entered = TRUE]
    /\ UNCHANGED <<input, visited, result, next, status>>

(***************************************************************************)
(* Its loop over dependencies(), and what follows the loop.                *)
(***************************************************************************)
Dependency == deps[Top.node][Top.taken + 1]

Taken == [stack EXCEPT ![Len(stack)].taken = @ + 1]

SkipMissing ==
    /\ InLoop
    /\ Top.taken < Len(deps[Top.node])
    /\ Dependency \notin Added
    /\ stack' = Taken
    /\ UNCHANGED <<input, locals, next, status>>

Descend ==
    /\ InLoop
    /\ Top.taken < Len(deps[Top.node])
    /\ Dependency \in Added
    /\ stack' = Append(Taken, Call(Dependency))
    /\ UNCHANGED <<input, locals, next, status>>

\* Variant of Finish: the erase from inStack is forgotten.
FinishWithoutErase ==
    /\ InLoop
    /\ Top.taken = Len(deps[Top.node])
    /\ visited' = visited \union {Top.node}
    /\ result' = Append(result, Top.node)
    /\ stack' = Pop
    /\ UNCHANGED <<input, inStack, next, status>>

\* Variant of Finish: the provider goes to the front of result.
FinishAtFront ==
    /\ InLoop
    /\ Top.taken = Len(deps[Top.node])
    /\ inStack' = inStack \ {Top.node}
    /\ visited' = visited \union {Top.node}
    /\ result' = <<Top.node>> \o result
    /\ stack' = Pop
    /\ UNCHANGED <<input, next, status>>

Finish ==
    /\ InLoop
    /\ Top.taken = Len(deps[Top.node])
    /\ inStack' = inStack \ {Top.node}
    /\ visited' = visited \union {Top.node}
    /\ result' = Append(result, Top.node)
    /\ stack' = Pop
    /\ UNCHANGED <<input, next, status>>

Next ==
    \/ VisitProvider \/ PassVisitedProvider \/ ReturnResult
    \/ DetectCycle \/ ReturnVisited \/ Enter
    \/ SkipMissing \/ Descend \/ Finish

Spec == Init /\ [][Next]_vars

\* The call runs in one thread that nothing preempts for ever.
FairSpec == Spec /\ WF_vars(Next)

-------------------------------------------------------------------------------

Frame == [node : Added, entered : BOOLEAN, taken : Nat]

\* The types of the variables.
TypeOK ==
    /\ providers \in Seq(Names)
    /\ IsInjective(providers)
    /\ deps \in [Added -> Seq(Names)]
    /\ next \in 1..Len(providers) + 1
    /\ stack \in Seq(Frame)
    /\ visited \subseteq Added
    /\ inStack \subseteq Added
    /\ result \in Seq(Added)
    /\ status \in {"sorting", "sorted", "cycle"}

\* inStack holds the providers of the calls past their early exits, each of
\* which has one such call: the exception test looks at the right set.
InStackIsCallStack ==
    /\ inStack = {stack[k].node : k \in {j \in DOMAIN stack : stack[j].entered}}
    /\ \A j, k \in DOMAIN stack :
           stack[j].entered /\ stack[k].entered /\ stack[j].node = stack[k].node
               => j = k

\* Every call but the last waits for the next one, made for the dependency
\* its loop took up last.
CallsFollowDependencies ==
    \A k \in 1..Len(stack) - 1 :
        /\ stack[k].entered
        /\ stack[k].taken \in 1..Len(deps[stack[k].node])
        /\ stack[k + 1].node = deps[stack[k].node][stack[k].taken]

\* visited holds what is in result, once; nothing in it has an active call.
VisitedIsResult ==
    /\ visited = Range(result)
    /\ IsInjective(result)
    /\ visited \cap inStack = {}

\* An added dependency of a provider in result is in result before it.
ResultIsClosed ==
    \A i \in DOMAIN result : \A d \in DependsOn[result[i]] \cap Added :
        \E j \in 1..i - 1 : result[j] = d

\* A dependency taken up is missing, visited, or the one being visited now.
CallIsProcessed(k) ==
    /\ ~stack[k].entered => stack[k].taken = 0
    /\ stack[k].taken <= Len(deps[stack[k].node])
    /\ \A i \in 1..stack[k].taken :
           \/ deps[stack[k].node][i] \notin Added
           \/ deps[stack[k].node][i] \in visited
           \/ k < Len(stack) /\ i = stack[k].taken

TakenIsProcessed == \A k \in DOMAIN stack : CallIsProcessed(k)

\* The outer loop has visited every provider it has passed, but for the one
\* whose call is active.
PassedIsVisited ==
    \A i \in 1..next - 1 :
        \/ providers[i] \in visited
        \/ stack # << >> /\ i = next - 1 /\ stack[1].node = providers[i]

\* The strengthening of the two properties below that is inductive.
IInv ==
    /\ TypeOK
    /\ InStackIsCallStack
    /\ CallsFollowDependencies
    /\ VisitedIsResult
    /\ ResultIsClosed
    /\ TakenIsProcessed
    /\ PassedIsVisited
    /\ status = "sorted" => stack = << >> /\ next = Len(providers) + 1
    /\ status = "cycle" => Cyclic(DependsOn, Added)

\* sortByDependencies returns every added provider once and after whatever
\* it depends on.
SortedRespectsDependencies ==
    status = "sorted" => result \in Orders(DependsOn, Added)

\* "Circular dependency detected" is thrown only when the dependencies of the
\* added providers form a cycle: a diamond, a repeated entry of a
\* dependencies() list or a missing provider never triggers it.
ReportedCycleIsReal ==
    status = "cycle" => Cyclic(DependsOn, Added)

\* The active calls that are in their loop: all but one at its entry.
Loops == IF stack # << >> /\ ~Top.entered THEN Len(stack) - 1 ELSE Len(stack)

\* How much is left to do, in the order of what the search does least often.
Measure ==
    <<IF status = "sorting" THEN 1 ELSE 0,
      Cardinality(Added \ (visited \union inStack)),
      Len(providers) + 1 - next,
      Cardinality(inStack),
      IF Loops = 0 THEN 0
      ELSE Len(deps[stack[Loops].node]) - stack[Loops].taken,
      Len(stack) - Loops>>

\* The first entry in which m and n differ is smaller in m.
Closer(m, n) ==
    \E k \in 1..6 : m[k] < n[k] /\ \A j \in 1..(k - 1) : m[j] = n[j]

\* Every step of the search brings it closer to its end, however the
\* dependencies are linked: it descends for ever into no cycle, and calls for
\* no provider so often that the loops above it never end.
Advances == [][Closer(Measure', Measure)]_vars

\* The recursive search implements the abstract sort: same outcome, and one
\* is reached, however the dependencies are linked (cycles included).
Sort == INSTANCE SortSpec WITH
            names <- Added,
            deps <- DependsOn,
            result <- IF status = "sorted" THEN result ELSE << >>

ImplementsSort == Sort!Spec

================================================================================
