------------------------- MODULE TopologicalSortProofs -------------------------
(***************************************************************************)
(* Proofs about TopologicalSort, for every finite set of names, every      *)
(* dependency graph over them and every order of adds.                     *)
(***************************************************************************)
EXTENDS TopologicalSort, FiniteSetTheorems, SequenceTheorems, TLAPS

\* An order of adds is a sequence of distinct names.
LEMMA AddOrdersFacts ==
    ASSUME NEW s \in AddOrders
    PROVE  s \in Seq(Names) /\ IsInjective(s)
<1>1. PICK S \in SUBSET Names : s \in Bijection(1..Cardinality(S), S)
  BY DEF AddOrders
<1>2. Cardinality(S) \in Nat
  BY NamesAssumption, FS_Subset, FS_CardinalityType
<1>3. s \in [1..Cardinality(S) -> S] /\ IsInjective(s)
  BY <1>1 DEF Bijection, Injection
<1>4. s \in Seq(S)
  BY <1>2, <1>3
<1>5. QED
  BY <1>3, <1>4

\* The initial states satisfy the invariant.
LEMMA InitInvariant == Init => IInv
<1> SUFFICES ASSUME Init PROVE IInv
  OBVIOUS
<1>1. providers \in Seq(Names) /\ IsInjective(providers)
  BY AddOrdersFacts DEF Init
<1>2. deps \in [Added -> Seq(Names)]
  <2>1. DependencyLists \subseteq Seq(Names)
    BY MaxDependenciesAssumption DEF DependencyLists
  <2>2. QED
    BY <2>1 DEF Init
<1>3. TypeOK
  BY <1>1, <1>2 DEF Init, TypeOK
<1>4. DOMAIN stack = {} /\ DOMAIN result = {} /\ Len(stack) = 0
  BY DEF Init
<1>5. InStackIsCallStack /\ CallsFollowDependencies /\ TakenIsProcessed
  BY <1>4 DEF Init, InStackIsCallStack, CallsFollowDependencies, TakenIsProcessed
<1>6. VisitedIsResult /\ ResultIsClosed /\ PassedIsVisited
  BY <1>4 DEF Init, VisitedIsResult, ResultIsClosed, PassedIsVisited, Range, IsInjective
<1>7. QED
  BY <1>3, <1>5, <1>6 DEF Init, IInv

-------------------------------------------------------------------------------

\* The providers and their dependencies never change during a sort.
LEMMA InputFixed ==
    ASSUME UNCHANGED input
    PROVE  Added' = Added /\ DependsOn' = DependsOn
BY DEF input, Added, DependsOn

\* dependencies() of an added provider is a list of names.
LEMMA DepsList ==
    ASSUME TypeOK, NEW p \in Added
    PROVE  /\ deps[p] \in Seq(Names) /\ Len(deps[p]) \in Nat
           /\ DOMAIN deps[p] = 1..Len(deps[p])
BY DEF TypeOK

\* What the typing of the stack says of the call on top of it.
LEMMA TopFacts ==
    ASSUME TypeOK, stack # << >>
    PROVE  /\ Len(stack) \in Nat \ {0}
           /\ \A k \in 1..Len(stack) : stack[k] \in Frame
           /\ Top \in Frame
           /\ Pop \in Seq(Frame)
           /\ Len(Pop) = Len(stack) - 1
           /\ \A k \in 1..Len(stack) - 1 : Pop[k] = stack[k]
<1>1. Len(stack) \in Nat \ {0} /\ \A k \in 1..Len(stack) : stack[k] \in Frame
  BY DEF TypeOK
<1> DEFINE n == Len(stack) - 1
<1>2. n \in Nat /\ \A k \in 1..n : stack[k] \in Frame
  BY <1>1
<1> HIDE DEF n
<1>3. /\ SubSeq(stack, 1, n) \in Seq(Frame)
      /\ Len(SubSeq(stack, 1, n)) = IF 1 <= n THEN n - 1 + 1 ELSE 0
      /\ \A k \in 1..n - 1 + 1 : SubSeq(stack, 1, n)[k] = stack[1 + k - 1]
  BY <1>2, SubSeqProperties
<1>4. /\ SubSeq(stack, 1, n) \in Seq(Frame)
      /\ Len(SubSeq(stack, 1, n)) = n
      /\ \A k \in 1..n : SubSeq(stack, 1, n)[k] = stack[k]
  BY <1>2, <1>3
<1>5. QED
  BY <1>1, <1>4 DEF TypeOK, Top, Pop, n

LEMMA VisitProviderStep == IInv /\ VisitProvider => IInv'
<1> SUFFICES ASSUME IInv, VisitProvider PROVE IInv'
  OBVIOUS
<1> DEFINE p == providers[next]
<1>1. next \in 1..Len(providers) /\ p \in Added /\ Len(providers) \in Nat
  BY DEF IInv, TypeOK, VisitProvider, Added, Range
<1>2. /\ Added' = Added /\ DependsOn' = DependsOn
      /\ UNCHANGED <<providers, deps, visited, inStack, result, status>>
  BY InputFixed DEF VisitProvider, input, locals
<1>3. /\ stack = << >> /\ status = "sorting" /\ next' = next + 1
      /\ stack' = <<Call(p)>>
  BY DEF VisitProvider, BetweenCalls
<1> HIDE DEF p
<1>4. /\ DOMAIN stack' = {1} /\ Len(stack') = 1 /\ stack'[1] = Call(p)
      /\ stack' \in Seq(Frame)
  BY <1>1, <1>3 DEF Call, Frame
<1>5. TypeOK'
  BY <1>1, <1>2, <1>3, <1>4 DEF IInv, TypeOK, Frame
<1>6. InStackIsCallStack'
  <2>1. inStack = {}
    BY <1>3 DEF IInv, InStackIsCallStack
  <2>2. QED
    BY <2>1, <1>2, <1>4 DEF InStackIsCallStack, Call
<1>7. CallsFollowDependencies'
  BY <1>4 DEF CallsFollowDependencies
<1>8. VisitedIsResult' /\ ResultIsClosed'
  BY <1>2 DEF IInv, VisitedIsResult, ResultIsClosed
<1>9. TakenIsProcessed'
  <2>1. Len(deps[p]) \in Nat
    BY <1>1 DEF IInv, TypeOK
  <2>2. QED
    BY <1>2, <1>4, <2>1 DEF TakenIsProcessed, CallIsProcessed, Call
<1>10. PassedIsVisited'
  <2> SUFFICES ASSUME NEW i \in 1..next
               PROVE  providers[i] \in visited \/ i = next
    BY <1>1, <1>2, <1>3, <1>4 DEF PassedIsVisited, Call, p
  <2>1. QED
    BY <1>1, <1>3 DEF IInv, PassedIsVisited
<1>11. QED
  BY <1>2, <1>3, <1>5, <1>6, <1>7, <1>8, <1>9, <1>10 DEF IInv

LEMMA PassVisitedProviderStep == IInv /\ PassVisitedProvider => IInv'
<1> SUFFICES ASSUME IInv, PassVisitedProvider PROVE IInv'
  OBVIOUS
<1>1. next \in 1..Len(providers) /\ Len(providers) \in Nat
  BY DEF IInv, TypeOK, PassVisitedProvider
<1>2. /\ Added' = Added /\ DependsOn' = DependsOn
      /\ UNCHANGED <<providers, deps, stack, visited, inStack, result, status>>
  BY InputFixed DEF PassVisitedProvider, input, locals
<1>3. /\ stack = << >> /\ status = "sorting" /\ next' = next + 1
      /\ providers[next] \in visited
  BY DEF PassVisitedProvider, BetweenCalls
<1>4. TypeOK'
  BY <1>1, <1>2, <1>3 DEF IInv, TypeOK, Frame
<1>5. InStackIsCallStack' /\ CallsFollowDependencies' /\ TakenIsProcessed'
  BY <1>2 DEF IInv, InStackIsCallStack, CallsFollowDependencies,
              TakenIsProcessed, CallIsProcessed
<1>6. VisitedIsResult' /\ ResultIsClosed'
  BY <1>2 DEF IInv, VisitedIsResult, ResultIsClosed
<1>7. PassedIsVisited'
  BY <1>1, <1>2, <1>3 DEF IInv, PassedIsVisited
<1>8. QED
  BY <1>2, <1>3, <1>4, <1>5, <1>6, <1>7 DEF IInv

LEMMA ReturnResultStep == IInv /\ ReturnResult => IInv'
<1> SUFFICES ASSUME IInv, ReturnResult PROVE IInv'
  OBVIOUS
<1>1. /\ Added' = Added /\ DependsOn' = DependsOn
      /\ UNCHANGED <<providers, deps, next, stack, visited, inStack, result>>
      /\ status' = "sorted" /\ stack = << >>
  BY InputFixed DEF ReturnResult, BetweenCalls, input, locals
<1>2. next = Len(providers) + 1
  BY DEF IInv, TypeOK, ReturnResult
<1>3. TypeOK'
  BY <1>1 DEF IInv, TypeOK, Frame
<1>4. /\ InStackIsCallStack' /\ CallsFollowDependencies' /\ TakenIsProcessed'
      /\ VisitedIsResult' /\ ResultIsClosed' /\ PassedIsVisited'
  BY <1>1 DEF IInv, InStackIsCallStack, CallsFollowDependencies,
              TakenIsProcessed, CallIsProcessed, VisitedIsResult, ResultIsClosed, PassedIsVisited
<1>5. QED
  BY <1>1, <1>2, <1>3, <1>4 DEF IInv

\* A call at its entry for a provider in inStack: the calls from that
\* provider's call up to this one follow a cycle of dependencies.
LEMMA DetectCycleStep == IInv /\ DetectCycle => IInv'
<1> SUFFICES ASSUME IInv, DetectCycle PROVE IInv'
  OBVIOUS
<1> DEFINE n == Len(stack)
<1>1. /\ Added' = Added /\ DependsOn' = DependsOn
      /\ UNCHANGED <<providers, deps, next, stack, visited, inStack, result>>
      /\ status' = "cycle" /\ stack # << >> /\ ~Top.entered /\ Top.node \in inStack
  BY InputFixed DEF DetectCycle, AtEntry, Running, input, locals
<1>2. n \in Nat \ {0} /\ \A k \in 1..n : stack[k] \in Frame
  BY <1>1, TopFacts DEF IInv
<1>3. PICK m \in 1..n : stack[m].entered /\ stack[m].node = Top.node
  <2>1. DOMAIN stack = 1..n
    BY DEF IInv, TypeOK
  <2>2. QED
    BY <1>1, <2>1 DEF IInv, InStackIsCallStack
<1>4. m < n
  BY <1>1, <1>2, <1>3 DEF Top
<1> HIDE DEF n
<1> DEFINE C == {stack[k].node : k \in m..n - 1}
<1>5. C \subseteq Added /\ C # {}
  BY <1>2, <1>3, <1>4 DEF Frame
<1>6. ASSUME NEW k \in m..n - 1
      PROVE  DependsOn[stack[k].node] \cap C # {}
  <2>1. /\ k \in 1..n - 1 /\ k + 1 \in 1..n /\ stack[k].node \in Added
        /\ stack[k + 1].node = deps[stack[k].node][stack[k].taken]
        /\ stack[k].taken \in 1..Len(deps[stack[k].node])
    BY <1>2, <1>3, <1>6 DEF IInv, CallsFollowDependencies, Frame, n
  <2>2. stack[k + 1].node \in DependsOn[stack[k].node]
    <3>1. deps[stack[k].node] \in Seq(Names)
      BY <2>1 DEF IInv, TypeOK
    <3>2. QED
      BY <2>1, <3>1 DEF DependsOn, Range
  <2>3. CASE k + 1 = n
    BY <1>3, <1>4, <2>2, <2>3 DEF Top, n
  <2>4. CASE k + 1 # n
    BY <1>2, <1>3, <2>2, <2>4
  <2>5. QED
    BY <2>3, <2>4
<1>7. Cyclic(DependsOn, Added)
  <2>1. \A q \in C : DependsOn[q] \cap C # {}
    BY <1>6
  <2> HIDE DEF C
  <2>2. QED
    BY <1>5, <2>1 DEF Cyclic
<1>8. TypeOK'
  BY <1>1 DEF IInv, TypeOK, Frame
<1>9. /\ InStackIsCallStack' /\ CallsFollowDependencies' /\ TakenIsProcessed'
      /\ VisitedIsResult' /\ ResultIsClosed' /\ PassedIsVisited'
  BY <1>1 DEF IInv, InStackIsCallStack, CallsFollowDependencies,
              TakenIsProcessed, CallIsProcessed, VisitedIsResult, ResultIsClosed, PassedIsVisited
<1>10. QED
  BY <1>1, <1>7, <1>8, <1>9 DEF IInv

LEMMA ReturnVisitedStep == IInv /\ ReturnVisited => IInv'
<1> SUFFICES ASSUME IInv, ReturnVisited PROVE IInv'
  OBVIOUS
<1> DEFINE n == Len(stack)
<1>1. /\ Added' = Added /\ DependsOn' = DependsOn
      /\ UNCHANGED <<providers, deps, next, visited, inStack, result, status>>
      /\ stack' = Pop /\ stack # << >> /\ status = "sorting"
      /\ ~Top.entered /\ Top.node \in visited
  BY InputFixed DEF ReturnVisited, AtEntry, Running, input, locals
<1>2. /\ n \in Nat \ {0} /\ \A k \in 1..n : stack[k] \in Frame
      /\ stack' \in Seq(Frame) /\ Len(stack') = n - 1 /\ DOMAIN stack' = 1..n - 1
      /\ \A k \in 1..n - 1 : stack'[k] = stack[k]
      /\ DOMAIN stack = 1..n /\ Top = stack[n]
  BY <1>1, TopFacts DEF IInv, TypeOK, Top
<1> HIDE DEF n
<1>3. TypeOK'
  BY <1>1, <1>2 DEF IInv, TypeOK, Frame
<1>4. InStackIsCallStack'
  <2>1. {j \in DOMAIN stack : stack[j].entered} = {j \in DOMAIN stack' : stack'[j].entered}
    BY <1>1, <1>2
  <2>2. QED
    BY <1>1, <1>2, <2>1 DEF IInv, InStackIsCallStack
<1>5. CallsFollowDependencies'
  <2>1. Len(stack') - 1 = n - 2
    BY <1>2
  <2>2. ASSUME NEW k \in 1..n - 2
        PROVE  /\ k \in 1..n - 1 /\ stack'[k] = stack[k]
               /\ stack'[k + 1] = stack[k + 1]
    <3>1. k \in 1..n - 1 /\ k + 1 \in 1..n - 1
      BY <1>2
    <3>2. QED
      BY <1>2, <3>1
  <2>3. \A k \in 1..n - 1 :
            /\ stack[k].entered
            /\ stack[k].taken \in 1..Len(deps[stack[k].node])
            /\ stack[k + 1].node = deps[stack[k].node][stack[k].taken]
    BY DEF IInv, CallsFollowDependencies, n
  <2>4. QED
    BY <1>1, <2>1, <2>2, <2>3 DEF CallsFollowDependencies
<1>6. VisitedIsResult' /\ ResultIsClosed'
  BY <1>1 DEF IInv, VisitedIsResult, ResultIsClosed
<1>7. TakenIsProcessed'
  <2> SUFFICES ASSUME NEW k \in 1..n - 1
               PROVE  /\ ~stack[k].entered => stack[k].taken = 0
                      /\ stack[k].taken <= Len(deps[stack[k].node])
                      /\ \A i \in 1..stack[k].taken :
                            \/ deps[stack[k].node][i] \notin Added
                            \/ deps[stack[k].node][i] \in visited
                            \/ k < n - 1 /\ i = stack[k].taken
    BY <1>1, <1>2 DEF TakenIsProcessed, CallIsProcessed
  <2>1. k \in 1..n /\ (k = n - 1 \/ k < n - 1)
    BY <1>2
  <2>2. stack[k + 1].node = deps[stack[k].node][stack[k].taken]
    BY DEF IInv, CallsFollowDependencies, n
  <2>3. /\ ~stack[k].entered => stack[k].taken = 0
        /\ stack[k].taken <= Len(deps[stack[k].node])
        /\ \A i \in 1..stack[k].taken :
              \/ deps[stack[k].node][i] \notin Added
              \/ deps[stack[k].node][i] \in visited
              \/ k < n /\ i = stack[k].taken
    BY <1>2, <2>1 DEF IInv, TakenIsProcessed, CallIsProcessed, n
  <2>4. CASE k = n - 1
    <3>1. deps[stack[k].node][stack[k].taken] \in visited
      BY <1>1, <1>2, <2>2, <2>4
    <3>2. QED
      BY <2>3, <3>1
  <2>5. CASE k < n - 1
    BY <2>3, <2>5
  <2>6. QED
    BY <2>1, <2>4, <2>5
<1>8. PassedIsVisited'
  BY <1>1, <1>2 DEF IInv, PassedIsVisited
<1>9. QED
  BY <1>1, <1>3, <1>4, <1>5, <1>6, <1>7, <1>8 DEF IInv

\* Passing the early exits changes one field of a frame.
LEMMA EnteredFrame ==
    ASSUME NEW r \in Frame
    PROVE  /\ [r EXCEPT !.entered = TRUE] \in Frame
           /\ [r EXCEPT !.entered = TRUE].node = r.node
           /\ [r EXCEPT !.entered = TRUE].taken = r.taken
           /\ [r EXCEPT !.entered = TRUE].entered = TRUE
<1>1. r = [node |-> r.node, entered |-> r.entered, taken |-> r.taken]
  BY DEF Frame
<1>2. QED
  BY <1>1 DEF Frame

LEMMA EnterStep == IInv /\ Enter => IInv'
<1> SUFFICES ASSUME IInv, Enter PROVE IInv'
  OBVIOUS
<1> DEFINE n == Len(stack)
<1>1. /\ Added' = Added /\ DependsOn' = DependsOn
      /\ UNCHANGED <<providers, deps, next, visited, result, status>>
      /\ inStack' = inStack \union {Top.node}
      /\ stack' = [stack EXCEPT ![n].entered = TRUE]
      /\ stack # << >> /\ status = "sorting"
      /\ ~Top.entered /\ Top.node \notin inStack /\ Top.node \notin visited
  BY InputFixed DEF Enter, AtEntry, Running, input
<1>2. /\ n \in Nat \ {0} /\ \A k \in 1..n : stack[k] \in Frame
      /\ DOMAIN stack = 1..n /\ Top = stack[n]
  BY <1>1, TopFacts DEF IInv, TypeOK, Top
<1>3. /\ stack' \in Seq(Frame) /\ Len(stack') = n /\ DOMAIN stack' = 1..n
      /\ \A k \in 1..n : /\ stack'[k].node = stack[k].node
                         /\ stack'[k].taken = stack[k].taken
                         /\ stack'[k].entered <=> stack[k].entered \/ k = n
  <2> DEFINE f == [Top EXCEPT !.entered = TRUE]
  <2>1. Top \in Frame
    BY <1>2
  <2>2. stack' = [stack EXCEPT ![n] = f]
    BY <1>1 DEF Top
  <2>3. stack \in Seq(Frame)
    BY DEF IInv, TypeOK
  <2> HIDE DEF f
  <2>4. /\ f \in Frame /\ f.node = Top.node /\ f.taken = Top.taken /\ f.entered
    BY <2>1, EnteredFrame DEF f
  <2>5. /\ stack' \in Seq(Frame) /\ Len(stack') = n /\ DOMAIN stack' = 1..n
        /\ \A k \in 1..n : stack'[k] = IF k = n THEN f ELSE stack[k]
    BY <1>2, <2>2, <2>3, <2>4
  <2>6. QED
    BY <1>2, <2>4, <2>5
<1> HIDE DEF n
<1>4. TypeOK'
  BY <1>1, <1>2, <1>3 DEF IInv, TypeOK, Frame
<1>5. InStackIsCallStack'
  <2>1. {j \in DOMAIN stack' : stack'[j].entered} = {j \in DOMAIN stack : stack[j].entered} \union {n}
    BY <1>2, <1>3, SMT
  <2>2. \A j \in 1..n : stack[j].entered => stack[j].node # stack[n].node
    BY <1>1, <1>2 DEF IInv, InStackIsCallStack
  <2>3. QED
    BY <1>1, <1>2, <1>3, <2>1, <2>2 DEF IInv, InStackIsCallStack
<1>6. CallsFollowDependencies'
  BY <1>1, <1>2, <1>3 DEF IInv, CallsFollowDependencies, n
<1>7. VisitedIsResult' /\ ResultIsClosed'
  BY <1>1, <1>2 DEF IInv, VisitedIsResult, ResultIsClosed
<1>8. TakenIsProcessed'
  BY <1>1, <1>2, <1>3 DEF IInv, TakenIsProcessed, CallIsProcessed, n
<1>9. PassedIsVisited'
  BY <1>1, <1>2, <1>3 DEF IInv, PassedIsVisited
<1>10. QED
  BY <1>1, <1>4, <1>5, <1>6, <1>7, <1>8, <1>9 DEF IInv

\* Taking up a dependency changes one field of a frame.
LEMMA TakenFrame ==
    ASSUME NEW r \in Frame
    PROVE  /\ [r EXCEPT !.taken = @ + 1] \in Frame
           /\ [r EXCEPT !.taken = @ + 1].node = r.node
           /\ [r EXCEPT !.taken = @ + 1].entered = r.entered
           /\ [r EXCEPT !.taken = @ + 1].taken = r.taken + 1
<1>1. /\ r = [node |-> r.node, entered |-> r.entered, taken |-> r.taken]
      /\ r.node \in Added /\ r.entered \in BOOLEAN /\ r.taken \in Nat
  BY DEF Frame
<1>2. [r EXCEPT !.taken = @ + 1] =
          [node |-> r.node, entered |-> r.entered, taken |-> r.taken + 1]
  BY <1>1
<1>3. QED
  BY <1>1, <1>2 DEF Frame

\* Taking up a dependency advances the loop of the call on top, only.
LEMMA TakenFacts ==
    ASSUME TypeOK, stack # << >>
    PROVE  /\ Taken \in Seq(Frame) /\ Len(Taken) = Len(stack)
           /\ \A k \in 1..Len(stack) :
                /\ Taken[k].node = stack[k].node
                /\ Taken[k].entered = stack[k].entered
                /\ Taken[k].taken = IF k = Len(stack) THEN Top.taken + 1
                                                     ELSE stack[k].taken
<1> DEFINE n == Len(stack)
           f == [Top EXCEPT !.taken = @ + 1]
<1>1. /\ n \in Nat \ {0} /\ Top \in Frame
      /\ \A k \in 1..n : stack[k] \in Frame
  BY TopFacts
<1>2. /\ f \in Frame /\ f.node = Top.node /\ f.entered = Top.entered
      /\ f.taken = Top.taken + 1
  BY <1>1, TakenFrame
<1>3. Taken = [stack EXCEPT ![n] = f] /\ stack \in Seq(Frame)
  BY DEF Taken, Top, TypeOK
<1> HIDE DEF f
<1>4. /\ Taken \in Seq(Frame) /\ Len(Taken) = n
      /\ \A k \in 1..n : Taken[k] = IF k = n THEN f ELSE stack[k]
  BY <1>1, <1>2, <1>3
<1>5. QED
  BY <1>1, <1>2, <1>4 DEF Top

LEMMA SkipMissingStep == IInv /\ SkipMissing => IInv'
<1> SUFFICES ASSUME IInv, SkipMissing PROVE IInv'
  OBVIOUS
<1> DEFINE n == Len(stack)
<1>1. /\ Added' = Added /\ DependsOn' = DependsOn
      /\ UNCHANGED <<providers, deps, next, visited, inStack, result, status>>
      /\ stack' = Taken /\ stack # << >> /\ status = "sorting"
      /\ Top.entered /\ Top.taken < Len(deps[Top.node])
      /\ deps[Top.node][Top.taken + 1] \notin Added
  BY InputFixed DEF SkipMissing, InLoop, Running, input, locals, Dependency
<1>2. /\ n \in Nat \ {0} /\ \A k \in 1..n : stack[k] \in Frame
      /\ DOMAIN stack = 1..n /\ Top = stack[n]
  BY <1>1, TopFacts DEF IInv, TypeOK, Top
<1>3. /\ stack' \in Seq(Frame) /\ Len(stack') = n /\ DOMAIN stack' = 1..n
      /\ \A k \in 1..n : /\ stack'[k].node = stack[k].node
                         /\ stack'[k].entered = stack[k].entered
                         /\ stack'[k].taken = IF k = n THEN stack[n].taken + 1
                                                      ELSE stack[k].taken
  <2>1. stack' \in Seq(Frame) /\ Len(stack') = n
    BY <1>1, TakenFacts DEF IInv
  <2>2. DOMAIN stack' = 1..n
    BY <2>1
  <2>3. QED
    BY <1>1, <1>2, <2>1, <2>2, TakenFacts DEF IInv
<1> HIDE DEF n
<1>4. TypeOK'
  BY <1>1, <1>2, <1>3 DEF IInv, TypeOK, Frame
<1>5. InStackIsCallStack'
  <2>1. {j \in DOMAIN stack' : stack'[j].entered} = {j \in DOMAIN stack : stack[j].entered}
    BY <1>2, <1>3, SMT
  <2>2. QED
    BY <1>1, <1>2, <1>3, <2>1 DEF IInv, InStackIsCallStack
<1>6. CallsFollowDependencies'
  <2>1. ASSUME NEW k \in 1..n - 1
        PROVE  /\ stack'[k].entered = stack[k].entered
               /\ stack'[k].node = stack[k].node
               /\ stack'[k].taken = stack[k].taken
               /\ stack'[k + 1].node = stack[k + 1].node
    <3>1. k \in 1..n /\ k + 1 \in 1..n /\ k # n
      BY <1>2
    <3>2. QED
      BY <1>3, <3>1
  <2>2. \A k \in 1..n - 1 :
            /\ stack[k].entered
            /\ stack[k].taken \in 1..Len(deps[stack[k].node])
            /\ stack[k + 1].node = deps[stack[k].node][stack[k].taken]
    BY DEF IInv, CallsFollowDependencies, n
  <2>3. \A k \in 1..n - 1 :
            /\ stack'[k].entered
            /\ stack'[k].taken \in 1..Len(deps[stack'[k].node])
            /\ stack'[k + 1].node = deps[stack'[k].node][stack'[k].taken]
    BY <2>1, <2>2
  <2>4. Len(stack') - 1 = n - 1 /\ deps' = deps
    BY <1>1, <1>3
  <2>5. QED
    BY <2>3, <2>4 DEF CallsFollowDependencies
<1>7. VisitedIsResult' /\ ResultIsClosed'
  BY <1>1 DEF IInv, VisitedIsResult, ResultIsClosed
<1>8. TakenIsProcessed'
  <2> SUFFICES ASSUME NEW k \in 1..n PROVE CallIsProcessed(k)'
    BY <1>3 DEF TakenIsProcessed
  <2>1. CallIsProcessed(k) /\ Len(stack') = Len(stack)
    BY <1>2, <1>3 DEF IInv, TakenIsProcessed, n
  <2>2. CASE k # n
    BY <1>1, <1>2, <1>3, <2>1, <2>2 DEF CallIsProcessed, n
  <2>3. CASE k = n
    <3>1. Len(deps[stack[n].node]) \in Nat /\ stack[n].taken \in Nat
      BY <1>2 DEF IInv, TypeOK, Frame
    <3>2. /\ stack[n].entered /\ stack[n].taken < Len(deps[stack[n].node])
          /\ deps[stack[n].node][stack[n].taken + 1] \notin Added
          /\ stack'[n].taken = stack[n].taken + 1
          /\ stack'[n].entered = stack[n].entered /\ stack'[n].node = stack[n].node
      BY <1>1, <1>2, <1>3
    <3>3. QED
      BY <1>1, <2>1, <2>3, <3>1, <3>2 DEF CallIsProcessed, n
  <2>4. QED
    BY <2>2, <2>3
<1>9. PassedIsVisited'
  BY <1>1, <1>2, <1>3 DEF IInv, PassedIsVisited
<1>10. QED
  BY <1>1, <1>4, <1>5, <1>6, <1>7, <1>8, <1>9 DEF IInv

LEMMA DescendStep == IInv /\ Descend => IInv'
<1> SUFFICES ASSUME IInv, Descend PROVE IInv'
  OBVIOUS
<1> DEFINE n == Len(stack)
           d == Dependency
<1>1. /\ Added' = Added /\ DependsOn' = DependsOn
      /\ UNCHANGED <<providers, deps, next, visited, inStack, result, status>>
  BY InputFixed DEF Descend, input, locals
<1>2. /\ stack' = Append(Taken, Call(d)) /\ stack # << >> /\ status = "sorting"
      /\ Top.entered /\ Top.taken < Len(deps[Top.node])
      /\ d = deps[Top.node][Top.taken + 1] /\ d \in Added
  BY DEF Descend, InLoop, Running, Dependency
<1>3. n \in Nat \ {0} /\ DOMAIN stack = 1..n
  BY <1>2, TopFacts DEF IInv, TypeOK
<1>4. Top = stack[n] /\ stack[n] \in Frame
  BY <1>2, TopFacts DEF IInv, Top
<1>5. /\ Call(d) \in Frame /\ Call(d).node = d
      /\ Call(d).entered = FALSE /\ Call(d).taken = 0
  BY <1>2 DEF Call, Frame
<1> HIDE DEF d
<1>6. /\ Taken \in Seq(Frame) /\ Len(Taken) = n
      /\ \A k \in 1..n : /\ Taken[k].node = stack[k].node
                         /\ Taken[k].entered = stack[k].entered
                         /\ Taken[k].taken = IF k = n THEN Top.taken + 1
                                                    ELSE stack[k].taken
  BY <1>2, TakenFacts DEF IInv
<1>7. /\ stack[n].entered /\ stack[n].taken < Len(deps[stack[n].node])
      /\ stack[n].taken \in Nat /\ Len(deps[stack[n].node]) \in Nat
      /\ d = deps[stack[n].node][stack[n].taken + 1]
  BY <1>2, <1>4 DEF IInv, TypeOK, Frame
<1> HIDE DEF n
<1>8. /\ stack' \in Seq(Frame) /\ Len(stack') = n + 1
      /\ stack'[n + 1] = Call(d)
      /\ \A k \in 1..n : stack'[k] = Taken[k]
  BY <1>2, <1>3, <1>5, <1>6
<1>9. DOMAIN stack' = 1..n + 1 /\ Len(stack') - 1 = n
  BY <1>3, <1>8
<1>10. \A k \in 1..n : /\ stack'[k].node = stack[k].node
                       /\ stack'[k].entered = stack[k].entered
  BY <1>6, <1>8
<1>11. /\ \A k \in 1..n : k # n => stack'[k].taken = stack[k].taken
       /\ stack'[n].taken = stack[n].taken + 1
  BY <1>3, <1>4, <1>6, <1>8
<1>12. TypeOK'
  BY <1>1, <1>8 DEF IInv, TypeOK, Frame
<1>13. InStackIsCallStack'
  <2>1. \A j \in DOMAIN stack' : stack'[j].entered => j \in 1..n /\ stack[j].entered
    BY <1>3, <1>5, <1>8, <1>9, <1>10
  <2>2. {j \in DOMAIN stack' : stack'[j].entered} = {j \in DOMAIN stack : stack[j].entered}
    BY <1>3, <1>9, <1>10, <2>1
  <2>3. inStack' = {stack'[k].node : k \in {j \in DOMAIN stack' : stack'[j].entered}}
    <3>1. \A k \in {j \in DOMAIN stack : stack[j].entered} : stack'[k].node = stack[k].node
      BY <1>3, <1>10
    <3>2. QED
      BY <1>1, <2>2, <3>1 DEF IInv, InStackIsCallStack
  <2>4. ASSUME NEW j \in DOMAIN stack', NEW k \in DOMAIN stack',
               stack'[j].entered, stack'[k].entered, stack'[j].node = stack'[k].node
        PROVE  j = k
    <3>1. /\ j \in 1..n /\ stack[j].entered
          /\ k \in 1..n /\ stack[k].entered
      BY <2>1, <2>4
    <3>2. stack[j].node = stack[k].node
      BY <1>10, <2>4, <3>1
    <3>3. QED
      BY <1>3, <3>1, <3>2 DEF IInv, InStackIsCallStack
  <2>5. QED
    BY <2>3, <2>4 DEF InStackIsCallStack
<1>14. CallsFollowDependencies'
  <2> SUFFICES ASSUME NEW k \in 1..n
               PROVE  /\ stack'[k].entered
                      /\ stack'[k].taken \in 1..Len(deps[stack'[k].node])
                      /\ stack'[k + 1].node = deps[stack'[k].node][stack'[k].taken]
    BY <1>1, <1>9 DEF CallsFollowDependencies
  <2>1. CASE k = n
    <3>1. /\ stack'[n].entered = stack[n].entered /\ stack'[n].node = stack[n].node
          /\ stack'[n].taken = stack[n].taken + 1
      BY <1>3, <1>10, <1>11
    <3>2. stack'[n + 1].node = d
      BY <1>5, <1>8
    <3>3. stack[n].taken + 1 \in 1..Len(deps[stack[n].node])
      BY <1>7
    <3>4. QED
      BY <1>1, <1>7, <2>1, <3>1, <3>2, <3>3
  <2>2. CASE k # n
    <3>1. k \in 1..n - 1 /\ k + 1 \in 1..n
      BY <1>3, <2>2
    <3>2. /\ stack'[k].entered = stack[k].entered /\ stack'[k].node = stack[k].node
          /\ stack'[k].taken = stack[k].taken /\ stack'[k + 1].node = stack[k + 1].node
      BY <1>10, <1>11, <2>2, <3>1
    <3>3. /\ stack[k].entered /\ stack[k].taken \in 1..Len(deps[stack[k].node])
          /\ stack[k + 1].node = deps[stack[k].node][stack[k].taken]
      BY <3>1 DEF IInv, CallsFollowDependencies, n
    <3>4. QED
      BY <1>1, <3>2, <3>3
  <2>3. QED
    BY <2>1, <2>2
<1>15. VisitedIsResult' /\ ResultIsClosed'
  BY <1>1 DEF IInv, VisitedIsResult, ResultIsClosed
<1>16. TakenIsProcessed'
  <2> SUFFICES ASSUME NEW k \in 1..n + 1 PROVE CallIsProcessed(k)'
    BY <1>9 DEF TakenIsProcessed
  <2>1. CASE k = n + 1
    <3>1. Len(deps[d]) \in Nat
      BY <1>2, DepsList DEF IInv
    <3>2. /\ stack'[k].node = d /\ stack'[k].entered = FALSE
          /\ stack'[k].taken = 0
      BY <1>5, <1>8, <2>1
    <3>3. QED
      BY <1>1, <3>1, <3>2 DEF CallIsProcessed
  <2>2. CASE k # n + 1
    <3>1. k \in 1..n /\ k < Len(stack')
      BY <1>3, <1>8, <2>2
    <3>2. CallIsProcessed(k)
      BY <1>3, <3>1 DEF IInv, TakenIsProcessed
    <3>3. stack'[k].entered = stack[k].entered /\ stack'[k].node = stack[k].node
      BY <1>10, <3>1
    <3>4. CASE k # n
      <4>1. stack'[k].taken = stack[k].taken
        BY <1>11, <3>1, <3>4
      <4>2. k < n
        BY <1>3, <3>1, <3>4
      <4>3. QED
        BY <1>1, <3>1, <3>2, <3>3, <4>1, <4>2 DEF CallIsProcessed, n
    <3>5. CASE k = n
      <4>1. stack'[k].taken = stack[k].taken + 1
        BY <1>11, <3>5
      <4>2. /\ stack[k].entered /\ stack[k].taken < Len(deps[stack[k].node])
            /\ stack[k].taken \in Nat /\ Len(deps[stack[k].node]) \in Nat
        BY <1>7, <3>5
      <4>3. ~(k < n)
        BY <1>3, <3>5
      <4>4. QED
        BY <1>1, <3>1, <3>2, <3>3, <4>1, <4>2, <4>3 DEF CallIsProcessed, n
    <3>6. QED
      BY <3>4, <3>5
  <2>3. QED
    BY <2>1, <2>2
<1>17. PassedIsVisited'
  <2>1. stack'[1].node = stack[1].node /\ stack' # << >>
    BY <1>3, <1>8, <1>10
  <2>2. QED
    BY <1>1, <1>2, <2>1 DEF IInv, PassedIsVisited
<1>18. QED
  BY <1>1, <1>2, <1>12, <1>13, <1>14, <1>15, <1>16, <1>17 DEF IInv

\* Every added dependency of a provider whose loop is over is in result, so
\* result stays closed when the provider is appended to it.
LEMMA FinishStep == IInv /\ Finish => IInv'
<1> SUFFICES ASSUME IInv, Finish PROVE IInv'
  OBVIOUS
<1> DEFINE n == Len(stack)
           p == Top.node
           m == Len(result)
<1>1. /\ Added' = Added /\ DependsOn' = DependsOn
      /\ UNCHANGED <<providers, deps, next, status>>
      /\ stack' = Pop /\ stack # << >> /\ status = "sorting"
      /\ Top.entered /\ Top.taken = Len(deps[p])
      /\ inStack' = inStack \ {p} /\ visited' = visited \union {p}
      /\ result' = Append(result, p)
  BY InputFixed DEF Finish, InLoop, Running, input
<1>2. /\ n \in Nat \ {0} /\ \A k \in 1..n : stack[k] \in Frame
      /\ stack' \in Seq(Frame) /\ Len(stack') = n - 1 /\ DOMAIN stack' = 1..n - 1
      /\ \A k \in 1..n - 1 : stack'[k] = stack[k]
      /\ DOMAIN stack = 1..n /\ Top = stack[n] /\ p \in Added /\ p = stack[n].node
  <2>1. Top \in Frame /\ n \in Nat \ {0} /\ \A k \in 1..n : stack[k] \in Frame
    BY <1>1, TopFacts DEF IInv
  <2>2. /\ stack' \in Seq(Frame) /\ Len(stack') = n - 1
        /\ \A k \in 1..n - 1 : stack'[k] = stack[k]
    BY <1>1, TopFacts DEF IInv
  <2>3. DOMAIN stack = 1..n
    BY DEF IInv, TypeOK
  <2>4. p \in Added
    BY <2>1 DEF Frame
  <2>5. QED
    BY <2>1, <2>2, <2>3, <2>4 DEF Top
<1>3. p \in inStack /\ p \notin visited
  BY <1>1, <1>2 DEF IInv, InStackIsCallStack, VisitedIsResult
<1> HIDE DEF n, p
<1>4. /\ m \in Nat /\ DOMAIN result = 1..m /\ DOMAIN result' = 1..m + 1
      /\ result'[m + 1] = p /\ \A i \in 1..m : result'[i] = result[i]
      /\ result' \in Seq(Added) /\ p \notin Range(result)
  BY <1>1, <1>2, <1>3 DEF IInv, TypeOK, VisitedIsResult
<1> HIDE DEF m
<1>5. TypeOK'
  BY <1>1, <1>2, <1>4 DEF IInv, TypeOK, Frame
<1>6. InStackIsCallStack'
  <2>1. \A j, k \in 1..n : stack[j].entered /\ stack[k].entered
                               /\ stack[j].node = stack[k].node => j = k
    BY <1>2 DEF IInv, InStackIsCallStack
  <2>2. inStack' = {stack'[k].node : k \in {j \in DOMAIN stack' : stack'[j].entered}}
    <3>1. ASSUME NEW q \in inStack, q # p
          PROVE  \E k \in DOMAIN stack' : stack'[k].entered /\ stack'[k].node = q
      <4>1. PICK k \in 1..n : stack[k].entered /\ stack[k].node = q
        BY <1>2 DEF IInv, InStackIsCallStack
      <4>2. k \in 1..n - 1
        BY <1>2, <3>1, <4>1
      <4>3. QED
        BY <1>2, <4>1, <4>2
    <3>2. ASSUME NEW k \in 1..n - 1, stack[k].entered
          PROVE  stack[k].node \in inStack /\ stack[k].node # p
      BY <1>1, <1>2, <2>1, <3>2 DEF IInv, InStackIsCallStack
    <3>3. QED
      BY <1>1, <1>2, <3>1, <3>2
  <2>3. QED
    BY <1>2, <2>1, <2>2 DEF InStackIsCallStack
<1>7. CallsFollowDependencies'
  <2>1. Len(stack') - 1 = n - 2
    BY <1>2
  <2>2. ASSUME NEW k \in 1..n - 2
        PROVE  /\ k \in 1..n - 1 /\ stack'[k] = stack[k]
               /\ stack'[k + 1] = stack[k + 1]
    <3>1. k \in 1..n - 1 /\ k + 1 \in 1..n - 1
      BY <1>2
    <3>2. QED
      BY <1>2, <3>1
  <2>3. \A k \in 1..n - 1 :
            /\ stack[k].entered
            /\ stack[k].taken \in 1..Len(deps[stack[k].node])
            /\ stack[k + 1].node = deps[stack[k].node][stack[k].taken]
    BY DEF IInv, CallsFollowDependencies, n
  <2>4. QED
    BY <1>1, <2>1, <2>2, <2>3 DEF CallsFollowDependencies
<1>8. VisitedIsResult'
  <2>1. Range(result') = Range(result) \union {p}
    BY <1>4 DEF Range
  <2>2. IsInjective(result')
    BY <1>4 DEF IInv, VisitedIsResult, IsInjective, Range
  <2>3. QED
    BY <1>1, <2>1, <2>2 DEF IInv, VisitedIsResult
<1>9. ResultIsClosed'
  <2> SUFFICES ASSUME NEW i \in 1..m + 1, NEW d \in DependsOn[result'[i]] \cap Added
               PROVE  \E j \in 1..i - 1 : result'[j] = d
    BY <1>1, <1>4 DEF ResultIsClosed
  <2>1. CASE i = m + 1
    <3>1. d \in Range(deps[p])
      BY <1>2, <1>4, <2>1 DEF DependsOn
    <3>2. PICK t \in 1..Len(deps[p]) : deps[p][t] = d
      BY <1>2, <3>1, DepsList DEF IInv, Range
    <3>3. d \in visited
      <4>1. CallIsProcessed(n)
        BY <1>2 DEF IInv, TakenIsProcessed
      <4>2. QED
        BY <1>1, <1>2, <3>2, <4>1 DEF CallIsProcessed, n
    <3>4. PICK j \in 1..m : result[j] = d
      BY <1>4, <3>3 DEF IInv, VisitedIsResult, Range
    <3>5. QED
      BY <1>4, <2>1, <3>4
  <2>2. CASE i # m + 1
    <3>1. i \in 1..m /\ result'[i] = result[i]
      BY <1>4, <2>2
    <3>2. PICK j \in 1..i - 1 : result[j] = d
      BY <1>4, <3>1 DEF IInv, ResultIsClosed
    <3>3. QED
      BY <1>4, <3>1, <3>2
  <2>3. QED
    BY <2>1, <2>2
<1>10. TakenIsProcessed'
  <2> SUFFICES ASSUME NEW k \in 1..n - 1 PROVE CallIsProcessed(k)'
    BY <1>2 DEF TakenIsProcessed
  <2>1. CallIsProcessed(k)
    BY <1>2 DEF IInv, TakenIsProcessed
  <2>2. stack[k + 1].node = deps[stack[k].node][stack[k].taken]
    BY DEF IInv, CallsFollowDependencies, n
  <2>3. /\ stack'[k] = stack[k] /\ visited \subseteq visited' /\ Len(stack') = n - 1
        /\ k = n - 1 \/ k < n - 1
    BY <1>1, <1>2
  <2>4. CASE k = n - 1
    <3>1. k + 1 = n
      BY <1>2, <2>4
    <3>2. deps[stack[k].node][stack[k].taken] \in visited'
      BY <1>1, <1>2, <2>2, <3>1
    <3>3. QED
      BY <1>1, <2>1, <2>3, <3>2 DEF CallIsProcessed
  <2>5. CASE k < n - 1
    BY <1>1, <2>1, <2>3, <2>5 DEF CallIsProcessed
  <2>6. QED
    BY <2>3, <2>4, <2>5
<1>11. PassedIsVisited'
  BY <1>1, <1>2 DEF IInv, PassedIsVisited
<1>12. QED
  BY <1>1, <1>5, <1>6, <1>7, <1>8, <1>9, <1>10, <1>11 DEF IInv

LEMMA StepInvariant == IInv /\ [Next]_vars => IInv'
<1> SUFFICES ASSUME IInv, [Next]_vars PROVE IInv'
  OBVIOUS
<1>1. CASE UNCHANGED vars
  <2>1. UNCHANGED input /\ Added' = Added /\ DependsOn' = DependsOn
    BY <1>1, InputFixed DEF vars, input
  <2>2. UNCHANGED <<providers, deps, next, stack, visited, inStack, result, status>>
    BY <1>1 DEF vars
  <2>3. TypeOK'
    BY <2>1, <2>2 DEF IInv, TypeOK, Frame
  <2>4. InStackIsCallStack' /\ CallsFollowDependencies'
    BY <2>2 DEF IInv, InStackIsCallStack, CallsFollowDependencies
  <2>5. TakenIsProcessed'
    BY <2>1, <2>2 DEF IInv, TakenIsProcessed, CallIsProcessed
  <2>6. VisitedIsResult' /\ ResultIsClosed' /\ PassedIsVisited'
    BY <2>1, <2>2 DEF IInv, VisitedIsResult, ResultIsClosed, PassedIsVisited
  <2>7. QED
    BY <2>1, <2>2, <2>3, <2>4, <2>5, <2>6 DEF IInv
<1>2. QED
  BY <1>1, VisitProviderStep, PassVisitedProviderStep, ReturnResultStep,
     DetectCycleStep, ReturnVisitedStep, EnterStep, SkipMissingStep,
     DescendStep, FinishStep DEF Next

\* The invariant of the search, for every dependency graph.
THEOREM SearchInvariant == Spec => []IInv
BY InitInvariant, StepInvariant, PTL DEF Spec

\* The variables keep their types.
THEOREM TypeCorrect == Spec => []TypeOK
<1>1. IInv => TypeOK
  BY DEF IInv
<1>2. QED
  BY <1>1, SearchInvariant, PTL

-------------------------------------------------------------------------------

\* When the outer loop is done, result is a dependency order of the providers.
LEMMA ResultIsOrder ==
    ASSUME IInv, stack = << >>, next = Len(providers) + 1
    PROVE  result \in Orders(DependsOn, Added)
<1> DEFINE m == Len(result)
<1>1. m \in Nat /\ result \in [1..m -> Added] /\ DOMAIN result = 1..m
  BY DEF IInv, TypeOK
<1>2. \A p \in Added : p \in visited
  <2> SUFFICES ASSUME NEW p \in Added PROVE p \in visited
    OBVIOUS
  <2>1. DOMAIN providers = 1..Len(providers)
    BY DEF IInv, TypeOK
  <2>2. PICK i \in 1..Len(providers) : providers[i] = p
    BY <2>1 DEF Added, Range
  <2>3. QED
    BY <2>2 DEF IInv, TypeOK, PassedIsVisited
<1> HIDE DEF m
<1>3. result \in Bijection(1..m, Added)
  <2>1. \A p \in Added : \E i \in 1..m : result[i] = p
    BY <1>1, <1>2 DEF IInv, VisitedIsResult, Range
  <2>2. IsInjective(result)
    BY DEF IInv, VisitedIsResult
  <2>3. QED
    BY <1>1, <2>1, <2>2 DEF Bijection, Injection, Surjection
<1>4. Cardinality(Added) = m
  BY <1>1, <1>3, FS_CountingElements DEF ExistsBijection
<1>5. Respects(DependsOn, result)
  <2> SUFFICES ASSUME NEW i \in 1..m, NEW j \in 1..m,
                      result[j] \in DependsOn[result[i]]
               PROVE  j < i
    BY <1>1 DEF Respects
  <2>1. PICK k \in 1..i - 1 : result[k] = result[j]
    BY <1>1 DEF IInv, ResultIsClosed
  <2>2. k = j
    <3>1. k \in 1..m
      BY <1>1
    <3>2. QED
      BY <1>1, <2>1, <3>1 DEF IInv, VisitedIsResult, IsInjective
  <2>3. QED
    BY <2>2
<1>6. QED
  BY <1>3, <1>4, <1>5 DEF Orders

\* What sortByDependencies returns is every added provider once, each after
\* the providers it depends on.
THEOREM SortedIsOrder == Spec => []SortedRespectsDependencies
<1>1. IInv => SortedRespectsDependencies
  BY ResultIsOrder DEF IInv, SortedRespectsDependencies
<1>2. QED
  BY <1>1, SearchInvariant, PTL

\* The "Circular dependency" exception reports a cycle that exists.
THEOREM CycleIsReal == Spec => []ReportedCycleIsReal
<1>1. IInv => ReportedCycleIsReal
  BY DEF IInv, ReportedCycleIsReal
<1>2. QED
  BY <1>1, SearchInvariant, PTL

-------------------------------------------------------------------------------

\* A set of numbers has a least one: the intervals up to them are finite sets, one of
\* which contains no other.
LEMMA Least == ASSUME NEW S \in SUBSET Nat, S # {} PROVE \E m \in S : \A n \in S : m <= n
<1> DEFINE T == {0..n : n \in S}
<1>1. T \subseteq FiniteSubsetsOf(Nat)
  <2> SUFFICES ASSUME NEW n \in S PROVE 0..n \in FiniteSubsetsOf(Nat)
    OBVIOUS
  <2>1. IsFiniteSet(0..n) /\ 0..n \in SUBSET Nat
    BY FS_Interval
  <2> QED BY <2>1 DEF FiniteSubsetsOf
<1>2. T # {}
  OBVIOUS
<1>3. IsWellFoundedOn(StrictSubsetOrdering(Nat), FiniteSubsetsOf(Nat))
  BY FS_StrictSubsetOrderingWellFounded
<1> HIDE DEF T
<1>4. PICK x \in T : \A y \in T : <<y, x>> \notin StrictSubsetOrdering(Nat)
  BY <1>1, <1>2, <1>3, WFMin
<1> USE DEF T
<1>5. PICK m \in S : x = 0..m
  BY <1>4
<1>6. ASSUME NEW n \in S, n < m PROVE FALSE
  <2>1. 0..n \in SUBSET Nat /\ 0..m \in SUBSET Nat /\ 0..n \subseteq 0..m /\ 0..n # 0..m
    <3>1. m \notin 0..n /\ m \in 0..m BY <1>6
    <3> QED BY <1>6, <3>1
  <2>2. <<0..n, 0..m>> \in StrictSubsetOrdering(Nat)
    BY <2>1 DEF StrictSubsetOrdering
  <2> QED BY <1>4, <1>5, <2>2
<1> QED BY <1>6

\* Induction up to n.
LEMMA UpTo ==
    ASSUME NEW n \in Nat, NEW M, 0 \in M, \A m \in 0..(n - 1) : m \in M => m + 1 \in M
    PROVE  \A m \in 0..n : m \in M
<1> SUFFICES ASSUME NEW k \in 0..n, k \notin M PROVE FALSE
  OBVIOUS
<1> DEFINE Left == {m \in 0..n : m \notin M}
<1>1. PICK m \in Left : \A j \in Left : m <= j
  <2>1. Left \in SUBSET Nat /\ Left # {}
    OBVIOUS
  <2> HIDE DEF Left
  <2> QED BY <2>1, Least
<1>2. m - 1 \in 0..(n - 1) /\ m - 1 \in M
  BY <1>1
<1> QED BY <1>1, <1>2

\* What has been put in order so far: m members of S, each behind what it depends on.
ClosedPart(graph, S, s, m) ==
    /\ s \in [1..m -> S]
    /\ IsInjective(s)
    /\ \A i \in 1..m : \A d \in graph[s[i]] \cap S : \E j \in 1..(i - 1) : s[j] = d

\* Without a cycle there is always one more that can be put in order.
LEMMA OneMore ==
    ASSUME NEW graph, NEW S, IsFiniteSet(S), ~Cyclic(graph, S),
           NEW m \in Nat, m < Cardinality(S), NEW s, ClosedPart(graph, S, s, m)
    PROVE  \E t : ClosedPart(graph, S, t, m + 1)
<1> DEFINE Left == S \ Range(s)
<1>1. s \in [1..m -> S] /\ IsInjective(s)
  BY DEF ClosedPart
<1>2. Left # {}
  <2> SUFFICES ASSUME Left = {} PROVE FALSE
    OBVIOUS
  <2>1. \A p \in S : \E i \in 1..m : s[i] = p
    BY <1>1 DEF Range
  <2>2. s \in Surjection(1..m, S)
    BY <1>1, <2>1 DEF Surjection
  <2>3. Cardinality(S) <= m
    BY <2>2, FS_SurjCardinalityBound DEF ExistsSurjection
  <2> QED
    BY <2>3, FS_CardinalityType
<1>3. PICK p \in Left : graph[p] \cap Left = {}
  BY <1>2 DEF Cyclic
<1> DEFINE t == [i \in 1..(m + 1) |-> IF i = m + 1 THEN p ELSE s[i]]
<1>4. p \in S /\ \A i \in 1..m : s[i] # p
  BY <1>1, <1>3 DEF Range
<1>5. /\ t \in [1..(m + 1) -> S]
      /\ t[m + 1] = p
      /\ \A i \in 1..m : t[i] = s[i] /\ i \in 1..(m + 1)
  BY <1>1, <1>4
<1> HIDE DEF t
<1>6. IsInjective(t)
  <2> SUFFICES ASSUME NEW i \in 1..(m + 1), NEW j \in 1..(m + 1), t[i] = t[j]
               PROVE  i = j
    BY <1>5 DEF IsInjective
  <2>1. i \in 1..m \/ i = m + 1
    OBVIOUS
  <2>2. j \in 1..m \/ j = m + 1
    OBVIOUS
  <2> QED
    BY <1>1, <1>4, <1>5, <2>1, <2>2 DEF IsInjective
<1>7. ASSUME NEW i \in 1..(m + 1), NEW d \in graph[t[i]] \cap S
      PROVE  \E j \in 1..(i - 1) : t[j] = d
  <2>1. CASE i = m + 1
    <3>1. d \in Range(s)
      BY <1>3, <1>5, <1>7, <2>1
    <3>2. PICK j \in 1..m : s[j] = d
      BY <1>1, <3>1 DEF Range
    <3> QED
      BY <1>5, <2>1, <3>2
  <2>2. CASE i # m + 1
    <3>1. i \in 1..m /\ t[i] = s[i]
      BY <1>5, <2>2
    <3>2. PICK j \in 1..(i - 1) : s[j] = d
      BY <1>7, <3>1 DEF ClosedPart
    <3>3. j \in 1..m
      BY <3>1
    <3> QED
      BY <1>5, <3>2, <3>3
  <2> QED
    BY <2>1, <2>2
<1>8. ClosedPart(graph, S, t, m + 1)
  BY <1>5, <1>6, <1>7 DEF ClosedPart
<1> QED
  BY <1>8

\* The two outcomes of a sort exclude each other and leave nothing out: the members
\* of a finite set have a dependency order exactly if there is no cycle among them.
THEOREM OrderOrCycle ==
    ASSUME NEW graph, NEW S, IsFiniteSet(S)
    PROVE  Cyclic(graph, S) <=> Orders(graph, S) = {}
<1> DEFINE n == Cardinality(S)
<1>1. n \in Nat
  BY FS_CardinalityType
<1> HIDE DEF n
<1>2. ASSUME NEW s \in Orders(graph, S), Cyclic(graph, S) PROVE FALSE
  <2>1. /\ s \in [1..n -> S]
        /\ \A p \in S : \E i \in 1..n : s[i] = p
        /\ Respects(graph, s)
    BY DEF Orders, Bijection, Surjection, n
  <2>2. PICK C \in (SUBSET S) \ {{}} : \A p \in C : graph[p] \cap C # {}
    BY <1>2 DEF Cyclic
  <2> DEFINE At == {i \in 1..n : s[i] \in C}
  <2>3. At \in SUBSET Nat /\ At # {}
    BY <2>1, <2>2
  <2>4. PICK i \in At : \A j \in At : i <= j
    <3> HIDE DEF At
    <3> QED
      BY <2>3, Least
  <2>5. PICK d \in C : d \in graph[s[i]]
    BY <2>2, <2>4
  <2>6. PICK j \in 1..n : s[j] = d
    BY <2>1, <2>2, <2>5
  <2>7. j < i
    BY <2>1, <2>4, <2>5, <2>6 DEF Respects
  <2> QED
    BY <2>4, <2>5, <2>6, <2>7
<1>3. ASSUME ~Cyclic(graph, S) PROVE Orders(graph, S) # {}
  <2> DEFINE M == {m \in Nat : \E s : ClosedPart(graph, S, s, m)}
  <2>1. 0 \in M
    <3>1. PICK s : s = [i \in 1..0 |-> S]
      OBVIOUS
    <3>2. ClosedPart(graph, S, s, 0)
      BY <3>1 DEF ClosedPart, IsInjective
    <3> QED
      BY <3>2
  <2>2. ASSUME NEW m \in 0..(n - 1), m \in M PROVE m + 1 \in M
    <3>1. m \in Nat /\ m < n
      BY <1>1
    <3> QED
      BY <1>3, <2>2, <3>1, OneMore DEF n
  <2>3. n \in M
    <3>1. n \in 0..n
      BY <1>1
    <3> HIDE DEF M
    <3> QED
      BY <1>1, <2>1, <2>2, <3>1, UpTo
  <2>4. PICK s : ClosedPart(graph, S, s, n)
    BY <2>3
  <2>5. s \in [1..n -> S] /\ IsInjective(s) /\ DOMAIN s = 1..n
    BY <2>4 DEF ClosedPart
  <2>6. s \in Bijection(1..n, S)
    <3>1. s \in Injection(1..n, S)
      BY <2>5 DEF Injection
    <3>2. Cardinality(1..n) = n
      BY <1>1, FS_Interval
    <3>3. s \in Surjection(1..n, S)
      BY <3>1, <3>2, FS_Injection DEF n
    <3> QED
      BY <3>1, <3>3 DEF Bijection
  <2>7. Respects(graph, s)
    <3> SUFFICES ASSUME NEW i \in 1..n, NEW j \in 1..n, s[j] \in graph[s[i]]
                 PROVE  j < i
      BY <2>5 DEF Respects
    <3>1. PICK k \in 1..(i - 1) : s[k] = s[j]
      BY <2>4, <2>5 DEF ClosedPart
    <3>2. k \in 1..n
      BY <1>1
    <3>3. k = j
      BY <2>5, <3>1, <3>2 DEF IsInjective
    <3> QED
      BY <3>1, <3>3
  <2> QED
    BY <2>6, <2>7 DEF Orders, n
<1> QED
  BY <1>2, <1>3

\* The exception is thrown whenever there is a cycle: what is sorted has none.
THEOREM NoCycleIsMissed == Spec => [](status = "sorted" => ~Cyclic(DependsOn, Added))
<1>1. IInv => IsFiniteSet(Added)
  <2> SUFFICES ASSUME IInv PROVE IsFiniteSet(Added)
    OBVIOUS
  <2>1. Added \subseteq Names
    BY DEF IInv, TypeOK, Added, Range
  <2>2. QED
    BY <2>1, NamesAssumption, FS_Subset
<1>2. IInv /\ SortedRespectsDependencies => (status = "sorted" => ~Cyclic(DependsOn, Added))
  BY <1>1, OrderOrCycle DEF SortedRespectsDependencies
<1>3. QED
  BY <1>2, SearchInvariant, SortedIsOrder, PTL

-------------------------------------------------------------------------------

\* What the measure is made of, whatever the call stack looks like.
LEMMA MeasureType == IInv => Measure \in [1..6 -> Nat]
<1> SUFFICES ASSUME IInv PROVE Measure \in [1..6 -> Nat]
  OBVIOUS
<1> DEFINE open == Added \ (visited \union inStack)
           left == IF Loops = 0 THEN 0
                   ELSE Len(deps[stack[Loops].node]) - stack[Loops].taken
<1>1. IsFiniteSet(open) /\ IsFiniteSet(inStack)
  <2>1. open \in SUBSET Names /\ inStack \in SUBSET Names
    BY DEF IInv, TypeOK, Added, Range
  <2>2. QED
    BY <2>1, NamesAssumption, FS_Subset
<1>2. Cardinality(open) \in Nat /\ Cardinality(inStack) \in Nat
  BY <1>1, FS_CardinalityType
<1>3. Len(providers) + 1 - next \in Nat
  BY DEF IInv, TypeOK
<1>4. Len(stack) \in Nat /\ (stack # << >> => Len(stack) # 0) /\ DOMAIN stack = 1..Len(stack)
  BY DEF IInv, TypeOK
<1>5. Loops \in 0..Len(stack) /\ Len(stack) - Loops \in Nat
  BY <1>4 DEF Loops
<1>6. left \in Nat
  <2>1. CASE Loops # 0
    <3>1. Loops \in 1..Len(stack)
      BY <1>5, <2>1
    <3>2. stack[Loops] \in Frame
      BY <3>1 DEF IInv, TypeOK
    <3>3. stack[Loops].taken \in Nat /\ stack[Loops].node \in Added
      BY <3>2 DEF Frame
    <3>4. Len(deps[stack[Loops].node]) \in Nat
      BY <3>3, DepsList DEF IInv
    <3>5. stack[Loops].taken <= Len(deps[stack[Loops].node])
      BY <1>4, <3>1 DEF IInv, TakenIsProcessed, CallIsProcessed
    <3>6. QED
      BY <2>1, <3>3, <3>4, <3>5
  <2>2. QED
    BY <2>1
<1>7. Measure = <<IF status = "sorting" THEN 1 ELSE 0, Cardinality(open),
                  Len(providers) + 1 - next, Cardinality(inStack), left,
                  Len(stack) - Loops>>
  BY DEF Measure
<1> HIDE DEF open, left
<1>8. QED
  BY <1>2, <1>3, <1>5, <1>6, <1>7

\* Two measures are compared entry by entry.
LEMMA CloserAt ==
    ASSUME NEW a, NEW b,
           \/ a[1] < b[1]
           \/ a[1] = b[1] /\ a[2] < b[2]
           \/ a[1] = b[1] /\ a[2] = b[2] /\ a[3] < b[3]
           \/ a[1] = b[1] /\ a[2] = b[2] /\ a[3] = b[3] /\ a[4] < b[4]
           \/ a[1] = b[1] /\ a[2] = b[2] /\ a[3] = b[3] /\ a[4] = b[4] /\ a[5] < b[5]
           \/ a[1] = b[1] /\ a[2] = b[2] /\ a[3] = b[3] /\ a[4] = b[4] /\ a[5] = b[5]
              /\ a[6] < b[6]
    PROVE  Closer(a, b)
<1>1. ASSUME NEW k \in 1..6, a[k] < b[k], \A j \in 1..(k - 1) : a[j] = b[j]
      PROVE  Closer(a, b)
  BY <1>1 DEF Closer
<1>2. CASE a[1] < b[1]
  BY <1>1, <1>2
<1>3. CASE a[1] = b[1] /\ a[2] < b[2]
  BY <1>1, <1>3
<1>4. CASE a[1] = b[1] /\ a[2] = b[2] /\ a[3] < b[3]
  BY <1>1, <1>4
<1>5. CASE a[1] = b[1] /\ a[2] = b[2] /\ a[3] = b[3] /\ a[4] < b[4]
  BY <1>1, <1>5
<1>6. CASE a[1] = b[1] /\ a[2] = b[2] /\ a[3] = b[3] /\ a[4] = b[4] /\ a[5] < b[5]
  BY <1>1, <1>6
<1>7. CASE a[1] = b[1] /\ a[2] = b[2] /\ a[3] = b[3] /\ a[4] = b[4] /\ a[5] = b[5]
           /\ a[6] < b[6]
  BY <1>1, <1>7
<1> QED
  BY <1>2, <1>3, <1>4, <1>5, <1>6, <1>7

LEMMA CloserBy ==
    ASSUME NEW a1, NEW a2, NEW a3, NEW a4, NEW a5, NEW a6,
           NEW b1, NEW b2, NEW b3, NEW b4, NEW b5, NEW b6,
           \/ a1 < b1
           \/ a1 = b1 /\ a2 < b2
           \/ a1 = b1 /\ a2 = b2 /\ a3 < b3
           \/ a1 = b1 /\ a2 = b2 /\ a3 = b3 /\ a4 < b4
           \/ a1 = b1 /\ a2 = b2 /\ a3 = b3 /\ a4 = b4 /\ a5 < b5
           \/ a1 = b1 /\ a2 = b2 /\ a3 = b3 /\ a4 = b4 /\ a5 = b5 /\ a6 < b6
    PROVE  Closer(<<a1, a2, a3, a4, a5, a6>>, <<b1, b2, b3, b4, b5, b6>>)
  BY CloserAt

\* The steps that end the search, or take its outer loop on.
LEMMA OuterAdvances ==
    ASSUME IInv, VisitProvider \/ PassVisitedProvider \/ ReturnResult \/ DetectCycle
    PROVE  Closer(Measure', Measure)
<1>1. Added' = Added /\ UNCHANGED <<providers, visited, inStack>> /\ status = "sorting"
  BY InputFixed DEF VisitProvider, PassVisitedProvider, ReturnResult, DetectCycle,
                    BetweenCalls, AtEntry, Running, input, locals
<1>2. CASE VisitProvider \/ PassVisitedProvider
  <2>1. status' = status /\ next' = next + 1 /\ next \in Int /\ Len(providers) \in Nat
    BY <1>2 DEF VisitProvider, PassVisitedProvider, IInv, TypeOK
  <2>2. Len(providers') + 1 - next' < Len(providers) + 1 - next
    BY <1>1, <2>1
  <2>3. QED
    BY <1>1, <2>1, <2>2, CloserBy DEF Measure
<1>3. CASE ReturnResult \/ DetectCycle
  <2>1. (IF status' = "sorting" THEN 1 ELSE 0) < (IF status = "sorting" THEN 1 ELSE 0)
    BY <1>1, <1>3 DEF ReturnResult, DetectCycle
  <2>2. QED
    BY <2>1, CloserBy DEF Measure
<1>4. QED
  BY <1>2, <1>3

\* A provider is entered once, and its loop ends once.
LEMMA EnterAdvances ==
    ASSUME IInv, Enter
    PROVE  Closer(Measure', Measure)
<1> DEFINE p == Top.node
           open == Added \ (visited \union inStack)
<1>1. /\ Added' = Added /\ UNCHANGED <<status, visited>>
      /\ inStack' = inStack \union {p}
      /\ p \notin visited /\ p \notin inStack
      /\ stack # << >>
  BY InputFixed DEF Enter, AtEntry, Running
<1>2. p \in Added
  BY <1>1, TopFacts DEF IInv, Frame
<1> HIDE DEF p
<1>3. p \in open /\ open' = open \ {p}
  BY <1>1, <1>2
<1>4. IsFiniteSet(open)
  <2>1. open \in SUBSET Names
    BY DEF IInv, TypeOK, Added, Range
  <2>2. QED
    BY <2>1, NamesAssumption, FS_Subset
<1>5. Cardinality(open') < Cardinality(open)
  <2> HIDE DEF open
  <2>1. Cardinality(open \ {p}) = Cardinality(open) - 1 /\ Cardinality(open) \in Nat
    BY <1>3, <1>4, FS_RemoveElement, FS_CardinalityType
  <2>2. QED
    BY <1>3, <2>1
<1>6. QED
  BY <1>1, <1>5, CloserBy DEF Measure

LEMMA FinishAdvances ==
    ASSUME IInv, Finish
    PROVE  Closer(Measure', Measure)
<1> DEFINE p == Top.node
<1>1. /\ Added' = Added /\ UNCHANGED <<providers, next, status>>
      /\ visited' = visited \union {p}
      /\ inStack' = inStack \ {p}
      /\ stack # << >> /\ Top.entered
  BY InputFixed DEF Finish, InLoop, Running, input
<1>2. p \in inStack
  <2>1. Len(stack) \in DOMAIN stack
    BY <1>1, TopFacts DEF IInv, TypeOK
  <2>2. QED
    BY <1>1, <2>1 DEF Top, IInv, InStackIsCallStack
<1> HIDE DEF p
<1>3. Cardinality(Added' \ (visited' \union inStack')) = Cardinality(Added \ (visited \union inStack))
  <2>1. visited' \union inStack' = visited \union inStack
    BY <1>1, <1>2
  <2>2. QED
    BY <1>1, <2>1
<1>4. Cardinality(inStack') < Cardinality(inStack)
  <2>1. inStack \in SUBSET Names
    BY DEF IInv, TypeOK, Added, Range
  <2>2. IsFiniteSet(inStack)
    BY <2>1, NamesAssumption, FS_Subset
  <2>3. Cardinality(inStack \ {p}) = Cardinality(inStack) - 1 /\ Cardinality(inStack) \in Nat
    BY <1>2, <2>2, FS_RemoveElement, FS_CardinalityType
  <2>4. QED
    BY <1>1, <2>3
<1>5. QED
  BY <1>1, <1>3, <1>4, CloserBy DEF Measure

\* A loop takes up one dependency after the other.
LEMMA LoopAdvances ==
    ASSUME IInv, SkipMissing \/ Descend
    PROVE  Closer(Measure', Measure)
<1> DEFINE n == Len(stack)
<1>1. /\ Added' = Added /\ UNCHANGED <<providers, deps, next, status, visited, inStack>>
      /\ stack # << >> /\ Top.entered
      /\ Top.taken < Len(deps[Top.node])
  BY InputFixed DEF SkipMissing, Descend, InLoop, Running, input, locals
<1>2. /\ n \in Nat \ {0} /\ DOMAIN stack = 1..n
      /\ Top \in Frame /\ Top = stack[n]
  BY <1>1, TopFacts DEF IInv, TypeOK, Top
<1>3. Taken \in Seq(Frame) /\ Len(Taken) = n /\ Taken[n] = [Top EXCEPT !.taken = @ + 1]
  <2> DEFINE f == [Top EXCEPT !.taken = @ + 1]
  <2>1. f \in Frame
    BY <1>2, TakenFrame
  <2>2. Taken = [stack EXCEPT ![n] = f]
    BY DEF Taken, Top
  <2>3. stack \in Seq(Frame)
    BY DEF IInv, TypeOK
  <2> HIDE DEF f
  <2>4. QED
    BY <1>2, <2>1, <2>2, <2>3 DEF f
<1>4. Taken[n].node = Top.node /\ Taken[n].taken = Top.taken + 1 /\ Taken[n].entered
  BY <1>1, <1>2, <1>3, TakenFrame
<1>5. Loops = n
  BY <1>1 DEF Loops
<1>6. Loops' = n /\ stack'[n] = Taken[n]
  <2>1. CASE SkipMissing
    <3>1. stack' = Taken
      BY <2>1 DEF SkipMissing
    <3>2. stack' # << >> /\ Top' = Taken[n]
      BY <1>2, <1>3, <3>1 DEF Top
    <3>3. QED
      BY <1>3, <1>4, <3>1, <3>2 DEF Loops
  <2>2. CASE Descend
    <3> DEFINE c == Call(Dependency)
    <3>1. stack' = Append(Taken, c) /\ Dependency \in Added
      BY <2>2 DEF Descend
    <3>2. c \in Frame /\ ~c.entered
      BY <3>1 DEF Call, Frame
    <3> HIDE DEF c
    <3> HIDE DEF n
    <3>3. /\ Len(stack') = n + 1 /\ stack'[n + 1] = c /\ stack'[n] = Taken[n]
          /\ stack' # << >>
      BY <1>2, <1>3, <3>1, <3>2
    <3>4. Top' = c
      BY <3>3 DEF Top
    <3>5. QED
      BY <1>2, <3>2, <3>3, <3>4 DEF Loops
  <2>3. QED
    BY <2>1, <2>2
<1> HIDE DEF n
<1> DEFINE left == IF Loops = 0 THEN 0 ELSE Len(deps[stack[Loops].node]) - stack[Loops].taken
<1>7. left' < left
  <2>1. Top.node \in Added /\ Top.taken \in Nat
    BY <1>2 DEF Frame
  <2>2. Len(deps[Top.node]) \in Nat
    BY <2>1, DepsList DEF IInv
  <2>3. left = Len(deps[Top.node]) - Top.taken
    BY <1>2, <1>5
  <2>4. left' = Len(deps[Top.node]) - (Top.taken + 1)
    BY <1>1, <1>2, <1>4, <1>6
  <2>5. QED
    BY <2>1, <2>2, <2>3, <2>4
<1>8. QED
  BY <1>1, <1>7, CloserBy DEF Measure

\* A call for a visited provider returns to a loop that has not changed.
LEMMA ReturnAdvances ==
    ASSUME IInv, ReturnVisited
    PROVE  Closer(Measure', Measure)
<1> DEFINE n == Len(stack)
<1>1. /\ Added' = Added /\ UNCHANGED <<providers, deps, next, status, visited, inStack>>
      /\ stack # << >> /\ ~Top.entered
      /\ stack' = Pop
  BY InputFixed DEF ReturnVisited, AtEntry, Running, input, locals
<1>2. /\ n \in Nat \ {0} /\ Len(stack') = n - 1 /\ stack' \in Seq(Frame)
      /\ \A k \in 1..(n - 1) : stack'[k] = stack[k]
  BY <1>1, TopFacts DEF IInv
<1>3. Loops = n - 1
  BY <1>1 DEF Loops
<1>4. Loops' = n - 1
  <2>1. CASE stack' = << >>
    BY <1>2, <2>1 DEF Loops
  <2>2. CASE stack' # << >>
    <3>1. n - 1 \in 1..(n - 1)
      BY <1>2, <2>2
    <3>2. stack[n - 1].entered
      BY <3>1 DEF IInv, CallsFollowDependencies
    <3>3. Top'.entered
      BY <1>2, <3>1, <3>2 DEF Top
    <3>4. QED
      BY <1>2, <3>3 DEF Loops
  <2>3. QED
    BY <2>1, <2>2
<1> HIDE DEF n
<1>5. Loops # 0 => stack'[Loops] = stack[Loops]
  BY <1>2, <1>3
<1>6. Len(stack') - Loops' < n - Loops
  BY <1>2, <1>3, <1>4
<1>7. Loops' = Loops
  BY <1>3, <1>4
<1>8. QED
  BY <1>1, <1>5, <1>6, <1>7, CloserBy DEF Measure, n

\* However the dependencies are linked, every step of sortByDependencies
\* (ServiceManager.cc:256-298) brings it closer to its end.
THEOREM SearchAdvances == Spec => Advances
<1>1. IInv /\ [Next]_vars => [Closer(Measure', Measure)]_vars
  BY OuterAdvances, EnterAdvances, FinishAdvances, LoopAdvances, ReturnAdvances DEF Next
<1>2. QED
  BY <1>1, SearchInvariant, PTL DEF Spec, Advances

LEMMA Squeeze == \A x, y \in Nat : x <= y /\ y <= x => x = y
  OBVIOUS

\* From m on, the first k entries of a sequence of measures stay the same.
StayFrom(f, k, m) == \A n \in Nat : n >= m => \A j \in 1..k : f[n][j] = f[m][j]

\* If each measure is closer than the one before, one more entry stays the same from
\* some point on.
LEMMA OneMoreStays ==
    ASSUME NEW f, \A n \in Nat, j \in 1..6 : f[n][j] \in Nat,
           \A n \in Nat : Closer(f[n + 1], f[n]),
           NEW k \in 0..5, NEW start \in Nat, StayFrom(f, k, start)
    PROVE  \E m \in Nat : StayFrom(f, k + 1, m)
<1> USE DEF StayFrom
<1>1. \A n \in Nat, j \in 1..6 : f[n][j] \in Nat
  OBVIOUS
<1>2. PICK e : e = k + 1 /\ e \in 1..6
  OBVIOUS
<1>3. ASSUME NEW n \in Nat, n >= start
      PROVE  f[n + 1][e] <= f[n][e]
  <2>1. n + 1 \in Nat /\ n + 1 >= start
    BY <1>3
  <2>2. PICK d \in 1..6 : f[n + 1][d] < f[n][d] /\ \A j \in 1..(d - 1) : f[n + 1][j] = f[n][j]
    BY DEF Closer
  <2>3. f[n][e] \in Nat /\ f[n + 1][e] \in Nat /\ f[n][d] \in Nat
    BY <1>1, <1>2, <2>1
  <2>4. d \notin 1..k
    <3>1. \A j \in 1..k : f[n + 1][j] = f[n][j]
      BY <1>3, <2>1
    <3> QED
      BY <2>2, <2>3, <3>1
  <2>5. d = e \/ e \in 1..(d - 1)
    BY <1>2, <2>4
  <2> QED
    BY <2>2, <2>3, <2>5
<1>4. ASSUME NEW m \in Nat, m >= start, NEW n \in Nat, n >= m
      PROVE  f[n][e] <= f[m][e]
  <2> DEFINE S == {c \in Nat : f[m + c][e] <= f[m][e]}
  <2>1. 0 \in S
    <3>1. m + 0 = m /\ f[m][e] \in Nat
      BY <1>1, <1>2
    <3> QED
      BY <3>1
  <2>2. ASSUME NEW c \in 0..(n - m - 1), c \in S PROVE c + 1 \in S
    <3>1. m + c \in Nat /\ m + c >= start /\ (m + c) + 1 = m + (c + 1) /\ m + (c + 1) \in Nat
      BY <1>4
    <3>2. f[m + (c + 1)][e] <= f[m + c][e]
      BY <1>3, <3>1
    <3>3. f[m + c][e] \in Nat /\ f[m + (c + 1)][e] \in Nat /\ f[m][e] \in Nat
      BY <1>1, <1>2, <3>1
    <3> QED
      BY <2>2, <3>2, <3>3
  <2>3. n - m \in 0..(n - m) /\ n - m \in Nat /\ m + (n - m) = n
    BY <1>4
  <2>4. n - m \in S
    <3> HIDE DEF S
    <3> QED
      BY <2>1, <2>2, <2>3, UpTo
  <2> QED
    BY <2>3, <2>4
<1> DEFINE Late == {f[n][e] : n \in {i \in Nat : i >= start}}
<1>5. PICK v \in Late : \A w \in Late : v <= w
  <2>1. Late \in SUBSET Nat
    BY <1>1, <1>2
  <2>2. f[start][e] \in Late
    OBVIOUS
  <2> HIDE DEF Late
  <2> QED
    BY <2>1, <2>2, Least
<1>6. PICK m \in Nat : m >= start /\ f[m][e] = v
  BY <1>5
<1>7. ASSUME NEW n \in Nat, n >= m, NEW j \in 1..(k + 1)
      PROVE  f[n][j] = f[m][j]
  <2>1. CASE j = e
    <3>1. f[n][e] <= f[m][e]
      BY <1>4, <1>6, <1>7
    <3>2. n >= start
      BY <1>6, <1>7
    <3>3. f[n][e] \in Late
      BY <3>2
    <3>4. f[m][e] <= f[n][e]
      BY <1>5, <1>6, <3>3
    <3>5. f[n][e] \in Nat /\ f[m][e] \in Nat
      BY <1>1, <1>2
    <3> HIDE DEF Late
    <3>6. f[n][e] = f[m][e]
      BY <3>1, <3>4, <3>5, Squeeze
    <3> QED
      BY <2>1, <3>6
  <2>2. CASE j # e
    <3>1. j \in 1..k /\ n >= start
      BY <1>2, <1>6, <1>7, <2>2
    <3>2. f[n][j] = f[start][j] /\ f[m][j] = f[start][j]
      BY <1>6, <3>1
    <3> QED
      BY <3>2
  <2> QED
    BY <2>1, <2>2
<1> QED
  BY <1>7

\* Nothing gets closer for ever: with SearchAdvances, sortByDependencies makes only
\* finitely many steps, for every dependency graph.
THEOREM NothingAdvancesForEver ==
    ASSUME NEW f, \A n \in Nat, j \in 1..6 : f[n][j] \in Nat
    PROVE  \E n \in Nat : ~Closer(f[n + 1], f[n])
<1> SUFFICES ASSUME \A n \in Nat : Closer(f[n + 1], f[n])
             PROVE  FALSE
  OBVIOUS
<1> DEFINE S == {k \in Nat : \E m \in Nat : StayFrom(f, k, m)}
<1>1. 0 \in S
  BY DEF StayFrom
<1>2. ASSUME NEW k \in 0..(6 - 1), k \in S PROVE k + 1 \in S
  <2>1. k \in 0..5 /\ k + 1 \in Nat
    OBVIOUS
  <2>2. PICK m \in Nat : StayFrom(f, k, m)
    BY <1>2
  <2>3. \E i \in Nat : StayFrom(f, k + 1, i)
    BY <2>1, <2>2, OneMoreStays
  <2> QED
    BY <2>1, <2>3
<1>3. 6 \in S
  <2>1. 6 \in 0..6
    OBVIOUS
  <2> HIDE DEF S
  <2> QED
    BY <1>1, <1>2, <2>1, UpTo
<1>4. PICK m \in Nat : \A n \in Nat : n >= m => \A j \in 1..6 : f[n][j] = f[m][j]
  BY <1>3 DEF StayFrom
<1>5. PICK d \in 1..6 : f[m + 1][d] < f[m][d]
  BY DEF Closer
<1>6. f[m][d] \in Nat /\ f[m + 1][d] = f[m][d]
  BY <1>4
<1> QED
  BY <1>5, <1>6

-------------------------------------------------------------------------------

LEMMA AbstractInit == Init => Sort!Init
<1> SUFFICES ASSUME Init PROVE Sort!Init
  OBVIOUS
<1>1. providers \in Seq(Names) /\ status = "sorting"
  BY AddOrdersFacts DEF Init
<1>2. IsFiniteSet(Added)
  <2>1. Added \subseteq Names
    BY <1>1 DEF Added, Range
  <2>2. QED
    BY <2>1, NamesAssumption, FS_Subset
<1>3. QED
  BY <1>1, <1>2 DEF Sort!Init, Sort!IsFiniteSet, IsFiniteSet

LEMMA AbstractStep == IInv /\ [Next]_vars => [Sort!Next]_Sort!vars
<1> SUFFICES ASSUME IInv, [Next]_vars PROVE [Sort!Next]_Sort!vars
  OBVIOUS
<1>1. CASE ReturnResult
  <2>1. result \in Orders(DependsOn, Added)
    <3>1. next = Len(providers) + 1 /\ stack = << >>
      BY <1>1 DEF IInv, TypeOK, ReturnResult, BetweenCalls
    <3>2. QED
      BY <3>1, ResultIsOrder
  <2>2. /\ Added' = Added /\ DependsOn' = DependsOn /\ result' = result
        /\ status = "sorting" /\ status' = "sorted"
    BY <1>1, InputFixed DEF ReturnResult, BetweenCalls, locals
  <2>3. Sort!Sort
    <3>1. Sort!Orders(DependsOn, Added) = Orders(DependsOn, Added)
      BY DEF Sort!Orders, Orders, Sort!Respects, Respects,
             Sort!Bijection, Bijection, Sort!Injection, Injection,
             Sort!Surjection, Surjection, Sort!IsInjective, IsInjective,
             Sort!Cardinality, Cardinality
    <3>2. QED
      BY <2>1, <2>2, <3>1 DEF Sort!Sort
  <2>4. QED
    BY <2>3 DEF Sort!Next
<1>2. CASE DetectCycle
  <2>1. IInv'
    BY <1>2, DetectCycleStep
  <2>2. /\ Added' = Added /\ DependsOn' = DependsOn
        /\ status = "sorting" /\ status' = "cycle"
    BY <1>2, InputFixed DEF DetectCycle, AtEntry, Running
  <2>3. Cyclic(DependsOn, Added)
    BY <2>1, <2>2 DEF IInv
  <2>4. Sort!Throw
    BY <2>2, <2>3 DEF Sort!Throw, Sort!Cyclic, Cyclic
  <2>5. QED
    BY <2>4 DEF Sort!Next
<1>3. CASE /\ UNCHANGED <<input, status>>
           /\ status = "sorting" \/ UNCHANGED result
  BY <1>3, InputFixed DEF Sort!vars
<1>4. CASE UNCHANGED vars
  BY <1>3, <1>4 DEF vars, input
<1>5. QED
  BY <1>1, <1>2, <1>3, <1>4
     DEF Next, VisitProvider, PassVisitedProvider, ReturnVisited, Enter,
         SkipMissing, Descend, Finish, BetweenCalls, AtEntry, InLoop, Running

\* The recursive search implements the abstract sort (its safety part).
THEOREM SearchImplementsSort == Spec => Sort!Safety
<1>1. QED
  BY AbstractInit, AbstractStep, SearchInvariant, PTL DEF Spec, Sort!Safety

================================================================================
