-------------------------- MODULE ServiceManagerProofs -------------------------
(***************************************************************************)
(* Proofs about ServiceManager, for every set of providers, dependencies,  *)
(* aliases and depth of nested calls.                                      *)
(***************************************************************************)
EXTENDS ServiceManager, FiniteSetTheorems, SequenceTheorems, TLAPS

\* SubSeq(s, 1, Len(s) - 1) drops the last element and keeps the others.
LEMMA PopFacts ==
    ASSUME NEW S, NEW s \in Seq(S), s # << >>
    PROVE  /\ SubSeq(s, 1, Len(s) - 1) \in Seq(S)
           /\ Len(SubSeq(s, 1, Len(s) - 1)) = Len(s) - 1
           /\ \A k \in 1..Len(s) - 1 : SubSeq(s, 1, Len(s) - 1)[k] = s[k]
<1> DEFINE n == Len(s) - 1
<1>1. n \in Nat /\ \A k \in 1..n : s[k] \in S
  OBVIOUS
<1> HIDE DEF n
<1>2. /\ SubSeq(s, 1, n) \in Seq(S)
      /\ Len(SubSeq(s, 1, n)) = IF 1 <= n THEN n - 1 + 1 ELSE 0
      /\ \A k \in 1..n - 1 + 1 : SubSeq(s, 1, n)[k] = s[1 + k - 1]
  BY <1>1, SubSeqProperties
<1>3. Len(SubSeq(s, 1, n)) = n
  BY <1>1, <1>2
<1>4. \A k \in 1..n : SubSeq(s, 1, n)[k] = s[k]
  BY <1>1, <1>2
<1>5. QED
  BY <1>2, <1>3, <1>4 DEF n

\* A return leaves some of the calls that were there.
LEMMA PopRange ==
    ASSUME NEW S, NEW s \in Seq(S), s # << >>
    PROVE  Range(SubSeq(s, 1, Len(s) - 1)) \subseteq Range(s)
<1> DEFINE t == SubSeq(s, 1, Len(s) - 1)
<1>1. /\ Len(s) \in Nat /\ t \in Seq(S) /\ Len(t) = Len(s) - 1
      /\ \A k \in 1..Len(s) - 1 : t[k] = s[k]
  BY PopFacts
<1> HIDE DEF t
<1>2. DOMAIN t = 1..Len(s) - 1 /\ DOMAIN s = 1..Len(s)
  BY <1>1
<1>3. ASSUME NEW k \in DOMAIN t PROVE k \in DOMAIN s /\ t[k] = s[k]
  BY <1>1, <1>2
<1>4. QED
  BY <1>3 DEF Range, t

\* A call adds one element.
LEMMA PushFacts ==
    ASSUME NEW S, NEW s \in Seq(S), NEW c \in S
    PROVE  /\ Append(s, c) \in Seq(S)
           /\ Len(Append(s, c)) = Len(s) + 1
           /\ Append(s, c)[Len(s) + 1] = c
           /\ \A k \in 1..Len(s) : Append(s, c)[k] = s[k]
           /\ Range(Append(s, c)) \subseteq Range(s) \union {c}
<1> DEFINE t == Append(s, c)
<1>1. /\ Len(s) \in Nat /\ t \in Seq(S) /\ Len(t) = Len(s) + 1
      /\ t[Len(s) + 1] = c /\ \A k \in 1..Len(s) : t[k] = s[k]
      /\ DOMAIN t = 1..Len(s) + 1 /\ DOMAIN s = 1..Len(s)
  OBVIOUS
<1> HIDE DEF t
<1>2. ASSUME NEW k \in DOMAIN t PROVE t[k] = c \/ (k \in DOMAIN s /\ t[k] = s[k])
  BY <1>1
<1>3. Range(t) \subseteq Range(s) \union {c}
  BY <1>2 DEF Range
<1>4. QED
  BY <1>1, <1>3 DEF t

\* A step of the innermost call replaces the last element.
LEMMA ReplaceFacts ==
    ASSUME NEW S, NEW s \in Seq(S), s # << >>, NEW c \in S
    PROVE  LET t == [s EXCEPT ![Len(s)] = c]
           IN  /\ t \in Seq(S)
               /\ Len(t) = Len(s)
               /\ \A k \in 1..Len(s) : t[k] = IF k = Len(s) THEN c ELSE s[k]
               /\ Range(t) \subseteq Range(s) \union {c}
<1> DEFINE t == [s EXCEPT ![Len(s)] = c]
<1>1. /\ Len(s) \in Nat \ {0} /\ t \in Seq(S) /\ Len(t) = Len(s)
      /\ \A k \in 1..Len(s) : t[k] = IF k = Len(s) THEN c ELSE s[k]
      /\ DOMAIN t = 1..Len(s) /\ DOMAIN s = 1..Len(s)
  OBVIOUS
<1> HIDE DEF t
<1>2. ASSUME NEW k \in DOMAIN t PROVE t[k] = c \/ (k \in DOMAIN s /\ t[k] = s[k])
  BY <1>1
<1>3. Range(t) \subseteq Range(s) \union {c}
  BY <1>2 DEF Range
<1>4. QED
  BY <1>1, <1>3 DEF t

\* The innermost call is one of the calls.
LEMMA TopInRange ==
    ASSUME NEW S, NEW s \in Seq(S), s # << >>
    PROVE  /\ Len(s) \in Nat \ {0}
           /\ s[Len(s)] \in S
           /\ s[Len(s)] \in Range(s)
BY DEF Range

-------------------------------------------------------------------------------

-------------------------------------------------------------------------------
(***************************************************************************)
(* Orders of providers.                                                    *)
(***************************************************************************)

\* What a sorted order is: the providers, each once, dependencies first.
LEMMA OrderFacts ==
    ASSUME NEW S \in SUBSET Providers, NEW order \in Orders(Deps, S)
    PROVE  order \in Seq(Providers) /\ Range(order) = S /\ Respects(Deps, order)
<1>1. Cardinality(S) \in Nat
  BY ProvidersAssumption, FS_Subset, FS_CardinalityType
<1>2. /\ order \in [1..Cardinality(S) -> S]
      /\ \A p \in S : \E i \in 1..Cardinality(S) : order[i] = p
      /\ Respects(Deps, order)
  BY DEF Orders, Bijection, Injection, Surjection
<1>3. order \in Seq(Providers)
  BY <1>1, <1>2
<1>4. Range(order) = S
  BY <1>2 DEF Range
<1>5. QED
  BY <1>2, <1>3, <1>4

\* Passing over the first provider of an order leaves an order of the others.
LEMMA TailFacts ==
    ASSUME NEW s \in Seq(Providers), s # << >>
    PROVE  /\ Head(s) \in Providers /\ Tail(s) \in Seq(Providers)
           /\ Head(s) \in Range(s)
           /\ Range(Tail(s)) \subseteq Range(s)
           /\ Range(s) \ {Head(s)} \subseteq Range(Tail(s))
           /\ Respects(Deps, s) => Respects(Deps, Tail(s))
<1> DEFINE n == Len(s)
           t == Tail(s)
<1>1. /\ n \in Nat \ {0} /\ s[1] = Head(s) /\ DOMAIN s = 1..n
      /\ Head(s) \in Providers /\ t \in Seq(Providers)
      /\ Len(t) = n - 1 /\ DOMAIN t = 1..n - 1
      /\ \A i \in 1..n - 1 : t[i] = s[i + 1]
  OBVIOUS
<1> HIDE DEF n, t
<1>2. Head(s) \in Range(s)
  BY <1>1 DEF Range
<1>3. Range(t) \subseteq Range(s)
  <2> SUFFICES ASSUME NEW i \in 1..n - 1 PROVE t[i] \in Range(s)
    BY <1>1 DEF Range
  <2>1. i + 1 \in 1..n /\ t[i] = s[i + 1]
    BY <1>1
  <2>2. QED
    BY <1>1, <2>1 DEF Range
<1>4. Range(s) \ {Head(s)} \subseteq Range(t)
  <2> SUFFICES ASSUME NEW i \in 1..n, s[i] # Head(s) PROVE s[i] \in Range(t)
    BY <1>1 DEF Range
  <2>1. i - 1 \in 1..n - 1 /\ t[i - 1] = s[i]
    BY <1>1
  <2>2. QED
    BY <1>1, <2>1 DEF Range
<1>5. ASSUME Respects(Deps, s) PROVE Respects(Deps, t)
  <2> SUFFICES ASSUME NEW i \in 1..n - 1, NEW j \in 1..n - 1, t[j] \in Deps[t[i]]
               PROVE  j < i
    BY <1>1 DEF Respects
  <2>1. /\ i + 1 \in 1..n /\ j + 1 \in 1..n
        /\ t[i] = s[i + 1] /\ t[j] = s[j + 1]
    BY <1>1
  <2>2. j + 1 < i + 1
    BY <1>1, <1>5, <2>1 DEF Respects
  <2>3. QED
    BY <2>2
<1>6. QED
  BY <1>1, <1>2, <1>3, <1>4, <1>5 DEF t

\* The first provider of an order depends on nothing that is still to come.
LEMMA HeadDependsOnNothing ==
    ASSUME NEW s \in Seq(Providers), s # << >>, Respects(Deps, s)
    PROVE  Deps[Head(s)] \cap Range(s) = {}
<1>1. Len(s) \in Nat /\ 1 \in DOMAIN s /\ s[1] = Head(s) /\ DOMAIN s = 1..Len(s)
  OBVIOUS
<1>2. ASSUME NEW j \in DOMAIN s, s[j] \in Deps[s[1]] PROVE FALSE
  <2>1. j < 1
    BY <1>1, <1>2 DEF Respects
  <2>2. QED
    BY <1>1, <2>1
<1>3. QED
  BY <1>1, <1>2 DEF Range

-------------------------------------------------------------------------------
(***************************************************************************)
(* The stack of calls.                                                     *)
(***************************************************************************)

\* The innermost call, with the facts the invariant has of it.
LEMMA TopFacts ==
    ASSUME IInv, stack # << >>
    PROVE  /\ Len(stack) \in Nat \ {0} /\ stack \in Seq(Frame)
           /\ Top \in Frame /\ Top \in Range(stack) /\ CallOK(Top)
<1>1. stack \in Seq(Frame)
  BY DEF IInv, TypeOK
<1>2. Len(stack) \in Nat \ {0} /\ Top \in Frame /\ Top \in Range(stack)
  BY <1>1, TopInRange DEF Top
<1>3. QED
  BY <1>1, <1>2 DEF IInv

LEMMA NestedPop ==
    ASSUME NEW s \in Seq(Frame), s # << >>, Nested(s)
    PROVE  Nested(SubSeq(s, 1, Len(s) - 1))
<1> DEFINE t == SubSeq(s, 1, Len(s) - 1)
<1>1. /\ Len(s) \in Nat /\ t \in Seq(Frame) /\ Len(t) = Len(s) - 1
      /\ \A k \in 1..Len(s) - 1 : t[k] = s[k]
  BY PopFacts
<1> HIDE DEF t
<1>2. DOMAIN t = 1..Len(t) /\ DOMAIN s = 1..Len(s)
  BY <1>1
<1>3. ASSUME NEW k \in 1..Len(t) - 1 PROVE t[k].inCall
  <2>1. k \in 1..Len(s) - 1
    BY <1>1
  <2>2. QED
    BY <1>1, <2>1 DEF Nested
<1>4. ASSUME NEW k \in DOMAIN t PROVE k \in DOMAIN s /\ t[k] = s[k]
  BY <1>1, <1>2
<1>5. QED
  BY <1>3, <1>4 DEF Nested, t

LEMMA NestedPush ==
    ASSUME NEW s \in Seq(Frame), NEW c \in Frame, Nested(s),
           s # << >> => s[Len(s)].inCall,
           Registering(c) =>
               \A call \in Range(s) : Registering(call) => call.scope \subseteq c.scope
    PROVE  Nested(Append(s, c))
<1> DEFINE t == Append(s, c)
           n == Len(s)
<1>1. /\ n \in Nat /\ t \in Seq(Frame) /\ Len(t) = n + 1 /\ t[n + 1] = c
      /\ \A k \in 1..n : t[k] = s[k]
  BY PushFacts
<1>2. s = << >> \/ n >= 1
  OBVIOUS
<1>3. DOMAIN s = 1..n
  OBVIOUS
<1> HIDE DEF t
<1>4. DOMAIN t = 1..n + 1
  BY <1>1
<1>5. ASSUME NEW k \in 1..n PROVE t[k].inCall
  <2>1. CASE k = n
    BY <1>1, <1>2, <2>1
  <2>2. CASE k # n
    <3>1. k \in 1..n - 1
      BY <1>1, <2>2
    <3>2. QED
      BY <1>1, <3>1 DEF Nested
  <2>3. QED
    BY <2>1, <2>2
<1> HIDE DEF n
<1>6. ASSUME NEW j \in 1..n + 1, NEW k \in 1..n + 1, j < k,
             Registering(t[j]), Registering(t[k])
      PROVE  t[j].scope \subseteq t[k].scope
  <2>1. j \in 1..n /\ t[j] = s[j] /\ s[j] \in Range(s)
    BY <1>1, <1>3, <1>6 DEF Range
  <2>2. CASE k = n + 1
    BY <1>1, <1>6, <2>1, <2>2
  <2>3. CASE k # n + 1
    <3>1. k \in 1..n /\ t[k] = s[k]
      BY <1>1, <2>3
    <3>2. QED
      BY <1>3, <1>6, <2>1, <3>1 DEF Nested
  <2>4. QED
    BY <2>2, <2>3
<1>7. Len(t) - 1 = n
  BY <1>1
<1>8. Nested(t)
  BY <1>4, <1>5, <1>6, <1>7 DEF Nested
<1>9. QED
  BY <1>8 DEF t

LEMMA NestedReplace ==
    ASSUME NEW s \in Seq(Frame), s # << >>, NEW c \in Frame, Nested(s),
           Registering(c) => Registering(s[Len(s)]) /\ c.scope = s[Len(s)].scope
    PROVE  Nested([s EXCEPT ![Len(s)] = c])
<1> DEFINE t == [s EXCEPT ![Len(s)] = c]
           n == Len(s)
<1>1. /\ t \in Seq(Frame) /\ Len(t) = n
      /\ \A k \in 1..n : t[k] = IF k = n THEN c ELSE s[k]
  BY ReplaceFacts
<1>2. n \in Nat \ {0} /\ DOMAIN s = 1..n
  OBVIOUS
<1> HIDE DEF t, n
<1>3. DOMAIN t = 1..n
  BY <1>1
<1>4. ASSUME NEW k \in 1..n - 1 PROVE t[k].inCall
  <2>1. k \in 1..n /\ k # n
    BY <1>2
  <2>2. QED
    BY <1>1, <2>1 DEF Nested, n
<1>5. ASSUME NEW k \in 1..n, Registering(t[k])
      PROVE  Registering(s[k]) /\ t[k].scope = s[k].scope
  BY <1>1, <1>5 DEF n
<1>6. QED
  BY <1>1, <1>2, <1>3, <1>4, <1>5 DEF Nested, t, n

-------------------------------------------------------------------------------
(***************************************************************************)
(* What keeps the invariant of a call while others make progress.          *)
(***************************************************************************)

\* A call in progress is not disturbed by more additions, registrations and
\* boots, provided nothing eager is registered once registered_ is set, and
\* registered_ is set only when the call's own providers are registered.
LEMMA CallStaysOK ==
    ASSUME NEW call, CallOK(call),
           byName \subseteq byName',
           isRegistered \subseteq isRegistered',
           isBooted \subseteq isBooted',
           registered => registered' /\ isRegistered' \cap Eager = isRegistered \cap Eager,
           ~registered /\ registered' /\ Registering(call) =>
               call.scope \cap Eager \subseteq isRegistered
    PROVE  CallOK(call)'
<1>1. ASSUME Registering(call) PROVE RegisteringOK(call)'
  <2>1. RegisteringOK(call)
    BY <1>1 DEF CallOK
  <2>2. QED
    BY <1>1, <2>1 DEF RegisteringOK
<1>2. ASSUME Booting(call) PROVE BootingOK(call)'
  <2>1. BootingOK(call)
    BY <1>2 DEF CallOK
  <2>2. QED
    BY <2>1 DEF BootingOK
<1>3. ASSUME call.op = "load" PROVE LoadingOK(call)'
  <2>1. LoadingOK(call)
    BY <1>3 DEF CallOK
  <2>2. QED
    BY <2>1 DEF LoadingOK
<1>4. QED
  BY <1>1, <1>2, <1>3 DEF CallOK, Registering, Booting

\* A step that changes the stack only, to calls that satisfy the invariant.
LEMMA StackStep ==
    ASSUME IInv, UNCHANGED <<byName, deferredMap, flags, phases>>,
           stack' \in Seq(Frame), Nested(stack'),
           \A call \in Range(stack') : call \in Range(stack) \/ CallOK(call)
    PROVE  IInv'
<1>1. UNCHANGED <<byName, deferredMap, isRegistered, isBooted, registered, booted>>
  BY DEF flags, phases
<1>2. TypeOK'
  BY <1>1 DEF IInv, TypeOK, Frame
<1>3. ASSUME NEW call \in Range(stack') PROVE CallOK(call)'
  <2>1. CallOK(call)
    BY DEF IInv
  <2>2. QED
    BY <1>1, <2>1, CallStaysOK
<1>4. (\A call \in Range(stack) : CallOK(call))'
  BY <1>3
<1>5. QED
  BY <1>1, <1>2, <1>4 DEF IInv, BootedMeansBooted, DeferredStaysReachable, ProvidersOf

\* What moving on to the next provider does to a call.
LEMMA AdvanceFacts ==
    ASSUME NEW call \in Frame, call.todo # << >>,
           NEW next, next = [call EXCEPT !.todo = Tail(@), !.inCall = FALSE]
    PROVE  /\ next \in Frame /\ next.op = call.op /\ next.phase = call.phase
           /\ next.todo = Tail(call.todo) /\ next.scope = call.scope
           /\ next.inCall = FALSE
<1>1. /\ call = [op |-> call.op, phase |-> call.phase, todo |-> call.todo,
                 scope |-> call.scope, inCall |-> call.inCall]
      /\ call.op \in {"registerAll", "bootAll", "bootstrap", "load"}
      /\ call.phase \in {"register", "boot"}
      /\ call.todo \in Seq(Providers)
      /\ call.scope \in SUBSET Providers
  BY DEF Frame
<1>2. next = [op |-> call.op, phase |-> call.phase, todo |-> Tail(call.todo),
              scope |-> call.scope, inCall |-> FALSE]
  BY <1>1
<1>3. Tail(call.todo) \in Seq(Providers)
  BY <1>1
<1>4. QED
  BY <1>1, <1>2, <1>3 DEF Frame

\* What entering a callback does to a call.
LEMMA EnterCallbackFacts ==
    ASSUME NEW call \in Frame,
           NEW next, next = [call EXCEPT !.inCall = TRUE]
    PROVE  /\ next \in Frame /\ next.op = call.op /\ next.phase = call.phase
           /\ next.todo = call.todo /\ next.scope = call.scope
           /\ next.inCall = TRUE
<1>1. /\ call = [op |-> call.op, phase |-> call.phase, todo |-> call.todo,
                 scope |-> call.scope, inCall |-> call.inCall]
      /\ call.op \in {"registerAll", "bootAll", "bootstrap", "load"}
      /\ call.phase \in {"register", "boot"}
      /\ call.todo \in Seq(Providers)
      /\ call.scope \in SUBSET Providers
  BY DEF Frame
<1>2. next = [op |-> call.op, phase |-> call.phase, todo |-> call.todo,
              scope |-> call.scope, inCall |-> TRUE]
  BY <1>1
<1>3. QED
  BY <1>1, <1>2 DEF Frame

\* A register loop may move on from a provider that is registered or deferred.
LEMMA AdvanceRegistering ==
    ASSUME NEW call \in Frame, Registering(call), call.todo # << >>,
           RegisteringOK(call), Head(call.todo) \in isRegistered \union Deferred,
           NEW next, next = [call EXCEPT !.todo = Tail(@), !.inCall = FALSE]
    PROVE  next \in Frame /\ Registering(next) /\ CallOK(next)
<1>1. /\ next \in Frame /\ next.op = call.op /\ next.phase = call.phase
      /\ next.todo = Tail(call.todo) /\ next.scope = call.scope
      /\ next.inCall = FALSE
  BY AdvanceFacts
<1>2. call.todo \in Seq(Providers)
  BY DEF Frame
<1>3. /\ Range(next.todo) \subseteq Range(call.todo)
      /\ Range(call.todo) \ {Head(call.todo)} \subseteq Range(next.todo)
      /\ Respects(Deps, next.todo)
  BY <1>1, <1>2, TailFacts DEF RegisteringOK
<1>4. Registering(next) /\ ~Booting(next) /\ next.op # "load"
  BY <1>1 DEF Registering, Booting
<1>5. RegisteringOK(next)
  BY <1>1, <1>3 DEF RegisteringOK, Eager
<1>6. QED
  BY <1>1, <1>4, <1>5 DEF CallOK

\* A boot loop may move on from a provider that is booted, or not registered.
LEMMA AdvanceBooting ==
    ASSUME NEW call \in Frame, Booting(call), call.todo # << >>,
           BootingOK(call),
           Head(call.todo) \in isBooted \/ Head(call.todo) \notin isRegistered,
           NEW next, next = [call EXCEPT !.todo = Tail(@), !.inCall = FALSE]
    PROVE  next \in Frame /\ ~Registering(next) /\ CallOK(next)
<1>1. /\ next \in Frame /\ next.op = call.op /\ next.phase = call.phase
      /\ next.todo = Tail(call.todo) /\ next.scope = call.scope
      /\ next.inCall = FALSE
  BY AdvanceFacts
<1>2. call.todo \in Seq(Providers)
  BY DEF Frame
<1>3. /\ Range(call.todo) \ {Head(call.todo)} \subseteq Range(next.todo)
      /\ Respects(Deps, next.todo)
  BY <1>1, <1>2, TailFacts DEF BootingOK
<1>4. Booting(next) /\ ~Registering(next) /\ next.op # "load"
  BY <1>1 DEF Registering, Booting
<1>5. BootingOK(next)
  BY <1>1, <1>3 DEF BootingOK
<1>6. QED
  BY <1>1, <1>4, <1>5 DEF CallOK

\* A register loop that has just sorted.
LEMMA NewRegisterLoop ==
    ASSUME IInv, ~registered, NEW order \in SortedProviders,
           NEW op \in {"registerAll", "bootstrap"},
           NEW call, call = Loop(op, "register", order)
    PROVE  /\ call \in Frame /\ Registering(call) /\ CallOK(call)
           /\ call.scope = byName
<1>1. /\ order \in Seq(Providers) /\ Range(order) = byName
      /\ Respects(Deps, order)
  BY OrderFacts DEF IInv, TypeOK, SortedProviders
<1>2. /\ call.op = op /\ call.phase = "register" /\ call.todo = order
      /\ call.scope = byName /\ call.inCall = FALSE
  BY DEF Loop
<1>3. call \in Frame
  BY <1>1 DEF Loop, Frame, IInv, TypeOK
<1>4. Registering(call) /\ ~Booting(call) /\ call.op # "load"
  BY <1>2 DEF Registering, Booting
<1>5. RegisteringOK(call)
  BY <1>1, <1>2 DEF RegisteringOK
<1>6. QED
  BY <1>2, <1>3, <1>4, <1>5 DEF CallOK

\* A boot loop that has just sorted; bootstrap enters it with registered_ set.
LEMMA NewBootLoop ==
    ASSUME IInv, NEW order \in SortedProviders,
           NEW op \in {"bootAll", "bootstrap"},
           NEW call, call = Loop(op, "boot", order)
    PROVE  /\ call \in Frame /\ ~Registering(call) /\ Booting(call)
           /\ call.op # "load" /\ (registered => BootingOK(call))
           /\ call.inCall = FALSE /\ call.todo = order
           /\ Range(order) = byName /\ Respects(Deps, order)
<1>1. /\ order \in Seq(Providers) /\ Range(order) = byName
      /\ Respects(Deps, order)
  BY OrderFacts DEF IInv, TypeOK, SortedProviders
<1>2. /\ call.op = op /\ call.phase = "boot" /\ call.todo = order
      /\ call.inCall = FALSE
  BY DEF Loop
<1>3. call \in Frame
  BY <1>1 DEF Loop, Frame, IInv, TypeOK
<1>4. Booting(call) /\ ~Registering(call) /\ call.op # "load"
  BY <1>2 DEF Registering, Booting
<1>5. ASSUME registered PROVE BootingOK(call)
  BY <1>1, <1>2, <1>5 DEF BootingOK, IInv
<1>6. QED
  BY <1>1, <1>2, <1>3, <1>4, <1>5

-------------------------------------------------------------------------------
(***************************************************************************)
(* The steps that change nothing but the stack.                            *)
(***************************************************************************)

LEMMA PushStep ==
    ASSUME IInv, CanCall, UNCHANGED <<byName, deferredMap, flags, phases>>,
           NEW c \in Frame, CallOK(c), Registering(c) => c.scope = byName,
           stack' = Append(stack, c)
    PROVE  IInv'
<1>1. stack \in Seq(Frame)
  BY DEF IInv, TypeOK
<1>2. stack' \in Seq(Frame) /\ Range(stack') \subseteq Range(stack) \union {c}
  BY <1>1, PushFacts
<1>3. ASSUME NEW call \in Range(stack), Registering(call)
      PROVE  call.scope \subseteq byName
  BY <1>3 DEF IInv, CallOK, RegisteringOK
<1>4. stack # << >> => stack[Len(stack)].inCall
  BY DEF CanCall, Top
<1>5. Nested(stack')
  BY <1>1, <1>3, <1>4, NestedPush DEF IInv
<1>6. QED
  BY <1>2, <1>5, StackStep

LEMMA ReplaceStep ==
    ASSUME IInv, stack # << >>, UNCHANGED <<byName, deferredMap, flags, phases>>,
           NEW c \in Frame, CallOK(c),
           Registering(c) => Registering(Top) /\ c.scope = Top.scope,
           Continue(c)
    PROVE  IInv'
<1>1. stack \in Seq(Frame) /\ stack' = [stack EXCEPT ![Len(stack)] = c]
  BY DEF IInv, TypeOK, Continue
<1>2. stack' \in Seq(Frame) /\ Range(stack') \subseteq Range(stack) \union {c}
  BY <1>1, ReplaceFacts
<1>3. Nested(stack')
  BY <1>1, NestedReplace DEF IInv, Top
<1>4. QED
  BY <1>2, <1>3, StackStep

LEMMA PopStep ==
    ASSUME IInv, stack # << >>, UNCHANGED <<byName, deferredMap, flags, phases>>, Pop
    PROVE  IInv'
<1>1. stack \in Seq(Frame) /\ stack' = SubSeq(stack, 1, Len(stack) - 1)
  BY DEF IInv, TypeOK, Pop
<1>2. stack' \in Seq(Frame) /\ Range(stack') \subseteq Range(stack) /\ Nested(stack')
  BY <1>1, PopFacts, PopRange, NestedPop DEF IInv
<1>3. QED
  BY <1>2, StackStep

LEMMA RegisterAllStep == IInv /\ RegisterAll => IInv'
<1> SUFFICES ASSUME IInv, RegisterAll PROVE IInv'
  OBVIOUS
<1>1. PICK order \in SortedProviders : Push(Loop("registerAll", "register", order))
  BY DEF RegisterAll
<1>2. PICK c : c = Loop("registerAll", "register", order)
  OBVIOUS
<1>3. c \in Frame /\ CallOK(c) /\ c.scope = byName
  BY <1>2, NewRegisterLoop DEF RegisterAll
<1>4. QED
  BY <1>1, <1>2, <1>3, PushStep DEF RegisterAll, Push

LEMMA BootAllStep == IInv /\ BootAll => IInv'
<1> SUFFICES ASSUME IInv, BootAll PROVE IInv'
  OBVIOUS
<1>1. PICK order \in SortedProviders : Push(Loop("bootAll", "boot", order))
  BY DEF BootAll
<1>2. PICK c : c = Loop("bootAll", "boot", order)
  OBVIOUS
<1>3. c \in Frame /\ ~Registering(c) /\ CallOK(c)
  BY <1>2, NewBootLoop DEF BootAll, CallOK
<1>4. QED
  BY <1>1, <1>2, <1>3, PushStep DEF BootAll, Push

LEMMA BootstrapStep == IInv /\ Bootstrap => IInv'
<1> SUFFICES ASSUME IInv, Bootstrap PROVE IInv'
  OBVIOUS
<1>1. CanCall /\ UNCHANGED <<byName, deferredMap, flags, phases>>
  BY DEF Bootstrap
<1>2. ASSUME NEW order \in SortedProviders, ~registered,
             Push(Loop("bootstrap", "register", order))
      PROVE  IInv'
  <2>1. PICK c : c = Loop("bootstrap", "register", order)
    OBVIOUS
  <2>2. c \in Frame /\ CallOK(c) /\ c.scope = byName
    BY <1>2, <2>1, NewRegisterLoop
  <2>3. QED
    BY <1>1, <1>2, <2>1, <2>2, PushStep DEF Push
<1>3. ASSUME NEW order \in SortedProviders, registered,
             Push(Loop("bootstrap", "boot", order))
      PROVE  IInv'
  <2>1. PICK c : c = Loop("bootstrap", "boot", order)
    OBVIOUS
  <2>2. c \in Frame /\ ~Registering(c) /\ CallOK(c)
    BY <1>3, <2>1, NewBootLoop DEF CallOK
  <2>3. QED
    BY <1>1, <1>3, <2>1, <2>2, PushStep DEF Push
<1>4. QED
  BY <1>2, <1>3 DEF Bootstrap

LEMMA LoadDeferredForStep ==
    ASSUME IInv, NEW alias \in Aliases, LoadDeferredFor(alias) PROVE IInv'
<1> DEFINE p == deferredMap[alias]
           phase == IF p \in isRegistered THEN "boot" ELSE "register"
<1>1. /\ CanCall /\ UNCHANGED <<byName, deferredMap, flags, phases>>
      /\ alias \in DOMAIN deferredMap /\ Push(Load(p, phase))
  BY DEF LoadDeferredFor
<1>2. p \in byName \cap Deferred /\ p \in Providers
  BY <1>1 DEF IInv, TypeOK, Range
<1> HIDE DEF p
<1>3. PICK c : c = Load(p, phase)
  OBVIOUS
<1>4. /\ c.op = "load" /\ c.phase = phase /\ c.todo = <<p>>
      /\ c.inCall = TRUE /\ c.scope = {}
  BY <1>3 DEF Load
<1>5. c \in Frame
  BY <1>2, <1>3 DEF Load, Frame
<1>6. c.todo # << >> /\ Head(c.todo) = p
  BY <1>4
<1>7. c.phase = "boot" => p \in isRegistered
  BY <1>4
<1>8. LoadingOK(c)
  BY <1>2, <1>4, <1>6, <1>7 DEF LoadingOK
<1>9. CallOK(c) /\ ~Registering(c)
  BY <1>4, <1>8 DEF CallOK, Registering, Booting
<1>10. QED
  BY <1>1, <1>3, <1>5, <1>9, PushStep DEF Push

LEMMA SkipRegisterStep == IInv /\ SkipRegister => IInv'
<1> SUFFICES ASSUME IInv, SkipRegister PROVE IInv'
  OBVIOUS
<1>1. /\ stack # << >> /\ ~Top.inCall /\ Top.phase = "register" /\ Top.todo # << >>
      /\ Head(Top.todo) \in isRegistered \union Deferred
      /\ UNCHANGED <<byName, deferredMap, flags, phases>>
  BY DEF SkipRegister, InLoop, Current
<1>2. PICK call \in Frame : call = Top
  BY <1>1, TopFacts
<1>3. Registering(call) /\ RegisteringOK(call)
  BY <1>1, <1>2, TopFacts DEF CallOK, LoadingOK, Registering
<1>4. PICK c : c = [call EXCEPT !.todo = Tail(@), !.inCall = FALSE]
  OBVIOUS
<1>5. c \in Frame /\ CallOK(c)
  BY <1>1, <1>2, <1>3, <1>4, AdvanceRegistering
<1>6. c.scope = call.scope
  BY <1>1, <1>2, <1>4, AdvanceFacts
<1>7. Continue(c)
  BY <1>2, <1>4 DEF SkipRegister, NextProvider
<1>8. QED
  BY <1>1, <1>2, <1>3, <1>5, <1>6, <1>7, ReplaceStep

LEMMA CallRegisterStep == IInv /\ CallRegister => IInv'
<1> SUFFICES ASSUME IInv, CallRegister PROVE IInv'
  OBVIOUS
<1>1. /\ stack # << >> /\ ~Top.inCall /\ Top.phase = "register" /\ Top.todo # << >>
      /\ Head(Top.todo) \notin isRegistered \union Deferred
      /\ UNCHANGED <<byName, deferredMap, flags, phases>>
  BY DEF CallRegister, InLoop, Current
<1>2. PICK call \in Frame : call = Top
  BY <1>1, TopFacts
<1>3. Registering(call) /\ RegisteringOK(call)
  BY <1>1, <1>2, TopFacts DEF CallOK, LoadingOK, Registering
<1>4. PICK c : c = [call EXCEPT !.inCall = TRUE]
  OBVIOUS
<1>5. /\ c \in Frame /\ c.op = call.op /\ c.phase = call.phase
      /\ c.todo = call.todo /\ c.scope = call.scope /\ c.inCall = TRUE
  BY <1>4, EnterCallbackFacts
<1>6. Head(call.todo) \in Eager
  BY <1>1, <1>2 DEF Eager, Frame
<1>7. CallOK(c)
  BY <1>1, <1>2, <1>3, <1>5, <1>6 DEF CallOK, RegisteringOK, Registering, Booting
<1>8. Continue(c)
  BY <1>2, <1>4 DEF CallRegister
<1>9. QED
  BY <1>1, <1>2, <1>3, <1>5, <1>7, <1>8, ReplaceStep

LEMMA SkipBootStep == IInv /\ SkipBoot => IInv'
<1> SUFFICES ASSUME IInv, SkipBoot PROVE IInv'
  OBVIOUS
<1>1. /\ stack # << >> /\ ~Top.inCall /\ Top.phase = "boot" /\ Top.todo # << >>
      /\ Head(Top.todo) \in isBooted \/ Head(Top.todo) \notin isRegistered
      /\ UNCHANGED <<byName, deferredMap, flags, phases>>
  BY DEF SkipBoot, InLoop, Current
<1>2. PICK call \in Frame : call = Top
  BY <1>1, TopFacts
<1>3. Booting(call) /\ BootingOK(call)
  BY <1>1, <1>2, TopFacts DEF CallOK, LoadingOK, Booting
<1>4. PICK c : c = [call EXCEPT !.todo = Tail(@), !.inCall = FALSE]
  OBVIOUS
<1>5. c \in Frame /\ CallOK(c) /\ ~Registering(c)
  BY <1>1, <1>2, <1>3, <1>4, AdvanceBooting
<1>6. Continue(c)
  BY <1>2, <1>4 DEF SkipBoot, NextProvider
<1>7. QED
  BY <1>1, <1>5, <1>6, ReplaceStep

LEMMA CallBootStep == IInv /\ CallBoot => IInv'
<1> SUFFICES ASSUME IInv, CallBoot PROVE IInv'
  OBVIOUS
<1>1. /\ stack # << >> /\ ~Top.inCall /\ Top.phase = "boot" /\ Top.todo # << >>
      /\ Head(Top.todo) \in isRegistered
      /\ UNCHANGED <<byName, deferredMap, flags, phases>>
  BY DEF CallBoot, InLoop, Current
<1>2. PICK call \in Frame : call = Top
  BY <1>1, TopFacts
<1>3. Booting(call) /\ BootingOK(call)
  BY <1>1, <1>2, TopFacts DEF CallOK, LoadingOK, Booting
<1>4. PICK c : c = [call EXCEPT !.inCall = TRUE]
  OBVIOUS
<1>5. /\ c \in Frame /\ c.op = call.op /\ c.phase = call.phase
      /\ c.todo = call.todo /\ c.scope = call.scope /\ c.inCall = TRUE
  BY <1>4, EnterCallbackFacts
<1>6. CallOK(c) /\ ~Registering(c)
  BY <1>1, <1>2, <1>3, <1>5 DEF CallOK, BootingOK, Registering, Booting
<1>7. Continue(c)
  BY <1>2, <1>4 DEF CallBoot
<1>8. QED
  BY <1>1, <1>5, <1>6, <1>7, ReplaceStep

LEMMA CallbackThrowsStep == IInv /\ CallbackThrows => IInv'
BY PopStep DEF CallbackThrows

-------------------------------------------------------------------------------
(***************************************************************************)
(* The steps that change the providers or the flags.                       *)
(***************************************************************************)

\* More booted providers take no alias away.
LEMMA ReachableStays ==
    ASSUME DeferredStaysReachable, isBooted \subseteq isBooted',
           UNCHANGED <<byName, deferredMap>>
    PROVE  DeferredStaysReachable'
BY DEF DeferredStaysReachable, ProvidersOf

LEMMA AddStep == ASSUME IInv, NEW p \in Providers, Add(p) PROVE IInv'
<1>1. /\ UNCHANGED <<isRegistered, isBooted, registered, booted, stack>>
      /\ byName' = byName \union {p} /\ p \notin byName
  BY DEF Add, flags, phases
<1>2. Provides[p] \subseteq Aliases
  BY ProvidersAssumption
<1>3. /\ p \in Deferred => deferredMap' =
            [a \in DOMAIN deferredMap \union Provides[p] |->
                IF a \in Provides[p] THEN p ELSE deferredMap[a]]
      /\ p \notin Deferred => deferredMap' = deferredMap
  BY DEF Add
<1>4. /\ DOMAIN deferredMap' \subseteq Aliases
      /\ deferredMap' \in [DOMAIN deferredMap' -> Providers]
      /\ Range(deferredMap') \subseteq byName' \cap Deferred
  BY <1>1, <1>2, <1>3 DEF IInv, TypeOK, Range
<1>5. TypeOK'
  BY <1>1, <1>4 DEF IInv, TypeOK, Frame
<1>6. DeferredStaysReachable'
  <2> SUFFICES ASSUME NEW a \in Aliases,
                      ProvidersOf(a)' # {}, ProvidersOf(a)' \cap isBooted = {}
               PROVE  a \in DOMAIN deferredMap' /\ deferredMap'[a] \in ProvidersOf(a)'
    BY <1>1 DEF DeferredStaysReachable
  <2>1. CASE p \in ProvidersOf(a)'
    BY <1>3, <2>1 DEF ProvidersOf
  <2>2. CASE p \notin ProvidersOf(a)'
    <3>1. ProvidersOf(a)' = ProvidersOf(a)
      BY <1>1, <2>2 DEF ProvidersOf
    <3>2. a \in DOMAIN deferredMap /\ deferredMap[a] \in ProvidersOf(a)
      BY <3>1 DEF IInv, DeferredStaysReachable
    <3>3. p \in Deferred => a \notin Provides[p]
      BY <1>1, <2>2 DEF ProvidersOf
    <3>4. QED
      BY <1>3, <3>1, <3>2, <3>3
  <2>3. QED
    BY <2>1, <2>2
<1>7. ASSUME NEW call \in Range(stack) PROVE CallOK(call)'
  <2>1. CallOK(call)
    BY DEF IInv
  <2>2. QED
    BY <1>1, <2>1, CallStaysOK
<1>8. (\A call \in Range(stack) : CallOK(call))'
  BY <1>1, <1>7
<1>9. QED
  BY <1>1, <1>4, <1>5, <1>6, <1>8 DEF IInv, BootedMeansBooted

\* Once registered_ is set, the eager provider whose register_() returns was
\* registered before, by a re-entrant call.
LEMMA RegisterReturnsFacts ==
    ASSUME IInv, RegisterReturns
    PROVE  /\ stack # << >> /\ Registering(Top) /\ RegisteringOK(Top)
           /\ Top.todo # << >> /\ Current \in byName \cap Eager
           /\ isRegistered' = isRegistered \union {Current}
           /\ registered => isRegistered' = isRegistered
           /\ UNCHANGED <<byName, deferredMap, isBooted, registered, booted>>
<1>1. /\ stack # << >> /\ Registering(Top) /\ Top.inCall
      /\ isRegistered' = isRegistered \union {Current}
      /\ UNCHANGED <<byName, deferredMap, isBooted, registered, booted>>
  BY DEF RegisterReturns, InCallback, Registering, phases
<1>2. PICK call \in Frame : call = Top
  BY <1>1, TopFacts
<1>3. RegisteringOK(call)
  BY <1>1, <1>2, TopFacts DEF CallOK
<1>4. call.todo # << >> /\ Head(call.todo) \in Eager
  BY <1>1, <1>2, <1>3 DEF RegisteringOK
<1>5. Head(call.todo) \in call.scope
  BY <1>3, <1>4, TailFacts DEF RegisteringOK, Frame
<1>6. QED
  BY <1>1, <1>2, <1>3, <1>4, <1>5 DEF RegisteringOK, Current

LEMMA RegisterReturnsStep == IInv /\ RegisterReturns => IInv'
<1> SUFFICES ASSUME IInv, RegisterReturns PROVE IInv'
  OBVIOUS
<1>1. /\ stack # << >> /\ Registering(Top) /\ RegisteringOK(Top)
      /\ Top.todo # << >> /\ Current \in byName \cap Eager
      /\ isRegistered' = isRegistered \union {Current}
      /\ registered => isRegistered' = isRegistered
      /\ UNCHANGED <<byName, deferredMap, isBooted, registered, booted>>
  BY RegisterReturnsFacts
<1>2. PICK call \in Frame : call = Top
  BY <1>1, TopFacts
<1>3. PICK c : c = [call EXCEPT !.todo = Tail(@), !.inCall = FALSE]
  OBVIOUS
<1>4. stack \in Seq(Frame) /\ stack' = [stack EXCEPT ![Len(stack)] = c]
  BY <1>2, <1>3 DEF RegisterReturns, NextProvider, Continue, IInv, TypeOK
<1>5. /\ c \in Frame /\ c.op = call.op /\ c.phase = call.phase
      /\ c.todo = Tail(call.todo) /\ c.scope = call.scope /\ c.inCall = FALSE
  <2>1. call.todo # << >>
    BY <1>1, <1>2
  <2>2. QED
    BY <1>3, <2>1, AdvanceFacts
<1>6. /\ Range(c.todo) \subseteq Range(call.todo)
      /\ Range(call.todo) \ {Head(call.todo)} \subseteq Range(c.todo)
      /\ Respects(Deps, c.todo)
  BY <1>1, <1>2, <1>5, TailFacts DEF RegisteringOK, Frame
<1>7. Registering(c) /\ ~Booting(c) /\ c.op # "load"
  BY <1>1, <1>2, <1>5 DEF Registering, Booting
<1>8. RegisteringOK(c)'
  BY <1>1, <1>2, <1>5, <1>6 DEF RegisteringOK, Current
<1>9. CallOK(c)'
  BY <1>5, <1>7, <1>8 DEF CallOK, Registering, Booting
<1>10. ASSUME NEW d \in Range(stack) PROVE CallOK(d)'
  <2>1. CallOK(d)
    BY DEF IInv
  <2>2. QED
    BY <1>1, <2>1, CallStaysOK
<1>11. stack' \in Seq(Frame) /\ Range(stack') \subseteq Range(stack) \union {c}
  BY <1>4, <1>5, ReplaceFacts, <1>1
<1>12. Nested(stack')
  <2>1. Registering(stack[Len(stack)]) /\ c.scope = stack[Len(stack)].scope
    BY <1>1, <1>2, <1>5 DEF Top
  <2>2. QED
    BY <1>1, <1>4, <1>5, <2>1, NestedReplace DEF IInv
<1>13. (\A d \in Range(stack) : CallOK(d))'
  BY <1>9, <1>10, <1>11
<1>14. TypeOK'
  BY <1>1, <1>11 DEF IInv, TypeOK, Frame
<1>15. BootedMeansBooted' /\ DeferredStaysReachable'
  BY <1>1 DEF IInv, BootedMeansBooted, DeferredStaysReachable, ProvidersOf
<1>16. QED
  BY <1>1, <1>12, <1>13, <1>14, <1>15 DEF IInv

LEMMA BootReturnsFacts ==
    ASSUME IInv, BootReturns
    PROVE  /\ stack # << >> /\ Booting(Top) /\ BootingOK(Top)
           /\ Top.todo # << >> /\ Current \in isRegistered /\ registered
           /\ isBooted' = isBooted \union {Current}
           /\ UNCHANGED <<byName, deferredMap, isRegistered, registered, booted>>
<1>1. /\ stack # << >> /\ Booting(Top) /\ Top.inCall
      /\ isBooted' = isBooted \union {Current}
      /\ UNCHANGED <<byName, deferredMap, isRegistered, registered, booted>>
  BY DEF BootReturns, InCallback, Booting, phases
<1>2. BootingOK(Top)
  BY <1>1, TopFacts DEF CallOK
<1>3. QED
  BY <1>1, <1>2 DEF BootingOK, Current

LEMMA BootReturnsStep == IInv /\ BootReturns => IInv'
<1> SUFFICES ASSUME IInv, BootReturns PROVE IInv'
  OBVIOUS
<1>1. /\ stack # << >> /\ Booting(Top) /\ BootingOK(Top)
      /\ Top.todo # << >> /\ Current \in isRegistered /\ registered
      /\ isBooted' = isBooted \union {Current}
      /\ UNCHANGED <<byName, deferredMap, isRegistered, registered, booted>>
  BY BootReturnsFacts
<1>2. PICK call \in Frame : call = Top
  BY <1>1, TopFacts
<1>3. PICK c : c = [call EXCEPT !.todo = Tail(@), !.inCall = FALSE]
  OBVIOUS
<1>4. stack \in Seq(Frame) /\ stack' = [stack EXCEPT ![Len(stack)] = c]
  BY <1>2, <1>3 DEF BootReturns, NextProvider, Continue, IInv, TypeOK
<1>5. /\ c \in Frame /\ c.op = call.op /\ c.phase = call.phase
      /\ c.todo = Tail(call.todo) /\ c.scope = call.scope /\ c.inCall = FALSE
  <2>1. call.todo # << >>
    BY <1>1, <1>2
  <2>2. QED
    BY <1>3, <2>1, AdvanceFacts
<1>6. /\ Range(call.todo) \ {Head(call.todo)} \subseteq Range(c.todo)
      /\ Respects(Deps, c.todo)
  BY <1>1, <1>2, <1>5, TailFacts DEF BootingOK, Frame
<1>7. Booting(c) /\ ~Registering(c) /\ c.op # "load"
  BY <1>1, <1>2, <1>5 DEF Registering, Booting
<1>8. BootingOK(c)'
  BY <1>1, <1>2, <1>5, <1>6 DEF BootingOK, Current
<1>9. CallOK(c)'
  BY <1>5, <1>7, <1>8 DEF CallOK, Registering, Booting
<1>10. ASSUME NEW d \in Range(stack) PROVE CallOK(d)'
  <2>1. CallOK(d)
    BY DEF IInv
  <2>2. QED
    BY <1>1, <2>1, CallStaysOK
<1>11. stack' \in Seq(Frame) /\ Range(stack') \subseteq Range(stack) \union {c}
  BY <1>1, <1>4, <1>5, ReplaceFacts
<1>12. Nested(stack')
  BY <1>1, <1>4, <1>5, <1>7, NestedReplace DEF IInv
<1>13. (\A d \in Range(stack) : CallOK(d))'
  BY <1>9, <1>10, <1>11
<1>14. TypeOK'
  BY <1>1, <1>11 DEF IInv, TypeOK, Frame
<1>15. BootedMeansBooted'
  BY <1>1 DEF IInv, BootedMeansBooted
<1>16. DeferredStaysReachable'
  BY <1>1, ReachableStays DEF IInv
<1>17. QED
  BY <1>1, <1>12, <1>13, <1>14, <1>15, <1>16 DEF IInv

\* The loop that ends has registered all its eager providers, and so those of
\* every register loop it interrupts.
LEMMA FinishRegisterFacts ==
    ASSUME IInv, FinishRegister
    PROVE  /\ stack # << >> /\ registered' = TRUE
           /\ UNCHANGED <<byName, deferredMap, isRegistered, isBooted, booted>>
           /\ \A call \in Range(stack) :
                  Registering(call) => call.scope \cap Eager \subseteq isRegistered
<1>1. /\ stack # << >> /\ ~Top.inCall /\ Top.phase = "register" /\ Top.todo = << >>
      /\ registered' = TRUE
      /\ UNCHANGED <<byName, deferredMap, isRegistered, isBooted, booted>>
  BY DEF FinishRegister, InLoop, flags
<1>2. Registering(Top) /\ RegisteringOK(Top)
  BY <1>1, TopFacts DEF CallOK, LoadingOK, Registering
<1>3. Range(Top.todo) = {}
  BY <1>1 DEF Range
<1>4. Top.scope \cap Eager \subseteq isRegistered
  BY <1>2, <1>3 DEF RegisteringOK
<1>5. ASSUME NEW call \in Range(stack), Registering(call)
      PROVE  call.scope \subseteq Top.scope
  <2>1. /\ Len(stack) \in Nat \ {0} /\ stack \in Seq(Frame)
        /\ DOMAIN stack = 1..Len(stack) /\ Nested(stack)
    BY <1>1, TopFacts DEF IInv
  <2>2. PICK k \in DOMAIN stack : call = stack[k]
    BY <1>5 DEF Range
  <2>3. CASE k = Len(stack)
    BY <2>2, <2>3 DEF Top
  <2>4. CASE k # Len(stack)
    <3>1. k < Len(stack) /\ Len(stack) \in DOMAIN stack
      BY <2>1, <2>2, <2>4
    <3>2. QED
      BY <1>2, <1>5, <2>1, <2>2, <3>1 DEF Nested, Top
  <2>5. QED
    BY <2>3, <2>4
<1>6. QED
  BY <1>1, <1>4, <1>5

LEMMA FinishRegisterStep == IInv /\ FinishRegister => IInv'
<1> SUFFICES ASSUME IInv, FinishRegister PROVE IInv'
  OBVIOUS
<1>1. /\ stack # << >> /\ registered' = TRUE
      /\ UNCHANGED <<byName, deferredMap, isRegistered, isBooted, booted>>
      /\ \A call \in Range(stack) :
             Registering(call) => call.scope \cap Eager \subseteq isRegistered
  BY FinishRegisterFacts
<1>2. stack \in Seq(Frame) /\ Nested(stack)
  BY DEF IInv, TypeOK
<1>3. ASSUME NEW d \in Range(stack) PROVE CallOK(d)'
  <2>1. CallOK(d)
    BY DEF IInv
  <2>2. QED
    BY <1>1, <2>1, CallStaysOK
<1>4. /\ stack' \in Seq(Frame) /\ Nested(stack')
      /\ \A d \in Range(stack') : CallOK(d)'
  <2>1. CASE Pop
    <3>1. /\ stack' \in Seq(Frame) /\ Range(stack') \subseteq Range(stack)
          /\ Nested(stack')
      BY <1>1, <1>2, <2>1, PopFacts, PopRange, NestedPop DEF Pop
    <3>2. QED
      BY <1>3, <3>1
  <2>2. ASSUME NEW order \in SortedProviders, Continue(Loop("bootstrap", "boot", order))
        PROVE  /\ stack' \in Seq(Frame) /\ Nested(stack')
               /\ \A d \in Range(stack') : CallOK(d)'
    <3>1. PICK c : c = Loop("bootstrap", "boot", order)
      OBVIOUS
    <3>2. /\ c \in Frame /\ ~Registering(c) /\ c.op # "load"
          /\ c.inCall = FALSE /\ c.todo = order
          /\ Range(order) = byName /\ Respects(Deps, order)
      BY <3>1, NewBootLoop
    <3>3. BootingOK(c)'
      BY <1>1, <3>2 DEF BootingOK, IInv
    <3>4. CallOK(c)'
      BY <3>2, <3>3 DEF CallOK, Registering, Booting
    <3>5. stack' = [stack EXCEPT ![Len(stack)] = c]
      BY <2>2, <3>1 DEF Continue
    <3>6. /\ stack' \in Seq(Frame) /\ Nested(stack')
          /\ Range(stack') \subseteq Range(stack) \union {c}
      BY <1>1, <1>2, <3>2, <3>5, ReplaceFacts, NestedReplace
    <3>7. QED
      BY <1>3, <3>4, <3>6
  <2>3. QED
    BY <2>1, <2>2 DEF FinishRegister
<1>5. (\A d \in Range(stack) : CallOK(d))'
  BY <1>4
<1>6. TypeOK'
  BY <1>1, <1>4 DEF IInv, TypeOK, Frame
<1>7. BootedMeansBooted' /\ DeferredStaysReachable'
  BY <1>1 DEF IInv, BootedMeansBooted, DeferredStaysReachable, ProvidersOf
<1>8. QED
  BY <1>1, <1>4, <1>5, <1>6, <1>7 DEF IInv

LEMMA FinishBootFacts ==
    ASSUME IInv, FinishBoot
    PROVE  /\ stack # << >> /\ registered /\ booted' = TRUE
           /\ isRegistered \cap Eager \subseteq isBooted
           /\ UNCHANGED <<byName, deferredMap, isRegistered, isBooted, registered>>
<1>1. /\ stack # << >> /\ ~Top.inCall /\ Top.phase = "boot" /\ Top.todo = << >>
      /\ booted' = TRUE
      /\ UNCHANGED <<byName, deferredMap, isRegistered, isBooted, registered>>
  BY DEF FinishBoot, InLoop, flags
<1>2. BootingOK(Top)
  BY <1>1, TopFacts DEF CallOK, LoadingOK, Booting
<1>3. Range(Top.todo) = {}
  BY <1>1 DEF Range
<1>4. QED
  BY <1>1, <1>2, <1>3 DEF BootingOK

LEMMA FinishBootStep == IInv /\ FinishBoot => IInv'
<1> SUFFICES ASSUME IInv, FinishBoot PROVE IInv'
  OBVIOUS
<1>1. /\ stack # << >> /\ registered /\ booted' = TRUE
      /\ isRegistered \cap Eager \subseteq isBooted
      /\ UNCHANGED <<byName, deferredMap, isRegistered, isBooted, registered>>
  BY FinishBootFacts
<1>2. stack \in Seq(Frame) /\ Nested(stack)
  BY DEF IInv, TypeOK
<1>3. ASSUME NEW d \in Range(stack) PROVE CallOK(d)'
  <2>1. CallOK(d)
    BY DEF IInv
  <2>2. QED
    BY <1>1, <2>1, CallStaysOK
<1>4. /\ stack' \in Seq(Frame) /\ Range(stack') \subseteq Range(stack)
      /\ Nested(stack')
  BY <1>1, <1>2, PopFacts, PopRange, NestedPop DEF FinishBoot, Pop
<1>5. (\A d \in Range(stack) : CallOK(d))'
  BY <1>3, <1>4
<1>6. TypeOK'
  BY <1>1, <1>4 DEF IInv, TypeOK, Frame
<1>7. BootedMeansBooted' /\ DeferredStaysReachable'
  BY <1>1 DEF IInv, BootedMeansBooted, DeferredStaysReachable, ProvidersOf
<1>8. QED
  BY <1>1, <1>4, <1>5, <1>6, <1>7 DEF IInv

\* A load concerns a deferred provider.
LEMMA LoadingFacts ==
    ASSUME IInv, stack # << >>, Top.op = "load"
    PROVE  /\ Current \in byName \cap Deferred /\ Current \in Providers
           /\ Current \notin Eager
           /\ Top.phase = "boot" => Current \in isRegistered
<1>1. LoadingOK(Top)
  BY TopFacts DEF CallOK
<1>2. QED
  BY <1>1, ProvidersAssumption DEF LoadingOK, Current, Eager

LEMMA LoadRegisterReturnsStep == IInv /\ LoadRegisterReturns => IInv'
<1> SUFFICES ASSUME IInv, LoadRegisterReturns PROVE IInv'
  OBVIOUS
<1>1. /\ stack # << >> /\ Top.op = "load" /\ Continue(Load(Current, "boot"))
      /\ isRegistered' = isRegistered \union {Current}
      /\ UNCHANGED <<byName, deferredMap, isBooted, registered, booted>>
  BY DEF LoadRegisterReturns, InCallback, phases
<1>2. PICK p \in Providers : p = Current /\ p \in byName \cap Deferred /\ p \notin Eager
  BY <1>1, LoadingFacts
<1>3. isRegistered' \cap Eager = isRegistered \cap Eager
  BY <1>1, <1>2
<1>4. PICK c : c = Load(p, "boot")
  OBVIOUS
<1>5. /\ c.op = "load" /\ c.todo = <<p>> /\ c.inCall = TRUE /\ c \in Frame
  BY <1>2, <1>4 DEF Load, Frame
<1>6. c.todo # << >> /\ Head(c.todo) = p
  BY <1>5
<1>7. LoadingOK(c)'
  BY <1>1, <1>2, <1>5, <1>6 DEF LoadingOK
<1>8. CallOK(c)' /\ ~Registering(c)
  BY <1>5, <1>7 DEF CallOK, Registering, Booting
<1>9. ASSUME NEW d \in Range(stack) PROVE CallOK(d)'
  <2>1. CallOK(d)
    BY DEF IInv
  <2>2. QED
    BY <1>1, <1>3, <2>1, CallStaysOK
<1>10. stack \in Seq(Frame) /\ Nested(stack) /\ stack' = [stack EXCEPT ![Len(stack)] = c]
  BY <1>1, <1>2, <1>4 DEF Continue, IInv, TypeOK
<1>11. /\ stack' \in Seq(Frame) /\ Range(stack') \subseteq Range(stack) \union {c}
       /\ Nested(stack')
  BY <1>1, <1>5, <1>8, <1>10, ReplaceFacts, NestedReplace
<1>12. (\A d \in Range(stack) : CallOK(d))'
  BY <1>8, <1>9, <1>11
<1>13. TypeOK'
  BY <1>1, <1>2, <1>11 DEF IInv, TypeOK, Frame
<1>14. BootedMeansBooted' /\ DeferredStaysReachable'
  BY <1>1, <1>3 DEF IInv, BootedMeansBooted, DeferredStaysReachable, ProvidersOf
<1>15. QED
  BY <1>1, <1>2, <1>11, <1>12, <1>13, <1>14 DEF IInv

LEMMA LoadBootReturnsStep == IInv /\ LoadBootReturns => IInv'
<1> SUFFICES ASSUME IInv, LoadBootReturns PROVE IInv'
  OBVIOUS
<1>1. /\ stack # << >> /\ Top.op = "load" /\ Top.phase = "boot" /\ Pop
      /\ isBooted' = isBooted \union {Current}
      /\ deferredMap' = Restrict(deferredMap, DOMAIN deferredMap \ Provides[Current])
      /\ UNCHANGED <<byName, isRegistered, registered, booted>>
  BY DEF LoadBootReturns, InCallback, phases
<1>2. PICK p \in Providers : /\ p = Current /\ p \in byName \cap Deferred
                             /\ p \in isRegistered
  BY <1>1, LoadingFacts
<1>3. /\ DOMAIN deferredMap' = DOMAIN deferredMap \ Provides[p]
      /\ \A a \in DOMAIN deferredMap' : deferredMap'[a] = deferredMap[a]
      /\ deferredMap' = [a \in DOMAIN deferredMap' |-> deferredMap'[a]]
  BY <1>1, <1>2 DEF Restrict
<1>4. DeferredStaysReachable'
  <2> SUFFICES ASSUME NEW a \in Aliases,
                      ProvidersOf(a) # {}, ProvidersOf(a) \cap isBooted' = {}
               PROVE  a \in DOMAIN deferredMap' /\ deferredMap'[a] \in ProvidersOf(a)
    BY <1>1 DEF DeferredStaysReachable, ProvidersOf
  <2>1. ProvidersOf(a) \cap isBooted = {}
    BY <1>1
  <2>2. a \in DOMAIN deferredMap /\ deferredMap[a] \in ProvidersOf(a)
    BY <2>1 DEF IInv, DeferredStaysReachable
  <2>3. a \notin Provides[p]
    BY <1>1, <1>2 DEF ProvidersOf
  <2>4. QED
    BY <1>3, <2>2, <2>3
<1>5. ASSUME NEW d \in Range(stack) PROVE CallOK(d)'
  <2>1. CallOK(d)
    BY DEF IInv
  <2>2. QED
    BY <1>1, <2>1, CallStaysOK
<1>6. stack \in Seq(Frame) /\ Nested(stack) /\ stack' = SubSeq(stack, 1, Len(stack) - 1)
  BY <1>1 DEF Pop, IInv, TypeOK
<1>7. /\ stack' \in Seq(Frame) /\ Range(stack') \subseteq Range(stack)
      /\ Nested(stack')
  BY <1>1, <1>6, PopFacts, PopRange, NestedPop
<1>8. (\A d \in Range(stack) : CallOK(d))'
  BY <1>5, <1>7
<1>9. /\ DOMAIN deferredMap' \subseteq Aliases
      /\ deferredMap' \in [DOMAIN deferredMap' -> Providers]
      /\ Range(deferredMap') \subseteq Range(deferredMap)
  BY <1>3 DEF IInv, TypeOK, Range
<1>10. TypeOK'
  BY <1>1, <1>2, <1>7, <1>9 DEF IInv, TypeOK, Frame
<1>11. BootedMeansBooted'
  BY <1>1 DEF IInv, BootedMeansBooted
<1>12. QED
  BY <1>1, <1>2, <1>4, <1>7, <1>8, <1>9, <1>10, <1>11 DEF IInv

-------------------------------------------------------------------------------
(***************************************************************************)
(* The invariant.                                                          *)
(***************************************************************************)

LEMMA InitInvariant == Init => IInv
<1> SUFFICES ASSUME Init PROVE IInv
  OBVIOUS
<1>1. stack = << >> /\ deferredMap = << >>
  BY DEF Init
<1>2. Range(stack) = {} /\ Range(deferredMap) = {} /\ DOMAIN deferredMap = {}
  BY <1>1 DEF Range
<1>3. TypeOK
  <2>1. deferredMap \in [DOMAIN deferredMap -> Providers]
    BY <1>1
  <2>2. stack \in Seq(Frame)
    BY <1>1
  <2>3. QED
    BY <1>2, <2>1, <2>2 DEF TypeOK, Init
<1>4. Nested(stack)
  BY <1>1 DEF Nested
<1>5. QED
  BY <1>2, <1>3, <1>4 DEF Init, IInv, BootedMeansBooted, DeferredStaysReachable, ProvidersOf

LEMMA StutterStep == IInv /\ UNCHANGED vars => IInv'
<1> SUFFICES ASSUME IInv, UNCHANGED vars PROVE IInv'
  OBVIOUS
<1>1. UNCHANGED <<byName, deferredMap, flags, phases, stack>>
  BY DEF vars, flags, phases
<1>2. stack' \in Seq(Frame) /\ Nested(stack')
  BY <1>1 DEF IInv, TypeOK
<1>3. QED
  BY <1>1, <1>2, StackStep

LEMMA StepInvariant == IInv /\ [Next]_vars => IInv'
<1> SUFFICES ASSUME IInv, [Next]_vars PROVE IInv'
  OBVIOUS
<1>1. ASSUME NEW p \in Providers, Add(p) \/ AddDuplicate(p) PROVE IInv'
  BY <1>1, AddStep, StutterStep DEF AddDuplicate
<1>2. ASSUME NEW a \in Aliases, LoadDeferredFor(a) \/ LoadAtOnce(a) PROVE IInv'
  BY <1>2, LoadDeferredForStep, StutterStep DEF LoadAtOnce
<1>3. CASE RegisterAll \/ RegisterAllAtOnce
  BY <1>3, RegisterAllStep, StutterStep DEF RegisterAllAtOnce
<1>4. CASE BootAll \/ BootAllAtOnce
  BY <1>4, BootAllStep, StutterStep DEF BootAllAtOnce
<1>5. CASE Bootstrap \/ BootstrapAtOnce
  BY <1>5, BootstrapStep, StutterStep DEF BootstrapAtOnce
<1>6. CASE SkipRegister \/ CallRegister \/ RegisterReturns \/ FinishRegister
  BY <1>6, SkipRegisterStep, CallRegisterStep, RegisterReturnsStep, FinishRegisterStep
<1>7. CASE SkipBoot \/ CallBoot \/ BootReturns \/ FinishBoot
  BY <1>7, SkipBootStep, CallBootStep, BootReturnsStep, FinishBootStep
<1>8. CASE LoadRegisterReturns \/ LoadBootReturns \/ CallbackThrows
  BY <1>8, LoadRegisterReturnsStep, LoadBootReturnsStep, CallbackThrowsStep
<1>9. CASE UNCHANGED vars
  BY <1>9, StutterStep
<1>10. QED
  BY <1>1, <1>2, <1>3, <1>4, <1>5, <1>6, <1>7, <1>8, <1>9 DEF Next

\* In every state the manager can reach, each call in progress has the
\* providers it still needs in front of it and has done its duty by the
\* others, however the callbacks of register_() and boot() nest.
THEOREM Invariant == Spec => []IInv
<1>1. QED
  BY InitInvariant, StepInvariant, PTL DEF Spec

\* The variables keep their types: deferredMap_ never leaves the providers
\* that were added, and every frame of the stack is a call of the manager.
THEOREM TypeCorrect == Spec => []TypeOK
<1>1. IInv => TypeOK
  BY DEF IInv
<1>2. QED
  BY <1>1, Invariant, PTL

-------------------------------------------------------------------------------
(***************************************************************************)
(* The order of the callbacks.                                             *)
(***************************************************************************)

\* The provider whose boot() runs has no registered eager dependency that is
\* not booted.
LEMMA BootingHeadIsReady ==
    ASSUME NEW call \in Frame, BootingOK(call), call.todo # << >>
    PROVE  Deps[Head(call.todo)] \cap isRegistered \cap Eager \subseteq isBooted
<1>1. call.todo \in Seq(Providers)
  BY DEF Frame
<1>2. Deps[Head(call.todo)] \cap Range(call.todo) = {}
  BY <1>1, HeadDependsOnNothing DEF BootingOK
<1>3. QED
  BY <1>2 DEF BootingOK

LEMMA RegisteringHeadIsReady ==
    ASSUME NEW call \in Frame, RegisteringOK(call), call.todo # << >>
    PROVE  Deps[Head(call.todo)] \cap call.scope \cap Eager \subseteq isRegistered
<1>1. call.todo \in Seq(Providers)
  BY DEF Frame
<1>2. Deps[Head(call.todo)] \cap Range(call.todo) = {}
  BY <1>1, HeadDependsOnNothing DEF RegisteringOK
<1>3. QED
  BY <1>2 DEF RegisteringOK

\* A call on the stack, with the facts the invariant has of it.
LEMMA CallFacts ==
    ASSUME IInv, NEW k \in DOMAIN stack
    PROVE  stack[k] \in Frame /\ CallOK(stack[k])
<1>1. stack \in Seq(Frame) /\ stack[k] \in Range(stack)
  BY DEF IInv, TypeOK, Range
<1>2. QED
  BY <1>1 DEF IInv

\* registerAll runs register_() of a provider only after the eager providers
\* it depends on, of those added when it sorted, are registered.
THEOREM RegisteredInOrder == Spec => []DependenciesRegisteredFirst
<1>1. IInv => DependenciesRegisteredFirst
  <2> SUFFICES ASSUME IInv, NEW k \in DOMAIN stack,
                      Registering(stack[k]), stack[k].inCall
               PROVE  Deps[Head(stack[k].todo)] \cap stack[k].scope \cap Eager
                          \subseteq isRegistered
    BY DEF DependenciesRegisteredFirst
  <2>1. stack[k] \in Frame /\ RegisteringOK(stack[k])
    BY CallFacts DEF CallOK
  <2>2. QED
    BY <2>1, RegisteringHeadIsReady DEF RegisteringOK
<1>2. QED
  BY <1>1, Invariant, PTL

\* bootAll runs boot() of a provider only after the eager registered
\* providers it depends on are booted.
THEOREM BootedInOrder == Spec => []DependenciesBootedFirst
<1>1. IInv => DependenciesBootedFirst
  <2> SUFFICES ASSUME IInv, NEW k \in DOMAIN stack,
                      Booting(stack[k]), stack[k].inCall
               PROVE  Deps[Head(stack[k].todo)] \cap isRegistered \cap Eager
                          \subseteq isBooted
    BY DEF DependenciesBootedFirst
  <2>1. stack[k] \in Frame /\ BootingOK(stack[k])
    BY CallFacts DEF CallOK
  <2>2. QED
    BY <2>1, BootingHeadIsReady DEF BootingOK
<1>2. QED
  BY <1>1, Invariant, PTL

-------------------------------------------------------------------------------
(***************************************************************************)
(* What the return of an operation and the two phases mean.                *)
(***************************************************************************)

\* registerAll leaves its loop only with every eager provider it sorted
\* registered.
THEOREM RegisterAllIsComplete == Spec => []RegisterAllCompletes
<1>1. IInv => RegisterAllCompletes
  <2> SUFFICES ASSUME IInv, NEW k \in DOMAIN stack,
                      Registering(stack[k]), stack[k].todo = << >>
               PROVE  stack[k].scope \cap Eager \subseteq isRegistered
    BY DEF RegisterAllCompletes
  <2>1. RegisteringOK(stack[k])
    BY CallFacts DEF CallOK
  <2>2. Range(stack[k].todo) = {}
    BY DEF Range
  <2>3. QED
    BY <2>1, <2>2 DEF RegisteringOK
<1>2. QED
  BY <1>1, Invariant, PTL

\* What booted_ says: nothing eager that was registered is left unbooted, now
\* or later.
THEOREM BootedIsBooted == Spec => []BootedMeansBooted
<1>1. IInv => BootedMeansBooted
  BY DEF IInv
<1>2. QED
  BY <1>1, Invariant, PTL

\* An alias leads to one of its providers as long as none of them is booted,
\* whatever loads have thrown and whoever took the alias over.
THEOREM DeferredIsReachable == Spec => []DeferredStaysReachable
<1>1. IInv => DeferredStaysReachable
  BY DEF IInv
<1>2. QED
  BY <1>1, Invariant, PTL

\* After the first normal return of registerAll no eager provider is
\* registered, whatever is added later.
THEOREM NoLateRegistration == Spec => RegistrationIsOver
<1>1. IInv /\ [Next]_vars =>
          (registered => isRegistered' \cap Eager = isRegistered \cap Eager)
  <2> SUFFICES ASSUME IInv, [Next]_vars, registered
               PROVE  isRegistered' \cap Eager = isRegistered \cap Eager
    OBVIOUS
  <2>1. CASE RegisterReturns
    BY <2>1, RegisterReturnsFacts
  <2>2. CASE LoadRegisterReturns
    <3>1. isRegistered' = isRegistered \union {Current} /\ Current \notin Eager
      BY <2>2, LoadingFacts DEF LoadRegisterReturns, InCallback
    <3>2. QED
      BY <3>1
  <2>3. CASE UNCHANGED isRegistered
    BY <2>3
  <2>4. RegisterReturns \/ LoadRegisterReturns \/ UNCHANGED isRegistered
    BY DEF Next, vars, flags, Add, AddDuplicate, LoadDeferredFor, LoadAtOnce,
           RegisterAll, RegisterAllAtOnce, BootAll, BootAllAtOnce, Bootstrap,
           BootstrapAtOnce, SkipRegister, CallRegister, FinishRegister, SkipBoot,
           CallBoot, BootReturns, FinishBoot, LoadBootReturns, CallbackThrows
  <2>5. QED
    BY <2>1, <2>2, <2>3, <2>4
<1>2. QED
  BY <1>1, Invariant, PTL DEF Spec, RegistrationIsOver

-------------------------------------------------------------------------------
(***************************************************************************)
(* The manager implements Lifecycle.                                       *)
(***************************************************************************)

\* A step that moves one provider on moves its state in the life cycle.
LEMMA OneAdvances ==
    ASSUME NEW p \in Providers, NEW from, NEW to,
           StateOf(p) = from, StateOf(p)' = to,
           \A q \in Providers \ {p} : StateOf(q)' = StateOf(q),
           UNCHANGED phases
    PROVE  Life!Advance(p, from, to)
<1> DEFINE state == [q \in Providers |-> StateOf(q)]
<1>1. state' = [q \in Providers |-> StateOf(q)']
  OBVIOUS
<1>2. state' = [state EXCEPT ![p] = to]
  BY <1>1
<1>3. UNCHANGED <<registered, booted>>
  BY DEF phases
<1>4. QED
  BY <1>2, <1>3 DEF Life!Advance

LEMMA LifeStutter ==
    ASSUME UNCHANGED <<byName, flags, phases>>
    PROVE  UNCHANGED Life!vars
<1>1. UNCHANGED <<byName, isRegistered, isBooted, registered, booted>>
  BY DEF flags, phases
<1>2. ASSUME NEW q \in Providers PROVE StateOf(q)' = StateOf(q)
  BY <1>1 DEF StateOf
<1>3. [q \in Providers |-> StateOf(q)]' = [q \in Providers |-> StateOf(q)]
  BY <1>2
<1>4. QED
  BY <1>1, <1>3 DEF Life!vars

\* register_() of a provider returning, in registerAll or loadDeferredFor.
LEMMA LifeRegister ==
    ASSUME IInv, NEW p \in Providers, p \in byName,
           isRegistered' = isRegistered \union {p},
           p \in Deferred \/ ~registered \/ p \in isRegistered,
           UNCHANGED <<byName, isBooted, registered, booted>>
    PROVE  Life!Register(p) \/ UNCHANGED Life!vars
<1>1. CASE p \in isRegistered
  BY <1>1, LifeStutter DEF flags, phases
<1>2. CASE p \notin isRegistered
  <2>1. p \notin isBooted
    BY <1>2 DEF IInv
  <2>2. StateOf(p) = "added" /\ StateOf(p)' = "registered"
    BY <1>2, <2>1 DEF StateOf
  <2>3. ASSUME NEW q \in Providers \ {p} PROVE StateOf(q)' = StateOf(q)
    BY DEF StateOf
  <2>4. Life!Advance(p, "added", "registered")
    BY <2>2, <2>3, OneAdvances DEF phases
  <2>5. p \in Deferred \/ (~registered /\ ~booted)
    BY <1>2 DEF IInv, BootedMeansBooted
  <2>6. QED
    BY <2>4, <2>5 DEF Life!Register
<1>3. QED
  BY <1>1, <1>2

\* boot() of a provider returning, in bootAll or loadDeferredFor.
LEMMA LifeBoot ==
    ASSUME IInv, NEW p \in Providers, p \in isRegistered,
           isBooted' = isBooted \union {p},
           p \in Deferred \/ registered,
           p \notin Deferred => Deps[p] \cap isRegistered \cap Eager \subseteq isBooted,
           UNCHANGED <<byName, isRegistered, registered, booted>>
    PROVE  Life!Boot(p) \/ UNCHANGED Life!vars
<1>1. CASE p \in isBooted
  BY <1>1, LifeStutter DEF flags, phases
<1>2. CASE p \notin isBooted
  <2>1. StateOf(p) = "registered" /\ StateOf(p)' = "booted"
    BY <1>2 DEF StateOf
  <2>2. ASSUME NEW q \in Providers \ {p} PROVE StateOf(q)' = StateOf(q)
    BY DEF StateOf
  <2>3. Life!Advance(p, "registered", "booted")
    BY <2>1, <2>2, OneAdvances DEF phases
  <2>4. p \in Deferred \/ (registered /\ ~booted)
    BY <1>2 DEF IInv, BootedMeansBooted, Eager
  <2>5. ASSUME p \notin Deferred, NEW d \in Deps[p] \ Deferred
        PROVE  [q \in Providers |-> StateOf(q)][d] # "registered"
    <3>1. d \in Providers /\ d \in Eager
      BY <2>5, ProvidersAssumption DEF Eager
    <3>2. d \in isRegistered => d \in isBooted
      BY <2>5, <3>1
    <3>3. StateOf(d) # "registered"
      BY <3>2 DEF StateOf
    <3>4. QED
      BY <3>1, <3>3
  <2>6. QED
    BY <2>3, <2>4, <2>5 DEF Life!Boot
<1>3. QED
  BY <1>1, <1>2

LEMMA LifeAdd ==
    ASSUME IInv, NEW p \in Providers, Add(p)
    PROVE  Life!Add(p)
<1>1. /\ p \notin byName /\ byName' = byName \union {p}
      /\ UNCHANGED <<isRegistered, isBooted>> /\ UNCHANGED phases
  BY DEF Add, flags
<1>2. p \notin isRegistered /\ p \notin isBooted
  BY <1>1 DEF IInv
<1>3. StateOf(p) = "absent" /\ StateOf(p)' = "added"
  BY <1>1, <1>2 DEF StateOf
<1>4. ASSUME NEW q \in Providers \ {p} PROVE StateOf(q)' = StateOf(q)
  BY <1>1 DEF StateOf
<1>5. QED
  BY <1>1, <1>3, <1>4, OneAdvances DEF Life!Add

\* The end of a register loop; a loop that ends inside another one has set
\* registered_ before it.
LEMMA LifeFinishRegister ==
    ASSUME IInv, FinishRegister
    PROVE  Life!FinishRegister \/ UNCHANGED Life!vars
<1>1. /\ registered' = TRUE
      /\ UNCHANGED <<byName, isRegistered, isBooted, booted>>
  BY FinishRegisterFacts
<1>2. CASE registered
  <2>1. registered' = registered
    BY <1>1, <1>2 DEF IInv, TypeOK
  <2>2. QED
    BY <1>1, <2>1, LifeStutter DEF flags, phases
<1>3. CASE ~registered
  <2>1. ~booted /\ ~booted'
    BY <1>1, <1>3 DEF IInv, BootedMeansBooted
  <2>2. ASSUME NEW q \in Providers PROVE StateOf(q)' = StateOf(q)
    BY <1>1 DEF StateOf
  <2>3. [q \in Providers |-> StateOf(q)]' = [q \in Providers |-> StateOf(q)]
    BY <2>2
  <2>4. QED
    BY <1>1, <1>3, <2>1, <2>3 DEF Life!FinishRegister
<1>4. QED
  BY <1>2, <1>3

LEMMA LifeFinishBoot ==
    ASSUME IInv, FinishBoot
    PROVE  Life!FinishBoot \/ UNCHANGED Life!vars
<1>1. /\ registered /\ booted' = TRUE
      /\ isRegistered \cap Eager \subseteq isBooted
      /\ UNCHANGED <<byName, isRegistered, isBooted, registered>>
  BY FinishBootFacts
<1>2. CASE booted
  <2>1. booted' = booted
    BY <1>1, <1>2 DEF IInv, TypeOK
  <2>2. QED
    BY <1>1, <2>1, LifeStutter DEF flags, phases
<1>3. CASE ~booted
  <2>1. ASSUME NEW q \in Providers PROVE StateOf(q)' = StateOf(q)
    BY <1>1 DEF StateOf
  <2>2. [q \in Providers |-> StateOf(q)]' = [q \in Providers |-> StateOf(q)]
    BY <2>1
  <2>3. ASSUME NEW q \in Providers \ Deferred
        PROVE  [r \in Providers |-> StateOf(r)][q] # "registered"
    <3>1. q \in isRegistered => q \in isBooted
      BY <1>1 DEF Eager
    <3>2. QED
      BY <3>1 DEF StateOf
  <2>4. QED
    BY <1>1, <1>3, <2>2, <2>3 DEF Life!FinishBoot
<1>4. QED
  BY <1>2, <1>3

LEMMA LifeInit == Init => Life!Init
<1> SUFFICES ASSUME Init PROVE Life!Init
  OBVIOUS
<1>1. ASSUME NEW p \in Providers PROVE StateOf(p) = "absent"
  BY DEF Init, StateOf
<1>2. QED
  BY <1>1 DEF Life!Init, Init

LEMMA LifeStep == IInv /\ [Next]_vars => [Life!Next]_Life!vars
<1> SUFFICES ASSUME IInv, [Next]_vars PROVE [Life!Next]_Life!vars
  OBVIOUS
<1>1. ASSUME NEW p \in Providers, Add(p) PROVE Life!Next
  BY <1>1, LifeAdd DEF Life!Next
<1>2. CASE RegisterReturns
  <2>1. /\ Current \in byName /\ isRegistered' = isRegistered \union {Current}
        /\ registered => isRegistered' = isRegistered
        /\ UNCHANGED <<byName, isBooted, registered, booted>>
    BY <1>2, RegisterReturnsFacts
  <2>2. PICK p \in Providers : p = Current
    BY <2>1 DEF IInv, TypeOK
  <2>3. ~registered \/ p \in isRegistered
    BY <2>1, <2>2
  <2>4. Life!Register(p) \/ UNCHANGED Life!vars
    BY <2>1, <2>2, <2>3, LifeRegister
  <2>5. QED
    BY <2>4 DEF Life!Next
<1>3. CASE LoadRegisterReturns
  <2>1. /\ stack # << >> /\ Top.op = "load"
        /\ isRegistered' = isRegistered \union {Current}
        /\ UNCHANGED <<byName, isBooted, registered, booted>>
    BY <1>3 DEF LoadRegisterReturns, InCallback, phases
  <2>2. PICK p \in Providers : p = Current /\ p \in byName \cap Deferred
    BY <2>1, LoadingFacts
  <2>3. Life!Register(p) \/ UNCHANGED Life!vars
    BY <2>1, <2>2, LifeRegister
  <2>4. QED
    BY <2>3 DEF Life!Next
<1>4. CASE BootReturns
  <2>1. /\ stack # << >> /\ BootingOK(Top) /\ Top.todo # << >>
        /\ Current \in isRegistered /\ registered
        /\ isBooted' = isBooted \union {Current}
        /\ UNCHANGED <<byName, isRegistered, registered, booted>>
    BY <1>4, BootReturnsFacts
  <2>2. PICK p \in Providers : p = Current
    BY <2>1 DEF IInv, TypeOK
  <2>3. Deps[p] \cap isRegistered \cap Eager \subseteq isBooted
    BY <2>1, <2>2, TopFacts, BootingHeadIsReady DEF Current
  <2>4. Life!Boot(p) \/ UNCHANGED Life!vars
    BY <2>1, <2>2, <2>3, LifeBoot
  <2>5. QED
    BY <2>4 DEF Life!Next
<1>5. CASE LoadBootReturns
  <2>1. /\ stack # << >> /\ Top.op = "load" /\ Top.phase = "boot"
        /\ isBooted' = isBooted \union {Current}
        /\ UNCHANGED <<byName, isRegistered, registered, booted>>
    BY <1>5 DEF LoadBootReturns, InCallback, phases
  <2>2. PICK p \in Providers : /\ p = Current /\ p \in byName \cap Deferred
                               /\ p \in isRegistered
    BY <2>1, LoadingFacts
  <2>3. Life!Boot(p) \/ UNCHANGED Life!vars
    BY <2>1, <2>2, LifeBoot
  <2>4. QED
    BY <2>3 DEF Life!Next
<1>6. CASE FinishRegister
  BY <1>6, LifeFinishRegister DEF Life!Next
<1>7. CASE FinishBoot
  BY <1>7, LifeFinishBoot DEF Life!Next
<1>8. CASE UNCHANGED <<byName, flags, phases>>
  BY <1>8, LifeStutter
<1>9. \/ \E p \in Providers : Add(p)
      \/ RegisterReturns \/ LoadRegisterReturns \/ BootReturns \/ LoadBootReturns
      \/ FinishRegister \/ FinishBoot
      \/ UNCHANGED <<byName, flags, phases>>
  BY DEF Next, vars, flags, phases, AddDuplicate, LoadDeferredFor, LoadAtOnce,
         RegisterAll, RegisterAllAtOnce, BootAll, BootAllAtOnce, Bootstrap,
         BootstrapAtOnce, SkipRegister, CallRegister, SkipBoot, CallBoot,
         CallbackThrows
<1>10. QED
  BY <1>1, <1>2, <1>3, <1>4, <1>5, <1>6, <1>7, <1>8, <1>9

\* Whatever the callbacks call, add or throw, every provider goes through its
\* life cycle in order, eager providers are registered before registered_ is
\* set and booted after it and after their dependencies.
THEOREM LifecycleImplemented == Spec => ImplementsLifecycle
<1>1. QED
  BY LifeInit, LifeStep, Invariant, PTL DEF Spec, ImplementsLifecycle, Life!Spec

================================================================================
