------------------------- MODULE ServiceRegistryProofs -------------------------
(***************************************************************************)
(* Proofs about ServiceRegistry, for any threads, aliases, groups and      *)
(* bounds.                                                                 *)
(***************************************************************************)
EXTENDS ServiceRegistry, TLAPS

USE DEF GiveNothing

LEMMA InitInv == Init => IInv
BY RegistryAssumption DEF Init, IInv, TypeOK, CallsAreAlone, IdsAreDistinct,
   GivenIsCached, OneInstancePerSingleton, Idle

\* With mutex_ free there is no call in progress.
LEMMA NoCallWhenFree ==
    ASSUME IInv, holder = None
    PROVE  \A t \in Threads : calls[t] = Idle
BY RegistryAssumption DEF IInv, CallsAreAlone

\* A registration gets a number no entry and nothing given has.
LEMMA RegisterKeeps ==
    ASSUME IInv, NEW a \in Aliases, NEW isSingleton \in BOOLEAN,
           NEW enabled \in BOOLEAN, NEW groups \in SUBSET Groups,
           NEW instance \in 0..MaxInstances,
           instances' \in 0..MaxInstances,
           RegisterEntry(a, isSingleton, enabled, groups, instance)
    PROVE  IInv'
<1> USE RegistryAssumption
<1> DEFINE new == [id |-> registrations + 1, isSingleton |-> isSingleton,
                   enabled |-> enabled, groups |-> groups, instance |-> instance]
<1>1. /\ TypeOK
      /\ IdsAreDistinct
      /\ GivenIsCached
      /\ OneInstancePerSingleton
  BY DEF IInv
<1>2. /\ registrations \in Nat
      /\ registrations' = registrations + 1
      /\ registrations' \in 1..MaxRegistrations
      /\ UNCHANGED <<calls, given, holder>>
      /\ gave' = None
  BY <1>1 DEF TypeOK, RegisterEntry
<1>3. new \in Entry /\ new.id = registrations + 1
  BY <1>2 DEF Entry
<1>4. \/ entries' = [entries EXCEPT ![a] = new]
      \/ entries' = entries
  BY DEF RegisterEntry
<1> HIDE DEF new
<1>5. entries \in [Aliases -> Entry \cup {None}]
  BY <1>1 DEF TypeOK
<1>6. entries' \in [Aliases -> Entry \cup {None}]
  BY <1>3, <1>4, <1>5
<1>7. \A b \in Aliases :
         \/ entries'[b] = entries[b]
         \/ b = a /\ entries'[b] = new
  BY <1>4, <1>5
<1>8. TypeOK'
  BY <1>1, <1>2, <1>6 DEF TypeOK
<1>9. CallsAreAlone'
  BY <1>2, NoCallWhenFree DEF CallsAreAlone, RegisterEntry
<1>10. \A b \in Aliases : entries[b] # None => entries[b].id \in Nat
  BY <1>5 DEF Entry
<1>11. IdsAreDistinct'
  BY <1>1, <1>2, <1>3, <1>7, <1>10 DEF IdsAreDistinct
<1>12. \A g \in given : g.id \in Nat
  BY <1>1 DEF TypeOK, Given
<1>13. GivenIsCached'
  BY <1>1, <1>2, <1>3, <1>7, <1>12 DEF GivenIsCached
<1>14. OneInstancePerSingleton'
  BY <1>1, <1>2 DEF OneInstancePerSingleton
<1> QED
  BY <1>8, <1>9, <1>11, <1>13, <1>14 DEF IInv

LEMMA SetEnabledKeeps ==
    ASSUME IInv, NEW a \in Aliases, NEW enabled \in BOOLEAN, SetEnabled(a, enabled)
    PROVE  IInv'
<1>1. /\ TypeOK
      /\ IdsAreDistinct
      /\ GivenIsCached
      /\ OneInstancePerSingleton
  BY DEF IInv
<1>2. entries \in [Aliases -> Entry \cup {None}] /\ entries[a] \in Entry
  BY <1>1 DEF TypeOK, SetEnabled
<1>3. PICK new \in Entry :
         /\ entries' = [entries EXCEPT ![a] = new]
         /\ new.id = entries[a].id
         /\ new.isSingleton = entries[a].isSingleton
         /\ new.instance = entries[a].instance
  <2> DEFINE new == [entries[a] EXCEPT !.enabled = enabled]
  <2>1. new \in Entry
    BY <1>2 DEF Entry
  <2>2. /\ new.id = entries[a].id
        /\ new.isSingleton = entries[a].isSingleton
        /\ new.instance = entries[a].instance
    BY <1>2 DEF Entry
  <2> QED
    BY <2>1, <2>2 DEF SetEnabled
<1>4. entries' \in [Aliases -> Entry \cup {None}]
  BY <1>2, <1>3
<1>5. \A b \in Aliases : entries'[b] = IF b = a THEN new ELSE entries[b]
  BY <1>2, <1>3
<1>6. /\ entries[a] # None /\ gave' = None
      /\ gave' = None /\ UNCHANGED <<holder, calls, registrations, instances, given>>
  BY DEF SetEnabled
<1>7. TypeOK'
  BY <1>1, <1>4, <1>6 DEF TypeOK
<1>8. CallsAreAlone'
  BY <1>6, NoCallWhenFree DEF CallsAreAlone, SetEnabled, Idle
<1>9. IdsAreDistinct'
  BY <1>1, <1>3, <1>5, <1>6 DEF IdsAreDistinct
<1>10. GivenIsCached'
  BY <1>1, <1>3, <1>5, <1>6 DEF GivenIsCached
<1>11. OneInstancePerSingleton'
  BY <1>1, <1>6 DEF OneInstancePerSingleton
<1> QED
  BY <1>7, <1>8, <1>9, <1>10, <1>11 DEF IInv

LEMMA ClearKeeps == IInv /\ Clear => IInv'
<1> SUFFICES ASSUME IInv, Clear PROVE IInv'
  OBVIOUS
<1>1. TypeOK /\ GivenIsCached /\ OneInstancePerSingleton
  BY DEF IInv
<1>2. /\ \A a \in Aliases : entries'[a] = None
      /\ entries' \in [Aliases -> Entry \cup {None}]
      /\ gave' = None /\ UNCHANGED <<holder, calls, registrations, instances, given>>
  BY DEF Clear
<1>3. TypeOK'
  BY <1>1, <1>2 DEF TypeOK
<1>4. CallsAreAlone'
  BY <1>2, NoCallWhenFree DEF CallsAreAlone, Clear, Idle
<1>5. IdsAreDistinct'
  BY <1>2 DEF IdsAreDistinct
<1>6. GivenIsCached'
  BY <1>1, <1>2 DEF GivenIsCached
<1>7. OneInstancePerSingleton'
  BY <1>1, <1>2 DEF OneInstancePerSingleton
<1> QED
  BY <1>3, <1>4, <1>5, <1>6, <1>7 DEF IInv

-------------------------------------------------------------------------------

LEMMA BeginKeeps ==
    ASSUME IInv, NEW t \in Threads, NEW todo \in SUBSET Aliases, todo # {},
           \A a \in todo : Available(a), Begin(t, todo)
    PROVE  IInv'
<1> USE RegistryAssumption
<1>1. TypeOK /\ IdsAreDistinct /\ GivenIsCached /\ OneInstancePerSingleton
  BY DEF IInv
<1>2. /\ holder' = t
      /\ calls[t] = Idle
      /\ calls' = [calls EXCEPT ![t].todo = todo]
      /\ gave' = None /\ UNCHANGED <<entries, registrations, instances, given>>
  BY DEF Begin
<1>3. calls \in [Threads -> [todo : SUBSET Aliases, building : Aliases \cup {None}]]
  BY <1>1 DEF TypeOK
<1>4. /\ calls' \in [Threads -> [todo : SUBSET Aliases, building : Aliases \cup {None}]]
      /\ \A u \in Threads : u # t => calls'[u] = calls[u]
      /\ calls'[t].todo = todo
      /\ calls'[t].building = None
  BY <1>2, <1>3 DEF Idle
<1>5. TypeOK'
  BY <1>1, <1>2, <1>4 DEF TypeOK
<1>6. \A u \in Threads : calls[u] = Idle
  BY NoCallWhenFree DEF Begin
<1>7. CallsAreAlone'
  BY <1>2, <1>4, <1>6 DEF CallsAreAlone, Available
<1>8. IdsAreDistinct' /\ GivenIsCached' /\ OneInstancePerSingleton'
  BY <1>1, <1>2 DEF IdsAreDistinct, GivenIsCached, OneInstancePerSingleton
<1> QED
  BY <1>5, <1>7, <1>8 DEF IInv

\* The calls after a step that ends the work of t on a, or its whole call.
LEMMA CallOfOneThread ==
    ASSUME IInv, NEW t \in Threads, calls[t] # Idle
    PROVE  /\ holder = t
           /\ \A u \in Threads : u # t => calls[u] = Idle
           /\ \A a \in calls[t].todo : Available(a)
           /\ calls[t].building # None =>
                 calls[t].building \in calls[t].todo /\ ~Cached(calls[t].building)
           /\ calls \in [Threads -> [todo : SUBSET Aliases, building : Aliases \cup {None}]]
BY DEF IInv, CallsAreAlone, TypeOK

LEMMA LeaveKeeps ==
    ASSUME IInv, NEW t \in Threads, NEW a \in calls[t].todo, a \in Aliases,
           Leave(t, a),
           \A b \in Aliases \ {a} : entries'[b] = entries[b]
    PROVE  /\ calls' \in [Threads -> [todo : SUBSET Aliases, building : Aliases \cup {None}]]
           /\ holder' \in Threads \cup {None}
           /\ CallsAreAlone'
<1> USE RegistryAssumption
<1>1. calls[t] # Idle
  BY DEF Idle
<1>2. /\ \A u \in Threads : u # t => calls[u] = Idle
      /\ \A b \in calls[t].todo : Available(b)
      /\ calls \in [Threads -> [todo : SUBSET Aliases, building : Aliases \cup {None}]]
  BY <1>1, CallOfOneThread
<1> DEFINE rest == [todo |-> calls[t].todo \ {a}, building |-> None]
<1>3. rest \in [todo : SUBSET Aliases, building : Aliases \cup {None}]
  BY <1>2
<1>4. calls' = [calls EXCEPT ![t] = rest]
  BY DEF Leave
<1>5. /\ rest.todo = calls[t].todo \ {a}
      /\ rest.building = None
      /\ calls[t].todo = {a} <=> rest = Idle
  BY DEF Idle
<1> HIDE DEF rest
<1>6. calls'[t] = rest /\ \A u \in Threads : u # t => calls'[u] = calls[u]
  BY <1>2, <1>4
<1>7. calls' \in [Threads -> [todo : SUBSET Aliases, building : Aliases \cup {None}]]
  BY <1>2, <1>3, <1>4
<1>8. holder' = IF rest = Idle THEN None ELSE t
  BY <1>5 DEF Leave
<1>9. \A b \in rest.todo : b \in Aliases \ {a} /\ entries'[b] = entries[b] /\ Available(b)
  BY <1>2, <1>3, <1>5
<1>10. rest # Idle => rest.todo # {}
  BY <1>3, <1>5 DEF Idle
<1>11. ASSUME NEW u \in Threads, calls'[u] # Idle
       PROVE  /\ holder' = u
              /\ calls'[u].todo # {}
              /\ \A b \in calls'[u].todo : Available(b)'
              /\ calls'[u].building = None
  <2>1. u = t /\ rest # Idle
    BY <1>2, <1>6, <1>11
  <2> QED
    BY <1>5, <1>6, <1>8, <1>9, <1>10, <2>1 DEF Available
<1> QED
  BY <1>7, <1>8, <1>11 DEF CallsAreAlone, Idle

\* What a step that hands out instance i of the entry of a must establish.
LEMMA GiveKeeps ==
    ASSUME IInv, NEW a \in Aliases, entries[a] # None,
           NEW i \in 1..MaxInstances,
           Give(a, i), UNCHANGED registrations,
           entries[a].isSingleton => entries[a].instance \in {0, i},
           \A b \in Aliases \ {a} : entries'[b] = entries[b],
           entries'[a].id = entries[a].id,
           entries'[a].isSingleton = entries[a].isSingleton,
           entries[a].isSingleton => entries'[a].instance = i
    PROVE  /\ GivenIsCached'
           /\ OneInstancePerSingleton'
           /\ given' \subseteq Given /\ gave' \in Given
<1>1. TypeOK /\ IdsAreDistinct /\ GivenIsCached /\ OneInstancePerSingleton
  BY DEF IInv
<1> DEFINE new == [id |-> entries[a].id, isSingleton |-> entries[a].isSingleton,
                   instance |-> i]
<1>2. gave' = new /\ given' = given \cup {new}
  BY DEF Give
<1>3. /\ new.id = entries[a].id
      /\ new.isSingleton = entries[a].isSingleton
      /\ new.instance = i
  OBVIOUS
<1>4. entries[a] \in Entry
  BY <1>1 DEF TypeOK
<1>5. new \in Given
  BY <1>4 DEF Entry, Given
<1> HIDE DEF new
<1>6. \A g \in given : g \in Given
  BY <1>1 DEF TypeOK
<1>7. \A g \in given : g.id = new.id =>
         /\ g.isSingleton = new.isSingleton
         /\ g.isSingleton => g.instance = i
  <2> SUFFICES ASSUME NEW g \in given, g.id = new.id
               PROVE  /\ g.isSingleton = new.isSingleton
                      /\ g.isSingleton => g.instance = i
    OBVIOUS
  <2>1. /\ entries[a].isSingleton = g.isSingleton
        /\ g.isSingleton => entries[a].instance = g.instance
    BY <1>1, <1>3 DEF GivenIsCached
  <2>2. g.instance # 0
    BY <1>6 DEF Given
  <2> QED
    BY <1>3, <2>1, <2>2
<1>8. OneInstancePerSingleton'
  <2> SUFFICES ASSUME NEW g \in given', NEW h \in given', g.id = h.id, g.isSingleton
               PROVE  g.instance = h.instance
    BY DEF OneInstancePerSingleton
  <2>1. CASE g \in given /\ h \in given
    BY <1>1, <2>1 DEF OneInstancePerSingleton
  <2>2. CASE g = new
    BY <1>2, <1>3, <1>7, <2>2
  <2>3. CASE h = new
    BY <1>2, <1>3, <1>7, <2>3
  <2> QED
    BY <1>2, <2>1, <2>2, <2>3
<1>9. GivenIsCached'
  <2>1. new.id <= registrations
    BY <1>1, <1>3 DEF IdsAreDistinct
  <2>2. \A b \in Aliases \ {a} : entries[b] # None => entries[b].id # new.id
    BY <1>1, <1>3 DEF IdsAreDistinct
  <2>3. ASSUME NEW g \in given'
        PROVE  /\ g.id <= registrations
               /\ \A b \in Aliases :
                     entries'[b] # None /\ entries'[b].id = g.id =>
                         /\ entries'[b].isSingleton = g.isSingleton
                         /\ g.isSingleton => entries'[b].instance = g.instance
    <3>1. CASE g = new
      BY <1>3, <2>1, <2>2, <3>1
    <3>2. CASE g \in given
      <4>1. g.id <= registrations
        BY <1>1, <3>2 DEF GivenIsCached
      <4>2. ASSUME NEW b \in Aliases, entries'[b] # None, entries'[b].id = g.id
            PROVE  /\ entries'[b].isSingleton = g.isSingleton
                   /\ g.isSingleton => entries'[b].instance = g.instance
        <5>1. CASE b = a
          BY <1>3, <1>7, <3>2, <4>2, <5>1
        <5>2. CASE b # a
          BY <1>1, <3>2, <4>2, <5>2 DEF GivenIsCached
        <5> QED
          BY <5>1, <5>2
      <4> QED
        BY <4>1, <4>2
    <3> QED
      BY <1>2, <3>1, <3>2
  <2> QED
    BY <2>3 DEF GivenIsCached
<1> QED
  BY <1>2, <1>5, <1>6, <1>8, <1>9

\* Nothing but the calls and the lock changes, and perhaps what is cached.
LEMMA IdsKept ==
    ASSUME IdsAreDistinct, UNCHANGED registrations, NEW a \in Aliases,
           entries[a] # None, entries'[a].id = entries[a].id,
           \A b \in Aliases \ {a} : entries'[b] = entries[b]
    PROVE  IdsAreDistinct'
BY DEF IdsAreDistinct

LEMMA ReturnCachedKeeps ==
    ASSUME IInv, NEW t \in Threads, NEW a \in Aliases, ReturnCached(t, a)
    PROVE  IInv'
<1>1. /\ TypeOK /\ IdsAreDistinct
      /\ a \in calls[t].todo
      /\ Cached(a)
      /\ Give(a, entries[a].instance)
      /\ Leave(t, a)
      /\ UNCHANGED <<entries, registrations, instances>>
  BY DEF IInv, ReturnCached
<1>2. calls[t] # Idle
  BY <1>1 DEF Idle
<1>3. entries[a] # None
  BY <1>1, <1>2, CallOfOneThread DEF Available
<1>4. entries[a].instance \in 1..MaxInstances
  <2>1. entries[a] \in Entry
    BY <1>1, <1>3 DEF TypeOK
  <2> QED
    BY <1>1, <2>1, RegistryAssumption DEF Entry, Cached
<1>5. /\ GivenIsCached'
      /\ OneInstancePerSingleton'
      /\ given' \subseteq Given /\ gave' \in Given \cup {None}
  BY <1>1, <1>3, <1>4, GiveKeeps
<1>6. /\ calls' \in [Threads -> [todo : SUBSET Aliases, building : Aliases \cup {None}]]
      /\ holder' \in Threads \cup {None}
      /\ CallsAreAlone'
  BY <1>1, LeaveKeeps
<1>7. IdsAreDistinct'
  BY <1>1 DEF IdsAreDistinct
<1>8. TypeOK'
  BY <1>1, <1>5, <1>6 DEF TypeOK
<1> QED
  BY <1>5, <1>6, <1>7, <1>8 DEF IInv

LEMMA CallFactoryKeeps ==
    ASSUME IInv, NEW t \in Threads, NEW a \in Aliases, CallFactory(t, a)
    PROVE  IInv'
<1>1. TypeOK /\ IdsAreDistinct /\ GivenIsCached /\ OneInstancePerSingleton
  BY DEF IInv
<1>2. /\ a \in calls[t].todo
      /\ ~Cached(a)
      /\ calls' = [calls EXCEPT ![t].building = a]
      /\ gave' = None /\ UNCHANGED <<entries, holder, registrations, instances, given>>
  BY DEF CallFactory
<1>3. calls[t] # Idle
  BY <1>2 DEF Idle
<1>4. /\ holder = t
      /\ \A u \in Threads : u # t => calls[u] = Idle
      /\ \A b \in calls[t].todo : Available(b)
      /\ calls \in [Threads -> [todo : SUBSET Aliases, building : Aliases \cup {None}]]
  BY <1>3, CallOfOneThread
<1>5. /\ calls' \in [Threads -> [todo : SUBSET Aliases, building : Aliases \cup {None}]]
      /\ \A u \in Threads : u # t => calls'[u] = calls[u]
      /\ calls'[t].todo = calls[t].todo
      /\ calls'[t].building = a
  BY <1>2, <1>4
<1>6. TypeOK'
  BY <1>1, <1>2, <1>5 DEF TypeOK
<1>7. \A b \in calls[t].todo : entries'[b] # None /\ entries'[b].enabled
  BY <1>2, <1>4 DEF Available
<1>8. ~(entries'[a].isSingleton /\ entries'[a].instance # 0)
  BY <1>2 DEF Cached
<1>10. ASSUME NEW u \in Threads, calls'[u] # Idle
       PROVE  /\ holder' = u
              /\ calls'[u].todo # {}
              /\ \A b \in calls'[u].todo : entries'[b] # None /\ entries'[b].enabled
              /\ calls'[u].building \in calls'[u].todo
              /\ ~(/\ entries'[calls'[u].building].isSingleton
                   /\ entries'[calls'[u].building].instance # 0)
  <2>1. u = t
    BY <1>4, <1>5, <1>10
  <2> QED
    BY <1>2, <1>4, <1>5, <1>7, <1>8, <2>1
<1>11. CallsAreAlone'
  BY <1>10 DEF CallsAreAlone, Idle, Available, Cached
<1>9. IdsAreDistinct' /\ GivenIsCached' /\ OneInstancePerSingleton'
  BY <1>1, <1>2 DEF IdsAreDistinct, GivenIsCached, OneInstancePerSingleton
<1> QED
  BY <1>6, <1>9, <1>11 DEF IInv

LEMMA FactoryReturnsKeeps ==
    ASSUME IInv, NEW t \in Threads, NEW a \in Aliases, FactoryReturns(t, a)
    PROVE  IInv'
<1> USE RegistryAssumption
<1>1. TypeOK /\ IdsAreDistinct /\ GivenIsCached /\ OneInstancePerSingleton
  BY DEF IInv
<1>2. calls[t].building = a /\ Leave(t, a) /\ UNCHANGED registrations
  BY DEF FactoryReturns
<1>3. PICK i \in 0..MaxInstances :
         /\ i <= instances + 1
         /\ instances' = IF i > instances THEN i ELSE instances
         /\ entries' = IF entries[a].isSingleton
                       THEN [entries EXCEPT ![a].instance = i]
                       ELSE entries
         /\ IF i = 0 THEN GiveNothing ELSE Give(a, i)
  BY DEF FactoryReturns
<1>4. calls[t] # Idle /\ a # None
  BY <1>2 DEF Idle
<1>5. /\ a \in calls[t].todo
      /\ ~Cached(a)
      /\ entries[a] # None
  BY <1>2, <1>4, CallOfOneThread DEF Available
<1>6. entries \in [Aliases -> Entry \cup {None}] /\ entries[a] \in Entry
  BY <1>1, <1>5 DEF TypeOK
<1>7. PICK new \in Entry :
         /\ entries' = [entries EXCEPT ![a] = new]
         /\ new.id = entries[a].id
         /\ new.isSingleton = entries[a].isSingleton
         /\ new.isSingleton => new.instance = i
  <2>1. CASE entries[a].isSingleton
    <3> DEFINE new == [entries[a] EXCEPT !.instance = i]
    <3>1. new \in Entry
      BY <1>6 DEF Entry
    <3>2. /\ new.id = entries[a].id
          /\ new.isSingleton = entries[a].isSingleton
          /\ new.instance = i
      BY <1>6 DEF Entry
    <3> QED
      BY <1>3, <2>1, <3>1, <3>2
  <2>2. CASE ~entries[a].isSingleton
    <3>1. entries' = [entries EXCEPT ![a] = entries[a]]
      BY <1>3, <1>6, <2>2
    <3> QED
      BY <1>6, <2>2, <3>1
  <2> QED
    BY <2>1, <2>2
<1>8. /\ entries' \in [Aliases -> Entry \cup {None}]
      /\ entries'[a] = new
      /\ \A b \in Aliases \ {a} : entries'[b] = entries[b]
  BY <1>6, <1>7
<1>9. entries[a].isSingleton => entries[a].instance = 0
  BY <1>5 DEF Cached
<1>10. instances' \in 0..MaxInstances
  BY <1>1, <1>3 DEF TypeOK
<1>11. IdsAreDistinct'
  BY <1>1, <1>2, <1>5, <1>7, <1>8, IdsKept
<1>12. /\ calls' \in [Threads -> [todo : SUBSET Aliases, building : Aliases \cup {None}]]
       /\ holder' \in Threads \cup {None}
       /\ CallsAreAlone'
  BY <1>2, <1>5, <1>8, LeaveKeeps
<1>13. /\ GivenIsCached'
       /\ OneInstancePerSingleton'
       /\ given' \subseteq Given /\ gave' \in Given \cup {None}
  <2>1. CASE i # 0
    <3>1. i \in 1..MaxInstances /\ Give(a, i)
      BY <1>3, <2>1
    <3> QED
      BY <1>2, <1>5, <1>7, <1>8, <1>9, <3>1, GiveKeeps
  <2>2. CASE i = 0
    <3>1. given' = given
      BY <1>3, <2>2
    <3>2. OneInstancePerSingleton'
      BY <1>1, <3>1 DEF OneInstancePerSingleton
    <3>3. given' \subseteq Given /\ gave' = None
      BY <1>1, <1>3, <2>2 DEF TypeOK
    <3>4. \A g \in given : g.id = entries[a].id =>
             g.isSingleton = new.isSingleton /\ ~g.isSingleton
      <4> SUFFICES ASSUME NEW g \in given, g.id = entries[a].id
                   PROVE  g.isSingleton = new.isSingleton /\ ~g.isSingleton
        OBVIOUS
      <4>1. /\ entries[a].isSingleton = g.isSingleton
            /\ g.isSingleton => entries[a].instance = g.instance
        BY <1>1, <1>5 DEF GivenIsCached
      <4>2. g.instance # 0
        BY <1>1 DEF TypeOK, Given
      <4>3. g.isSingleton \in BOOLEAN
        BY <1>1 DEF TypeOK, Given
      <4> QED
        BY <1>7, <1>9, <4>1, <4>2, <4>3
    <3>5. GivenIsCached'
      BY <1>1, <1>2, <1>7, <1>8, <3>1, <3>4 DEF GivenIsCached
    <3> QED
      BY <3>2, <3>3, <3>5
  <2> QED
    BY <2>1, <2>2
<1>14. TypeOK'
  BY <1>1, <1>2, <1>8, <1>10, <1>12, <1>13 DEF TypeOK
<1> QED
  BY <1>11, <1>12, <1>13, <1>14 DEF IInv

LEMMA FactoryThrowsKeeps ==
    ASSUME IInv, NEW t \in Threads, NEW a \in Aliases, FactoryThrows(t, a)
    PROVE  IInv'
<1> USE RegistryAssumption
<1>1. TypeOK /\ IdsAreDistinct /\ GivenIsCached /\ OneInstancePerSingleton
  BY DEF IInv
<1>2. /\ calls[t].building = a
      /\ calls' = [calls EXCEPT ![t] = Idle]
      /\ holder' = None
      /\ gave' = None /\ UNCHANGED <<entries, registrations, instances, given>>
  BY DEF FactoryThrows
<1>3. calls[t] # Idle
  BY <1>2 DEF Idle
<1>4. \A u \in Threads : calls'[u] = Idle
  BY <1>2, <1>3, CallOfOneThread
<1>5. calls' \in [Threads -> [todo : SUBSET Aliases, building : Aliases \cup {None}]]
  BY <1>1, <1>2 DEF TypeOK, Idle
<1>6. TypeOK'
  BY <1>1, <1>2, <1>5 DEF TypeOK
<1>7. CallsAreAlone'
  BY <1>4 DEF CallsAreAlone, Idle
<1>8. IdsAreDistinct' /\ GivenIsCached' /\ OneInstancePerSingleton'
  BY <1>1, <1>2 DEF IdsAreDistinct, GivenIsCached, OneInstancePerSingleton
<1> QED
  BY <1>6, <1>7, <1>8 DEF IInv

-------------------------------------------------------------------------------

LEMMA BindKeeps ==
    ASSUME IInv, NEW a \in Aliases, Bind(a) \/ BindInstance(a)
    PROVE  IInv'
<1> USE RegistryAssumption
<1>1. TypeOK
  BY DEF IInv
<1>2. CASE Bind(a)
  <2>1. PICK isSingleton \in BOOLEAN, enabled \in BOOLEAN, groups \in SUBSET Groups :
           RegisterEntry(a, isSingleton, enabled, groups, 0)
    BY <1>2 DEF Bind
  <2>2. 0 \in 0..MaxInstances /\ instances' \in 0..MaxInstances
    BY <1>1, <1>2 DEF Bind, TypeOK
  <2> QED
    BY <2>1, <2>2, RegisterKeeps
<1>3. CASE BindInstance(a)
  <2>1. PICK enabled \in BOOLEAN, groups \in SUBSET Groups :
           RegisterEntry(a, TRUE, enabled, groups, instances + 1)
    BY <1>3 DEF BindInstance
  <2>2. instances + 1 \in 0..MaxInstances /\ instances' \in 0..MaxInstances
    BY <1>1, <1>3 DEF BindInstance, TypeOK
  <2> QED
    BY <2>1, <2>2, RegisterKeeps
<1> QED
  BY <1>2, <1>3

LEMMA ResolveKeeps ==
    ASSUME IInv, NEW t \in Threads,
           \/ \E a \in Aliases : Resolve(t, a)
           \/ \E g \in Groups : ResolveGroup(t, g)
    PROVE  IInv'
<1>1. ASSUME NEW a \in Aliases, Resolve(t, a) PROVE IInv'
  <2>1. {a} \in SUBSET Aliases /\ {a} # {} /\ Begin(t, {a})
        /\ \A b \in {a} : Available(b)
    BY <1>1 DEF Resolve
  <2> QED
    BY <2>1, BeginKeeps
<1>2. ASSUME NEW g \in Groups, ResolveGroup(t, g) PROVE IInv'
  <2>1. Matching(g) \in SUBSET Aliases /\ Matching(g) # {} /\ Begin(t, Matching(g))
        /\ \A b \in Matching(g) : Available(b)
    BY <1>2 DEF ResolveGroup, Matching
  <2> QED
    BY <2>1, BeginKeeps
<1> QED
  BY <1>1, <1>2

\* A step that changes nothing but what the last step has given.
LEMMA StutterKeeps ==
    ASSUME IInv, gave' \in {gave, None},
           UNCHANGED <<entries, holder, calls, registrations, instances, given>>
    PROVE  IInv'
BY DEF IInv, TypeOK, CallsAreAlone, IdsAreDistinct, GivenIsCached,
   OneInstancePerSingleton, Available, Cached, Idle

LEMMA NextKeeps == IInv /\ [Next]_vars => IInv'
<1> SUFFICES ASSUME IInv, [Next]_vars PROVE IInv'
  OBVIOUS
<1>1. CASE Clear
  BY <1>1, ClearKeeps
<1>2. CASE \E a \in Aliases : Bind(a) \/ BindInstance(a)
  BY <1>2, BindKeeps
<1>3. CASE \E a \in Aliases, enabled \in BOOLEAN : SetEnabled(a, enabled)
  BY <1>3, SetEnabledKeeps
<1>4. CASE (\E a \in Aliases : ResolveRefused(a)) \/ UNCHANGED vars
  BY <1>4, StutterKeeps DEF ResolveRefused, vars
<1>5. CASE \E t \in Threads :
              \/ \E a \in Aliases : Resolve(t, a)
              \/ \E g \in Groups : ResolveGroup(t, g)
  BY <1>5, ResolveKeeps
<1>6. CASE \E t \in Threads, a \in Aliases : ReturnCached(t, a)
  BY <1>6, ReturnCachedKeeps
<1>7. CASE \E t \in Threads, a \in Aliases : CallFactory(t, a)
  BY <1>7, CallFactoryKeeps
<1>8. CASE \E t \in Threads, a \in Aliases : FactoryReturns(t, a)
  BY <1>8, FactoryReturnsKeeps
<1>9. CASE \E t \in Threads, a \in Aliases : FactoryThrows(t, a)
  BY <1>9, FactoryThrowsKeeps
<1> QED
  BY <1>1, <1>2, <1>3, <1>4, <1>5, <1>6, <1>7, <1>8, <1>9
  DEF Next, FactoryEnds

\* The inductive invariant of the registry holds for any number of threads,
\* registrations and objects.
THEOREM Invariant == Spec => []IInv
BY InitInv, NextKeeps, PTL DEF Spec

\* Everyone who resolves a singleton of ServiceRegistry gets the same object
\* from the same registration.
THEOREM SingletonIsUnique == Spec => []OneInstancePerSingleton
<1>1. IInv => OneInstancePerSingleton
  BY DEF IInv
<1> QED
  BY <1>1, Invariant, PTL

-------------------------------------------------------------------------------

\* A component of ServiceRegistry is given out only while it is registered and
\* enabled, however long its factory runs and however often it was given out before.
THEOREM DisabledIsNotGiven == Spec => OnlyEnabledGiven
<1> DEFINE Right == \E a \in Aliases : Available(a) /\ entries[a].id = gave'.id
           Step == gave' # None => Right
<1>1. IInv /\ [Next]_vars => [Step]_vars
  <2> SUFFICES ASSUME IInv, Next, gave' # None PROVE Right
    OBVIOUS
  <2>1. ASSUME NEW t \in Threads, NEW a \in calls[t].todo, a \in Aliases, NEW i, Give(a, i)
        PROVE  Right
    <3>1. calls[t] # Idle
      BY <2>1 DEF Idle
    <3>2. gave'.id = entries[a].id
      BY <2>1 DEF Give
    <3> QED
      BY <2>1, <3>1, <3>2, CallOfOneThread
  <2>2. ASSUME NEW t \in Threads, NEW a \in Aliases, ReturnCached(t, a)
        PROVE  Right
    <3>1. a \in calls[t].todo /\ Give(a, entries[a].instance)
      BY <2>2 DEF ReturnCached
    <3> QED
      BY <2>1, <3>1
  <2>3. ASSUME NEW t \in Threads, NEW a \in Aliases, FactoryReturns(t, a)
        PROVE  Right
    <3>1. \E i \in 0..MaxInstances : Give(a, i)
      BY <2>3 DEF FactoryReturns
    <3>2. calls[t].building = a /\ a # None
      BY <2>3, RegistryAssumption DEF FactoryReturns
    <3>3. calls[t] # Idle
      BY <3>2 DEF Idle
    <3>4. a \in calls[t].todo
      BY <3>2, <3>3, CallOfOneThread
    <3> QED
      BY <2>1, <3>1, <3>4
  <2> QED
    BY <2>2, <2>3
    DEF Next, Clear, Bind, BindInstance, RegisterEntry, SetEnabled, ResolveRefused,
        ResolveGroup, Resolve, Begin, CallFactory, FactoryEnds, FactoryThrows
<1> QED
  BY <1>1, Invariant, PTL DEF Spec, OnlyEnabledGiven

-------------------------------------------------------------------------------

\* How the call of t goes on: it has fewer components left, or has begun to
\* build one of them.
Shorter(t) ==
    \/ calls'[t].todo \subseteq calls[t].todo /\ calls'[t].todo # calls[t].todo
    \/ /\ calls'[t].todo = calls[t].todo
       /\ calls[t].building = None
       /\ calls'[t].building # None

\* A call that has finished with one of its components has that one less.
LEMMA LeaveShortens ==
    ASSUME IInv, NEW t \in Threads, NEW a \in calls[t].todo, Leave(t, a)
    PROVE  holder' = None \/ (holder' = t /\ Shorter(t))
<1>1. calls \in [Threads -> [todo : SUBSET Aliases, building : Aliases \cup {None}]]
  BY DEF IInv, TypeOK
<1>2. calls'[t].todo = calls[t].todo \ {a}
  BY <1>1 DEF Leave
<1>3. holder' = None \/ holder' = t
  BY DEF Leave
<1> QED
  BY <1>2, <1>3 DEF Shorter

\* While a thread holds mutex_ of ServiceRegistry.hh every step is one of its call:
\* it lets go of mutex_, by returning or by an exception, or its call gets shorter.  So
\* it can hold mutex_ only as long as its finitely many factories run.
THEOREM HolderGoesOn ==
    Spec => [][\A t \in Threads :
                  holder = t => holder' = None \/ (holder' = t /\ Shorter(t))]_vars
<1> DEFINE Step == \A t \in Threads :
                      holder = t => holder' = None \/ (holder' = t /\ Shorter(t))
<1>1. IInv /\ [Next]_vars => [Step]_vars
  <2> SUFFICES ASSUME IInv, Next, NEW t \in Threads, holder = t
               PROVE  holder' = None \/ (holder' = t /\ Shorter(t))
    OBVIOUS
  <2>1. holder # None
    BY RegistryAssumption
  <2>2. calls \in [Threads -> [todo : SUBSET Aliases, building : Aliases \cup {None}]]
    BY DEF IInv, TypeOK
  <2>3. ASSUME NEW u \in Threads, calls[u] # Idle PROVE u = t
    BY <2>3, CallOfOneThread
  <2>4. ASSUME NEW u \in Threads, NEW a \in Aliases, ReturnCached(u, a)
        PROVE  holder' = None \/ (holder' = t /\ Shorter(t))
    <3>1. a \in calls[u].todo /\ Leave(u, a)
      BY <2>4 DEF ReturnCached
    <3>2. u = t
      BY <2>3, <3>1 DEF Idle
    <3> QED
      BY <3>1, <3>2, LeaveShortens
  <2>5. ASSUME NEW u \in Threads, NEW a \in Aliases, CallFactory(u, a)
        PROVE  holder' = None \/ (holder' = t /\ Shorter(t))
    <3>1. /\ a \in calls[u].todo /\ calls[u].building = None
          /\ calls' = [calls EXCEPT ![u].building = a] /\ holder' = holder
      BY <2>5 DEF CallFactory
    <3>2. u = t
      BY <2>3, <3>1 DEF Idle
    <3>3. calls'[t].todo = calls[t].todo /\ calls'[t].building = a
      BY <2>2, <3>1, <3>2
    <3> QED
      BY <3>1, <3>2, <3>3, RegistryAssumption DEF Shorter
  <2>6. ASSUME NEW u \in Threads, NEW a \in Aliases, FactoryReturns(u, a)
        PROVE  holder' = None \/ (holder' = t /\ Shorter(t))
    <3>1. calls[u].building = a /\ a # None /\ Leave(u, a)
      BY <2>6, RegistryAssumption DEF FactoryReturns
    <3>2. calls[u] # Idle
      BY <3>1 DEF Idle
    <3>3. u = t /\ a \in calls[u].todo
      BY <2>3, <3>1, <3>2, CallOfOneThread
    <3> QED
      BY <3>1, <3>3, LeaveShortens
  <2>7. ASSUME NEW u \in Threads, NEW a \in Aliases, FactoryThrows(u, a)
        PROVE  holder' = None
    BY <2>7 DEF FactoryThrows
  <2> QED
    BY <2>1, <2>4, <2>5, <2>6, <2>7
    DEF Next, Clear, Bind, BindInstance, RegisterEntry, SetEnabled, ResolveRefused,
        ResolveGroup, Resolve, Begin, FactoryEnds
<1> QED
  BY <1>1, Invariant, PTL DEF Spec

\* Whoever holds mutex_ of ServiceRegistry.hh is in a call that can go on: one of its
\* components is being built or comes next.  No call, be it by an exception, leaves
\* mutex_ locked behind it.
THEOREM HolderIsInCall ==
    Spec => [](\A t \in Threads :
                  holder = t => \E a \in calls[t].todo : calls[t].building \in {None, a})
<1> DEFINE Busy == \A t \in Threads : holder = t => calls[t].todo # {}
<1>1. Init => Busy
  BY RegistryAssumption DEF Init
<1>2. IInv /\ Busy /\ [Next]_vars => Busy'
  <2> SUFFICES ASSUME IInv, Busy, [Next]_vars, NEW t \in Threads, holder' = t
               PROVE  calls'[t].todo # {}
    OBVIOUS
  <2>1. calls \in [Threads -> [todo : SUBSET Aliases, building : Aliases \cup {None}]]
    BY DEF IInv, TypeOK
  <2>2. t # None
    BY RegistryAssumption
  <2>3. ASSUME NEW u \in Threads, NEW a \in calls[u].todo, Leave(u, a)
        PROVE  calls'[t].todo # {}
    <3>1. calls[u].todo # {a} /\ u = t
      BY <2>2, <2>3 DEF Leave
    <3>2. calls'[t].todo = calls[t].todo \ {a}
      BY <2>1, <2>3, <3>1 DEF Leave
    <3> QED
      BY <3>1, <3>2
  <2>4. ASSUME NEW u \in Threads, NEW a \in Aliases, FactoryReturns(u, a)
        PROVE  calls'[t].todo # {}
    <3>1. calls[u].building = a /\ a # None /\ Leave(u, a)
      BY <2>4, RegistryAssumption DEF FactoryReturns
    <3>2. a \in calls[u].todo
      BY <3>1, CallOfOneThread DEF Idle
    <3> QED
      BY <2>3, <3>1, <3>2
  <2>5. ASSUME NEW u \in Threads, NEW a \in Aliases, ReturnCached(u, a)
        PROVE  calls'[t].todo # {}
    BY <2>3, <2>5 DEF ReturnCached
  <2>6. ASSUME NEW u \in Threads, NEW a \in Aliases, CallFactory(u, a)
        PROVE  calls'[t].todo # {}
    <3>1. calls'[t].todo = calls[t].todo /\ holder = t
      BY <2>1, <2>6 DEF CallFactory
    <3> QED
      BY <3>1
  <2>7. ASSUME NEW u \in Threads, NEW a \in Aliases, FactoryThrows(u, a)
        PROVE  FALSE
    BY <2>2, <2>7 DEF FactoryThrows
  <2>8. ASSUME NEW u \in Threads, NEW todo \in SUBSET Aliases, todo # {}, Begin(u, todo)
        PROVE  calls'[t].todo # {}
    BY <2>1, <2>8 DEF Begin
  <2>9. ASSUME NEW u \in Threads, NEW a \in Aliases, Resolve(u, a)
        PROVE  calls'[t].todo # {}
    <3>1. Begin(u, {a})
      BY <2>9 DEF Resolve
    <3> QED
      BY <2>8, <3>1
  <2>10. ASSUME NEW u \in Threads, NEW g \in Groups, ResolveGroup(u, g)
         PROVE  calls'[t].todo # {}
    <3>1. Begin(u, Matching(g)) /\ Matching(g) # {} /\ Matching(g) \in SUBSET Aliases
      BY <2>10 DEF ResolveGroup, Matching
    <3> QED
      BY <2>8, <3>1
  <2>11. CASE UNCHANGED <<holder, calls>>
    BY <2>11
  <2> QED
    BY <2>4, <2>5, <2>6, <2>7, <2>9, <2>10, <2>11
    DEF Next, Clear, Bind, BindInstance, RegisterEntry, SetEnabled, ResolveRefused,
        FactoryEnds, vars
<1>3. IInv /\ Busy =>
          \A t \in Threads :
              holder = t => \E a \in calls[t].todo : calls[t].building \in {None, a}
  <2> SUFFICES ASSUME IInv, Busy, NEW t \in Threads, holder = t
               PROVE  \E a \in calls[t].todo : calls[t].building \in {None, a}
    OBVIOUS
  <2>1. calls[t] # Idle
    BY DEF Idle
  <2> QED
    BY <2>1, CallOfOneThread
<1> QED
  BY <1>1, <1>2, <1>3, Invariant, PTL DEF Spec

================================================================================
