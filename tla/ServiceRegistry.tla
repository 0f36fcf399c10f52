---------------------------- MODULE ServiceRegistry ----------------------------
(***************************************************************************)
(* engine/foundation/ServiceRegistry.hh: components by alias, resolved by  *)
(* any thread.  Every operation holds mutex_ to its end, and resolve runs  *)
(* the factories with mutex_ held.                                         *)
(*                                                                         *)
(* Objects are numbered from 1; 0 is the null pointer.  A registration     *)
(* gets a number too, so that an alias registered again is told apart from *)
(* what it named before.                                                   *)
(***************************************************************************)
EXTENDS Integers

CONSTANTS
    Threads,
    Aliases,
    Groups,            \* what resolveByType and resolveByTag select by
    Reentrant,         \* aliases whose factories use the registry
    None,              \* no thread, no alias, no entry
    MaxRegistrations,  \* bound: registrations
    MaxInstances       \* bound: objects

ASSUME RegistryAssumption ==
    /\ None \notin Threads \cup Aliases
    /\ Reentrant \subseteq Aliases
    /\ MaxRegistrations \in Nat
    /\ MaxInstances \in Nat

VARIABLES
    entries,        \* entries_: alias |-> entry, or None
    holder,         \* the thread that holds mutex_
    calls,          \* calls[t]: what thread t has still to resolve
    registrations,  \* registrations so far
    instances,      \* objects so far
    given,          \* history: every [id, isSingleton, instance] returned
    gave            \* history: what the last step returned, or None

vars == <<entries, holder, calls, registrations, instances, given, gave>>

Idle == [todo |-> {}, building |-> None]

Init ==
    /\ entries = [a \in Aliases |-> None]
    /\ holder = None
    /\ calls = [t \in Threads |-> Idle]
    /\ registrations = 0
    /\ instances = 0
    /\ given = {}
    /\ gave = None

\* A step that returns an object of a, and one that returns none.
Give(a, instance) ==
    /\ gave' = [id |-> entries[a].id, isSingleton |-> entries[a].isSingleton,
                instance |-> instance]
    /\ given' = given \cup {gave'}

GiveNothing == gave' = None /\ UNCHANGED given

-------------------------------------------------------------------------------

\* registerEntry has no body in the sources: an alias that is taken is either
\* given the new entry or left with the old one.
RegisterEntry(a, isSingleton, enabled, groups, instance) ==
    /\ holder = None
    /\ registrations < MaxRegistrations
    /\ registrations' = registrations + 1
    /\ \/ entries' = [entries EXCEPT ![a] =
                        [id |-> registrations + 1, isSingleton |-> isSingleton,
                         enabled |-> enabled, groups |-> groups,
                         instance |-> instance]]
       \/ entries[a] # None /\ UNCHANGED entries
    /\ GiveNothing
    /\ UNCHANGED <<holder, calls>>

\* service(), module(), driver() and bind(): an entry without an object.
Bind(a) ==
    /\ \E isSingleton, enabled \in BOOLEAN, groups \in SUBSET Groups :
          RegisterEntry(a, isSingleton, enabled, groups, 0)
    /\ UNCHANGED instances

\* instance(): an entry with its object.
BindInstance(a) ==
    /\ instances < MaxInstances
    /\ instances' = instances + 1
    /\ \E enabled \in BOOLEAN, groups \in SUBSET Groups :
          RegisterEntry(a, TRUE, enabled, groups, instances + 1)

\* enable() and disable().
SetEnabled(a, enabled) ==
    /\ holder = None
    /\ entries[a] # None
    /\ entries' = [entries EXCEPT ![a].enabled = enabled]
    /\ GiveNothing
    /\ UNCHANGED <<holder, calls, registrations, instances>>

Clear ==
    /\ holder = None
    /\ entries' = [a \in Aliases |-> None]
    /\ GiveNothing
    /\ UNCHANGED <<holder, calls, registrations, instances>>

-------------------------------------------------------------------------------

Available(a) == entries[a] # None /\ entries[a].enabled

Matching(g) == {a \in Aliases : Available(a) /\ g \in entries[a].groups}

Cached(a) == entries[a].isSingleton /\ entries[a].instance # 0

Begin(t, todo) ==
    /\ holder = None
    /\ calls[t] = Idle
    /\ holder' = t
    /\ calls' = [calls EXCEPT ![t].todo = todo]
    /\ GiveNothing
    /\ UNCHANGED <<entries, registrations, instances>>

\* Variant of Resolve: a cached object is handed out before the flag is looked at.
ResolveCachedFirst(t, a) ==
    entries[a] # None /\ (Cached(a) \/ entries[a].enabled) /\ Begin(t, {a})

Resolve(t, a) == Available(a) /\ Begin(t, {a})

\* An unknown or disabled component: resolve throws and changes nothing.
ResolveRefused(a) ==
    /\ holder = None
    /\ ~Available(a)
    /\ GiveNothing
    /\ UNCHANGED <<entries, holder, calls, registrations, instances>>

\* resolveByType and resolveByTag.
ResolveGroup(t, g) == Matching(g) # {} /\ Begin(t, Matching(g))

\* The call of t is done with a; after the last alias it returns.
Leave(t, a) ==
    /\ calls' = [calls EXCEPT ![t] = [todo |-> calls[t].todo \ {a}, building |-> None]]
    /\ holder' = IF calls[t].todo = {a} THEN None ELSE t

ReturnCached(t, a) ==
    /\ a \in calls[t].todo
    /\ calls[t].building = None
    /\ Cached(a)
    /\ Give(a, entries[a].instance)
    /\ Leave(t, a)
    /\ UNCHANGED <<entries, registrations, instances>>

\* Variant of CallFactory: mutex_ is not held while the factory runs.
CallFactoryUnlocked(t, a) ==
    /\ a \in calls[t].todo
    /\ calls[t].building = None
    /\ ~Cached(a)
    /\ calls' = [calls EXCEPT ![t].building = a]
    /\ holder' = None
    /\ GiveNothing
    /\ UNCHANGED <<entries, registrations, instances>>

\* Variant of CallFactory: also for a cached object.
CallFactoryAlways(t, a) ==
    /\ a \in calls[t].todo
    /\ calls[t].building = None
    /\ calls' = [calls EXCEPT ![t].building = a]
    /\ GiveNothing
    /\ UNCHANGED <<entries, holder, registrations, instances>>

CallFactory(t, a) ==
    /\ a \in calls[t].todo
    /\ calls[t].building = None
    /\ ~Cached(a)
    /\ calls' = [calls EXCEPT ![t].building = a]
    /\ GiveNothing
    /\ UNCHANGED <<entries, holder, registrations, instances>>

\* A factory given to bind() may return a new object, one that exists, or
\* none; those of the other operations return a new one.
FactoryReturns(t, a) ==
    /\ calls[t].building = a
    /\ \E i \in 0..MaxInstances :
          /\ i <= instances + 1
          /\ instances' = IF i > instances THEN i ELSE instances
          /\ entries' = IF entries[a].isSingleton
                        THEN [entries EXCEPT ![a].instance = i]
                        ELSE entries
          /\ IF i = 0 THEN GiveNothing ELSE Give(a, i)
    /\ Leave(t, a)
    /\ UNCHANGED registrations

\* Variant of FactoryThrows: the exception is caught and the factory called again.
FactoryThrowsRetried(t, a) ==
    /\ calls[t].building = a
    /\ calls' = [calls EXCEPT ![t].building = None]
    /\ GiveNothing
    /\ UNCHANGED <<entries, holder, registrations, instances>>

\* The exception leaves resolve, which releases mutex_ and forgets the rest.
FactoryThrows(t, a) ==
    /\ calls[t].building = a
    /\ calls' = [calls EXCEPT ![t] = Idle]
    /\ holder' = None
    /\ GiveNothing
    /\ UNCHANGED <<entries, registrations, instances>>

-------------------------------------------------------------------------------

FactoryEnds(t, a) == FactoryReturns(t, a) \/ FactoryThrows(t, a)

Next ==
    \/ Clear
    \/ \E a \in Aliases :
          \/ Bind(a)
          \/ BindInstance(a)
          \/ \E enabled \in BOOLEAN : SetEnabled(a, enabled)
          \/ ResolveRefused(a)
    \/ \E t \in Threads :
          \/ \E g \in Groups : ResolveGroup(t, g)
          \/ \E a \in Aliases :
                \/ Resolve(t, a)
                \/ ReturnCached(t, a)
                \/ CallFactory(t, a)
                \/ FactoryEnds(t, a)

\* A call that has mutex_ goes on, and a factory ends unless it uses the
\* registry: then it locks mutex_ a second time, and may wait for itself.
Progress(t) ==
    \E a \in Aliases :
        \/ ReturnCached(t, a)
        \/ CallFactory(t, a)
        \/ a \notin Reentrant /\ FactoryEnds(t, a)

Spec == Init /\ [][Next]_vars /\ \A t \in Threads : WF_vars(Progress(t))

-------------------------------------------------------------------------------

Entry ==
    [id : 1..MaxRegistrations, isSingleton : BOOLEAN, enabled : BOOLEAN,
     groups : SUBSET Groups, instance : 0..MaxInstances]

Given ==
    [id : 1..MaxRegistrations, isSingleton : BOOLEAN, instance : 1..MaxInstances]

\* The variables have their types.
TypeOK ==
    /\ entries \in [Aliases -> Entry \cup {None}]
    /\ holder \in Threads \cup {None}
    /\ calls \in [Threads -> [todo : SUBSET Aliases, building : Aliases \cup {None}]]
    /\ registrations \in 0..MaxRegistrations
    /\ instances \in 0..MaxInstances
    /\ given \subseteq Given
    /\ gave \in Given \cup {None}

\* Whoever resolves a singleton, in whatever way and however the calls overlap,
\* gets the object everyone else got from the same registration, also after a
\* factory that threw or returned null, and after disable() and enable().
OneInstancePerSingleton ==
    \A g, h \in given :
        g.id = h.id /\ g.isSingleton => g.instance = h.instance

\* A call in progress is the only one: its thread holds mutex_, its components
\* stay registered and enabled, and the one under construction is not cached.
CallsAreAlone ==
    \A t \in Threads :
        calls[t] # Idle =>
            /\ holder = t
            /\ calls[t].todo # {}
            /\ \A a \in calls[t].todo : Available(a)
            /\ calls[t].building # None =>
                  calls[t].building \in calls[t].todo /\ ~Cached(calls[t].building)

\* Registrations of different aliases are different.
IdsAreDistinct ==
    \A a \in Aliases :
        entries[a] # None =>
            /\ entries[a].id <= registrations
            /\ \A b \in Aliases :
                  entries[b] # None /\ entries[b].id = entries[a].id => a = b

\* What a singleton still registered has given out is what it has cached.
GivenIsCached ==
    \A g \in given :
        /\ g.id <= registrations
        /\ \A a \in Aliases :
              entries[a] # None /\ entries[a].id = g.id =>
                  /\ entries[a].isSingleton = g.isSingleton
                  /\ g.isSingleton => entries[a].instance = g.instance

\* The inductive invariant: what makes OneInstancePerSingleton last.
IInv ==
    /\ TypeOK
    /\ CallsAreAlone
    /\ IdsAreDistinct
    /\ GivenIsCached
    /\ OneInstancePerSingleton

\* Whenever an object is returned, be it one that was built and returned before,
\* its registration is in force and enabled: no call that began before a disable(),
\* a clear() or a new registration returns an object after it, and after a
\* disable() the cached object is returned again only once enable() was called.
OnlyEnabledGiven ==
    [][gave' # None =>
          \E a \in Aliases : Available(a) /\ entries[a].id = gave'.id]_vars

\* A thread that has taken mutex_ releases it, whatever the factories throw,
\* unless it is inside a factory that uses the registry.
LockIsReleased ==
    \A t \in Threads :
        holder = t ~> holder # t \/ calls[t].building \in Reentrant

================================================================================
