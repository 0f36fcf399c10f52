-------------------------------- MODULE Container --------------------------------
(***************************************************************************)
(* engine/foundation/Container.cc: bindings of types behind a shared       *)
(* mutex.  makeRaw names two locks of the one mutex alike; here it takes   *)
(* the second while it holds the first, as it is written.                  *)
(***************************************************************************)
EXTENDS FiniteSets

CONSTANTS Threads, Types

VARIABLES
    bindings, \* bindings_: type |-> whether it is a singleton, and has its instance
    shared,   \* the threads that hold mutex_ shared; none keeps it exclusively
              \* longer than the one step it takes
    pc,       \* where each thread is in makeRaw
    wanted    \* the type it makes

vars == <<bindings, shared, pc, wanted>>

Init ==
    /\ bindings = << >>
    /\ shared = {}
    /\ pc = [t \in Threads |-> "out"]
    /\ wanted = [t \in Threads |-> CHOOSE type \in Types : TRUE]

Free == shared = {}

Bound(type, binding) ==
    bindings' = [u \in DOMAIN bindings \cup {type} |->
                    IF u = type THEN binding ELSE bindings[u]]

\* bindRaw
Bind(t, type, isSingleton) ==
    /\ pc[t] = "out"
    /\ Free
    /\ Bound(type, [isSingleton |-> isSingleton, made |-> FALSE])
    /\ UNCHANGED <<shared, pc, wanted>>

\* instanceRaw
Instance(t, type) ==
    /\ pc[t] = "out"
    /\ Free
    /\ Bound(type, [isSingleton |-> TRUE, made |-> TRUE])
    /\ UNCHANGED <<shared, pc, wanted>>

Flush(t) ==
    /\ pc[t] = "out"
    /\ Free
    /\ bindings' = << >>
    /\ UNCHANGED <<shared, pc, wanted>>

\* makeRaw
Make(t, type) ==
    /\ pc[t] = "out"
    /\ shared' = shared \cup {t}
    /\ wanted' = [wanted EXCEPT ![t] = type]
    /\ pc' = [pc EXCEPT ![t] = "finding"]
    /\ UNCHANGED bindings

\* Nothing is bound (ContainerException), or the instance is there already.
Found(t) ==
    /\ pc[t] = "finding"
    /\ wanted[t] \in DOMAIN bindings =>
          bindings[wanted[t]].isSingleton /\ bindings[wanted[t]].made
    /\ shared' = shared \ {t}
    /\ pc' = [pc EXCEPT ![t] = "out"]
    /\ UNCHANGED <<bindings, wanted>>

NotResolved(t) ==
    /\ pc[t] = "finding"
    /\ wanted[t] \in DOMAIN bindings
    /\ ~(bindings[wanted[t]].isSingleton /\ bindings[wanted[t]].made)
    /\ pc' = [pc EXCEPT ![t] = "resolving"]
    /\ UNCHANGED <<bindings, shared, wanted>>

\* Binding::resolve, as soon as the thread has the mutex for itself.
Resolve(t) ==
    /\ pc[t] = "resolving"
    /\ Free
    /\ bindings' = [bindings EXCEPT ![wanted[t]].made = bindings[wanted[t]].isSingleton]
    /\ shared' = shared \ {t}
    /\ pc' = [pc EXCEPT ![t] = "out"]
    /\ UNCHANGED wanted

Making(t) == Found(t) \/ NotResolved(t) \/ Resolve(t)

Next ==
    \E t \in Threads :
        \/ \E type \in Types :
              \/ \E isSingleton \in BOOLEAN : Bind(t, type, isSingleton)
              \/ Instance(t, type)
              \/ Make(t, type)
        \/ Flush(t)
        \/ Making(t)

\* A thread inside makeRaw goes on when it can.
Spec == Init /\ [][Next]_vars /\ \A t \in Threads : WF_vars(Making(t))

-------------------------------------------------------------------------------

\* make() returns, with an instance or with an exception, as the tests have it of
\* a bound type (ContainerTest.cc:43-48).
MakeReturns == \A t \in Threads : pc[t] = "finding" ~> pc[t] = "out"

================================================================================
