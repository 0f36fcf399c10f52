------------------------------- MODULE Lifecycle -------------------------------
(***************************************************************************)
(* What ServiceManager promises about the life of its providers, whatever  *)
(* the callbacks do.  Every provider goes absent, added, registered,       *)
(* booted, in that order and without a way back.  Eager providers are      *)
(* registered in a first phase and booted in a second one, after the eager *)
(* providers they depend on; deferred ones are registered and booted at    *)
(* any time.                                                               *)
(***************************************************************************)
CONSTANTS
    Providers,  \* service providers, identified with their names
    Deps,       \* Deps[p]: the providers p depends on
    Deferred    \* those with isDeferred()

VARIABLES
    state,      \* how far each provider has come
    phase       \* how far the manager has come

vars == <<state, phase>>

Init ==
    /\ state = [p \in Providers |-> "absent"]
    /\ phase = "configuring"

Advance(p, from, to) ==
    /\ state[p] = from
    /\ state' = [state EXCEPT ![p] = to]
    /\ UNCHANGED phase

Add(p) == Advance(p, "absent", "added")

Register(p) ==
    /\ p \in Deferred \/ phase = "configuring"
    /\ Advance(p, "added", "registered")

Boot(p) ==
    /\ p \in Deferred \/ phase = "registered"
    /\ p \notin Deferred =>
           \A d \in Deps[p] \ Deferred : state[d] # "registered"
    /\ Advance(p, "registered", "booted")

FinishRegister ==
    /\ phase = "configuring"
    /\ phase' = "registered"
    /\ UNCHANGED state

FinishBoot ==
    /\ phase = "registered"
    /\ \A p \in Providers \ Deferred : state[p] # "registered"
    /\ phase' = "booted"
    /\ UNCHANGED state

Next ==
    \/ \E p \in Providers : Add(p) \/ Register(p) \/ Boot(p)
    \/ FinishRegister \/ FinishBoot

Spec == Init /\ [][Next]_vars

================================================================================
