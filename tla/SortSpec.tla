------------------------------- MODULE SortSpec -------------------------------
(***************************************************************************)
(* What a caller of ServiceManager::sortByDependencies relies on: the call *)
(* ends, either with every provider once and in dependency order, or with  *)
(* the "Circular dependency" exception, and that only if there is a cycle. *)
(***************************************************************************)
EXTENDS DependencyOrder

VARIABLES
    names,    \* the providers to sort
    deps,     \* deps[p]: the names p depends on
    status,   \* "sorting", then "sorted" or "cycle"
    result    \* the order returned, empty until then

vars == <<names, deps, status, result>>

Init ==
    /\ IsFiniteSet(names)
    /\ status = "sorting"
    /\ result = << >>

Sort ==
    /\ status = "sorting"
    /\ status' = "sorted"
    /\ result' \in Orders(deps, names)
    /\ UNCHANGED <<names, deps>>

Throw ==
    /\ status = "sorting"
    /\ Cyclic(deps, names)
    /\ status' = "cycle"
    /\ UNCHANGED <<names, deps, result>>

Next == Sort \/ Throw

Safety == Init /\ [][Next]_vars

Spec == Safety /\ <>(status # "sorting")

================================================================================
