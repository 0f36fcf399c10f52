---------------------------- MODULE DependencyOrder ----------------------------
(***************************************************************************)
(* What a dependency order of service providers is.  deps[p] is the set of *)
(* names ServiceProvider::dependencies() returns for p; a name nobody      *)
(* added is a name outside S and constrains nothing (the lookup in byName_ *)
(* fails and the dependency is passed over).                               *)
(***************************************************************************)
EXTENDS Naturals, Sequences, FiniteSets, Functions

\* Whatever an element of s depends on, if it occurs in s at all, occurs earlier.
Respects(deps, s) ==
    \A i, j \in DOMAIN s : s[j] \in deps[s[i]] => j < i

\* The sequences that hold each member of S once, dependencies first.
Orders(deps, S) ==
    {s \in Bijection(1..Cardinality(S), S) : Respects(deps, s)}

\* A nonempty set each of whose members depends on a member: since S is
\* finite, following those dependencies runs into a cycle.
Cyclic(deps, S) ==
    \E C \in (SUBSET S) \ {{}} : \A p \in C : deps[p] \cap C # {}

================================================================================
