--------------------------- MODULE MCTopologicalSort ---------------------------
(***************************************************************************)
(* TLC instance of TopologicalSort: every set of added providers out of    *)
(* Names, in every order of adds, with every dependencies() list of up to  *)
(* MaxDependencies names.                                                  *)
(***************************************************************************)
EXTENDS TopologicalSort

\* The two outcomes of the abstract sort exclude each other and leave nothing
\* out: there is a dependency order exactly when there is no cycle.
ASSUME CyclicMeansNoOrder ==
    \A graph \in [Names -> SUBSET Names], S \in SUBSET Names :
        Cyclic(graph, S) <=> Orders(graph, S) = {}

================================================================================
