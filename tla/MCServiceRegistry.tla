--------------------------- MODULE MCServiceRegistry ---------------------------
(***************************************************************************)
(* TLC instance of ServiceRegistry: two threads, a component with a plain  *)
(* factory and one whose factory uses the registry.                        *)
(***************************************************************************)
EXTENDS ServiceRegistry

CONSTANTS t1, t2, plain, nested, web

MCThreads == {t1, t2}

MCAliases == {plain, nested}

MCGroups == {web}

MCReentrant == {nested}

================================================================================
