--------------------------- MODULE MCServiceManager ---------------------------
(***************************************************************************)
(* TLC instance of ServiceManager.  core and app are eager, app depends on *)
(* core.  lazy and rogue are deferred and both provide x; rogue alone      *)
(* provides y.  rogue closes a cycle: without it core has a missing        *)
(* dependency, with it and app every sort throws.                          *)
(***************************************************************************)
EXTENDS ServiceManager, TLC

CONSTANTS core, app, lazy, rogue, x, y

MCProviders == {core, app, lazy, rogue}

MCAliases == {x, y}

MCDeps == core :> {rogue} @@ app :> {core} @@ lazy :> {app} @@ rogue :> {app}

MCProvides == core :> {} @@ app :> {} @@ lazy :> {x} @@ rogue :> {x, y}

MCDeferred == {lazy, rogue}

================================================================================
