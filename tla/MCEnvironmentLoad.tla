--------------------------- MODULE MCEnvironmentLoad ---------------------------
(***************************************************************************)
(* TLC instance of EnvironmentLoad: the loader and one more thread, two    *)
(* settings.  "on" is a bool, "9" a number that the type asked for cannot  *)
(* hold, "local" neither.                                                  *)
(***************************************************************************)
EXTENDS EnvironmentLoad, TLC

CONSTANTS loader, other

MCThreads == {loader, other}

MCKeys == {"APP_ENV", "APP_DEBUG"}

MCWords == {"on", "local", "9", "production"}

MCTrueWords == {"on"}

MCNumber == "9" :> 9

MCSettings == <<"APP_ENV", "APP_DEBUG">>

MCDefault == "APP_ENV" :> String("production") @@ "APP_DEBUG" :> Bool(FALSE)

Batch(env, debug) == "APP_ENV" :> env @@ "APP_DEBUG" :> debug

MCBatches == {Batch(String("production"), String("on")), Batch(Absent, String("9"))}

MCStored == {Literal("on")}

MCGroups == {{"APP_DEBUG"}}

MCAppEnvs == {"local", Absent}

MCDisks ==
    {<< >>,
     ".env" :> Batch(String("production"), String("on")),
     ".env" :> Batch(String("production"), String("on"))
         @@ "local" :> Batch(Absent, String("9")),
     ".env" :> Batch(Absent, String("9"))
         @@ "local" :> Batch(String("production"), String("on"))}

================================================================================
