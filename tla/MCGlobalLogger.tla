----------------------------- MODULE MCGlobalLogger -----------------------------
(***************************************************************************)
(* TLC instance of GlobalLogger: two threads initialise the global logger; *)
(* two loggers, three guards one inside the other, one constructor that    *)
(* throws.                                                                 *)
(***************************************************************************)
EXTENDS GlobalLogger, TLC

CONSTANTS t1, t2

Symmetry == Permutations(Threads)

Config(level, toConsole, toFile, colorized) ==
    [level |-> level, toConsole |-> toConsole, toFile |-> toFile,
     colorized |-> colorized]

MCDefaultConfig == Config(2, TRUE, FALSE, TRUE)

MCMainConfig == Config(1, TRUE, FALSE, TRUE)

MCConfigs == {Config(6, TRUE, TRUE, TRUE)}

================================================================================
