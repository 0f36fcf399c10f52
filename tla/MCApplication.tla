----------------------------- MODULE MCApplication -----------------------------
(***************************************************************************)
(* TLC instance of Application: bounds are in MCApplication.cfg.  The      *)
(* program may crash, after which nothing happens.                         *)
(***************************************************************************)
EXTENDS Application

================================================================================
