------------------------------ MODULE MCContainer ------------------------------
(***************************************************************************)
(* TLC instance of Container: one type, resolved by one thread.            *)
(***************************************************************************)
EXTENDS Container

CONSTANTS t1, service

================================================================================
