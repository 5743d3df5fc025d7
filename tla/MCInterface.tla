------------------------------ MODULE MCInterface ------------------------------
(* Small instances of Interface for TLC.  *)
EXTENDS Interface
=============================================================================
