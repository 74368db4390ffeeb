---------------------------- MODULE MCTermination ----------------------------
(***************************************************************************)
(* A main server with up to two children and three SIGTERMs from outside,  *)
(* so that a second pass meets a vector that was reversed before.          *)
(***************************************************************************)
EXTENDS Termination
=============================================================================
