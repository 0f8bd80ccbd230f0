---------------------------- MODULE MCThreading ----------------------------
(* Model-checking instance of Threading. *)
EXTENDS Threading
=============================================================================
