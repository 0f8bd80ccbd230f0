---------------------------- MODULE MCSystemCalls ----------------------------
(* Model-checking instance of SystemCalls. *)
EXTENDS SystemCalls
=============================================================================
