-------------------------- MODULE MCCircularBuffer --------------------------
(***************************************************************************)
(* Model-checking instance of CircularBufferSpec.                          *)
(***************************************************************************)
EXTENDS CircularBufferSpec
=============================================================================
