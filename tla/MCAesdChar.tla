----------------------------- MODULE MCAesdChar -----------------------------
(* Model-checking instance of AesdChar.  No symmetry: the runs of this      *)
(* module include liveness, which TLC does not check soundly with it.       *)
EXTENDS AesdChar
=============================================================================
