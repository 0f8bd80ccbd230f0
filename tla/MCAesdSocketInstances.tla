----------------------- MODULE MCAesdSocketInstances -----------------------
(* Model-checking instance of AesdSocketInstances. *)
EXTENDS AesdSocketInstances, TLC

\* EAI_NONAME and EAI_SYSTEM.
Eai == {-2, -11}

\* No definition tells two instances apart.
Symmetry == Permutations(Instances)
=============================================================================
