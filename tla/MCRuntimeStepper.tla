--------------------------- MODULE MCRuntimeStepper ---------------------------
(* A batch of up to three rows over three slots: slots freed by one eviction are  *)
(* taken again by later admissions, two rows may leave in one step, and an        *)
(* admission may be rolled back between them.                                     *)
EXTENDS RuntimeStepper
=============================================================================
