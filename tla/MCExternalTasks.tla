-------------------------- MODULE MCExternalTasks --------------------------
(***************************************************************************)
(* A case with one pulled and one pushed step for ExternalTasks.           *)
(***************************************************************************)
EXTENDS ExternalTasks, TLC

Symmetry == Permutations(Actor) \cup Permutations(Token)
=============================================================================
