----------------------------- MODULE MCInvocations -----------------------------
(***************************************************************************)
(* Invocations checked with model values for the invocations.  They are    *)
(* interchangeable, but liveness is checked, so no symmetry is declared.   *)
(***************************************************************************)
EXTENDS Invocations
=============================================================================
