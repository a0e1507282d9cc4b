---------------------------- MODULE MCLifecycle ----------------------------
(***************************************************************************)
(* Lifecycle for TLC: configurations are model values.                     *)
(***************************************************************************)
EXTENDS Lifecycle
=============================================================================
