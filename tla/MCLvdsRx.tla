------------------------------ MODULE MCLvdsRx ------------------------------
(***************************************************************************)
(* LvdsRx for TLC: words of 2 * Half bit pairs instead of 16.              *)
(***************************************************************************)
EXTENDS LvdsRx
=============================================================================
