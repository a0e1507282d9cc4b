------------------------------ MODULE MCDcFifo ------------------------------
(***************************************************************************)
(* DcFifo for TLC: a FIFO of a few words, so that the pointers wrap while  *)
(* codes of an earlier turn are still under way.                           *)
(***************************************************************************)
EXTENDS DcFifo
=============================================================================
