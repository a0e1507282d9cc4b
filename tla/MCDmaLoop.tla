----------------------------- MODULE MCDmaLoop -----------------------------
(***************************************************************************)
(* DmaLoop for TLC.  Every constant has its value in a .cfg; the two FIFOs *)
(* are smaller than a chunk, so that a transfer always waits for the       *)
(* stream and back pressure reaches the dc_fifo.                           *)
(***************************************************************************)
EXTENDS DmaLoop
=============================================================================
