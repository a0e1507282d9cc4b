---------------------------- MODULE MCSpiFrames ----------------------------
(***************************************************************************)
(* SpiFrames for TLC: the whole of transceiver_init over and over, with    *)
(* one edge misread in any of the ways the fuser's registers can disagree. *)
(***************************************************************************)
EXTENDS SpiFrames
=============================================================================
