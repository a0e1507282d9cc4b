---------------------------- MODULE MCStreamPath ----------------------------
(***************************************************************************)
(* StreamPath for TLC: a FIFO of a few words, so that the engine's back    *)
(* pressure reaches the source.                                            *)
(***************************************************************************)
EXTENDS StreamPath
=============================================================================
