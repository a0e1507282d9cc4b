----------------------------- MODULE MCIqSource -----------------------------
(***************************************************************************)
(* IqSource for TLC: a FIFO of a few words and a word every few clocks.    *)
(***************************************************************************)
EXTENDS IqSource
=============================================================================
