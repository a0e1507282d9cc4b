---------------------------- MODULE MCSampleLog ----------------------------
(***************************************************************************)
(* SampleLog for TLC: a ring and a window of a few samples, so that the    *)
(* ring turns and windows overlap; a loud sample in either component and   *)
(* sign, and a quiet negative one.                                         *)
(***************************************************************************)
EXTENDS SampleLog

MCSamples == {<<0, 0>>, <<0, 7>>, <<3, 0>>, <<0, 4>>}
=============================================================================
