---------------------------- MODULE MCChunkSize ----------------------------
(***************************************************************************)
(* ChunkSize for TLC: bytes are real, the limits are scaled down so that   *)
(* numbers on both sides of each are few.                                  *)
(***************************************************************************)
EXTENDS ChunkSize

MCNumbers == {-132, -8, -1, 0, 1, 4, 7, 8, 9, 12, 16, 24, 32, 36, 40, 56, 64,
              72, 76, 80, 120, 127, 128, 136}
=============================================================================
