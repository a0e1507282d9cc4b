---------------------------- MODULE ChunkStream ----------------------------
(***************************************************************************)
(* What the receiving computer is promised by the ARM program: within one  *)
(* run of the program, numbered chunks of I/Q words that continue one      *)
(* another without a gap, a repetition or a torn chunk.  A datagram the    *)
(* network refuses spends its number.  A relaunch starts the numbers again *)
(* at 0 and may skip words, but never goes back.                           *)
(***************************************************************************)
EXTENDS Naturals, Sequences

CONSTANTS
  Chunks,    \* chunk sizes a run may be configured with
  MaxWords   \* bound of the model: words the receiver delivers

VARIABLES
  size,      \* chunk size of this run
  seq,       \* number of the next chunk
  position,  \* last word of the last chunk handled
  datagram   \* last datagram the network took

streamState == <<size, seq, position, datagram>>

StreamInit ==
  /\ size \in Chunks
  /\ seq = 0
  /\ position = 0
  /\ datagram = [seq |-> 0, data |-> <<>>]

Relaunch ==
  /\ size' \in Chunks
  /\ seq' = 0
  /\ UNCHANGED <<position, datagram>>

\* The size consecutive words that begin with the given one.
WordsFrom(first) == [i \in 1 .. size |-> first + i - 1]

Deliver(first) ==
  /\ first > position
  /\ seq > 0 => first = position + 1
  /\ \/ datagram' = [seq |-> seq, data |-> WordsFrom(first)]
     \/ UNCHANGED datagram
  /\ position' = first + size - 1
  /\ seq' = seq + 1
  /\ UNCHANGED size

StreamNext == Relaunch \/ \E first \in 1 .. MaxWords : Deliver(first)

StreamSpec == StreamInit /\ [][StreamNext]_streamState
=============================================================================
