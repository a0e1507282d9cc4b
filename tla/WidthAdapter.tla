---------------------------- MODULE WidthAdapter ----------------------------
(***************************************************************************)
(* The adapter from 32-bit words to 64-bit beats between the dual-clock    *)
(* FIFO and the DMA engine (..._001_data_format_adapter_0.sv): an input    *)
(* register, the first half of a beat, an output register.  Of the eight   *)
(* states of its machine the parity is kept: the four pairs do the same.   *)
(* A register that holds nothing is the empty sequence.                    *)
(***************************************************************************)
EXTENDS Naturals, Sequences

VARIABLES
  a,     \* input register: <<[word |-> w, packet |-> p]>>, p: end of packet
  half,  \* the first word of a pair: state is odd when there is one
  beat   \* output register: two words, or one and four empty bytes

adapterVars == <<a, half, beat>>

AdapterInit == a = <<>> /\ half = <<>> /\ beat = <<>>

\* The output register is free after this edge.
b_ready(out_ready) == out_ready \/ beat = <<>>

\* Mutant: the input register is loaded whenever the FIFO has a word.
in_ready_Always(out_ready) == TRUE

\* The input register is free after this edge.
in_ready(out_ready) == b_ready(out_ready) \/ a = <<>>

\* The state machine sees the word in the input register.
Word == IF a = <<>> THEN <<>> ELSE <<a[1].word>>

\* Mutant: a beat waits for an end of packet.
Whole_AtPacketEnd == a # <<>> /\ a[1].packet

\* A second half completes a beat; the end of a packet flushes a first one.
Whole == a # <<>> /\ (half # <<>> \/ a[1].packet)

\* One edge of the clock; in is what the FIFO offers.
AdapterClock(in, out_ready) ==
  /\ a' = IF in_ready(out_ready) THEN in ELSE a
  /\ IF b_ready(out_ready)
     THEN IF Whole THEN beat' = half \o Word /\ half' = <<>>
                   ELSE beat' = <<>> /\ half' = half \o Word
     ELSE UNCHANGED <<half, beat>>

\* The words in the adapter, oldest first.
AdapterWords == beat \o half \o Word
=============================================================================
