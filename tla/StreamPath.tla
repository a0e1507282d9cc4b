----------------------------- MODULE StreamPath -----------------------------
(***************************************************************************)
(* The way of a word from the receiver to the DMA engine: the stream       *)
(* source, the dual-clock FIFO, the width adapter.  Source and FIFO's      *)
(* write side run on delayedCLK, the adapter on the engine's clock.  The   *)
(* FIFO is the bounded queue that DcFifo implements, seen late by its      *)
(* write side (Drain) and late by its reader.                              *)
(***************************************************************************)
EXTENDS IqSource, WidthAdapter

VARIABLE
  dc_fifo   \* words in the FIFO and its output register, with end of packet

pathVars == <<vars, adapterVars, dc_fifo>>

PathInit == Init /\ AdapterInit /\ dc_fifo = <<>>

\* Mutant: the FIFO's output register keeps a word that was read.
Unread_Again == dc_fifo

\* The FIFO after its reader took the word it offers.
Unread == Tail(dc_fifo)

\* An edge of delayedCLK: the FIFO keeps end of packet beside the word.
SourceEdge(word_valid) ==
  /\ Clock(word_valid)
  /\ dc_fifo' = IF Transfer
                THEN Append(dc_fifo, [word |-> data_reg, packet |-> stream_tstart])
                ELSE dc_fifo
  /\ UNCHANGED adapterVars

QuietEdge == SourceEdge(FALSE)
AnnounceEdge == arrived < MaxWords /\ SourceEdge(TRUE)

\* The write side learns of a word that left the memory, which it does for the
\* output register before the reader takes it.
DrainEdge ==
  /\ occupancy >= Len(dc_fifo)
  /\ Drain
  /\ UNCHANGED <<adapterVars, dc_fifo>>

\* An edge of the engine's clock: the FIFO offers its oldest word or, while the
\* write pointer is on its way, nothing.
AdapterEdge(offered, out_ready) ==
  /\ offered => dc_fifo # <<>>
  /\ AdapterClock(IF offered THEN <<Head(dc_fifo)>> ELSE <<>>, out_ready)
  /\ dc_fifo' = IF offered /\ in_ready(out_ready) THEN Unread ELSE dc_fifo
  /\ UNCHANGED vars

OutEdge == \E offered, out_ready \in BOOLEAN : AdapterEdge(offered, out_ready)

PathNext == QuietEdge \/ AnnounceEdge \/ DrainEdge \/ OutEdge

PathSpec == PathInit /\ [][PathNext]_pathVars

\* Both clocks run; the FIFO's pointers get across; the engine keeps taking
\* beats.
PathFairSpec ==
  /\ PathSpec
  /\ WF_pathVars(QuietEdge)
  /\ WF_pathVars(DrainEdge)
  /\ WF_pathVars(AdapterEdge(dc_fifo # <<>>, TRUE))

-----------------------------------------------------------------------------
(***************************************************************************)
(* Properties.                                                             *)
(***************************************************************************)
\* What the FIFO and the adapter's input register hold.
Entry == [word : Nat, packet : BOOLEAN]

\* The registers of the source keep to their types and its FIFO is never written
\* when full; FIFO and output register never hold more than one word beyond the
\* memory; each register of the adapter holds what its width allows.
PathTypeOK ==
  /\ TypeOK
  /\ dc_fifo \in Seq(Entry) /\ Len(dc_fifo) <= Depth + 1
  /\ a \in Seq(Entry) /\ Len(a) <= 1
  /\ half \in Seq(Nat) /\ Len(half) <= 1
  /\ beat \in Seq(Nat) /\ Len(beat) <= 2

\* The words between source and engine, oldest first.
OnTheWay == AdapterWords \o [i \in 1 .. Len(dc_fifo) |-> dc_fifo[i].word]

\* FIFO and adapter are one bounded queue from which the engine takes whole
\* beats of two words, each word once and in order: the adapter never gives out
\* a half-empty beat, and a word never changes its place in the pair.  This is
\* the queue of Msgdma's AcceptWord and TakeBeat.
WholeBeats ==
  INSTANCE BoundedQueue WITH Words <- 0 .. MaxWords, Capacity <- Depth + 5,
                             Take <- 2, queue <- OnTheWay
PathIsQueue == WholeBeats!QueueSpec

\* Two words that the FIFO took become a beat at the engine.
BeatsComeOut == Len(OnTheWay) >= 2 ~> beat # <<>>
=============================================================================
