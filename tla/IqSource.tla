------------------------------ MODULE IqSource ------------------------------
(***************************************************************************)
(* The Avalon-ST source of iq_stream_source_change.sv and the write side   *)
(* of the dual-clock FIFO it feeds (the adapter between them is wires).    *)
(* Each Clock is one edge of delayedCLK: the module reads its inputs and   *)
(* registers as they stand before the edge.  Words are numbered in the     *)
(* order in which word_valid announces them.                               *)
(***************************************************************************)
EXTENDS Naturals, Sequences

CONSTANTS
  Depth,        \* words the FIFO holds (1024 in the code)
  WordClocks,   \* clocks from one word_valid to the next, at least (16)
  MaxWords      \* bound of the model: words announced

ASSUME IqSourceAssumption ==
  Depth \in Nat \ {0} /\ WordClocks \in Nat \ {0, 1} /\ MaxWords \in Nat

VARIABLES
  pending, data_reg, stream_tvalid, stream_tstart,  \* tlast equals tstart
  occupancy,   \* words in the FIFO, as its write side counts them
  since,       \* clocks since the last word_valid, up to WordClocks
  arrived,     \* history: words announced by word_valid
  captured,    \* history: words that reached data_reg
  taken,       \* history: beats the FIFO took, oldest first
  stalled      \* history: words that found the FIFO full

srcVars == <<pending, data_reg, stream_tvalid, stream_tstart>>
histVars == <<arrived, captured, taken, stalled>>
vars == <<srcVars, occupancy, since, histVars>>

NoWord == 0

Init ==
  /\ pending = FALSE
  /\ data_reg = NoWord
  /\ stream_tvalid = FALSE
  /\ stream_tstart = FALSE
  /\ occupancy = 0
  /\ since = WordClocks
  /\ arrived = 0
  /\ captured = {}
  /\ taken = <<>>
  /\ stalled = {}

\* Mutant: full is noticed one word too late.
stream_tready_Late == occupancy <= Depth

\* in_ready of the FIFO: its register full is up to date after every edge.
stream_tready == occupancy < Depth

\* A beat crosses at this edge.
Transfer == stream_tvalid /\ stream_tready

\* Mutant: a word is captured over one that still waits.
Capture_Overwrite(word_valid) == word_valid

\* The word announced at this edge goes to data_reg.
Capture(word_valid) == ~pending /\ word_valid

\* Mutant: the wait ends with the beat, which leaves tvalid up once more.
Released_OnBeat == pending /\ Transfer

\* The wait for the slave ends at this edge.
Released == pending /\ stream_tready

\* tvalid follows pending one clock later.
NextValid(word_valid) == pending

\* The FIFO's write side.
Written == occupancy + (IF Transfer THEN 1 ELSE 0)

\* One edge of delayedCLK, with word_valid_in as given.
Clock(word_valid) ==
  /\ word_valid => since = WordClocks
  /\ since' = CASE word_valid -> 1
              [] ~word_valid /\ since < WordClocks -> since + 1
              [] OTHER -> since
  /\ arrived' = IF word_valid THEN arrived + 1 ELSE arrived
  /\ stream_tstart' = Capture(word_valid)
  /\ IF Capture(word_valid)
     THEN data_reg' = arrived' /\ captured' = captured \cup {arrived'}
     ELSE UNCHANGED <<data_reg, captured>>
  /\ pending' = (Capture(word_valid) \/ (pending /\ ~Released))
  /\ stream_tvalid' = NextValid(word_valid)
  /\ occupancy' = Written
  /\ taken' = IF Transfer THEN Append(taken, data_reg) ELSE taken
  /\ stalled' = IF pending /\ ~stream_tready
                THEN stalled \cup {data_reg} ELSE stalled

Quiet == Clock(FALSE)
Announce == arrived < MaxWords /\ Clock(TRUE)

\* The write side learns that a word left the FIFO.
Drain ==
  /\ occupancy > 0
  /\ occupancy' = occupancy - 1
  /\ UNCHANGED <<srcVars, since, histVars>>

Next == Quiet \/ Announce \/ Drain

Spec == Init /\ [][Next]_vars

\* The clock runs and the DMA engine keeps reading the FIFO.
FairSpec == Spec /\ WF_vars(Quiet) /\ WF_vars(Drain)

-----------------------------------------------------------------------------
(***************************************************************************)
(* Properties.                                                             *)
(***************************************************************************)
Times(w) == {i \in 1 .. Len(taken) : taken[i] = w}

\* The registers keep to their types and the FIFO is never written when full.
TypeOK ==
  /\ pending \in BOOLEAN /\ stream_tvalid \in BOOLEAN
  /\ stream_tstart \in BOOLEAN
  /\ data_reg \in 0 .. arrived
  /\ occupancy \in 0 .. Depth
  /\ since \in 1 .. WordClocks
  /\ arrived \in 0 .. MaxWords
  /\ captured \subseteq 1 .. arrived /\ stalled \subseteq captured
  /\ taken \in Seq(captured)

\* A captured word reaches the FIFO: the register is never loaded with the
\* next word before the FIFO took it, and never left behind.  The FIFO takes
\* the words in the order of their arrival.
CapturedWordsArrive ==
  /\ \A w \in captured :
       Times(w) # {} \/ (w = data_reg /\ (pending \/ stream_tvalid))
  /\ \A i \in 1 .. Len(taken) - 1 : taken[i] <= taken[i + 1]

\* The word announced at this edge is dropped.
Lost == arrived' # arrived /\ arrived' \notin captured'

\* The word that crosses at this edge has crossed before.
Repeated == Len(taken') # Len(taken) /\ Times(taken'[Len(taken')]) # {}

\* The word captured last found the FIFO full, and crosses so often.
StalledAt(places) == data_reg \in stalled /\ Times(data_reg) = places

\* A word is dropped only while the one captured before it found the FIFO full
\* and still waits for it; a word is taken again only when it found the FIFO
\* full, once, and right behind itself.
Damage ==
  /\ Lost => StalledAt({})
  /\ Repeated => taken'[Len(taken')] = data_reg /\ StalledAt({Len(taken)})

\* A word is lost or repeated only around a full FIFO: once the word that found
\* it full has crossed, nothing is lost until another one finds it full.
DamageOnlyWhenFull == [][Damage]_vars

\* A word in data_reg is not kept waiting for ever by a FIFO that is read.
WaitEnds == \A w \in 1 .. MaxWords : w \in captured ~> Times(w) # {}

\* What the comments of lines 2 and 70 of iq_stream_source_change.sv say: a
\* word is sent as it changes, and the wait is over once it has been read.
EachWordOnce == \A i, j \in 1 .. Len(taken) : taken[i] = taken[j] => i = j
=============================================================================
