------------------------------- MODULE LvdsRx -------------------------------
(***************************************************************************)
(* The word synchroniser of lvds_rx.sv against the serial stream of the    *)
(* AT86RF215.  A clock brings one pair of bits.  An I/Q word is an I half  *)
(* that begins with the pair 10 and a Q half that begins with 01; between  *)
(* words the transceiver may send words of zeros.  The receiver looks for  *)
(* the pair 10 at the head of its shift register (HUNT), then counts       *)
(* words (SYNCED).  A slip is a loss of whole bit pairs on the link.       *)
(***************************************************************************)
EXTENDS Naturals, Sequences

CONSTANTS
  Half,       \* bit pairs in half a word (8 in the code)
  MaxSlips    \* bound of the model: slips of the link

ASSUME LvdsRxAssumption == Half \in Nat \ {0} /\ MaxSlips \in Nat

Pairs == {"00", "01", "10", "11"}
Size == 2 * Half
Zeros == [i \in 1 .. Size |-> "00"]

VARIABLES
  state, bit_cnt, shift_reg, word_valid, sync_ok,
  phase,   \* transceiver: pairs of the word on the wire already sent
  kind,    \* transceiver: what that word is, "data" or "zero"
  slips,   \* slips so far
  gap      \* history: since the last slip the transceiver was silent for the
           \* length of a word

rxVars == <<state, bit_cnt, shift_reg, word_valid, sync_ok>>
txVars == <<phase, kind, slips, gap>>
vars == <<rxVars, txVars>>

\* The FPGA leaves reset while the transceiver is silent.
Init ==
  /\ state = "HUNT"
  /\ bit_cnt = 0
  /\ shift_reg = Zeros
  /\ word_valid = FALSE
  /\ sync_ok = FALSE
  /\ phase = 0
  /\ kind = "zero"
  /\ slips = 0
  /\ gap = TRUE

\* next_shift: the oldest pair leaves at the head.
Shifted(pair) == Append(Tail(shift_reg), pair)

\* Mutant: an all-zero word is taken for a framing fault.
IsZeroWord_Never(w) == FALSE

IsZeroWord(w) == w = Zeros

\* Mutant: only the Q half's head is checked, at the word boundary.
IsIqWord_NoISync(w) == w[Half + 1] = "01"

IsIqWord(w) == w[1] = "10" /\ w[Half + 1] = "01"

\* Mutant: a framing fault does not end the lock.
FramingFault_Never(w) == FALSE

FramingFault(w) == ~IsZeroWord(w) /\ ~IsIqWord(w)

\* Mutant: the pairs of a word are counted from 1.
LastPair_Late == Size

LastPair == Size - 1

\* HUNT: the head pair 10 locks; the word it heads is not given out.
Hunt(w) ==
  /\ state = "HUNT"
  /\ word_valid' = FALSE
  /\ IF w[1] = "10"
     THEN state' = "SYNCED" /\ bit_cnt' = 0 /\ sync_ok' = FALSE
     ELSE UNCHANGED <<state, bit_cnt, sync_ok>>

\* SYNCED, inside a word.
Count ==
  /\ state = "SYNCED" /\ bit_cnt # LastPair
  /\ bit_cnt' = bit_cnt + 1
  /\ word_valid' = FALSE
  /\ UNCHANGED <<state, sync_ok>>

\* SYNCED, at the last pair of a word: zeros keep the lock, an I/Q word is
\* given out (iq_word is then the shift register), anything else sends the
\* receiver back to HUNT.
EndOfWord(w) ==
  /\ state = "SYNCED" /\ bit_cnt = LastPair
  /\ bit_cnt' = 0
  /\ word_valid' = (~IsZeroWord(w) /\ IsIqWord(w))
  /\ sync_ok' = word_valid'
  /\ state' = IF FramingFault(w) THEN "HUNT" ELSE "SYNCED"

Receive(pair) ==
  /\ shift_reg' = Shifted(pair)
  /\ Hunt(shift_reg') \/ Count \/ EndOfWord(shift_reg')

\* The pairs the transceiver may send at this place of a word.
Sendable(k) ==
  CASE k = "zero" -> {"00"}
    [] k = "data" /\ phase = 0 -> {"10"}
    [] k = "data" /\ phase = Half -> {"01"}
    [] OTHER -> Pairs

\* One period of delayedCLK.
Clock ==
  \E k \in IF phase = 0 THEN {"zero", "data"} ELSE {kind} :
    \E pair \in Sendable(k) :
      /\ Receive(pair)
      /\ kind' = k
      /\ phase' = (phase + 1) % Size
      /\ gap' = (gap \/ (k = "zero" /\ shift_reg' = Zeros))
      /\ UNCHANGED slips

\* The link loses pairs: the next one is from elsewhere in the word.
Slip ==
  /\ slips < MaxSlips
  /\ slips' = slips + 1
  /\ phase' \in 0 .. Size - 1
  /\ gap' = FALSE
  /\ UNCHANGED <<rxVars, kind>>

Next == Clock \/ Slip

Spec == Init /\ [][Next]_vars

-----------------------------------------------------------------------------
(***************************************************************************)
(* Properties.                                                             *)
(***************************************************************************)
\* The registers of lvds_rx.sv keep to their widths.
TypeOK ==
  /\ state \in {"HUNT", "SYNCED"}
  /\ bit_cnt \in 0 .. Size - 1
  /\ shift_reg \in Seq(Pairs) /\ Len(shift_reg) = Size
  /\ word_valid \in BOOLEAN /\ sync_ok \in BOOLEAN
  /\ phase \in 0 .. Size - 1 /\ kind \in {"data", "zero"}
  /\ slips \in 0 .. MaxSlips /\ gap \in BOOLEAN

\* A word is given out only when the shift register holds a word the
\* transceiver sent, so long as the transceiver has been silent for a word's
\* length since the last slip: no payload bits are taken for a sync pattern.
RealWords == gap /\ word_valid => phase = 0

\* After such a silence the end of an I/Q word always finds the receiver locked
\* on it, whichever word boundary it counted from when the link slipped.
Resynchronises ==
  gap /\ phase = 0 /\ kind = "data" => state = "SYNCED" /\ bit_cnt = 0

\* From then on a locked receiver gives out every I/Q word the transceiver
\* completes (the first one after HUNT only locks it), and words of zeros do
\* not cost it the lock.
EveryWord ==
  [][gap /\ gap' /\ state = "SYNCED" /\ bit_cnt = phase
       => state' = "SYNCED" /\ (phase' = 0 /\ kind' = "data" => word_valid')]_vars
=============================================================================
