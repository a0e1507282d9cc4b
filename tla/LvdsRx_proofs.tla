---------------------------- MODULE LvdsRx_proofs ----------------------------
(***************************************************************************)
(* Proofs about LvdsRx, for words of any length and any number of slips.   *)
(* WordInv says what the shift register holds of the word on the wire;     *)
(* LockInv says that a receiver that does not count with the transceiver   *)
(* has seen nothing but zeros before that word.                            *)
(***************************************************************************)
EXTENDS LvdsRx, SequenceTheorems, TLAPS

\* The receiver counts the pairs of the word on the wire.
Aligned == state = "SYNCED" /\ bit_cnt = phase

\* The last phase pairs of the shift register are the begun word.
WordInv ==
  gap => /\ kind = "zero" =>
              \A i \in Size - phase + 1 .. Size : shift_reg[i] = "00"
         /\ kind = "data" =>
              /\ phase > 0 => shift_reg[Size - phase + 1] = "10"
              /\ phase > Half => shift_reg[Size - phase + 1 + Half] = "01"

\* Otherwise all before is zeros, and a wrong count ends within a word.
LockInv ==
  gap /\ ~Aligned =>
    /\ \A i \in 1 .. Size - phase : shift_reg[i] = "00"
    /\ kind = "data" =>
         phase > 0 /\ (state = "SYNCED" => bit_cnt > phase)

LvdsInv == TypeOK /\ WordInv /\ LockInv /\ RealWords

-----------------------------------------------------------------------------
\* Sizes, and words of zeros.
LEMMA SizeFacts == Half \in Nat /\ Half >= 1 /\ Size = 2 * Half /\ Size \in Nat /\ Size >= 2
  BY LvdsRxAssumption DEF Size

LEMMA ZerosFacts ==
  /\ Zeros \in Seq(Pairs) /\ Len(Zeros) = Size
  /\ \A i \in 1 .. Size : Zeros[i] = "00"
<1>1. Size \in Nat
  BY SizeFacts
<1>2. \A i \in 1 .. Size : Zeros[i] = "00"
  BY DEF Zeros
<1>3. Zeros \in Seq(Pairs) /\ Len(Zeros) = Size
  BY <1>1 DEF Zeros, Pairs
<1>4. QED
  BY <1>2, <1>3

\* A word whose pairs are all 00 is the word of zeros.
LEMMA AllZeros ==
  ASSUME NEW w \in Seq(Pairs), Len(w) = Size, \A i \in 1 .. Size : w[i] = "00"
  PROVE  w = Zeros
  BY ZerosFacts, SeqEqual

\* The register moves by one pair.
LEMMA ShiftedFacts ==
  ASSUME TypeOK, NEW pair \in Pairs
  PROVE  /\ Shifted(pair) \in Seq(Pairs) /\ Len(Shifted(pair)) = Size
         /\ \A i \in 1 .. Size - 1 : Shifted(pair)[i] = shift_reg[i + 1]
         /\ Shifted(pair)[Size] = pair
<1>1. shift_reg \in Seq(Pairs) /\ Len(shift_reg) = Size /\ shift_reg # <<>>
  BY SizeFacts DEF TypeOK
<1>2. /\ Tail(shift_reg) \in Seq(Pairs) /\ Len(Tail(shift_reg)) = Size - 1
      /\ \A i \in 1 .. Size - 1 : Tail(shift_reg)[i] = shift_reg[i + 1]
  BY <1>1, SizeFacts
<1>3. QED
  BY <1>2, SizeFacts DEF Shifted

-----------------------------------------------------------------------------
\* The invariant holds at the start.
LEMMA Initially == Init => LvdsInv
<1> SUFFICES ASSUME Init
             PROVE  LvdsInv
  OBVIOUS
<1> USE DEF Init
<1>1. TypeOK
  <2>1. shift_reg \in Seq(Pairs) /\ Len(shift_reg) = Size
    BY ZerosFacts
  <2>2. /\ bit_cnt \in 0 .. Size - 1 /\ phase \in 0 .. Size - 1
        /\ slips \in 0 .. MaxSlips
    BY SizeFacts, LvdsRxAssumption
  <2>3. /\ state \in {"HUNT", "SYNCED"} /\ kind \in {"data", "zero"}
        /\ word_valid \in BOOLEAN /\ sync_ok \in BOOLEAN /\ gap \in BOOLEAN
    OBVIOUS
  <2>4. QED
    BY ONLY <2>1, <2>2, <2>3 DEF TypeOK
<1>2. \A i \in 1 .. Size : shift_reg[i] = "00"
  BY ZerosFacts
<1>3. WordInv
  BY <1>2, SizeFacts DEF WordInv
<1>4. LockInv
  BY <1>2, SizeFacts DEF LockInv
<1>5. QED
  BY <1>1, <1>3, <1>4 DEF LvdsInv, RealWords

\* What a clock does to the receiver and to the word on the wire.
ClockOf(k, pair) ==
  /\ k \in {"zero", "data"} /\ pair \in Pairs
  /\ phase # 0 => k = kind
  /\ k = "zero" => pair = "00"
  /\ k = "data" /\ phase = 0 => pair = "10"
  /\ k = "data" /\ phase = Half => pair = "01"
  /\ Receive(pair)
  /\ kind' = k
  /\ phase' = (phase + 1) % Size
  /\ gap' = (gap \/ (k = "zero" /\ shift_reg' = Zeros))
  /\ UNCHANGED slips

LEMMA ClockParts ==
  ASSUME TypeOK, Clock
  PROVE  \E k, pair : ClockOf(k, pair)
<1>1. PICK k \in IF phase = 0 THEN {"zero", "data"} ELSE {kind} :
      \E pair \in Sendable(k) :
        /\ Receive(pair)
        /\ kind' = k
        /\ phase' = (phase + 1) % Size
        /\ gap' = (gap \/ (k = "zero" /\ shift_reg' = Zeros))
        /\ UNCHANGED slips
  BY DEF Clock
<1>2. PICK pair \in Sendable(k) :
      /\ Receive(pair)
      /\ kind' = k
      /\ phase' = (phase + 1) % Size
      /\ gap' = (gap \/ (k = "zero" /\ shift_reg' = Zeros))
      /\ UNCHANGED slips
  BY <1>1
<1>3. k \in {"zero", "data"} /\ (phase # 0 => k = kind)
  BY DEF TypeOK
<1>4. pair \in Pairs /\ (k = "zero" => pair = "00")
  BY <1>3 DEF Sendable, Pairs
<1>5. k = "data" /\ phase = 0 => pair = "10"
  BY SizeFacts DEF Sendable
<1>6. k = "data" /\ phase = Half => pair = "01"
  BY SizeFacts DEF Sendable
<1>7. ClockOf(k, pair)
  BY <1>2, <1>3, <1>4, <1>5, <1>6 DEF ClockOf
<1>8. QED
  BY <1>7

\* The next place in the word.
LEMMA NextPhase ==
  ASSUME TypeOK, NEW k, NEW pair, ClockOf(k, pair)
  PROVE  /\ phase' \in 0 .. Size - 1
         /\ phase = Size - 1 => phase' = 0
         /\ phase # Size - 1 => phase' = phase + 1
<1>1. phase \in 0 .. Size - 1 /\ Size \in Nat /\ Size >= 2
  BY SizeFacts DEF TypeOK
<1>2. phase' = (phase + 1) % Size
  BY DEF ClockOf
<1>3. CASE phase = Size - 1
  BY <1>1, <1>2, <1>3, (phase + 1) % Size = 0
<1>4. CASE phase # Size - 1
  <2>1. (phase + 1) % Size = phase + 1
    BY <1>1, <1>4
  <2>2. QED
    BY <1>1, <1>2, <1>4, <2>1
<1>5. QED
  BY <1>3, <1>4

\* Every clock keeps the types.
LEMMA TypeClock ==
  ASSUME TypeOK, NEW k, NEW pair, ClockOf(k, pair)
  PROVE  TypeOK'
<1>1. phase' \in 0 .. Size - 1
  BY NextPhase
<1>2. shift_reg' \in Seq(Pairs) /\ Len(shift_reg') = Size
  BY ShiftedFacts DEF ClockOf, Receive
<1>3. state' \in {"HUNT", "SYNCED"} /\ bit_cnt' \in 0 .. Size - 1
  <2>1. state \in {"HUNT", "SYNCED"} /\ bit_cnt \in 0 .. Size - 1
    BY DEF TypeOK
  <2>2. CASE Hunt(shift_reg')
    BY <2>1, <2>2, SizeFacts DEF Hunt
  <2>3. CASE Count
    BY <2>1, <2>3, SizeFacts DEF Count, LastPair
  <2>4. CASE EndOfWord(shift_reg')
    BY <2>4, SizeFacts DEF EndOfWord
  <2>5. QED
    BY <2>2, <2>3, <2>4 DEF ClockOf, Receive
<1>4. word_valid' \in BOOLEAN /\ sync_ok' \in BOOLEAN
  <2>1. sync_ok \in BOOLEAN
    BY DEF TypeOK
  <2>2. QED
    BY <2>1, Zenon DEF ClockOf, Receive, Hunt, Count, EndOfWord
<1>5. kind' \in {"data", "zero"} /\ slips' \in 0 .. MaxSlips /\ gap' \in BOOLEAN
  BY DEF ClockOf, TypeOK
<1>6. QED
  BY <1>1, <1>2, <1>3, <1>4, <1>5 DEF TypeOK

\* Every clock puts the next pair of the word behind those before it.
LEMMA WordClock ==
  ASSUME LvdsInv, NEW k, NEW pair, ClockOf(k, pair)
  PROVE  /\ gap' => /\ k = "zero" =>
                         \A i \in Size - phase .. Size : shift_reg'[i] = "00"
                    /\ k = "data" => shift_reg'[Size - phase] = "10"
                    /\ k = "data" /\ phase >= Half =>
                         shift_reg'[Size - phase + Half] = "01"
<1>1. TypeOK /\ WordInv
  BY DEF LvdsInv
<1>2. phase \in 0 .. Size - 1
  BY <1>1 DEF TypeOK
<1>3. /\ pair \in Pairs /\ shift_reg' = Shifted(pair)
      /\ gap' => gap \/ (k = "zero" /\ shift_reg' = Zeros)
  BY DEF ClockOf, Receive
<1>4. /\ \A i \in 1 .. Size - 1 : shift_reg'[i] = shift_reg[i + 1]
      /\ shift_reg'[Size] = pair
  BY <1>1, <1>3, ShiftedFacts
<1>5. CASE ~gap
  BY <1>2, <1>3, <1>5, ZerosFacts, SizeFacts
<1>6. CASE gap /\ k = "zero"
  <2>1. pair = "00" /\ (phase > 0 => kind = "zero")
    BY <1>2, <1>6 DEF ClockOf
  <2>2. \A i \in Size - phase + 1 .. Size : shift_reg[i] = "00"
    BY <1>1, <1>2, <1>6, <2>1, SizeFacts DEF WordInv
  <2>3. \A i \in Size - phase .. Size : shift_reg'[i] = "00"
    BY <1>2, <1>4, <2>1, <2>2, SizeFacts
  <2>4. QED
    BY <1>6, <2>3
<1>7. CASE gap /\ k = "data"
  <2>1. shift_reg'[Size - phase] = "10"
    <3>1. CASE phase = 0
      BY <1>4, <1>7, <3>1, SizeFacts DEF ClockOf
    <3>2. CASE phase > 0
      <4>1. kind = "data"
        BY <1>2, <1>7, <3>2 DEF ClockOf
      <4>2. shift_reg[Size - phase + 1] = "10"
        BY <1>1, <1>7, <3>2, <4>1 DEF WordInv
      <4>3. QED
        BY <1>2, <1>4, <3>2, <4>2, SizeFacts
    <3>3. QED
      BY <1>2, <3>1, <3>2
  <2>2. ASSUME phase >= Half
        PROVE  shift_reg'[Size - phase + Half] = "01"
    <3>1. CASE phase = Half
      <4>1. pair = "01" /\ Size - phase + Half = Size
        BY <1>7, <3>1, SizeFacts DEF ClockOf
      <4>2. QED
        BY <1>4, <4>1
    <3>2. CASE phase > Half
      <4>1. kind = "data"
        BY <1>2, <1>7, <3>2, SizeFacts DEF ClockOf
      <4>2. shift_reg[Size - phase + 1 + Half] = "01"
        BY <1>1, <1>7, <3>2, <4>1 DEF WordInv
      <4>3. QED
        BY <1>2, <1>4, <3>2, <4>2, SizeFacts
    <3>3. QED
      BY <1>2, <2>2, <3>1, <3>2, SizeFacts
  <2>3. QED
    BY <1>7, <2>1, <2>2
<1>8. QED
  BY <1>5, <1>6, <1>7 DEF ClockOf

\* The end of a word the receiver counts with the transceiver.
LEMMA WholeWord ==
  ASSUME LvdsInv, NEW k, NEW pair, ClockOf(k, pair), gap', phase = Size - 1
  PROVE  /\ k = "zero" => shift_reg' = Zeros
         /\ k = "data" => /\ IsIqWord(shift_reg')
                         /\ ~IsZeroWord(shift_reg')
<1>1. shift_reg' \in Seq(Pairs) /\ Len(shift_reg') = Size
  BY TypeClock DEF LvdsInv, TypeOK
<1>2. CASE k = "zero"
  <2>1. \A i \in 1 .. Size : shift_reg'[i] = "00"
    BY <1>2, WordClock, SizeFacts
  <2>2. shift_reg' = Zeros
    BY <1>1, <2>1, AllZeros
  <2>3. QED
    BY <1>2, <2>2
<1>3. CASE k = "data"
  <2>1. shift_reg'[Size - phase] = "10" /\ Size - phase = 1
    BY <1>3, WordClock, SizeFacts
  <2>2. shift_reg'[Size - phase + Half] = "01" /\ Size - phase + Half = Half + 1
    BY <1>3, WordClock, SizeFacts
  <2>3. shift_reg'[1] = "10" /\ shift_reg'[Half + 1] = "01"
    BY <2>1, <2>2
  <2>4. shift_reg' # Zeros
    BY <2>3, ZerosFacts, SizeFacts
  <2>5. QED
    BY <1>3, <2>3, <2>4 DEF IsIqWord, IsZeroWord
<1>4. QED
  BY <1>2, <1>3 DEF ClockOf

\* A receiver that counts with the transceiver goes on so, and gives out the
\* I/Q word that ends.
LEMMA AlignedClock ==
  ASSUME LvdsInv, NEW k, NEW pair, ClockOf(k, pair), gap', Aligned
  PROVE  /\ Aligned'
         /\ word_valid' <=> phase = Size - 1 /\ k = "data"
<1>1. state = "SYNCED" /\ bit_cnt = phase
  BY DEF Aligned
<1>2. CASE phase # Size - 1
  <2>1. Count
    BY <1>1, <1>2 DEF ClockOf, Receive, Hunt, EndOfWord, LastPair
  <2>2. QED
    BY <1>1, <1>2, <2>1, NextPhase DEF Count, LastPair, Aligned, LvdsInv
<1>3. CASE phase = Size - 1
  <2>1. EndOfWord(shift_reg')
    BY <1>1, <1>3 DEF ClockOf, Receive, Hunt, Count, LastPair
  <2>2. phase' = 0
    BY <1>3, NextPhase DEF LvdsInv
  <2>3. CASE k = "zero"
    <3>1. IsZeroWord(shift_reg')
      BY <1>3, <2>3, WholeWord DEF IsZeroWord
    <3>2. QED
      BY <2>1, <2>2, <2>3, <3>1 DEF EndOfWord, FramingFault, Aligned
  <2>4. CASE k = "data"
    <3>1. IsIqWord(shift_reg') /\ ~IsZeroWord(shift_reg')
      BY <1>3, <2>4, WholeWord
    <3>2. QED
      BY <1>3, <2>1, <2>2, <2>4, <3>1 DEF EndOfWord, FramingFault, Aligned
  <2>5. QED
    BY <2>3, <2>4 DEF ClockOf
<1>4. QED
  BY <1>2, <1>3

\* A receiver that counts otherwise still has zeros before the word on the wire
\* after the clock, or counts with the transceiver.
LEMMA UnalignedClock ==
  ASSUME LvdsInv, NEW k, NEW pair, ClockOf(k, pair), gap, gap', ~Aligned
  PROVE  /\ phase # Size - 1 =>
              /\ \A i \in 1 .. Size - phase' : shift_reg'[i] = "00"
              /\ k = "data" => (state' = "SYNCED" => bit_cnt' > phase')
         /\ phase = Size - 1 /\ k = "data" => Aligned'
<1>1. TypeOK /\ LockInv
  BY DEF LvdsInv
<1>2. /\ phase \in 0 .. Size - 1 /\ bit_cnt \in 0 .. Size - 1
      /\ state \in {"HUNT", "SYNCED"} /\ kind \in {"data", "zero"}
  BY <1>1 DEF TypeOK
<1>3. /\ \A i \in 1 .. Size - phase : shift_reg[i] = "00"
      /\ kind = "data" => phase > 0 /\ (state = "SYNCED" => bit_cnt > phase)
  BY <1>1 DEF LockInv
<1>4. \A i \in 1 .. Size - 1 : shift_reg'[i] = shift_reg[i + 1]
  BY <1>1, ShiftedFacts DEF ClockOf, Receive
<1>5. k = "data" => shift_reg'[Size - phase] = "10"
  BY WordClock
<1>6. k = "data" /\ state = "SYNCED" => bit_cnt > phase
  <2>1. phase # 0 => k = kind
    BY DEF ClockOf
  <2>2. state = "SYNCED" => bit_cnt # phase
    BY DEF Aligned
  <2>3. QED
    BY <1>2, <1>3, <2>1, <2>2, SizeFacts
<1>7. CASE phase # Size - 1
  <2>1. phase' = phase + 1
    BY <1>1, <1>7, NextPhase
  <2>2. \A i \in 1 .. Size - phase' : shift_reg'[i] = "00"
    BY <1>2, <1>3, <1>4, <2>1, SizeFacts
  <2>3. shift_reg'[1] = "00"
    BY <1>2, <1>7, <2>1, <2>2, SizeFacts
  <2>4. ASSUME k = "data", state' = "SYNCED"
        PROVE  bit_cnt' > phase'
    <3>1. CASE Hunt(shift_reg')
      BY <2>3, <2>4, <3>1 DEF Hunt
    <3>2. CASE Count
      BY <1>2, <1>6, <2>1, <2>4, <3>2, SizeFacts DEF Count
    <3>3. CASE EndOfWord(shift_reg')
      <4>1. shift_reg' # Zeros
        BY <1>2, <1>5, <2>4, ZerosFacts, SizeFacts
      <4>2. FramingFault(shift_reg')
        BY <2>3, <4>1 DEF FramingFault, IsZeroWord, IsIqWord
      <4>3. QED
        BY <2>4, <3>3, <4>2 DEF EndOfWord
    <3>4. QED
      BY <3>1, <3>2, <3>3 DEF ClockOf, Receive
  <2>5. QED
    BY <1>7, <2>2, <2>4
<1>8. CASE phase = Size - 1 /\ k = "data"
  <2>1. state = "HUNT"
    BY <1>2, <1>6, <1>8, SizeFacts
  <2>2. Hunt(shift_reg')
    BY <2>1 DEF ClockOf, Receive, Count, EndOfWord
  <2>3. shift_reg'[1] = "10"
    BY <1>5, <1>8, SizeFacts
  <2>4. phase' = 0
    BY <1>1, <1>8, NextPhase
  <2>5. QED
    BY <1>8, <2>2, <2>3, <2>4 DEF Hunt, Aligned
<1>9. QED
  BY <1>7, <1>8

\* A part of a word.
LEMMA ShorterRange ==
  \A p \in 0 .. Size - 1 : \A i \in 1 .. Size - p : i \in 1 .. Size
  BY SizeFacts

\* Every clock keeps the invariant.
LEMMA InvClock ==
  ASSUME LvdsInv, NEW k, NEW pair, ClockOf(k, pair)
  PROVE  LvdsInv'
<1>1. TypeOK /\ TypeOK'
  BY TypeClock DEF LvdsInv
<1>2. phase \in 0 .. Size - 1
  BY <1>1 DEF TypeOK
<1>3. kind' = k /\ k \in {"zero", "data"}
  BY DEF ClockOf
<1>4. ~gap /\ gap' => k = "zero" /\ shift_reg' = Zeros
  BY DEF ClockOf
<1>5. WordInv'
  <2>1. CASE phase = Size - 1
    BY <1>1, <1>3, <2>1, NextPhase, SizeFacts DEF WordInv
  <2>2. CASE phase # Size - 1
    <3>1. phase' = phase + 1
      BY <1>1, <2>2, NextPhase
    <3>2. gap' => (k = "zero" =>
            \A i \in Size - phase' + 1 .. Size : shift_reg'[i] = "00")
      BY <1>2, <3>1, WordClock, SizeFacts
    <3>3. gap' /\ k = "data" => shift_reg'[Size - phase' + 1] = "10"
      BY <1>2, <3>1, WordClock, SizeFacts
    <3>4. gap' /\ k = "data" /\ phase' > Half =>
            shift_reg'[Size - phase' + 1 + Half] = "01"
      <4>1. SUFFICES ASSUME gap', k = "data", phase' > Half
                     PROVE  shift_reg'[Size - phase' + 1 + Half] = "01"
        OBVIOUS
      <4>2. shift_reg'[Size - phase + Half] = "01"
        BY <1>2, <3>1, <4>1, WordClock, SizeFacts
      <4>3. Size - phase + Half = Size - phase' + 1 + Half
        BY <1>2, <3>1, SizeFacts
      <4>4. QED
        BY <4>2, <4>3
    <3>5. QED
      BY <1>3, <3>2, <3>3, <3>4 DEF WordInv
  <2>3. QED
    BY <2>1, <2>2
<1>6. LockInv'
  <2>1. SUFFICES ASSUME gap', ~Aligned'
                 PROVE  /\ \A i \in 1 .. Size - phase' : shift_reg'[i] = "00"
                        /\ k = "data" =>
                             phase' > 0 /\ (state' = "SYNCED" => bit_cnt' > phase')
    BY <1>3 DEF LockInv
  <2>2. phase' \in 0 .. Size - 1
    BY <1>1, NextPhase
  <2>3. ASSUME k = "zero", shift_reg' = Zeros
        PROVE  /\ \A i \in 1 .. Size - phase' : shift_reg'[i] = "00"
               /\ k # "data"
    <3>1. \A i \in 1 .. Size - phase' : i \in 1 .. Size
      BY <2>2, ShorterRange
    <3>2. QED
      BY <2>3, <3>1, ZerosFacts
  <2>4. CASE ~gap
    BY <1>4, <2>1, <2>3, <2>4
  <2>5. CASE gap
    <3>1. ~Aligned
      BY <2>1, AlignedClock
    <3>2. CASE phase # Size - 1
      BY <1>1, <1>2, <2>1, <2>5, <3>1, <3>2, UnalignedClock, NextPhase, SizeFacts
    <3>3. CASE phase = Size - 1
      <4>1. k = "zero"
        BY <1>3, <2>1, <2>5, <3>1, <3>3, UnalignedClock
      <4>2. shift_reg' = Zeros
        BY <2>1, <3>3, <4>1, WholeWord
      <4>3. QED
        BY <2>3, <4>1, <4>2
    <3>4. QED
      BY <3>2, <3>3
  <2>6. QED
    BY <2>4, <2>5
<1>7. RealWords'
  <2>1. SUFFICES ASSUME gap', word_valid', phase # Size - 1
                 PROVE  FALSE
    BY <1>1, NextPhase DEF RealWords
  <2>2. IsIqWord(shift_reg') /\ ~IsZeroWord(shift_reg')
    BY <2>1, Zenon DEF ClockOf, Receive, Hunt, Count, EndOfWord
  <2>3. gap
    BY <1>4, <2>1, <2>2 DEF IsZeroWord
  <2>4. ~Aligned
    BY <2>1, AlignedClock
  <2>5. phase' = phase + 1 /\ \A i \in 1 .. Size - phase' : shift_reg'[i] = "00"
    BY <1>1, <2>1, <2>3, <2>4, UnalignedClock, NextPhase
  <2>6. QED
    BY <1>2, <2>1, <2>2, <2>5, SizeFacts DEF IsIqWord
<1>8. QED
  BY <1>1, <1>5, <1>6, <1>7 DEF LvdsInv

\* Every step keeps the invariant: a slip begins a time without a silence.
LEMMA InvStep == LvdsInv /\ [Next]_vars => LvdsInv'
<1> SUFFICES ASSUME LvdsInv, [Next]_vars
             PROVE  LvdsInv'
  OBVIOUS
<1>1. CASE Clock
  <2>1. PICK k, pair : ClockOf(k, pair)
    BY <1>1, ClockParts DEF LvdsInv
  <2>2. QED
    BY <2>1, InvClock
<1>2. CASE Slip
  <2>1. ~gap' /\ UNCHANGED <<rxVars, kind>>
    BY <1>2 DEF Slip
  <2>2. slips \in 0 .. MaxSlips
    BY DEF LvdsInv, TypeOK
  <2>3. phase' \in 0 .. Size - 1 /\ slips' \in 0 .. MaxSlips /\ gap' \in BOOLEAN
    <3>1. phase' \in 0 .. Size - 1 /\ gap' \in BOOLEAN
      BY <1>2 DEF Slip
    <3>2. slips' \in 0 .. MaxSlips
      BY <1>2, <2>2, LvdsRxAssumption DEF Slip
    <3>3. QED
      BY <3>1, <3>2
  <2>4. TypeOK'
    BY <2>1, <2>3 DEF LvdsInv, TypeOK, rxVars
  <2>5. QED
    BY <2>1, <2>4 DEF LvdsInv, WordInv, LockInv, RealWords
<1>3. CASE UNCHANGED vars
  BY <1>3 DEF vars, rxVars, txVars, LvdsInv, TypeOK, WordInv, LockInv, Aligned,
              RealWords
<1>4. QED
  BY <1>1, <1>2, <1>3 DEF Next

\* The receiver's invariant, which the theorems below rest on.
THEOREM ReceiverCorrect == Spec => []LvdsInv
<1>1. QED
  BY Initially, InvStep, PTL DEF Spec

\* The registers keep to their widths.
THEOREM TypesCorrect == Spec => []TypeOK
<1>1. LvdsInv => TypeOK
  BY DEF LvdsInv
<1>2. QED
  BY <1>1, ReceiverCorrect, PTL

\* After a silence of the transceiver what lvds_rx.sv gives out are words that
\* it sent, for words of every length: no payload is taken for a sync pattern.
THEOREM WordsReal == Spec => []RealWords
<1>1. LvdsInv => RealWords
  BY DEF LvdsInv
<1>2. QED
  BY <1>1, ReceiverCorrect, PTL

\* After such a silence the end of an I/Q word always finds the receiver locked
\* on it.
THEOREM LockFound == Spec => []Resynchronises
<1>1. LvdsInv => Resynchronises
  BY DEF LvdsInv, TypeOK, LockInv, Resynchronises, Aligned
<1>2. QED
  BY <1>1, ReceiverCorrect, PTL

\* From then on every I/Q word is given out.
THEOREM WordsGivenOut == Spec => EveryWord
<1> DEFINE A == gap /\ gap' /\ state = "SYNCED" /\ bit_cnt = phase
                 => /\ state' = "SYNCED"
                    /\ phase' = 0 /\ kind' = "data" => word_valid'
<1>1. LvdsInv /\ [Next]_vars => [A]_vars
  <2> SUFFICES ASSUME LvdsInv, Next, gap, gap', state = "SYNCED", bit_cnt = phase
               PROVE  /\ state' = "SYNCED"
                      /\ phase' = 0 /\ kind' = "data" => word_valid'
    OBVIOUS
  <2>1. Clock
    BY DEF Next, Slip
  <2>2. PICK k, pair : ClockOf(k, pair)
    BY <2>1, ClockParts DEF LvdsInv
  <2>3. Aligned' /\ (word_valid' <=> phase = Size - 1 /\ k = "data")
    BY <2>2, AlignedClock DEF Aligned
  <2>4. phase' = 0 => phase = Size - 1
    BY <2>2, NextPhase, SizeFacts DEF LvdsInv, TypeOK
  <2>5. kind' = k
    BY <2>2 DEF ClockOf
  <2>6. QED
    BY <2>3, <2>4, <2>5 DEF Aligned
<1>2. QED
  BY <1>1, ReceiverCorrect, PTL DEF Spec, EveryWord
=============================================================================
