-------------------------- MODULE StreamPath_proofs --------------------------
(***************************************************************************)
(* Theorems about StreamPath, for every depth of the FIFO and every number *)
(* of words: it is the stream source of IqSource, and from there to the    *)
(* engine one bounded queue of which the engine takes whole beats.         *)
(***************************************************************************)
EXTENDS StreamPath, SequenceTheorems, TLAPS

-----------------------------------------------------------------------------
(***************************************************************************)
(* The stream source on its own, for every depth of the FIFO and every     *)
(* distance of the words.                                                  *)
(***************************************************************************)
\* The places of a word in a sequence: Times(w) is At(taken, w).
At(s, w) == {i \in 1 .. Len(s) : s[i] = w}

\* What the stream source knows of the word in data_reg: fresh, for one clock
\* after its capture; stalled, while tvalid and pending are up together; about
\* to cross, or crossed and about to cross again, when tvalid alone is up.
RegisterInv ==
  /\ pending /\ ~stream_tvalid => since = 1
  /\ pending => data_reg \in captured /\ At(taken, data_reg) = {}
  /\ pending /\ stream_tvalid => data_reg \in stalled
  /\ stream_tvalid => data_reg \in captured
  /\ ~pending /\ stream_tvalid =>
       \/ At(taken, data_reg) = {} /\ occupancy < Depth
       \/ At(taken, data_reg) = {Len(taken)} /\ data_reg \in stalled
  /\ stream_tstart => pending /\ ~stream_tvalid
  /\ data_reg = NoWord => ~pending /\ ~stream_tvalid

\* The words taken are captured ones, none later than data_reg.
OrderInv ==
  /\ \A i \in 1 .. Len(taken) : taken[i] \in captured /\ taken[i] <= data_reg
  /\ captured \subseteq 1 .. data_reg

SourceInv ==
  TypeOK /\ RegisterInv /\ OrderInv /\ CapturedWordsArrive

\* The indices of a word after a beat crossed, and after none did.
LEMMA TimesAppend ==
  ASSUME TypeOK, taken' = Append(taken, data_reg)
  PROVE  /\ Len(taken') = Len(taken) + 1 /\ Len(taken) \in Nat
         /\ taken'[Len(taken) + 1] = data_reg
         /\ \A i \in 1 .. Len(taken) : taken'[i] = taken[i]
         /\ \A w : At(taken', w) = IF w = data_reg THEN At(taken, w) \cup {Len(taken) + 1}
                               ELSE At(taken, w)
<1>1. taken \in Seq(captured) /\ Len(taken) \in Nat
  BY DEF TypeOK
<1>2. /\ Len(taken') = Len(taken) + 1
      /\ taken'[Len(taken) + 1] = data_reg
      /\ \A i \in 1 .. Len(taken) : taken'[i] = taken[i]
  BY <1>1
<1>3. 1 .. Len(taken') = 1 .. Len(taken) \cup {Len(taken) + 1}
  BY <1>1, <1>2
<1>4. \A w : At(taken', w) = IF w = data_reg THEN At(taken, w) \cup {Len(taken) + 1}
                         ELSE At(taken, w)
  BY <1>2, <1>3 DEF At
<1>5. QED
  BY <1>1, <1>2, <1>4

LEMMA SourceInitially == Init => SourceInv
<1> SUFFICES ASSUME Init
             PROVE  SourceInv
  OBVIOUS
<1>1. \A w : At(taken, w) = {}
  BY DEF Init, At
<1>2. TypeOK
  <2>1. taken \in Seq(captured)
    BY EmptySeq DEF Init
  <2>2. captured \subseteq 1 .. arrived /\ stalled \subseteq captured
    BY DEF Init
  <2>3. WordClocks \in 1 .. WordClocks /\ 0 \in 0 .. Depth /\ 0 \in 0 .. MaxWords
    BY IqSourceAssumption
  <2>4. data_reg \in 0 .. arrived
    BY DEF Init, NoWord
  <2>5. QED
    BY <2>1, <2>2, <2>3, <2>4 DEF Init, TypeOK
<1>3. RegisterInv /\ OrderInv
  BY <1>1 DEF Init, RegisterInv, OrderInv, NoWord
<1>4. CapturedWordsArrive
  BY <1>1 DEF Init, CapturedWordsArrive, Times, At
<1>5. QED
  BY <1>2, <1>3, <1>4 DEF SourceInv

\* An edge of the source's clock.
LEMMA ClockStep ==
  ASSUME SourceInv, NEW word_valid \in BOOLEAN, word_valid => arrived < MaxWords,
         Clock(word_valid)
  PROVE  SourceInv'
<1> USE IqSourceAssumption
<1> DEFINE capture == ~pending /\ word_valid
           released == pending /\ occupancy < Depth
           cross == stream_tvalid /\ occupancy < Depth
<1>1. /\ pending' = (capture \/ (pending /\ ~released))
      /\ stream_tvalid' = pending
      /\ stream_tstart' = capture
      /\ occupancy' = IF cross THEN occupancy + 1 ELSE occupancy
      /\ taken' = IF cross THEN Append(taken, data_reg) ELSE taken
      /\ data_reg' = IF capture THEN arrived + 1 ELSE data_reg
      /\ captured' = IF capture THEN captured \cup {arrived + 1} ELSE captured
      /\ arrived' = IF word_valid THEN arrived + 1 ELSE arrived
      /\ stalled' = IF pending /\ ~(occupancy < Depth)
                    THEN stalled \cup {data_reg} ELSE stalled
      /\ word_valid => since = WordClocks
      /\ since' = IF word_valid THEN 1
                  ELSE IF since < WordClocks THEN since + 1 ELSE since
  <2>1. TypeOK
    BY DEF SourceInv
  <2>2. Capture(word_valid) = capture
    BY DEF Capture
  <2>3. Transfer <=> cross
    BY DEF Transfer, stream_tready
  <2>4. Released = released
    BY DEF Released, stream_tready
  <2>5. occupancy' = IF cross THEN occupancy + 1 ELSE occupancy
    BY <2>1, <2>3 DEF Clock, Written, TypeOK
  <2>6. stream_tstart' = capture /\ pending' = (capture \/ (pending /\ ~released))
    BY <2>2, <2>4, Zenon DEF Clock
  <2>7. QED
    BY <2>1, <2>2, <2>3, <2>5, <2>6 DEF Clock, NextValid, stream_tready
<1> HIDE DEF capture, released, cross
<1>2. TypeOK /\ RegisterInv /\ OrderInv /\ CapturedWordsArrive
  BY DEF SourceInv
<1>3. TypeOK'
  <2>1. /\ pending' \in BOOLEAN /\ stream_tvalid' \in BOOLEAN
        /\ stream_tstart' \in BOOLEAN
    BY <1>1, <1>2 DEF TypeOK, capture
  <2>2. arrived' \in 0 .. MaxWords /\ data_reg' \in 0 .. arrived'
    BY <1>1, <1>2 DEF TypeOK, capture
  <2>3. occupancy' \in 0 .. Depth /\ since' \in 1 .. WordClocks
    BY <1>1, <1>2 DEF TypeOK, cross
  <2>4. captured' \subseteq 1 .. arrived'
    BY <1>1, <1>2 DEF TypeOK, capture
  <2>5. captured \subseteq captured' /\ stalled' \subseteq captured'
    BY <1>1, <1>2 DEF TypeOK, RegisterInv
  <2>6. taken' \in Seq(captured')
    <3>1. taken \in Seq(captured')
      BY <1>2, <2>5, SeqMonotonic DEF TypeOK
    <3>2. cross => data_reg \in captured'
      BY <1>2, <2>5 DEF RegisterInv, cross
    <3>3. QED
      BY <1>1, <3>1, <3>2, AppendProperties
  <2>7. QED
    BY <2>1, <2>2, <2>3, <2>4, <2>5, <2>6 DEF TypeOK
<1>4. \A w : At(taken', w) = IF cross /\ w = data_reg
                         THEN At(taken, w) \cup {Len(taken) + 1} ELSE At(taken, w)
  <2>1. CASE cross
    BY <1>1, <1>2, <2>1, TimesAppend
  <2>2. CASE ~cross
    BY <1>1, <2>2 DEF At
  <2>3. QED
    BY <2>1, <2>2
<1>5. /\ Len(taken) \in Nat
      /\ Len(taken') = IF cross THEN Len(taken) + 1 ELSE Len(taken)
      /\ \A w : At(taken, w) \subseteq 1 .. Len(taken)
  BY <1>1, <1>2, TimesAppend DEF TypeOK, At
<1>6. capture => At(taken, arrived + 1) = {}
  BY <1>2 DEF OrderInv, At, TypeOK
<1>12. data_reg \in 0 .. arrived /\ arrived \in Nat
  BY <1>2 DEF TypeOK
<1>7. RegisterInv'
  <2>1. pending' /\ ~stream_tvalid' => since' = 1
    BY <1>1, <1>2 DEF capture
  <2>2. pending' => data_reg' \in captured' /\ At(taken', data_reg') = {}
    <3>1. CASE capture
      <4>1. data_reg' = arrived + 1 /\ data_reg' \in captured'
        BY <1>1, <3>1
      <4>2. At(taken', arrived + 1) = At(taken, arrived + 1)
        BY <1>4, <1>12
      <4>3. QED
        BY <1>6, <3>1, <4>1, <4>2
    <3>2. CASE ~capture /\ pending'
      BY <1>1, <1>2, <1>4, <3>2 DEF RegisterInv, released, cross
    <3>3. QED
      BY <3>1, <3>2
  <2>3. pending' /\ stream_tvalid' => data_reg' \in stalled'
    BY <1>1 DEF capture, released
  <2>4. stream_tvalid' => data_reg' \in captured'
    BY <1>1, <1>2 DEF RegisterInv, capture
  <2>5. ASSUME ~pending', stream_tvalid'
        PROVE  \/ At(taken', data_reg') = {} /\ occupancy' < Depth
               \/ At(taken', data_reg') = {Len(taken')} /\ data_reg' \in stalled'
    <3>1. pending /\ occupancy < Depth /\ ~capture /\ data_reg' = data_reg
      BY <1>1, <2>5 DEF released, capture
    <3>2. At(taken, data_reg) = {}
      BY <1>2, <3>1 DEF RegisterInv
    <3>3. CASE stream_tvalid
      <4>1. cross /\ data_reg \in stalled
        BY <1>2, <3>1, <3>3 DEF RegisterInv, cross
      <4>2. QED
        BY <1>1, <1>4, <1>5, <3>1, <3>2, <4>1
    <3>4. CASE ~stream_tvalid
      BY <1>1, <1>4, <3>1, <3>2, <3>4 DEF cross
    <3>5. QED
      BY <3>3, <3>4
  <2>6. stream_tstart' => pending' /\ ~stream_tvalid'
    BY <1>1 DEF capture
  <2>7. data_reg' = NoWord => ~pending' /\ ~stream_tvalid'
    <3>1. data_reg' = NoWord => ~capture /\ data_reg = NoWord
      BY <1>1, <1>12 DEF NoWord
    <3>2. data_reg = NoWord => ~pending /\ ~stream_tvalid
      BY <1>2 DEF RegisterInv
    <3>3. QED
      BY <1>1, <3>1, <3>2
  <2>8. QED
    BY <2>1, <2>2, <2>3, <2>4, <2>5, <2>6, <2>7 DEF RegisterInv
<1>8. OrderInv'
  <2>1. data_reg <= data_reg' /\ captured \subseteq captured'
    BY <1>1, <1>12
  <2>2. captured' \subseteq 1 .. data_reg'
    BY <1>1, <1>2, <1>12 DEF OrderInv
  <2>3. ASSUME NEW i \in 1 .. Len(taken)
        PROVE  taken'[i] \in captured' /\ taken'[i] <= data_reg'
    <3>1. taken'[i] = taken[i]
      BY <1>1, <1>2, TimesAppend
    <3>2. taken[i] \in captured /\ taken[i] <= data_reg
      BY <1>2 DEF OrderInv
    <3>6. captured \subseteq 1 .. data_reg
      BY <1>2 DEF OrderInv
    <3>7. taken[i] \in 1 .. data_reg
      BY <3>2, <3>6
    <3>5. taken[i] \in Nat
      BY <1>12, <3>7
    <3>3. data_reg \in Nat /\ data_reg' \in Nat
      BY <1>1, <1>12
    <3>4. QED
      BY <2>1, <3>1, <3>2, <3>3, <3>5
  <2>4. CASE cross
    <3>1. taken'[Len(taken) + 1] = data_reg
      BY <1>1, <1>2, <2>4, TimesAppend
    <3>2. data_reg \in captured
      BY <1>2, <2>4 DEF RegisterInv, cross
    <3>3. QED
      BY <1>5, <2>1, <2>2, <2>3, <2>4, <3>1, <3>2 DEF OrderInv
  <2>5. CASE ~cross
    BY <1>5, <2>2, <2>3, <2>5 DEF OrderInv
  <2>6. QED
    BY <2>4, <2>5
<1>9. CapturedWordsArrive'
  <2>1. ASSUME NEW w \in captured', At(taken', w) = {}
        PROVE  w = data_reg' /\ (pending' \/ stream_tvalid')
    <3>1. CASE capture /\ w = arrived + 1
      BY <1>1, <3>1
    <3>2. CASE ~(capture /\ w = arrived + 1)
      <4>1. w \in captured /\ At(taken, w) = {} /\ ~(cross /\ w = data_reg)
        BY <1>1, <1>4, <2>1, <3>2
      <4>2. w = data_reg /\ (pending \/ stream_tvalid)
        BY <1>2, <4>1 DEF CapturedWordsArrive, Times, At
      <4>3. pending
        BY <1>2, <1>5, <4>1, <4>2 DEF RegisterInv, cross
      <4>4. QED
        BY <1>1, <4>2, <4>3 DEF capture
    <3>3. QED
      BY <3>1, <3>2
  <2>2. ASSUME NEW i \in 1 .. Len(taken') - 1
        PROVE  taken'[i] <= taken'[i + 1]
    <3>1. CASE cross /\ i = Len(taken)
      BY <1>1, <1>2, <1>5, <3>1, TimesAppend DEF OrderInv
    <3>2. CASE ~(cross /\ i = Len(taken))
      <4>1. i \in 1 .. Len(taken) - 1
        BY <1>5, <3>2
      <4>2. taken'[i] = taken[i] /\ taken'[i + 1] = taken[i + 1]
        BY <1>1, <1>2, <1>5, <4>1, TimesAppend
      <4>3. QED
        BY <1>2, <4>1, <4>2 DEF CapturedWordsArrive, Times, At
    <3>3. QED
      BY <3>1, <3>2
  <2>3. QED
    BY <2>1, <2>2 DEF CapturedWordsArrive, Times, At
<1>10. QED
  BY <1>3, <1>7, <1>8, <1>9 DEF SourceInv

\* The write side learning of a word that left leaves the source alone.
LEMMA SourceStep == SourceInv /\ [Next]_vars => SourceInv'
<1> SUFFICES ASSUME SourceInv, [Next]_vars
             PROVE  SourceInv'
  OBVIOUS
<1>1. CASE Quiet
  BY <1>1, ClockStep DEF Quiet
<1>2. CASE Announce
  BY <1>2, ClockStep DEF Announce
<1>3. ASSUME srcVars' = srcVars, since' = since, histVars' = histVars,
             occupancy' = occupancy \/ (occupancy > 0 /\ occupancy' = occupancy - 1)
      PROVE  SourceInv'
  <2>1. /\ UNCHANGED <<pending, data_reg, stream_tvalid, stream_tstart, since,
                       arrived, captured, taken, stalled>>
        /\ \A w : At(taken', w) = At(taken, w)
    BY <1>3 DEF srcVars, histVars, At
  <2>2. occupancy \in 0 .. Depth /\ occupancy' \in 0 .. Depth
        /\ occupancy' <= occupancy
    BY <1>3, IqSourceAssumption DEF SourceInv, TypeOK
  <2>3. TypeOK' /\ OrderInv'
    BY <2>1, <2>2 DEF SourceInv, TypeOK, OrderInv
  <2>4. RegisterInv'
    BY <2>1, <2>2, IqSourceAssumption DEF SourceInv, RegisterInv
  <2>5. CapturedWordsArrive'
    BY <2>1 DEF SourceInv, CapturedWordsArrive, Times, At
  <2>6. QED
    BY <2>3, <2>4, <2>5 DEF SourceInv
<1>4. CASE Drain
  BY <1>3, <1>4 DEF Drain
<1>5. CASE UNCHANGED vars
  <2>1. srcVars' = srcVars /\ since' = since /\ histVars' = histVars
        /\ occupancy' = occupancy
    BY <1>5 DEF vars
  <2>2. QED
    BY <1>3, <2>1
<1>6. QED
  BY <1>1, <1>2, <1>4, <1>5 DEF Next

\* A word is dropped at the edge that announces it while another is pending; a
\* beat repeats the one before it when tvalid is up and pending is not.
LEMMA DamageStep == SourceInv /\ [Next]_vars => Damage
<1> SUFFICES ASSUME SourceInv, [Next]_vars
             PROVE  Damage
  OBVIOUS
<1>1. TypeOK /\ RegisterInv
  BY DEF SourceInv
<1>2. ASSUME NEW word_valid \in BOOLEAN, Clock(word_valid)
      PROVE  Damage
  <2>1. ASSUME Lost
        PROVE  StalledAt({})
    <3>1. word_valid /\ since = WordClocks /\ pending
      BY <1>2, <2>1 DEF Lost, Clock, Capture
    <3>2. stream_tvalid
      BY <1>1, <3>1, IqSourceAssumption DEF RegisterInv
    <3>3. QED
      BY <1>1, <3>1, <3>2 DEF RegisterInv, StalledAt, Times, At
  <2>2. ASSUME Repeated
        PROVE  taken'[Len(taken')] = data_reg /\ StalledAt({Len(taken)})
    <3>1. Transfer /\ taken' = Append(taken, data_reg)
      BY <1>2, <2>2 DEF Repeated, Clock
    <3>2. taken'[Len(taken')] = data_reg
      BY <1>1, <3>1, TimesAppend
    <3>3. stream_tvalid /\ At(taken, data_reg) # {}
      BY <2>2, <3>1, <3>2 DEF Repeated, Transfer, Times, At
    <3>4. At(taken, data_reg) = {Len(taken)} /\ data_reg \in stalled
      BY <1>1, <3>3 DEF RegisterInv
    <3>5. QED
      BY <3>2, <3>4 DEF StalledAt, Times, At
  <2>3. QED
    BY <2>1, <2>2 DEF Damage
<1>3. CASE Quiet
  BY <1>2, <1>3 DEF Quiet
<1>4. CASE Announce
  BY <1>2, <1>4 DEF Announce
<1>5. CASE Drain \/ UNCHANGED vars
  BY <1>5 DEF Drain, vars, histVars, Damage, Lost, Repeated
<1>6. QED
  BY <1>3, <1>4, <1>5 DEF Next

\* What StreamPath takes from here.
THEOREM SourceCorrect == Spec => []SourceInv
  BY SourceInitially, SourceStep, PTL DEF Spec

-----------------------------------------------------------------------------
(***************************************************************************)
(* The source, the FIFO and the width adapter.                             *)
(***************************************************************************)
Entries == [word : Nat, packet : {FALSE}]

WordsOf(q) == [i \in 1 .. Len(q) |-> q[i].word]

\* No entry carries end of packet; the write side counts the word in the
\* output register at most one short.
AdapterInv ==
  /\ dc_fifo \in Seq(Entries) /\ Len(dc_fifo) <= occupancy + 1
  /\ a = <<>> \/ \E e \in Entries : a = <<e>>
  /\ half = <<>> \/ \E w \in Nat : half = <<w>>
  /\ beat = <<>> \/ (beat \in Seq(Nat) /\ Len(beat) = 2)

PathInv == SourceInv /\ AdapterInv

-----------------------------------------------------------------------------
(***************************************************************************)
(* Sequences of entries and their words.                                   *)
(***************************************************************************)
LEMMA WordsOfSeq ==
  ASSUME NEW q \in Seq(Entries)
  PROVE  WordsOf(q) \in Seq(Nat) /\ Len(WordsOf(q)) = Len(q)
<1>1. Len(q) \in Nat /\ \A i \in 1 .. Len(q) : q[i] \in Entries
  BY ElementOfSeq
<1>2. \A i \in 1 .. Len(q) : q[i].word \in Nat
  BY <1>1 DEF Entries
<1>3. QED
  BY <1>1, <1>2 DEF WordsOf

LEMMA WordsOfAppend ==
  ASSUME NEW q \in Seq(Entries), NEW e \in Entries
  PROVE  WordsOf(Append(q, e)) = Append(WordsOf(q), e.word)
<1>1. /\ Append(q, e) \in Seq(Entries) /\ e.word \in Nat /\ Len(q) \in Nat
      /\ Len(Append(q, e)) = Len(q) + 1
  <2>1. e.word \in Nat
    BY DEF Entries
  <2>2. QED
    BY <2>1, AppendProperties
<1>2. /\ WordsOf(q) \in Seq(Nat) /\ Len(WordsOf(q)) = Len(q)
      /\ WordsOf(Append(q, e)) \in Seq(Nat)
      /\ Len(WordsOf(Append(q, e))) = Len(q) + 1
  BY <1>1, WordsOfSeq
<1>3. ASSUME NEW i \in 1 .. Len(q) + 1
      PROVE  WordsOf(Append(q, e))[i] = Append(WordsOf(q), e.word)[i]
  <2>1. WordsOf(Append(q, e))[i] = Append(q, e)[i].word
    BY <1>2 DEF WordsOf
  <2>2. CASE i = Len(q) + 1
    BY <1>1, <1>2, <2>1, <2>2
  <2>3. CASE i \in 1 .. Len(q)
    <3>1. Append(q, e)[i] = q[i] /\ Append(WordsOf(q), e.word)[i] = WordsOf(q)[i]
      BY <1>1, <1>2, <2>3
    <3>2. WordsOf(q)[i] = q[i].word
      BY <2>3 DEF WordsOf
    <3>3. QED
      BY <2>1, <3>1, <3>2
  <2>4. Len(q) \in Nat
    BY <1>1
  <2>5. i = Len(q) + 1 \/ i \in 1 .. Len(q)
    BY <2>4
  <2>6. QED
    BY <2>2, <2>3, <2>5
<1>4. Append(WordsOf(q), e.word) \in Seq(Nat)
      /\ Len(Append(WordsOf(q), e.word)) = Len(q) + 1
  BY <1>1, <1>2, AppendProperties
<1>5. QED
  BY <1>1, <1>2, <1>3, <1>4, SeqEqual

LEMMA WordsOfTail ==
  ASSUME NEW q \in Seq(Entries), q # <<>>
  PROVE  /\ Head(q) \in Entries /\ Tail(q) \in Seq(Entries)
         /\ Len(Tail(q)) = Len(q) - 1
         /\ WordsOf(q) = <<Head(q).word>> \o WordsOf(Tail(q))
<1>1. /\ Head(q) \in Entries /\ Tail(q) \in Seq(Entries)
      /\ Len(Tail(q)) = Len(q) - 1 /\ Len(q) \in Nat \ {0}
      /\ \A i \in 1 .. Len(Tail(q)) : Tail(q)[i] = q[i + 1]
      /\ Head(q) = q[1]
  BY HeadTailProperties, EmptySeq
<1>2. /\ WordsOf(q) \in Seq(Nat) /\ Len(WordsOf(q)) = Len(q)
      /\ WordsOf(Tail(q)) \in Seq(Nat) /\ Len(WordsOf(Tail(q))) = Len(q) - 1
  BY <1>1, WordsOfSeq
<1>3. <<Head(q).word>> \in Seq(Nat) /\ Len(<<Head(q).word>>) = 1
  BY <1>1 DEF Entries
<1>4. /\ <<Head(q).word>> \o WordsOf(Tail(q)) \in Seq(Nat)
      /\ Len(<<Head(q).word>> \o WordsOf(Tail(q))) = Len(q)
  <2>1. Len(q) \in Nat /\ 1 + (Len(q) - 1) = Len(q)
    BY <1>1
  <2>2. QED
    BY <1>2, <1>3, <2>1, ConcatProperties
<1>5. ASSUME NEW i \in 1 .. Len(q)
      PROVE  WordsOf(q)[i] = (<<Head(q).word>> \o WordsOf(Tail(q)))[i]
  <2>1. WordsOf(q)[i] = q[i].word
    BY DEF WordsOf
  <2>2. CASE i = 1
    <3>1. (<<Head(q).word>> \o WordsOf(Tail(q)))[1] = Head(q).word
      BY <1>1, <1>2, <1>3, ConcatProperties
    <3>2. QED
      BY <1>1, <2>1, <2>2, <3>1
  <2>3. CASE i > 1
    <3>1. (<<Head(q).word>> \o WordsOf(Tail(q)))[i] = WordsOf(Tail(q))[i - 1]
      BY <1>1, <1>2, <1>3, <2>3, ConcatProperties
    <3>2. i - 1 \in 1 .. Len(Tail(q))
      BY <1>1, <2>3
    <3>3. WordsOf(Tail(q))[i - 1] = Tail(q)[i - 1].word
      BY <3>2 DEF WordsOf
    <3>4. Tail(q)[i - 1] = q[i]
      BY <1>1, <3>2
    <3>5. QED
      BY <2>1, <3>1, <3>3, <3>4
  <2>4. Len(q) \in Nat
    BY <1>1
  <2>5. i = 1 \/ i > 1
    BY <2>4
  <2>6. QED
    BY <2>2, <2>3, <2>5
<1>6. QED
  BY <1>1, <1>2, <1>4, <1>5, SeqEqual

\* What is left of a queue when a beat was taken from its front.
LEMMA BeatTaken ==
  ASSUME NEW b \in Seq(Nat), Len(b) = 2, NEW s \in Seq(Nat)
  PROVE  /\ Len(b \o s) = Len(s) + 2
         /\ SubSeq(b \o s, 3, Len(b \o s)) = s
<1>1. /\ b \o s \in Seq(Nat) /\ Len(b \o s) = Len(s) + 2 /\ Len(s) \in Nat
      /\ \A i \in 1 .. Len(s) : (b \o s)[i + 2] = s[i]
  <2>1. Len(s) \in Nat /\ Len(b) + Len(s) = Len(s) + 2
    OBVIOUS
  <2>2. /\ b \o s \in Seq(Nat) /\ Len(b \o s) = Len(b) + Len(s)
        /\ \A i \in 1 .. Len(b) + Len(s) :
             (b \o s)[i] = IF i <= Len(b) THEN b[i] ELSE s[i - Len(b)]
    BY ConcatProperties
  <2>3. ASSUME NEW i \in 1 .. Len(s)
        PROVE  (b \o s)[i + 2] = s[i]
    <3>1. i + 2 \in 1 .. Len(b) + Len(s) /\ ~(i + 2 <= Len(b))
          /\ (i + 2) - Len(b) = i
      BY <2>1
    <3>2. QED
      BY <2>2, <3>1
  <2>4. QED
    BY <2>1, <2>2, <2>3
<1>2. \A i \in 3 .. Len(b \o s) : (b \o s)[i] \in Nat
  BY <1>1, ElementOfSeq
<1>3. /\ SubSeq(b \o s, 3, Len(b \o s)) \in Seq(Nat)
      /\ Len(SubSeq(b \o s, 3, Len(b \o s))) = Len(s)
      /\ \A i \in 1 .. Len(s) : SubSeq(b \o s, 3, Len(b \o s))[i] = (b \o s)[i + 2]
  BY <1>1, <1>2, SubSeqProperties
<1>4. QED
  BY <1>1, <1>3, SeqEqual

-----------------------------------------------------------------------------
(***************************************************************************)
(* The invariant and the refinement.                                       *)
(***************************************************************************)
LEMMA PathInitially == PathInit => PathInv /\ OnTheWay = <<>>
<1> SUFFICES ASSUME PathInit
             PROVE  PathInv /\ OnTheWay = <<>>
  OBVIOUS
<1>1. SourceInv
  BY SourceInitially DEF PathInit
<1>2. a = <<>> /\ half = <<>> /\ beat = <<>> /\ dc_fifo = <<>> /\ occupancy = 0
  BY DEF PathInit, AdapterInit, Init
<1>3. AdapterInv
  BY <1>2, EmptySeq DEF AdapterInv
<1>4. OnTheWay = <<>>
  BY <1>2 DEF OnTheWay, AdapterWords, Word
<1>5. QED
  BY <1>1, <1>3, <1>4 DEF PathInv

\* Every step of the path is a step of the source or leaves it alone.
LEMMA PathStepsSource == [PathNext]_pathVars => [Next]_vars
  BY DEF PathNext, pathVars, QuietEdge, AnnounceEdge, SourceEdge, DrainEdge,
         OutEdge, AdapterEdge, Next, Quiet, Announce

\* The words waiting for the output register, and those behind the beat in it.
Inner == half \o Word
Behind == Inner \o WordsOf(dc_fifo)

\* How sequences of words are put together does not matter.
LEMMA NatConcat ==
  ASSUME NEW s \in Seq(Nat), NEW t \in Seq(Nat), NEW u \in Seq(Nat)
  PROVE  (s \o t) \o u = s \o (t \o u)
  BY ConcatAssociative

\* The words in adapter and FIFO are sequences of numbers.
LEMMA PathSequences ==
  ASSUME AdapterInv
  PROVE  /\ beat \in Seq(Nat) /\ half \in Seq(Nat) /\ Word \in Seq(Nat)
         /\ Len(beat) \in {0, 2} /\ Len(half) <= 1 /\ Len(Word) <= 1
         /\ WordsOf(dc_fifo) \in Seq(Nat)
         /\ Inner \in Seq(Nat) /\ Behind \in Seq(Nat)
         /\ OnTheWay = beat \o Behind /\ OnTheWay \in Seq(Nat)
         /\ Len(Behind) = (Len(half) + Len(Word)) + Len(dc_fifo)
         /\ Len(OnTheWay) = Len(beat) + Len(Behind)
<1>1. beat \in Seq(Nat) /\ Len(beat) \in {0, 2}
  <2>1. CASE beat = <<>>
    BY <2>1
  <2>2. CASE beat # <<>>
    BY <2>2 DEF AdapterInv
  <2>3. QED
    BY <2>1, <2>2
<1>2. half \in Seq(Nat) /\ Len(half) <= 1
  <2>1. CASE half = <<>>
    BY <2>1
  <2>2. CASE half # <<>>
    <3>1. PICK w \in Nat : half = <<w>>
      BY <2>2 DEF AdapterInv
    <3>2. QED
      BY <3>1
  <2>3. QED
    BY <2>1, <2>2
<1>3. Word \in Seq(Nat) /\ Len(Word) <= 1
  <2>1. CASE a = <<>>
    BY <2>1 DEF Word
  <2>2. CASE a # <<>>
    <3>1. PICK e \in Entries : a = <<e>>
      BY <2>2 DEF AdapterInv
    <3>2. Word = <<e.word>> /\ e.word \in Nat
      BY <2>2, <3>1 DEF Word, Entries
    <3>3. QED
      BY <3>2
  <2>3. QED
    BY <2>1, <2>2
<1>4. dc_fifo \in Seq(Entries) /\ WordsOf(dc_fifo) \in Seq(Nat)
      /\ Len(WordsOf(dc_fifo)) = Len(dc_fifo)
  BY WordsOfSeq DEF AdapterInv
<1>5. Inner \in Seq(Nat) /\ Len(Inner) = Len(half) + Len(Word)
  BY <1>2, <1>3, ConcatProperties DEF Inner
<1>6. Behind \in Seq(Nat) /\ Len(Behind) = Len(Inner) + Len(dc_fifo)
  <2>1. Inner \in Seq(Nat) /\ WordsOf(dc_fifo) \in Seq(Nat)
    BY <1>4, <1>5
  <2>2. /\ Inner \o WordsOf(dc_fifo) \in Seq(Nat)
        /\ Len(Inner \o WordsOf(dc_fifo)) = Len(Inner) + Len(WordsOf(dc_fifo))
    BY <2>1, ConcatProperties
  <2>3. QED
    BY <1>4, <2>2 DEF Behind
<1>7. OnTheWay = AdapterWords \o WordsOf(dc_fifo)
  BY DEF OnTheWay, WordsOf
<1>8. AdapterWords = beat \o Inner
  <2>1. beat \in Seq(Nat) /\ half \in Seq(Nat) /\ Word \in Seq(Nat)
    BY <1>1, <1>2, <1>3
  <2>2. (beat \o half) \o Word = beat \o (half \o Word)
    BY <2>1, NatConcat
  <2>3. QED
    BY <2>2 DEF AdapterWords, Inner
<1>9. OnTheWay = beat \o Behind
  <2>1. beat \in Seq(Nat) /\ Inner \in Seq(Nat) /\ WordsOf(dc_fifo) \in Seq(Nat)
    BY <1>1, <1>4, <1>5
  <2>2. (beat \o Inner) \o WordsOf(dc_fifo) = beat \o (Inner \o WordsOf(dc_fifo))
    BY <2>1, NatConcat
  <2>3. QED
    BY <1>7, <1>8, <2>2 DEF Behind
<1>10. OnTheWay \in Seq(Nat) /\ Len(OnTheWay) = Len(beat) + Len(Behind)
  BY <1>1, <1>6, <1>9, ConcatProperties
<1>11. QED
  BY <1>1, <1>2, <1>3, <1>4, <1>5, <1>6, <1>9, <1>10

\* A word put at the end of the second of two sequences.
LEMMA AppendBehind ==
  ASSUME NEW s \in Seq(Nat), NEW t \in Seq(Nat), NEW e \in Nat
  PROVE  s \o Append(t, e) = Append(s \o t, e)
<1>1. Append(t, e) = t \o <<e>> /\ <<e>> \in Seq(Nat)
  BY AppendIsConcat
<1>2. s \o t \in Seq(Nat)
  BY ConcatProperties
<1>3. Append(s \o t, e) = (s \o t) \o <<e>>
  BY <1>2, AppendIsConcat
<1>4. (s \o t) \o <<e>> = s \o (t \o <<e>>)
  BY <1>1, ConcatAssociative
<1>5. QED
  BY <1>1, <1>3, <1>4

\* An edge of delayedCLK puts a word at the end, or nothing.
LEMMA SourceEdgeStep ==
  ASSUME PathInv, NEW word_valid \in BOOLEAN, SourceEdge(word_valid)
  PROVE  /\ AdapterInv'
         /\ OnTheWay' = OnTheWay \/ \E w \in 0 .. MaxWords : WholeBeats!Put(w)
<1> USE IqSourceAssumption
<1>1. TypeOK /\ RegisterInv /\ AdapterInv
  BY DEF PathInv, SourceInv
<1>2. a' = a /\ half' = half /\ beat' = beat
  BY DEF SourceEdge, adapterVars
<1>3. AdapterWords' = AdapterWords /\ Len(AdapterWords) <= 4
      /\ AdapterWords \in Seq(Nat)
  <2>1. /\ beat \in Seq(Nat) /\ half \in Seq(Nat) /\ Word \in Seq(Nat)
        /\ Len(beat) <= 2 /\ Len(half) <= 1 /\ Len(Word) <= 1
    <3>1. /\ beat \in Seq(Nat) /\ half \in Seq(Nat) /\ Word \in Seq(Nat)
          /\ Len(beat) \in {0, 2} /\ Len(half) <= 1 /\ Len(Word) <= 1
      BY <1>1, PathSequences, Zenon
    <3>2. Len(beat) = 0 \/ Len(beat) = 2
      BY <3>1, Zenon
    <3>3. Len(beat) <= 2
      <4>1. 0 <= 2 /\ 2 <= 2
        OBVIOUS
      <4>2. QED
        BY <3>2, <4>1, Zenon
    <3>4. QED
      BY <3>1, <3>3, Zenon
  <2>2. /\ beat \o half \in Seq(Nat) /\ Len(beat \o half) = Len(beat) + Len(half)
        /\ Word \in Seq(Nat)
    BY <2>1, ConcatProperties
  <2>3. /\ AdapterWords \in Seq(Nat)
        /\ Len(AdapterWords) = Len(beat \o half) + Len(Word)
    BY <2>2, ConcatProperties DEF AdapterWords
  <2>4. Len(AdapterWords) <= 4
    BY <2>1, <2>2, <2>3
  <2>5. AdapterWords' = AdapterWords
    BY <1>2 DEF AdapterWords, Word
  <2>6. QED
    BY <2>3, <2>4, <2>5
<1>4. /\ dc_fifo \in Seq(Entries) /\ Len(dc_fifo) <= occupancy + 1
      /\ WordsOf(dc_fifo) \in Seq(Nat) /\ Len(WordsOf(dc_fifo)) = Len(dc_fifo)
      /\ OnTheWay = AdapterWords \o WordsOf(dc_fifo)
  BY <1>1, WordsOfSeq DEF AdapterInv, OnTheWay, WordsOf
<1>5. OnTheWay' = AdapterWords \o WordsOf(dc_fifo')
  BY <1>3 DEF OnTheWay, WordsOf
<1>6. CASE Transfer
  <2> DEFINE e == [word |-> data_reg, packet |-> stream_tstart]
  <2>1. stream_tvalid /\ occupancy < Depth /\ occupancy' = occupancy + 1
    BY <1>6 DEF Transfer, stream_tready, SourceEdge, Clock, Written
  <2>2. data_reg \in 0 .. MaxWords /\ stream_tstart = FALSE
    BY <1>1, <2>1 DEF TypeOK, RegisterInv
  <2>3. e \in Entries /\ e.word = data_reg
    <3>1. data_reg \in Nat
      BY <2>2
    <3>2. QED
      BY <2>2, <3>1 DEF Entries
  <2>4. dc_fifo' = Append(dc_fifo, e)
    BY <1>6 DEF SourceEdge
  <2> HIDE DEF e
  <2>5. dc_fifo' \in Seq(Entries) /\ Len(dc_fifo') = Len(dc_fifo) + 1
    BY <1>4, <2>3, <2>4, AppendProperties
  <2>6. WordsOf(dc_fifo') = Append(WordsOf(dc_fifo), data_reg)
    BY <1>4, <2>3, <2>4, WordsOfAppend
  <2>7. OnTheWay' = Append(OnTheWay, data_reg)
    <3>1. data_reg \in Nat
      BY <2>2
    <3>2. AdapterWords \o Append(WordsOf(dc_fifo), data_reg)
            = Append(AdapterWords \o WordsOf(dc_fifo), data_reg)
      BY <1>3, <1>4, <3>1, AppendBehind
    <3>3. QED
      BY <1>4, <1>5, <2>6, <3>2
  <2>8. occupancy \in 0 .. Depth
    BY <1>1 DEF TypeOK
  <2>9. Len(OnTheWay) < Depth + 5
    <3>1. Len(OnTheWay) = Len(AdapterWords) + Len(dc_fifo)
      BY <1>3, <1>4, ConcatProperties
    <3>2. Len(AdapterWords) \in Nat /\ Len(dc_fifo) \in Nat
      BY <1>3, <1>4
    <3>3. QED
      BY <1>3, <1>4, <2>1, <2>8, <3>1, <3>2
  <2>10. WholeBeats!Put(data_reg)
    BY <2>7, <2>9 DEF WholeBeats!Put
  <2>11. Len(dc_fifo') <= occupancy' + 1
    BY <1>4, <2>1, <2>5, <2>8
  <2>12. AdapterInv'
    BY <1>1, <1>2, <2>5, <2>11 DEF AdapterInv
  <2>13. QED
    BY <2>2, <2>10, <2>12
<1>7. CASE ~Transfer
  <2>1. dc_fifo' = dc_fifo /\ occupancy' = occupancy
    BY <1>1, <1>7 DEF SourceEdge, Clock, Written, TypeOK
  <2>2. QED
    BY <1>1, <1>2, <1>4, <1>5, <2>1 DEF AdapterInv
<1>8. QED
  BY <1>6, <1>7

\* The write side learning of a word that left the memory.
LEMMA DrainEdgeStep ==
  ASSUME PathInv, DrainEdge
  PROVE  AdapterInv' /\ OnTheWay' = OnTheWay
<1>1. TypeOK /\ AdapterInv
  BY DEF PathInv, SourceInv
<1>2. /\ a' = a /\ half' = half /\ beat' = beat /\ dc_fifo' = dc_fifo
      /\ occupancy >= Len(dc_fifo) /\ occupancy' = occupancy - 1
  BY DEF DrainEdge, Drain, adapterVars
<1>3. Len(dc_fifo') <= occupancy' + 1
  BY <1>1, <1>2, IqSourceAssumption DEF TypeOK, AdapterInv
<1>4. AdapterInv'
  BY <1>1, <1>2, <1>3 DEF AdapterInv
<1>5. OnTheWay' = OnTheWay
  BY <1>2 DEF OnTheWay, AdapterWords, Word
<1>6. QED
  BY <1>4, <1>5

\* Two words one after the other.
LEMMA Pair == \A x, y : <<x>> \o <<y>> = <<x, y>>
<1> SUFFICES ASSUME NEW x, NEW y
             PROVE  <<x>> \o <<y>> = <<x, y>>
  OBVIOUS
<1> DEFINE S == {x, y}
<1>1. <<x>> \in Seq(S) /\ <<y>> \in Seq(S) /\ <<x, y>> \in Seq(S)
  OBVIOUS
<1>2. /\ <<x>> \o <<y>> \in Seq(S) /\ Len(<<x>> \o <<y>>) = 2
      /\ (<<x>> \o <<y>>)[1] = x /\ (<<x>> \o <<y>>)[2] = y
  BY <1>1
<1>3. \A i \in 1 .. 2 : (<<x>> \o <<y>>)[i] = <<x, y>>[i]
  BY <1>2
<1>4. QED
  BY <1>1, <1>2, <1>3, SeqEqual

\* An edge of the engine's clock.
LEMMA AdapterEdgeStep ==
  ASSUME PathInv, NEW offered \in BOOLEAN, NEW out_ready \in BOOLEAN,
         AdapterEdge(offered, out_ready)
  PROVE  AdapterInv' /\ (OnTheWay' = OnTheWay \/ WholeBeats!Get)
<1> DEFINE in == IF offered THEN <<Head(dc_fifo)>> ELSE <<>>
<1>1. AdapterInv /\ occupancy' = occupancy
  BY DEF PathInv, AdapterEdge, vars
<1>2. /\ a' = IF in_ready(out_ready) THEN in ELSE a
      /\ dc_fifo' = IF offered /\ in_ready(out_ready) THEN Tail(dc_fifo) ELSE dc_fifo
      /\ offered => dc_fifo # <<>>
  BY DEF AdapterEdge, AdapterClock, Unread
<1>3. /\ dc_fifo \in Seq(Entries) /\ Len(dc_fifo) <= occupancy + 1
      /\ Len(dc_fifo) \in Nat /\ occupancy \in Nat
  BY DEF PathInv, SourceInv, TypeOK, AdapterInv
<1>4. \/ half = <<>> /\ Whole = FALSE
      \/ a = <<>> /\ Whole = FALSE
      \/ a # <<>> /\ half # <<>> /\ Whole
  <2>1. a # <<>> => ~a[1].packet
    <3>1. SUFFICES ASSUME a # <<>> PROVE ~a[1].packet
      OBVIOUS
    <3>2. PICK e \in Entries : a = <<e>>
      BY <1>1, <3>1 DEF AdapterInv
    <3>3. a[1] = e /\ e.packet = FALSE
      BY <3>2 DEF Entries
    <3>4. QED
      BY <3>3
  <2>2. QED
    BY <2>1 DEF Whole
\* The word that the FIFO gives and the adapter takes only changes its place.
<1>5. /\ dc_fifo' \in Seq(Entries) /\ Len(dc_fifo') <= occupancy' + 1
      /\ a' = <<>> \/ \E e \in Entries : a' = <<e>>
  <2>1. CASE offered /\ in_ready(out_ready)
    <3>1. dc_fifo' = Tail(dc_fifo) /\ a' = <<Head(dc_fifo)>> /\ dc_fifo # <<>>
      BY <1>2, <2>1
    <3>2. /\ Head(dc_fifo) \in Entries /\ Tail(dc_fifo) \in Seq(Entries)
          /\ Len(Tail(dc_fifo)) = Len(dc_fifo) - 1
      BY <1>3, <3>1, WordsOfTail
    <3>3. QED
      BY <1>1, <1>3, <3>1, <3>2
  <2>2. CASE ~(offered /\ in_ready(out_ready))
    <3>1. dc_fifo' = dc_fifo /\ (a' = a \/ a' = <<>>)
      BY <1>2, <2>2
    <3>2. QED
      BY <1>1, <1>3, <3>1 DEF AdapterInv
  <2>3. QED
    BY <2>1, <2>2
<1>6. /\ beat \in Seq(Nat) /\ half \in Seq(Nat) /\ Word \in Seq(Nat)
      /\ WordsOf(dc_fifo) \in Seq(Nat) /\ Inner \in Seq(Nat) /\ Behind \in Seq(Nat)
      /\ OnTheWay = beat \o Behind
  BY <1>1, PathSequences, Zenon
<1>9. /\ OnTheWay' = ((beat' \o half') \o Word') \o WordsOf(dc_fifo')
      /\ OnTheWay = ((beat \o half) \o Word) \o WordsOf(dc_fifo)
  BY DEF OnTheWay, AdapterWords, WordsOf
<1>10. ASSUME in_ready(out_ready)
       PROVE  /\ Word' \in Seq(Nat) /\ WordsOf(dc_fifo') \in Seq(Nat)
              /\ Word' \o WordsOf(dc_fifo') = WordsOf(dc_fifo)
  <2>1. CASE offered
    <3>1. dc_fifo' = Tail(dc_fifo) /\ a' = <<Head(dc_fifo)>> /\ dc_fifo # <<>>
      BY <1>2, <1>10, <2>1
    <3>2. /\ Head(dc_fifo) \in Entries
          /\ WordsOf(dc_fifo) = <<Head(dc_fifo).word>> \o WordsOf(Tail(dc_fifo))
      BY <1>3, <3>1, WordsOfTail
    <3>3. Word' = <<Head(dc_fifo).word>>
      BY <3>1 DEF Word
    <3>4. Head(dc_fifo).word \in Nat
      BY <3>2 DEF Entries
    <3>5. Word' \in Seq(Nat)
      BY <3>3, <3>4
    <3>6. WordsOf(dc_fifo') \in Seq(Nat)
      BY <1>5, WordsOfSeq
    <3>7. QED
      BY <3>1, <3>2, <3>3, <3>5, <3>6, Zenon
  <2>2. CASE ~offered
    <3>1. dc_fifo' = dc_fifo /\ a' = <<>>
      BY <1>2, <1>10, <2>2
    <3>2. Word' = <<>>
      BY <3>1 DEF Word
    <3>3. <<>> \in Seq(Nat) /\ <<>> \o WordsOf(dc_fifo) = WordsOf(dc_fifo)
      BY <1>6, ConcatEmptySeq
    <3>4. QED
      BY <1>6, <3>1, <3>2, <3>3, Zenon
  <2>3. QED
    BY <2>1, <2>2
<1>11. CASE b_ready(out_ready)
  <2>1. in_ready(out_ready)
    BY <1>11 DEF in_ready
  <2>2. /\ beat' = (IF Whole THEN half \o Word ELSE <<>>)
        /\ half' = (IF Whole THEN <<>> ELSE half \o Word)
    BY <1>11 DEF AdapterEdge, AdapterClock
  <2>3. /\ beat' \o half' = Inner
        /\ half' = <<>> \/ \E w \in Nat : half' = <<w>>
        /\ beat' = <<>> \/ (beat' \in Seq(Nat) /\ Len(beat') = 2)
    <3>1. CASE Whole
      <4>1. half # <<>> /\ a # <<>>
        BY <1>4, <3>1
      <4>2. PICK h \in Nat : half = <<h>>
        BY <1>1, <4>1 DEF AdapterInv
      <4>3. PICK e \in Entries : a = <<e>>
        BY <1>1, <4>1 DEF AdapterInv
      <4>4. Word = <<e.word>> /\ e.word \in Nat
        BY <4>3 DEF Word, Entries
      <4>5. Inner = <<h, e.word>>
        <5>1. <<h>> \o <<e.word>> = <<h, e.word>>
          BY Pair
        <5>2. QED
          BY <4>2, <4>4, <5>1, Zenon DEF Inner
      <4>6. beat' = Inner /\ half' = <<>>
        BY <2>2, <3>1 DEF Inner
      <4>7. Inner \o <<>> = Inner
        BY <1>6, ConcatEmptySeq
      <4>8. Inner \in Seq(Nat) /\ Len(Inner) = 2
        BY <4>2, <4>4, <4>5
      <4>9. QED
        BY <4>6, <4>7, <4>8, Zenon
    <3>2. CASE ~Whole
      <4>1. beat' = <<>> /\ half' = Inner
        BY <2>2, <3>2 DEF Inner
      <4>2. <<>> \o Inner = Inner
        BY <1>6, ConcatEmptySeq
      <4>3. Inner = Word \/ (Inner = half /\ Word = <<>>)
        <5>1. CASE half = <<>>
          BY <1>6, <5>1, ConcatEmptySeq DEF Inner
        <5>2. CASE a = <<>>
          <6>1. Word = <<>>
            BY <5>2 DEF Word
          <6>2. half \o <<>> = half
            BY <1>6, ConcatEmptySeq
          <6>3. QED
            BY <6>1, <6>2 DEF Inner
        <5>3. QED
          BY <1>4, <3>2, <5>1, <5>2
      <4>4. Word = <<>> \/ \E w \in Nat : Word = <<w>>
        <5>1. CASE a = <<>>
          BY <5>1 DEF Word
        <5>2. CASE a # <<>>
          <6>1. PICK e \in Entries : a = <<e>>
            BY <1>1, <5>2 DEF AdapterInv
          <6>2. Word = <<e.word>> /\ e.word \in Nat
            BY <6>1 DEF Word, Entries
          <6>3. QED
            BY <6>2
        <5>3. QED
          BY <5>1, <5>2
      <4>5. half = <<>> \/ \E w \in Nat : half = <<w>>
        BY <1>1 DEF AdapterInv
      <4>6. Inner = <<>> \/ \E w \in Nat : Inner = <<w>>
        BY <4>3, <4>4, <4>5, Zenon
      <4>7. QED
        BY <4>1, <4>2, <4>6, Zenon
    <3>3. QED
      BY <3>1, <3>2
  <2>4. AdapterInv'
    BY <1>5, <2>3 DEF AdapterInv
  <2>5. OnTheWay' = Behind
    <3>1. (Inner \o Word') \o WordsOf(dc_fifo') = Inner \o (Word' \o WordsOf(dc_fifo'))
      <4>1. Inner \in Seq(Nat) /\ Word' \in Seq(Nat) /\ WordsOf(dc_fifo') \in Seq(Nat)
        BY <1>6, <1>10, <2>1, Zenon
      <4>2. QED
        BY <4>1, NatConcat
    <3>2. Word' \o WordsOf(dc_fifo') = WordsOf(dc_fifo)
      BY <1>10, <2>1
    <3>3. QED
      BY <1>9, <2>3, <3>1, <3>2, Zenon DEF Behind
  <2>6. CASE beat = <<>>
    <3>1. <<>> \o Behind = Behind
      BY <1>6, ConcatEmptySeq
    <3>2. OnTheWay' = OnTheWay
      BY <1>6, <2>5, <2>6, <3>1, Zenon
    <3>3. QED
      BY <2>4, <3>2
  <2>7. CASE beat # <<>>
    <3>1. Len(beat) = 2
      BY <1>1, <2>7 DEF AdapterInv
    <3>2. /\ Len(beat \o Behind) = Len(Behind) + 2
          /\ SubSeq(beat \o Behind, 3, Len(beat \o Behind)) = Behind
      BY <1>6, <3>1, BeatTaken
    <3>3. Len(OnTheWay) = Len(Behind) + 2
          /\ SubSeq(OnTheWay, 3, Len(OnTheWay)) = Behind
      BY <1>6, <3>2, Zenon
    <3>4. Len(OnTheWay) >= 2
      <4>1. Len(Behind) \in Nat
        BY <1>6
      <4>2. QED
        BY <3>3, <4>1
    <3>5. WholeBeats!Get
      BY <2>5, <3>3, <3>4 DEF WholeBeats!Get
    <3>6. QED
      BY <2>4, <3>5
  <2>8. QED
    BY <2>6, <2>7
<1>12. CASE ~b_ready(out_ready) /\ in_ready(out_ready)
  <2>1. a = <<>> /\ half' = half /\ beat' = beat
    BY <1>12 DEF in_ready, AdapterEdge, AdapterClock
  <2>2. AdapterInv'
    BY <1>1, <1>5, <2>1 DEF AdapterInv
  <2> DEFINE front == beat \o half
  <2>3. front \in Seq(Nat)
    BY <1>6, ConcatProperties
  <2>4. OnTheWay' = (front \o Word') \o WordsOf(dc_fifo')
        /\ OnTheWay = (front \o Word) \o WordsOf(dc_fifo)
    BY <1>9, <2>1
  <2> HIDE DEF front
  <2>5. (front \o Word') \o WordsOf(dc_fifo') = front \o (Word' \o WordsOf(dc_fifo'))
    BY <1>10, <1>12, <2>3, NatConcat
  <2>6. Word' \o WordsOf(dc_fifo') = WordsOf(dc_fifo)
    BY <1>10, <1>12
  <2>7. Word = <<>> /\ front \o <<>> = front
    BY <2>1, <2>3, ConcatEmptySeq DEF Word
  <2>8. OnTheWay' = OnTheWay
    BY <2>4, <2>5, <2>6, <2>7, Zenon
  <2>9. QED
    BY <2>2, <2>8
<1>7. CASE ~in_ready(out_ready)
  <2>1. a' = a /\ dc_fifo' = dc_fifo /\ half' = half /\ beat' = beat
    BY <1>2, <1>7 DEF AdapterEdge, AdapterClock, in_ready
  <2>2. OnTheWay' = OnTheWay
    BY <2>1 DEF OnTheWay, AdapterWords, Word
  <2>3. AdapterInv'
    BY <1>1, <1>5, <2>1 DEF AdapterInv
  <2>4. QED
    BY <2>2, <2>3
<1>8. QED
  BY <1>7, <1>11, <1>12

LEMMA PathStep ==
  PathInv /\ [PathNext]_pathVars =>
    /\ PathInv'
    /\ [(\E w \in 0 .. MaxWords : WholeBeats!Put(w)) \/ WholeBeats!Get]_OnTheWay
<1> SUFFICES ASSUME PathInv, [PathNext]_pathVars
             PROVE  /\ PathInv'
                    /\ \/ OnTheWay' = OnTheWay
                       \/ \E w \in 0 .. MaxWords : WholeBeats!Put(w)
                       \/ WholeBeats!Get
  OBVIOUS
<1>1. SourceInv'
  BY PathStepsSource, SourceStep DEF PathInv
<1>2. CASE QuietEdge
  BY <1>1, <1>2, SourceEdgeStep DEF QuietEdge, PathInv
<1>3. CASE AnnounceEdge
  BY <1>1, <1>3, SourceEdgeStep DEF AnnounceEdge, PathInv
<1>4. CASE DrainEdge
  BY <1>1, <1>4, DrainEdgeStep DEF PathInv
<1>5. CASE OutEdge
  BY <1>1, <1>5, AdapterEdgeStep DEF OutEdge, PathInv
<1>6. CASE UNCHANGED pathVars
  <2>1. UNCHANGED <<a, half, beat, dc_fifo, occupancy>>
    BY <1>6 DEF pathVars, adapterVars, vars
  <2>2. AdapterInv' /\ OnTheWay' = OnTheWay
    BY <2>1 DEF PathInv, AdapterInv, OnTheWay, AdapterWords, Word
  <2>3. QED
    BY <1>1, <2>2 DEF PathInv
<1>7. QED
  BY <1>2, <1>3, <1>4, <1>5, <1>6 DEF PathNext

LEMMA PathInvariant == PathSpec => []PathInv
  BY PathInitially, PathStep, PTL DEF PathSpec

-----------------------------------------------------------------------------
\* The registers of source and adapter keep to their types, the source's FIFO is
\* never written when it is full, and with its output register it never holds more
\* than one word beyond its memory.
THEOREM PathTypes == PathSpec => []PathTypeOK
<1>1. PathInv => PathTypeOK
  <2> SUFFICES ASSUME PathInv
               PROVE  PathTypeOK
    OBVIOUS
  <2>1. TypeOK /\ AdapterInv
    BY DEF PathInv, SourceInv
  <2>2. Entries \subseteq Entry
    BY DEF Entries, Entry
  <2>3. dc_fifo \in Seq(Entry) /\ Len(dc_fifo) <= Depth + 1
    <3>1. dc_fifo \in Seq(Entry)
      BY <2>1, <2>2, SeqMonotonic DEF AdapterInv
    <3>2. Len(dc_fifo) \in Nat /\ Len(dc_fifo) <= occupancy + 1 /\ occupancy \in 0 .. Depth
      BY <2>1 DEF AdapterInv, TypeOK
    <3>3. QED
      BY <3>1, <3>2, IqSourceAssumption
  <2>4. a \in Seq(Entry) /\ Len(a) <= 1
    <3>1. CASE a = <<>>
      BY <3>1
    <3>2. ASSUME NEW e \in Entries, a = <<e>>
          PROVE  a \in Seq(Entry) /\ Len(a) <= 1
      <4>1. e \in Entry
        BY <2>2
      <4>2. QED
        BY <3>2, <4>1
    <3>3. QED
      BY <2>1, <3>1, <3>2 DEF AdapterInv
  <2>5. half \in Seq(Nat) /\ Len(half) <= 1
    <3>1. CASE half = <<>>
      BY <3>1
    <3>2. ASSUME NEW w \in Nat, half = <<w>>
          PROVE  half \in Seq(Nat) /\ Len(half) <= 1
      BY <3>2
    <3>3. QED
      BY <2>1, <3>1, <3>2 DEF AdapterInv
  <2>6. beat \in Seq(Nat) /\ Len(beat) <= 2
    <3>1. CASE beat = <<>>
      BY <3>1
    <3>2. CASE beat \in Seq(Nat) /\ Len(beat) = 2
      BY <3>2
    <3>3. QED
      BY <2>1, <3>1, <3>2 DEF AdapterInv
  <2>7. QED
    BY <2>1, <2>3, <2>4, <2>5, <2>6 DEF PathTypeOK
<1>2. QED
  BY <1>1, PathInvariant, PTL

\* A word that iq_stream_source_change.sv captured is never replaced or given up
\* before the FIFO took it, and the FIFO takes the words in order.
THEOREM WordsArrive == PathSpec => []CapturedWordsArrive
<1>1. PathInv => CapturedWordsArrive
  BY DEF PathInv, SourceInv
<1>2. QED
  BY <1>1, PathInvariant, PTL

\* At every step: a word is dropped only while the one captured before it found
\* the FIFO full and still waits, and only such a word is taken twice, in a row,
\* whatever the rate of the words below one per clock.
THEOREM DamageConfined == PathSpec => DamageOnlyWhenFull
<1>1. PathInv /\ [PathNext]_pathVars => [Damage]_vars
  BY PathStepsSource, DamageStep DEF PathInv
<1>2. QED
  BY <1>1, PathInvariant, PTL DEF PathSpec, DamageOnlyWhenFull

\* FIFO and width adapter together are the bounded queue of which Msgdma takes two
\* words at a time: none lost, doubled, reordered or moved to the other half of a
\* beat.
THEOREM PathRefinesQueue == PathSpec => PathIsQueue
<1>1. PathInit => OnTheWay = <<>>
  BY PathInitially
<1>2. QED
  BY <1>1, PathInvariant, PathStep, PTL
     DEF PathSpec, PathIsQueue, WholeBeats!QueueSpec
=============================================================================
