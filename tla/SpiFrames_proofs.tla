-------------------------- MODULE SpiFrames_proofs --------------------------
(***************************************************************************)
(* Theorems about SpiFrames, for every length of an access up to the       *)
(* eight bytes that the fuser can count, and every clock of the master     *)
(* that holds a level for two clocks of the fuser or more.                 *)
(***************************************************************************)
EXTENDS SpiFrames, SequenceTheorems, TLAPS

\* Two sequences joined.
LEMMA Joined ==
  ASSUME NEW S, NEW s \in Seq(S), NEW t \in Seq(S)
  PROVE  /\ s \o t \in Seq(S) /\ Len(s \o t) = Len(s) + Len(t)
         /\ \A i \in 1 .. Len(s) : (s \o t)[i] = s[i]
         /\ \A i \in 1 .. Len(t) : (s \o t)[Len(s) + i] = t[i]
<1>1. /\ s \o t \in Seq(S) /\ Len(s \o t) = Len(s) + Len(t)
      /\ \A i \in 1 .. Len(s) + Len(t) :
           (s \o t)[i] = IF i <= Len(s) THEN s[i] ELSE t[i - Len(s)]
  BY ConcatProperties
<1>2. Len(s) \in Nat /\ Len(t) \in Nat
  OBVIOUS
<1>3. QED
  BY <1>1, <1>2

\* The accesses of transceiver_init and dump_irq_state.
Calls ==
  {R("PN"), R("VN"), W("RST", 7), R("IRQS"), R("STATE"), R("RXDFE"),
   R("IQIFC0"), W("IQIFC0", 1), W("IQIFC1", 1), W("CS", 1), W("CCF0L", 1),
   W("CCF0H", 1), W("CNL", 1), W("CNM", 1), W("RXBWC", 1), W("RXDFE", 1),
   W("AGCC", 1), W("AGCS", 1), W("CMD", 3), W("CMD", 5)}

\* transceiver_init, access by access.
LEMMA InitList ==
  /\ transceiver_init \in Seq(Calls)
  /\ Len(transceiver_init) = 26
  /\ transceiver_init[1] = R("PN") /\ transceiver_init[2] = R("VN")
  /\ transceiver_init[3] = W("RST", 7)
  /\ \A i \in {3, 19, 23} : /\ transceiver_init[i + 1] = R("IRQS")
                            /\ transceiver_init[i + 2] = R("STATE")
                            /\ transceiver_init[i + 3] = R("RXDFE")
  /\ transceiver_init[7] = R("IQIFC0") /\ transceiver_init[8] = W("IQIFC0", 1)
  /\ transceiver_init[9] = W("IQIFC1", 1) /\ transceiver_init[10] = W("CS", 1)
  /\ transceiver_init[11] = W("CCF0L", 1) /\ transceiver_init[12] = W("CCF0H", 1)
  /\ transceiver_init[13] = W("CNL", 1) /\ transceiver_init[14] = W("CNM", 1)
  /\ transceiver_init[15] = W("RXBWC", 1) /\ transceiver_init[16] = W("RXDFE", 1)
  /\ transceiver_init[17] = W("AGCC", 1) /\ transceiver_init[18] = W("AGCS", 1)
  /\ transceiver_init[19] = W("CMD", 3) /\ transceiver_init[23] = W("CMD", 5)
<1> DEFINE first == <<R("PN"), R("VN"), W("RST", 7)>>
           second == <<R("IQIFC0"), W("IQIFC0", 1), W("IQIFC1", 1), W("CS", 1),
                       W("CCF0L", 1), W("CCF0H", 1), W("CNL", 1), W("CNM", 1),
                       W("RXBWC", 1), W("RXDFE", 1), W("AGCC", 1), W("AGCS", 1),
                       W("CMD", 3)>>
           third == <<W("CMD", 5)>>
           s1 == first \o dump_irq_state
           s2 == s1 \o second
           s3 == s2 \o dump_irq_state
           s4 == s3 \o third
           s5 == s4 \o dump_irq_state
<1>1. first \in Seq(Calls) /\ Len(first) = 3
      /\ first[1] = R("PN") /\ first[2] = R("VN") /\ first[3] = W("RST", 7)
  <2>1. first \in Seq(Calls)
    BY DEF Calls
  <2>2. QED
    BY <2>1
<1>2. dump_irq_state \in Seq(Calls) /\ Len(dump_irq_state) = 3
      /\ dump_irq_state[1] = R("IRQS") /\ dump_irq_state[2] = R("STATE")
      /\ dump_irq_state[3] = R("RXDFE")
  <2>1. dump_irq_state \in Seq(Calls)
    BY DEF dump_irq_state, Calls
  <2>2. QED
    BY <2>1 DEF dump_irq_state
<1>3. second \in Seq(Calls) /\ Len(second) = 13
  <2>1. second \in Seq(Calls)
    BY DEF Calls
  <2>2. QED
    BY <2>1
<1>4. /\ second[1] = R("IQIFC0") /\ second[2] = W("IQIFC0", 1)
      /\ second[3] = W("IQIFC1", 1) /\ second[4] = W("CS", 1)
      /\ second[5] = W("CCF0L", 1) /\ second[6] = W("CCF0H", 1)
      /\ second[7] = W("CNL", 1) /\ second[8] = W("CNM", 1)
      /\ second[9] = W("RXBWC", 1) /\ second[10] = W("RXDFE", 1)
      /\ second[11] = W("AGCC", 1) /\ second[12] = W("AGCS", 1)
      /\ second[13] = W("CMD", 3)
  OBVIOUS
<1>5. third \in Seq(Calls) /\ Len(third) = 1 /\ third[1] = W("CMD", 5)
  <2>1. third \in Seq(Calls)
    BY DEF Calls
  <2>2. QED
    BY <2>1
<1>6. transceiver_init = s5
  BY DEF transceiver_init
<1> HIDE DEF first, second, third
<1>7. /\ s1 \in Seq(Calls) /\ Len(s1) = 6
      /\ \A i \in 1 .. 3 : s1[i] = first[i]
      /\ \A i \in 1 .. 3 : s1[3 + i] = dump_irq_state[i]
  <2>1. first \in Seq(Calls) /\ dump_irq_state \in Seq(Calls)
    BY <1>1, <1>2
  <2>2. /\ first \o dump_irq_state \in Seq(Calls)
        /\ Len(first \o dump_irq_state) = Len(first) + Len(dump_irq_state)
        /\ \A i \in 1 .. Len(first) : (first \o dump_irq_state)[i] = first[i]
        /\ \A i \in 1 .. Len(dump_irq_state) :
             (first \o dump_irq_state)[Len(first) + i] = dump_irq_state[i]
    BY <2>1, Joined
  <2>3. QED
    BY <2>2, <1>1, <1>2
<1> HIDE DEF s1
<1>8. /\ s2 \in Seq(Calls) /\ Len(s2) = 19
      /\ \A i \in 1 .. 6 : s2[i] = s1[i]
      /\ \A i \in 1 .. 13 : s2[6 + i] = second[i]
  <2>1. s1 \in Seq(Calls) /\ second \in Seq(Calls)
    BY <1>3, <1>7
  <2>2. /\ s1 \o second \in Seq(Calls)
        /\ Len(s1 \o second) = Len(s1) + Len(second)
        /\ \A i \in 1 .. Len(s1) : (s1 \o second)[i] = s1[i]
        /\ \A i \in 1 .. Len(second) : (s1 \o second)[Len(s1) + i] = second[i]
    BY <2>1, Joined
  <2>3. Len(s1) = 6 /\ Len(second) = 13
    BY <1>3, <1>7
  <2>4. /\ \A i \in 1 .. 6 : (s1 \o second)[i] = s1[i]
        /\ \A i \in 1 .. 13 : (s1 \o second)[6 + i] = second[i]
    BY <2>2, <2>3, Zenon
  <2>5. Len(s1 \o second) = 19
    BY <2>2, <2>3
  <2>6. QED
    BY <2>2, <2>4, <2>5, Zenon
<1> HIDE DEF s2
<1>9. /\ s3 \in Seq(Calls) /\ Len(s3) = 22
      /\ \A i \in 1 .. 19 : s3[i] = s2[i]
      /\ \A i \in 1 .. 3 : s3[19 + i] = dump_irq_state[i]
  <2>1. s2 \in Seq(Calls) /\ dump_irq_state \in Seq(Calls)
    BY <1>2, <1>8
  <2>2. /\ s2 \o dump_irq_state \in Seq(Calls)
        /\ Len(s2 \o dump_irq_state) = Len(s2) + Len(dump_irq_state)
        /\ \A i \in 1 .. Len(s2) : (s2 \o dump_irq_state)[i] = s2[i]
        /\ \A i \in 1 .. Len(dump_irq_state) :
             (s2 \o dump_irq_state)[Len(s2) + i] = dump_irq_state[i]
    BY <2>1, Joined
  <2>3. Len(s2) = 19 /\ Len(dump_irq_state) = 3
    BY <1>2, <1>8
  <2>4. /\ \A i \in 1 .. 19 : (s2 \o dump_irq_state)[i] = s2[i]
        /\ \A i \in 1 .. 3 : (s2 \o dump_irq_state)[19 + i] = dump_irq_state[i]
    BY <2>2, <2>3, Zenon
  <2>5. Len(s2 \o dump_irq_state) = 22
    BY <2>2, <2>3
  <2>6. QED
    BY <2>2, <2>4, <2>5, Zenon
<1> HIDE DEF s3
<1>10. /\ s4 \in Seq(Calls) /\ Len(s4) = 23
       /\ \A i \in 1 .. 22 : s4[i] = s3[i]
       /\ \A i \in 1 .. 1 : s4[22 + i] = third[i]
  <2>1. s3 \in Seq(Calls) /\ third \in Seq(Calls)
    BY <1>5, <1>9
  <2>2. /\ s3 \o third \in Seq(Calls)
        /\ Len(s3 \o third) = Len(s3) + Len(third)
        /\ \A i \in 1 .. Len(s3) : (s3 \o third)[i] = s3[i]
        /\ \A i \in 1 .. Len(third) : (s3 \o third)[Len(s3) + i] = third[i]
    BY <2>1, Joined
  <2>3. Len(s3) = 22 /\ Len(third) = 1
    BY <1>5, <1>9
  <2>4. /\ \A i \in 1 .. 22 : (s3 \o third)[i] = s3[i]
        /\ \A i \in 1 .. 1 : (s3 \o third)[22 + i] = third[i]
    BY <2>2, <2>3, Zenon
  <2>5. Len(s3 \o third) = 23
    BY <2>2, <2>3
  <2>6. QED
    BY <2>2, <2>4, <2>5, Zenon
<1> HIDE DEF s4
<1>11. /\ s5 \in Seq(Calls) /\ Len(s5) = 26
       /\ \A i \in 1 .. 23 : s5[i] = s4[i]
       /\ \A i \in 1 .. 3 : s5[23 + i] = dump_irq_state[i]
  <2>1. s4 \in Seq(Calls) /\ dump_irq_state \in Seq(Calls)
    BY <1>2, <1>10
  <2>2. /\ s4 \o dump_irq_state \in Seq(Calls)
        /\ Len(s4 \o dump_irq_state) = Len(s4) + Len(dump_irq_state)
        /\ \A i \in 1 .. Len(s4) : (s4 \o dump_irq_state)[i] = s4[i]
        /\ \A i \in 1 .. Len(dump_irq_state) :
             (s4 \o dump_irq_state)[Len(s4) + i] = dump_irq_state[i]
    BY <2>1, Joined
  <2>3. Len(s4) = 23 /\ Len(dump_irq_state) = 3
    BY <1>2, <1>10
  <2>4. /\ \A i \in 1 .. 23 : (s4 \o dump_irq_state)[i] = s4[i]
        /\ \A i \in 1 .. 3 : (s4 \o dump_irq_state)[23 + i] = dump_irq_state[i]
    BY <2>2, <2>3, Zenon
  <2>5. Len(s4 \o dump_irq_state) = 26
    BY <2>2, <2>3
  <2>6. QED
    BY <2>2, <2>4, <2>5, Zenon
<1> HIDE DEF s5
<1>12. /\ s5[1] = R("PN") /\ s5[2] = R("VN") /\ s5[3] = W("RST", 7)
       /\ s5[3 + 1] = R("IRQS") /\ s5[3 + 2] = R("STATE") /\ s5[3 + 3] = R("RXDFE")
  BY <1>1, <1>2, <1>7, <1>8, <1>9, <1>10, <1>11
<1>13. \A i \in 1 .. 13 : s5[6 + i] = second[i]
  <2>1. \A i \in 1 .. 13 : 6 + i \in 1 .. 19 /\ 6 + i \in 1 .. 22 /\ 6 + i \in 1 .. 23
    OBVIOUS
  <2>2. \A i \in 1 .. 13 : s3[6 + i] = second[i]
    BY <1>8, <1>9, <2>1
  <2>3. QED
    BY <1>10, <1>11, <2>1, <2>2
<1>14. /\ s5[19 + 1] = R("IRQS") /\ s5[19 + 2] = R("STATE")
       /\ s5[19 + 3] = R("RXDFE")
       /\ s5[23 + 1] = R("IRQS") /\ s5[23 + 2] = R("STATE")
       /\ s5[23 + 3] = R("RXDFE")
       /\ s5[23] = W("CMD", 5)
  BY <1>2, <1>5, <1>9, <1>10, <1>11
<1>15. /\ s5[7] = second[1] /\ s5[8] = second[2] /\ s5[9] = second[3]
       /\ s5[10] = second[4] /\ s5[11] = second[5] /\ s5[12] = second[6]
       /\ s5[13] = second[7] /\ s5[14] = second[8] /\ s5[15] = second[9]
       /\ s5[16] = second[10] /\ s5[17] = second[11] /\ s5[18] = second[12]
       /\ s5[19] = second[13]
  BY <1>13
<1>16. QED
  BY <1>4, <1>6, <1>11, <1>12, <1>14, <1>15

\* Every access is a call.
LEMMA InitCalls ==
  /\ transceiver_init \in Seq(Calls)
  /\ Len(transceiver_init) = 26 /\ DOMAIN transceiver_init = 1 .. 26
  /\ \A s \in 1 .. 26 : transceiver_init[s] \in Calls
<1>1. transceiver_init \in Seq(Calls) /\ Len(transceiver_init) = 26
  BY InitList, Zenon
<1>2. DOMAIN transceiver_init = 1 .. 26
  BY <1>1, LenProperties
<1>3. \A s \in 1 .. 26 : transceiver_init[s] \in Calls
  BY <1>1, <1>2, ElementOfSeq
<1>4. QED
  BY <1>1, <1>2, <1>3

\* What the accesses are.
LEMMA AccessFacts ==
  /\ NoCall \notin Accesses
  /\ Len(transceiver_init) = 26 /\ DOMAIN transceiver_init = 1 .. 26
  /\ \A s \in 1 .. 26 : transceiver_init[s] \in Accesses
  /\ \A c \in Accesses : c.val \in Values /\ c.reg \in Registers
  /\ W("RST", 7) \in Accesses
  /\ {"IQIFC0", "STATE"} \subseteq Registers
<1>1. Len(transceiver_init) = 26 /\ DOMAIN transceiver_init = 1 .. 26
  BY InitCalls
<1>2. \A s \in 1 .. 26 : transceiver_init[s] \in Accesses
  BY <1>1 DEF Accesses
<1>3. \A c \in Accesses : c \in Calls
  <2>1. \A s \in DOMAIN transceiver_init : transceiver_init[s] \in Calls
    BY InitCalls
  <2>2. QED
    BY <2>1 DEF Accesses
<1>4. \A c \in Calls : c.op # "none" /\ c.val \in Values
  BY DEF Calls, R, W, Values
<1>5. NoCall.op = "none"
  BY DEF NoCall
<1>6. \A c \in Accesses : c.reg \in Registers
  BY DEF Registers
<1>7. W("RST", 7) \in Accesses /\ R("STATE") \in Accesses /\ R("IQIFC0") \in Accesses
  <2>1. /\ transceiver_init[3] = W("RST", 7) /\ transceiver_init[3 + 2] = R("STATE")
        /\ transceiver_init[7] = R("IQIFC0")
    BY InitList
  <2>2. QED
    BY <1>2, <2>1
<1>8. R("STATE").reg = "STATE" /\ R("IQIFC0").reg = "IQIFC0"
  BY DEF R
<1>9. QED
  BY <1>1, <1>2, <1>3, <1>4, <1>5, <1>6, <1>7, <1>8

\* The accesses from the eighth to the eighteenth configure the transceiver.
LEMMA Configuring ==
  \A s \in 8 .. 18 :
    /\ transceiver_init[s].op = "write" /\ transceiver_init[s].val = 1
    /\ transceiver_init[s].reg \notin {"RST", "CMD", "STATE"}
<1>1. \A r : W(r, 1).op = "write" /\ W(r, 1).val = 1 /\ W(r, 1).reg = r
  BY DEF W
<1> DEFINE Good(c) == /\ c.op = "write" /\ c.val = 1
                      /\ c.reg \notin {"RST", "CMD", "STATE"}
<1>2. /\ Good(W("IQIFC0", 1)) /\ Good(W("IQIFC1", 1)) /\ Good(W("CS", 1))
      /\ Good(W("CCF0L", 1)) /\ Good(W("CCF0H", 1)) /\ Good(W("CNL", 1))
      /\ Good(W("CNM", 1)) /\ Good(W("RXBWC", 1)) /\ Good(W("RXDFE", 1))
      /\ Good(W("AGCC", 1)) /\ Good(W("AGCS", 1))
  BY <1>1
<1> HIDE DEF Good
<1>3. /\ Good(transceiver_init[8]) /\ Good(transceiver_init[9])
      /\ Good(transceiver_init[10]) /\ Good(transceiver_init[11])
      /\ Good(transceiver_init[12]) /\ Good(transceiver_init[13])
      /\ Good(transceiver_init[14]) /\ Good(transceiver_init[15])
      /\ Good(transceiver_init[16]) /\ Good(transceiver_init[17])
      /\ Good(transceiver_init[18])
  BY <1>2, InitList, Zenon
<1>4. \A s \in 8 .. 18 : s \in {8, 9, 10, 11, 12, 13, 14, 15, 16, 17, 18}
  OBVIOUS
<1>5. \A s \in 8 .. 18 : Good(transceiver_init[s])
  BY <1>3, <1>4, Zenon
<1>6. QED
  BY <1>5, Zenon DEF Good

\* Only the seventh access reads IQIFC0; the others before the commands leave it
\* alone, or reset the transceiver.
LEMMA Others ==
  /\ \A s \in 1 .. 26 : transceiver_init[s] = R("IQIFC0") => s = 7
  /\ \A s \in (1 .. 6) \cup (19 .. 26) : transceiver_init[s].reg # "IQIFC0"
  /\ \A s \in 19 .. 26 : transceiver_init[s].op = "write" =>
                           transceiver_init[s] \in {W("CMD", 3), W("CMD", 5)}
  /\ \A s \in 24 .. 26 : transceiver_init[s].op # "write"
<1> DEFINE Dump(c) == c.op # "write" /\ c.reg # "IQIFC0"
<1>1. Dump(R("IRQS")) /\ Dump(R("STATE")) /\ Dump(R("RXDFE"))
  BY DEF R
<1>2. /\ R("PN").reg # "IQIFC0" /\ R("VN").reg # "IQIFC0" /\ W("RST", 7).reg # "IQIFC0"
      /\ W("CMD", 3).reg # "IQIFC0" /\ W("CMD", 5).reg # "IQIFC0"
      /\ R("IQIFC0").reg = "IQIFC0" /\ R("IQIFC0").op = "read"
  BY DEF R, W
<1> HIDE DEF Dump
<1>3. \A i \in {3, 19, 23} : /\ Dump(transceiver_init[i + 1])
                            /\ Dump(transceiver_init[i + 2])
                            /\ Dump(transceiver_init[i + 3])
  BY <1>1, InitList, Zenon
<1>4. /\ Dump(transceiver_init[4]) /\ Dump(transceiver_init[5])
      /\ Dump(transceiver_init[6]) /\ Dump(transceiver_init[20])
      /\ Dump(transceiver_init[21]) /\ Dump(transceiver_init[22])
      /\ Dump(transceiver_init[24]) /\ Dump(transceiver_init[25])
      /\ Dump(transceiver_init[26])
  <2>1. /\ 3 + 1 = 4 /\ 3 + 2 = 5 /\ 3 + 3 = 6 /\ 19 + 1 = 20 /\ 19 + 2 = 21
        /\ 19 + 3 = 22 /\ 23 + 1 = 24 /\ 23 + 2 = 25 /\ 23 + 3 = 26
    OBVIOUS
  <2>2. QED
    BY <1>3, <2>1, Zenon
<1>5. /\ transceiver_init[1].reg # "IQIFC0" /\ transceiver_init[2].reg # "IQIFC0"
      /\ transceiver_init[3].reg # "IQIFC0" /\ transceiver_init[19].reg # "IQIFC0"
      /\ transceiver_init[23].reg # "IQIFC0"
      /\ transceiver_init[19] = W("CMD", 3) /\ transceiver_init[23] = W("CMD", 5)
  BY <1>2, InitList, Zenon
<1>6. \A s \in 24 .. 26 : Dump(transceiver_init[s])
  BY <1>4
<1>7. \A s \in (1 .. 6) \cup (19 .. 26) :
        Dump(transceiver_init[s]) \/ s \in {1, 2, 3, 19, 23}
  BY <1>4
<1>8. \A s \in (1 .. 6) \cup (19 .. 26) : transceiver_init[s].reg # "IQIFC0"
  BY <1>5, <1>7 DEF Dump
<1>9. \A s \in 1 .. 26 : transceiver_init[s] = R("IQIFC0") => s = 7
  <2>1. \A s \in 1 .. 26 : s \in (1 .. 6) \cup (19 .. 26) \/ s \in 8 .. 18 \/ s = 7
    OBVIOUS
  <2>2. \A s \in 8 .. 18 : transceiver_init[s].op = "write"
    BY Configuring
  <2>3. QED
    BY <1>2, <1>8, <2>1, <2>2
<1>10. \A s \in 19 .. 26 : transceiver_init[s].op = "write" =>
                             transceiver_init[s] \in {W("CMD", 3), W("CMD", 5)}
  BY <1>5, <1>7 DEF Dump
<1>11. QED
  BY <1>6, <1>8, <1>9, <1>10 DEF Dump

\* An access keeps the registers' types.
LEMMA AppliedType ==
  ASSUME NEW rs \in [Registers -> Values], NEW c \in Accesses \cup {NoCall}
  PROVE  Applied(rs, c) \in [Registers -> Values]
<1>1. ResetRegs \in [Registers -> Values]
  BY DEF ResetRegs, Values
<1>2. CASE c = NoCall
  BY <1>2 DEF Applied, NoCall
<1>3. CASE c \in Accesses
  <2>1. c.val \in Values
    BY <1>3, AccessFacts
  <2>2. QED
    BY <1>1, <2>1 DEF Applied
<1>4. QED
  BY <1>2, <1>3
-----------------------------------------------------------------------------
\* Which level the fuser has seen: the old one at most up to the second edge
\* after a change.
LineInv ==
  /\ cs_in_d \in BOOLEAN /\ cs_out_n \in BOOLEAN
  /\ cs_in_n \in BOOLEAN /\ before \in BOOLEAN
  /\ held \in 0 .. LevelClocks
  /\ held = 0 => (before <=> ~cs_in_n) /\ (cs_in_d <=> before)
  /\ held > 0 => (before <=> cs_in_n)
  /\ held > 1 => (cs_in_d <=> cs_in_n)

\* Where the program is in transceiver_init and in an access.
ProgramInv ==
  /\ step \in 1 .. 27
  /\ call \in Accesses \cup {NoCall}
  /\ call = R("IQIFC0") => step = 8
  /\ sent \in 0 .. NB_SEG
  /\ call = NoCall => sent = 0 /\ cs_in_n /\ cs_in_d
  /\ ~cs_in_n => sent < NB_SEG
  /\ cs_in_n /\ ~cs_in_d => sent > 0

\* The types of the rest.
TypeInv ==
  /\ garbled \in BOOLEAN
  /\ seg_cnt \in 0 .. 7
  /\ heard \in Seq(Accesses \X (1 .. NB_SEG)) /\ Len(heard) <= NB_SEG + 1
  /\ regs \in [Registers -> Values] /\ written \in [Registers -> Values]
  /\ misreads \in 0 .. MaxMisreads /\ jumped \in BOOLEAN

LevelInv == LineInv /\ ProgramInv /\ TypeInv

LEMMA LevelInitially == Init => LevelInv
<1> SUFFICES ASSUME Init PROVE LevelInv
  OBVIOUS
<1>1. LineInv
  BY SpiFramesAssumption DEF Init, LineInv
<1>2. ProgramInv
  <2>1. NoCall # R("IQIFC0")
    BY DEF NoCall, R
  <2>2. QED
    BY <2>1, SpiFramesAssumption DEF Init, ProgramInv
<1>3. TypeInv
  <2>1. ResetRegs \in [Registers -> Values]
    BY DEF ResetRegs, Values
  <2>2. QED
    <3>1. heard \in Seq(Accesses \X (1 .. NB_SEG)) /\ Len(heard) = 0
      BY DEF Init
    <3>2. /\ Len(heard) <= NB_SEG + 1
          /\ misreads \in 0 .. MaxMisreads /\ jumped \in BOOLEAN
      <4>1. Len(heard) <= NB_SEG + 1 /\ misreads \in 0 .. MaxMisreads
        BY <3>1, SpiFramesAssumption DEF Init
      <4>2. jumped \in BOOLEAN
        BY Zenon DEF Init
      <4>3. QED
        BY <4>1, <4>2
    <3>3. QED
      <4>1. /\ garbled \in BOOLEAN /\ seg_cnt \in 0 .. 7
            /\ regs \in [Registers -> Values] /\ written \in [Registers -> Values]
        <5>1. garbled \in BOOLEAN
          BY Zenon DEF Init
        <5>2. seg_cnt \in 0 .. 7
          BY DEF Init
        <5>3. regs = ResetRegs /\ written = ResetRegs
          BY DEF Init
        <5>4. QED
          BY <2>1, <5>1, <5>2, <5>3, Zenon
      <4>2. QED
        BY <3>1, <3>2, <4>1 DEF TypeInv
<1>4. QED
  BY <1>1, <1>2, <1>3 DEF LevelInv

\* An edge of the fuser's clock, read right or not.
LEMMA ClockLevel ==
  ASSUME LevelInv, NEW d, NEW out, NEW cnts, Clock(d, out, cnts),
         Agree(d, out, cnts) \/ misreads < MaxMisreads
  PROVE  LevelInv'
<1> USE SpiFramesAssumption
<1>1. /\ {d, out} \cup cnts \subseteq {before, cs_in_n}
      /\ cs_in_d' = d /\ before' = cs_in_n
      /\ held' = IF held < LevelClocks THEN held + 1 ELSE held
      /\ UNCHANGED <<cs_in_n, step, call, sent, written>>
  BY DEF Clock, programVars
<1>2. LineInv'
  <2>1. cs_out_n' \in BOOLEAN
    BY DEF Clock, LevelInv, LineInv
  <2>2. QED
    BY <1>1, <2>1 DEF LevelInv, LineInv
<1>3. ProgramInv'
  BY <1>1 DEF LevelInv, LineInv, ProgramInv
<1>4. TypeInv'
  <2>1. seg_cnt' \in 0 .. 7
    BY DEF Clock, Mixed
  <2>2. misreads' \in 0 .. MaxMisreads /\ jumped' \in BOOLEAN
    <3>1. misreads' \in 0 .. MaxMisreads
      BY DEF LevelInv, TypeInv, Clock
    <3>2. jumped' \in BOOLEAN
      BY DEF LevelInv, TypeInv, Clock
    <3>3. QED
      BY <3>1, <3>2
  <2>3. /\ heard' \in Seq(Accesses \X (1 .. NB_SEG)) /\ Len(heard') <= NB_SEG + 1
        /\ regs' \in [Registers -> Values] /\ garbled' \in BOOLEAN
    <3>1. CASE ~cs_out_n /\ cs_out_n'
      <4>1. Deselected /\ heard' = <<>>
        BY <3>1 DEF Clock
      <4>2. CASE \E c \in Accesses : heard = Bytes(c)
        <5>1. PICK c \in Accesses : heard = Bytes(c)
          BY <4>2
        <5>2. heard[1][1] = c
          BY <5>1 DEF Bytes
        <5>3. regs' = Applied(regs, c) /\ UNCHANGED garbled
          BY <4>1, <4>2, <5>2 DEF Deselected
        <5>4. QED
          BY <4>1, <5>3, AppliedType DEF LevelInv, TypeInv
      <4>3. CASE ~ \E c \in Accesses : heard = Bytes(c)
        BY <4>1, <4>3 DEF Deselected, LevelInv, TypeInv, Values
      <4>4. QED
        BY <4>2, <4>3
    <3>2. CASE ~(~cs_out_n /\ cs_out_n')
      BY <3>2 DEF Clock, chipVars, LevelInv, TypeInv
    <3>3. QED
      BY <3>1, <3>2
  <2>4. QED
    BY <1>1, <2>1, <2>2, <2>3 DEF LevelInv, TypeInv
<1>5. QED
  BY <1>2, <1>3, <1>4 DEF LevelInv

\* What each other action does.
LEMMA NextAccessDoes ==
  ASSUME LevelInv, NextAccess
  PROVE  /\ call = NoCall /\ step \in 1 .. 26
         /\ call' = transceiver_init[step] /\ call' \in Accesses /\ call' # NoCall
         /\ sent' = 0 /\ step' = step + 1 /\ written' = Applied(written, call')
         /\ UNCHANGED <<cs_in_d, cs_out_n, seg_cnt, cs_in_n, before, held, heard,
                        regs, garbled, misreads, jumped>>
<1>1. step \in 1 .. 26
  BY AccessFacts DEF LevelInv, ProgramInv, NextAccess
<1>2. QED
  BY <1>1, AccessFacts
  DEF NextAccess, Begin, fuserVars, lineVars, chipVars, edgeVars

LEMMA BeginByteDoes ==
  ASSUME LevelInv, BeginByte
  PROVE  /\ call # NoCall /\ sent < NB_SEG /\ cs_in_n /\ cs_in_d
         /\ held = LevelClocks
         /\ cs_in_n' = FALSE /\ before' = cs_in_n /\ held' = 0
         /\ UNCHANGED <<cs_in_d, cs_out_n, seg_cnt, step, call, sent, written, heard,
                        regs, garbled, misreads, jumped>>
BY SpiFramesAssumption
DEF BeginByte, BytesLeft, Level, Settled, fuserVars, programVars, chipVars, edgeVars,
    LevelInv, LineInv

LEMMA EndByteDoes ==
  ASSUME LevelInv, EndByte
  PROVE  /\ call # NoCall /\ call \in Accesses /\ sent \in 0 .. NB_SEG - 1
         /\ ~cs_in_n /\ ~cs_in_d /\ held = LevelClocks
         /\ cs_in_n' = TRUE /\ before' = cs_in_n /\ held' = 0 /\ sent' = sent + 1
         /\ heard' = IF cs_out_n \/ Len(heard) > NB_SEG
                     THEN heard ELSE Append(heard, <<call, sent + 1>>)
         /\ UNCHANGED <<cs_in_d, cs_out_n, seg_cnt, step, call, written, regs,
                        garbled, misreads, jumped>>
<1>1. ~cs_in_n /\ ~cs_in_d /\ held = LevelClocks
  BY SpiFramesAssumption DEF EndByte, Settled, LevelInv, LineInv
<1>2. call # NoCall /\ call \in Accesses /\ sent \in 0 .. NB_SEG - 1
  BY <1>1, SpiFramesAssumption DEF LevelInv, ProgramInv
<1>3. QED
  BY <1>1, <1>2 DEF EndByte, Level, fuserVars, edgeVars

LEMMA ReturnDoes ==
  ASSUME LevelInv, Return
  PROVE  /\ call # NoCall /\ sent = NB_SEG /\ cs_in_n /\ cs_in_d
         /\ held = LevelClocks
         /\ call' = NoCall /\ sent' = 0
         /\ \/ step' = step
            \/ call = R("IQIFC0") /\ MayBeSet /\ step = 8 /\ step' = step + 1
         /\ UNCHANGED <<cs_in_d, cs_out_n, seg_cnt, cs_in_n, before, held, heard,
                        regs, garbled, written, misreads, jumped>>
BY SpiFramesAssumption
DEF Return, Over, Settled, fuserVars, lineVars, chipVars, edgeVars, LevelInv,
    LineInv, ProgramInv

LEMMA RelaunchDoes ==
  ASSUME LevelInv, Relaunch
  PROVE  /\ call = NoCall /\ step' = 1
         /\ call' \in {NoCall, W("RST", 7)} /\ call' \in Accesses \cup {NoCall}
         /\ written' = Applied(written, call')
         /\ UNCHANGED <<cs_in_d, cs_out_n, seg_cnt, cs_in_n, before, held, heard,
                        regs, garbled, sent, misreads, jumped>>
BY AccessFacts DEF Relaunch, fuserVars, lineVars, chipVars, edgeVars

\* Every step keeps the types.
LEMMA LevelStep == LevelInv /\ [Next]_vars => LevelInv'
<1> SUFFICES ASSUME LevelInv, [Next]_vars
             PROVE  LevelInv'
  OBVIOUS
<1> USE SpiFramesAssumption
<1>0. NoCall # R("IQIFC0") /\ W("RST", 7) # R("IQIFC0")
  BY DEF NoCall, R, W
<1>1. CASE Read
  <2>1. \A level : Agree(level, level, {level})
    BY DEF Agree
  <2>2. QED
    BY <1>1, <2>1, ClockLevel DEF Read
<1>2. CASE Misread
  <2>1. PICK d \in BOOLEAN, out \in BOOLEAN, cnts \in (SUBSET BOOLEAN) \ {{}} :
          Clock(d, out, cnts)
    BY <1>2 DEF Misread
  <2>2. misreads < MaxMisreads
    BY <1>2 DEF Misread
  <2>3. QED
    BY <2>1, <2>2, ClockLevel
<1>3. CASE NextAccess
  <2>1. LineInv' /\ TypeInv'
    BY <1>3, NextAccessDoes, AppliedType DEF LevelInv, LineInv, TypeInv
  <2>2. call' = R("IQIFC0") => step' = 8
    BY <1>3, NextAccessDoes, Others
  <2>3. ProgramInv'
    BY <1>3, <2>2, NextAccessDoes DEF LevelInv, ProgramInv
  <2>4. QED
    BY <2>1, <2>3 DEF LevelInv
<1>4. CASE BeginByte
  <2>1. LineInv'
    <3>1. cs_in_d' /\ before' /\ ~cs_in_n' /\ held' = 0
      BY <1>4, BeginByteDoes DEF LevelInv, LineInv
    <3>2. {cs_in_d', cs_out_n', cs_in_n', before'} \subseteq BOOLEAN
      BY <1>4, BeginByteDoes DEF LevelInv, LineInv
    <3>3. QED
      BY <3>1, <3>2 DEF LineInv
  <2>2. ProgramInv' /\ TypeInv'
    BY <1>4, BeginByteDoes DEF LevelInv, ProgramInv, TypeInv
  <2>3. QED
    BY <2>1, <2>2 DEF LevelInv
<1>5. CASE EndByte
  <2>1. LineInv'
    <3>1. ~cs_in_d' /\ ~before' /\ cs_in_n' /\ held' = 0
      <4>1. cs_in_d' = cs_in_d /\ before' = cs_in_n /\ ~cs_in_n /\ ~cs_in_d
        BY <1>5, EndByteDoes
      <4>2. cs_in_n' /\ held' = 0
        BY <1>5, EndByteDoes
      <4>3. QED
        BY <4>1, <4>2, Zenon
    <3>2. {cs_in_d', cs_out_n', cs_in_n', before'} \subseteq BOOLEAN
      <4>1. cs_in_d' \in BOOLEAN /\ cs_out_n' \in BOOLEAN /\ before' \in BOOLEAN
        BY <1>5, EndByteDoes DEF LevelInv, LineInv
      <4>2. cs_in_n' \in BOOLEAN
        BY <1>5, EndByteDoes
      <4>3. QED
        BY <4>1, <4>2
    <3>3. QED
      BY <3>1, <3>2 DEF LineInv
  <2>5. ProgramInv'
    <3>1. sent' \in 1 .. NB_SEG
      BY <1>5, EndByteDoes
    <3>2. call' = call /\ call # NoCall /\ cs_in_n' /\ step' = step
      <4>1. cs_in_n'
        BY <1>5, EndByteDoes
      <4>2. call' = call /\ call # NoCall /\ step' = step
        BY <1>5, EndByteDoes
      <4>3. QED
        BY <4>1, <4>2
    <3>3. QED
      BY <3>1, <3>2 DEF LevelInv, ProgramInv
  <2>2. heard' \in Seq(Accesses \X (1 .. NB_SEG)) /\ Len(heard') <= NB_SEG + 1
    <3>1. <<call, sent + 1>> \in Accesses \X (1 .. NB_SEG)
      BY <1>5, EndByteDoes
    <3>2. CASE cs_out_n \/ Len(heard) > NB_SEG
      BY <1>5, <3>2, EndByteDoes DEF LevelInv, TypeInv
    <3>3. CASE ~(cs_out_n \/ Len(heard) > NB_SEG)
      <4>1. heard \in Seq(Accesses \X (1 .. NB_SEG)) /\ Len(heard) <= NB_SEG
        BY <3>3 DEF LevelInv, TypeInv
      <4>2. heard' = Append(heard, <<call, sent + 1>>)
        BY <1>5, <3>3, EndByteDoes
      <4>3. QED
        BY <3>1, <4>1, <4>2, AppendProperties
    <3>4. QED
      BY <3>2, <3>3
  <2>3. TypeInv'
    BY <1>5, <2>2, EndByteDoes DEF LevelInv, TypeInv
  <2>4. QED
    BY <2>1, <2>3, <2>5 DEF LevelInv
<1>6. CASE Return
  <2>1. LineInv' /\ TypeInv'
    BY <1>6, ReturnDoes DEF LevelInv, LineInv, TypeInv
  <2>2. step' \in 1 .. 27
    BY <1>6, ReturnDoes DEF LevelInv, ProgramInv
  <2>3. ProgramInv'
    BY <1>0, <1>6, <2>2, ReturnDoes DEF LevelInv, ProgramInv
  <2>4. QED
    BY <2>1, <2>3 DEF LevelInv
<1>7. CASE Relaunch
  <2>1. LineInv' /\ TypeInv'
    BY <1>7, RelaunchDoes, AppliedType DEF LevelInv, LineInv, TypeInv
  <2>2. ProgramInv'
    BY <1>0, <1>7, RelaunchDoes DEF LevelInv, ProgramInv
  <2>3. QED
    BY <2>1, <2>2 DEF LevelInv
<1>8. CASE UNCHANGED vars
  BY <1>8 DEF vars, fuserVars, lineVars, programVars, chipVars, edgeVars,
              LevelInv, LineInv, ProgramInv, TypeInv
<1>9. QED
  BY <1>1, <1>2, <1>3, <1>4, <1>5, <1>6, <1>7, <1>8 DEF Next

\* The fuser's counter, what the transceiver heard and where the program is in an
\* access of spi.c keep to their ranges, whatever edges are misread.
THEOREM AccessTypes == Spec => []TypeOK
<1>1. LevelInv => TypeOK
  <2>1. Steps = 1 .. 27
    BY AccessFacts DEF Steps
  <2>2. QED
    BY <2>1 DEF LevelInv, LineInv, ProgramInv, TypeInv, TypeOK
<1>2. QED
  BY <1>1, LevelInitially, LevelStep, PTL DEF Spec

-----------------------------------------------------------------------------
\* The fuser has seen no descent of the access yet, or its last ascent.
Apart ==
  \/ call = NoCall
  \/ sent = 0 /\ cs_in_d
  \/ sent = NB_SEG /\ cs_in_n /\ cs_in_d

\* The bytes whose end the fuser has seen.
Seen == IF cs_in_n /\ ~cs_in_d THEN sent - 1 ELSE sent

\* The transceiver is selected exactly while the access lasts and has been given
\* the bytes sent; the fuser has counted the ascents it has seen.
FuserInv ==
  /\ ~garbled
  /\ cs_out_n <=> Apart
  /\ cs_out_n => seg_cnt \in {0, NB_SEG % 8}
  /\ ~cs_out_n => seg_cnt = Seen
  /\ heard = IF cs_out_n THEN <<>> ELSE [i \in 1 .. sent |-> <<call, i>>]
  /\ IF call = NoCall \/ (sent = NB_SEG /\ cs_in_n /\ cs_in_d)
     THEN written = regs ELSE written = Applied(regs, call)

FrameInv == LevelInv /\ (misreads = 0 => FuserInv)

LEMMA FrameInitially == Init => FrameInv
<1>1. Init => misreads = 0 /\ FuserInv
  BY DEF Init, FuserInv, Apart, Seen
<1>2. QED
  BY <1>1, LevelInitially DEF FrameInv

\* The bits of one count are that count.
LEMMA OneCount ==
  ASSUME NEW m \in 0 .. 7
  PROVE  Mixed({m}) = {m}
<1> DEFINE b4(k) == (k \div 4) % 2
           b2(k) == (k \div 2) % 2
           b1(k) == (k \div 1) % 2
<1>1. \A k \in 0 .. 7 : k = 4 * b4(k) + 2 * b2(k) + b1(k)
  OBVIOUS
<1>2. \A k \in Mixed({m}) : k \in 0 .. 7 /\ b4(k) = b4(m) /\ b2(k) = b2(m) /\ b1(k) = b1(m)
  BY DEF Mixed, Bit
<1>3. m \in Mixed({m})
  BY DEF Mixed
<1> HIDE DEF b1, b2, b4
<1>4. \A k \in Mixed({m}) : k = m
  BY <1>1, <1>2
<1>5. QED
  BY <1>3, <1>4

\* What an edge that no register misreads does to the count.
LEMMA Agreed ==
  ASSUME LevelInv, NEW level, Clock(level, level, {level})
  PROVE  /\ seg_cnt' = CountAt(level)
         /\ misreads' = misreads
         /\ jumped' = jumped
<1>1. level \in BOOLEAN /\ seg_cnt \in 0 .. 7
  BY DEF Clock, LevelInv, LineInv, TypeInv
<1>2. /\ CountAt(level) \in 0 .. 7
      /\ CountAt(level) \in {0, (seg_cnt + 1) % 8, seg_cnt}
  BY <1>1 DEF CountAt, FirstCount, Counted
<1>3. {CountAt(l) : l \in {level}} = {CountAt(level)}
  OBVIOUS
<1>4. seg_cnt' \in Mixed({CountAt(level)})
  BY <1>3, Zenon DEF Clock
<1>5. seg_cnt' = CountAt(level)
  BY <1>2, <1>4, OneCount
<1>6. Agree(level, level, {level})
  BY DEF Agree
<1>7. seg_cnt' # seg_cnt + 2
  BY <1>1, <1>2, <1>5
<1>8. misreads' = misreads /\ jumped' = jumped
  BY <1>6, <1>7 DEF Clock
<1>9. QED
  BY <1>5, <1>8

\* An edge of the fuser's clock that no register misreads.
LEMMA ClockStep ==
  ASSUME LevelInv, FuserInv, NEW level, Clock(level, level, {level})
  PROVE  FuserInv'
<1> USE SpiFramesAssumption
<1>1. /\ level \in BOOLEAN /\ level \in {before, cs_in_n}
      /\ cs_in_d' = level /\ before' = cs_in_n
      /\ UNCHANGED <<cs_in_n, step, call, sent, written>>
      /\ LineInv /\ ProgramInv
  BY DEF Clock, LevelInv, LineInv, programVars
<1>2. CASE level = cs_in_d
  <2>1. ~Falling(level) /\ ~Rising(level)
    BY <1>2 DEF Falling, Rising
  <2>2. UNCHANGED <<cs_out_n, seg_cnt, heard, regs, garbled>>
    BY <2>1, Agreed DEF Clock, CountAt, chipVars
  <2>3. QED
    BY <1>1, <1>2, <2>2 DEF FuserInv, Apart, Seen
<1>3. CASE cs_in_d /\ ~level
  <2>1. cs_in_d /\ ~level /\ ~cs_in_n /\ call # NoCall
    BY <1>1, <1>3 DEF LineInv, ProgramInv
  <2>2. CASE sent = 0
    <3>1. cs_out_n /\ Falling(level) /\ ~Rising(level) /\ heard = <<>>
      BY <2>1, <2>2 DEF FuserInv, Apart, Falling, Rising
    <3>2. ~cs_out_n' /\ seg_cnt' = 0
      BY <3>1, Agreed DEF Clock, CountAt, FirstCount
    <3>3. UNCHANGED <<heard, regs, garbled>>
      BY <3>2 DEF Clock, chipVars
    <3>4. heard' = [i \in 1 .. sent |-> <<call, i>>]
      BY <3>1, <3>3, <2>2
    <3>5. QED
      BY <1>1, <2>1, <2>2, <3>2, <3>3, <3>4 DEF FuserInv, Apart, Seen
  <2>3. CASE sent # 0
    <3>1. ~cs_out_n /\ ~Falling(level) /\ ~Rising(level)
      BY <2>1, <2>3 DEF FuserInv, Apart, Falling, Rising
    <3>2. UNCHANGED <<cs_out_n, seg_cnt, heard, regs, garbled>>
      BY <3>1, Agreed DEF Clock, CountAt, chipVars
    <3>3. QED
      BY <1>1, <2>1, <2>3, <3>1, <3>2 DEF FuserInv, Apart, Seen, ProgramInv
  <2>4. QED
    BY <2>2, <2>3
<1>4. CASE ~cs_in_d /\ level
  <2>1. cs_in_n
    <3>1. SUFFICES ASSUME ~cs_in_n PROVE FALSE
      OBVIOUS
    <3>2. before
      BY <1>1, <1>4, <3>1
    <3>3. held \in Nat /\ ~(held > 0)
      BY <1>1, <3>1, <3>2 DEF LineInv
    <3>4. QED
      BY <1>1, <1>4, <3>2, <3>3 DEF LineInv
  <2>2. call # NoCall /\ sent \in 1 .. NB_SEG
    BY <1>1, <1>4, <2>1 DEF ProgramInv
  <2>3. ~cs_out_n /\ seg_cnt = sent - 1 /\ Rising(level) /\ ~Falling(level)
    BY <1>4, <2>1, <2>2 DEF FuserInv, Apart, Seen, Falling, Rising
  <2>4. seg_cnt' = sent % 8
    <3>1. seg_cnt' = Counted
      BY <2>3, Agreed DEF CountAt
    <3>2. (sent - 1) + 1 = sent
      BY <2>2
    <3>3. QED
      BY <2>3, <3>1, <3>2 DEF Counted
  <2>5. CASE sent = NB_SEG
    <3>1. LastByte /\ cs_out_n'
      BY <2>3, <2>5 DEF LastByte, Clock
    <3>2. heard = Bytes(call) /\ call \in Accesses /\ heard[1][1] = call
      BY <1>1, <2>2, <2>3, <2>5 DEF FuserInv, ProgramInv, Bytes
    <3>3. regs' = Applied(regs, call) /\ UNCHANGED garbled /\ heard' = <<>>
      BY <2>3, <3>1, <3>2 DEF Clock, Deselected
    <3>4. written = Applied(regs, call)
      BY <1>4, <2>2 DEF FuserInv
    <3>5. QED
      BY <1>1, <1>4, <2>1, <2>4, <2>5, <3>1, <3>3, <3>4 DEF FuserInv, Apart
  <2>6. CASE sent # NB_SEG
    <3>1. ~LastByte
      BY <2>2, <2>3, <2>6 DEF LastByte
    <3>2. ~cs_out_n' /\ UNCHANGED <<heard, regs, garbled>>
      BY <2>3, <3>1 DEF Clock, chipVars
    <3>3. seg_cnt' = sent
      BY <2>2, <2>4, <2>6
    <3>4. QED
      BY <1>1, <1>4, <2>1, <2>2, <2>3, <2>6, <3>2, <3>3 DEF FuserInv, Apart, Seen
  <2>7. QED
    BY <2>5, <2>6
<1>5. QED
  BY <1>1, <1>2, <1>3, <1>4 DEF LineInv

\* A misread edge is counted.
LEMMA MisreadsStay ==
  ASSUME LevelInv, [Next]_vars
  PROVE  misreads' = misreads \/ (Misread /\ misreads' = misreads + 1)
<1>1. CASE Read
  BY <1>1, Agreed DEF Read
<1>2. CASE Misread
  <2>1. PICK d \in BOOLEAN, out \in BOOLEAN, cnts \in (SUBSET BOOLEAN) \ {{}} :
          ~Agree(d, out, cnts) /\ Clock(d, out, cnts)
    BY <1>2 DEF Misread
  <2>2. misreads' = misreads + 1
    BY <2>1 DEF Clock
  <2>3. QED
    BY <1>2, <2>2
<1>3. CASE ~(Read \/ Misread)
  BY <1>3 DEF Next, vars, edgeVars, NextAccess, BeginByte, EndByte, Return, Relaunch
<1>4. QED
  BY <1>1, <1>2, <1>3

\* Every step keeps the invariant.
LEMMA FrameStep == FrameInv /\ [Next]_vars => FrameInv'
<1> SUFFICES ASSUME FrameInv, [Next]_vars
             PROVE  FrameInv'
  OBVIOUS
<1> USE SpiFramesAssumption
<1>1. LevelInv /\ LevelInv'
  BY LevelStep DEF FrameInv
<1>2. misreads' = 0 => misreads = 0
  <2>1. misreads \in Nat
    BY <1>1 DEF LevelInv, TypeInv
  <2>2. QED
    BY <1>1, <2>1, MisreadsStay
<1> SUFFICES ASSUME misreads' = 0
             PROVE  FuserInv'
  BY <1>1 DEF FrameInv
<1>3. FuserInv /\ misreads = 0
  BY <1>2 DEF FrameInv
<1>4. CASE Read
  BY <1>1, <1>3, <1>4, ClockStep DEF Read
<1>5. CASE Misread
  <2>1. misreads' = misreads + 1
    BY <1>5 DEF Misread, Clock
  <2>2. QED
    BY <1>3, <2>1
<1>6. CASE NextAccess
  <2>1. cs_out_n /\ cs_in_d /\ regs = written
    BY <1>1, <1>3, <1>6, NextAccessDoes DEF FuserInv, Apart, LevelInv, ProgramInv
  <2>2. QED
    BY <1>1, <1>3, <1>6, <2>1, NextAccessDoes DEF FuserInv, Apart
<1>7. CASE BeginByte
  <2>1. (Apart' <=> Apart) /\ Seen' = Seen
    <3>1. /\ call # NoCall /\ sent < NB_SEG /\ cs_in_d
          /\ cs_in_d' = cs_in_d /\ call' = call /\ sent' = sent
      BY <1>1, <1>7, BeginByteDoes
    <3>2. sent \in Nat /\ NB_SEG \in Nat /\ sent # NB_SEG
      BY <1>1, <3>1 DEF LevelInv, ProgramInv
    <3>3. QED
      BY <3>1, <3>2 DEF Apart, Seen
  <2>2. QED
    BY <1>1, <1>3, <1>7, <2>1, BeginByteDoes DEF FuserInv
<1>8. CASE EndByte
  <2>1. ~cs_out_n /\ heard = [i \in 1 .. sent |-> <<call, i>>] /\ seg_cnt = sent
    BY <1>1, <1>3, <1>8, EndByteDoes DEF FuserInv, Apart, Seen
  <2>2. heard' = [i \in 1 .. sent + 1 |-> <<call, i>>]
    <3>1. sent \in Nat /\ sent < NB_SEG /\ Len(heard) = sent
      BY <1>1, <1>8, <2>1, EndByteDoes
    <3>2. heard' = Append(heard, <<call, sent + 1>>)
      BY <1>1, <1>8, <2>1, <3>1, EndByteDoes
    <3>3. QED
      BY <2>1, <3>1, <3>2
  <2>3. ~Apart' /\ ~cs_out_n' /\ Seen' = sent
    BY <1>1, <1>8, <2>1, EndByteDoes DEF Apart, Seen
  <2>4. written' = Applied(regs', call')
    BY <1>1, <1>3, <1>8, EndByteDoes DEF FuserInv
  <2>5. seg_cnt' = sent /\ sent' = sent + 1 /\ ~garbled' /\ call' # NoCall
        /\ call' = call /\ ~cs_in_d'
    BY <1>1, <1>3, <1>8, <2>1, EndByteDoes DEF FuserInv
  <2>6. QED
    BY <2>2, <2>3, <2>4, <2>5 DEF FuserInv
<1>9. CASE Return
  <2>1. cs_out_n /\ written = regs /\ heard = <<>>
    BY <1>1, <1>3, <1>9, ReturnDoes DEF FuserInv, Apart
  <2>2. QED
    BY <1>1, <1>3, <1>9, <2>1, ReturnDoes DEF FuserInv, Apart
<1>10. CASE Relaunch
  <2>1. /\ written = regs /\ sent = 0 /\ cs_in_d /\ cs_in_n /\ cs_out_n
        /\ heard = <<>> /\ sent' = 0 /\ cs_in_d' /\ cs_out_n'
    BY <1>1, <1>3, <1>10, RelaunchDoes
    DEF FuserInv, Apart, LevelInv, ProgramInv
  <2>2. CASE call' = NoCall
    <3>1. written' = regs
      BY <1>1, <1>10, <2>1, <2>2, RelaunchDoes DEF Applied, NoCall
    <3>2. QED
      BY <1>1, <1>3, <1>10, <2>1, <2>2, <3>1, RelaunchDoes DEF FuserInv, Apart
  <2>3. CASE call' # NoCall
    BY <1>1, <1>3, <1>10, <2>1, <2>3, RelaunchDoes DEF FuserInv, Apart
  <2>4. QED
    BY <2>2, <2>3
<1>11. CASE UNCHANGED vars
  BY <1>3, <1>11 DEF vars, fuserVars, lineVars, programVars, chipVars, edgeVars,
                     FuserInv, Apart, Seen
<1>12. QED
  BY <1>4, <1>5, <1>6, <1>7, <1>8, <1>9, <1>10, <1>11 DEF Next

\* While cs_fuser.sv reads every edge right, w8 and r8 of spi.c reach the
\* transceiver as they were made, however often the program is killed and
\* launched again.
THEOREM AccessesCorrect == Spec => []AccessesLand
<1>1. FrameInv => AccessesLand
  BY DEF FrameInv, FuserInv, Apart, AccessesLand
<1>2. QED
  BY <1>1, FrameInitially, FrameStep, PTL DEF Spec

-----------------------------------------------------------------------------
\* What transceiver_init has written so far: the common mode as found or as the
\* LVDS one, and every access behind it.
WrittenInv ==
  /\ written["IQIFC0"] \in {0, 1}
  /\ \A k \in 8 .. 18 : step > k => written[transceiver_init[k].reg] = 1
  /\ step > 23 => written["STATE"] = 5

SetUpInv == FrameInv /\ (misreads = 0 => WrittenInv)

\* What an access makes of the registers.
LEMMA AppliedFacts ==
  ASSUME NEW rs \in [Registers -> Values]
  PROVE  /\ \A s \in 8 .. 18 : Applied(rs, transceiver_init[s])
                               = [rs EXCEPT ![transceiver_init[s].reg] = 1]
         /\ \A s \in 19 .. 26 :
              \/ Applied(rs, transceiver_init[s]) = rs
              \/ \E v : Applied(rs, transceiver_init[s]) = [rs EXCEPT !["STATE"] = v]
         /\ Applied(rs, transceiver_init[23]) = [rs EXCEPT !["STATE"] = 5]
         /\ \A s \in 24 .. 26 : Applied(rs, transceiver_init[s]) = rs
         /\ \A c \in Calls \cup {NoCall} :
              rs["IQIFC0"] \in {0, 1} => Applied(rs, c)["IQIFC0"] \in {0, 1}
<1>1. \A s \in 8 .. 18 : Applied(rs, transceiver_init[s])
                         = [rs EXCEPT ![transceiver_init[s].reg] = 1]
  BY Configuring DEF Applied
<1>2. \A v : Applied(rs, W("CMD", v)) = [rs EXCEPT !["STATE"] = v]
  BY DEF Applied, W
<1>3. ASSUME NEW c, c.op # "write" PROVE Applied(rs, c) = rs
  BY <1>3 DEF Applied
<1>4. \A s \in 19 .. 26 :
        \/ Applied(rs, transceiver_init[s]) = rs
        \/ \E v : Applied(rs, transceiver_init[s]) = [rs EXCEPT !["STATE"] = v]
  <2>1. SUFFICES ASSUME NEW s \in 19 .. 26
                 PROVE  \/ Applied(rs, transceiver_init[s]) = rs
                        \/ \E v : Applied(rs, transceiver_init[s])
                                   = [rs EXCEPT !["STATE"] = v]
    OBVIOUS
  <2>2. \/ transceiver_init[s].op # "write"
        \/ transceiver_init[s] \in {W("CMD", 3), W("CMD", 5)}
    BY Others
  <2>3. QED
    BY <1>2, <1>3, <2>2
<1>5. transceiver_init[23] = W("CMD", 5)
  BY InitList, Zenon
<1>6. Applied(rs, transceiver_init[23]) = [rs EXCEPT !["STATE"] = 5]
  BY <1>2, <1>5
<1>7. \A s \in 24 .. 26 : Applied(rs, transceiver_init[s]) = rs
  BY <1>3, Others
<1>8. ASSUME NEW c \in Calls \cup {NoCall}, rs["IQIFC0"] \in {0, 1}
      PROVE  Applied(rs, c)["IQIFC0"] \in {0, 1}
  <2>1. CASE c.op # "write"
    BY <1>3, <1>8, <2>1
  <2>2. CASE c.op = "write"
    <3>1. c.reg = "IQIFC0" => c.val = 1
      BY <2>2 DEF Calls, R, W, NoCall
    <3>2. ResetRegs["IQIFC0"] \in {0, 1}
      BY AccessFacts DEF ResetRegs
    <3>3. "IQIFC0" \in DOMAIN rs
      BY AccessFacts
    <3>4. QED
      BY <1>8, <2>2, <3>1, <3>2, <3>3 DEF Applied
  <2>3. QED
    BY <2>1, <2>2
<1>9. QED
  BY <1>1, <1>4, <1>6, <1>7, <1>8

\* Every step keeps what has been written.
LEMMA SetUpStep == SetUpInv /\ [Next]_vars => SetUpInv'
<1> SUFFICES ASSUME SetUpInv, [Next]_vars
             PROVE  SetUpInv'
  OBVIOUS
<1>1. FrameInv /\ FrameInv' /\ LevelInv
  BY FrameStep DEF SetUpInv, FrameInv
<1>2. misreads' = 0 => misreads = 0
  <2>1. misreads \in Nat
    BY <1>1 DEF LevelInv, TypeInv
  <2>2. QED
    BY <1>1, <2>1, MisreadsStay
<1> SUFFICES ASSUME misreads' = 0
             PROVE  WrittenInv'
  BY <1>1 DEF SetUpInv
<1>3. WrittenInv /\ FuserInv
  BY <1>1, <1>2 DEF SetUpInv, FrameInv
<1>4. written \in [Registers -> Values] /\ step \in 1 .. 27
  BY <1>1 DEF LevelInv, TypeInv, ProgramInv
<1>5. CASE UNCHANGED <<written, step>>
  BY <1>3, <1>5 DEF WrittenInv
<1>6. CASE NextAccess
  <2>1. /\ step \in 1 .. 26 /\ step' = step + 1
        /\ written' = Applied(written, transceiver_init[step])
    BY <1>1, <1>6, NextAccessDoes
  <2>2. written'["IQIFC0"] \in {0, 1}
    BY <1>3, <1>4, <2>1, AppliedFacts, InitCalls DEF WrittenInv
  <2>3. ASSUME NEW k \in 8 .. 18, step' > k
        PROVE  written'[transceiver_init[k].reg] = 1
    <3>1. /\ transceiver_init[k].reg \in DOMAIN written
          /\ transceiver_init[k].reg # "STATE"
      BY <1>4, AccessFacts, Configuring
    <3>2. k = step \/ written[transceiver_init[k].reg] = 1
      BY <1>3, <2>1, <2>3 DEF WrittenInv
    <3>3. CASE step \in 8 .. 18
      <4>1. written' = [written EXCEPT ![transceiver_init[step].reg] = 1]
        BY <1>4, <2>1, <3>3, AppliedFacts
      <4>2. QED
        BY <3>1, <3>2, <4>1
    <3>4. CASE step \in 19 .. 26
      <4>1. written' = written \/ \E v : written' = [written EXCEPT !["STATE"] = v]
        <5>1. \A s \in 19 .. 26 :
                \/ Applied(written, transceiver_init[s]) = written
                \/ \E v : Applied(written, transceiver_init[s])
                          = [written EXCEPT !["STATE"] = v]
          BY <1>4, AppliedFacts
        <5>2. QED
          BY <2>1, <3>4, <5>1, Zenon
      <4>2. written[transceiver_init[k].reg] = 1
        BY <3>2, <3>4
      <4>3. QED
        BY <3>1, <4>1, <4>2
    <3>5. QED
      BY <2>1, <2>3, <3>3, <3>4
  <2>4. step' > 23 => written'["STATE"] = 5
    <3>1. CASE step = 23
      <4>1. written' = [written EXCEPT !["STATE"] = 5]
        BY <1>4, <2>1, <3>1, AppliedFacts
      <4>2. "STATE" \in DOMAIN written
        BY <1>4, AccessFacts
      <4>3. QED
        BY <4>1, <4>2
    <3>2. CASE step \in 24 .. 26
      <4>1. written' = written
        BY <1>4, <2>1, <3>2, AppliedFacts
      <4>2. QED
        BY <1>3, <3>2, <4>1 DEF WrittenInv
    <3>3. QED
      BY <2>1, <3>1, <3>2
  <2>5. QED
    BY <2>2, <2>3, <2>4 DEF WrittenInv
<1>7. CASE Return
  <2>1. CASE step' = step
    BY <1>1, <1>5, <1>7, <2>1, ReturnDoes
  <2>2. CASE MayBeSet /\ step = 8 /\ step' = step + 1
    <3>1. written["IQIFC0"] = 1 /\ written' = written
      <4>1. regs = written /\ ~garbled /\ written' = written
        BY <1>1, <1>3, <1>7, ReturnDoes DEF FuserInv
      <4>2. QED
        BY <1>3, <2>2, <4>1 DEF MayBeSet, WrittenInv, Unknown
    <3>2. transceiver_init[8] = W("IQIFC0", 1)
      BY InitList, Zenon
    <3>3. transceiver_init[8].reg = "IQIFC0"
      BY <3>2 DEF W
    <3>4. step' = 9 /\ \A k \in 8 .. 18 : 9 > k => k = 8
      BY <2>2
    <3>5. QED
      BY <3>1, <3>3, <3>4 DEF WrittenInv
  <2>3. QED
    BY <1>1, <1>7, <2>1, <2>2, ReturnDoes
<1>8. CASE Relaunch
  <2>1. step' = 1 /\ written' = Applied(written, call') /\ call' \in Calls \cup {NoCall}
    BY <1>1, <1>8, RelaunchDoes DEF Calls
  <2>2. written'["IQIFC0"] \in {0, 1}
    BY <1>3, <1>4, <2>1, AppliedFacts DEF WrittenInv
  <2>3. QED
    BY <2>1, <2>2 DEF WrittenInv
<1>9. QED
  <2>1. CASE Read \/ Misread
    BY <1>5, <2>1 DEF Read, Misread, Clock, programVars
  <2>2. CASE BeginByte \/ EndByte \/ UNCHANGED vars
    BY <1>5, <2>2 DEF BeginByte, EndByte, vars, programVars
  <2>3. QED
    BY <1>6, <1>7, <1>8, <2>1, <2>2 DEF Next

\* A transceiver_init of spi.c that ran to its end with no edge misread left the
\* transceiver configured, with the LVDS common mode, and receiving; also when
\* the common mode was set before, when it did not write it, and when the
\* program was killed and launched again.
THEOREM SetUpDone == Spec => []SetUp
<1>1. Init => SetUpInv
  <2>1. Init => written["IQIFC0"] \in {0, 1} /\ step = 1
    BY AccessFacts DEF Init, ResetRegs
  <2>2. QED
    BY <2>1, FrameInitially DEF SetUpInv, WrittenInv
<1>2. SetUpInv => SetUp
  <2>1. SUFFICES ASSUME SetUpInv, misreads = 0, call = NoCall,
                        step > Len(transceiver_init)
                 PROVE  /\ \A r \in Configured \cup {"IQIFC0"} : regs[r] = 1
                        /\ regs["STATE"] = 5
    BY DEF SetUp
  <2>2. WrittenInv /\ FuserInv /\ step = 27
    BY <2>1, AccessFacts DEF SetUpInv, FrameInv, LevelInv, ProgramInv
  <2>3. regs = written
    BY <2>1, <2>2 DEF FuserInv
  <2>4. \A r \in Configured \cup {"IQIFC0"} :
          \E k \in 8 .. 18 : transceiver_init[k].reg = r
    <3>1. \A r : W(r, 1).reg = r
      BY DEF W
    <3>2. /\ transceiver_init[8].reg = "IQIFC0" /\ transceiver_init[9].reg = "IQIFC1"
          /\ transceiver_init[10].reg = "CS" /\ transceiver_init[11].reg = "CCF0L"
          /\ transceiver_init[12].reg = "CCF0H" /\ transceiver_init[13].reg = "CNL"
          /\ transceiver_init[14].reg = "CNM" /\ transceiver_init[15].reg = "RXBWC"
          /\ transceiver_init[16].reg = "RXDFE" /\ transceiver_init[17].reg = "AGCC"
          /\ transceiver_init[18].reg = "AGCS"
      BY <3>1, InitList, Zenon
    <3>3. QED
      BY <3>2 DEF Configured
  <2>5. QED
    BY <2>2, <2>3, <2>4 DEF WrittenInv
<1>3. QED
  BY <1>1, <1>2, SetUpStep, PTL DEF Spec

-----------------------------------------------------------------------------
(***************************************************************************)
(* After a misread edge.  Either it did nothing, and the fuser goes on as  *)
(* before, or the fuser's count has slipped against the bytes of the       *)
(* access.  Bytes come in threes and so do the counts that release the     *)
(* chip select, so the slip stays: it is released inside an access, never  *)
(* between two.  A count beyond three runs to eight first, which is no     *)
(* multiple of three: only a count that jumped by two over a byte that is  *)
(* still to be counted ends with an access, the third one.                 *)
(***************************************************************************)
Aligned ==
  /\ cs_out_n => \/ call = NoCall
                 \/ sent = 0 /\ cs_in_d
                 \/ sent = NB_SEG /\ cs_in_n
  /\ ~cs_out_n => /\ call # NoCall
                  /\ ~Apart \/ (sent = 0 /\ ~cs_in_n)
                  /\ seg_cnt = Seen

InStep ==
  /\ Aligned /\ ~garbled
  /\ heard = IF cs_out_n THEN <<>> ELSE [i \in 1 .. sent |-> <<call, i>>]

\* The byte of an access with which the count gets to three, or to eight; at
\* eight it starts again, and three bytes later is the same byte of another.
LastCounted == IF seg_cnt < 3 THEN Seen + (3 - seg_cnt) ELSE Seen + (8 - seg_cnt)

OutOfStep ==
  IF cs_out_n
  THEN IF cs_in_d THEN Seen \in {1, 2} ELSE Seen = 0 /\ call # NoCall
  ELSE LastCounted % 3 # 0

Mending == ~cs_out_n /\ ~garbled /\ LastCounted % 3 = 0

Slipped == IF jumped THEN Aligned \/ Mending ELSE InStep \/ OutOfStep

DamageInv ==
  /\ FrameInv
  /\ misreads = 0 => ~jumped
  /\ misreads = 1 => Slipped

\* None of these is a multiple of three.
LEMMA NoThirds == \A n \in {1, 2, 4, 5, 7, 8} : n % 3 # 0
OBVIOUS

\* Where an edge finds the access of three bytes.
LEMMA EdgeFacts ==
  ASSUME NB_SEG = 3, LevelInv, NEW d, NEW out, NEW cnts, Clock(d, out, cnts)
  PROVE  /\ {d, out} \cup cnts \subseteq {before, cs_in_n} /\ d \in BOOLEAN
         /\ out \in BOOLEAN /\ cnts \subseteq BOOLEAN
         /\ cs_in_d' = d /\ UNCHANGED <<cs_in_n, call, sent>>
         /\ seg_cnt \in 0 .. 7 /\ sent \in 0 .. 3 /\ Seen \in 0 .. 3
         /\ cs_in_d /\ ~d => ~cs_in_n /\ sent \in 0 .. 2 /\ call # NoCall
         /\ ~cs_in_d /\ d => cs_in_n /\ sent \in 1 .. 3 /\ call # NoCall
<1>1. /\ {d, out} \cup cnts \subseteq {before, cs_in_n}
      /\ cs_in_d' = d /\ UNCHANGED <<cs_in_n, call, sent>>
  BY DEF Clock, programVars
<1>2. d \in BOOLEAN /\ out \in BOOLEAN /\ cnts \subseteq BOOLEAN
  BY <1>1 DEF LevelInv, LineInv
<1>3. seg_cnt \in 0 .. 7 /\ sent \in 0 .. 3 /\ Seen \in 0 .. 3
  BY DEF LevelInv, TypeInv, ProgramInv, Seen
<1>4. cs_in_d /\ ~d => ~cs_in_n
  BY <1>1 DEF LevelInv, LineInv
<1>5. ~cs_in_d /\ d => cs_in_n
  <2>1. SUFFICES ASSUME ~cs_in_d, d, ~cs_in_n PROVE FALSE
    OBVIOUS
  <2>2. before
    BY <1>1, <2>1
  <2>3. held \in Nat /\ ~(held > 0)
    BY <2>1, <2>2, SpiFramesAssumption DEF LevelInv, LineInv
  <2>4. QED
    BY <2>1, <2>2, <2>3 DEF LevelInv, LineInv
<1>6. /\ ~cs_in_n => sent \in 0 .. 2 /\ call # NoCall
      /\ cs_in_n /\ ~cs_in_d => sent \in 1 .. 3 /\ call # NoCall
  BY DEF LevelInv, ProgramInv
<1>7. QED
  BY <1>1, <1>2, <1>3, <1>4, <1>5, <1>6

\* A count in line with the bytes stays so; the transceiver is selected before
\* the first byte and released after the last.
LEMMA AlignedClock ==
  ASSUME NB_SEG = 3, LevelInv, Aligned, NEW level, Clock(level, level, {level})
  PROVE  /\ Aligned'
         /\ UNCHANGED <<call, sent>>
         /\ \/ UNCHANGED <<cs_out_n, heard, garbled>>
            \/ /\ cs_out_n /\ ~cs_out_n' /\ sent = 0
               /\ UNCHANGED <<heard, garbled>>
            \/ /\ ~cs_out_n /\ cs_out_n' /\ sent = 3 /\ call # NoCall
               /\ heard' = <<>> /\ Deselected
<1>1. /\ level \in BOOLEAN /\ cs_in_d' = level /\ UNCHANGED <<cs_in_n, call, sent>>
      /\ sent \in 0 .. 3
      /\ cs_in_d /\ ~level => ~cs_in_n /\ sent \in 0 .. 2 /\ call # NoCall
      /\ ~cs_in_d /\ level => cs_in_n /\ sent \in 1 .. 3 /\ call # NoCall
  BY EdgeFacts
<1>2. cs_in_d \in BOOLEAN
  BY DEF LevelInv, LineInv
<1>3. CASE level = cs_in_d
  <2>1. ~Falling(level) /\ ~Rising(level)
    BY <1>3 DEF Falling, Rising
  <2>2. UNCHANGED <<cs_out_n, seg_cnt, heard, garbled>>
    BY <2>1, Agreed DEF Clock, CountAt, chipVars
  <2>3. QED
    BY <1>1, <1>3, <2>2 DEF Aligned, Apart, Seen
<1>4. CASE cs_in_d /\ ~level
  <2>1. CASE cs_out_n
    <3>1. sent = 0 /\ Falling(level) /\ ~Rising(level)
      BY <1>1, <1>4, <2>1 DEF Aligned, Falling, Rising
    <3>2. ~cs_out_n' /\ seg_cnt' = 0
      BY <3>1, Agreed DEF Clock, CountAt, FirstCount
    <3>3. UNCHANGED <<heard, garbled>>
      BY <3>2 DEF Clock, chipVars
    <3>4. QED
      BY <1>1, <1>4, <2>1, <3>1, <3>2, <3>3 DEF Aligned, Apart, Seen
  <2>2. CASE ~cs_out_n
    <3>1. UNCHANGED <<cs_out_n, seg_cnt, heard, garbled>>
      BY <1>4, <2>2, Agreed DEF Clock, CountAt, chipVars, Falling, Rising
    <3>2. QED
      BY <1>1, <1>4, <2>2, <3>1 DEF Aligned, Apart, Seen
  <2>3. QED
    BY <2>1, <2>2
<1>5. CASE ~cs_in_d /\ level
  <2>1. CASE cs_out_n
    <3>1. UNCHANGED <<cs_out_n, seg_cnt, heard, garbled>>
      BY <1>5, <2>1, Agreed DEF Clock, CountAt, chipVars, Falling, Rising
    <3>2. QED
      BY <1>1, <1>5, <2>1, <3>1 DEF Aligned, Apart, Seen
  <2>2. CASE ~cs_out_n
    <3>1. seg_cnt = sent - 1 /\ Rising(level) /\ ~Falling(level)
      BY <1>1, <1>5, <2>2 DEF Aligned, Seen, Falling, Rising
    <3>2. seg_cnt' = sent
      <4>1. seg_cnt' = Counted
        BY <3>1, Agreed DEF CountAt
      <4>2. QED
        BY <1>1, <1>5, <3>1, <4>1 DEF Counted
    <3>3. CASE sent = 3
      <4>1. cs_out_n' /\ Deselected /\ heard' = <<>>
        BY <2>2, <3>1, <3>3 DEF Clock, LastByte
      <4>2. QED
        BY <1>1, <1>5, <2>2, <3>3, <4>1 DEF Aligned
    <3>4. CASE sent # 3
      <4>1. ~LastByte
        BY <1>1, <1>5, <3>1, <3>4 DEF LastByte
      <4>2. ~cs_out_n' /\ UNCHANGED <<cs_out_n, heard, garbled>>
        BY <2>2, <3>1, <4>1 DEF Clock, chipVars
      <4>3. Seen' = sent /\ ~Apart' /\ call' # NoCall
        BY <1>1, <1>5, <3>4 DEF Apart, Seen
      <4>4. Aligned'
        BY <3>2, <4>2, <4>3 DEF Aligned
      <4>5. QED
        BY <1>1, <4>2, <4>4
    <3>5. QED
      BY <3>3, <3>4
  <2>3. QED
    BY <2>1, <2>2
<1>6. QED
  BY <1>1, <1>2, <1>3, <1>4, <1>5

\* A fuser in step stays in step.
LEMMA InStepClock ==
  ASSUME NB_SEG = 3, LevelInv, InStep, NEW level, Clock(level, level, {level})
  PROVE  InStep'
<1>1. Aligned' /\ UNCHANGED <<call, sent>>
  BY AlignedClock DEF InStep
<1>2. CASE UNCHANGED <<cs_out_n, heard, garbled>>
  BY <1>1, <1>2 DEF InStep
<1>3. CASE cs_out_n /\ ~cs_out_n' /\ sent = 0 /\ UNCHANGED <<heard, garbled>>
  <2>1. heard' = [i \in 1 .. sent |-> <<call, i>>]
    BY <1>3 DEF InStep
  <2>2. QED
    BY <1>1, <1>3, <2>1 DEF InStep
<1>4. CASE /\ ~cs_out_n /\ cs_out_n' /\ sent = 3 /\ call # NoCall
           /\ heard' = <<>> /\ Deselected
  <2>1. heard = Bytes(call) /\ call \in Accesses
    BY <1>4 DEF InStep, Bytes, LevelInv, ProgramInv
  <2>2. UNCHANGED garbled
    BY <1>4, <2>1 DEF Deselected
  <2>3. QED
    BY <1>1, <1>4, <2>2 DEF InStep
<1>5. QED
  BY <1>2, <1>3, <1>4, AlignedClock DEF InStep

\* While the transceiver is selected the count ends with the same byte, and it is
\* released at that byte.
LEMMA SelectedClock ==
  ASSUME NB_SEG = 3, LevelInv, ~cs_out_n, NEW level, Clock(level, level, {level})
  PROVE  \/ /\ ~cs_out_n' /\ UNCHANGED garbled
            /\ LastCounted % 3 = 0 <=> LastCounted' % 3 = 0
         \/ /\ cs_out_n' /\ cs_in_d' /\ cs_in_n'
            /\ Seen \in 0 .. 2 /\ LastCounted = Seen + 1
            /\ Seen' = Seen + 1 /\ sent' = Seen'
<1>1. /\ level \in BOOLEAN /\ cs_in_d' = level /\ UNCHANGED <<cs_in_n, call, sent>>
      /\ seg_cnt \in 0 .. 7 /\ sent \in 0 .. 3 /\ Seen \in 0 .. 3
      /\ cs_in_d /\ ~level => ~cs_in_n /\ sent \in 0 .. 2 /\ call # NoCall
      /\ ~cs_in_d /\ level => cs_in_n /\ sent \in 1 .. 3 /\ call # NoCall
  BY EdgeFacts
<1>2. cs_in_d \in BOOLEAN
  BY DEF LevelInv, LineInv
<1>3. CASE ~(~cs_in_d /\ level)
  <2>1. UNCHANGED <<cs_out_n, seg_cnt, garbled>>
    <3>1. ~Falling(level) /\ ~Rising(level)
      BY <1>3 DEF Falling, Rising
    <3>2. QED
      BY <3>1, Agreed DEF Clock, CountAt, chipVars
  <2>2. Seen' = Seen
    BY <1>1, <1>2, <1>3 DEF Seen
  <2>3. QED
    BY <2>1, <2>2 DEF LastCounted
<1>4. CASE ~cs_in_d /\ level
  <2>1. /\ Seen \in 0 .. 2 /\ Seen' = Seen + 1 /\ sent' = Seen'
        /\ cs_in_d' /\ cs_in_n'
    BY <1>1, <1>4 DEF Seen
  <2>2. CASE seg_cnt = 2
    <3>1. cs_out_n'
      BY <1>4, <2>2 DEF Clock, Falling, Rising, LastByte
    <3>2. LastCounted = Seen + 1
      BY <2>1, <2>2 DEF LastCounted
    <3>3. QED
      BY <2>1, <3>1, <3>2
  <2>3. CASE seg_cnt # 2
    <3>1. ~cs_out_n' /\ UNCHANGED garbled
      BY <1>1, <1>4, <2>3 DEF Clock, chipVars, Falling, Rising, LastByte
    <3>2. seg_cnt' = (seg_cnt + 1) % 8
      BY <1>4, <2>3, Agreed DEF CountAt, Falling, Rising, Counted
    <3>3. CASE seg_cnt \in {0, 1, 3, 4, 5, 6}
      <4>1. seg_cnt' = seg_cnt + 1
        BY <3>2, <3>3
      <4>2. LastCounted' = LastCounted
        BY <2>1, <3>3, <4>1 DEF LastCounted
      <4>3. QED
        BY <3>1, <4>2
    <3>4. CASE seg_cnt = 7
      <4>1. seg_cnt' = 0
        BY <3>2, <3>4
      <4>2. LastCounted = Seen + 1 /\ LastCounted' = Seen + 4
        BY <2>1, <3>4, <4>1 DEF LastCounted
      <4>3. LastCounted % 3 = 0 <=> LastCounted' % 3 = 0
        BY <2>1, <4>2
      <4>4. QED
        BY <3>1, <4>3
    <3>5. QED
      BY <1>1, <2>3, <3>3, <3>4
  <2>4. QED
    BY <2>2, <2>3
<1>5. QED
  BY <1>3, <1>4

\* A fuser out of step stays out of step.
LEMMA OutOfStepClock ==
  ASSUME NB_SEG = 3, LevelInv, OutOfStep, NEW level, Clock(level, level, {level})
  PROVE  OutOfStep'
<1>1. /\ level \in BOOLEAN /\ cs_in_d' = level /\ UNCHANGED <<cs_in_n, call, sent>>
      /\ sent \in 0 .. 3 /\ Seen \in 0 .. 3
      /\ cs_in_d /\ ~level => ~cs_in_n /\ sent \in 0 .. 2 /\ call # NoCall
      /\ ~cs_in_d /\ level => cs_in_n /\ sent \in 1 .. 3 /\ call # NoCall
  BY EdgeFacts
<1>2. cs_in_d \in BOOLEAN
  BY DEF LevelInv, LineInv
<1>3. CASE ~cs_out_n
  <2>1. LastCounted % 3 # 0
    BY <1>3 DEF OutOfStep
  <2>2. CASE ~cs_out_n' /\ (LastCounted % 3 = 0 <=> LastCounted' % 3 = 0)
    BY <2>1, <2>2 DEF OutOfStep
  <2>3. CASE /\ cs_out_n' /\ cs_in_d' /\ Seen \in 0 .. 2 /\ LastCounted = Seen + 1
             /\ Seen' = Seen + 1
    <3>1. Seen' \in {1, 2}
      BY <2>1, <2>3
    <3>2. QED
      BY <2>3, <3>1 DEF OutOfStep
  <2>4. QED
    BY <1>3, <2>2, <2>3, SelectedClock
<1>4. CASE cs_out_n /\ level = cs_in_d
  <2>1. UNCHANGED cs_out_n
    BY <1>4 DEF Clock, Falling, Rising
  <2>2. Seen' = Seen
    BY <1>1, <1>4 DEF Seen
  <2>3. QED
    BY <1>1, <1>4, <2>1, <2>2 DEF OutOfStep
<1>5. CASE cs_out_n /\ cs_in_d /\ ~level
  <2>1. Seen' = Seen /\ Seen \in {1, 2}
    BY <1>1, <1>5 DEF Seen, OutOfStep
  <2>2. Falling(level) /\ ~Rising(level)
    BY <1>5 DEF Falling, Rising
  <2>3. ~cs_out_n' /\ seg_cnt' = 0
    BY <2>2, Agreed DEF Clock, CountAt, FirstCount
  <2>4. LastCounted' \in {4, 5}
    BY <2>1, <2>3 DEF LastCounted
  <2>5. LastCounted' % 3 # 0
    BY <2>4, NoThirds
  <2>6. QED
    BY <2>3, <2>5 DEF OutOfStep
<1>6. CASE cs_out_n /\ ~cs_in_d /\ level
  <2>1. UNCHANGED cs_out_n /\ Seen = 0
    BY <1>6 DEF Clock, Falling, Rising, OutOfStep
  <2>2. Seen' = Seen + 1 /\ cs_in_d'
    BY <1>1, <1>6 DEF Seen
  <2>3. QED
    BY <1>6, <2>1, <2>2 DEF OutOfStep
<1>7. QED
  BY <1>1, <1>2, <1>3, <1>4, <1>5, <1>6

\* A count that jumped by two goes on until it ends with an access.
LEMMA MendingClock ==
  ASSUME NB_SEG = 3, LevelInv, Mending, NEW level, Clock(level, level, {level})
  PROVE  Aligned' \/ Mending'
<1>1. ~cs_out_n /\ ~garbled /\ LastCounted % 3 = 0
  BY DEF Mending
<1>2. CASE /\ ~cs_out_n' /\ UNCHANGED garbled
           /\ LastCounted % 3 = 0 <=> LastCounted' % 3 = 0
  BY <1>1, <1>2 DEF Mending
<1>3. CASE /\ cs_out_n' /\ cs_in_d' /\ cs_in_n'
           /\ Seen \in 0 .. 2 /\ LastCounted = Seen + 1
           /\ Seen' = Seen + 1 /\ sent' = Seen'
  <2>1. sent' = 3
    BY <1>1, <1>3
  <2>2. QED
    BY <1>3, <2>1 DEF Aligned
<1>4. QED
  BY <1>1, <1>2, <1>3, SelectedClock

\* Two counts whose bits are mixed.
LEMMA MixedCounts ==
  ASSUME NEW S
  PROVE  /\ S \subseteq {0} => Mixed(S) \subseteq {0}
         /\ S \subseteq {0, 3} => Mixed(S) \subseteq 0 .. 3
         /\ S \subseteq {0, 1} => Mixed(S) \subseteq {0, 1}
         /\ S \subseteq {1, 2} => Mixed(S) \subseteq 0 .. 3
         /\ S \subseteq {2, 3} => Mixed(S) \subseteq {2, 3}
<1>1. /\ \A m \in {0, 1, 2, 3} : Bit(m, 4) = 0
      /\ \A m \in {0, 1} : Bit(m, 2) = 0
      /\ \A m \in {2, 3} : Bit(m, 2) = 1
      /\ Bit(0, 1) = 0
  BY DEF Bit
<1>2. \A k \in 0 .. 7 : /\ Bit(k, 4) = 0 => k \in 0 .. 3
                        /\ Bit(k, 4) = 0 /\ Bit(k, 2) = 0 => k \in {0, 1}
                        /\ Bit(k, 4) = 0 /\ Bit(k, 2) = 1 => k \in {2, 3}
                        /\ Bit(k, 4) = 0 /\ Bit(k, 2) = 0 /\ Bit(k, 1) = 0 => k = 0
  BY DEF Bit
<1>3. \A k \in Mixed(S) : /\ k \in 0 .. 7
                          /\ \E m \in S : Bit(k, 1) = Bit(m, 1)
                          /\ \E m \in S : Bit(k, 2) = Bit(m, 2)
                          /\ \E m \in S : Bit(k, 4) = Bit(m, 4)
  BY DEF Mixed
<1> HIDE DEF Bit
<1>4. S \subseteq {0} => Mixed(S) \subseteq {0}
  BY <1>1, <1>2, <1>3
<1>5. S \subseteq {0, 3} => Mixed(S) \subseteq 0 .. 3
  BY <1>1, <1>2, <1>3
<1>6. S \subseteq {0, 1} => Mixed(S) \subseteq {0, 1}
  BY <1>1, <1>2, <1>3
<1>7. S \subseteq {1, 2} => Mixed(S) \subseteq 0 .. 3
  BY <1>1, <1>2, <1>3
<1>8. S \subseteq {2, 3} => Mixed(S) \subseteq {2, 3}
  BY <1>1, <1>2, <1>3
<1>9. QED
  BY <1>4, <1>5, <1>6, <1>7, <1>8

\* The first misread edge does nothing, brings the fuser out of step or makes
\* its count jump by two.
LEMMA MisreadStep ==
  ASSUME NB_SEG = 3, LevelInv, FuserInv, ~jumped, Misread
  PROVE  Slipped'
<1>1. PICK d \in BOOLEAN, out \in BOOLEAN, cnts \in (SUBSET BOOLEAN) \ {{}} :
        ~Agree(d, out, cnts) /\ Clock(d, out, cnts)
  BY DEF Misread
<1>0. \E level \in cnts : TRUE
  <2>1. cnts # {}
    OBVIOUS
  <2>2. QED
    BY <2>1
<1>2. /\ {d, out} \cup cnts \subseteq {before, cs_in_n}
      /\ cs_in_d' = d /\ UNCHANGED <<cs_in_n, call, sent>>
      /\ sent \in 0 .. 3 /\ seg_cnt \in 0 .. 7
  BY <1>1, EdgeFacts
<1>3. held = 0 /\ (cs_in_d <=> before) /\ (before <=> ~cs_in_n) /\ cs_in_d \in BOOLEAN
  <2>1. before # cs_in_n
    <3>1. SUFFICES ASSUME before = cs_in_n PROVE FALSE
      OBVIOUS
    <3>2. d = before /\ out = before /\ \A level \in cnts : level = before
      BY <1>2, <3>1
    <3>3. cnts = {before}
      BY <1>0, <3>2
    <3>4. QED
      BY <1>1, <3>2, <3>3 DEF Agree
  <2>2. QED
    BY <2>1, SpiFramesAssumption DEF LevelInv, LineInv
<1>4. jumped' <=> seg_cnt' = seg_cnt + 2 /\ ~d
  <2>1. jumped' = IF seg_cnt' = seg_cnt + 2 /\ ~d THEN TRUE ELSE jumped
    BY <1>1 DEF Clock
  <2>2. QED
    BY <2>1, Zenon
<1> DEFINE counts == {CountAt(level) : level \in cnts}
<1>5. seg_cnt' \in Mixed(counts)
  BY <1>1 DEF Clock
<1>6. CASE cs_in_d
  <2>1. ~cs_in_n /\ sent \in 0 .. 2 /\ call # NoCall
    BY <1>2, <1>3, <1>6 DEF LevelInv, ProgramInv
  <2>2. CASE sent = 0
    <3>1. cs_out_n /\ heard = <<>> /\ seg_cnt \in {0, 3} /\ ~garbled
      BY <1>6, <2>2 DEF FuserInv, Apart
    <3>2. UNCHANGED <<heard, garbled>>
      BY <1>1, <1>6, <3>1 DEF Clock, chipVars, Rising
    <3>3. cs_out_n' = out
      BY <1>1, <1>6, <3>1 DEF Clock, Falling, Rising
    <3>4. \A level : CountAt(level) \in {0, seg_cnt}
      BY <1>6 DEF CountAt, Rising, FirstCount
    <3>5. (seg_cnt = 0 => seg_cnt' = 0) /\ seg_cnt' \in 0 .. 3
      <4>1. CASE seg_cnt = 0
        BY <1>5, <3>4, <4>1, MixedCounts
      <4>2. CASE seg_cnt = 3
        BY <1>5, <3>4, <4>2, MixedCounts
      <4>3. QED
        BY <3>1, <4>1, <4>2
    <3>6. ~jumped'
      BY <1>4, <3>1, <3>5
    <3>7. /\ Seen' = 0 /\ ~cs_in_n' /\ sent' = 0 /\ call' # NoCall /\ ~garbled'
          /\ heard' = <<>>
      BY <1>2, <2>1, <2>2, <3>1, <3>2 DEF Seen
    <3>8. CASE out /\ d
      <4>1. InStep'
        BY <1>2, <3>3, <3>7, <3>8 DEF InStep, Aligned
      <4>2. QED
        BY <3>6, <4>1 DEF Slipped
    <3>9. CASE out /\ ~d
      <4>1. OutOfStep'
        BY <1>2, <3>3, <3>7, <3>9 DEF OutOfStep
      <4>2. QED
        BY <3>6, <4>1 DEF Slipped
    <3>10. CASE ~out /\ seg_cnt' = 0
      <4>1. heard' = [i \in 1 .. sent' |-> <<call', i>>]
        BY <3>7
      <4>2. InStep'
        BY <1>2, <3>3, <3>7, <3>10, <4>1 DEF InStep, Aligned
      <4>3. QED
        BY <3>6, <4>2 DEF Slipped
    <3>11. CASE ~out /\ seg_cnt' # 0
      <4>1. LastCounted' \in {2, 1, 5}
        <5>1. seg_cnt' \in {1, 2, 3}
          BY <3>5, <3>11
        <5>2. Seen' + (3 - 1) = 2 /\ Seen' + (3 - 2) = 1 /\ Seen' + (8 - 3) = 5
          BY <3>7
        <5>3. QED
          BY <5>1, <5>2 DEF LastCounted
      <4>2. LastCounted' % 3 # 0
        BY <4>1, NoThirds
      <4>3. OutOfStep'
        BY <3>3, <3>11, <4>2 DEF OutOfStep
      <4>4. QED
        BY <3>6, <4>3 DEF Slipped
    <3>12. QED
      BY <1>1, <3>8, <3>9, <3>10, <3>11
  <2>3. CASE sent # 0
    <3>1. ~cs_out_n /\ seg_cnt = sent
      BY <1>2, <1>6, <2>1, <2>3 DEF FuserInv, Apart, Seen
    <3>2. UNCHANGED <<cs_out_n, heard, garbled>>
      BY <1>1, <1>6, <3>1 DEF Clock, chipVars, Falling, Rising
    <3>3. seg_cnt' = seg_cnt
      <4>1. \A level : CountAt(level) = seg_cnt
        BY <1>6, <3>1 DEF CountAt, Falling, Rising
      <4>2. counts = {seg_cnt}
        BY <1>0, <4>1
      <4>3. QED
        BY <1>2, <1>5, <4>2, OneCount
    <3>4. InStep'
      BY <1>2, <2>1, <2>3, <3>1, <3>2, <3>3 DEF InStep, Aligned, FuserInv, Apart, Seen
    <3>5. ~jumped'
      BY <1>2, <1>4, <3>3
    <3>6. QED
      BY <3>4, <3>5 DEF Slipped
  <2>4. QED
    BY <2>2, <2>3
<1>7. CASE ~cs_in_d
  <2>1. cs_in_n /\ sent \in 1 .. 3 /\ call # NoCall
    BY <1>2, <1>3, <1>7 DEF LevelInv, ProgramInv
  <2>2. /\ ~cs_out_n /\ seg_cnt = sent - 1 /\ ~garbled
        /\ heard = [i \in 1 .. sent |-> <<call, i>>]
    BY <1>7, <2>1 DEF FuserInv, Apart, Seen
  <2>3. \A level : CountAt(level) \in {sent - 1, sent}
    BY <1>7, <2>1, <2>2 DEF CountAt, Falling, Counted
  <2>4. /\ sent = 1 => seg_cnt' \in {0, 1}
        /\ sent = 2 => seg_cnt' \in 0 .. 3
        /\ sent = 3 => seg_cnt' \in {2, 3}
    <3>1. counts \subseteq {sent - 1, sent}
      BY <2>3
    <3>2. CASE sent = 1
      BY <1>5, <3>1, <3>2, MixedCounts
    <3>3. CASE sent = 2
      BY <1>5, <3>1, <3>3, MixedCounts
    <3>4. CASE sent = 3
      BY <1>5, <3>1, <3>4, MixedCounts
    <3>5. QED
      BY <2>1, <3>2, <3>3, <3>4
  <2>5. cs_out_n' <=> out /\ sent = 3
    BY <1>1, <1>7, <2>1, <2>2 DEF Clock, Falling, Rising, LastByte
  <2>6. Seen' = IF d THEN sent ELSE sent - 1
    BY <1>2, <2>1 DEF Seen
  <2>7. jumped' <=> sent = 2 /\ seg_cnt' = 3 /\ ~d
    BY <1>4, <2>1, <2>2, <2>4
  <2>8. CASE out /\ sent = 3
    <3>1. cs_out_n' /\ Deselected /\ heard' = <<>>
      BY <1>1, <2>2, <2>5, <2>8 DEF Clock
    <3>2. heard = Bytes(call) /\ call \in Accesses
      BY <2>1, <2>2, <2>8 DEF Bytes, LevelInv, ProgramInv
    <3>3. UNCHANGED garbled
      BY <3>1, <3>2 DEF Deselected
    <3>4. InStep'
      BY <1>2, <2>1, <2>2, <2>8, <3>1, <3>3 DEF InStep, Aligned
    <3>5. QED
      BY <2>7, <2>8, <3>4 DEF Slipped
  <2>9. CASE ~(out /\ sent = 3)
    <3>1. ~cs_out_n' /\ UNCHANGED <<heard, garbled>>
      BY <1>1, <2>2, <2>5, <2>9 DEF Clock, chipVars
    <3>2. CASE seg_cnt' = Seen' /\ ~(d /\ sent = 3)
      <4>1. ~jumped'
        BY <2>6, <2>7, <3>2
      <4>2. InStep'
        BY <1>2, <2>1, <2>2, <3>1, <3>2 DEF InStep, Aligned, Apart
      <4>3. QED
        BY <4>1, <4>2 DEF Slipped
    <3>3. CASE jumped'
      <4>1. LastCounted' = 6
        BY <2>6, <2>7, <3>3 DEF LastCounted
      <4>2. Mending'
        BY <2>2, <3>1, <4>1 DEF Mending
      <4>3. QED
        BY <3>3, <4>2 DEF Slipped
    <3>4. CASE ~jumped' /\ ~(seg_cnt' = Seen' /\ ~(d /\ sent = 3))
      <4>1. LastCounted' \in {2, 4, 5, 7, 8}
        <5>1. CASE d
          BY <2>1, <2>4, <2>6, <3>4, <5>1 DEF LastCounted
        <5>2. CASE ~d
          BY <2>1, <2>4, <2>6, <2>7, <3>4, <5>2 DEF LastCounted
        <5>3. QED
          BY <5>1, <5>2
      <4>2. LastCounted' % 3 # 0
        BY <4>1, NoThirds
      <4>3. OutOfStep'
        BY <3>1, <4>2 DEF OutOfStep
      <4>4. QED
        BY <3>4, <4>3 DEF Slipped
    <3>5. QED
      BY <3>2, <3>3, <3>4
  <2>10. QED
    BY <2>8, <2>9
<1>8. QED
  BY <1>3, <1>6, <1>7

\* No other step brings the fuser in or out of step.
LEMMA OtherSteps ==
  ASSUME NB_SEG = 3, LevelInv,
         NextAccess \/ BeginByte \/ EndByte \/ Return \/ Relaunch \/ UNCHANGED vars
  PROVE  /\ Aligned => Aligned'
         /\ InStep => InStep'
         /\ OutOfStep => OutOfStep'
         /\ Mending => Mending'
         /\ jumped' = jumped
<1>1. seg_cnt \in 0 .. 7 /\ sent \in 0 .. 3 /\ Seen \in 0 .. 3
  BY DEF LevelInv, TypeInv, ProgramInv, Seen
<1>2. call = NoCall => sent = 0 /\ cs_in_n /\ cs_in_d
  BY DEF LevelInv, ProgramInv
<1>3. CASE NextAccess
  <2>1. /\ sent = 0 /\ sent' = 0 /\ call = NoCall /\ call' # NoCall /\ cs_in_d /\ cs_in_n
        /\ UNCHANGED <<cs_in_d, cs_out_n, seg_cnt, cs_in_n, heard, garbled, jumped>>
    BY <1>2, <1>3, NextAccessDoes
  <2>2. Seen' = Seen /\ (LastCounted' = LastCounted)
    BY <2>1 DEF Seen, LastCounted
  <2>3. QED
    BY <2>1, <2>2 DEF InStep, Aligned, OutOfStep, Mending, Apart
<1>4. CASE BeginByte
  <2>1. /\ call # NoCall /\ sent \in 0 .. 2 /\ cs_in_n /\ cs_in_d /\ cs_in_n' = FALSE
        /\ UNCHANGED <<cs_in_d, cs_out_n, seg_cnt, call, sent, heard, garbled, jumped>>
    BY <1>1, <1>4, BeginByteDoes
  <2>2. Seen' = Seen /\ (LastCounted' = LastCounted)
    BY <2>1 DEF Seen, LastCounted
  <2>3. QED
    BY <2>1, <2>2 DEF InStep, Aligned, OutOfStep, Mending, Apart
<1>5. CASE EndByte
  <2>1. /\ call # NoCall /\ sent \in 0 .. 2 /\ ~cs_in_n /\ ~cs_in_d /\ cs_in_n' = TRUE
        /\ sent' = sent + 1
        /\ heard' = IF cs_out_n \/ Len(heard) > NB_SEG
                    THEN heard ELSE Append(heard, <<call, sent + 1>>)
        /\ UNCHANGED <<cs_in_d, cs_out_n, seg_cnt, call, garbled, jumped>>
    BY <1>5, EndByteDoes
  <2>2. Seen' = Seen /\ (LastCounted' = LastCounted)
    BY <2>1 DEF Seen, LastCounted
  <2>3. (OutOfStep => OutOfStep') /\ (Mending => Mending') /\ (jumped' = jumped)
    BY <2>1, <2>2 DEF OutOfStep, Mending
  <2>4. ASSUME Aligned PROVE Aligned'
    BY <2>1, <2>2, <2>4 DEF Aligned, Apart
  <2>5. ASSUME InStep PROVE InStep'
    <3>1. ~cs_out_n
      BY <2>1, <2>5 DEF InStep, Aligned
    <3>2. heard = [i \in 1 .. sent |-> <<call, i>>] /\ Len(heard) = sent
      BY <2>1, <2>5, <3>1 DEF InStep
    <3>3. heard' = Append(heard, <<call, sent + 1>>)
      BY <2>1, <3>1, <3>2
    <3>4. heard' = [i \in 1 .. sent' |-> <<call', i>>]
      <4>1. sent \in Nat
        BY <2>1
      <4>2. heard' = [i \in 1 .. sent + 1 |-> <<call, i>>]
        BY <3>2, <3>3, <4>1
      <4>3. QED
        BY <2>1, <4>2
    <3>5. QED
      BY <2>1, <2>4, <2>5, <3>1, <3>4 DEF InStep
  <2>6. QED
    BY <2>3, <2>4, <2>5
<1>6. CASE Return
  <2>1. /\ call # NoCall /\ sent = 3 /\ cs_in_n /\ cs_in_d /\ call' = NoCall /\ sent' = 0
        /\ UNCHANGED <<cs_in_d, cs_out_n, seg_cnt, cs_in_n, heard, garbled, jumped>>
    BY <1>6, ReturnDoes
  <2>2. (Aligned => Aligned') /\ (InStep => InStep')
    BY <2>1 DEF InStep, Aligned, Apart, Seen
  <2>3. Seen = 3 /\ Seen' = 0
    BY <2>1 DEF Seen
  <2>4. LastCounted % 3 = 0 <=> LastCounted' % 3 = 0
    <3>1. LastCounted' \in 1 .. 8 /\ LastCounted = LastCounted' + 3
      BY <1>1, <2>1, <2>3 DEF LastCounted
    <3>2. \A n \in 1 .. 8 : n % 3 = 0 <=> (n + 3) % 3 = 0
      OBVIOUS
    <3>3. QED
      BY <3>1, <3>2
  <2>5. (OutOfStep => OutOfStep') /\ (Mending => Mending')
    BY <2>1, <2>3, <2>4 DEF OutOfStep, Mending
  <2>6. QED
    BY <2>1, <2>2, <2>5
<1>7. CASE Relaunch
  <2>1. /\ call = NoCall /\ sent = 0 /\ cs_in_d /\ cs_in_n
        /\ UNCHANGED <<cs_in_d, cs_out_n, seg_cnt, cs_in_n, heard, garbled, sent,
                       jumped>>
    BY <1>2, <1>7, RelaunchDoes
  <2>2. Seen' = Seen /\ (LastCounted' = LastCounted)
    BY <2>1 DEF Seen, LastCounted
  <2>3. QED
    BY <2>1, <2>2 DEF InStep, Aligned, OutOfStep, Mending, Apart, Seen
<1>8. CASE UNCHANGED vars
  BY <1>8 DEF vars, fuserVars, lineVars, programVars, chipVars, edgeVars, InStep,
              Aligned, OutOfStep, Mending, LastCounted, Apart, Seen
<1>9. QED
  BY <1>3, <1>4, <1>5, <1>6, <1>7, <1>8

\* Every step keeps the fuser in step, or out of step, once an edge was misread.
LEMMA DamageStep ==
  ASSUME NB_SEG = 3
  PROVE  DamageInv /\ [Next]_vars => DamageInv'
<1> SUFFICES ASSUME DamageInv, [Next]_vars
             PROVE  DamageInv'
  OBVIOUS
<1>1. FrameInv' /\ LevelInv /\ misreads \in Nat
  BY FrameStep DEF DamageInv, FrameInv, LevelInv, TypeInv
<1>2. CASE Misread
  <2>1. PICK d \in BOOLEAN, out \in BOOLEAN, cnts \in (SUBSET BOOLEAN) \ {{}} :
          ~Agree(d, out, cnts) /\ Clock(d, out, cnts)
    BY <1>2 DEF Misread
  <2>2. misreads' = misreads + 1
    BY <2>1 DEF Clock
  <2>3. misreads = 0 => Slipped'
    BY <1>1, <1>2, MisreadStep DEF DamageInv, FrameInv
  <2>4. QED
    BY <1>1, <2>2, <2>3 DEF DamageInv
<1>3. CASE Read
  <2>1. PICK level \in {before, cs_in_n} : Clock(level, level, {level})
    BY <1>3 DEF Read
  <2>2. misreads' = misreads /\ jumped' = jumped
    BY <1>1, <2>1, Agreed
  <2>3. Slipped => Slipped'
    BY <1>1, <2>1, <2>2, AlignedClock, MendingClock, InStepClock, OutOfStepClock
    DEF Slipped
  <2>4. QED
    BY <1>1, <2>2, <2>3 DEF DamageInv
<1>4. CASE ~(Read \/ Misread)
  <2>1. /\ NextAccess \/ BeginByte \/ EndByte \/ Return \/ Relaunch \/ UNCHANGED vars
        /\ misreads' = misreads
    BY <1>1, <1>4, MisreadsStay DEF Next
  <2>2. jumped' = jumped /\ (Slipped => Slipped')
    BY <1>1, <2>1, OtherSteps DEF Slipped
  <2>3. QED
    BY <1>1, <2>1, <2>2 DEF DamageInv
<1>5. QED
  BY <1>2, <1>3, <1>4

\* With the three bytes of an access that cs_fuser.sv counts, the damage of a
\* misread edge can be told between two accesses and lasts: whatever the program
\* does then, the transceiver is left selected between its accesses.  The one
\* exception is a count whose bits jumped by two while cs_in_d found the old
\* level: its first damage mends it, and the fuser is in step again.
THEOREM DamageStays ==
  ASSUME NB_SEG = 3
  PROVE  Spec => []DamageLasts
<1>1. Init => DamageInv
  <2>1. Init => misreads = 0 /\ ~jumped
    BY DEF Init
  <2>2. QED
    BY <2>1, FrameInitially DEF DamageInv
<1>2. DamageInv /\ [Next]_vars => DamageInv'
  BY DamageStep
<1>3. DamageInv => DamageLasts
  <2>1. LevelInv /\ call = NoCall => Seen = 0 /\ cs_in_d
    BY DEF LevelInv, ProgramInv, Seen
  <2>2. QED
    BY <2>1
    DEF DamageInv, FrameInv, DamageLasts, Slipped, Mending, InStep, Aligned, OutOfStep
<1>4. QED
  BY <1>1, <1>2, <1>3, PTL DEF Spec
=============================================================================
