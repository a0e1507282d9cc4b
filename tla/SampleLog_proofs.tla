-------------------------- MODULE SampleLog_proofs --------------------------
(***************************************************************************)
(* Theorems about SampleLog, for every length of the ring and of the       *)
(* window, every threshold and every even span of the raw values.          *)
(***************************************************************************)
EXTENDS SampleLog, SequenceTheorems, TLAPS

-----------------------------------------------------------------------------
(***************************************************************************)
(* Places in the ring, and signed numbers.                                 *)
(***************************************************************************)
\* A remainder, one turn at most from its number.
LEMMA OneTurn ==
  \A p \in Nat \ {0} : \A n \in Nat :
    n < p + p => n % p = IF n < p THEN n ELSE n - p
<1> SUFFICES ASSUME NEW p \in Nat \ {0}, NEW n \in Nat, n < p + p
             PROVE  n % p = IF n < p THEN n ELSE n - p
  OBVIOUS
<1> DEFINE d == n \div p
           m == n % p
<1>1. d \in Nat /\ m \in 0 .. p - 1 /\ n = p * d + m
  OBVIOUS
<1> HIDE DEF d, m
<1>2. d < 2
  <2>1. SUFFICES ASSUME d >= 2 PROVE FALSE
    BY <1>1
  <2>2. PICK k \in Nat : d = 2 + k
    <3>1. d - 2 \in Nat /\ d = 2 + (d - 2)
      BY <1>1, <2>1
    <3>2. QED
      BY <3>1
  <2>3. p * d = p + p + p * k /\ p * k \in Nat
    BY <2>2
  <2>4. QED
    BY <1>1, <2>3
<1>3. CASE d = 0
  <2>1. n = m
    BY <1>1, <1>3
  <2>2. QED
    BY <1>1, <2>1 DEF m
<1>4. CASE d = 1
  <2>1. n = p + m
    BY <1>1, <1>4
  <2>2. QED
    BY <1>1, <2>1 DEF m
<1>5. QED
  BY <1>1, <1>2, <1>3, <1>4

\* The place of the sample k before the last one.
Place(idx, k) == (idx + DEBUG_PRE_SAMPLES - 1 - k) % DEBUG_PRE_SAMPLES

\* Places without remainders, and how they move when the ring does.
LEMMA Places ==
  ASSUME NEW idx \in Ring
  PROVE  /\ (idx + 1) % DEBUG_PRE_SAMPLES
              = IF idx = DEBUG_PRE_SAMPLES - 1 THEN 0 ELSE idx + 1
         /\ (idx + 1) % DEBUG_PRE_SAMPLES \in Ring
         /\ \A k \in Ring : Place(idx, k) \in Ring
         /\ Place((idx + 1) % DEBUG_PRE_SAMPLES, 0) = idx
         /\ \A k \in 1 .. DEBUG_PRE_SAMPLES - 1 :
              /\ Place((idx + 1) % DEBUG_PRE_SAMPLES, k) = Place(idx, k - 1)
              /\ Place((idx + 1) % DEBUG_PRE_SAMPLES, k) # idx
<1> DEFINE P == DEBUG_PRE_SAMPLES
<1>1. P \in Nat \ {0}
  BY SampleLogAssumption
<1>2. idx \in 0 .. P - 1
  BY DEF Ring
<1>3. (idx + 1) % P = IF idx = P - 1 THEN 0 ELSE idx + 1
  <2>1. idx + 1 \in Nat /\ idx + 1 < P + P
    BY <1>1, <1>2
  <2>2. (idx + 1) % P = IF idx + 1 < P THEN idx + 1 ELSE (idx + 1) - P
    BY <1>1, <2>1, OneTurn, Zenon
  <2>3. QED
    BY <1>1, <1>2, <2>2
<1>4. ASSUME NEW i \in 0 .. P - 1, NEW k \in 0 .. P - 1
      PROVE  Place(i, k) = IF k < i THEN i - 1 - k ELSE i + P - 1 - k
  <2>1. i + P - 1 - k \in Nat /\ i + P - 1 - k < P + P
    BY <1>1
  <2>2. Place(i, k) = IF i + P - 1 - k < P THEN i + P - 1 - k
                     ELSE (i + P - 1 - k) - P
    BY <1>1, <2>1, OneTurn, Zenon DEF Place
  <2>3. QED
    BY <1>1, <2>2
<1> DEFINE j == (idx + 1) % P
<1>5. j \in 0 .. P - 1 /\ j = IF idx = P - 1 THEN 0 ELSE idx + 1
  BY <1>1, <1>2, <1>3
<1> HIDE DEF j
<1>6. \A k \in 0 .. P - 1 : Place(idx, k) \in 0 .. P - 1
  BY <1>1, <1>2, <1>4
<1>7. Place(j, 0) = idx
  <2>1. Place(j, 0) = IF 0 < j THEN j - 1 - 0 ELSE j + P - 1 - 0
    BY <1>1, <1>4, <1>5
  <2>2. QED
    BY <1>1, <1>2, <1>5, <2>1
<1>8. ASSUME NEW k \in 1 .. P - 1
      PROVE  Place(j, k) = Place(idx, k - 1) /\ Place(j, k) # idx
  <2>1. Place(j, k) = IF k < j THEN j - 1 - k ELSE j + P - 1 - k
    BY <1>1, <1>4, <1>5
  <2>2. Place(idx, k - 1)
          = IF k - 1 < idx THEN idx - 1 - (k - 1) ELSE idx + P - 1 - (k - 1)
    BY <1>1, <1>2, <1>4
  <2>3. QED
    BY <1>1, <1>2, <1>5, <2>1, <2>2
<1>9. QED
  BY <1>3, <1>5, <1>6, <1>7, <1>8 DEF Ring, j

\* convert_14bit_2complement makes the signed number of the raw value, and the
\* trigger fires beyond the threshold on either side.
LEMMA LoudIsBeyond ==
  ASSUME NEW s \in Samples
  PROVE  Loud(s) <=> Beyond(s)
<1> DEFINE h == RawSpan \div 2
<1>1. h \in Nat \ {0} /\ RawSpan = h + h /\ RawSpan \in Nat \ {0}
  BY SampleLogAssumption
<1>2. \A c \in 1 .. 2 : s[c] \in 0 .. RawSpan - 1
  BY SampleLogAssumption
<1>3. ASSUME NEW raw \in 0 .. RawSpan - 1
      PROVE  /\ Signed(raw) = convert_14bit_2complement(raw)
             /\ Signed(raw) \in Int
  <2>1. raw + h \in Nat /\ raw + h < RawSpan + RawSpan
    BY <1>1
  <2>2. (raw + h) % RawSpan
          = IF raw + h < RawSpan THEN raw + h ELSE (raw + h) - RawSpan
    BY <1>1, <2>1, OneTurn, Zenon
  <2>3. Signed(raw) = ((raw + h) % RawSpan) - h
    BY DEF Signed
  <2>4. convert_14bit_2complement(raw) = IF raw >= h THEN raw - RawSpan ELSE raw
    BY DEF convert_14bit_2complement
  <2> HIDE DEF h
  <2>5. QED
    BY <1>1, <2>2, <2>3, <2>4
<1>4. \A v \in Int : abs(v) > DEBUG_TRIGGER_THRESHOLD
                       <=> \/ v > DEBUG_TRIGGER_THRESHOLD
                           \/ v < -DEBUG_TRIGGER_THRESHOLD
  BY SampleLogAssumption DEF abs
<1>5. QED
  BY <1>2, <1>3, <1>4 DEF Loud, Beyond

-----------------------------------------------------------------------------
(***************************************************************************)
(* The ring.  Until it is full its next place is the number of samples, so *)
(* it begins with the first; then it begins with the next place.           *)
(***************************************************************************)
RingHolds(buffer, full, idx, n) ==
  /\ buffer \in [Ring -> Nat] /\ idx \in Ring
  /\ full \in BOOLEAN /\ (full <=> n >= DEBUG_PRE_SAMPLES)
  /\ ~full => idx = n
  /\ \A k \in Ring : k < n => buffer[Place(idx, k)] = n - k

\* One more sample.
LEMMA RingTurns ==
  ASSUME NEW n \in Nat, NEW buffer, NEW full, NEW idx, RingHolds(buffer, full, idx, n)
  PROVE  RingHolds([buffer EXCEPT ![idx] = n + 1],
                   full \/ (idx + 1) % DEBUG_PRE_SAMPLES = 0,
                   (idx + 1) % DEBUG_PRE_SAMPLES, n + 1)
<1> DEFINE next == (idx + 1) % DEBUG_PRE_SAMPLES
           after == [buffer EXCEPT ![idx] = n + 1]
<1>1. DEBUG_PRE_SAMPLES \in Nat \ {0} /\ idx \in Ring /\ buffer \in [Ring -> Nat]
  BY SampleLogAssumption DEF RingHolds
<1>2. /\ next = IF idx = DEBUG_PRE_SAMPLES - 1 THEN 0 ELSE idx + 1
      /\ next \in Ring /\ Place(next, 0) = idx
      /\ \A k \in 1 .. DEBUG_PRE_SAMPLES - 1 :
           Place(next, k) = Place(idx, k - 1) /\ Place(next, k) # idx
      /\ \A k \in Ring : Place(idx, k) \in Ring
  BY <1>1, Places
<1> HIDE DEF next
<1>3. after \in [Ring -> Nat] /\ after[idx] = n + 1
      /\ \A p \in Ring : p # idx => after[p] = buffer[p]
  BY <1>1
<1> HIDE DEF after
<1>4. ASSUME NEW k \in Ring, k < n + 1
      PROVE  after[Place(next, k)] = (n + 1) - k
  <2>1. CASE k = 0
    BY <1>2, <1>3, <2>1
  <2>2. CASE k # 0
    <3>1. k \in 1 .. DEBUG_PRE_SAMPLES - 1 /\ k - 1 \in Ring /\ k - 1 < n
      BY <1>1, <1>4, <2>2 DEF Ring
    <3>2. buffer[Place(idx, k - 1)] = n - (k - 1)
      BY <3>1 DEF RingHolds
    <3>3. after[Place(next, k)] = buffer[Place(idx, k - 1)]
      BY <1>2, <1>3, <3>1
    <3>4. QED
      BY <3>1, <3>2, <3>3
  <2>3. QED
    BY <2>1, <2>2
<1>5. /\ (full \/ next = 0) <=> n + 1 >= DEBUG_PRE_SAMPLES
      /\ ~(full \/ next = 0) => next = n + 1
  <2>1. (full <=> n >= DEBUG_PRE_SAMPLES) /\ (~full => idx = n)
    BY DEF RingHolds
  <2>2. idx \in 0 .. DEBUG_PRE_SAMPLES - 1
    BY <1>1 DEF Ring
  <2>3. CASE full
    BY <1>1, <2>1, <2>3
  <2>4. CASE ~full
    BY <1>1, <1>2, <2>1, <2>2, <2>4
  <2>5. QED
    BY <2>3, <2>4
<1>6. RingHolds(after, full \/ next = 0, next, n + 1)
  BY <1>2, <1>3, <1>4, <1>5 DEF RingHolds
<1>7. QED
  BY <1>6 DEF after, next

\* The ring is written out from its oldest sample to its newest.
LEMMA Dump ==
  ASSUME NEW n \in Nat \ {0}, NEW buffer, NEW full, NEW idx,
         RingHolds(buffer, full, idx, n)
  PROVE  LET first == n - Smaller(n, DEBUG_PRE_SAMPLES)
         IN /\ first \in Nat /\ n - first \in Nat
            /\ Dumped(buffer, full, idx) = [k \in 1 .. n - first |-> first + k]
<1> DEFINE P == DEBUG_PRE_SAMPLES
           first == n - Smaller(n, P)
<1>1. P \in Nat \ {0} /\ idx \in 0 .. P - 1 /\ full \in BOOLEAN
  BY SampleLogAssumption DEF RingHolds, Ring
<1>2. first \in Nat /\ n - first \in Nat /\ n - first = IF n < P THEN n ELSE P
  BY <1>1 DEF Smaller
<1>3. RingCount(full, idx) = n - first
  BY <1>1, <1>2 DEF RingCount, RingHolds
<1>4. ASSUME NEW j \in 1 .. n - first
      PROVE  buffer[(RingStart(full, idx) + j - 1) % P] = first + j
  <2> DEFINE k == (n - first) - j
  <2>1. k \in Ring /\ k < n /\ n - k = first + j
    BY <1>1, <1>2 DEF Ring
  <2>2. buffer[Place(idx, k)] = n - k
    BY <2>1 DEF RingHolds
  <2>3. Place(idx, k) = (RingStart(full, idx) + j - 1) % P
    <3>1. CASE full
      <4>1. n - first = P /\ RingStart(full, idx) = idx
        BY <1>1, <1>2, <3>1 DEF RingHolds, RingStart
      <4>2. idx + P - 1 - k = idx + j - 1
        BY <1>1, <1>2, <4>1
      <4>3. QED
        BY <4>1, <4>2 DEF Place
    <3>2. CASE ~full
      <4>1. n < P /\ idx = n /\ first = 0 /\ RingStart(full, idx) = 0
        BY <1>1, <1>2, <3>2 DEF RingHolds, RingStart
      <4>2. idx + P - 1 - k = P + j - 1
        BY <1>1, <4>1
      <4>3. (P + j - 1) % P = j - 1
        <5>1. P + j - 1 \in Nat /\ P + j - 1 < P + P /\ P + j - 1 >= P
          BY <1>1, <4>1
        <5>2. (P + j - 1) % P
                = IF P + j - 1 < P THEN P + j - 1 ELSE (P + j - 1) - P
          BY <1>1, <5>1, OneTurn, Zenon
        <5>3. QED
          BY <1>1, <5>1, <5>2
      <4>4. (0 + j - 1) % P = j - 1
        <5>1. 0 + j - 1 \in Nat /\ 0 + j - 1 < P /\ 0 + j - 1 < P + P
          BY <1>1, <4>1
        <5>2. (0 + j - 1) % P = 0 + j - 1
          BY <1>1, <5>1, OneTurn
        <5>3. QED
          BY <5>2
      <4>5. QED
        BY <4>1, <4>2, <4>3, <4>4 DEF Place
    <3>3. QED
      BY <1>1, <3>1, <3>2
  <2>4. QED
    BY <2>1, <2>2, <2>3
<1>5. Dumped(buffer, full, idx) = [k \in 1 .. n - first |-> first + k]
  <2>1. Dumped(buffer, full, idx)
          = [j \in 1 .. n - first |-> buffer[(RingStart(full, idx) + j - 1) % P]]
    BY <1>3 DEF Dumped
  <2> HIDE DEF first
  <2>2. QED
    BY <1>4, <2>1
<1>6. QED
  BY <1>2, <1>5

-----------------------------------------------------------------------------
(***************************************************************************)
(* The window.  While it is open its trigger is the last one, and left     *)
(* samples are still to come; while none is, the last one is closed.       *)
(***************************************************************************)
WindowHolds(ts, open, left, n) ==
  IF open
  THEN /\ left \in 1 .. DEBUG_POST_SAMPLES
       /\ n - (DEBUG_POST_SAMPLES - left) \in ts
       /\ \A i \in ts : i <= n - (DEBUG_POST_SAMPLES - left)
  ELSE left = 0 /\ \A i \in ts : i + DEBUG_POST_SAMPLES <= n

\* The window is open exactly if the next sample comes behind a trigger.
LEMMA OpenIsBehind ==
  ASSUME NEW n \in Nat, NEW ts \in SUBSET (1 .. n), NEW open, NEW left,
         WindowHolds(ts, open, left, n)
  PROVE  open <=> Behind(ts, n + 1)
<1>1. DEBUG_POST_SAMPLES \in Nat \ {0} /\ \A i \in ts : i \in Nat /\ i <= n
  BY SampleLogAssumption
<1>2. CASE open
  <2>1. /\ left \in 1 .. DEBUG_POST_SAMPLES
        /\ n - (DEBUG_POST_SAMPLES - left) \in ts
    BY <1>2 DEF WindowHolds
  <2>2. /\ n - (DEBUG_POST_SAMPLES - left) < n + 1
        /\ n - (DEBUG_POST_SAMPLES - left) >= (n + 1) - DEBUG_POST_SAMPLES
    BY <1>1, <2>1
  <2>3. \E j \in ts : j < n + 1 /\ j >= (n + 1) - DEBUG_POST_SAMPLES
    BY <2>1, <2>2, Zenon
  <2>4. QED
    BY <1>2, <2>3 DEF Behind
<1>3. CASE ~open
  <2>1. \A i \in ts : i + DEBUG_POST_SAMPLES <= n
    BY <1>3 DEF WindowHolds
  <2>2. \A i \in ts : ~(i >= (n + 1) - DEBUG_POST_SAMPLES)
    BY <1>1, <2>1
  <2>3. ~Behind(ts, n + 1)
    BY <2>2, Zenon DEF Behind
  <2>4. QED
    BY <1>3, <2>3
<1>4. QED
  BY <1>2, <1>3

\* The triggers when a sample more has come.
LEMMA TriggersGrow ==
  ASSUME NEW ss \in Seq(Samples), NEW s \in Samples, NEW ts \in SUBSET (1 .. Len(ss)),
         AreTriggers(ts, ss), NEW us,
         us = IF Beyond(s) /\ ~Behind(ts, Len(ss) + 1)
              THEN ts \cup {Len(ss) + 1} ELSE ts
  PROVE  /\ us \in SUBSET (1 .. Len(ss) + 1)
         /\ AreTriggers(us, Append(ss, s))
         /\ Behind(us, Len(ss) + 1) <=> Behind(ts, Len(ss) + 1)
<1> DEFINE n == Len(ss)
<1>1. /\ n \in Nat /\ Len(Append(ss, s)) = n + 1 /\ Append(ss, s)[n + 1] = s
      /\ \A i \in 1 .. n : Append(ss, s)[i] = ss[i]
  BY AppendProperties
<1> HIDE DEF n
<1>2. ts \subseteq 1 .. n /\ us = IF Beyond(s) /\ ~Behind(ts, n + 1)
                                  THEN ts \cup {n + 1} ELSE ts
  BY DEF n
<1>3. us \in SUBSET (1 .. n + 1)
  <2>1. n + 1 \in 1 .. n + 1 /\ 1 .. n \subseteq 1 .. n + 1
    BY <1>1
  <2>2. QED
    BY <1>2, <2>1, Zenon
<1>4. \A i \in 1 .. n + 1 : Behind(us, i) <=> Behind(ts, i)
  <2>1. SUFFICES ASSUME NEW i \in 1 .. n + 1
                 PROVE  Behind(us, i) <=> Behind(ts, i)
    OBVIOUS
  <2>2. \A j \in us : j < i => j \in ts
    BY <1>1, <1>2
  <2>3. ts \subseteq us
    BY <1>2
  <2>4. QED
    BY <2>2, <2>3 DEF Behind
<1>5. \A i \in 1 .. n : i \in ts <=> Beyond(ss[i]) /\ ~Behind(ts, i)
  BY DEF AreTriggers, n
<1>6. ASSUME NEW i \in 1 .. n + 1
      PROVE  i \in us <=> Beyond(Append(ss, s)[i]) /\ ~Behind(us, i)
  <2>1. CASE i = n + 1
    <3>1. n + 1 \notin ts
      BY <1>1, <1>2
    <3>2. n + 1 \in us <=> Beyond(s) /\ ~Behind(ts, n + 1)
      BY <1>2, <3>1
    <3>3. QED
      BY <1>1, <1>4, <2>1, <3>2
  <2>2. CASE i \in 1 .. n
    <3>1. i \in us <=> i \in ts
      BY <1>1, <1>2, <2>2
    <3>2. QED
      BY <1>1, <1>4, <1>5, <2>2, <3>1
  <2>3. QED
    BY <1>1, <2>1, <2>2
<1>7. AreTriggers(us, Append(ss, s))
  BY <1>1, <1>6 DEF AreTriggers
<1>8. n + 1 \in 1 .. n + 1
  BY <1>1
<1>9. QED
  BY <1>3, <1>4, <1>7, <1>8 DEF n

-----------------------------------------------------------------------------
(***************************************************************************)
(* The invariant.                                                          *)
(***************************************************************************)
LogInv ==
  /\ samples \in Seq(Samples) /\ debug_file \in Seq(Nat)
  /\ triggered \in BOOLEAN
  /\ RingHolds(pre_buffer, pre_buf_full, pre_buf_idx, Len(samples))
  /\ \E ts \in SUBSET (1 .. Len(samples)) :
       /\ AreTriggers(ts, samples)
       /\ WindowHolds(ts, triggered, post_remaining, Len(samples))

LEMMA LogInitially == Init => LogInv
<1> SUFFICES ASSUME Init PROVE LogInv
  OBVIOUS
<1>1. samples = <<>> /\ Len(samples) = 0 /\ samples \in Seq(Samples)
      /\ debug_file \in Seq(Nat) /\ triggered = FALSE /\ post_remaining = 0
  BY DEF Init
<1>2. RingHolds(pre_buffer, pre_buf_full, pre_buf_idx, 0)
  BY SampleLogAssumption DEF Init, RingHolds, Ring
<1>3. AreTriggers({}, samples) /\ WindowHolds({}, triggered, post_remaining, 0)
  BY <1>1 DEF AreTriggers, WindowHolds
<1>4. QED
  BY <1>1, <1>2, <1>3 DEF LogInv

\* A sample keeps the invariant and adds its lines to the file.
LEMMA LogStep == LogInv /\ Next => LogInv' /\ Added
<1> SUFFICES ASSUME LogInv, NEW s \in Samples, Log(s)
             PROVE  LogInv' /\ Added
  BY DEF Next
<1> DEFINE n == Len(samples)
<1>1. /\ n \in Nat /\ samples' = Append(samples, s)
      /\ samples' \in Seq(Samples) /\ Len(samples') = n + 1
  BY AppendProperties DEF LogInv, Log
<1>2. RingHolds(pre_buffer', pre_buf_full', pre_buf_idx', n + 1)
  <2>1. /\ pre_buffer' = [pre_buffer EXCEPT ![pre_buf_idx] = n + 1]
        /\ pre_buf_idx' = (pre_buf_idx + 1) % DEBUG_PRE_SAMPLES
        /\ pre_buf_full' = (pre_buf_full \/ (pre_buf_idx + 1) % DEBUG_PRE_SAMPLES = 0)
    BY DEF Log
  <2>2. RingHolds(pre_buffer, pre_buf_full, pre_buf_idx, n)
    BY DEF LogInv
  <2> HIDE DEF n
  <2>3. QED
    BY <1>1, <2>1, <2>2, RingTurns
<1>3. PICK ts \in SUBSET (1 .. n) :
        AreTriggers(ts, samples) /\ WindowHolds(ts, triggered, post_remaining, n)
  BY DEF LogInv
<1> DEFINE us == IF Beyond(s) /\ ~Behind(ts, n + 1) THEN ts \cup {n + 1} ELSE ts
<1>4. /\ us \in SUBSET (1 .. n + 1) /\ AreTriggers(us, samples')
      /\ Behind(us, n + 1) <=> Behind(ts, n + 1)
  <2>1. samples \in Seq(Samples)
    BY DEF LogInv
  <2>2. QED
    BY <1>1, <1>3, <2>1, TriggersGrow
<1>5. triggered <=> Behind(ts, n + 1)
  BY <1>1, <1>3, OpenIsBehind
<1>6. Loud(s) <=> Beyond(s)
  BY LoudIsBeyond
<1>7. DEBUG_POST_SAMPLES \in Nat \ {0} /\ debug_file \in Seq(Nat)
      /\ triggered \in BOOLEAN
  BY SampleLogAssumption DEF LogInv
<1>8. n + 1 \notin ts
  BY <1>1, <1>3
<1>9. /\ triggered' \in BOOLEAN /\ debug_file' \in Seq(Nat)
      /\ WindowHolds(us, triggered', post_remaining', n + 1)
      /\ debug_file' = debug_file \o Lines(us, n + 1)
  <2>1. CASE triggered
    <3>1. us = ts /\ n + 1 \notin us /\ Behind(us, n + 1)
      BY <1>5, <1>8, <2>1
    <3>2. /\ debug_file' = Append(debug_file, n + 1)
          /\ post_remaining' = post_remaining - 1
          /\ triggered' = ~WindowOver
      BY <2>1 DEF Log
    <3>3. Lines(us, n + 1) = <<n + 1>>
      BY <3>1 DEF Lines
    <3>4. debug_file' = debug_file \o <<n + 1>> /\ debug_file' \in Seq(Nat)
      <4>1. n + 1 \in Nat
        BY <1>1
      <4> HIDE DEF n
      <4>2. QED
        BY <1>7, <3>2, <4>1, AppendIsConcat
    <3>5. /\ post_remaining \in 1 .. DEBUG_POST_SAMPLES
          /\ n - (DEBUG_POST_SAMPLES - post_remaining) \in ts
          /\ \A i \in ts : i <= n - (DEBUG_POST_SAMPLES - post_remaining)
      BY <1>3, <2>1 DEF WindowHolds
    <3> HIDE DEF n, us
    <3>6. CASE post_remaining = 1
      <4>1. triggered' = FALSE /\ post_remaining' = 0
        <5>1. WindowOver
          BY <3>6 DEF WindowOver
        <5>2. QED
          <6>1. triggered' = FALSE
            BY <3>2, <5>1, Zenon
          <6>2. QED
            BY <3>2, <3>6, <6>1
      <4>2. \A i \in ts : i \in Nat /\ i + DEBUG_POST_SAMPLES <= n + 1
        BY <1>1, <1>3, <1>7, <3>5, <3>6
      <4>3. WindowHolds(us, triggered', post_remaining', n + 1)
        BY <3>1, <4>1, <4>2 DEF WindowHolds
      <4>4. QED
        BY <3>2, <3>3, <3>4, <4>3
    <3>7. CASE post_remaining # 1
      <4>1. triggered' = TRUE /\ post_remaining' \in 1 .. DEBUG_POST_SAMPLES
        <5>1. ~WindowOver
          BY <3>7 DEF WindowOver
        <5>2. post_remaining - 1 \in 1 .. DEBUG_POST_SAMPLES
          BY <1>7, <3>5, <3>7
        <5>3. QED
          BY <3>2, <5>1, <5>2
      <4>2. (n + 1) - (DEBUG_POST_SAMPLES - post_remaining')
              = n - (DEBUG_POST_SAMPLES - post_remaining)
        BY <1>1, <1>7, <3>2, <3>5
      <4>3. WindowHolds(us, triggered', post_remaining', n + 1)
        BY <3>1, <3>5, <4>1, <4>2 DEF WindowHolds
      <4>4. QED
        BY <3>2, <3>3, <3>4, <4>3
    <3>8. QED
      BY <3>6, <3>7
  <2>2. CASE ~triggered /\ Loud(s)
    <3>1. us = ts \cup {n + 1}
      BY <1>5, <1>6, <2>2
    <3> DEFINE dump == Dumped(pre_buffer', pre_buf_full', pre_buf_idx')
               first == (n + 1) - Smaller(n + 1, DEBUG_PRE_SAMPLES)
    <3>2. /\ debug_file' = debug_file \o dump \o <<n + 1>>
          /\ post_remaining' = DEBUG_POST_SAMPLES /\ triggered' = TRUE
      BY <2>2 DEF Log
    <3>3. /\ first \in Nat /\ (n + 1) - first \in Nat
          /\ dump = [k \in 1 .. (n + 1) - first |-> first + k]
      BY <1>1, <1>2, Dump
    <3>4. Lines(us, n + 1) = dump \o <<n + 1>>
      BY <3>1, <3>3 DEF Lines
    <3>5. dump \in Seq(Nat) /\ <<n + 1>> \in Seq(Nat)
      BY <1>1, <3>3
    <3>6. /\ debug_file' = debug_file \o Lines(us, n + 1)
          /\ debug_file' \in Seq(Nat)
      <4> HIDE DEF dump, us, n
      <4>1. debug_file \o dump \o <<n + 1>> = debug_file \o (dump \o <<n + 1>>)
        BY <1>7, <3>5, ConcatAssociative
      <4>2. dump \o <<n + 1>> \in Seq(Nat)
        BY <3>5, ConcatProperties
      <4>3. QED
        BY <1>7, <3>2, <3>4, <4>1, <4>2, ConcatProperties
    <3>7. WindowHolds(us, triggered', post_remaining', n + 1)
      <4>1. (n + 1) - (DEBUG_POST_SAMPLES - DEBUG_POST_SAMPLES) = n + 1
        BY <1>1, <1>7
      <4>2. n + 1 \in us /\ \A i \in us : i <= n + 1
        BY <1>1, <1>3, <3>1
      <4>3. QED
        BY <1>7, <3>2, <4>1, <4>2 DEF WindowHolds
    <3>8. QED
      BY <3>2, <3>6, <3>7
  <2>3. CASE ~triggered /\ ~Loud(s)
    <3>1. us = ts /\ n + 1 \notin us /\ ~Behind(us, n + 1)
      BY <1>5, <1>6, <1>8, <2>3
    <3>2. UNCHANGED <<debug_file, post_remaining, triggered>>
      BY <2>3 DEF Log
    <3>3. Lines(us, n + 1) = <<>>
      BY <3>1 DEF Lines
    <3>4. debug_file' = debug_file \o <<>> /\ debug_file' \in Seq(Nat)
      BY <1>7, <3>2, ConcatEmptySeq
    <3>5. WindowHolds(us, triggered', post_remaining', n + 1)
      <4>1. post_remaining = 0 /\ \A i \in ts : i + DEBUG_POST_SAMPLES <= n
        BY <1>3, <2>3 DEF WindowHolds
      <4>2. \A i \in ts : i + DEBUG_POST_SAMPLES <= n + 1
        BY <1>1, <1>3, <1>7, <4>1
      <4>3. QED
        BY <2>3, <3>1, <3>2, <4>1, <4>2 DEF WindowHolds
    <3>6. triggered' \in BOOLEAN
      BY <1>7, <3>2
    <3> HIDE DEF us, n
    <3>7. QED
      BY <3>3, <3>4, <3>5, <3>6
  <2>4. QED
    BY <2>1, <2>2, <2>3
<1> HIDE DEF us, n
<1>10. LogInv'
  BY <1>1, <1>2, <1>4, <1>9 DEF LogInv
<1>11. Added
  BY <1>1, <1>4, <1>9 DEF Added
<1>12. QED
  BY <1>10, <1>11

LEMMA LogInvStep == LogInv /\ [Next]_vars => LogInv'
<1>1. LogInv /\ UNCHANGED vars => LogInv'
  BY DEF LogInv, vars
<1>2. QED
  BY <1>1, LogStep

\* The ring of debug_txt_log_iq_data holds the last DEBUG_PRE_SAMPLES samples in
\* order, across chunks and windows, and its counters keep to their ranges.
THEOREM LogTypes == Spec => []TypeOK
<1>1. LogInv => TypeOK
  <2>1. SUFFICES ASSUME LogInv PROVE TypeOK
    OBVIOUS
  <2>2. Len(samples) \in Nat /\ DEBUG_PRE_SAMPLES \in Nat \ {0}
    BY SampleLogAssumption DEF LogInv
  <2>3. RingHolds(pre_buffer, pre_buf_full, pre_buf_idx, Len(samples))
    BY <2>1 DEF LogInv
  <2>4. ASSUME NEW k \in 0 .. Smaller(Len(samples), DEBUG_PRE_SAMPLES) - 1
        PROVE  pre_buffer[(pre_buf_idx + DEBUG_PRE_SAMPLES - 1 - k) % DEBUG_PRE_SAMPLES]
                 = Len(samples) - k
    <3>1. k \in Ring /\ k < Len(samples)
      BY <2>2 DEF Smaller, Ring
    <3>2. QED
      BY <2>3, <3>1 DEF RingHolds, Place
  <2>5. triggered \in BOOLEAN /\ post_remaining \in 0 .. DEBUG_POST_SAMPLES
        /\ (triggered <=> post_remaining > 0)
    BY <2>1, SampleLogAssumption DEF LogInv, WindowHolds
  <2>6. QED
    BY <2>3, <2>4, <2>5 DEF TypeOK, RingHolds
<1>2. QED
  BY <1>1, LogInitially, LogInvStep, PTL DEF Spec

\* The trigger mode of debug_txt_log_iq_data writes, for every sequence of
\* samples, exactly the windows around the samples that trigger, whatever the
\* lengths before and behind them.
THEOREM WindowsLogged == Spec => LogIsWindows
<1>1. LogInv /\ [Next]_vars => [Added]_vars
  BY LogStep
<1>2. QED
  BY <1>1, LogInitially, LogInvStep, PTL DEF Spec, LogIsWindows
=============================================================================
