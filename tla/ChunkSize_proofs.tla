-------------------------- MODULE ChunkSize_proofs --------------------------
(***************************************************************************)
(* The sizes of a chunk that stream, for every width of the engine's       *)
(* length register, every mapping, stack and largest datagram.             *)
(***************************************************************************)
EXTENDS ChunkSize, SequenceTheorems, TLAPS

Pieces == Setting \cup {Ignored}

-----------------------------------------------------------------------------
(***************************************************************************)
(* Numbers.                                                                *)
(***************************************************************************)
\* A size of whole words that is not of whole beats ends in half a beat.
LEMMA HalfBeat ==
  ASSUME NEW m \in Nat, 4 * (m \div 4) = m, m % 8 # 0
  PROVE  m - (m % 8) = m - 4 /\ m >= 4
<1>1. PICK k \in Nat : k = m \div 4
  OBVIOUS
<1>2. PICK q \in Nat, r \in 0 .. 7 : m = 8 * q + r /\ r = m % 8
  <2>1. m \div 8 \in Nat /\ m % 8 \in 0 .. 7
    OBVIOUS
  <2>3. m = 8 * (m \div 8) + (m % 8)
    OBVIOUS
  <2>2. QED
    BY <2>1, <2>3
<1>3. 4 * k = 8 * q + r /\ r # 0
  BY <1>1, <1>2
<1>4. r = 4
  BY <1>3
<1>5. QED
  BY <1>2, <1>4

\* atoi returns an unsigned number.
LEMMA AtoiIsNat ==
  ASSUME NEW p \in Pieces, p.key = "chunk_bytes"
  PROVE  atoi(p) \in Nat
<1>1. IntMax \in Nat
  BY ConfigFileAssumption DEF IntMax
<1>2. p.number \in Int
  <2>1. Ignored.key # "chunk_bytes"
    BY DEF Ignored
  <2>2. p \in Setting
    BY <2>1 DEF Pieces
  <2>3. p.number \in Numbers
    BY <2>2 DEF Setting
  <2>4. QED
    BY <2>3, ConfigFileAssumption
<1>3. p.number % UintSpan \in Nat
  BY <1>2, ConfigFileAssumption
<1>4. QED
  BY <1>1, <1>3 DEF atoi

-----------------------------------------------------------------------------
\* Where the program is, and what the engine was given last.
LoopInv ==
  /\ pieces \in Seq(Pieces) /\ config_chunk_bytes \in Nat
  /\ pc \in {"load", "launch", "handle", "send", "wait", "crashed"}
  /\ current \in {0, 1} /\ primed \in BOOLEAN /\ turns \in 0 .. 2
  /\ pc # "load" => pieces = <<>>
  /\ pc = "load" => ~primed /\ faults = {}
  /\ ~primed => current = 0 /\ turns = 0 /\ pc \in {"load", "launch", "wait"}
  /\ primed /\ turns = 0 => current = 0
  /\ pc \in {"handle", "send", "wait"} =>
       transfer = [from |-> buf_addr(IF primed THEN 1 - current ELSE current),
                   length |-> Programmed]
  /\ pc = "crashed" => "crash" \in faults

\* A usable size never does any harm.
GoodInv == pieces = <<>> /\ Usable(buf_size) => faults = {}

\* What the first turn of the main loop shows of the size if it does no harm:
\* its transfer is into the second buffer while the first is handled.
Fits == buf_size + Programmed <= MapBytes
Whole == /\ 4 * (buf_size \div 4) = buf_size /\ buf_size % 8 = 0
         /\ Programmed = buf_size
         /\ 2 * buf_size + 8 <= StackBytes
Small == 8 + buf_size <= MaxPayload

BadInv ==
  faults = {} =>
    /\ primed /\ turns = 0 /\ pc \in {"handle", "send", "wait"} => Fits
    /\ primed /\ turns = 0 /\ pc \in {"send", "wait"} => Whole
    /\ primed /\ turns = 0 /\ pc = "wait" => Small
    /\ turns > 0 => Usable(buf_size)

ChunkInv == LoopInv /\ GoodInv /\ BadInv

LEMMA ChunkInitially == Init => ChunkInv
<1> SUFFICES ASSUME Init
             PROVE  ChunkInv
  OBVIOUS
<1>1. pieces \in Seq(Pieces)
  <2>1. PICK n \in 0 .. MaxPieces : pieces \in [1 .. n -> Pieces]
    BY ConfigFileAssumption DEF Init, FileInit, Pieces
  <2>2. QED
    BY <2>1, ConfigFileAssumption
<1>2. LoopInv
  <2>1. config_chunk_bytes \in Nat
    BY ConfigFileAssumption DEF Init, FileInit
  <2>2. /\ pc = "load" /\ current = 0 /\ primed = FALSE /\ turns = 0
        /\ faults = {}
    BY DEF Init
  <2>3. QED
    <3>1. 0 \in 0 .. 2
      OBVIOUS
    <3>2. QED
      BY <1>1, <2>1, <2>2, <3>1, Zenon DEF LoopInv
<1>3. GoodInv /\ BadInv
  BY DEF Init, GoodInv, BadInv
<1>4. QED
  BY <1>2, <1>3 DEF ChunkInv

\* A usable size in numbers.
LEMMA UsableNumbers ==
  ASSUME config_chunk_bytes \in Nat, Usable(buf_size)
  PROVE  /\ Programmed = buf_size /\ 4 * (buf_size \div 4) = buf_size
         /\ (8 + buf_size) % UintSpan = 8 + buf_size
         /\ buf_size > 0 /\ buf_size % 8 = 0
<1>1. buf_size \in Nat /\ buf_size > 0 /\ buf_size % 8 = 0 /\ buf_size < LengthSpan
  BY DEF Usable, buf_size, BeatBytes
<1>2. LengthSpan \in Nat /\ UintSpan \in Nat /\ LengthSpan + 8 <= UintSpan
  BY ConfigFileAssumption, ChunkSizeAssumption DEF HeaderBytes
<1>3. buf_size % LengthSpan = buf_size
  BY <1>1, <1>2
<1>4. (8 + buf_size) % UintSpan = 8 + buf_size
  BY <1>1, <1>2
<1>5. 4 * (buf_size \div 4) = buf_size
  BY <1>1
<1>6. QED
  BY <1>1, <1>3, <1>4, <1>5 DEF Programmed

\* The arithmetic of a transfer into the buffer that is not handled.
LEMMA UsableHandles ==
  ASSUME LoopInv, Usable(buf_size), pc = "handle"
  PROVE  ~Crashes /\ ~Torn /\ ~(buf_size > WordBytes * num_words)
<1> DEFINE c == config_chunk_bytes
<1>1. /\ c \in Nat /\ c > 0 /\ c % 8 = 0 /\ 4 * (c \div 4) = c
      /\ Programmed = c /\ (8 + c) % UintSpan = 8 + c
      /\ 2 * c <= MapBytes /\ 2 * c + 8 <= StackBytes
  BY UsableNumbers DEF LoopInv, Usable, buf_size, HeaderBytes
<1>2. /\ primed /\ current \in {0, 1}
      /\ transfer = [from |-> (1 - current) * c, length |-> c]
  BY <1>1 DEF LoopInv, buf_addr, buf_size
<1>3. MapBytes \in Nat /\ StackBytes \in Nat
  BY ChunkSizeAssumption
<1>4. /\ WordBytes * num_words = c /\ FirstRead = current * c
      /\ EndRead = current * c + c /\ OnStack = c + (8 + c)
  BY <1>1, <1>2
  DEF WordBytes, num_words, buf_size, FirstRead, EndRead, OnStack, buf_addr,
      HeaderBytes
<1>5. ~Crashes
  BY <1>1, <1>2, <1>3, <1>4 DEF Crashes
<1>6. FirstBeat(transfer) = transfer.from
  <2>1. (0 * c) % 8 = 0 /\ (1 * c) % 8 = 0
    BY <1>1
  <2>2. transfer.from % 8 = 0 /\ transfer.from \in Nat
    BY <1>1, <1>2, <2>1
  <2>3. QED
    BY <2>2 DEF FirstBeat, BeatBytes
<1>7. ~Torn
  <2>1. CASE current = 0
    BY <1>1, <1>2, <1>4, <1>6, <2>1 DEF Torn
  <2>2. CASE current = 1
    BY <1>1, <1>2, <1>4, <1>6, <2>2 DEF Torn
  <2>3. QED
    BY <1>2, <2>1, <2>2
<1>8. QED
  BY <1>1, <1>4, <1>5, <1>7 DEF buf_size

\* What a first turn that does no harm shows.
LEMMA HarmlessHandles ==
  ASSUME LoopInv, pc = "handle", turns = 0,
         ~Crashes, ~Torn, ~(buf_size > WordBytes * num_words)
  PROVE  Whole
<1> DEFINE c == config_chunk_bytes
<1>1. /\ c \in Nat /\ primed /\ current = 0
      /\ transfer = [from |-> 1 * c, length |-> Programmed]
  BY DEF LoopInv, buf_addr, buf_size
<1>2. 4 * (c \div 4) \in Nat /\ 4 * (c \div 4) <= c
  BY <1>1
<1>3. 4 * (c \div 4) = c
  BY <1>1, <1>2 DEF WordBytes, num_words, buf_size
<1>4. /\ LengthSpan \in Nat \ {0} /\ UintSpan \in Nat /\ LengthSpan + 8 <= UintSpan
      /\ StackBytes \in Nat
  BY ConfigFileAssumption, ChunkSizeAssumption DEF HeaderBytes
<1>5. Programmed \in Nat /\ Programmed < LengthSpan
  BY <1>1, <1>4 DEF Programmed, buf_size
<1>6. FirstRead = 0 /\ EndRead = c /\ OnStack = c + ((8 + c) % UintSpan)
  BY <1>1, <1>3
  DEF FirstRead, EndRead, OnStack, buf_addr, WordBytes, num_words, buf_size,
      HeaderBytes
<1>7. ~(Programmed < c)
  BY <1>3 DEF Torn, WordBytes, num_words, buf_size
<1>8. c < LengthSpan /\ Programmed = c
  <2>1. c < LengthSpan
    BY <1>1, <1>4, <1>5, <1>7
  <2>2. QED
    BY <1>1, <1>4, <2>1 DEF Programmed, buf_size
<1>9. c % 8 = 0
  <2>1. SUFFICES ASSUME c % 8 # 0 PROVE FALSE
    OBVIOUS
  <2>2. c - (c % 8) = c - 4 /\ c >= 4
    BY <1>1, <1>3, <2>1, HalfBeat
  <2>3. FirstBeat(transfer) = c - 4
    BY <1>1, <2>2 DEF FirstBeat, BeatBytes
  <2>4. FirstRead < transfer.from + transfer.length
    <3>1. transfer.from = c /\ transfer.length = Programmed
      BY <1>1
    <3>2. 0 < c + Programmed
      BY <1>1, <1>5, <2>2
    <3>3. QED
      BY <1>6, <3>1, <3>2
  <2>7. EndRead > FirstRead /\ FirstBeat(transfer) < EndRead
    BY <1>1, <1>6, <2>2, <2>3
  <2>5. Torn
    BY <2>4, <2>7 DEF Torn
  <2>6. QED
    BY <2>5
<1>10. 2 * c + 8 <= StackBytes
  <2>1. (8 + c) % UintSpan = 8 + c
    BY <1>1, <1>4, <1>8
  <2>2. ~(c + (8 + c) > StackBytes)
    BY <1>6, <2>1 DEF Crashes
  <2>3. QED
    BY <1>1, <1>4, <2>2
<1>11. QED
  BY <1>3, <1>8, <1>9, <1>10 DEF Whole, buf_size

-----------------------------------------------------------------------------
(***************************************************************************)
(* Every step keeps the invariant.                                         *)
(***************************************************************************)
LEMMA LoadStep == ASSUME ChunkInv, Load PROVE ChunkInv'
<1>1. /\ pieces # <<>> /\ pieces' = Tail(pieces)
      /\ config_chunk_bytes' = ChunkAfter(Head(pieces))
      /\ pc' = pc /\ current' = current /\ primed' = primed
      /\ transfer' = transfer /\ turns' = turns /\ faults' = faults
  BY DEF Load, ReadPiece, loopVars
<1>2. LoopInv
  BY DEF ChunkInv
<1>3. pc = "load" /\ ~primed /\ faults = {} /\ turns = 0 /\ current = 0
  BY <1>1, <1>2 DEF LoopInv
<1>4. pieces' \in Seq(Pieces) /\ Head(pieces) \in Pieces
  BY <1>1, <1>2, HeadTailProperties DEF LoopInv
<1>5. config_chunk_bytes' \in Nat
  BY <1>1, <1>2, <1>4, AtoiIsNat DEF ChunkAfter, LoopInv
<1>6. LoopInv'
  <2>1. 0 \in 0 .. 2
    OBVIOUS
  <2>2. pc' = "load" /\ primed' = primed /\ ~primed' /\ faults' = {} /\ turns' = 0
        /\ current' = 0 /\ primed \in BOOLEAN
    BY <1>1, <1>2, <1>3 DEF LoopInv
  <2>3. QED
    BY <1>4, <1>5, <2>1, <2>2, Zenon DEF LoopInv
<1>7. GoodInv' /\ BadInv'
  BY <1>1, <1>3 DEF GoodInv, BadInv
<1>8. QED
  BY <1>6, <1>7 DEF ChunkInv

\* The definitions that depend on the size alone.
LEMMA SameSize ==
  ASSUME UNCHANGED fileVars
  PROVE  /\ pieces' = pieces /\ config_chunk_bytes' = config_chunk_bytes
         /\ buf_size' = buf_size /\ Programmed' = Programmed
         /\ num_words' = num_words
         /\ Usable(buf_size)' = Usable(buf_size)
         /\ Fits' = Fits /\ Whole' = Whole /\ Small' = Small
  BY DEF fileVars, buf_size, Programmed, num_words, Usable, Fits, Whole, Small

LEMMA LoadedStep == ASSUME ChunkInv, Loaded PROVE ChunkInv'
<1>1. /\ pieces = <<>> /\ pc = "load" /\ pc' = "launch" /\ UNCHANGED fileVars
      /\ current' = current /\ primed' = primed /\ transfer' = transfer
      /\ turns' = turns /\ faults' = faults
  BY DEF Loaded
<1>2. LoopInv'
  BY <1>1, SameSize DEF ChunkInv, LoopInv
<1>3. GoodInv' /\ BadInv'
  BY <1>1, SameSize DEF ChunkInv, LoopInv, GoodInv, BadInv
<1>4. QED
  BY <1>2, <1>3 DEF ChunkInv

LEMMA LaunchStep == ASSUME ChunkInv, Launch PROVE ChunkInv'
<1> DEFINE i == IF primed THEN 1 - current ELSE current
           c == config_chunk_bytes
<1>1. /\ pc = "launch" /\ UNCHANGED fileVars
      /\ transfer' = [from |-> buf_addr(i), length |-> Programmed]
      /\ pc' = IF primed THEN "handle" ELSE "wait"
      /\ faults' = faults \cup
           If(transfer'.from + transfer'.length > MapBytes, "outside")
      /\ current' = current /\ primed' = primed /\ turns' = turns
  BY DEF Launch
<1>2. LoopInv /\ GoodInv /\ BadInv /\ pieces = <<>> /\ c \in Nat /\ i \in {0, 1}
  BY <1>1 DEF ChunkInv, LoopInv
<1>3. faults' = {} <=> faults = {} /\ ~(i * c + Programmed > MapBytes)
  <2>1. transfer'.from = i * c /\ transfer'.length = Programmed
    BY <1>1 DEF buf_addr, buf_size
  <2>2. faults' = faults \cup If(i * c + Programmed > MapBytes, "outside")
    BY <1>1, <2>1
  <2>3. QED
    BY <2>2 DEF If
<1>4. LoopInv'
  <2>1. buf_addr(i)' = buf_addr(i) /\ Programmed' = Programmed
    BY <1>1, SameSize DEF buf_addr
  <2>2. pieces' = pieces /\ config_chunk_bytes' = config_chunk_bytes
    BY <1>1, SameSize
  <2>3. transfer' = [from |-> (IF primed' THEN 1 - current' ELSE current') * buf_size',
                     length |-> Programmed']
    BY <1>1, <2>1, SameSize DEF buf_addr
  <2>4. pc' \in {"handle", "wait"} /\ (~primed' => pc' = "wait")
    BY <1>1
  <2>5. QED
    BY <1>1, <1>2, <2>2, <2>3, <2>4 DEF LoopInv, buf_addr
<1>5. GoodInv'
  <2>1. SUFFICES ASSUME Usable(buf_size) PROVE faults' = {}
    BY <1>1, SameSize DEF GoodInv
  <2>2. Programmed = c /\ 2 * c <= MapBytes /\ MapBytes \in Nat
    BY <1>2, <2>1, UsableNumbers, ChunkSizeAssumption DEF buf_size, Usable
  <2>3. ~(i * c + Programmed > MapBytes)
    <3>1. i * c = 0 \/ i * c = c
      BY <1>2
    <3>2. QED
      BY <1>2, <2>2, <3>1
  <2>4. QED
    BY <1>2, <1>3, <2>1, <2>3 DEF GoodInv
<1>6. BadInv'
  <2>1. SUFFICES ASSUME faults' = {}
                 PROVE  /\ primed /\ turns = 0 => Fits
                        /\ turns > 0 => Usable(buf_size)
    BY <1>1, SameSize DEF BadInv
  <2>2. faults = {} /\ ~(i * c + Programmed > MapBytes)
    BY <1>3, <2>1
  <2>3. ASSUME primed, turns = 0 PROVE Fits
    <3>1. i = 1
      BY <1>2, <2>3 DEF LoopInv
    <3>2. c + Programmed <= MapBytes
      <4>1. Programmed \in Nat /\ MapBytes \in Nat
        BY <1>2, ChunkSizeAssumption DEF Programmed, buf_size
      <4>2. QED
        BY <1>2, <2>2, <3>1, <4>1
    <3>3. QED
      BY <3>2 DEF Fits, buf_size
  <2>4. QED
    BY <1>2, <2>2, <2>3 DEF BadInv
<1>7. QED
  BY <1>4, <1>5, <1>6 DEF ChunkInv

LEMMA HandleStep == ASSUME ChunkInv, Handle PROVE ChunkInv'
<1>1. /\ pc = "handle" /\ UNCHANGED fileVars /\ current' = current
      /\ primed' = primed /\ transfer' = transfer /\ turns' = turns
  BY DEF Handle
<1>2. LoopInv /\ GoodInv /\ BadInv /\ pieces = <<>> /\ config_chunk_bytes \in Nat
      /\ primed
  BY <1>1 DEF ChunkInv, LoopInv
<1>3. /\ pc' = IF Crashes THEN "crashed" ELSE "send"
      /\ faults' = {} <=> /\ faults = {} /\ ~Crashes /\ ~Torn
                          /\ ~(buf_size > WordBytes * num_words)
      /\ pc' = "crashed" => "crash" \in faults'
  <2>1. CASE Crashes
    BY <2>1 DEF Handle
  <2>2. CASE ~Crashes
    BY <2>2 DEF Handle, If
  <2>3. QED
    BY <2>1, <2>2
<1>4. LoopInv'
  <2>1. /\ pieces' = pieces /\ config_chunk_bytes' = config_chunk_bytes
        /\ buf_size' = buf_size /\ Programmed' = Programmed
    BY <1>1, SameSize
  <2>2. pc' \in {"crashed", "send"}
    BY <1>3
  <2>3. transfer' = [from |-> (IF primed' THEN 1 - current' ELSE current') * buf_size',
                     length |-> Programmed']
    BY <1>1, <1>2, <2>1 DEF LoopInv, buf_addr
  <2>4. QED
    BY <1>1, <1>2, <1>3, <2>1, <2>2, <2>3 DEF LoopInv, buf_addr
<1>5. GoodInv'
  BY <1>1, <1>2, <1>3, SameSize, UsableHandles DEF GoodInv
<1>6. BadInv'
  <2>1. SUFFICES ASSUME faults' = {}
                 PROVE  /\ turns = 0 => Fits /\ Whole
                        /\ turns > 0 => Usable(buf_size)
    <3>1. pc' # "wait"
      BY <1>3
    <3>2. QED
      BY <1>1, <3>1, SameSize DEF BadInv
  <2>2. turns = 0 => Whole
    BY <1>1, <1>2, <1>3, <2>1, HarmlessHandles
  <2>3. QED
    BY <1>1, <1>2, <1>3, <2>1, <2>2 DEF BadInv
<1>7. QED
  BY <1>4, <1>5, <1>6 DEF ChunkInv

LEMMA SendStep == ASSUME ChunkInv, Send PROVE ChunkInv'
<1>1. /\ pc = "send" /\ pc' = "wait" /\ UNCHANGED fileVars /\ current' = current
      /\ primed' = primed /\ transfer' = transfer /\ turns' = turns
      /\ faults' = faults \cup If(HeaderBytes + buf_size > MaxPayload, "refused")
  BY DEF Send
<1>2. LoopInv /\ GoodInv /\ BadInv /\ pieces = <<>> /\ config_chunk_bytes \in Nat
      /\ primed
  BY <1>1 DEF ChunkInv, LoopInv
<1>3. faults' = {} <=> faults = {} /\ Small
  <2>1. (HeaderBytes + buf_size > MaxPayload) <=> ~Small
    BY <1>2, ChunkSizeAssumption DEF HeaderBytes, buf_size, Small
  <2>2. QED
    BY <1>1, <2>1 DEF If
<1>4. LoopInv'
  <2>1. /\ pieces' = pieces /\ config_chunk_bytes' = config_chunk_bytes
        /\ buf_size' = buf_size /\ Programmed' = Programmed
    BY <1>1, SameSize
  <2>2. transfer' = [from |-> (IF primed' THEN 1 - current' ELSE current') * buf_size',
                     length |-> Programmed']
    BY <1>1, <1>2, <2>1 DEF LoopInv, buf_addr
  <2>3. QED
    BY <1>1, <1>2, <2>1, <2>2 DEF LoopInv, buf_addr
<1>5. GoodInv'
  <2>1. Usable(buf_size) => Small
    BY DEF Usable, Small, HeaderBytes
  <2>2. QED
    BY <1>1, <1>2, <1>3, <2>1, SameSize DEF GoodInv
<1>6. BadInv'
  BY <1>1, <1>2, <1>3, SameSize DEF BadInv
<1>7. QED
  BY <1>4, <1>5, <1>6 DEF ChunkInv

LEMMA WaitStep == ASSUME ChunkInv, Wait PROVE ChunkInv'
<1>1. /\ pc = "wait" /\ ~Hangs /\ pc' = "launch" /\ primed' = TRUE
      /\ current' = IF primed THEN 1 - current ELSE current
      /\ turns' = IF primed /\ turns < 2 THEN turns + 1 ELSE turns
      /\ UNCHANGED fileVars /\ transfer' = transfer /\ faults' = faults
  BY DEF Wait
<1>2. LoopInv /\ GoodInv /\ BadInv /\ pieces = <<>> /\ config_chunk_bytes \in Nat
  BY <1>1 DEF ChunkInv, LoopInv
<1>3. LoopInv'
  <2>1. pieces' = pieces /\ config_chunk_bytes' = config_chunk_bytes
    BY <1>1, SameSize
  <2>2. /\ current' \in {0, 1} /\ turns' \in 0 .. 2
        /\ turns' = 0 => current' = 0
    BY <1>1, <1>2 DEF LoopInv
  <2>3. QED
    BY <1>1, <1>2, <2>1, <2>2 DEF LoopInv
<1>4. GoodInv'
  BY <1>1, <1>2, SameSize DEF GoodInv
<1>5. BadInv'
  <2>1. SUFFICES ASSUME faults = {}, turns' > 0
                 PROVE  Usable(buf_size)
    BY <1>1, SameSize DEF BadInv
  <2>2. CASE turns > 0
    BY <1>2, <2>1, <2>2 DEF BadInv
  <2>3. CASE ~(turns > 0)
    <3>1. primed /\ turns = 0
      BY <1>1, <1>2, <2>1, <2>3 DEF LoopInv
    <3>2. Fits /\ Whole /\ Small
      BY <1>1, <1>2, <2>1, <3>1 DEF BadInv
    <3>3. transfer.length = Programmed /\ Programmed = buf_size
      BY <1>1, <1>2, <3>2 DEF LoopInv, Whole
    <3>4. buf_size \in Nat /\ buf_size # 0
      BY <1>1, <1>2, <3>3 DEF Hangs, buf_size
    <3>5. Programmed < LengthSpan
      BY <3>4, ChunkSizeAssumption DEF Programmed
    <3>6. QED
      BY <3>2, <3>3, <3>4, <3>5, ChunkSizeAssumption
      DEF Fits, Whole, Small, Usable, BeatBytes, HeaderBytes
  <2>4. QED
    BY <2>2, <2>3
<1>6. QED
  BY <1>3, <1>4, <1>5 DEF ChunkInv

LEMMA SpinStep == ASSUME ChunkInv, Spin PROVE ChunkInv'
<1>1. /\ pc = "wait" /\ transfer.length = 0 /\ faults' = faults \cup {"hang"}
      /\ UNCHANGED fileVars /\ pc' = pc /\ current' = current
      /\ primed' = primed /\ transfer' = transfer /\ turns' = turns
  BY DEF Spin, Hangs
<1>2. LoopInv /\ pieces = <<>> /\ config_chunk_bytes \in Nat
      /\ transfer.length = Programmed
  BY <1>1 DEF ChunkInv, LoopInv
<1>3. LoopInv'
  <2>1. /\ pieces' = pieces /\ config_chunk_bytes' = config_chunk_bytes
        /\ buf_size' = buf_size /\ Programmed' = Programmed
    BY <1>1, SameSize
  <2>2. transfer' = [from |-> (IF primed' THEN 1 - current' ELSE current') * buf_size',
                     length |-> Programmed']
    BY <1>1, <1>2, <2>1 DEF LoopInv, buf_addr
  <2>3. QED
    BY <1>1, <1>2, <2>1, <2>2 DEF LoopInv, buf_addr
<1>4. ~Usable(buf_size)
  <2>1. SUFFICES ASSUME Usable(buf_size) PROVE FALSE
    OBVIOUS
  <2>2. Programmed = buf_size /\ buf_size > 0
    BY <1>2, <2>1, UsableNumbers
  <2>3. QED
    BY <1>1, <1>2, <2>2
<1>5. GoodInv' /\ BadInv'
  BY <1>1, <1>4, SameSize DEF GoodInv, BadInv
<1>6. QED
  BY <1>3, <1>5 DEF ChunkInv

LEMMA ChunkStep == ChunkInv /\ [Next]_vars => ChunkInv'
<1> SUFFICES ASSUME ChunkInv, [Next]_vars
             PROVE  ChunkInv'
  OBVIOUS
<1>1. CASE Next
  BY <1>1, LoadStep, LoadedStep, LaunchStep, HandleStep, SendStep, WaitStep,
     SpinStep DEF Next
<1>2. CASE UNCHANGED vars
  <2>1. /\ UNCHANGED fileVars /\ pc' = pc /\ current' = current
        /\ primed' = primed /\ transfer' = transfer /\ turns' = turns
        /\ faults' = faults
    BY <1>2 DEF vars, loopVars
  <2>2. /\ pieces' = pieces /\ config_chunk_bytes' = config_chunk_bytes
        /\ buf_size' = buf_size /\ Programmed' = Programmed
    BY <2>1, SameSize
  <2>3. LoopInv'
    BY <2>1, <2>2 DEF ChunkInv, LoopInv, buf_addr
  <2>4. GoodInv' /\ BadInv'
    BY <2>1, SameSize DEF ChunkInv, GoodInv, BadInv
  <2>5. QED
    BY <2>3, <2>4 DEF ChunkInv
<1>3. QED
  BY <1>1, <1>2

\* dma_loop streams whole datagrams of settled words, inside its mapping and
\* its stack, for the sizes of Usable and for no other, whatever config_load
\* made of the file.
THEOREM ChunkLimits == Spec => []LimitsExact
<1>1. ChunkInv => LimitsExact
  BY DEF ChunkInv, LoopInv, GoodInv, BadInv, LimitsExact
<1>2. QED
  BY <1>1, ChunkInitially, ChunkStep, PTL DEF Spec

-----------------------------------------------------------------------------
(***************************************************************************)
(* What a file means.                                                      *)
(***************************************************************************)
IsChunk(i) == file[i].key = "chunk_bytes"

\* The last setting among the first n pieces made the size.
ReadUpTo(n) ==
  \/ /\ \A i \in 1 .. n : ~IsChunk(i)
     /\ config_chunk_bytes = DefaultChunk
  \/ \E m \in 1 .. n : /\ IsChunk(m) /\ \A i \in m + 1 .. n : ~IsChunk(i)
                       /\ config_chunk_bytes = file[m].number

\* The pieces that are left are the end of the file.
FileInv ==
  /\ file \in Seq(Pieces) /\ pieces \in Seq(Pieces)
  /\ Len(pieces) <= Len(file)
  /\ \A i \in 1 .. Len(pieces) : pieces[i] = file[Len(file) - Len(pieces) + i]
  /\ PlainFile => ReadUpTo(Len(file) - Len(pieces))

LEMMA FileInitially == Init => FileInv
<1> SUFFICES ASSUME Init
             PROVE  FileInv
  OBVIOUS
<1>1. file \in Seq(Pieces) /\ pieces = file /\ Len(file) \in Nat
  <2>1. PICK n \in 0 .. MaxPieces : file \in [1 .. n -> Pieces]
    BY ConfigFileAssumption DEF Init, FileInit, Pieces
  <2>2. file \in Seq(Pieces)
    BY <2>1, ConfigFileAssumption
  <2>3. QED
    BY <2>2 DEF Init, FileInit
<1>2. Len(file) - Len(pieces) = 0
  BY <1>1
<1>3. ReadUpTo(0)
  BY DEF ReadUpTo, Init, FileInit
<1>4. QED
  BY <1>1, <1>2, <1>3 DEF FileInv

\* A plain setting is taken as it is written.
LEMMA PlainAtoi ==
  ASSUME NEW p \in Pieces, ~p.hex, p.number \in 0 .. IntMax
  PROVE  atoi(p) = p.number
<1>1. /\ UintSpan \in Nat \ {0} /\ IntMax \in Nat /\ IntMax < UintSpan
  BY ConfigFileAssumption DEF IntMax
<1>2. p.number \in Nat /\ p.number < UintSpan
  BY <1>1
<1>3. p.number % UintSpan = p.number
  BY <1>1, <1>2
<1>4. ~(p.number > IntMax) /\ ~(p.number < -IntMax - 1)
  BY <1>1
<1>5. QED
  BY <1>3, <1>4 DEF atoi

LEMMA ReadStep == ASSUME FileInv, ReadPiece PROVE FileInv'
<1> DEFINE n == Len(file) - Len(pieces)
           p == Head(pieces)
<1>1. /\ pieces # <<>> /\ pieces' = Tail(pieces) /\ file' = file
      /\ config_chunk_bytes' = ChunkAfter(p)
  BY DEF ReadPiece
<1>2. /\ Len(file) \in Nat /\ Len(pieces) \in Nat \ {0} /\ n \in Nat
      /\ n + 1 \in 1 .. Len(file)
  BY <1>1, EmptySeq DEF FileInv
<1>3. /\ pieces' \in Seq(Pieces) /\ Len(pieces') = Len(pieces) - 1 /\ p \in Pieces
      /\ \A i \in 1 .. Len(pieces') : pieces'[i] = pieces[i + 1]
  BY <1>1, HeadTailProperties DEF FileInv
<1>4. p = file[n + 1]
  BY <1>1, <1>2 DEF FileInv
<1>5. Len(file') - Len(pieces') = n + 1
  BY <1>1, <1>2, <1>3
<1>6. \A i \in 1 .. Len(pieces') : pieces'[i] = file'[Len(file') - Len(pieces') + i]
  <2>1. SUFFICES ASSUME NEW i \in 1 .. Len(pieces')
                 PROVE  pieces'[i] = file'[Len(file') - Len(pieces') + i]
    OBVIOUS
  <2>2. i + 1 \in 1 .. Len(pieces) /\ n + (i + 1) = (n + 1) + i
    BY <1>2, <1>3
  <2>3. pieces'[i] = pieces[i + 1] /\ pieces[i + 1] = file[n + (i + 1)]
    BY <1>3, <2>2 DEF FileInv
  <2>4. QED
    BY <1>1, <1>5, <2>2, <2>3
<1>10. PICK k : k = n + 1
  OBVIOUS
<1>7. ASSUME PlainFile'
      PROVE  ReadUpTo(k)'
  <2>1. PlainFile /\ \A i : IsChunk(i)' <=> IsChunk(i)
    BY <1>1, <1>7 DEF PlainFile, ChunkSettings, IsChunk
  <2>2. ReadUpTo(n)
    BY <2>1 DEF FileInv
  <2>3. CASE IsChunk(n + 1)
    <3>1. n + 1 \in ChunkSettings
      BY <1>2, <2>3 DEF ChunkSettings, IsChunk, FileInv
    <3>2. ~p.hex /\ p.number \in 0 .. IntMax
      BY <1>4, <2>1, <3>1 DEF PlainFile
    <3>3. config_chunk_bytes' = p.number
      BY <1>1, <1>3, <1>4, <2>3, <3>2, PlainAtoi DEF ChunkAfter, IsChunk
    <3>4. k \in 1 .. k /\ \A i \in k + 1 .. k : ~IsChunk(i)
      BY <1>2, <1>10
    <3>5. IsChunk(k) /\ config_chunk_bytes' = file'[k].number
      BY <1>1, <1>4, <1>10, <2>3, <3>3
    <3>6. QED
      BY <2>1, <3>4, <3>5 DEF ReadUpTo
  <2>4. CASE ~IsChunk(n + 1)
    <3>1. config_chunk_bytes' = config_chunk_bytes
      BY <1>1, <1>4, <2>4 DEF ChunkAfter, IsChunk
    <3>2. \A i \in 1 .. k : i \in 1 .. n \/ i = n + 1
      BY <1>2, <1>10
    <3>3. CASE /\ \A i \in 1 .. n : ~IsChunk(i)
               /\ config_chunk_bytes = DefaultChunk
      BY <1>1, <2>1, <2>4, <3>1, <3>2, <3>3 DEF ReadUpTo
    <3>4. CASE \E m \in 1 .. n : /\ IsChunk(m) /\ \A i \in m + 1 .. n : ~IsChunk(i)
                                 /\ config_chunk_bytes = file[m].number
      <4>1. PICK m \in 1 .. n : /\ IsChunk(m) /\ \A i \in m + 1 .. n : ~IsChunk(i)
                                /\ config_chunk_bytes = file[m].number
        BY <3>4
      <4>2. m \in 1 .. k /\ \A i \in m + 1 .. k : i \in m + 1 .. n \/ i = n + 1
        BY <1>2, <1>10
      <4>3. \A i \in m + 1 .. k : ~IsChunk(i)
        BY <2>4, <4>1, <4>2
      <4>4. IsChunk(m) /\ config_chunk_bytes' = file'[m].number
        BY <1>1, <3>1, <4>1
      <4>5. QED
        BY <2>1, <4>2, <4>3, <4>4 DEF ReadUpTo
    <3>5. QED
      BY <2>2, <3>3, <3>4 DEF ReadUpTo
  <2>5. QED
    BY <2>3, <2>4
<1>8. Len(pieces') <= Len(file')
  BY <1>1, <1>2, <1>3 DEF FileInv
<1>9. QED
  BY <1>1, <1>3, <1>5, <1>6, <1>7, <1>8, <1>10 DEF FileInv, ReadUpTo, IsChunk

LEMMA FileStep == FileInv /\ [Next]_vars => FileInv'
<1> SUFFICES ASSUME FileInv, [Next]_vars
             PROVE  FileInv'
  OBVIOUS
<1>1. CASE Load
  BY <1>1, ReadStep DEF Load
<1>2. CASE UNCHANGED fileVars
  BY <1>2 DEF fileVars, FileInv, PlainFile, ChunkSettings, ReadUpTo, IsChunk
<1>3. QED
  BY <1>1, <1>2
  DEF Next, vars, Loaded, Launch, Handle, Send, Wait, Spin

\* config_load takes from a plain file its last setting of chunk_bytes, wherever
\* the other lines are and however many there are.
THEOREM PlainFileMeant == Spec => []LoadsWhatIsMeant
<1>1. FileInv => LoadsWhatIsMeant
  <2>1. SUFFICES ASSUME FileInv, pieces = <<>>, PlainFile
                 PROVE  config_chunk_bytes = ChunkMeant
    BY DEF LoadsWhatIsMeant
  <2>2. DOMAIN file = 1 .. Len(file) /\ Len(file) - Len(pieces) = Len(file)
        /\ Len(file) \in Nat
    BY <2>1 DEF FileInv
  <2>3. ReadUpTo(Len(file))
    BY <2>1, <2>2 DEF FileInv
  <2>4. CASE \A i \in 1 .. Len(file) : ~IsChunk(i)
    BY <2>2, <2>3, <2>4 DEF ReadUpTo, ChunkMeant, ChunkSettings, IsChunk
  <2>5. CASE ~(\A i \in 1 .. Len(file) : ~IsChunk(i))
    <3>1. PICK m \in 1 .. Len(file) :
            /\ IsChunk(m) /\ \A i \in m + 1 .. Len(file) : ~IsChunk(i)
            /\ config_chunk_bytes = file[m].number
      BY <2>3, <2>5 DEF ReadUpTo
    <3>2. m \in ChunkSettings /\ \A j \in ChunkSettings : j <= m
      BY <2>2, <3>1 DEF ChunkSettings, IsChunk
    <3>3. \A i \in ChunkSettings : (\A j \in ChunkSettings : j <= i) => i = m
      BY <2>2, <3>2 DEF ChunkSettings
    <3>4. m = CHOOSE i \in ChunkSettings : \A j \in ChunkSettings : j <= i
      BY <3>2, <3>3
    <3>5. QED
      BY <3>1, <3>2, <3>4 DEF ChunkMeant
  <2>6. QED
    BY <2>4, <2>5
<1>2. QED
  BY <1>1, FileInitially, FileStep, PTL DEF Spec
=============================================================================
