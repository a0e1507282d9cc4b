--------------------------- MODULE DmaLoop_proofs ---------------------------
(***************************************************************************)
(* Proofs about DmaLoop, for every chunk size, FIFO depth and number of    *)
(* runs.  The inductive invariant is built in layers: the types and the    *)
(* program's registers (TypeInv), what the engine's registers mean         *)
(* (MasterInv, BusyInv), the engine before any transfer (FreshInv) and     *)
(* what the program's position says about the engine (PhaseInv).  On top   *)
(* of them AddressInv follows the running transfer through its buffer.     *)
(***************************************************************************)
EXTENDS DmaLoop, SequenceTheorems, TLAPS

\* Every chunk is a whole number of 64-bit beats.
ChunksAligned == \A c \in Chunks : c % BeatWords = 0

\* The steps at which the program has a transfer it has not collected.
Waiting == {"copy", "send", "print", "poll", "response"}

\* A status read that overtakes busy and a memory that stalls the engine are
\* each harmless, but not the two together: the first makes the program rely
\* on the response alone, the second may leave a response behind.
Timing == ~(EarlyStatus /\ MemoryStalls)

\* An idle write master has no word to write; it gives a response when it has
\* no word left to write.
MasterInv ==
  /\ command_ready => length_counter = 0
  /\ response_valid => length_counter = 0

\* A running transfer keeps the engine busy.
BusyInv == ~command_ready /\ ~sw_reset => ~all_transfers_done

\* Up to the end of the first run's reset the engine has had no transfer.
FreshInv ==
  runs = 0 \/ (runs = 1 /\ (pc = "reset" \/ sw_reset)) =>
    /\ command_fifo = <<>>
    /\ length_counter = 0
    /\ command_ready
    /\ ~response_valid

\* What the program knows of its own registers.
HostInv ==
  /\ pc \in {"copy", "send", "print"} => primed
  /\ pc = "send" => buf_size > 0 /\ Len(pkt) = buf_size
  /\ pc # "down" => runs > 0

\* Responses that wait, or that an idle write master is about to give.
Pending == response_fifo + (IF command_ready /\ response_valid THEN 1 ELSE 0)

\* The three stages of the program's transfer: the descriptor is queued, the
\* write master runs it, the response waits.
Queued ==
  /\ command_fifo = <<[addr |-> Buf(Filling), len |-> buf_size]>>
  /\ command_ready
  /\ Pending \in LeftOver

Running ==
  /\ command_fifo = <<>>
  /\ ~command_ready
  /\ Pending \in LeftOver

Answered ==
  /\ command_fifo = <<>>
  /\ command_ready
  /\ Pending - 1 \in LeftOver

WaitingInv == pc \in Waiting => ~sw_reset /\ (Queued \/ Running \/ Answered)

LaunchInv ==
  pc = "launch" =>
    /\ command_fifo = <<>>
    /\ IF sw_reset THEN response_fifo = 0
       ELSE command_ready /\ Pending \in LeftOver

\* A status read that does not overtake busy proves the transfer over.
IdleInv ==
  pc = "response" /\ ~EarlyStatus => command_fifo = <<>> /\ command_ready

PhaseInv == WaitingInv /\ LaunchInv /\ IdleInv

\* The running transfer writes whole beats, and what is left of it ends where
\* the buffer being filled ends.
AddressInv ==
  pc \in Waiting /\ ~command_ready =>
    /\ Buf(Filling) <= address_counter
    /\ address_counter + length_counter = Buf(Filling) + buf_size
    /\ address_counter % BeatWords = 0
    /\ length_counter % BeatWords = 0

TypeInv == TypeOK /\ HostInv
EngineInv == MasterInv /\ BusyInv /\ FreshInv /\ PhaseInv

-----------------------------------------------------------------------------
\* What two words from the front of a FIFO are: a beat, and a FIFO without
\* them (the 32-to-64 adaptation between the dc_fifo and the write master).
LEMMA TakePair ==
  ASSUME NEW s \in Seq(Nat), Len(s) >= BeatWords
  PROVE  /\ SubSeq(s, 1, BeatWords) \in Beat
         /\ SubSeq(s, BeatWords + 1, Len(s)) \in Seq(Nat)
         /\ Len(SubSeq(s, BeatWords + 1, Len(s))) = Len(s) - BeatWords
<1> DEFINE pair == SubSeq(s, 1, 2)
           rest == SubSeq(s, 3, Len(s))
<1>1. /\ Len(s) \in Int /\ Len(s) >= 2
      /\ \A i \in 1 .. 2 : s[i] \in Nat
      /\ \A i \in 3 .. Len(s) : s[i] \in Nat
  BY DEF BeatWords
<1>2. pair \in Seq(Nat) /\ Len(pair) = 2
  BY <1>1, SubSeqProperties
<1>3. pair \in [1 .. 2 -> Nat]
  BY <1>2, LenProperties
<1>4. rest \in Seq(Nat) /\ Len(rest) = IF 3 <= Len(s) THEN Len(s) - 3 + 1 ELSE 0
  BY <1>1, SubSeqProperties
<1> HIDE DEF pair, rest
<1>5. Len(rest) = Len(s) - 2
  <2> DEFINE n == Len(s)
             m == Len(rest)
  <2>1. n \in Int /\ n >= 2 /\ m = IF 3 <= n THEN n - 3 + 1 ELSE 0
    BY <1>1, <1>4
  <2> HIDE DEF n, m
  <2>2. m = n - 2
    BY <2>1
  <2>3. QED
    BY <2>2 DEF n, m
<1>6. QED
  BY <1>3, <1>4, <1>5 DEF pair, rest, Beat, BeatWords

\* The engine keeps its types when none of its variables changes.
LEMMA EngineUnchanged ==
  ASSUME EngineTypeOK, UNCHANGED engineVars
  PROVE  EngineTypeOK'
BY DEF EngineTypeOK, engineVars, streamVars, masterVars, dispatchVars

\* The engine keeps its types, whatever the program does.
LEMMA EngineTypeStep ==
  ASSUME EngineTypeOK, EngineNext
  PROVE  EngineTypeOK'
<1> USE MsgdmaAssumption
<1>1. CASE AcceptWord
  BY <1>1 DEF AcceptWord, EngineTypeOK, masterVars, dispatchVars
<1>2. CASE TakeBeat
  <2>1. dc_fifo' \in Seq(Nat) /\ Len(dc_fifo') <= DcWords
    BY <1>2, TakePair DEF TakeBeat, EngineTypeOK, BeatWords
  <2>2. data_fifo' \in Seq(Beat) /\ Len(data_fifo') <= FifoBeats
    BY <1>2, TakePair, AppendProperties DEF TakeBeat, SinkReady, EngineTypeOK
  <2>3. QED
    BY <1>2, <2>1, <2>2 DEF TakeBeat, EngineTypeOK, dispatchVars
<1>3. CASE RaiseBusy
  BY <1>3 DEF RaiseBusy, EngineTypeOK, streamVars, masterVars
<1>4. CASE IssueCommand
  <2> DEFINE Descriptor == [addr : Nat, len : Nat]
  <2>1. /\ Head(command_fifo) \in Descriptor
        /\ Tail(command_fifo) \in Seq(Descriptor)
        /\ Len(Tail(command_fifo)) <= DescDepth
    <3>1. command_fifo \in Seq(Descriptor) /\ command_fifo # <<>>
      BY <1>4 DEF IssueCommand, EngineTypeOK
    <3>2. Len(command_fifo) \in Nat /\ Len(command_fifo) <= DescDepth
      BY <3>1 DEF EngineTypeOK
    <3> HIDE DEF Descriptor
    <3>3. QED
      BY <3>1, <3>2, HeadTailProperties
  <2>2. Head(command_fifo).addr \in Nat /\ Head(command_fifo).len \in Nat
    BY <2>1
  <2>3. QED
    BY <1>4, <2>1, <2>2 DEF IssueCommand, EngineTypeOK, streamVars
<1>5. CASE WriteBeat
  <2>1. /\ Head(data_fifo) \in Beat /\ Tail(data_fifo) \in Seq(Beat)
        /\ Len(Tail(data_fifo)) <= FifoBeats
    BY <1>5, HeadTailProperties DEF WriteBeat, EngineTypeOK
  <2>2. BeatBase \in Nat /\ BytesToTransfer \in 0 .. 2
    <3>1. address_counter \in Nat /\ length_counter \in Nat
      BY DEF EngineTypeOK
    <3>2. QED
      BY <3>1 DEF BeatBase, BytesToTransfer, BeatWords
  <2>3. ASSUME NEW a \in BeatBase .. BeatBase + BytesToTransfer - 1
        PROVE  Head(data_fifo)[a - BeatBase + 1] \in Nat
    <3>1. a - BeatBase + 1 \in 1 .. 2
      BY <2>2
    <3>2. QED
      BY <2>1, <3>1 DEF Beat, BeatWords
  <2>4. ddr' \in [0 .. MemWords - 1 -> Nat]
    BY <1>5, <2>3 DEF WriteBeat, EngineTypeOK
  <2>5. length_counter' \in Nat /\ address_counter' \in Nat
    BY <1>5 DEF WriteBeat, EngineTypeOK, BytesToTransfer, BeatWords
  <2>6. QED
    BY <1>5, <2>1, <2>4, <2>5 DEF WriteBeat, EngineTypeOK, streamVars, dispatchVars
<1>6. CASE DoneStrobe
  <2>1. all_transfers_done' \in BOOLEAN
    BY <1>6 DEF DoneStrobe, TransfersDone
  <2>2. response_fifo' \in Nat
    BY <1>6 DEF DoneStrobe, EngineTypeOK
  <2>3. QED
    BY <1>6, <2>1, <2>2 DEF DoneStrobe, EngineTypeOK, streamVars
<1>7. CASE TakeReset
  <2>1. <<>> \in Seq(Beat) /\ Len(<<>>) <= FifoBeats
    BY EmptySeq
  <2>2. QED
    BY <1>7, <2>1 DEF TakeReset, EngineTypeOK, streamVars
<1>8. QED
  BY <1>1, <1>2, <1>3, <1>4, <1>5, <1>6, <1>7 DEF EngineNext

\* Init establishes the types and HostInv.
LEMMA TypeInit == Init => TypeInv
<1> SUFFICES ASSUME Init
             PROVE  TypeInv
  OBVIOUS
<1> USE MsgdmaAssumption, DmaLoopAssumption
<1>1. EngineTypeOK
  <2>1. /\ <<>> \in Seq(Nat) /\ <<>> \in Seq(Beat)
        /\ <<>> \in Seq([addr : Nat, len : Nat])
        /\ Len(<<>>) <= DcWords /\ Len(<<>>) <= FifoBeats /\ Len(<<>>) <= DescDepth
    BY EmptySeq
  <2>2. 0 \in 0 .. MaxWords /\ [a \in 0 .. MemWords - 1 |-> 0] \in [0 .. MemWords - 1 -> Nat]
    OBVIOUS
  <2>3. QED
    BY <2>1, <2>2 DEF Init, EngineInit, EngineTypeOK
<1>2. TypeOK
  <2>1. 0 \in 0 .. MaxRuns /\ <<>> \in Seq(Nat)
    BY EmptySeq
  <2>2. [seq |-> 0, data |-> <<>>] \in [seq : Nat, data : Seq(Nat)]
    BY <2>1
  <2>3. QED
    BY <1>1, <2>1, <2>2 DEF Init, TypeOK, Stages
<1>3. HostInv
  BY DEF Init, HostInv
<1>4. QED
  BY <1>2, <1>3 DEF TypeInv

\* Both buffers lie in the mapping, so a word read from one is a word of DDR.
LEMMA WordInMapping ==
  ASSUME TypeOK, NEW i \in Nat, i < buf_size
  PROVE  ddr[Buf(current) + i] \in Nat
<1>1. buf_size \in Nat /\ 2 * buf_size <= MemWords
  BY DmaLoopAssumption DEF TypeOK
<1>2. Buf(current) \in {0, buf_size}
  BY DEF Buf
<1>3. Buf(current) + i \in 0 .. MemWords - 1
  BY <1>1, <1>2, MsgdmaAssumption
<1>4. ddr \in [0 .. MemWords - 1 -> Nat]
  BY DEF TypeOK, EngineTypeOK
<1>5. QED
  BY <1>3, <1>4

\* Every step keeps the types and HostInv.
LEMMA TypeStep == TypeInv /\ [Next]_vars => TypeInv'
<1> SUFFICES ASSUME TypeInv, [Next]_vars
             PROVE  TypeInv'
  OBVIOUS
<1> USE MsgdmaAssumption, DmaLoopAssumption DEF TypeInv, TypeOK, HostInv, Stages
<1>1. CASE Start
  <2>1. runs' \in 0 .. MaxRuns /\ runs' > 0 /\ <<>> \in Seq(Nat)
    BY <1>1, EmptySeq DEF Start
  <2>2. QED
    BY <1>1, <2>1, EngineUnchanged DEF Start
<1>2. CASE ResetDma
  <2>1. EngineTypeOK'
    BY <1>2 DEF ResetDma, WriteReset, EngineTypeOK, streamVars, masterVars
  <2>2. QED
    BY <1>2, <2>1 DEF ResetDma, runVars, sentVars
<1>3. CASE Launch
  <2>1. EngineTypeOK'
    BY <1>3 DEF Launch, PushDescriptor, DescriptorReady, Buf, EngineTypeOK, streamVars, masterVars
  <2>2. QED
    BY <1>3, <2>1 DEF Launch, runVars, sentVars
<1>4. CASE CopyWord
  <2>1. ddr[Buf(current) + Len(pkt)] \in Nat
    BY <1>4, WordInMapping DEF CopyWord
  <2>2. /\ pkt' \in Seq(Nat)
        /\ pc' = "send" => buf_size > 0 /\ Len(pkt') = buf_size
    BY <1>4, <2>1 DEF CopyWord
  <2>3. QED
    BY <1>4, <2>2, EngineUnchanged DEF CopyWord, runVars, sentVars
<1>5. CASE Send
  <2>1. pkt[buf_size] \in Nat
    BY <1>5 DEF Send
  <2>2. QED
    BY <1>5, <2>1, EngineUnchanged DEF Send, runVars
<1>6. CASE PrintWord
  <2>1. ddr[Len(pkt)] \in Nat
    BY <1>6 DEF PrintWord, EngineTypeOK
  <2>2. QED
    BY <1>6, <2>1, EngineUnchanged DEF PrintWord, runVars, sentVars
<1>7. CASE Poll
  BY <1>7, EngineUnchanged DEF Poll, runVars, sentVars
<1>8. CASE ReadResponse
  <2>1. EngineTypeOK'
    BY <1>8 DEF ReadResponse, PopResponse, PoppedResponses, EngineTypeOK, streamVars, masterVars
  <2>2. QED
    BY <1>8, <2>1 DEF ReadResponse, Swapped, runVars, sentVars
<1>9. CASE Stop
  BY <1>9, EngineUnchanged DEF Stop, runVars, sentVars
<1>10. CASE EngineNext /\ UNCHANGED hostVars
  BY <1>10, EngineTypeStep DEF hostVars, runVars, sentVars
<1>11. CASE UNCHANGED vars
  BY <1>11, EngineUnchanged DEF vars, hostVars, runVars, sentVars
<1>12. QED
  BY <1>1, <1>2, <1>3, <1>4, <1>5, <1>6, <1>7, <1>8, <1>9, <1>10, <1>11
     DEF Next, Host

\* The types of the engine and of the program, in every state.
THEOREM TypeCorrect == Spec => []TypeOK
<1>1. Spec => []TypeInv
  BY TypeInit, TypeStep, PTL DEF Spec
<1>2. TypeInv => TypeOK
  BY DEF TypeInv
<1>3. QED
  BY <1>1, <1>2, PTL

\* The initial state of the engine and of the program.
LEMMA EngineInvInit == Init => EngineInv
BY DEF Init, EngineInit, EngineInv, MasterInv, BusyInv, FreshInv, PhaseInv,
       WaitingInv, LaunchInv, IdleInv, Waiting

\* The write master's registers (write_master.v) keep their meaning.
LEMMA MasterStep ==
  ASSUME TypeInv, MasterInv, [Next]_vars
  PROVE  MasterInv'
<1> USE DEF MasterInv
<1>1. CASE Start
  BY <1>1 DEF Start, engineVars, masterVars
<1>2. CASE ResetDma
  BY <1>2 DEF ResetDma, WriteReset, masterVars
<1>3. CASE Launch
  BY <1>3 DEF Launch, PushDescriptor, masterVars
<1>4. CASE CopyWord \/ Send \/ PrintWord \/ Poll \/ Stop
  BY <1>4 DEF CopyWord, Send, PrintWord, Poll, Stop, engineVars, masterVars
<1>5. CASE ReadResponse
  BY <1>5 DEF ReadResponse, PopResponse, masterVars
<1>6. CASE EngineNext
  <2>1. CASE AcceptWord \/ TakeBeat \/ RaiseBusy
    BY <2>1 DEF AcceptWord, TakeBeat, RaiseBusy, masterVars
  <2>2. CASE IssueCommand
    BY <2>2 DEF IssueCommand
  <2>3. CASE WriteBeat
    <3>1. ~command_ready'
      <4>1. length_counter # 0
        BY <2>3 DEF WriteBeat, TypeInv, TypeOK, EngineTypeOK
      <4>2. QED
        BY <2>3, <4>1 DEF WriteBeat
    <3>2. response_valid' => length_counter' = 0
      BY <2>3, Zenon DEF WriteBeat
    <3>3. QED
      BY <3>1, <3>2
  <2>4. CASE DoneStrobe
    BY <2>4 DEF DoneStrobe
  <2>5. CASE TakeReset
    BY <2>5 DEF TakeReset
  <2>6. QED
    BY <1>6, <2>1, <2>2, <2>3, <2>4, <2>5 DEF EngineNext
<1>7. CASE UNCHANGED vars
  BY <1>7 DEF vars, engineVars, masterVars
<1>8. QED
  BY <1>1, <1>2, <1>3, <1>4, <1>5, <1>6, <1>7 DEF Next, Host

\* Busy (dispatcher.v) stays up until the running transfer is over.
LEMMA BusyStep ==
  ASSUME BusyInv, [Next]_vars
  PROVE  BusyInv'
<1> USE DEF BusyInv
<1>1. CASE Start \/ CopyWord \/ Send \/ PrintWord \/ Poll \/ Stop
  BY <1>1 DEF Start, CopyWord, Send, PrintWord, Poll, Stop, engineVars,
              masterVars, dispatchVars
<1>2. CASE ResetDma
  BY <1>2 DEF ResetDma, WriteReset
<1>3. CASE Launch
  BY <1>3 DEF Launch, PushDescriptor, masterVars
<1>4. CASE ReadResponse
  BY <1>4 DEF ReadResponse, PopResponse, masterVars
<1>5. CASE EngineNext
  <2>1. CASE AcceptWord \/ TakeBeat \/ WriteBeat
    BY <2>1 DEF AcceptWord, TakeBeat, WriteBeat, masterVars, dispatchVars
  <2>2. CASE RaiseBusy \/ IssueCommand
    BY <2>2 DEF RaiseBusy, IssueCommand, Busy, masterVars
  <2>3. CASE DoneStrobe \/ TakeReset
    BY <2>3 DEF DoneStrobe, TakeReset
  <2>4. QED
    BY <1>5, <2>1, <2>2, <2>3 DEF EngineNext
<1>6. CASE UNCHANGED vars
  BY <1>6 DEF vars, engineVars, masterVars, dispatchVars
<1>7. QED
  BY <1>1, <1>2, <1>3, <1>4, <1>5, <1>6 DEF Next, Host

\* No transfer begins before the first run has left its reset behind.
LEMMA FreshStep ==
  ASSUME TypeInv, FreshInv, [Next]_vars
  PROVE  FreshInv'
<1> DEFINE Fresh == runs = 0 \/ (runs = 1 /\ (pc = "reset" \/ sw_reset))
           Empty == /\ command_fifo = <<>>
                    /\ length_counter = 0
                    /\ command_ready
                    /\ ~response_valid
<1>1. CASE Start
  <2>1. runs' = runs + 1 /\ runs \in Nat
    BY <1>1 DEF Start, TypeInv, TypeOK
  <2>2. Fresh' => Fresh
    BY <2>1
  <2>3. QED
    BY <1>1, <2>2 DEF Start, FreshInv, engineVars, masterVars, dispatchVars
<1>2. CASE ResetDma
  BY <1>2 DEF ResetDma, WriteReset, FreshInv, masterVars, runVars
<1>3. CASE Launch
  <2>1. runs' = runs /\ runs # 0 /\ ~sw_reset' /\ pc' # "reset"
    BY <1>3 DEF Launch, PushDescriptor, DescriptorReady, TypeInv, HostInv, runVars
  <2>2. QED
    BY <2>1 DEF FreshInv
<1>4. CASE CopyWord \/ Send \/ PrintWord \/ Poll \/ Stop
  <2>1. /\ UNCHANGED <<runs, engineVars>>
        /\ pc' # "reset"
    BY <1>4 DEF CopyWord, Send, PrintWord, Poll, Stop, runVars
  <2>2. QED
    BY <2>1 DEF FreshInv, engineVars, masterVars, dispatchVars
<1>5. CASE ReadResponse
  <2>1. /\ UNCHANGED <<runs, command_fifo, sw_reset, masterVars>>
        /\ pc' # "reset"
    BY <1>5 DEF ReadResponse, PopResponse, runVars
  <2>2. QED
    BY <2>1 DEF FreshInv, masterVars
<1>6. CASE EngineNext /\ UNCHANGED hostVars
  <2>1. UNCHANGED <<runs, pc>>
    BY <1>6 DEF hostVars, runVars
  <2>2. CASE AcceptWord \/ TakeBeat \/ RaiseBusy
    BY <2>1, <2>2 DEF AcceptWord, TakeBeat, RaiseBusy, FreshInv, masterVars, dispatchVars
  <2>3. CASE IssueCommand \/ WriteBeat \/ DoneStrobe
    <3>1. ~Empty
      BY <2>3 DEF IssueCommand, WriteBeat, DoneStrobe, TypeInv, TypeOK, EngineTypeOK
    <3>2. ~Fresh
      BY <3>1 DEF FreshInv
    <3>3. sw_reset' = sw_reset
      BY <2>3 DEF IssueCommand, WriteBeat, DoneStrobe, dispatchVars
    <3>4. QED
      BY <2>1, <3>2, <3>3 DEF FreshInv
  <2>4. CASE TakeReset
    <3>1. Fresh' => Fresh
      BY <2>1, <2>4 DEF TakeReset
    <3>2. Empty => Empty'
      BY <2>4 DEF TakeReset, StrobeAfterReset
    <3>3. QED
      BY <3>1, <3>2 DEF FreshInv
  <2>5. QED
    BY <1>6, <2>2, <2>3, <2>4 DEF EngineNext
<1>7. CASE UNCHANGED vars
  BY <1>7 DEF vars, hostVars, runVars, engineVars, masterVars, dispatchVars, FreshInv
<1>8. QED
  BY <1>1, <1>2, <1>3, <1>4, <1>5, <1>6, <1>7 DEF Next, Host

\* A step that leaves the dispatcher, the write master's readiness and the
\* program's choice of buffer alone, and does not enter "launch", "response"
\* or a waiting stage, keeps PhaseInv.
LEMMA PhaseKept ==
  ASSUME PhaseInv,
         pc' \in Waiting => pc \in Waiting,
         pc' = "launch" => pc = "launch",
         pc' = "response" => pc = "response",
         UNCHANGED <<command_fifo, command_ready, response_fifo, sw_reset>>,
         Pending' = Pending,
         UNCHANGED <<runs, buf_size, current, primed>> \/ pc' \notin Waiting \cup {"launch"}
  PROVE  PhaseInv'
<1>1. LaunchInv'
  BY DEF PhaseInv, LaunchInv, LeftOver
<1>2. IdleInv'
  BY DEF PhaseInv, IdleInv
<1>3. WaitingInv'
  BY DEF PhaseInv, WaitingInv, Queued, Running, Answered, Buf, Filling, LeftOver
<1>4. QED
  BY <1>1, <1>2, <1>3 DEF PhaseInv

\* What the read of a response finds: the transfer is over.
LEMMA ResponseMeansOver ==
  ASSUME Timing, TypeInv, PhaseInv, pc = "response", response_fifo > 0
  PROVE  Answered
<1>1. response_fifo \in Nat
  BY DEF TypeInv, TypeOK, EngineTypeOK
<1>2. CASE ~EarlyStatus
  BY <1>2 DEF PhaseInv, IdleInv, WaitingInv, Waiting, Queued, Running
<1>3. CASE ~MemoryStalls
  <2>1. Pending # 0
    BY <1>1 DEF Pending
  <2>2. Pending \notin LeftOver
    BY <1>3, <2>1 DEF LeftOver
  <2>3. QED
    BY <2>2 DEF PhaseInv, WaitingInv, Waiting, Queued, Running
<1>4. QED
  BY <1>2, <1>3 DEF Timing

\* The stages of the program's transfer follow one another.
LEMMA PhaseStep ==
  ASSUME Timing, TypeInv, EngineInv, [Next]_vars
  PROVE  PhaseInv'
<1> USE DEF EngineInv
<1>1. CASE Start \/ Stop
  BY <1>1 DEF Start, Stop, PhaseInv, WaitingInv, LaunchInv, IdleInv, Waiting
<1>2. CASE ResetDma
  BY <1>2 DEF ResetDma, WriteReset, PhaseInv, WaitingInv, LaunchInv, IdleInv, Waiting
<1>3. CASE Launch
  <2>1. /\ ~sw_reset /\ command_ready /\ command_fifo = <<>>
        /\ Pending \in LeftOver
    BY <1>3 DEF Launch, PushDescriptor, DescriptorReady, PhaseInv, LaunchInv
  <2>2. /\ UNCHANGED <<sw_reset, command_ready, response_fifo, response_valid>>
        /\ UNCHANGED <<runs, buf_size, current, primed>>
        /\ command_fifo' = <<[addr |-> Buf(Filling), len |-> buf_size]>>
    BY <1>3, <2>1 DEF Launch, PushDescriptor, masterVars, runVars
  <2>3. Queued'
    BY <2>1, <2>2 DEF Queued, Buf, Filling, Pending, LeftOver
  <2>4. pc' # "launch" /\ pc' # "response"
    BY <1>3 DEF Launch
  <2>5. QED
    BY <2>1, <2>2, <2>3, <2>4 DEF PhaseInv, WaitingInv, LaunchInv, IdleInv
<1>4. CASE CopyWord \/ Send \/ PrintWord
  <2>1. /\ pc \in Waiting /\ pc' \in Waiting /\ pc' # "response"
        /\ UNCHANGED <<command_fifo, command_ready, response_fifo, sw_reset>>
        /\ UNCHANGED <<response_valid, runs, buf_size, current, primed>>
    BY <1>4 DEF CopyWord, Send, PrintWord, Waiting, engineVars, masterVars,
                dispatchVars, runVars
  <2>2. QED
    BY <2>1, PhaseKept DEF Waiting, Pending
<1>5. CASE Poll
  <2>1. /\ pc \in Waiting /\ pc' = "response"
        /\ UNCHANGED <<command_fifo, command_ready, response_fifo, sw_reset>>
        /\ UNCHANGED <<response_valid, runs, buf_size, current, primed>>
    BY <1>5 DEF Poll, Waiting, engineVars, masterVars, dispatchVars, runVars
  <2>2. WaitingInv'
    BY <2>1 DEF PhaseInv, WaitingInv, Queued, Running, Answered, Buf, Filling,
                Pending, LeftOver
  <2>3. ~EarlyStatus => command_fifo = <<>> /\ command_ready
    BY <1>5, <2>1 DEF Poll, ReadsIdle, Busy, BusyInv, PhaseInv, WaitingInv
  <2>4. QED
    BY <2>1, <2>2, <2>3 DEF PhaseInv, LaunchInv, IdleInv
<1>6. CASE ReadResponse
  <2>1. Answered /\ ~sw_reset
    BY <1>6, ResponseMeansOver DEF ReadResponse, PopResponse, PhaseInv, WaitingInv, Waiting
  <2>2. /\ UNCHANGED <<command_fifo, command_ready, response_valid, sw_reset, runs>>
        /\ response_fifo' = response_fifo - 1
        /\ pc' = "launch"
    BY <1>6 DEF ReadResponse, PopResponse, PoppedResponses, masterVars, runVars
  <2>3. Pending' \in LeftOver'
    <3>1. response_fifo \in Nat
      BY DEF TypeInv, TypeOK, EngineTypeOK
    <3>2. Pending' = Pending - 1
      BY <2>2, <3>1 DEF Pending
    <3>3. QED
      BY <2>1, <2>2, <3>2 DEF Answered, LeftOver
  <2>4. QED
    BY <2>1, <2>2, <2>3 DEF Answered, PhaseInv, WaitingInv, LaunchInv, IdleInv, Waiting
<1>7. CASE EngineNext /\ UNCHANGED hostVars
  <2>1. UNCHANGED <<pc, runs, buf_size, current, primed>>
    BY <1>7 DEF hostVars, runVars
  <2>2. LeftOver' = LeftOver
    BY <2>1 DEF LeftOver
  <2>3. CASE AcceptWord \/ TakeBeat \/ RaiseBusy
    <3>1. UNCHANGED <<command_fifo, command_ready, response_fifo, response_valid, sw_reset>>
      BY <2>3 DEF AcceptWord, TakeBeat, RaiseBusy, masterVars, dispatchVars
    <3>2. QED
      BY <2>1, <3>1, PhaseKept DEF Pending
  <2>4. CASE WriteBeat
    <3>1. UNCHANGED <<command_fifo, command_ready, response_fifo, sw_reset>>
      BY <2>4 DEF WriteBeat, dispatchVars
    <3>2. ~command_ready
      <4>1. length_counter # 0
        BY <2>4 DEF WriteBeat, TypeInv, TypeOK, EngineTypeOK
      <4>2. QED
        BY <4>1 DEF MasterInv
    <3>3. Pending' = Pending
      BY <3>1, <3>2 DEF Pending
    <3>4. QED
      BY <2>1, <3>1, <3>3, PhaseKept
  <2>5. CASE IssueCommand
    <3>1. command_fifo # <<>> /\ command_ready /\ ~response_valid /\ ~sw_reset
      BY <2>5 DEF IssueCommand
    <3>2. pc \in Waiting => Queued
      BY <3>1 DEF PhaseInv, WaitingInv, Running, Answered
    <3>3. Pending' = Pending
      BY <2>5, <3>1 DEF IssueCommand, Pending
    <3>4. pc \in Waiting => Running'
      <4>1. Tail(<<[addr |-> Buf(Filling), len |-> buf_size]>>) = <<>>
        OBVIOUS
      <4>2. QED
        BY <2>2, <2>5, <3>2, <3>3, <4>1 DEF IssueCommand, Queued, Running
    <3>5. pc # "launch" /\ (pc = "response" => EarlyStatus)
      BY <3>1 DEF PhaseInv, LaunchInv, IdleInv
    <3>6. QED
      BY <2>1, <2>5, <3>4, <3>5 DEF IssueCommand, PhaseInv, WaitingInv, LaunchInv, IdleInv
  <2>6. CASE DoneStrobe
    <3>1. /\ UNCHANGED <<command_fifo, sw_reset>>
          /\ response_valid /\ ~response_valid' /\ command_ready'
          /\ response_fifo' = IF sw_reset THEN 0 ELSE response_fifo + 1
      BY <2>6 DEF DoneStrobe
    <3>2. response_fifo \in Nat
      BY DEF TypeInv, TypeOK, EngineTypeOK
    <3>3. ~sw_reset => Pending' = IF command_ready THEN Pending ELSE Pending + 1
      BY <3>1, <3>2 DEF Pending
    <3>4. WaitingInv'
      <4>1. SUFFICES ASSUME pc \in Waiting
                     PROVE  ~sw_reset' /\ (Queued' \/ Running' \/ Answered')
        BY <2>1 DEF WaitingInv
      <4>2. ~sw_reset /\ ~sw_reset'
        BY <3>1, <4>1 DEF PhaseInv, WaitingInv
      <4>3. CASE Queued
        BY <2>1, <2>2, <3>1, <3>3, <4>2, <4>3 DEF Queued, Buf, Filling
      <4>4. CASE Answered
        BY <2>2, <3>1, <3>3, <4>2, <4>4 DEF Answered
      <4>5. CASE Running
        <5>1. Pending' = Pending + 1 /\ Pending \in LeftOver /\ Pending \in Nat
          BY <3>2, <3>3, <4>2, <4>5 DEF Running, Pending
        <5>2. Pending' - 1 \in LeftOver'
          BY <2>2, <5>1
        <5>3. QED
          BY <3>1, <4>2, <4>5, <5>2 DEF Running, Answered
      <4>6. QED
        BY <4>1, <4>2, <4>3, <4>4, <4>5 DEF PhaseInv, WaitingInv
    <3>5. LaunchInv' /\ IdleInv'
      BY <2>1, <2>2, <3>1, <3>3 DEF PhaseInv, LaunchInv, IdleInv
    <3>6. QED
      BY <3>4, <3>5 DEF PhaseInv
  <2>7. CASE TakeReset
    <3>1. pc \notin Waiting /\ sw_reset
      BY <2>7 DEF TakeReset, PhaseInv, WaitingInv
    <3>2. pc = "launch" =>
            command_fifo' = <<>> /\ command_ready' /\ Pending' \in LeftOver'
      <4>1. SUFFICES ASSUME pc = "launch"
                     PROVE  command_fifo' = <<>> /\ command_ready' /\ Pending' \in LeftOver'
        OBVIOUS
      <4>2. command_fifo' = <<>> /\ command_ready' /\ response_fifo' = 0
        BY <2>7, <3>1, <4>1 DEF TakeReset, PhaseInv, LaunchInv
      <4>3. CASE ~response_valid'
        BY <2>2, <4>2, <4>3 DEF Pending, LeftOver
      <4>4. CASE response_valid'
        <5>1. MemoryStalls /\ length_counter > 0
          BY <2>7, <4>4 DEF TakeReset, StrobeAfterReset
        <5>2. runs > 1
          <6>1. runs \in Nat /\ runs > 0
            BY <4>1 DEF TypeInv, TypeOK, HostInv
          <6>2. length_counter # 0
            BY <5>1 DEF TypeInv, TypeOK, EngineTypeOK
          <6>3. runs # 1
            BY <3>1, <6>2 DEF FreshInv
          <6>4. QED
            BY <6>1, <6>3
        <5>3. LeftOver = {0, 1}
          BY <5>1, <5>2 DEF LeftOver
        <5>4. Pending' = 1
          BY <4>2, <4>4 DEF Pending
        <5>5. QED
          BY <2>2, <4>2, <5>3, <5>4
      <4>5. QED
        BY <4>3, <4>4
    <3>3. pc # "response"
      BY <3>1 DEF Waiting
    <3>4. ~sw_reset'
      BY <2>7 DEF TakeReset
    <3>5. QED
      BY <2>1, <3>1, <3>2, <3>3, <3>4 DEF PhaseInv, WaitingInv, LaunchInv, IdleInv
  <2>8. QED
    BY <1>7, <2>3, <2>4, <2>5, <2>6, <2>7 DEF EngineNext
<1>8. CASE UNCHANGED vars
  <2>1. /\ UNCHANGED <<pc, runs, buf_size, current, primed>>
        /\ UNCHANGED <<command_fifo, command_ready, response_fifo, sw_reset, response_valid>>
    BY <1>8 DEF vars, hostVars, runVars, engineVars, masterVars, dispatchVars
  <2>2. QED
    BY <2>1, PhaseKept DEF Pending
<1>9. QED
  BY <1>1, <1>2, <1>3, <1>4, <1>5, <1>6, <1>7, <1>8 DEF Next, Host

\* The engine invariant holds in every state.
LEMMA EngineCorrect == Timing => (Spec => [](TypeInv /\ EngineInv))
<1> SUFFICES ASSUME Timing
             PROVE  Spec => [](TypeInv /\ EngineInv)
  OBVIOUS
<1>1. Init => TypeInv /\ EngineInv
  BY TypeInit, EngineInvInit
<1>2. TypeInv /\ EngineInv /\ [Next]_vars => (TypeInv /\ EngineInv)'
  BY TypeStep, MasterStep, BusyStep, FreshStep, PhaseStep DEF EngineInv
<1>3. QED
  BY <1>1, <1>2, PTL DEF Spec

\* Every transfer is collected exactly once, for every chunk size, aligned or
\* not, and every depth of the engine's FIFOs (dma.c, the response reads).
THEOREM AccountingCorrect == Timing => (Spec => []TransferAccounting)
<1> SUFFICES ASSUME Timing
             PROVE  Spec => []TransferAccounting
  OBVIOUS
<1>1. TypeInv /\ EngineInv => TransferAccounting
  <2> SUFFICES ASSUME TypeInv, EngineInv
               PROVE  TransferAccounting
    OBVIOUS
  <2>1. response_fifo \in Nat /\ Pending \in Nat
    BY DEF TypeInv, TypeOK, EngineTypeOK, Pending
  <2>2. Len(<<[addr |-> Buf(Filling), len |-> buf_size]>>) = 1 /\ Len(<<>>) = 0
    OBVIOUS
  <2>3. Queued => Uncollected = Pending + 1
    BY <2>1, <2>2 DEF Queued, Uncollected, Pending
  <2>4. Running => Uncollected = Pending + 1
    BY <2>1, <2>2 DEF Running, Uncollected, Pending
  <2>5. command_fifo = <<>> /\ command_ready => Uncollected = Pending
    BY <2>1, <2>2 DEF Uncollected, Pending
  <2>6. Queued \/ Running \/ Answered => Uncollected - 1 \in LeftOver
    BY <2>1, <2>3, <2>4, <2>5 DEF Queued, Running, Answered
  <2>7. pc = "launch" /\ ~sw_reset => Uncollected \in LeftOver
    BY <2>5 DEF EngineInv, PhaseInv, LaunchInv
  <2>8. QED
    BY <2>6, <2>7 DEF EngineInv, PhaseInv, WaitingInv, Waiting, TransferAccounting
<1>2. QED
  BY <1>1, EngineCorrect, PTL

-----------------------------------------------------------------------------
\* An aligned chunk keeps the running transfer on beat boundaries inside its
\* buffer.
LEMMA AddressStep ==
  ASSUME ChunksAligned, TypeInv, EngineInv, AddressInv, [Next]_vars
  PROVE  AddressInv'
<1>1. CASE pc' \notin Waiting \/ command_ready'
  BY <1>1 DEF AddressInv
<1>2. CASE /\ pc' \in Waiting /\ pc \in Waiting
           /\ UNCHANGED <<command_ready, address_counter, length_counter>>
           /\ UNCHANGED <<buf_size, current, primed>>
  BY <1>2 DEF AddressInv, Buf, Filling
<1>3. CASE Host \/ Stop
  <2>1. CASE Start \/ ResetDma \/ ReadResponse \/ Stop
    <3>1. pc' \notin Waiting
      BY <2>1 DEF Start, ResetDma, ReadResponse, Stop, Waiting
    <3>2. QED
      BY <1>1, <3>1
  <2>2. CASE Launch
    <3>1. command_ready'
      BY <2>2 DEF Launch, PushDescriptor, DescriptorReady, EngineInv, PhaseInv, LaunchInv, masterVars
    <3>2. QED
      BY <1>1, <3>1
  <2>3. CASE CopyWord \/ Send \/ PrintWord \/ Poll
    <3>1. /\ pc' \in Waiting /\ pc \in Waiting
          /\ UNCHANGED <<command_ready, address_counter, length_counter>>
          /\ UNCHANGED <<buf_size, current, primed>>
      BY <2>3 DEF CopyWord, Send, PrintWord, Poll, Waiting, engineVars, masterVars, runVars
    <3>2. QED
      BY <1>2, <3>1
  <2>4. QED
    BY <1>3, <2>1, <2>2, <2>3 DEF Host
<1>4. CASE EngineNext /\ UNCHANGED hostVars /\ pc \in Waiting
  <2>1. UNCHANGED <<pc, buf_size, current, primed>>
    BY <1>4 DEF hostVars, runVars
  <2>2. CASE AcceptWord \/ TakeBeat \/ RaiseBusy
    <3>1. UNCHANGED <<command_ready, address_counter, length_counter>>
      BY <2>2 DEF AcceptWord, TakeBeat, RaiseBusy, masterVars
    <3>2. QED
      BY <1>2, <1>4, <2>1, <3>1
  <2>3. CASE IssueCommand
    <3>1. Queued
      BY <1>4, <2>3 DEF IssueCommand, EngineInv, PhaseInv, WaitingInv,
         Running, Answered
    <3>2. Head(command_fifo) = [addr |-> Buf(Filling), len |-> buf_size]
      BY <3>1 DEF Queued
    <3>3. address_counter' = Buf(Filling) /\ length_counter' = buf_size
      BY <2>3, <3>2 DEF IssueCommand
    <3>4. /\ buf_size \in Nat /\ buf_size % BeatWords = 0
          /\ Buf(Filling) \in Nat /\ Buf(Filling) % BeatWords = 0
      <4>1. buf_size \in Nat /\ buf_size % 2 = 0
        BY DmaLoopAssumption DEF TypeInv, TypeOK, ChunksAligned, BeatWords
      <4>2. QED
        BY <4>1 DEF Buf, BeatWords
    <3>5. QED
      BY <2>1, <3>3, <3>4 DEF AddressInv, Buf, Filling
  <2>4. CASE WriteBeat
    <3>1. ~command_ready /\ length_counter > 0
      BY <2>4 DEF WriteBeat, EngineInv, MasterInv
    <3>2. /\ address_counter' = address_counter + 2
          /\ length_counter' = length_counter - (IF length_counter < 2 THEN length_counter ELSE 2)
      BY <2>4 DEF WriteBeat, BytesToTransfer, BeatWords
    <3>3. /\ address_counter \in Nat /\ length_counter \in Nat
          /\ buf_size \in Nat /\ Buf(Filling) \in Nat
      BY DmaLoopAssumption DEF TypeInv, TypeOK, EngineTypeOK, Buf
    <3>4. /\ Buf(Filling) <= address_counter
          /\ address_counter + length_counter = Buf(Filling) + buf_size
          /\ address_counter % 2 = 0
          /\ length_counter % 2 = 0
      BY <1>4, <3>1 DEF AddressInv, BeatWords
    <3>5. length_counter >= 2
      BY <3>1, <3>3, <3>4
    <3>6. /\ Buf(Filling) <= address_counter'
          /\ address_counter' + length_counter' = Buf(Filling) + buf_size
          /\ address_counter' % 2 = 0
          /\ length_counter' % 2 = 0
      BY <3>2, <3>3, <3>4, <3>5
    <3>7. Buf(Filling)' = Buf(Filling) /\ buf_size' = buf_size
      BY <2>1 DEF Buf, Filling
    <3>8. QED
      BY <3>6, <3>7 DEF AddressInv, BeatWords
  <2>5. CASE DoneStrobe \/ TakeReset
    <3>1. command_ready'
      BY <2>5 DEF DoneStrobe, TakeReset
    <3>2. QED
      BY <1>1, <3>1
  <2>6. QED
    BY <1>4, <2>2, <2>3, <2>4, <2>5 DEF EngineNext
<1>5. CASE EngineNext /\ UNCHANGED hostVars /\ pc \notin Waiting
  BY <1>1, <1>5 DEF hostVars
<1>6. CASE UNCHANGED vars
  BY <1>1, <1>2, <1>6 DEF vars, hostVars, runVars, engineVars, masterVars
<1>7. QED
  BY <1>3, <1>4, <1>5, <1>6 DEF Next

\* An aligned running transfer, or a queued one, writes inside its buffer.
LEMMA OutstandingInBuffer ==
  ASSUME ChunksAligned, TypeInv, EngineInv, AddressInv, pc \in Waiting
  PROVE  Outstanding \subseteq Buf(Filling) .. Buf(Filling) + buf_size - 1
<1>1. /\ address_counter \in Nat /\ length_counter \in Nat
      /\ buf_size \in Nat /\ buf_size % 2 = 0
  BY DmaLoopAssumption DEF TypeInv, TypeOK, EngineTypeOK, ChunksAligned, BeatWords
<1>2. Buf(Filling) \in Nat /\ Buf(Filling) % 2 = 0
  BY <1>1 DEF Buf
<1>3. CASE command_ready
  <2>1. Target(address_counter, length_counter) = {}
    <3>1. length_counter = 0
      BY <1>3 DEF EngineInv, MasterInv
    <3>2. QED
      BY <1>1, <3>1 DEF Target, BeatWords
  <2>2. ASSUME NEW i \in DOMAIN command_fifo
        PROVE  command_fifo[i] = [addr |-> Buf(Filling), len |-> buf_size]
    BY <1>3 DEF EngineInv, PhaseInv, WaitingInv, Queued, Running, Answered
  <2>3. Target(Buf(Filling), buf_size) = Buf(Filling) .. Buf(Filling) + buf_size - 1
    BY <1>1, <1>2 DEF Target, BeatWords
  <2>4. ASSUME NEW a \in Outstanding
        PROVE  a \in Buf(Filling) .. Buf(Filling) + buf_size - 1
    <3>1. PICK i \in DOMAIN command_fifo :
            a \in Target(command_fifo[i].addr, command_fifo[i].len)
      BY <2>1, <2>4 DEF Outstanding
    <3>2. /\ command_fifo[i].addr = Buf(Filling)
          /\ command_fifo[i].len = buf_size
      BY <2>2, <3>1
    <3>3. QED
      BY <2>3, <3>1, <3>2
  <2>5. QED
    BY <2>4
<1>4. CASE ~command_ready
  <2>1. command_fifo = <<>>
    BY <1>4 DEF EngineInv, PhaseInv, WaitingInv, Queued, Running, Answered
  <2>2. Outstanding = Target(address_counter, length_counter)
    BY <2>1 DEF Outstanding
  <2>3. /\ Buf(Filling) <= address_counter
        /\ address_counter + length_counter = Buf(Filling) + buf_size
        /\ address_counter % 2 = 0
    BY <1>4 DEF AddressInv, BeatWords
  <2>4. Target(address_counter, length_counter)
          = address_counter .. address_counter + length_counter - 1
    BY <1>1, <2>3 DEF Target, BeatWords
  <2>5. QED
    BY <1>1, <1>2, <2>2, <2>3, <2>4
<1>5. QED
  BY <1>3, <1>4

\* No word the program has still to copy can be written by the engine, for
\* every set of chunk sizes that are whole beats (dma.c, the ping-pong of the
\* main loop), across kills and relaunches.
THEOREM ExclusionCorrect ==
  ChunksAligned /\ Timing => (Spec => []BufferExclusion)
<1> SUFFICES ASSUME ChunksAligned, Timing
             PROVE  Spec => []BufferExclusion
  OBVIOUS
<1>1. Init => AddressInv
  BY DEF Init, AddressInv, Waiting
<1>2. TypeInv /\ EngineInv /\ AddressInv /\ [Next]_vars => AddressInv'
  BY AddressStep
<1>3. TypeInv /\ EngineInv /\ AddressInv => BufferExclusion
  <2> SUFFICES ASSUME TypeInv, EngineInv, AddressInv, pc = "copy"
               PROVE  {Buf(current) + i : i \in Len(pkt) .. buf_size - 1}
                        \cap Outstanding = {}
    BY DEF BufferExclusion
  <2>1. Outstanding \subseteq Buf(Filling) .. Buf(Filling) + buf_size - 1
    BY OutstandingInBuffer DEF Waiting
  <2>2. /\ Filling = 1 - current /\ current \in {0, 1}
        /\ buf_size \in Nat /\ Len(pkt) \in Nat
    BY DmaLoopAssumption DEF TypeInv, TypeOK, HostInv, Filling
  <2>3. ASSUME NEW i \in Len(pkt) .. buf_size - 1
        PROVE  Buf(current) + i \notin Buf(Filling) .. Buf(Filling) + buf_size - 1
    BY <2>2 DEF Buf
  <2>4. QED
    BY <2>1, <2>3
<1>4. QED
  BY <1>1, <1>2, <1>3, EngineCorrect, PTL DEF Spec

-----------------------------------------------------------------------------
(***************************************************************************)
(* DmaLoop implements ChunkStream, for every chunk size of whole beats,    *)
(* FIFO depth and number of runs.  On top of the invariants above,         *)
(* StreamInv numbers the words on their way to the memory, FillInv says    *)
(* what the transfer has put into its buffer, HeldInv what the other       *)
(* buffer holds, and OrderInv where the words that the program handles     *)
(* next stand in the stream.                                               *)
(***************************************************************************)
\* The word that is written to memory next.
NextWord == accepted - Len(dc_fifo) - BeatWords * Len(data_fifo) + 1

\* The FIFOs hold consecutive words, up to the last one accepted.
StreamInv ==
  /\ NextWord >= 1
  /\ \A i \in 1 .. Len(dc_fifo) : dc_fifo[i] = accepted - Len(dc_fifo) + i
  /\ \A i \in 1 .. Len(data_fifo) : \A k \in 1 .. BeatWords :
       data_fifo[i][k] = NextWord + BeatWords * (i - 1) + k - 1

\* Words of the program's transfer that are in its buffer, and the word it
\* began with.
Written == IF command_fifo = <<>> THEN buf_size - length_counter ELSE 0
Began == NextWord - Written

\* Buffer b begins with n consecutive words.
Holds(b, first, n) == \A i \in 0 .. n - 1 : ddr[Buf(b) + i] = first + i

FillInv == pc \in Waiting => Holds(Filling, Began, Written)

\* The first word that the program has still to handle.
First ==
  CASE pc \in {"copy", "send", "print"} -> Began - buf_size
    [] pc \in {"poll", "response"} -> Began
    [] pc = "launch" /\ primed -> NextWord - buf_size
    [] OTHER -> NextWord

HeldInv ==
  /\ pc = "copy" \/ (pc = "launch" /\ primed) => Holds(current, First, buf_size)
  /\ pc \in {"copy", "send"} => \A i \in 1 .. Len(pkt) : pkt[i] = First + i - 1

OrderInv ==
  /\ position < First
  /\ pc # "down" /\ seq_counter > 0 => position = First - 1

\* The program's registers, up to its first chunk and in test mode.
RunInv ==
  /\ pc = "launch" /\ primed => ~sw_reset
  /\ pc = "reset" => ~primed
  /\ pc # "down" /\ (~primed \/ ~udp_mode) => seq_counter = 0
  /\ pc = "print" => ~udp_mode
  /\ pc \in {"copy", "send"} => udp_mode

DataInv == StreamInv /\ FillInv /\ HeldInv /\ OrderInv /\ RunInv

-----------------------------------------------------------------------------
\* A step of the program other than those that touch the registers.
LEMMA StreamKept ==
  ASSUME StreamInv, UNCHANGED <<accepted, dc_fifo, data_fifo>>
  PROVE  StreamInv' /\ NextWord' = NextWord
BY DEF StreamInv, NextWord

\* A word that the dc_fifo accepts is the one behind its last.
LEMMA AcceptStep ==
  ASSUME TypeInv, StreamInv, AcceptWord
  PROVE  StreamInv' /\ NextWord' = NextWord
<1>1. /\ accepted \in Int /\ dc_fifo \in Seq(Nat) /\ data_fifo \in Seq(Beat)
      /\ accepted' = accepted + 1 /\ dc_fifo' = Append(dc_fifo, accepted + 1)
      /\ data_fifo' = data_fifo
  BY DEF TypeInv, TypeOK, EngineTypeOK, AcceptWord, masterVars
<1>2. /\ Len(dc_fifo) \in Int /\ Len(data_fifo) \in Int
      /\ Len(dc_fifo') = Len(dc_fifo) + 1
      /\ \A i \in 1 .. Len(dc_fifo) : dc_fifo'[i] = dc_fifo[i]
      /\ dc_fifo'[Len(dc_fifo) + 1] = accepted + 1
  BY <1>1
<1>3. NextWord' = NextWord
  BY <1>1, <1>2 DEF NextWord, BeatWords
<1>4. ASSUME NEW i \in 1 .. Len(dc_fifo')
      PROVE  dc_fifo'[i] = accepted' - Len(dc_fifo') + i
  <2>1. CASE i = Len(dc_fifo) + 1
    BY <1>1, <1>2, <2>1
  <2>2. CASE i \in 1 .. Len(dc_fifo)
    BY <1>1, <1>2, <2>2 DEF StreamInv
  <2>3. QED
    BY <1>2, <2>1, <2>2
<1>5. QED
  BY <1>1, <1>3, <1>4 DEF StreamInv

\* Two words that become a beat stay behind those of the beat before.
LEMMA BeatStep ==
  ASSUME TypeInv, StreamInv, TakeBeat
  PROVE  StreamInv' /\ NextWord' = NextWord
<1>1. /\ accepted \in Int /\ dc_fifo \in Seq(Nat) /\ data_fifo \in Seq(Beat)
      /\ accepted' = accepted /\ Len(dc_fifo) >= 2
      /\ data_fifo' = Append(data_fifo, SubSeq(dc_fifo, 1, 2))
      /\ dc_fifo' = SubSeq(dc_fifo, 3, Len(dc_fifo))
  BY DEF TypeInv, TypeOK, EngineTypeOK, TakeBeat, BeatWords
<1> DEFINE n == Len(dc_fifo)
           m == Len(data_fifo)
           pair == SubSeq(dc_fifo, 1, 2)
<1>2. n \in Nat /\ m \in Nat /\ n >= 2
  BY <1>1
<1>3. Len(dc_fifo') = n - 2 /\ pair \in Beat
  BY <1>1, TakePair DEF BeatWords
<1>4. \A i \in 1 .. n - 2 : dc_fifo'[i] = dc_fifo[i + 2]
  BY <1>1, <1>2, SubSeqProperties
<1>5. pair[1] = dc_fifo[1] /\ pair[2] = dc_fifo[2]
  BY <1>1, <1>2, SubSeqProperties
<1> HIDE DEF pair
<1>6. /\ Len(data_fifo') = m + 1 /\ data_fifo'[m + 1] = pair
      /\ \A i \in 1 .. m : data_fifo'[i] = data_fifo[i]
  BY <1>1, <1>3 DEF pair
<1>7. NextWord = accepted - n - 2 * m + 1
  BY DEF NextWord, BeatWords
<1>8. NextWord' = accepted - (n - 2) - 2 * (m + 1) + 1
  BY <1>1, <1>3, <1>6 DEF NextWord, BeatWords
<1>9. /\ \A i \in 1 .. n : dc_fifo[i] = accepted - n + i
      /\ \A i \in 1 .. m : \A k \in 1 .. 2 :
           data_fifo[i][k] = NextWord + 2 * (i - 1) + k - 1
  BY DEF StreamInv, BeatWords
<1> HIDE DEF n, m
<1>10. NextWord' = NextWord /\ NextWord \in Int
  BY <1>1, <1>2, <1>7, <1>8
<1>11. \A i \in 1 .. Len(dc_fifo') : dc_fifo'[i] = accepted' - Len(dc_fifo') + i
  <2> SUFFICES ASSUME NEW i \in 1 .. n - 2
               PROVE  dc_fifo'[i] = accepted - (n - 2) + i
    BY <1>1, <1>3
  <2>1. i + 2 \in 1 .. n /\ dc_fifo'[i] = dc_fifo[i + 2]
    BY <1>2, <1>4
  <2>2. dc_fifo[i + 2] = accepted - n + (i + 2)
    BY <1>9, <2>1
  <2>3. accepted - n + (i + 2) = accepted - (n - 2) + i
    <3>1. accepted \in Int /\ n \in Int /\ i \in Int
      BY <1>1, <1>2
    <3>2. QED
      BY <3>1
  <2>4. QED
    BY <2>1, <2>2, <2>3
<1>12. ASSUME NEW i \in 1 .. m + 1, NEW k \in 1 .. 2
       PROVE  data_fifo'[i][k] = NextWord' + 2 * (i - 1) + k - 1
  <2>1. CASE i = m + 1
    BY <1>1, <1>2, <1>5, <1>6, <1>7, <1>9, <1>10, <2>1
  <2>2. CASE i \in 1 .. m
    BY <1>6, <1>9, <1>10, <2>2
  <2>3. QED
    BY <1>2, <2>1, <2>2
<1>13. QED
  BY <1>6, <1>10, <1>11, <1>12 DEF StreamInv, BeatWords

\* A beat leaves for the memory: its two words are the next ones.
LEMMA WriteStep ==
  ASSUME TypeInv, StreamInv, WriteBeat
  PROVE  /\ StreamInv' /\ NextWord' = NextWord + 2
         /\ \A k \in 1 .. 2 : Head(data_fifo)[k] = NextWord + k - 1
<1>1. /\ accepted \in Int /\ dc_fifo \in Seq(Nat) /\ data_fifo \in Seq(Beat)
      /\ data_fifo # <<>> /\ data_fifo' = Tail(data_fifo)
      /\ accepted' = accepted /\ dc_fifo' = dc_fifo
  BY DEF TypeInv, TypeOK, EngineTypeOK, WriteBeat, streamVars
<1> DEFINE m == Len(data_fifo)
<1>2. /\ m \in Nat /\ m >= 1 /\ Len(dc_fifo) \in Int
      /\ Len(data_fifo') = m - 1
      /\ \A i \in 1 .. m - 1 : data_fifo'[i] = data_fifo[i + 1]
      /\ Head(data_fifo) = data_fifo[1]
  BY <1>1
<1>3. NextWord' = NextWord + 2 /\ NextWord \in Int
  BY <1>1, <1>2 DEF NextWord, BeatWords
<1>4. \A i \in 1 .. m : \A k \in 1 .. 2 :
        data_fifo[i][k] = NextWord + 2 * (i - 1) + k - 1
  BY DEF StreamInv, BeatWords
<1> HIDE DEF m
<1>5. \A k \in 1 .. 2 : Head(data_fifo)[k] = NextWord + k - 1
  BY <1>2, <1>3, <1>4
<1>6. ASSUME NEW i \in 1 .. m - 1, NEW k \in 1 .. 2
      PROVE  data_fifo'[i][k] = NextWord' + 2 * (i - 1) + k - 1
  <2>1. i + 1 \in 1 .. m /\ data_fifo'[i] = data_fifo[i + 1]
    BY <1>2
  <2>2. data_fifo[i + 1][k] = NextWord + 2 * ((i + 1) - 1) + k - 1
    BY <1>4, <2>1
  <2>3. QED
    BY <1>2, <1>3, <2>1, <2>2
<1>7. QED
  BY <1>1, <1>2, <1>3, <1>5, <1>6 DEF StreamInv, BeatWords

\* A reset drops the beats that wait, so words are skipped.
LEMMA ResetStep ==
  ASSUME TypeInv, StreamInv, TakeReset
  PROVE  StreamInv' /\ NextWord' >= NextWord
<1>1. /\ accepted \in Int /\ dc_fifo \in Seq(Nat) /\ Len(data_fifo) \in Nat
      /\ accepted' = accepted /\ dc_fifo' = dc_fifo /\ data_fifo' = <<>>
  BY DEF TypeInv, TypeOK, EngineTypeOK, TakeReset, streamVars
<1>2. Len(data_fifo') = 0 /\ Len(dc_fifo) \in Int
  BY <1>1
<1>3. NextWord' >= NextWord /\ NextWord \in Int /\ NextWord' \in Int
  BY <1>1, <1>2 DEF NextWord, BeatWords
<1>4. QED
  BY <1>1, <1>2, <1>3 DEF StreamInv

-----------------------------------------------------------------------------
\* The numbers that the proofs calculate with.
LEMMA Ranges ==
  ASSUME TypeInv
  PROVE  /\ buf_size \in Nat /\ position \in Nat /\ seq_counter \in Nat
         /\ current \in {0, 1} /\ length_counter \in Nat
         /\ NextWord \in Int /\ Written \in Int /\ Began \in Int /\ First \in Int
<1>1. /\ accepted \in Int /\ Len(dc_fifo) \in Int /\ Len(data_fifo) \in Int
      /\ length_counter \in Nat
  BY DEF TypeInv, TypeOK, EngineTypeOK
<1>2. /\ buf_size \in Nat /\ position \in Nat /\ seq_counter \in Nat
      /\ current \in {0, 1}
  BY DmaLoopAssumption DEF TypeInv, TypeOK
<1>3. NextWord \in Int
  BY <1>1 DEF NextWord, BeatWords
<1>4. Written \in Int
  BY <1>1, <1>2 DEF Written
<1>5. Began \in Int
  BY <1>3, <1>4 DEF Began
<1>6. First \in Int
  BY <1>2, <1>3, <1>5 DEF First
<1>7. QED
  BY <1>1, <1>2, <1>3, <1>4, <1>5, <1>6

\* A transfer has written no more than its buffer, so the program never handles
\* words that are still to come.
LEMMA WrittenRange ==
  ASSUME TypeInv, EngineInv, AddressInv, pc \in Waiting
  PROVE  Written \in 0 .. buf_size
<1>1. buf_size \in Nat /\ length_counter \in Nat
  BY Ranges
<1>2. length_counter <= buf_size
  <2>1. CASE command_ready
    BY <1>1, <2>1 DEF EngineInv, MasterInv
  <2>2. CASE ~command_ready
    <3>1. address_counter \in Nat /\ Buf(Filling) \in Nat
      BY <1>1 DEF TypeInv, TypeOK, EngineTypeOK, Buf
    <3>2. /\ Buf(Filling) <= address_counter
          /\ address_counter + length_counter = Buf(Filling) + buf_size
      BY <2>2 DEF AddressInv
    <3>3. QED
      BY <1>1, <3>1, <3>2
  <2>3. QED
    BY <2>1, <2>2
<1>3. QED
  BY <1>1, <1>2 DEF Written

LEMMA FirstRange ==
  ASSUME TypeInv, EngineInv, AddressInv
  PROVE  First <= NextWord
<1>1. /\ buf_size \in Nat /\ NextWord \in Int /\ Written \in Int
      /\ pc \in Waiting => Written \in 0 .. buf_size
  BY Ranges, WrittenRange
<1>2. CASE pc \in Waiting
  BY <1>1, <1>2 DEF First, Began, Waiting
<1>3. CASE pc \notin Waiting
  BY <1>1, <1>3 DEF First, Waiting
<1>4. QED
  BY <1>2, <1>3

\* A step that touches neither memory nor transfer nor the program keeps what is
\* known of the buffers.
LEMMA DataKept ==
  ASSUME FillInv, HeldInv, OrderInv, NextWord' = NextWord,
         UNCHANGED <<pc, buf_size, current, primed, pkt, position, seq_counter>>,
         UNCHANGED <<ddr, command_fifo, length_counter>>
  PROVE  FillInv' /\ HeldInv' /\ OrderInv'
<1>1. Written' = Written /\ Began' = Began
  BY DEF Written, Began
<1>2. First' = First
  BY <1>1 DEF First
<1>3. FillInv'
  BY <1>1 DEF FillInv, Holds, Buf, Filling
<1>4. HeldInv'
  BY <1>2 DEF HeldInv, Holds, Buf
<1>5. OrderInv'
  BY <1>2 DEF OrderInv
<1>6. QED
  BY <1>3, <1>4, <1>5

\* Before the program starts its first transfer it relies on no buffer: the
\* stream may only go forward.
LEMMA DataOfNone ==
  ASSUME TypeInv, TypeInv', RunInv', OrderInv, First <= NextWord,
         NextWord' >= NextWord, position' = position,
         pc' \notin Waiting, ~(pc' = "launch" /\ primed')
  PROVE  FillInv' /\ HeldInv' /\ OrderInv'
<1>1. position \in Int /\ NextWord \in Int /\ First \in Int
  BY Ranges
<1>2. NextWord' \in Int
  <2>1. accepted' \in Int /\ Len(dc_fifo') \in Int /\ Len(data_fifo') \in Int
    BY DEF TypeInv, TypeOK, EngineTypeOK
  <2>2. QED
    BY <2>1 DEF NextWord, BeatWords
<1>3. First' = NextWord'
  BY DEF First, Waiting
<1>4. pc' \in {"down", "reset", "launch"}
  BY DEF TypeInv, TypeOK, Stages, Waiting
<1>5. position' < First'
  BY <1>1, <1>2, <1>3 DEF OrderInv
<1>6. pc' # "down" => seq_counter' = 0
  BY <1>4 DEF RunInv
<1>7. QED
  BY <1>4, <1>5, <1>6 DEF FillInv, HeldInv, OrderInv

\* What the program knows of its run (dma.c, main.c).
LEMMA RunStep ==
  ASSUME TypeInv, EngineInv, RunInv, [Next]_vars
  PROVE  RunInv'
<1>1. CASE Start
  BY <1>1 DEF Start, RunInv
<1>2. CASE ResetDma
  BY <1>2 DEF ResetDma, RunInv, runVars, sentVars
<1>3. CASE Launch
  BY <1>3 DEF Launch, RunInv, runVars, sentVars
<1>4. CASE CopyWord \/ PrintWord
  BY <1>4 DEF CopyWord, PrintWord, RunInv, runVars, sentVars
<1>5. CASE Send
  BY <1>5 DEF Send, RunInv, TypeInv, HostInv, runVars
<1>6. CASE Poll \/ Stop
  BY <1>6 DEF Poll, Stop, RunInv, runVars, sentVars
<1>7. CASE ReadResponse
  <2>1. pc = "response" /\ ~sw_reset
    BY <1>7 DEF ReadResponse, EngineInv, PhaseInv, WaitingInv, Waiting
  <2>2. QED
    BY <1>7, <2>1 DEF ReadResponse, PopResponse, RunInv, runVars, sentVars
<1>8. CASE EngineNext /\ UNCHANGED hostVars
  <2>1. sw_reset' => sw_reset
    BY <1>8 DEF EngineNext, AcceptWord, TakeBeat, RaiseBusy, IssueCommand,
       WriteBeat, DoneStrobe, TakeReset, dispatchVars
  <2>2. QED
    BY <1>8, <2>1 DEF RunInv, hostVars, runVars, sentVars
<1>9. CASE UNCHANGED vars
  BY <1>9 DEF vars, hostVars, runVars, sentVars, engineVars, dispatchVars, RunInv
<1>10. QED
  BY <1>1, <1>2, <1>3, <1>4, <1>5, <1>6, <1>7, <1>8, <1>9 DEF Next, Host

\* The engine takes the program's descriptor, and nothing is written yet.
LEMMA IssueStep ==
  ASSUME TypeInv, TypeInv', EngineInv, AddressInv, DataInv, RunInv', IssueCommand,
         NextWord' = NextWord, UNCHANGED hostVars
  PROVE  FillInv' /\ HeldInv' /\ OrderInv'
<1>1. /\ UNCHANGED <<pc, buf_size, current, primed, pkt, position, seq_counter>>
      /\ UNCHANGED ddr
  BY DEF IssueCommand, hostVars, runVars, sentVars
<1>2. CASE pc \in Waiting
  <2>1. Queued
    BY <1>2 DEF IssueCommand, EngineInv, PhaseInv, WaitingInv, Running, Answered
  <2>2. /\ command_fifo = <<[addr |-> Buf(Filling), len |-> buf_size]>>
        /\ Head(command_fifo) = [addr |-> Buf(Filling), len |-> buf_size]
    BY <2>1 DEF Queued
  <2>3. command_fifo' = <<>> /\ length_counter' = buf_size
    BY <2>2 DEF IssueCommand
  <2>4. Written = 0 /\ Written' = 0
    BY <1>1, <2>2, <2>3, Ranges DEF Written
  <2>5. Began' = Began
    BY <2>4 DEF Began
  <2>6. First' = First
    BY <1>1, <2>5 DEF First
  <2>7. FillInv'
    BY <2>4 DEF FillInv, Holds
  <2>8. HeldInv' /\ OrderInv'
    BY <1>1, <2>6 DEF DataInv, HeldInv, OrderInv, Holds, Buf
  <2>9. QED
    BY <2>7, <2>8
<1>3. CASE pc \notin Waiting
  <2>1. pc # "launch"
    BY DEF IssueCommand, EngineInv, PhaseInv, LaunchInv
  <2>2. First <= NextWord /\ NextWord' >= NextWord
    BY FirstRange, Ranges
  <2>3. QED
    BY <1>1, <1>3, <2>1, <2>2, DataOfNone DEF DataInv
<1>4. QED
  BY <1>2, <1>3

\* A beat of the program's transfer lands behind those before it, and not in the
\* buffer that the program reads.
LEMMA LandStep ==
  ASSUME ChunksAligned, TypeInv, TypeInv', EngineInv, AddressInv, DataInv, RunInv',
         WriteBeat, UNCHANGED hostVars
  PROVE  FillInv' /\ HeldInv' /\ OrderInv'
<1>1. /\ UNCHANGED <<pc, buf_size, current, primed, pkt, position, seq_counter>>
      /\ UNCHANGED command_fifo
  BY DEF WriteBeat, hostVars, runVars, sentVars, dispatchVars
<1>2. /\ NextWord' = NextWord + 2 /\ NextWord \in Int
      /\ \A k \in 1 .. 2 : Head(data_fifo)[k] = NextWord + k - 1
  BY WriteStep, Ranges DEF DataInv
<1>3. ~command_ready
  BY DEF WriteBeat, EngineInv, MasterInv
<1>4. CASE pc \in Waiting
  <2>1. command_fifo = <<>>
    BY <1>3, <1>4 DEF EngineInv, PhaseInv, WaitingInv, Queued, Running, Answered
  <2>2. /\ buf_size \in Nat /\ length_counter \in Nat /\ length_counter > 0
        /\ address_counter \in Nat /\ current \in {0, 1} /\ Filling \in {0, 1}
        /\ 2 * buf_size <= MemWords
    <3>1. buf_size \in Chunks /\ address_counter \in Nat
      BY DEF TypeInv, TypeOK, EngineTypeOK
    <3>2. length_counter > 0
      BY DEF WriteBeat
    <3>3. current \in {0, 1} /\ Filling \in {0, 1}
      BY Ranges DEF Filling
    <3>4. QED
      BY <3>1, <3>2, <3>3, Ranges, DmaLoopAssumption
  <2>3. Buf(Filling) \in {0, buf_size} /\ Buf(current) \in {0, buf_size}
    BY DEF Buf
  <2> DEFINE base == Buf(Filling)
             p == address_counter
             n == length_counter
  <2>4. /\ base <= p /\ p + n = base + buf_size
        /\ p % 2 = 0 /\ n % 2 = 0
    BY <1>3, <1>4 DEF AddressInv, BeatWords
  <2>5. n >= 2 /\ BeatBase = p /\ BytesToTransfer = 2
    BY <2>2, <2>4 DEF BeatBase, BytesToTransfer, BeatWords
  <2>6. /\ ddr' = [x \in DOMAIN ddr |->
                     IF x \in BeatBase .. BeatBase + BytesToTransfer - 1
                     THEN Head(data_fifo)[x - BeatBase + 1] ELSE ddr[x]]
        /\ length_counter' = n - BytesToTransfer
    BY DEF WriteBeat
  <2>7. DOMAIN ddr = 0 .. MemWords - 1
    BY DEF TypeInv, TypeOK, EngineTypeOK
  <2>8. Written = buf_size - n /\ Written' = buf_size - n + 2
    BY <1>1, <2>1, <2>2, <2>5, <2>6 DEF Written
  <2>9. Began' = Began /\ Began = NextWord - (p - base)
    BY <1>2, <2>2, <2>3, <2>4, <2>8 DEF Began
  <2>10. First' = First
    BY <1>1, <1>4, <2>9 DEF First, Waiting
  <2>11. Buf(Filling)' = base /\ Buf(current)' = Buf(current)
    BY <1>1 DEF Buf, Filling
  <2>12. p + 1 < MemWords
    BY <2>2, <2>3, <2>4, <2>5, MsgdmaAssumption
  <2>13. ASSUME NEW x \in 0 .. MemWords - 1
         PROVE  /\ x \notin p .. p + 1 => ddr'[x] = ddr[x]
                /\ x \in p .. p + 1 => ddr'[x] = Head(data_fifo)[x - p + 1]
    <3>1. BeatBase .. BeatBase + BytesToTransfer - 1 = p .. p + 1
      BY <2>2, <2>5
    <3>2. QED
      BY <2>5, <2>6, <2>7, <3>1
  <2>14. FillInv'
    <3>1. Holds(Filling, Began, Written)
      BY <1>4 DEF DataInv, FillInv
    <3>2. ASSUME NEW i \in 0 .. Written' - 1
          PROVE  ddr'[base + i] = Began + i
      <4>1. i \in 0 .. (p - base) + 1
        BY <2>2, <2>3, <2>4, <2>8, <3>2
      <4>2. base + i \in 0 .. MemWords - 1
        BY <2>2, <2>3, <2>4, <2>12, <4>1, MsgdmaAssumption
      <4>3. CASE i < p - base
        <5>1. i \in 0 .. Written - 1 /\ base + i \notin p .. p + 1
          BY <2>2, <2>3, <2>4, <2>8, <4>1, <4>3
        <5>2. ddr[base + i] = Began + i
          BY <3>1, <5>1 DEF Holds
        <5>3. QED
          BY <2>13, <4>2, <5>1, <5>2
      <4>4. CASE i >= p - base
        <5> DEFINE x == base + i
                   k == x - p + 1
        <5>1. x \in p .. p + 1 /\ k \in 1 .. 2
          BY <2>2, <2>3, <4>1, <4>4
        <5>2. NextWord + k - 1 = Began + i
          BY <1>2, <2>2, <2>3, <2>9, <4>1
        <5>3. x \in 0 .. MemWords - 1
          BY <4>2
        <5> HIDE DEF x
        <5>4. ddr'[x] = Head(data_fifo)[k]
          BY <2>13, <5>1, <5>3
        <5> HIDE DEF k
        <5>5. Head(data_fifo)[k] = NextWord + k - 1
          BY <1>2, <5>1
        <5>6. QED
          BY <5>2, <5>4, <5>5 DEF x
      <4>5. QED
        BY <2>2, <2>3, <4>1, <4>3, <4>4
    <3>3. QED
      BY <2>9, <2>11, <3>2 DEF FillInv, Holds
  <2>15. ASSUME pc = "copy", NEW i \in 0 .. buf_size - 1
         PROVE  ddr'[Buf(current) + i] = ddr[Buf(current) + i]
    <3>1. Filling = 1 - current
      BY <2>15 DEF TypeInv, HostInv, Filling
    <3>2. \/ Buf(current) = 0 /\ base = buf_size
          \/ Buf(current) = buf_size /\ base = 0
      BY <2>2, <3>1 DEF Buf
    <3>3. /\ Buf(current) + i \in 0 .. MemWords - 1
          /\ Buf(current) + i \notin p .. p + 1
      BY <2>2, <2>4, <2>5, <3>2, MsgdmaAssumption
    <3>4. QED
      BY <2>13, <3>3
  <2>16. HeldInv'
    BY <1>1, <1>4, <2>10, <2>11, <2>15 DEF DataInv, HeldInv, Holds, Waiting
  <2>17. OrderInv'
    BY <1>1, <2>10 DEF DataInv, OrderInv
  <2>18. QED
    BY <2>14, <2>16, <2>17
<1>5. CASE pc \notin Waiting
  <2>1. ~(pc = "launch" /\ primed)
    BY <1>3 DEF EngineInv, PhaseInv, LaunchInv, DataInv, RunInv
  <2>2. First <= NextWord /\ NextWord' >= NextWord
    BY <1>2, FirstRange
  <2>3. QED
    BY <1>1, <1>5, <2>1, <2>2, DataOfNone DEF DataInv
<1>6. QED
  BY <1>4, <1>5

\* A reset is taken only before the program's first transfer.
LEMMA SkipStep ==
  ASSUME TypeInv, TypeInv', EngineInv, AddressInv, DataInv, RunInv', TakeReset,
         UNCHANGED hostVars
  PROVE  FillInv' /\ HeldInv' /\ OrderInv'
<1>1. UNCHANGED <<pc, primed, position>>
  BY DEF hostVars, sentVars
<1>2. pc \notin Waiting /\ ~(pc = "launch" /\ primed)
  BY DEF TakeReset, EngineInv, PhaseInv, WaitingInv, DataInv, RunInv
<1>3. First <= NextWord /\ NextWord' >= NextWord
  BY FirstRange, ResetStep DEF DataInv
<1>4. QED
  BY <1>1, <1>2, <1>3, DataOfNone DEF DataInv

\* The transfer that starts leaves both buffers as they are.
LEMMA LaunchStep ==
  ASSUME TypeInv, EngineInv, DataInv, Launch
  PROVE  StreamInv' /\ FillInv' /\ HeldInv' /\ OrderInv'
<1>1. /\ pc = "launch" /\ UNCHANGED <<accepted, dc_fifo, data_fifo, ddr>>
      /\ UNCHANGED <<buf_size, current, primed, position, seq_counter>>
      /\ pkt' = <<>> /\ ~sw_reset
      /\ command_fifo' = Append(command_fifo, [addr |-> Buf(Filling), len |-> buf_size])
      /\ pc' = IF ~primed THEN "poll" ELSE IF udp_mode THEN "copy" ELSE "print"
  BY DEF Launch, PushDescriptor, DescriptorReady, streamVars, masterVars, runVars,
     sentVars
<1>2. StreamInv' /\ NextWord' = NextWord
  BY <1>1, StreamKept DEF DataInv
<1>3. command_fifo = <<>>
  BY <1>1 DEF EngineInv, PhaseInv, LaunchInv
<1>4. command_fifo' # <<>>
  BY <1>1, <1>3
<1>5. Written' = 0 /\ Began' = NextWord
  BY <1>2, <1>4, Ranges DEF Written, Began
<1>6. First' = First
  BY <1>1, <1>2, <1>5 DEF First
<1>7. FillInv'
  BY <1>5 DEF FillInv, Holds
<1>8. HeldInv'
  <2>1. pc' = "copy" => primed
    BY <1>1
  <2>2. Len(pkt') = 0 /\ pc' # "launch"
    BY <1>1
  <2>3. QED
    BY <1>1, <1>6, <2>1, <2>2 DEF DataInv, HeldInv, Holds, Buf
<1>9. OrderInv'
  BY <1>1, <1>6 DEF DataInv, OrderInv
<1>10. QED
  BY <1>2, <1>7, <1>8, <1>9

\* The program copies, prints or polls: the engine stands still, and what stands in
\* the buffer being filled stays known.
LEMMA FillKept ==
  ASSUME FillInv, UNCHANGED engineVars, UNCHANGED <<buf_size, current, primed>>,
         pc' \in Waiting => pc \in Waiting
  PROVE  FillInv' /\ NextWord' = NextWord /\ Began' = Began
<1>1. UNCHANGED <<accepted, dc_fifo, data_fifo, ddr, command_fifo, length_counter>>
  BY DEF engineVars, streamVars, masterVars, dispatchVars
<1>2. NextWord' = NextWord /\ Written' = Written /\ Began' = Began
  BY <1>1 DEF NextWord, Written, Began
<1>3. QED
  BY <1>1, <1>2 DEF FillInv, Holds, Buf, Filling

LEMMA CopyStep ==
  ASSUME TypeInv, DataInv, CopyWord
  PROVE  FillInv' /\ HeldInv' /\ OrderInv'
<1>1. /\ pc = "copy" /\ pc' \in {"copy", "send"} /\ UNCHANGED engineVars
      /\ UNCHANGED <<buf_size, current, primed, position, seq_counter>>
      /\ Len(pkt) < buf_size
      /\ pkt' = Append(pkt, ddr[Buf(current) + Len(pkt)])
  BY DEF CopyWord, runVars, sentVars
<1>2. FillInv' /\ NextWord' = NextWord /\ Began' = Began
  BY <1>1, FillKept DEF DataInv, Waiting
<1>3. First' = First /\ First \in Int
  BY <1>1, <1>2, Ranges DEF First
<1>4. ddr' = ddr /\ Len(pkt) \in Nat /\ pkt \in Seq(Nat)
  BY <1>1 DEF engineVars, TypeInv, TypeOK
<1>5. Holds(current, First, buf_size)
  BY <1>1 DEF DataInv, HeldInv
<1>6. ddr[Buf(current) + Len(pkt)] = First + Len(pkt)
  <2>1. Len(pkt) \in 0 .. buf_size - 1
    BY <1>1, <1>4, Ranges
  <2>2. QED
    BY <1>5, <2>1 DEF Holds
<1>7. /\ Len(pkt') = Len(pkt) + 1
      /\ pkt'[Len(pkt) + 1] = First + Len(pkt)
      /\ \A i \in 1 .. Len(pkt) : pkt'[i] = pkt[i]
  BY <1>1, <1>4, <1>6
<1>8. ASSUME NEW i \in 1 .. Len(pkt')
      PROVE  pkt'[i] = First' + i - 1
  <2>1. CASE i = Len(pkt) + 1
    BY <1>3, <1>4, <1>7, <2>1
  <2>2. CASE i \in 1 .. Len(pkt)
    BY <1>1, <1>3, <1>7, <2>2 DEF DataInv, HeldInv
  <2>3. QED
    BY <1>4, <1>7, <2>1, <2>2
<1>9. HeldInv'
  BY <1>1, <1>3, <1>4, <1>5, <1>8 DEF HeldInv, Holds, Buf
<1>10. OrderInv'
  BY <1>1, <1>3 DEF DataInv, OrderInv
<1>11. QED
  BY <1>2, <1>9, <1>10

\* The datagram is the chunk that begins with the first word not handled yet.
LEMMA SendStep ==
  ASSUME TypeInv, EngineInv, AddressInv, DataInv, Send
  PROVE  /\ FillInv' /\ HeldInv' /\ OrderInv'
         /\ First \in 1 .. MaxWords
         /\ Promise!Deliver(First)
<1>1. /\ pc = "send" /\ pc' = "poll" /\ UNCHANGED engineVars
      /\ UNCHANGED <<buf_size, current, primed>>
      /\ seq_counter' = seq_counter + 1 /\ position' = pkt[buf_size]
      /\ \/ datagram' = [seq |-> seq_counter, data |-> pkt]
         \/ UNCHANGED datagram
  BY DEF Send, runVars
<1>2. FillInv' /\ NextWord' = NextWord /\ Began' = Began
  BY <1>1, FillKept DEF DataInv, Waiting
<1>3. /\ buf_size \in Nat /\ buf_size > 0 /\ Len(pkt) = buf_size
      /\ pkt \in Seq(Nat) /\ position \in Nat /\ Began \in Int
  BY <1>1, Ranges DEF TypeInv, TypeOK, HostInv
<1>4. First = Began - buf_size /\ First' = Began
  BY <1>1, <1>2 DEF First
<1>5. \A i \in 1 .. buf_size : pkt[i] = First + i - 1
  BY <1>1, <1>3 DEF DataInv, HeldInv
<1>6. position' = First + buf_size - 1
  BY <1>1, <1>3, <1>5
<1>7. HeldInv'
  BY <1>1 DEF HeldInv
<1>8. OrderInv'
  BY <1>3, <1>4, <1>6 DEF OrderInv
<1>9. First > position /\ (seq_counter > 0 => First = position + 1)
  BY <1>1, <1>3, <1>4 DEF DataInv, OrderInv
<1>10. First \in 1 .. MaxWords
  <2>1. First >= 1
    BY <1>3, <1>4, <1>9
  <2>2. NextWord <= MaxWords + 1 /\ NextWord \in Int
    <3>1. /\ accepted \in 0 .. MaxWords
          /\ Len(dc_fifo) \in Nat /\ Len(data_fifo) \in Nat
      BY DEF TypeInv, TypeOK, EngineTypeOK
    <3>2. QED
      BY <3>1, MsgdmaAssumption DEF NextWord, BeatWords
  <2>3. Written \in 0 .. buf_size
    BY <1>1, WrittenRange DEF Waiting
  <2>4. QED
    BY <1>3, <1>4, <2>1, <2>2, <2>3, MsgdmaAssumption DEF Began
<1>11. pkt = Promise!WordsFrom(First)
  BY <1>3, <1>5 DEF Promise!WordsFrom
<1>12. Promise!Deliver(First)
  BY <1>1, <1>6, <1>9, <1>11 DEF Promise!Deliver
<1>13. QED
  BY <1>2, <1>7, <1>8, <1>10, <1>12

\* Printing and polling handle no chunk of the stream.
LEMMA WaitStep ==
  ASSUME TypeInv, DataInv, PrintWord \/ Poll
  PROVE  FillInv' /\ HeldInv' /\ OrderInv'
<1>1. /\ UNCHANGED engineVars
      /\ UNCHANGED <<buf_size, current, primed, position, seq_counter>>
      /\ \/ pc = "print" /\ pc' \in {"print", "poll"}
         \/ pc = "poll" /\ pc' = "response"
  BY DEF PrintWord, Poll, runVars, sentVars
<1>2. FillInv' /\ NextWord' = NextWord /\ Began' = Began
  BY <1>1, FillKept DEF DataInv, Waiting
<1>3. HeldInv'
  BY <1>1 DEF HeldInv
<1>4. First' >= First /\ First \in Int /\ First' \in Int
      /\ (pc = "poll" => First' = First)
  BY <1>1, <1>2, Ranges DEF First
<1>5. pc = "print" => seq_counter = 0
  BY DEF DataInv, RunInv
<1>6. position \in Nat /\ seq_counter \in Nat
  BY Ranges
<1>7. position' < First'
  BY <1>1, <1>4, <1>6 DEF DataInv, OrderInv
<1>8. seq_counter' > 0 => position' = First' - 1
  <2>1. CASE pc = "print"
    BY <1>1, <1>5, <2>1
  <2>2. CASE pc = "poll"
    BY <1>1, <1>4, <2>2 DEF DataInv, OrderInv
  <2>3. QED
    BY <1>1, <2>1, <2>2
<1>9. QED
  BY <1>2, <1>3, <1>7, <1>8 DEF OrderInv

\* When the response is read the transfer's buffer is full, and it is the one the
\* program handles next.
LEMMA SwapStep ==
  ASSUME Timing, TypeInv, EngineInv, DataInv, ReadResponse
  PROVE  StreamInv' /\ FillInv' /\ HeldInv' /\ OrderInv'
<1>1. /\ pc = "response" /\ pc' = "launch" /\ response_fifo > 0 /\ primed'
      /\ UNCHANGED <<accepted, dc_fifo, data_fifo, ddr>>
      /\ UNCHANGED <<buf_size, position, seq_counter>>
      /\ current' = IF primed THEN 1 - current ELSE current
  BY DEF ReadResponse, PopResponse, Swapped, streamVars, masterVars, runVars, sentVars
<1>2. StreamInv' /\ NextWord' = NextWord
  BY <1>1, StreamKept DEF DataInv
<1>3. Answered
  BY <1>1, ResponseMeansOver DEF EngineInv
<1>4. Written = buf_size
  BY <1>3, Ranges DEF Answered, Written, EngineInv, MasterInv
<1>5. First = NextWord - buf_size /\ First' = First
  BY <1>1, <1>2, <1>4 DEF First, Began
<1>6. current' = Filling
  BY <1>1 DEF Filling
<1>7. Holds(Filling, First, buf_size)
  BY <1>1, <1>4, <1>5 DEF DataInv, FillInv, Began, Waiting
<1>8. HeldInv'
  BY <1>1, <1>5, <1>6, <1>7 DEF HeldInv, Holds, Buf
<1>9. FillInv'
  BY <1>1 DEF FillInv, Waiting
<1>10. OrderInv'
  BY <1>1, <1>5 DEF DataInv, OrderInv
<1>11. QED
  BY <1>2, <1>8, <1>9, <1>10

\* A launch, a reset and a kill give up what the buffers hold.
LEMMA RestartStep ==
  ASSUME TypeInv, TypeInv', EngineInv, AddressInv, DataInv, RunInv',
         Start \/ ResetDma \/ Stop
  PROVE  StreamInv' /\ FillInv' /\ HeldInv' /\ OrderInv'
<1>1. /\ UNCHANGED <<accepted, dc_fifo, data_fifo, position>>
      /\ \/ pc' \in {"down", "reset"}
         \/ pc = "reset" /\ pc' = "launch" /\ primed' = primed
  BY DEF Start, ResetDma, Stop, WriteReset, engineVars, streamVars, masterVars, sentVars
<1>2. StreamInv' /\ NextWord' = NextWord
  BY <1>1, StreamKept DEF DataInv
<1>3. pc' \notin Waiting /\ ~(pc' = "launch" /\ primed')
  BY <1>1 DEF Waiting, DataInv, RunInv
<1>4. First <= NextWord /\ NextWord' >= NextWord
  BY <1>2, FirstRange, Ranges
<1>5. QED
  BY <1>1, <1>2, <1>3, <1>4, DataOfNone DEF DataInv

\* What the engine does on its own.
LEMMA EngineDataStep ==
  ASSUME ChunksAligned, TypeInv, TypeInv', EngineInv, AddressInv, DataInv, RunInv',
         EngineNext, UNCHANGED hostVars
  PROVE  StreamInv' /\ FillInv' /\ HeldInv' /\ OrderInv'
<1>1. UNCHANGED <<pc, buf_size, current, primed, pkt, position, seq_counter>>
  BY DEF hostVars, runVars, sentVars
<1>2. CASE AcceptWord \/ TakeBeat \/ RaiseBusy \/ DoneStrobe
  <2>1. UNCHANGED <<ddr, command_fifo, length_counter>>
    BY <1>2 DEF AcceptWord, TakeBeat, RaiseBusy, DoneStrobe, masterVars, dispatchVars
  <2>2. StreamInv' /\ NextWord' = NextWord
    <3>1. CASE RaiseBusy \/ DoneStrobe
      BY <3>1, StreamKept DEF RaiseBusy, DoneStrobe, streamVars, masterVars, DataInv
    <3>2. CASE AcceptWord \/ TakeBeat
      BY <3>2, AcceptStep, BeatStep DEF DataInv
    <3>3. QED
      BY <1>2, <3>1, <3>2
  <2>3. QED
    BY <1>1, <2>1, <2>2, DataKept DEF DataInv
<1>3. CASE IssueCommand
  <2>1. StreamInv' /\ NextWord' = NextWord
    BY <1>3, StreamKept DEF IssueCommand, streamVars, DataInv
  <2>2. QED
    BY <1>3, <2>1, IssueStep
<1>4. CASE WriteBeat
  BY <1>4, LandStep, WriteStep DEF DataInv
<1>5. CASE TakeReset
  BY <1>5, SkipStep, ResetStep DEF DataInv
<1>6. QED
  BY <1>2, <1>3, <1>4, <1>5 DEF EngineNext

\* Every step keeps DataInv, and is a step of ChunkStream or none.
LEMMA DataStep ==
  ASSUME ChunksAligned, Timing, TypeInv, EngineInv, AddressInv, DataInv, TypeInv',
         [Next]_vars
  PROVE  DataInv' /\ [Promise!StreamNext]_(Promise!streamState)
<1>1. RunInv'
  BY RunStep DEF DataInv
<1> DEFINE Unseen == UNCHANGED <<buf_size, seq_counter, position, datagram>>
<1>2. CASE Start
  <2>1. Promise!Relaunch
    BY <1>2 DEF Start, Promise!Relaunch
  <2>2. QED
    BY <1>1, <1>2, <2>1, RestartStep DEF DataInv, Promise!StreamNext
<1>3. CASE Send
  <2>1. StreamInv'
    BY <1>3, StreamKept DEF Send, engineVars, streamVars, masterVars, DataInv
  <2>2. QED
    BY <1>1, <1>3, <2>1, SendStep DEF DataInv, Promise!StreamNext
<1>4. CASE CopyWord \/ PrintWord \/ Poll
  <2>1. Unseen /\ StreamInv'
    BY <1>4, StreamKept
       DEF CopyWord, PrintWord, Poll, engineVars, streamVars, masterVars, runVars,
           sentVars, DataInv
  <2>2. QED
    BY <1>1, <1>4, <2>1, CopyStep, WaitStep DEF DataInv, Promise!streamState
<1>5. CASE ResetDma \/ Stop
  <2>1. Unseen
    BY <1>5 DEF ResetDma, Stop, runVars, sentVars
  <2>2. QED
    BY <1>1, <1>5, <2>1, RestartStep DEF DataInv, Promise!streamState
<1>6. CASE Launch \/ ReadResponse
  <2>1. Unseen
    BY <1>6 DEF Launch, ReadResponse, runVars, sentVars
  <2>2. QED
    BY <1>1, <1>6, <2>1, LaunchStep, SwapStep DEF DataInv, Promise!streamState
<1>7. CASE EngineNext /\ UNCHANGED hostVars
  <2>1. Unseen
    BY <1>7 DEF hostVars, runVars, sentVars
  <2>2. QED
    BY <1>1, <1>7, <2>1, EngineDataStep DEF DataInv, Promise!streamState
<1>8. CASE UNCHANGED vars
  <2>1. /\ UNCHANGED <<accepted, dc_fifo, data_fifo, ddr, command_fifo, length_counter>>
        /\ UNCHANGED <<pc, buf_size, current, primed, pkt, position, seq_counter>>
        /\ Unseen
    BY <1>8 DEF vars, hostVars, runVars, sentVars, engineVars, streamVars, masterVars,
       dispatchVars
  <2>2. QED
    BY <1>1, <2>1, StreamKept, DataKept DEF DataInv, Promise!streamState
<1>9. QED
  BY <1>2, <1>3, <1>4, <1>5, <1>6, <1>7, <1>8 DEF Next, Host

LEMMA DataInit == Init => DataInv /\ Promise!StreamInit
<1> SUFFICES ASSUME Init
             PROVE  DataInv /\ Promise!StreamInit
  OBVIOUS
<1>1. /\ accepted = 0 /\ Len(dc_fifo) = 0 /\ Len(data_fifo) = 0
      /\ pc = "down" /\ position = 0
  BY DEF Init, EngineInit
<1>2. NextWord = 1 /\ First = 1
  BY <1>1 DEF NextWord, First, BeatWords
<1>3. StreamInv
  BY <1>1, <1>2 DEF StreamInv
<1>4. FillInv /\ HeldInv /\ OrderInv /\ RunInv
  BY <1>1, <1>2 DEF FillInv, HeldInv, OrderInv, RunInv, Waiting
<1>5. Promise!StreamInit
  BY DEF Init, Promise!StreamInit
<1>6. QED
  BY <1>3, <1>4, <1>5 DEF DataInv

\* The program keeps the promise of ChunkStream, for every set of chunk sizes that
\* are whole beats: within a run of dma_loop the datagrams are numbered chunks that
\* continue one another, and no kill, relaunch or refused datagram tears one.
THEOREM StreamCorrect ==
  ChunksAligned /\ Timing => (Spec => DeliversChunks)
<1> SUFFICES ASSUME ChunksAligned, Timing
             PROVE  Spec => DeliversChunks
  OBVIOUS
<1>1. Init => AddressInv
  BY DEF Init, AddressInv, Waiting
<1>2. TypeInv /\ EngineInv /\ AddressInv /\ [Next]_vars => AddressInv'
  BY AddressStep
<1>3. Spec => [](TypeInv /\ EngineInv /\ AddressInv)
  BY <1>1, <1>2, EngineCorrect, PTL DEF Spec
<1>4. /\ TypeInv /\ EngineInv /\ AddressInv /\ DataInv /\ TypeInv' /\ [Next]_vars
      => DataInv' /\ [Promise!StreamNext]_(Promise!streamState)
  BY DataStep
<1>5. QED
  BY <1>3, <1>4, DataInit, PTL DEF Spec, DeliversChunks, Promise!StreamSpec
=============================================================================
