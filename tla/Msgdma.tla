------------------------------- MODULE Msgdma -------------------------------
(***************************************************************************)
(* The streaming-to-memory DMA engine of the FPGA (soc_system_msgdma_0):   *)
(* dispatcher, descriptor FIFO, response FIFO and write master, together   *)
(* with the dc_fifo in front of it and the DDR behind it.  The registers   *)
(* the ARM program uses are operators (PushDescriptor, PopResponse,        *)
(* WriteReset, ReadStatus); what the engine does on its own is an action   *)
(* each.  The unit of data is one 32-bit I/Q word; the data bus is         *)
(* BeatWords words wide.  A word is named by the position at which the     *)
(* dc_fifo accepted it: 1, 2, 3, ...                                       *)
(***************************************************************************)
EXTENDS Naturals, Sequences

CONSTANTS
  MemWords,    \* words of DDR the model has (DDR_MAP_SIZE / 4 in the code)
  DescDepth,   \* DESCRIPTOR_FIFO_DEPTH (256 in the instance)
  RespDepth,   \* RESPONSE_FIFO_DEPTH (512)
  FifoBeats,   \* write master data FIFO, in beats (4096)
  DcWords,     \* dc_fifo_0, in words (1024)
  MemoryStalls,\* the memory may hold a write of the engine by waitrequest
  EarlyStatus, \* a status read may reach the engine before busy has risen
  MaxWords     \* bound of the model: words the receiver delivers

ASSUME MsgdmaAssumption ==
  /\ MemWords \in Nat /\ MaxWords \in Nat
  /\ DescDepth \in Nat /\ FifoBeats \in Nat /\ DcWords \in Nat
  /\ RespDepth \in Nat \ {0, 1}
  /\ MemoryStalls \in BOOLEAN /\ EarlyStatus \in BOOLEAN

BeatWords == 2

VARIABLES
  accepted,          \* words the dc_fifo has accepted so far
  dc_fifo,           \* dc_fifo_0
  data_fifo,         \* the_st_to_master_fifo: a sequence of beats
  command_fifo,      \* the_write_command_FIFO: a sequence of [addr, len]
  all_transfers_done,\* status bit 0 is its negation
  sw_reset,          \* a soft reset is being taken
  command_ready,     \* snk_command_ready: the write master has no transfer
  address_counter, length_counter,
  response_valid,    \* src_response_valid: the last write completed
  response_fifo,     \* number of responses waiting
  ddr                \* [0 .. MemWords-1 -> word], 0 where nothing was written

streamVars == <<accepted, dc_fifo>>
masterVars == <<data_fifo, command_ready, address_counter, length_counter,
                response_valid>>
dispatchVars == <<command_fifo, all_transfers_done, sw_reset, response_fifo>>
engineVars == <<streamVars, masterVars, dispatchVars, ddr>>

EngineInit ==
  /\ accepted = 0
  /\ dc_fifo = <<>>
  /\ data_fifo = <<>>
  /\ command_fifo = <<>>
  /\ all_transfers_done = TRUE
  /\ sw_reset = FALSE
  /\ command_ready = TRUE
  /\ address_counter = 0
  /\ length_counter = 0
  /\ response_valid = FALSE
  /\ response_fifo = 0
  /\ ddr = [a \in 0 .. MemWords - 1 |-> 0]

(***************************************************************************)
(* The registers, as the program sees them.                                *)
(***************************************************************************)
\* Status bit 0.
Busy == ~all_transfers_done

\* A read of the status register finds the engine idle.  Busy rises two clocks
\* after GO (RaiseBusy): a read that takes longer than that does not see the
\* idle of before.
ReadsIdle == ~Busy /\ (EarlyStatus \/ command_fifo = <<>>)

\* waitrequest of the descriptor slave.
DescriptorReady == Len(command_fifo) < DescDepth /\ ~sw_reset

\* Write address, length and the GO bit: the descriptor enters the FIFO.
PushDescriptor(a, n) ==
  /\ DescriptorReady
  /\ command_fifo' = Append(command_fifo, [addr |-> a, len |-> n])
  /\ UNCHANGED <<streamVars, masterVars, all_transfers_done, sw_reset,
                 response_fifo, ddr>>

\* Mutant: only the low response word is read, which pops nothing.
PoppedResponses_LowWordOnly == response_fifo

\* Reading the upper byte of the high response word pops the FIFO.
PoppedResponses == response_fifo - 1

\* Read the response's low word, held by waitrequest while the FIFO is empty,
\* then its high word, whose upper byte pops the FIFO.
PopResponse ==
  /\ response_fifo > 0
  /\ response_fifo' = PoppedResponses
  /\ UNCHANGED <<streamVars, masterVars, command_fifo, all_transfers_done,
                 sw_reset, ddr>>

\* Control bit 1: both FIFOs of the dispatcher are cleared and busy drops at
\* once; the write master takes the reset later (TakeReset).
WriteReset ==
  /\ sw_reset' = TRUE
  /\ command_fifo' = <<>>
  /\ response_fifo' = 0
  /\ all_transfers_done' = TRUE
  /\ UNCHANGED <<streamVars, masterVars, ddr>>

(***************************************************************************)
(* What the hardware does on its own.                                      *)
(***************************************************************************)
\* The receiver delivers a word; with the dc_fifo full it is not accepted.
AcceptWord ==
  /\ accepted < MaxWords
  /\ Len(dc_fifo) < DcWords
  /\ accepted' = accepted + 1
  /\ dc_fifo' = Append(dc_fifo, accepted + 1)
  /\ UNCHANGED <<masterVars, dispatchVars, ddr>>

\* Mutant: the full flag is seen one beat late.
SinkReady_Late == Len(data_fifo) <= FifoBeats

\* snk_ready.  The SOP term of the code never applies: SOP is never set on a
\* word (IqSource), and END_ON_EOP is not set in any descriptor.
SinkReady == Len(data_fifo) < FifoBeats

\* Two words become one 64-bit beat, whether or not a transfer is running.
TakeBeat ==
  /\ Len(dc_fifo) >= BeatWords
  /\ SinkReady
  /\ data_fifo' = Append(data_fifo, SubSeq(dc_fifo, 1, BeatWords))
  /\ dc_fifo' = SubSeq(dc_fifo, BeatWords + 1, Len(dc_fifo))
  /\ UNCHANGED <<accepted, command_ready, address_counter, length_counter,
                 response_valid, dispatchVars, ddr>>

\* Busy rises one clock after the command FIFO became non-empty: until then
\* the status register still reads idle.
RaiseBusy ==
  /\ command_fifo # <<>>
  /\ all_transfers_done
  /\ all_transfers_done' = FALSE
  /\ UNCHANGED <<streamVars, masterVars, command_fifo, sw_reset,
                 response_fifo, ddr>>

\* A command is valid two clocks after that, unless the response FIFO is full;
\* a strobe left over from a reset (TakeReset) is over by then.
IssueCommand ==
  /\ command_fifo # <<>>
  /\ Busy
  /\ ~sw_reset
  /\ response_fifo < RespDepth
  /\ command_ready /\ ~response_valid
  /\ command_ready' = FALSE
  /\ address_counter' = Head(command_fifo).addr
  /\ length_counter' = Head(command_fifo).len
  /\ command_fifo' = Tail(command_fifo)
  /\ UNCHANGED <<streamVars, data_fifo, response_valid, all_transfers_done,
                 sw_reset, response_fifo, ddr>>

\* One beat to memory.  The address is aligned down to a beat; the last beat
\* of an odd length is written, and taken from the FIFO, as one word.
BeatBase == address_counter - (address_counter % BeatWords)
BytesToTransfer == IF length_counter < BeatWords THEN length_counter ELSE BeatWords

WriteBeat ==
  /\ length_counter > 0
  /\ data_fifo # <<>>
  /\ ddr' = [a \in DOMAIN ddr |->
               IF a \in BeatBase .. BeatBase + BytesToTransfer - 1
               THEN Head(data_fifo)[a - BeatBase + 1] ELSE ddr[a]]
  /\ data_fifo' = Tail(data_fifo)
  /\ address_counter' = address_counter + BeatWords
  /\ length_counter' = length_counter - BytesToTransfer
  /\ response_valid' = (length_counter' = 0)
  /\ UNCHANGED <<streamVars, command_ready, dispatchVars>>

\* Mutant: the end of a transfer does not clear busy.
TransfersDone_Stuck == all_transfers_done

\* all_transfers_done at the strobe: no descriptor waits.
TransfersDone == all_transfers_done \/ command_fifo = <<>>

\* The dispatcher's done_strobe: the response is pushed, busy drops if no
\* descriptor waits, the write master takes commands again.  During a reset
\* the response FIFO is held empty.
DoneStrobe ==
  /\ response_valid
  /\ response_valid' = FALSE
  /\ command_ready' = TRUE
  /\ response_fifo' = IF sw_reset THEN 0 ELSE response_fifo + 1
  /\ all_transfers_done' = TransfersDone
  /\ UNCHANGED <<streamVars, data_fifo, address_counter, length_counter,
                 command_fifo, sw_reset, ddr>>

\* The abandoned transfer looks done when its length is cleared.  reset_taken
\* masks the strobe of that, unless the memory holds a write in the very clock
\* in which reset_taken is high: then it is low again in the next one, and the
\* strobe fires after the response FIFO came out of reset.
StrobeAfterReset == MemoryStalls /\ length_counter > 0 /\ data_fifo # <<>>

\* reset_taken: the transfer in progress is abandoned and its data dropped.
\* The dc_fifo has another reset and keeps its words.
TakeReset ==
  /\ sw_reset
  /\ sw_reset' = FALSE
  /\ data_fifo' = <<>>
  /\ length_counter' = 0
  /\ \/ response_valid' = FALSE
     \/ StrobeAfterReset /\ response_valid' = TRUE
  /\ command_ready' = TRUE
  /\ UNCHANGED <<streamVars, address_counter, command_fifo,
                 all_transfers_done, response_fifo, ddr>>

EngineNext ==
  \/ AcceptWord \/ TakeBeat
  \/ RaiseBusy \/ IssueCommand \/ WriteBeat \/ DoneStrobe
  \/ TakeReset

\* Hardware clocks on: no step of the engine that stays possible is put off
\* for ever, and the receiver keeps delivering.
EngineFairness ==
  /\ WF_engineVars(AcceptWord)
  /\ WF_engineVars(TakeBeat)
  /\ WF_engineVars(RaiseBusy)
  /\ WF_engineVars(IssueCommand)
  /\ WF_engineVars(WriteBeat)
  /\ WF_engineVars(DoneStrobe)
  /\ WF_engineVars(TakeReset)

(***************************************************************************)
(* What the engine may still write.                                        *)
(***************************************************************************)
\* The words a transfer of n words from address a writes.
Target(a, n) == LET base == a - (a % BeatWords) IN base .. base + n - 1

\* The words of DDR the transfer in progress and the queued ones still write.
Outstanding ==
  Target(address_counter, length_counter)
    \cup UNION {Target(command_fifo[i].addr, command_fifo[i].len) :
                  i \in DOMAIN command_fifo}

Beat == [1 .. BeatWords -> Nat]

EngineTypeOK ==
  /\ accepted \in 0 .. MaxWords
  /\ dc_fifo \in Seq(Nat) /\ Len(dc_fifo) <= DcWords
  /\ data_fifo \in Seq(Beat) /\ Len(data_fifo) <= FifoBeats
  /\ command_fifo \in Seq([addr : Nat, len : Nat])
  /\ Len(command_fifo) <= DescDepth
  /\ all_transfers_done \in BOOLEAN
  /\ sw_reset \in BOOLEAN
  /\ command_ready \in BOOLEAN
  /\ address_counter \in Nat
  /\ length_counter \in Nat
  /\ response_valid \in BOOLEAN
  /\ response_fifo \in Nat
  /\ ddr \in [0 .. MemWords - 1 -> Nat]
=============================================================================
