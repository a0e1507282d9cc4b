------------------------------ MODULE DmaLoop ------------------------------
(***************************************************************************)
(* The ARM program of final_c_code_2 as dma.c runs it: dma_init resets the *)
(* engine, dma_loop fills buffer 0, then for ever starts a transfer into   *)
(* one buffer, hands the other one to the network (udp mode) or to the     *)
(* terminal (test mode), waits for the transfer and swaps the buffers.     *)
(* The process may be stopped at any step and launched again, with another *)
(* chunk size, while the engine runs on.  buf_size is config_chunk_bytes   *)
(* in 32-bit words.                                                        *)
(***************************************************************************)
EXTENDS Msgdma

CONSTANTS
  Chunks,      \* chunk sizes, in words, config.txt may give
  Modes,       \* argv[1] of a launch: TRUE for "udp", FALSE for "test"
  PrintWords,  \* words print_data shows (16 64-bit samples in the code)
  MaxRuns      \* bound of the model: launches of the process

ASSUME DmaLoopAssumption ==
  /\ Chunks \subseteq Nat
  /\ \A c \in Chunks : 2 * c <= MemWords   \* both buffers are in the mapping
  /\ Modes \subseteq BOOLEAN
  /\ PrintWords \in 0 .. MemWords
  /\ MaxRuns \in Nat

VARIABLES
  pc,          \* what the process does next
  runs,        \* launches so far
  udp_mode, buf_size, current, seq_counter,
  primed,      \* the prefill of buffer 0 is over
  pkt,         \* words read so far from the buffer being handled
  datagram,    \* the last datagram the network took: [seq, data]
  position     \* history: the last word of the last chunk handled

runVars == <<runs, udp_mode, buf_size>>       \* fixed for a run
sentVars == <<seq_counter, datagram, position>>
hostVars == <<pc, runVars, current, primed, pkt, sentVars>>
vars == <<engineVars, hostVars>>

Stages == {"down", "reset", "launch", "copy", "send", "print", "poll",
           "response"}

\* buf_addr and buf_ptr, relative to DDR_BUFFER_BASE.
Buf(b) == IF b = 0 THEN 0 ELSE buf_size

\* Mutant: the main loop programs the buffer it is about to send.
Filling_Current == current

\* The buffer the transfer goes to: buffer 0 in the prefill, then 'next'.
Filling == IF primed THEN 1 - current ELSE current

Init ==
  /\ EngineInit
  /\ pc = "down"
  /\ runs = 0
  /\ udp_mode \in Modes
  /\ buf_size \in Chunks
  /\ current = 0
  /\ seq_counter = 0
  /\ primed = FALSE
  /\ pkt = <<>>
  /\ datagram = [seq |-> 0, data |-> <<>>]
  /\ position = 0

\* config_load and the arguments, then the mappings and the socket.
Start ==
  /\ pc = "down" /\ runs < MaxRuns
  /\ pc' = "reset"
  /\ runs' = runs + 1
  /\ udp_mode' \in Modes
  /\ buf_size' \in Chunks
  /\ current' = 0 /\ primed' = FALSE /\ seq_counter' = 0
  /\ pkt' = <<>>
  /\ UNCHANGED <<engineVars, datagram, position>>

\* 0x02 then 0x00 to the control register; nothing waits for the reset.
ResetDma ==
  /\ pc = "reset"
  /\ WriteReset
  /\ pc' = "launch"
  /\ UNCHANGED <<runVars, current, sentVars, primed, pkt>>

\* Program and start the transfer; the prefill has no buffer to handle yet.
Launch ==
  /\ pc = "launch"
  /\ PushDescriptor(Buf(Filling), buf_size)
  /\ pc' = IF ~primed THEN "poll" ELSE IF udp_mode THEN "copy" ELSE "print"
  /\ pkt' = <<>>
  /\ UNCHANGED <<runVars, current, sentVars, primed>>

\* One turn of the htonl loop.
CopyWord ==
  /\ pc = "copy"
  /\ Len(pkt) < buf_size
  /\ pkt' = Append(pkt, ddr[Buf(current) + Len(pkt)])
  /\ pc' = IF Len(pkt') = buf_size THEN "send" ELSE "copy"
  /\ UNCHANGED <<engineVars, runVars, current, sentVars, primed>>

\* sendto: the number is spent whether or not the datagram leaves.
Send ==
  /\ pc = "send"
  /\ \/ datagram' = [seq |-> seq_counter, data |-> pkt]
     \/ UNCHANGED datagram
  /\ seq_counter' = seq_counter + 1
  /\ position' = pkt[buf_size]
  /\ pc' = "poll"
  /\ UNCHANGED <<engineVars, runVars, current, primed, pkt>>

\* print_data always starts at the first word of the DDR mapping.
PrintWord ==
  /\ pc = "print"
  /\ Len(pkt) < PrintWords
  /\ pkt' = Append(pkt, ddr[Len(pkt)])
  /\ pc' = IF Len(pkt') = PrintWords THEN "poll" ELSE "print"
  /\ UNCHANGED <<engineVars, runVars, current, sentVars, primed>>

\* Spin on status bit 0.
Poll ==
  /\ pc = "poll"
  /\ ReadsIdle
  /\ pc' = "response"
  /\ UNCHANGED <<engineVars, runVars, current, sentVars, primed, pkt>>

\* Mutant: the buffers swap after the prefill too.
Swapped_Always == 1 - current

\* current ^= 1 at the end of a turn of the main loop, not after the prefill.
Swapped == IF primed THEN 1 - current ELSE current

\* Read both response words; the buffers swap, except after the prefill.
ReadResponse ==
  /\ pc = "response"
  /\ PopResponse
  /\ current' = Swapped
  /\ primed' = TRUE
  /\ pc' = "launch"
  /\ UNCHANGED <<runVars, sentVars, pkt>>

\* SIGINT, SIGTERM, SIGKILL or a crash: the engine is left as it is.  A read
\* held by waitrequest cannot be interrupted.
Stop ==
  /\ pc # "down"
  /\ pc = "response" => response_fifo > 0
  /\ pc' = "down"
  /\ UNCHANGED <<engineVars, runVars, current, sentVars, primed, pkt>>

Host == Start \/ ResetDma \/ Launch \/ CopyWord \/ Send \/ PrintWord \/ Poll
          \/ ReadResponse

Next == \/ Host
        \/ Stop
        \/ EngineNext /\ UNCHANGED hostVars

Spec == Init /\ [][Next]_vars

\* The scheduler runs the process; nothing obliges anyone to stop it.
FairSpec == Spec /\ WF_vars(Host) /\ EngineFairness

-----------------------------------------------------------------------------
(***************************************************************************)
(* Properties.                                                             *)
(***************************************************************************)
\* The variables of the engine and of the program stay in their types, and
\* every queue within its depth (dma.c state, scfifo and dc_fifo depths).
TypeOK ==
  /\ EngineTypeOK
  /\ pc \in Stages
  /\ runs \in 0 .. MaxRuns
  /\ udp_mode \in Modes
  /\ buf_size \in Chunks
  /\ current \in {0, 1}
  /\ primed \in BOOLEAN
  /\ seq_counter \in Nat
  /\ pkt \in Seq(Nat)
  /\ datagram \in [seq : Nat, data : Seq(Nat)]
  /\ position \in Nat

\* While the htonl loop of dma.c copies a buffer, no word it has still to read
\* can be written by the engine: not by the transfer in progress, not by a
\* queued one, not by one a killed process left behind.
BufferExclusion ==
  pc = "copy" =>
    {Buf(current) + i : i \in Len(pkt) .. buf_size - 1} \cap Outstanding = {}

\* Descriptors, transfers and responses that the program has not collected.
Uncollected ==
  Len(command_fifo) + response_fifo
    + (IF command_ready /\ ~response_valid THEN 0 ELSE 1)

\* Responses a reset may leave behind: one, of a transfer that the process
\* before this one left running (TakeReset).
LeftOver == IF MemoryStalls /\ runs > 1 THEN {0, 1} ELSE {0}

\* Every transfer is collected exactly once: between the GO of a descriptor
\* and the read of its response there is one of it in the engine, and when
\* the program starts the next transfer none is, but for the one response that
\* a reset may leave behind.  It never becomes two, however long the program
\* runs and however often it is launched: neither FIFO of the dispatcher fills.
TransferAccounting ==
  /\ pc \in {"copy", "send", "print", "poll", "response"}
       => Uncollected - 1 \in LeftOver
  /\ pc = "launch" /\ ~sw_reset => Uncollected \in LeftOver

\* What the comments at the response reads say: the registers are emptied
\* before the next transfer.
ResponsesEmptied == pc = "launch" /\ primed => response_fifo = 0

\* The datagrams are the numbered, gap-free chunks of ChunkStream, whatever
\* the interleaving of the copy with the engine and wherever the process was
\* killed and launched again.
Promise == INSTANCE ChunkStream WITH size <- buf_size, seq <- seq_counter
DeliversChunks == Promise!StreamSpec

\* Words still to come that can fill whole beats, and words still to write.
Supply == Len(data_fifo) * BeatWords
            + BeatWords * ((Len(dc_fifo) + MaxWords - accepted) \div BeatWords)
Demand == length_counter
            + (IF command_fifo = <<>> THEN 0 ELSE Head(command_fifo).len)

\* The wait of dma_loop ends, and its response read is answered, for every
\* transfer the receiver delivers enough words for.
WaitEnds ==
  (pc \in {"poll", "response"} /\ Demand <= Supply)
     ~> (pc \notin {"poll", "response"})
=============================================================================
