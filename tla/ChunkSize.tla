----------------------------- MODULE ChunkSize -----------------------------
(***************************************************************************)
(* dma_loop for whatever chunk_bytes the file sets: the program checks it  *)
(* against nothing, and it meets the engine's length register, the         *)
(* mapping, the stack, a word, a beat and a datagram.  DmaLoop takes sizes *)
(* of whole words; here is what becomes of any size, when datagrams are    *)
(* sent.  Addresses are bytes from DDR_BUFFER_BASE.                        *)
(***************************************************************************)
EXTENDS ConfigFile

CONSTANTS
  LengthSpan,  \* lengths that the engine's register holds (2^18)
  MapBytes,    \* DDR_MAP_SIZE (2^24)
  StackBytes,  \* what the stack may grow by (8 MiB)
  MaxPayload   \* bytes of the largest datagram (65507)

WordBytes == 4   \* sizeof(uint32_t)
BeatBytes == 8   \* the engine's DATA_WIDTH
HeaderBytes == 8

ASSUME ChunkSizeAssumption ==
  /\ LengthSpan \in Nat \ {0} /\ MapBytes \in Nat /\ StackBytes \in Nat
  /\ MaxPayload \in Nat /\ LengthSpan + HeaderBytes <= UintSpan

VARIABLES
  pc,        \* "load", "launch", "handle", "send", "wait"; "crashed"
  current,
  primed,    \* the first transfer is over: the main loop runs
  transfer,  \* the running transfer: its first byte and its length
  turns,     \* history: turns of the main loop, up to two
  faults     \* history: what went wrong

loopVars == <<pc, current, primed, transfer, turns, faults>>
vars == <<fileVars, loopVars>>

Init ==
  /\ FileInit
  /\ pc = "load" /\ current = 0 /\ primed = FALSE
  /\ transfer = [from |-> 0, length |-> 0]
  /\ turns = 0 /\ faults = {}

Load == ReadPiece /\ UNCHANGED loopVars

Loaded ==
  /\ pc = "load" /\ pieces = <<>>
  /\ pc' = "launch"
  /\ UNCHANGED <<fileVars, current, primed, transfer, turns, faults>>

buf_size == config_chunk_bytes

\* Mutant: both buffers begin where the mapping does.
buf_addr_Shared(i) == 0

buf_addr(i) == i * buf_size

num_words == buf_size \div WordBytes

\* The beats of the transfer begin at an address that is a multiple of theirs.
FirstBeat(t) == t.from - (t.from % BeatBytes)

\* The length the engine keeps.
Programmed == buf_size % LengthSpan

If(condition, fault) == IF condition THEN {fault} ELSE {}

\* A transfer into the buffer that is not being handled, the first one into
\* that which will be.  It is under way whatever the program does next.
Launch ==
  /\ pc = "launch"
  /\ transfer' = [from |-> buf_addr(IF primed THEN 1 - current ELSE current),
                  length |-> Programmed]
  /\ pc' = IF primed THEN "handle" ELSE "wait"
  /\ faults' = faults \cup
       If(transfer'.from + transfer'.length > MapBytes, "outside")
  /\ UNCHANGED <<fileVars, current, primed, turns>>

\* The words of the buffer that is handled, and the arrays on the stack.
FirstRead == buf_addr(current)
EndRead == FirstRead + WordBytes * num_words
OnStack == WordBytes * num_words + ((HeaderBytes + buf_size) % UintSpan)

Crashes == OnStack > StackBytes \/ EndRead > MapBytes

\* The engine writes a word of this buffer while it is read, or did not fill it.
Torn ==
  \/ /\ EndRead > FirstRead
     /\ FirstBeat(transfer) < EndRead
     /\ FirstRead < transfer.from + transfer.length
  \/ Programmed < WordBytes * num_words

\* The htonl loop and the memcpy into the packet.
Handle ==
  /\ pc = "handle"
  /\ IF Crashes
     THEN pc' = "crashed" /\ faults' = faults \cup {"crash"}
     ELSE /\ pc' = "send"
          /\ faults' = faults \cup If(Torn, "torn")
               \cup If(buf_size > WordBytes * num_words, "overread")
  /\ UNCHANGED <<fileVars, current, primed, transfer, turns>>

\* sendto refuses a datagram that is too long, and the loop goes on.
Send ==
  /\ pc = "send"
  /\ pc' = "wait"
  /\ faults' = faults \cup If(HeaderBytes + buf_size > MaxPayload, "refused")
  /\ UNCHANGED <<fileVars, current, primed, transfer, turns>>

\* A length of 0 keeps the engine busy for ever: its done never strobes.
Hangs == transfer.length = 0

\* The wait for the transfer is over.
Wait ==
  /\ pc = "wait" /\ ~Hangs
  /\ pc' = "launch"
  /\ primed' = TRUE
  /\ current' = IF primed THEN 1 - current ELSE current
  /\ turns' = IF primed /\ turns < 2 THEN turns + 1 ELSE turns
  /\ UNCHANGED <<fileVars, transfer, faults>>

Spin ==
  /\ pc = "wait" /\ Hangs
  /\ faults' = faults \cup {"hang"}
  /\ UNCHANGED <<fileVars, pc, current, primed, transfer, turns>>

Next == Load \/ Loaded \/ Launch \/ Handle \/ Send \/ Wait \/ Spin

Spec == Init /\ [][Next]_vars

-----------------------------------------------------------------------------
(***************************************************************************)
(* Properties.                                                             *)
(***************************************************************************)
\* The sizes that stream: whole beats, a length that the engine's register
\* holds, two buffers in the mapping, one datagram.
Usable(c) ==
  /\ c > 0 /\ c % BeatBytes = 0
  /\ c < LengthSpan
  /\ 2 * c <= MapBytes
  /\ 2 * c + HeaderBytes <= StackBytes
  /\ HeaderBytes + c <= MaxPayload

\* The engine keeps to the mapping, the program neither crashes nor hangs, and
\* each datagram is sent with words that no transfer was writing: for every
\* usable size, and for no other once the loop has used both buffers or ended.
LimitsExact ==
  /\ pieces = <<>> /\ Usable(buf_size) => faults = {}
  /\ (turns = 2 \/ pc = "crashed") /\ faults = {} => Usable(buf_size)

\* A plain file means its last setting.
LoadsWhatIsMeant ==
  pieces = <<>> /\ PlainFile => config_chunk_bytes = ChunkMeant
=============================================================================
