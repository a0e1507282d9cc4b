----------------------------- MODULE ConfigFile -----------------------------
(***************************************************************************)
(* config_load: the pieces of config.txt that fgets returns, one after     *)
(* another.  A piece is a line or, as the buffer has 128 bytes, a part of  *)
(* a longer one.  One register stands for the ten.                         *)
(***************************************************************************)
EXTENDS Integers, Sequences

CONSTANTS
  UintSpan,      \* values of an unsigned int and of a size_t (2^32)
  RegisterSpan,  \* values of a uint8_t (256)
  DefaultChunk,  \* DEFAULT_CHUNK_BYTES (8192)
  Numbers,       \* numbers that a file may hold
  MaxPieces      \* bound of the model: pieces of a file

ASSUME ConfigFileAssumption ==
  /\ UintSpan \in Nat \ {0} /\ UintSpan % 2 = 0
  /\ RegisterSpan \in Nat \ {0}
  /\ DefaultChunk \in 0 .. UintSpan - 1
  /\ Numbers \subseteq Int /\ MaxPieces \in Nat

VARIABLES
  pieces,              \* what is left of the file
  config_chunk_bytes,
  cfg_CS,
  file                 \* history: the pieces of the whole file

fileVars == <<pieces, config_chunk_bytes, cfg_CS, file>>

\* "ignored": blank, a comment, no "=", or a key nobody knows.  A setting may be
\* the end of a comment that was too long for the buffer.
Setting == [key : {"chunk_bytes", "CS"}, hex : BOOLEAN, number : Numbers,
            comment : BOOLEAN]
Ignored == [key |-> "ignored"]

IntMax == UintSpan \div 2 - 1

\* atoi stops at the x of a hexadecimal number and saturates like the C
\* library's strtol; a negative int wraps when it becomes unsigned.
atoi(p) ==
  CASE p.hex -> 0
    [] ~p.hex /\ p.number > IntMax -> IntMax
    [] ~p.hex /\ p.number < -IntMax - 1 -> IntMax + 1
    [] OTHER -> p.number % UintSpan

\* Mutant: the first setting of chunk_bytes counts.
ChunkAfter_First(p) ==
  IF p.key = "chunk_bytes" /\ config_chunk_bytes = DefaultChunk
  THEN atoi(p) ELSE config_chunk_bytes

ChunkAfter(p) == IF p.key = "chunk_bytes" THEN atoi(p) ELSE config_chunk_bytes

\* strtoul with base 0, then the cast to uint8_t.
RegisterAfter(p) == IF p.key = "CS" THEN p.number % RegisterSpan ELSE cfg_CS

ReadPiece ==
  /\ pieces # <<>>
  /\ pieces' = Tail(pieces)
  /\ config_chunk_bytes' = ChunkAfter(Head(pieces))
  /\ cfg_CS' = RegisterAfter(Head(pieces))
  /\ UNCHANGED file

FileInit ==
  /\ file \in UNION {[1 .. n -> Setting \cup {Ignored}] : n \in 0 .. MaxPieces}
  /\ pieces = file
  /\ config_chunk_bytes = DefaultChunk
  /\ cfg_CS = 8

\* What the file says of the chunk: its last setting, as a number.
ChunkSettings == {i \in DOMAIN file : file[i].key = "chunk_bytes"}
ChunkMeant ==
  IF ChunkSettings = {} THEN DefaultChunk
  ELSE file[CHOOSE i \in ChunkSettings : \A j \in ChunkSettings : j <= i].number

\* A file whose chunk settings are lines of their own, decimal, and fit an int.
PlainFile ==
  \A i \in ChunkSettings :
    ~file[i].hex /\ ~file[i].comment /\ file[i].number \in 0 .. IntMax
=============================================================================
