------------------------------- MODULE DcFifo -------------------------------
(***************************************************************************)
(* The dual-clock FIFO dc_fifo_0 (altera_avalon_dc_fifo.v) between the     *)
(* receiver's clock and the clock of the DMA engine.  Each side keeps its  *)
(* pointer, one bit wider than an address, and sees the other's as a Gray  *)
(* code that passes through a chain of registers.  The first edge after a  *)
(* code has changed may take each of its bits old or new; the next edge    *)
(* finds it settled.                                                       *)
(***************************************************************************)
EXTENDS Naturals, Sequences

CONSTANTS
  ADDR_WIDTH,  \* log2 of the depth (10 in the instance)
  SYNC_DEPTH,  \* WR_SYNC_DEPTH and RD_SYNC_DEPTH (3)
  Words        \* names of words, given out in turn: more than the FIFO holds

ASSUME DcFifoAssumption ==
  ADDR_WIDTH \in Nat /\ SYNC_DEPTH \in Nat \ {0} /\ Words \in Nat \ {0}

\* A table rather than 2 ^ n: the provers can reason about its recursion.
Pow2[n \in Nat] == IF n = 0 THEN 1 ELSE 2 * Pow2[n - 1]

DEPTH == Pow2[ADDR_WIDTH]
Ptr == 0 .. 2 * DEPTH - 1
Code == [0 .. ADDR_WIDTH -> {0, 1}]

VARIABLES
  in_wr_ptr, in_wr_ptr_gray, full,
  read_crosser,          \* the read pointer's code on its way in, newest first
  out_rd_ptr, out_rd_ptr_gray, empty,
  write_crosser,         \* the write pointer's code on its way out
  internal_out_payload, out_valid, out_payload,
  mem,
  wr_gray_before, rd_gray_before,  \* what an edge may still take of the codes
  in_data                          \* the word the source offers next

inVars == <<in_wr_ptr, in_wr_ptr_gray, full, read_crosser, mem, in_data>>
outVars == <<out_rd_ptr, out_rd_ptr_gray, empty, write_crosser,
             internal_out_payload, out_valid, out_payload>>
vars == <<inVars, outVars, wr_gray_before, rd_gray_before>>

Bit(n, i) == (n \div Pow2[i]) % 2

bin2gray(n) ==
  [i \in 0 .. ADDR_WIDTH |->
     IF i = ADDR_WIDTH THEN Bit(n, i) ELSE (Bit(n, i + 1) + Bit(n, i)) % 2]

\* Bit i is the parity of the code's bits from i up: that of bit i + 1 and the
\* code's bit i.  leading[k] is the number that the bits from ADDR_WIDTH - k up
\* make.
gray2bin(g) ==
  LET leading[k \in 0 .. ADDR_WIDTH] ==
        IF k = 0 THEN g[ADDR_WIDTH]
        ELSE 2 * leading[k - 1] + ((leading[k - 1] + g[ADDR_WIDTH - k]) % 2)
  IN leading[ADDR_WIDTH]

\* What the first register of the other clock may take from a code.  The
\* timing constraints keep the bits of a code within a clock of its own side,
\* so at most one change, of one bit, is in doubt.
Sampled(before, code) ==
  {g \in Code : \A i \in DOMAIN g : g[i] \in {before[i], code[i]}}

\* One clock of a chain of synchroniser registers.
Shifted(chain, g) == <<g>> \o SubSeq(chain, 1, SYNC_DEPTH - 1)

Plus1(ptr) == (ptr + 1) % (2 * DEPTH)

Init ==
  /\ in_wr_ptr = 0 /\ out_rd_ptr = 0
  /\ in_wr_ptr_gray = bin2gray(0) /\ out_rd_ptr_gray = bin2gray(0)
  /\ wr_gray_before = bin2gray(0) /\ rd_gray_before = bin2gray(0)
  /\ read_crosser = [i \in 1 .. SYNC_DEPTH |-> bin2gray(0)]
  /\ write_crosser = [i \in 1 .. SYNC_DEPTH |-> bin2gray(0)]
  /\ full = FALSE /\ empty = TRUE
  /\ internal_out_payload = 0 /\ out_valid = FALSE /\ out_payload = 0
  /\ mem = [a \in 0 .. DEPTH - 1 |-> 0]
  /\ in_data = 0

\* Mutant: full ignores the word that is being written.
FullAt_Late(rd, wr) == rd % DEPTH = in_wr_ptr % DEPTH /\ rd # in_wr_ptr

\* Mutant: the extra bit is forgotten.
FullAt_AnyTurn(rd, wr) == rd % DEPTH = wr % DEPTH

\* The addresses agree and the extra bits differ.
FullAt(rd, wr) == rd % DEPTH = wr % DEPTH /\ rd # wr

\* An edge of in_clk.
InClock(in_valid) ==
  LET write == in_valid /\ ~full
      next_in_wr_ptr == IF write THEN Plus1(in_wr_ptr) ELSE in_wr_ptr
      next_in_rd_ptr == gray2bin(read_crosser[SYNC_DEPTH])
  IN /\ in_wr_ptr' = next_in_wr_ptr
     /\ mem' = IF write THEN [mem EXCEPT ![in_wr_ptr % DEPTH] = in_data] ELSE mem
     /\ in_data' = IF write THEN (in_data + 1) % Words ELSE in_data
     /\ full' = FullAt(next_in_rd_ptr, next_in_wr_ptr)
     /\ wr_gray_before' = in_wr_ptr_gray
     /\ in_wr_ptr_gray' = bin2gray(in_wr_ptr)
     /\ \E g \in Sampled(rd_gray_before, out_rd_ptr_gray) :
          read_crosser' = Shifted(read_crosser, g)
     /\ rd_gray_before' = out_rd_ptr_gray
     /\ UNCHANGED outVars

\* Mutant: empty ignores the word that is being read.
EmptyAt_Late(rd, wr) == out_rd_ptr = wr

\* Mutant: the extra bit is forgotten.
EmptyAt_AnyTurn(rd, wr) == rd % DEPTH = wr % DEPTH

EmptyAt(rd, wr) == rd = wr

\* An edge of out_clk.  The memory is read ahead, at the next read pointer.
OutClock(out_ready) ==
  LET internal_out_ready == out_ready \/ ~out_valid
      read == internal_out_ready /\ ~empty
      next_out_rd_ptr == IF read THEN Plus1(out_rd_ptr) ELSE out_rd_ptr
      next_out_wr_ptr == gray2bin(write_crosser[SYNC_DEPTH])
  IN /\ out_rd_ptr' = next_out_rd_ptr
     /\ internal_out_payload' = mem[next_out_rd_ptr % DEPTH]
     /\ IF internal_out_ready
        THEN out_valid' = ~empty /\ out_payload' = internal_out_payload
        ELSE UNCHANGED <<out_valid, out_payload>>
     /\ empty' = EmptyAt(next_out_rd_ptr, next_out_wr_ptr)
     /\ rd_gray_before' = out_rd_ptr_gray
     /\ out_rd_ptr_gray' = bin2gray(out_rd_ptr)
     /\ \E g \in Sampled(wr_gray_before, in_wr_ptr_gray) :
          write_crosser' = Shifted(write_crosser, g)
     /\ wr_gray_before' = in_wr_ptr_gray
     /\ UNCHANGED inVars

Next == \E b \in BOOLEAN : InClock(b) \/ OutClock(b)

Spec == Init /\ [][Next]_vars

\* Both clocks run, and the engine keeps reading.
FairSpec == /\ Spec
            /\ WF_vars(\E b \in BOOLEAN : InClock(b))
            /\ WF_vars(OutClock(TRUE))

-----------------------------------------------------------------------------
(***************************************************************************)
(* Properties.                                                             *)
(***************************************************************************)
\* Words in the memory.
Held == (in_wr_ptr + 2 * DEPTH - out_rd_ptr) % (2 * DEPTH)

\* The registers keep to their widths and a word that has not been read is
\* never overwritten.
TypeOK ==
  /\ in_wr_ptr \in Ptr /\ out_rd_ptr \in Ptr
  /\ in_wr_ptr_gray \in Code /\ out_rd_ptr_gray \in Code
  /\ wr_gray_before \in Code /\ rd_gray_before \in Code
  /\ read_crosser \in Seq(Code) /\ Len(read_crosser) = SYNC_DEPTH
  /\ write_crosser \in Seq(Code) /\ Len(write_crosser) = SYNC_DEPTH
  /\ full \in BOOLEAN /\ empty \in BOOLEAN /\ out_valid \in BOOLEAN
  /\ {internal_out_payload, out_payload, in_data} \subseteq 0 .. Words - 1
  /\ mem \in [0 .. DEPTH - 1 -> 0 .. Words - 1]
  /\ Held <= DEPTH

\* The words on their way: the output register, then the memory from the read
\* pointer up to the write pointer.
Contents ==
  (IF out_valid THEN <<out_payload>> ELSE <<>>)
    \o [i \in 1 .. Held |-> mem[(out_rd_ptr + i - 1) % DEPTH]]

\* The FIFO is a bounded queue, whatever the two clocks do and however a
\* pointer is caught while it changes: nothing is lost, repeated or reordered.
Queue == INSTANCE BoundedQueue
           WITH Words <- 0 .. Words - 1, Capacity <- DEPTH + 1, Take <- 1,
                queue <- Contents
IsQueue == Queue!QueueSpec

\* A full FIFO that is read takes words again: the read pointer gets across.
FullEnds == full ~> ~full

\* A word that was written comes out: the write pointer gets across.
WordsComeOut == Held > 0 ~> out_valid
=============================================================================
