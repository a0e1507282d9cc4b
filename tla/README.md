# A TLA+ verification project for the AT86RF215 receiver

The repository streams radio samples from an AT86RF215 transceiver to a computer:

    AT86RF215 --LVDS--> lvds_rx --> iq_stream_source --> dc_fifo_0 --> width adapter
        ^                  (FPGA fabric of a Cyclone V, delayedCLK | 50 MHz)     |
        | SPI, cs_fuser                                                          v
        |                                                        mSGDMA --> DDR (two buffers)
        |                                                            ^            |
    ARM Linux: config_daemon.py --starts/stops--> example_spi_dma ---+ registers  | mmap
               (UDP 6000, config.txt)               (final_c_code_2) <------------+
                                                          |
                                                          +--> UDP datagrams to the computer

This directory holds TLA+ modules of that system, TLC configurations that
model-check them, and proofs that the TLA+ proof system checks. The repository
has no documentation and no tests; the reference is the code and its comments.
Paths below are relative to `src/`; "C" is `final_c_code_2/`, "Q" is
`Quartus Project/`, "V" is `Quartus Project/soc_system/synthesis/submodules/`.

## 1. Inventory

| Part | Code | State it keeps | Operations | Talks to |
|---|---|---|---|---|
| Streaming program, DMA loop | C`dma.c` | two buffers in the DDR mapping, `current`/`next`, `seq_counter`, socket | `dma_init` (map, open, reset the engine), `dma_loop` (prefill; then for ever: start a transfer, handle the other buffer, wait, read the response, swap), `print_data`, `dma_close` | engine registers and DDR (memory-mapped), network |
| mSGDMA engine | V`dispatcher.v`, `csr_block.v`, `descriptor_buffers.v`, `response_block.v`, `write_master.v` | descriptor FIFO (256), response FIFO (512), busy, reset in progress, address and length counters, data FIFO (4096 beats) | push a descriptor, issue it, write beats, strobe done, push and pop responses, soft reset | ARM (CSR, descriptor and response slaves), width adapter, DDR |
| Dual-clock FIFO | V`altera_avalon_dc_fifo.v` | memory of 1024 words, Gray-coded pointers in both clock domains, full, empty | write, read, pointer crossing | stream source, width adapter |
| Width adapters | V`soc_system_avalon_st_adapter*.sv` | input register, the half beat collected so far, output register | 32 to 64 bits; the first adapter is wires | FIFO, engine |
| I/Q stream source | V`iq_stream_source_change.sv` | `pending`, `data_reg`, `stream_tvalid`, SOP and EOP | capture a word, offer it, release it | word synchroniser, FIFO |
| Word synchroniser | Q`lvds_rx.sv` | `state` (HUNT, SYNCED), shift register, bit counter | shift a bit pair, lock, check a word boundary | transceiver, stream source |
| SPI chip-select fuser | Q`cs_fuser.sv` | level given to the transceiver, edges counted, previous level | follow the edges of the master's chip select | SPI master, transceiver |
| SPI driver, transceiver set-up | C`spi.c` | the device descriptor; the transceiver's registers | `w8`, `r8`, `transceiver_init` | transceiver |
| Program life cycle | C`main.c` | signal dispositions | start, signal handler (reset the transceiver, close, exit) | daemon, SPI, DMA loop |
| Configuration file | C`config.c`, `config.txt` | chunk size and ten register values | `config_load` | daemon (writes the file), program |
| Configuration daemon | C`config_daemon.py`, `.service`, `simple_launch.sh` | the child process, the file | receive a configuration or STOP, end the child, launch it, end with the service | service manager, program |
| Sample log | C`debug_txt.c` | ring of samples before a trigger, samples still to log | log a chunk | DMA loop |
| FPGA top level, Qsys fabric, HPS hard blocks | Q`DE10_NANO_SoC_GHRD.sv`, V`soc_system_mm_interconnect_0*` | generated wiring, arbitration | | everything in the FPGA |
| Leftovers | Q`code_HPS/`, Q`custom_pio/`, `GNU_flowchart/` | | | not part of the running system |

What is hard in it, and what would make it correct:

* **DMA loop and engine** run concurrently with nothing between them but three
  register accesses. The engine writes one buffer while the program reads the
  other; a status bit that rises late, a response that is read once too often or
  too seldom, or a transfer that a killed process left running would tear a
  chunk or hang the program. Correct means: a buffer is never read while it can
  be written, each transfer is collected exactly once, the datagrams are
  consecutive, gap-free chunks, and the wait ends when samples keep coming.
* **Word synchroniser.** The link can lose bits, and payload bits can look like
  a sync pattern. Correct means: it finds the true boundary again, then gives
  out every word and nothing else.
* **Stream source and FIFO.** The FIFO exerts back pressure and crosses clocks.
  Correct means: no word is lost, repeated or reordered except where the FIFO
  is full, and full and empty err on the safe side.
* **Width adapter.** It pairs words by a state that nothing re-synchronises, under
  back pressure on both sides. Correct means: words 2n-1 and 2n become beat n, for ever.
* **Chip-select fuser.** It counts edges of a signal it does not synchronise.
  Correct means: every three-byte access reaches the transceiver as one selection.
* **Life cycle.** Daemon, child, signal handler and service manager act in any
  order; a configuration file is rewritten in place; `wait()` has no time-out.
* **Parameters.** Nothing checks `chunk_bytes` against the beat of 8 bytes, the
  18-bit length register, the size of the mapping, the stack or a datagram, and the
  parser turns every text into some number. Correct means: one knows which sizes work.
* **Sample log.** A ring read just after it was advanced, a window that ends while
  the ring goes on. Correct means: the log is the samples around each trigger.

`PROJECT.json` lists the hazards line by line with the properties that cover them.

## 2. The modules

| Module | Models | Lines of code it stands for |
|---|---|---|
| `Msgdma` | the engine, the FIFO and the adapter in front of it, DDR behind it: the registers as operators, the hardware's own steps as actions | mSGDMA Verilog, `altera_avalon_dc_fifo.v`, 64-bit adapter |
| `DmaLoop` | the program on top of it (`EXTENDS Msgdma`), with kills and relaunches at any step | `dma.c`, `main.c` |
| `ChunkStream` | the promise to the receiving computer (abstract specification) | |
| `DmaLoop_proofs` | theorems about `DmaLoop` | |
| `Lifecycle` | daemon, child processes, signal handler, `config.txt`, service, transceiver state | `config_daemon.py`, its `.service`, `main.c`, `spi.c`, parts of `config.c` and `dma.c` |
| `Lifecycle_proofs` | theorems about `Lifecycle` | |
| `DcFifo` | the dual-clock FIFO at the level of its registers | `altera_avalon_dc_fifo.v` and its synchronisers |
| `BoundedQueue` | what a FIFO promises (abstract specification) | |
| `DcFifo_proofs` | theorems about `DcFifo` and its Gray code | |
| `LvdsRx` | word synchroniser and transceiver | `lvds_rx.sv` |
| `LvdsRx_proofs` | theorems about `LvdsRx` | |
| `IqSource` | stream source and the FIFO's write side | `iq_stream_source_change.sv` |
| `WidthAdapter` | the adapter from words to beats | `..._001_data_format_adapter_0.sv` |
| `StreamPath` | source, FIFO and adapter together (`EXTENDS IqSource, WidthAdapter`) | the instances in `soc_system.v` |
| `StreamPath_proofs` | theorems about all three | |
| `SpiFrames` | the accesses of `transceiver_init`, the SPI master, the fuser, the transceiver's registers | `spi.c`, `cs_fuser.sv` |
| `SpiFrames_proofs` | theorems about it | |
| `ConfigFile` | `config_load` | `config.c` |
| `ChunkSize` | `dma_loop` for every chunk size (`EXTENDS ConfigFile`) | `dma.c`, the widths of `write_master.v` |
| `ChunkSize_proofs` | theorems about both | |
| `SampleLog` | the trigger mode of the sample log | `debug_txt.c` |
| `SampleLog_proofs` | theorems about it | |
| `MC*` | instances for TLC | |

### Msgdma and DmaLoop

The unit of data is one 32-bit I/Q word, named by the position in which the FIFO
accepted it; a beat is two words. A buffer that is torn, stale or out of order is
therefore visible as numbers that do not follow one another.

| TLA+ | Code |
|---|---|
| `pc` = "reset", "launch", "copy", "send", "print", "poll", "response" | the place in `dma_init` / `dma_loop`; the prefill is the same text with `primed` false |
| `Launch` / `PushDescriptor` | address, length, GO (dma.c:149-152 and 167-170); `waitrequest` of the descriptor slave is the guard |
| `CopyWord` | one iteration of the `htonl` loop, the only part of the send that reads DDR |
| `Send` | header, `sendto`; success or failure is a choice, `seq_counter` is spent either way |
| `PrintWord` | `print_data`, from the start of the mapping |
| `Poll`, `ReadsIdle` | the spin on status bit 0 |
| `ReadResponse` / `PopResponse` | the two response reads: `waitrequest` holds the first while the FIFO is empty, the second pops; then `current ^= 1` |
| `Stop`, `Start` | the process ends in any way at any step and is launched again, perhaps with another `chunk_bytes` and mode; DDR, FIFOs and a running transfer stay as they are |
| `AcceptWord`, `TakeBeat` | the receiver's word enters the FIFO; two words enter the engine, whether or not a transfer runs |
| `RaiseBusy`, `IssueCommand`, `WriteBeat`, `DoneStrobe` | dispatcher and write master, in the order and with the delays of the Verilog |
| `WriteReset`, `TakeReset` | control bit 1: the dispatcher clears at once, the write master some clocks later, and the strobe of the abandoned transfer may slip out |

Two constants describe the timing of the surroundings, which the code does not fix:

* `EarlyStatus`: a status read may reach the engine in the two clocks between
  GO and busy. The bus round trip is longer than that, so FALSE is the expected
  value, and the one of the runs; TRUE, what the response read is good for, is the
  theorems' part.
* `MemoryStalls`: the memory controller may hold a write in the one clock in
  which `reset_taken` is high. It may, so TRUE is the expected value.

Abstracted: byte lanes and byte order (`htonl` maps words one to one), the
header's layout, delays, the sample-rate display, the mappings and the socket
(their failures end the process before it has touched the engine, which `Stop`
covers). The instance's features the program never sets up are left out: stop,
park, bursts, stride, interrupts, END_ON_EOP and early termination. DDR accesses of
the ARM and the engine are atomic per word and a write counts as done when the
write master's command is accepted; the memory controller keeps that order.

### Lifecycle

Processes and signals, one level above `DmaLoop`: there `Stop` and `Start` end a
process and launch another at any step, here is who does it and what it does to
the configuration and to the transceiver.

| TLA+ | Code |
|---|---|
| `daemon` = "recv", "open", "write", "end", "wait", "launch", "assign" | the place in `main` and `restart_executable` of `config_daemon.py`; "down": not running |
| `ReceiveConfig`, `ReceiveStop`, `Undecodable` | `recvfrom`, and a datagram whose decoding raises outside any `try` |
| `OpenFile`, `WriteFile` | `open(..., 'w')` empties the file, leaving the `with` fills it; either may fail |
| `EndChild`, `Wait` | `poll`, `terminate`, `wait` |
| `Launch`, `Assign` | `Popen` starts the process before `child_proc` is assigned (the script replaces itself by the program with `exec`) |
| `HandleShutdown` | the daemon's own handler, between any two steps |
| `KillRest`, `StartService` | the service manager: kills what is left of the service, starts it again once nothing is |
| `stage[c]` and `Run(c)` | the place of program `c` in `main.c`: load the file, install the handlers, `spi_init`, the three parts of `transceiver_init`, `dma_init`, `dma_loop` |
| `Crash(c)` | a chunk in `Oversized` overruns the stack, or the mapping, in `dma_loop`: SIGSEGV, for which there is no handler (`ChunkSize` says which sizes these are) |
| `TakeTerm` | delivery of a pending SIGTERM: the default action before `signal` was called and, as `signal()` is one-shot in the C library this is built for (`-std=c99 -D_POSIX_C_SOURCE`), inside the handler; else the handler |
| `HandlerReset`, `HandlerExit` | `w8(R_RST, 7)`, which does nothing without an open device; close and exit |

`trx.cfg = Empty` stands for the chip's reset values, `file = Empty` for a file
without settings. A write that failed is an empty file; a text cut off in the middle
is not modelled, nor are SPI accesses that fail (the program ignores their result).
`dma_loop` has no exit, and a refused datagram is ignored: a program that streams ends by a
signal or by `Crash`.
A process that is stuck in a load on the bus (section 6) takes no signal; here every
program takes its signals.

### DcFifo

`InClock` and `OutClock` are an edge of either clock, in any order and any ratio,
each with every register of its side. A pointer's Gray code passes through
`SYNC_DEPTH` registers; the first edge after it has changed may take each bit old or
new (what `altera_std_synchronizer_nocut.v` injects in its metastability simulation),
the next finds it settled: the timing constraints beside the FIFO keep the bits of
one code within 0.8 clocks of each other, so two changes never mix.

`Contents` (output register, then the memory between the pointers) implements
`BoundedQueue`. This is why `Msgdma` may use an atomic queue, and why the write side
in `IqSource` may see the FIFO as a count that falls some clocks late.

### LvdsRx

One `Clock` is one period of the transceiver's clock: the transceiver sends a bit
pair, the receiver shifts it in and takes its HUNT or SYNCED step. `phase` and
`kind` are the transceiver's side; `Slip` moves it to another place of the word.
Words have `2 * Half` pairs instead of 16; half a word keeps its leading pair as
the sync pattern and every value in the others. `gap` remembers that the
transceiver has been silent for a word's length since the last slip.

### IqSource

One `Clock` is one edge of `delayedCLK`, with every register assigned from the
values before the edge. `Drain` is the read side of the FIFO as the write side
sees it: the occupancy falls some clocks after the word left. Words come at least
`WordClocks` clocks apart, as `lvds_rx.sv` counts them.

### WidthAdapter and StreamPath

`AdapterClock` is an edge of the engine's clock with all three registers; a register
that holds nothing is the empty sequence. The eight states of the machine do the same
by pairs, so a state is its parity: `half` holds the first word or nothing. `Whole`
keeps the flush at an end of packet, which would send one word and four empty bytes.

`StreamPath` puts the source, a queue for the FIFO (which `DcFifo` implements) and the
adapter on their two clocks. A step of either clock is a step; what the other side
knows of the FIFO may be old: the write side's count falls late (`DrainEdge`), and the
reader may find nothing although a word is on its way (`offered`). `OnTheWay`, the
words between source and engine, implements `BoundedQueue` with two words taken at a
time (`PathIsQueue`): that is the queue of `Msgdma`'s `AcceptWord` and `TakeBeat`.

### SpiFrames

| TLA+ | Code |
|---|---|
| `cs_in_d`, `cs_out_n`, `seg_cnt`, `Clock` | the fuser's registers and its `always` block |
| `Read`, `Misread` | all registers find the same level, the old one or the new one, at the first edge after a change; or they disagree, as `cs_in_n` has no synchroniser: `cs_in_d`, `cs_out_n` and each of the three bits of the count (`Mixed`) for itself |
| `transceiver_init` | the accesses in the order of `spi.c`, those of `dump_irq_state` included; `Return` takes the branch on IQIFC0_CMV |
| `BeginByte`, `EndByte` | the SPI master lowers its chip select for each byte; a level lasts at least `LevelClocks` clocks of the fuser |
| `Deselected` | what the transceiver does with the bytes it was given under one selection; bytes that are not one access may do anything, so its registers are then `Unknown` |
| `Relaunch` | the program is killed between two accesses (a signal is taken when the `ioctl` returns) and launched again, with or without the reset of the signal handler |

A register's value is 0 after a reset and 1 as configured. `CmvAtReset` is whether the
transceiver comes out of reset with the bit set that `spi.c` writes only if it is clear.
In the run it does not, and the reset at the start of `transceiver_init` clears it, so
that the branch that skips the write is taken after a misread only; for the other value
`SetUp` is shown by the theorem.

`jumped` remembers the one misread edge that mends itself. At the rise after the second
byte the count goes from 1 to 2, two bits. If the one that rises is caught new, the one
that falls old, and `cs_in_d` old, the count is 3, and the next edge takes the same rise
for another: 4. From there it runs to 8, which is 0, and ends with the third access after:
that selection of four accesses harms the transceiver, and behind it the fuser is in step.

### ConfigFile and ChunkSize

`config_load` reads the pieces that `fgets` returns. A piece is what the parser finds in
it: nothing, or a key and a number, in decimal or hexadecimal, possibly the tail of a
comment longer than the buffer. `atoi` and `strtoul` are modelled by what they return.
`ChunkSize` then runs `dma_loop` for whatever size came out. A step is a stage of a turn;
`faults` remembers what went wrong: "outside" the mapping, "torn" (a word read that a
transfer may write, or that none filled), "overread" (the `memcpy` of a size that is not
a multiple of 4), "crash", "refused" (`sendto`), "hang" (a transfer of length 0 never
ends). `DmaLoop` has the interleavings for sizes that fit; `ChunkSize` has every size.

### SampleLog

One `Log` is one turn of the loop over the words of a chunk; ring, counters and trigger
are the static variables of `debug_txt.c`. A sample is named by its number, its
components are raw values of a few bits. The file is empty at first; `LogIsWindows`
says of every step which lines it adds, by a definition that knows neither ring nor
counters: the set of the samples that trigger, found in the whole history of samples,
and where the one that just came stands among them. The ring already holds the trigger
when it is written out, so the trigger is in the file twice, and before it one sample fewer
than `debug_txt.h` says (`BeforeTrigger`).

### ChunkStream

What the receiving computer may rely on: within a run, chunk *n* continues chunk
*n-1* exactly; a refused datagram spends its number; a relaunch starts again at
0, may skip words, and never goes back. `DmaLoop` implements it under the mapping
`size <- buf_size, seq <- seq_counter` (property `DeliversChunks`).

## 3. The runs

| Run | Checks | Shows |
|---|---|---|
| `dma_loop` | TypeOK, BufferExclusion, TransferAccounting, DeliversChunks, WaitEnds | both modes, chunks of 2 and 4 words, a kill at any step and a relaunch with another size; the wait ends whenever enough words are delivered |
| `lvds_gap` | TypeOK, RealWords, Resynchronises, EveryWord | after a silence of one word any slip is forgotten |
| `path` | PathTypeOK, CapturedWordsArrive, DamageOnlyWhenFull, WaitEnds, PathIsQueue, BeatsComeOut | order, and damage at a full FIFO only: a word is lost while the one captured just before it found the FIFO full and still waits, repeated once after such a wait; the engine holds the source up through the adapter; FIFO and adapter are one queue of whole beats, which keeps moving |
| `fifo` | TypeOK, IsQueue, FullEnds, WordsComeOut | the FIFO loses, repeats and reorders nothing whatever the clocks do, and full and empty end |
| `life` | TypeOK, OneProgram, LatestConfiguration, ReceivesForProgram, ServesCommands | one program at a time, with the last configuration; the transceiver receives only for a program that will reset it, or after one killed before its reset, failed in `dma_init` or crashed; the daemon comes back for the next command |
| `life_shutdown` | CleanedUp is violated | the daemon's shutdown handler does not wait for the child it signals: the service manager may kill the child before it has reset the transceiver |
| `dma_responses` | ResponsesEmptied is violated | after a relaunch in mid-transfer one response stays behind for ever |
| `source_once` | EachWordOnce is violated | a word that waited for a full FIFO is written twice |
| `spi` | TypeOK, AccessesLand, SetUp, DamageLasts | every access lands whole as long as no edge is misread; the set-up ends configured and receiving; one harmful misread is never mended and shows in the fuser's level, but for a count that jumps by two |
| `chunk` | LimitsExact, LoadsWhatIsMeant | the sizes that stream are exactly the multiples of 8 below all limits; a plain file means its last setting |
| `log` | TypeOK, LogIsWindows | the log is one window per trigger, with the trigger in it twice and one sample fewer before it than the ring has |
| `log_before` | BeforeTrigger is violated | `DEBUG_PRE_SAMPLES` counts the trigger |

The four violations are disagreements between the code and its own comments; the
findings in `PROJECT.json` quote them. One is benign where it stands: a left-over
response costs only the second of two barriers, as long as a status read does not
overtake busy. Three more disagreements have no run of their own:

* `iq_stream_source_change.sv` calls its outputs "SOP" and "EOP (single-beat)" (lines 31,
  32) and says that they are set with `tvalid` (line 66, "On marque tvalid + SOP/EOP").
  They are high only in the clock after the capture, and `tvalid` rises a clock later
  (line 76), so no beat the FIFO takes starts or ends a packet. That is as well: the width
  adapter flushes a half-empty beat at each end of packet, which would break `PathIsQueue`.
* config.c:44 takes any `chunk_bytes`. With one that is not a multiple of 8, buffer 1
  begins inside a beat, write_master.v:874 masks the low address bits, and the transfer
  into `next` begins with the beat that holds the last word of `current` (dma.c:165, 172):
  `BufferExclusion` fails at once for `Chunks = {3}`. `chunk` counts these sizes as torn.
* In test mode `print_data` reads from the start of the mapping in every turn, also while
  the engine writes there (dma.c:172 says the turn handles `current`).

### Bounds

* *DMA.* Chunks of one and two beats are the shortest with and without a beat
  left to write while the next word is read. All FIFOs (one beat, two words) are
  smaller than the larger chunk, so every transfer waits for the stream and back
  pressure reaches the FIFO. Two descriptors and two responses are one more than
  the program should ever have, so that an extra one would be seen. Two launches
  give every pair (where the old process died, what the new one does); 16
  words are enough for two turns of the main loop in either run at chunk 4.
  The safety theorems remove these bounds.
* *Lifecycle.* Two configurations tell the last one from the one before, and one of them
  crashes the program; three
  launches put an old, a running and a next program in one behaviour; two starts of
  the service put a restart behind every way of stopping it. The theorems remove
  these bounds. Deadlock is not checked: with the launches used up the daemon may
  stop for good.
* *DcFifo.* Four words give 3-bit codes, so that a change of each bit is caught
  half-way; three synchroniser registers as in the instance; six names of words are
  more than memory and output register hold, and do not divide a turn of the pointers.
  The theorems remove these bounds.
* *LvdsRx.* `Half = 3` has, after the leading pair of each half, two free pairs,
  which is enough for a false sync pattern at every offset; two slips put a
  second slip at each stage of the recovery from the first.
* *StreamPath.* A FIFO of two words, a word every two clocks (the shortest distance the
  theorems allow), eight words: as many as FIFO and adapter hold and one behind, so that
  the engine's back pressure reaches the source at each place of a pair. The theorems
  remove these bounds.
* *SpiFrames.* Three bytes as in the instance, levels of two clocks (the shortest), one
  misread edge anywhere; the registers' contents and the step are finite anyway. The
  number of kills is not bounded. The theorems remove the bounds on the levels and the
  misreads, and but for `DamageStays` that on the bytes.
* *ChunkSize.* Bytes, words and beats are real; the limits are scaled down in their real
  order (datagram < length register < stack < mapping), with numbers on both sides of
  each, of every remainder that matters, negative, and beyond an `int`. Two pieces give a
  second setting and a setting behind a comment. The datagram is the smallest limit and
  hides the others in the run; the theorem tells them apart. The theorems remove these bounds.
* *SampleLog.* A ring of three and a window of two let the ring turn, a second trigger
  come right behind a window, and windows share samples; seven samples are enough for
  three windows. Loud and quiet samples of either sign in either component. The theorems
  remove these bounds.

### Fairness

`dma_loop` assumes weak fairness of the process's own steps (an ordinary
process is scheduled again and again; each is enabled until taken) and of each
hardware action (clocks run; the receiver delivers words up to the bound).
No fairness on `Stop` or on a relaunch being asked for beyond `Start`.
`path` assumes that both clocks run, that the FIFO's pointers get across (which `fifo`
shows), and that the engine takes beats again and again; `fifo` that both
clocks run and that the reading side is ready again and again. `life` assumes that
the daemon and every program are scheduled and that a pending signal is delivered;
nobody has to send a command or to start or stop the service, and the receiver need not
fill the chunk on which a program crashes. No strong fairness is
used. Deadlock is not checked for `chunk` (a crashed program stops), `log` (the samples
of the bound are used up) and the DMA runs: with the words of the bound used
up, or the last launch ended, the system really stops.

## 4. The proofs

`DmaLoop_proofs` proves for **every** value of the constants that satisfies the
named assumptions (`MsgdmaAssumption`, `DmaLoopAssumption`):

* `TypeCorrect`: `Spec => []TypeOK`.
* `AccountingCorrect`: `Timing => (Spec => []TransferAccounting)`.
* `ExclusionCorrect`: `ChunksAligned /\ Timing => (Spec => []BufferExclusion)`.

`Timing` says that `EarlyStatus` and `MemoryStalls` are not both TRUE. The
hypothesis is needed: with both TLC finds a process that reads the idle of before,
takes the left-over response for its own and copies a buffer being filled.
`ChunksAligned` says that every chunk is a whole number of beats; any other size makes
the two buffers share one (§3).

`Lifecycle_proofs` proves for any number of configurations, launches and starts
(`LifecycleAssumption`) `ProgramsExclusive` (`Spec => []OneProgram`),
`ConfigurationCorrect` (`LatestConfiguration`), `ReceptionCorrect`
(`ReceivesForProgram`) and `TypesCorrect` (`TypeOK`), from one invariant in four layers (`LifecycleCorrect`):
`TypeInv` (`TypeOK`; the file is empty while it is open; a launch being handled is
within the bound), `ProcessInv` (the only program alive is the last one launched,
known to the daemon except while it assigns it, and gone when it launches the next),
`ConfigInv` (a program that has loaded its file loaded the last one written, except
while the daemon is about to end it) and `ReceptionInv` (a receiving transceiver
belongs to a program with an open device that has not got past its reset, or was abandoned
by one that was killed before its reset, failed in `dma_init` or crashed).

For `DmaLoop`, neither property is inductive. The strengthening is built in layers, each proved
with those below it:

1. `TypeInv`: `TypeOK`, and what the program has read so far (`pkt`) against `pc`.
2. `MasterInv`: the write master's counters, its ready and its strobe agree.
3. `BusyInv`: busy covers every transfer that has been issued, and a command FIFO
   that is not empty is about to raise it.
4. `FreshInv`: before the first launch the engine is at rest, so that only a
   relaunch can find a left-over response.
5. `PhaseInv`: for each place of the program, how many descriptors, transfers and
   responses there are: one in the engine while the program works or waits
   (`WaitingInv`), at most the left-over one when it is about to launch
   (`LaunchInv`), and an idle engine once a poll has read idle (`IdleInv`).
6. `AddressInv`: a descriptor that is queued or running addresses the buffer that
   is *not* being handled. With the alignment of the chunks, its words and those
   still to copy are disjoint (`OutstandingInBuffer`).

Each layer has one step lemma with a case per action; temporal steps come last.

It also proves that the program keeps its promise to the receiving computer,
`StreamCorrect`: `ChunksAligned /\ Timing => (Spec => DeliversChunks)`. It needs the
contents of the FIFOs and of DDR, in four more layers on top of the ones above:

7. `StreamInv`: the words in both FIFOs are consecutive and end with the last one
   accepted; `NextWord` is the one that is written to memory next. It only grows, by a
   beat at a time or, at a reset, by what the reset drops.
8. `FillInv`: the buffer of the program's transfer begins with the words from `Began`
   on, as many as the transfer has written.
9. `HeldInv`: the buffer that is being copied holds a whole chunk from `First` on, and
   `pkt` its beginning. A beat that lands leaves it alone because of `AddressInv`.
10. `OrderInv`: `First` is beyond every word handled so far, and right behind the last
    one once a run has sent a chunk.

`RunInv` adds what the program knows of its mode and of its first chunk. Each step of
`DmaLoop` then maps to a step of `ChunkStream` or to none: `Start` to `Relaunch`, `Send`
to `Deliver(First)`, all others to a stutter (`DataStep`).

`LvdsRx_proofs` proves, for words of every length and any number of slips
(`LvdsRxAssumption`), all four properties of `lvds_gap`: `TypesCorrect`, `WordsReal`,
`LockFound` and the action property `WordsGivenOut`. None is inductive without the
contents of the shift register: `WordInv` says which pairs of the word on the wire it
ends with; `LockInv` says that a receiver that does not count with the transceiver has
nothing but zeros before that word, and counts ahead of it, so that its count ends
inside the word and its window cannot pass for a word.

`StreamPath_proofs` proves, for every depth, word rate and number of words
(`IqSourceAssumption`), `PathTypes`, `WordsArrive`, `DamageConfined`
(the safety properties of `path`) and `PathRefinesQueue`
(`PathSpec => PathIsQueue`: initial states map to the empty queue, an edge of the source's
clock to an append, an edge of the engine's to the taking of two words or to nothing).
`RegisterInv` relates the source's registers to the clock count since the last word,
`OrderInv` relates them to what the FIFO has taken. `DamageConfined` is a fact of each step
(`DamageStep`): the word announced is dropped only if `pending` is still up, which outlasts
the clock of the next word only when the FIFO was full. The refinement needs that no word in
the FIFO ends a packet, that a beat has two words, and that the write side never counts
fewer words than there are. The assumption that words come at least two clocks apart is
needed: a word announced in the clock right after the one that captured its predecessor is
dropped with the FIFO empty.

`DcFifo_proofs` proves, for pointers of every width, synchronisers of every length and
edges of the two clocks in any order (`DcFifoAssumption`), `FifoTypes` (`TypeOK`, which
includes that no word is written over before it was read) and `FifoRefinesQueue`
(`Spec => IsQueue`). The argument has four parts:

1. *The code.* `RoundTrip`: `gray2bin` reads from `bin2gray`'s code the pointer it was made
   of. `Caught`: a code of which each bit is caught old or new while the pointer takes its
   step is the old code or the new one, as the two differ in one bit, also where the
   pointer turns. Both are inductions over the bits. The library's induction theorems take
   a predicate, which the provers cannot instantiate; `SetInduction` gets the principle
   from the least element of a *set*, and `Recursion` from that the existence of the
   functions that `Pow2` and `gray2bin` define recursively. That is why `DcFifo` has
   `Pow2` as a table and not as `2 ^ n`.
2. *The crossing.* `Crossing`: the codes on their way are codes of pointers, each as far
   behind as the one it was taken from or further, none further than the pointer
   could have moved.
3. *The flags.* `WriteInv`: when `full` is low, the read pointer as the writer sees it
   still leaves a place free. `ReadInv`: when `empty` is low, the write pointer as the
   reader sees it is beyond a word, and the word before the output register is that one.
   With `TypeOK` they make `FifoInv`, which is inductive (`FifoStep`).
4. *The refinement.* `InClock` appends to `Contents` or leaves it (`InClockPuts`),
   `OutClock` takes its first word or leaves it (`OutClockGets`).

`SpiFrames_proofs` proves all four invariants of `spi`, for every master that holds a
level for two clocks and any number of misread edges, whichever registers and bits of the
count read them wrong (`SpiFramesAssumption`):

* `AccessTypes` (`TypeOK`) from `LevelInv`, which holds whatever is misread: `LineInv`
  bounds how long the fuser's view of the level may be old, `ProgramInv` ties the byte
  under way to it, `TypeInv` is the rest.
* `AccessesCorrect` (`AccessesLand`) for accesses of up to eight bytes, as far as three
  bits count: `FuserInv` says which bytes the transceiver has heard while it is selected.
* `SetUpDone` (`SetUp`): `WrittenInv` says which registers the accesses so far have left
  configured. The common mode is the case of its own, as it is written only if it was
  found clear.
* `DamageStays` (`DamageLasts`) for `NB_SEG = 3`, the value of this program: after its
  one misread edge the fuser is `InStep` with the bytes and nothing was harmed, or
  `OutOfStep`, and stays so. Bytes come in threes and the fuser counts three between two
  releases, so a slip of one or two is never made up for; a count beyond three runs to
  eight first, which is no multiple of three. Only the count that jumped by two over a byte
  still to be counted is `Mending`, and after its release `Aligned`. The hypothesis is
  needed: for every other length of an access up to eight bytes TLC finds a fuser that has
  come back in step, or is left selected, against the property.

`SampleLog_proofs` proves, for a ring and a window of every length, every threshold and
every sequence of samples (`SampleLogAssumption`; the number of raw values is even),
`LogTypes` (`TypeOK`, which includes that the ring holds the last samples in order) and
the action property `WindowsLogged` (`LogIsWindows`). `RingHolds` says which sample each
place of the ring has, before and after it has turned (`Dump` reads it from its start);
`WindowHolds` ties `post_remaining` to the last trigger and says that every earlier window
is closed, so that the next sample is behind a trigger exactly if the window is open
(`OpenIsBehind`).

`ChunkSize_proofs` proves `ChunkLimits` (`LimitsExact`) for every width and limit and
`PlainFileMeant` (`LoadsWhatIsMeant`) for every plain file. `FileInv` relates the
size read so far to the last setting before the piece that is next; `GoodInv` and
`BadInv` say where the program and its transfer are for a usable size and which fault an
unusable one has met by then. The assumption that a length and a header fit a `size_t`
is what makes the sum on line 187 of `dma.c` exact for every usable size.

Only model-checked: liveness (`WaitEnds` of the program and of the source, `FullEnds`,
`WordsComeOut`, `BeatsComeOut`, `ServesCommands`), which the proof system does not cover.
Every other property of a passing run is a theorem.

## 5. Plan

All modules of the plan are written: `Msgdma`, `DmaLoop`, `ChunkStream`, `Lifecycle`,
`LvdsRx`, `IqSource`, `DcFifo`, `BoundedQueue`, `WidthAdapter`, `StreamPath`,
`SpiFrames`, `ConfigFile`, `ChunkSize`, `SampleLog`, and the proofs of section 4. What
would add most from here: that `Msgdma`'s queue in front of the engine is the one
`StreamPath` implements, as a theorem about `DmaLoop`; the one-step facts behind the
liveness properties (what each wait is for comes nearer); a reset of the receiver during
reception.

## 6. Not modelled

* The DDR calibration sequencer (three copies of `sequencer.c`, 10 885 lines each), the
  `tclrpt.c` beside it, the boot loader's generated tables (`spl_bsp`), the Qsys fabric,
  the HPS and the memory controller: generated vendor code that runs before, or beneath,
  what is described here. It is most of the lines of C in the repository (the project's
  own C is about 800 lines) and nothing of it was written for this receiver. What the
  modules rely on (accesses of one master in order, `waitrequest` holds an access, DDR
  keeps what is written) is stated in section 2.
* The FPGA top level: wiring, and a counter for the LEDs.
* `code_HPS/main.c`, a first prototype: it starts transfers with bit 0 of the descriptor's
  control word, where this engine has GO in bit 31, and reads no responses. Against the
  engine in the repository its loop does nothing; it belongs to an earlier design.
* `custom_pio` (not instantiated) and the GNU Radio flow graph (configuration of a
  third-party program on the receiving computer).
* Resets of the receiver's clock domain during reception: `rst_n` of `lvds_rx.sv` and the
  resets of source, FIFO and adapter are released once, before the stream starts.
* In the modelled parts: the mappings and the socket, `dma_close`, the sample-rate
  display, the full mode of the sample log and its opening and closing, `ioctl`s that
  fail (nobody looks at their results), a configuration file cut off in mid-text.
* A load held by `waitrequest` for ever (the stream ends between poll and response)
  cannot be interrupted by any signal; the model has this as the guard of `Stop`.

## 7. Running it

    tlc -workers 2 -config dma_loop.cfg MCDmaLoop
    tlc -workers 2 -config path.cfg MCStreamPath
    tlapm DmaLoop_proofs.tla          # and the other *_proofs modules

Each `.cfg` names its question in its first line. `dma_loop` takes about 40
seconds and explores 650 000 states, `fifo` about a minute; the others less.
