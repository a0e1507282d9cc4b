----------------------------- MODULE SpiFrames -----------------------------
(***************************************************************************)
(* Register accesses of the program (spi.c) through the chip-select fuser  *)
(* (cs_fuser.sv).  The SPI master lowers its chip select for each byte;    *)
(* the fuser joins the NB_SEG pulses of an access into one.  It samples    *)
(* the master's level without a synchroniser: at the first edge of its     *)
(* clock after a change each register that the level feeds may still find  *)
(* the old one, each bit of the count for itself.  When they disagree the  *)
(* edge is misread.                                                        *)
(***************************************************************************)
EXTENDS Naturals, Sequences

CONSTANTS
  NB_SEG,       \* bytes of an access (3), as the fuser counts them
  LevelClocks,  \* clocks the master holds a level, at least (12 and more)
  CmvAtReset,   \* whether IQIFC0_CMV is set when the transceiver is reset
  MaxMisreads   \* bound of the model: edges misread

ASSUME SpiFramesAssumption ==
  /\ NB_SEG \in 1 .. 8 /\ LevelClocks \in Nat \ {0, 1}
  /\ CmvAtReset \in BOOLEAN /\ MaxMisreads \in Nat

VARIABLES
  cs_in_d, cs_out_n, seg_cnt,  \* the fuser; TRUE is a high level
  cs_in_n,   \* the master's chip select
  before,    \* its level at the last edge
  held,      \* edges since it changed, up to LevelClocks
  step,      \* the next access of transceiver_init
  call,      \* the access under way
  sent,      \* its bytes sent
  heard,     \* bytes the transceiver took since it was selected, up to one
             \* more than an access has
  regs,      \* the transceiver's registers
  written,   \* history: what the program has written
  misreads,  \* history: edges misread
  jumped,    \* history: one took the count up by two and did not reach cs_in_d
  garbled    \* history: the transceiver was given something else than an access

fuserVars == <<cs_in_d, cs_out_n, seg_cnt>>
lineVars == <<cs_in_n, before, held>>
programVars == <<step, call, sent, written>>
chipVars == <<heard, regs, garbled>>
edgeVars == <<misreads, jumped>>
vars == <<fuserVars, lineVars, programVars, chipVars, edgeVars>>

W(reg, val) == [op |-> "write", reg |-> reg, val |-> val]
R(reg) == [op |-> "read", reg |-> reg, val |-> 0]
NoCall == [op |-> "none", reg |-> "none", val |-> 0]

dump_irq_state == <<R("IRQS"), R("STATE"), R("RXDFE")>>

Configured == {"IQIFC1", "CS", "CCF0L", "CCF0H", "CNL", "CNM", "RXBWC", "RXDFE",
               "AGCC", "AGCS"}

\* transceiver_init; a value is 0 after reset, 1 as configured or with CMV set.
transceiver_init ==
  <<R("PN"), R("VN"), W("RST", 7)>> \o dump_irq_state
    \o <<R("IQIFC0"), W("IQIFC0", 1), W("IQIFC1", 1), W("CS", 1),
         W("CCF0L", 1), W("CCF0H", 1), W("CNL", 1), W("CNM", 1),
         W("RXBWC", 1), W("RXDFE", 1), W("AGCC", 1), W("AGCS", 1),
         W("CMD", 3)>> \o dump_irq_state \o <<W("CMD", 5)>> \o dump_irq_state

Accesses == {transceiver_init[i] : i \in DOMAIN transceiver_init}
Registers == {c.reg : c \in Accesses}
Steps == 1 .. Len(transceiver_init) + 1

\* Stands for any value.
Unknown == 99

Values == {0, 1, 3, 5, 7, Unknown}

ResetRegs ==
  [r \in Registers |-> IF r = "IQIFC0" /\ CmvAtReset THEN 1 ELSE 0]

\* The registers after an access; a command changes the state.
Applied(rs, c) ==
  IF c.op # "write" THEN rs
  ELSE CASE c.reg = "RST" -> ResetRegs
         [] c.reg = "CMD" -> [rs EXCEPT !["STATE"] = c.val]
         [] OTHER -> [rs EXCEPT ![c.reg] = c.val]

Bytes(c) == [i \in 1 .. NB_SEG |-> <<c, i>>]

Init ==
  /\ cs_in_d = TRUE /\ cs_out_n = TRUE /\ seg_cnt = 0
  /\ cs_in_n = TRUE /\ before = TRUE /\ held = LevelClocks
  /\ step = 1 /\ call = NoCall /\ sent = 0
  /\ heard = <<>> /\ regs = ResetRegs /\ written = ResetRegs
  /\ misreads = 0 /\ jumped = FALSE /\ garbled = FALSE

-----------------------------------------------------------------------------
(***************************************************************************)
(* The fuser and the transceiver behind it.                                *)
(***************************************************************************)
Falling(level) == cs_in_d /\ ~level /\ cs_out_n
Rising(level) == ~cs_in_d /\ level /\ ~cs_out_n

\* Mutant: the byte that ends is not counted yet.
LastByte_Late == seg_cnt = NB_SEG

LastByte == seg_cnt = NB_SEG - 1

\* Mutant: the count goes on from the last access.
FirstCount_Kept == seg_cnt

FirstCount == 0

\* The counter has three bits.
Counted == (seg_cnt + 1) % 8

\* The next count, for a level.
CountAt(level) == CASE Falling(level) -> FirstCount
                    [] Rising(level) -> Counted
                    [] OTHER -> seg_cnt

Bit(k, weight) == (k \div weight) % 2

\* Its three bits are registers of their own: each may take another of counts.
Mixed(counts) ==
  {k \in 0 .. 7 : \A weight \in {1, 2, 4} :
                    \E m \in counts : Bit(k, weight) = Bit(m, weight)}

\* What the transceiver does with the bytes it was given while selected.
Deselected ==
  IF \E c \in Accesses : heard = Bytes(c)
  THEN regs' = Applied(regs, heard[1][1]) /\ UNCHANGED garbled
  ELSE regs' = [r \in Registers |-> Unknown] /\ garbled' = TRUE

\* Every register finds the same level.
Agree(d, out, cnts) == out = d /\ cnts = {d}

\* An edge of clk.  d and out are the levels that cs_in_d and cs_out_n find, cnts
\* those that the bits of seg_cnt find.
Clock(d, out, cnts) ==
  /\ {d, out} \cup cnts \subseteq {before, cs_in_n}
  /\ misreads' = IF Agree(d, out, cnts) THEN misreads ELSE misreads + 1
  /\ cs_in_d' = d
  /\ cs_out_n' = CASE Falling(out) -> FALSE
                   [] Rising(out) /\ LastByte -> TRUE
                   [] OTHER -> cs_out_n
  /\ seg_cnt' \in Mixed({CountAt(level) : level \in cnts})
  /\ jumped' = IF seg_cnt' = seg_cnt + 2 /\ ~d THEN TRUE ELSE jumped
  /\ IF ~cs_out_n /\ cs_out_n'
     THEN Deselected /\ heard' = <<>>
     ELSE UNCHANGED chipVars
  /\ before' = cs_in_n
  /\ held' = IF held < LevelClocks THEN held + 1 ELSE held
  /\ UNCHANGED <<cs_in_n, programVars>>

Read == \E level \in {before, cs_in_n} : Clock(level, level, {level})

Misread ==
  /\ misreads < MaxMisreads
  /\ \E d, out \in BOOLEAN, cnts \in (SUBSET BOOLEAN) \ {{}} :
       ~Agree(d, out, cnts) /\ Clock(d, out, cnts)

-----------------------------------------------------------------------------
(***************************************************************************)
(* The master and the program.                                             *)
(***************************************************************************)
Settled == held = LevelClocks

\* spi_transfer hands an access to the master.
Begin(c) == call' = c /\ sent' = 0 /\ written' = Applied(written, c)

NextAccess ==
  /\ call = NoCall /\ step <= Len(transceiver_init)
  /\ Begin(transceiver_init[step])
  /\ step' = step + 1
  /\ UNCHANGED <<fuserVars, lineVars, chipVars, edgeVars>>

Level(l) == cs_in_n' = l /\ before' = cs_in_n /\ held' = 0

\* Mutant: the transfer is one byte too long.
BytesLeft_OneMore == sent <= NB_SEG

\* The driver was given NB_SEG bytes.
BytesLeft == sent < NB_SEG

BeginByte ==
  /\ call # NoCall /\ BytesLeft /\ cs_in_n /\ Settled
  /\ Level(FALSE)
  /\ UNCHANGED <<fuserVars, programVars, chipVars, edgeVars>>

\* The byte is over; the transceiver took it if it was selected.
EndByte ==
  /\ ~cs_in_n /\ Settled
  /\ Level(TRUE)
  /\ sent' = sent + 1
  /\ heard' = IF cs_out_n \/ Len(heard) > NB_SEG
              THEN heard ELSE Append(heard, <<call, sent + 1>>)
  /\ UNCHANGED <<fuserVars, step, call, written, regs, garbled, edgeVars>>

Over == call # NoCall /\ sent = NB_SEG /\ cs_in_n /\ Settled

\* Mutant: the test of the bit is inverted.
MayBeSet_Inverted == regs["IQIFC0"] \in {0, Unknown}

MayBeSet == regs["IQIFC0"] \in {1, Unknown} \/ garbled

MayBeClear == regs["IQIFC0"] \in {0, Unknown} \/ garbled

\* The access returns.  transceiver_init writes IQIFC0 only if the value it
\* read has CMV clear.
Return ==
  /\ Over
  /\ call' = NoCall /\ sent' = 0
  /\ IF call = R("IQIFC0")
     THEN \/ MayBeSet /\ step' = step + 1
          \/ MayBeClear /\ UNCHANGED step
     ELSE UNCHANGED step
  /\ UNCHANGED <<fuserVars, lineVars, chipVars, written, edgeVars>>

\* The program is killed between two accesses and launched again; its signal
\* handler may reset the transceiver first.  The fuser is not reset.
Relaunch ==
  /\ call = NoCall
  /\ step' = 1
  /\ UNCHANGED call \/ call' = W("RST", 7)
  /\ written' = Applied(written, call')
  /\ UNCHANGED <<fuserVars, lineVars, chipVars, sent, edgeVars>>

Next ==
  \/ Read \/ Misread
  \/ NextAccess \/ BeginByte \/ EndByte \/ Return \/ Relaunch

Spec == Init /\ [][Next]_vars

-----------------------------------------------------------------------------
(***************************************************************************)
(* Properties.                                                             *)
(***************************************************************************)
\* Levels, counters and registers keep to their types.
TypeOK ==
  /\ {cs_in_d, cs_out_n, cs_in_n, before, garbled} \subseteq BOOLEAN
  /\ seg_cnt \in 0 .. 7
  /\ held \in 0 .. LevelClocks
  /\ step \in Steps
  /\ call \in Accesses \cup {NoCall}
  /\ sent \in 0 .. NB_SEG
  /\ heard \in Seq(Accesses \X (1 .. NB_SEG)) /\ Len(heard) <= NB_SEG + 1
  /\ regs \in [Registers -> Values] /\ written \in [Registers -> Values]
  /\ misreads \in 0 .. MaxMisreads /\ jumped \in BOOLEAN

\* As long as no edge was misread, each access reaches the transceiver as one
\* selection, whole: between two accesses it is released and its registers hold
\* what the program has written, through kills and relaunches.
AccessesLand ==
  misreads = 0 => /\ ~garbled
                  /\ call = NoCall => cs_out_n /\ regs = written

\* When transceiver_init is over and no edge was misread, the transceiver is
\* configured, its common mode is the LVDS one and it receives.
SetUp ==
  misreads = 0 /\ call = NoCall /\ step > Len(transceiver_init) =>
    /\ \A r \in Configured \cup {"IQIFC0"} : regs[r] = 1
    /\ regs["STATE"] = 5

\* One misread edge that did any damage can be told from the fuser's level
\* between accesses, and lasts: no later access, no reset of the transceiver and
\* no relaunch of the program brings the fuser back in step.  One case is mended
\* by its first damage: bits of two counts made one of two more, and the rise is
\* counted again at the next edge; from one, at five more, that is eight.
DamageLasts ==
  misreads = 1 /\ garbled /\ call = NoCall => (cs_out_n <=> jumped)
=============================================================================
