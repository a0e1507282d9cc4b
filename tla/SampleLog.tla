----------------------------- MODULE SampleLog -----------------------------
(***************************************************************************)
(* The trigger mode of debug_txt_log_iq_data: a ring holds the samples of  *)
(* the last DEBUG_PRE_SAMPLES words; a loud one writes them out, itself    *)
(* and the DEBUG_POST_SAMPLES behind it.  The ring and the counters live   *)
(* on from one chunk to the next, so a sample is the step.  Samples are    *)
(* named by their number; the file is the sequence of those written.       *)
(***************************************************************************)
EXTENDS Integers, Sequences

CONSTANTS
  DEBUG_PRE_SAMPLES, DEBUG_POST_SAMPLES, DEBUG_TRIGGER_THRESHOLD,
  RawSpan,    \* values of a component (2^14)
  Samples,    \* samples that come: pairs of raw components
  MaxSamples  \* bound of the model: samples logged

ASSUME SampleLogAssumption ==
  /\ DEBUG_PRE_SAMPLES \in Nat \ {0} /\ DEBUG_POST_SAMPLES \in Nat \ {0}
  /\ DEBUG_TRIGGER_THRESHOLD \in Nat
  /\ RawSpan \in Nat \ {0} /\ RawSpan % 2 = 0
  /\ Samples \subseteq (0 .. RawSpan - 1) \X (0 .. RawSpan - 1)
  /\ MaxSamples \in Nat

VARIABLES
  pre_buffer, pre_buf_idx, pre_buf_full, triggered, post_remaining,
  debug_file,
  samples   \* history: the samples so far

vars == <<pre_buffer, pre_buf_idx, pre_buf_full, triggered, post_remaining,
          debug_file, samples>>

Ring == 0 .. DEBUG_PRE_SAMPLES - 1

\* debug_txt_init.
Init ==
  /\ pre_buffer = [p \in Ring |-> 0]
  /\ pre_buf_idx = 0 /\ pre_buf_full = FALSE
  /\ triggered = FALSE /\ post_remaining = 0
  /\ debug_file = <<>>
  /\ samples = <<>>

\* Mutant: the sign bit is not extended.
convert_14bit_2complement_Unsigned(raw) == raw

\* The upper half of the raw values is negative.
convert_14bit_2complement(raw) ==
  IF raw >= RawSpan \div 2 THEN raw - RawSpan ELSE raw

abs(v) == IF v < 0 THEN -v ELSE v

Loud(s) ==
  \E c \in 1 .. 2 :
    abs(convert_14bit_2complement(s[c])) > DEBUG_TRIGGER_THRESHOLD

\* Mutant: the ring is read from its first place even when it has turned.
RingStart_First(full, idx) == 0

\* The oldest sample of the ring, and how many it holds.
RingStart(full, idx) == IF full THEN idx ELSE 0

RingCount(full, idx) == IF full THEN DEBUG_PRE_SAMPLES ELSE idx

\* The ring as it is written out.
Dumped(buffer, full, idx) ==
  [j \in 1 .. RingCount(full, idx) |->
     buffer[(RingStart(full, idx) + j - 1) % DEBUG_PRE_SAMPLES]]

\* Mutant: the window is one sample too long.
WindowOver_Late == post_remaining = 0

\* The sample that is being logged is the last of its window.
WindowOver == post_remaining = 1

\* One turn of the loop over the words of a chunk.
Log(s) ==
  LET n == Len(samples) + 1
      buffer == [pre_buffer EXCEPT ![pre_buf_idx] = n]
      idx == (pre_buf_idx + 1) % DEBUG_PRE_SAMPLES
      full == pre_buf_full \/ idx = 0
  IN /\ pre_buffer' = buffer /\ pre_buf_idx' = idx /\ pre_buf_full' = full
     /\ samples' = Append(samples, s)
     /\ CASE triggered ->
               /\ debug_file' = Append(debug_file, n)
               /\ post_remaining' = post_remaining - 1
               /\ triggered' = ~WindowOver
          [] ~triggered /\ Loud(s) ->
               /\ debug_file' = debug_file \o Dumped(buffer, full, idx) \o <<n>>
               /\ post_remaining' = DEBUG_POST_SAMPLES
               /\ triggered' = TRUE
          [] OTHER -> UNCHANGED <<debug_file, post_remaining, triggered>>

Next == Len(samples) < MaxSamples /\ \E s \in Samples : Log(s)

Spec == Init /\ [][Next]_vars

-----------------------------------------------------------------------------
(***************************************************************************)
(* Properties.                                                             *)
(***************************************************************************)
Smaller(m, n) == IF m < n THEN m ELSE n

\* The counters keep to their ranges, and the ring holds the last samples, each
\* behind the one before it.
TypeOK ==
  /\ pre_buf_idx \in Ring
  /\ {pre_buf_full, triggered} \subseteq BOOLEAN
  /\ post_remaining \in 0 .. DEBUG_POST_SAMPLES
  /\ triggered <=> post_remaining > 0
  /\ \A k \in 0 .. Smaller(Len(samples), DEBUG_PRE_SAMPLES) - 1 :
       pre_buffer[(pre_buf_idx + DEBUG_PRE_SAMPLES - 1 - k) % DEBUG_PRE_SAMPLES]
         = Len(samples) - k

\* A component as a signed number.
Signed(raw) == ((raw + RawSpan \div 2) % RawSpan) - RawSpan \div 2

Beyond(s) == \E c \in 1 .. 2 : \/ Signed(s[c]) > DEBUG_TRIGGER_THRESHOLD
                               \/ Signed(s[c]) < -DEBUG_TRIGGER_THRESHOLD

\* Sample i comes within the DEBUG_POST_SAMPLES behind one of ts.
Behind(ts, i) == \E j \in ts : j < i /\ j >= i - DEBUG_POST_SAMPLES

\* A sample beyond the threshold triggers unless it comes behind one that did.
AreTriggers(ts, ss) ==
  \A i \in 1 .. Len(ss) : i \in ts <=> Beyond(ss[i]) /\ ~Behind(ts, i)

\* What sample i adds to the file.
Lines(ts, i) ==
  LET first == i - Smaller(i, DEBUG_PRE_SAMPLES)
  IN CASE i \in ts -> [k \in 1 .. i - first |-> first + k] \o <<i>>
       [] i \notin ts /\ Behind(ts, i) -> <<i>>
       [] OTHER -> <<>>

\* The lines of the sample that came last are added to the file.
Added ==
  \E ts \in SUBSET (1 .. Len(samples')) :
    /\ AreTriggers(ts, samples')
    /\ debug_file' = debug_file \o Lines(ts, Len(samples'))

\* The file, empty at first, grows by one window per trigger: the samples up to
\* it, of which it is the last, it once more, and those behind it.  So the trigger
\* stands twice, behind one sample less than DEBUG_PRE_SAMPLES (BeforeTrigger), and
\* samples of one window that are still in the ring come again in the next.
LogIsWindows == [][Added]_vars

\* What line 22 of debug_txt.h says of DEBUG_PRE_SAMPLES: so many samples before
\* the trigger are in the file once it is, or all there were.
BeforeTrigger ==
  LET n == Len(samples)
  IN triggered /\ post_remaining = DEBUG_POST_SAMPLES =>
       n - Smaller(n - 1, DEBUG_PRE_SAMPLES) .. n - 1
         \subseteq {debug_file[i] : i \in 1 .. Len(debug_file)}
=============================================================================
