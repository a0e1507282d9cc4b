\* Seven samples, a ring of three, two samples behind a trigger.  After the last
\* sample nothing happens: deadlock is not checked.
SPECIFICATION Spec
CONSTANTS
  DEBUG_PRE_SAMPLES = 3
  DEBUG_POST_SAMPLES = 2
  DEBUG_TRIGGER_THRESHOLD = 2
  RawSpan = 8
  Samples <- MCSamples
  MaxSamples = 7
INVARIANTS
  TypeOK
PROPERTIES
  LogIsWindows
CHECK_DEADLOCK FALSE
