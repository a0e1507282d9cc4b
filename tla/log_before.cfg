\* The comment on DEBUG_PRE_SAMPLES: so many samples before the trigger.
SPECIFICATION Spec
CONSTANTS
  DEBUG_PRE_SAMPLES = 3
  DEBUG_POST_SAMPLES = 2
  DEBUG_TRIGGER_THRESHOLD = 2
  RawSpan = 8
  Samples <- MCSamples
  MaxSamples = 7
INVARIANT BeforeTrigger
CHECK_DEADLOCK FALSE
