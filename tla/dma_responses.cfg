\* A relaunch in the middle of a transfer: are the responses emptied?
SPECIFICATION Spec
CONSTANTS
  MemWords = 8
  DescDepth = 1
  RespDepth = 2
  FifoBeats = 1
  DcWords = 2
  MemoryStalls = TRUE
  EarlyStatus = FALSE
  MaxWords = 16
  Chunks = {4}
  Modes = {TRUE}
  PrintWords = 2
  MaxRuns = 2
INVARIANT ResponsesEmptied
CHECK_DEADLOCK FALSE
