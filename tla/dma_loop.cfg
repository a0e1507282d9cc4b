\* Two chunk sizes, both modes, one relaunch, every FIFO smaller than the larger chunk.
SPECIFICATION FairSpec
CONSTANTS
  MemWords = 8
  DescDepth = 2
  RespDepth = 2
  FifoBeats = 1
  DcWords = 2
  MemoryStalls = TRUE
  EarlyStatus = FALSE
  MaxWords = 16
  Chunks = {2, 4}
  Modes = {TRUE, FALSE}
  PrintWords = 4
  MaxRuns = 2
INVARIANTS
  TypeOK
  BufferExclusion
  TransferAccounting
PROPERTIES
  DeliversChunks
  WaitEnds
CHECK_DEADLOCK FALSE
