\* Four words deep, the instance's three synchroniser registers, more names than
\* the FIFO and its output register hold.  Both clocks always run: no deadlock.
SPECIFICATION FairSpec
CONSTANTS
  ADDR_WIDTH = 2
  SYNC_DEPTH = 3
  Words = 6
INVARIANT TypeOK
PROPERTIES
  IsQueue
  FullEnds
  WordsComeOut
