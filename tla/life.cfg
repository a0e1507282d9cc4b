\* Two configurations, one with a chunk too large, three launches, two starts of the service.
SPECIFICATION FairSpec
CONSTANTS
  Configs = {c1, c2}
  Oversized = {c2}
  Empty = none
  MaxLaunches = 3
  MaxStarts = 2
INVARIANTS
  TypeOK
  OneProgram
  LatestConfiguration
  ReceivesForProgram
PROPERTY ServesCommands
CHECK_DEADLOCK FALSE
