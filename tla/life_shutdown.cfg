\* The service is stopped: is the transceiver reset?
SPECIFICATION Spec
CONSTANTS
  Configs = {c1}
  Oversized = {}
  Empty = none
  MaxLaunches = 1
  MaxStarts = 1
INVARIANT CleanedUp
CHECK_DEADLOCK FALSE
