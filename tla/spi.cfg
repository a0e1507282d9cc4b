\* Three-byte accesses, one misread edge, kills and relaunches.  A program that is
\* set up may be launched again: no deadlock.
SPECIFICATION Spec
CONSTANTS
  NB_SEG = 3
  LevelClocks = 2
  CmvAtReset = FALSE
  MaxMisreads = 1
INVARIANTS
  TypeOK
  AccessesLand
  SetUp
  DamageLasts
