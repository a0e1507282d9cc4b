\* Eight words: as many as fill the way and hold up the source.  Both clocks
\* always run: no deadlock.
SPECIFICATION PathFairSpec
CONSTANTS
  Depth = 2
  WordClocks = 2
  MaxWords = 8
INVARIANTS
  PathTypeOK
  CapturedWordsArrive
PROPERTIES
  DamageOnlyWhenFull
  WaitEnds
  PathIsQueue
  BeatsComeOut
