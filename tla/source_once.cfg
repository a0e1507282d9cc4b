\* The comments of lines 2 and 70: a word is sent once.
SPECIFICATION Spec
CONSTANTS
  Depth = 2
  WordClocks = 4
  MaxWords = 5
INVARIANT EachWordOnce
