\* Words of 6 pairs, two slips: what a silence of the transceiver restores.
SPECIFICATION Spec
CONSTANTS
  Half = 3
  MaxSlips = 2
INVARIANTS
  TypeOK
  RealWords
  Resynchronises
PROPERTY EveryWord
