\* Every way to set chunk_bytes in a file of up to two pieces, and two turns of
\* the loop.  The limits keep the order of the real ones.  A crashed program stops:
\* deadlock is not checked.
SPECIFICATION Spec
CONSTANTS
  UintSpan = 256
  RegisterSpan = 32
  DefaultChunk = 16
  Numbers <- MCNumbers
  MaxPieces = 2
  LengthSpan = 64
  MapBytes = 160
  StackBytes = 144
  MaxPayload = 44
INVARIANTS
  LimitsExact
  LoadsWhatIsMeant
CHECK_DEADLOCK FALSE
