CONSTANTS
  Bits = 2
  Bytes = 2
SPECIFICATION Spec
INVARIANTS CmpIsClockwise CloserIsNearer OffsetsHalve
