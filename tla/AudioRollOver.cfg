SPECIFICATION Spec
CONSTANTS
  SeqSpace = 16
  BufferFrames = 4
  RollOver = 11
  StartFill = 0
  Lead = 3
  Window = 3
  Late = FALSE
  MayFlush = FALSE
INVARIANTS
  EarlyPacketsAreKept
