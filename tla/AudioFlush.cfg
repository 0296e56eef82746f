SPECIFICATION Spec
CONSTANTS
  SeqSpace = 6
  BufferFrames = 2
  RollOver = 3
  StartFill = 0
  Lead = 3
  Window = 2
  Late = TRUE
  MayFlush = TRUE
INVARIANTS
  NoLostWakeup
