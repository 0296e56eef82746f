SPECIFICATION Spec
CONSTANTS
  SeqSpace = 16
  BufferFrames = 4
  RollOver = 11
  StartFill = 0
  Lead = 6
  Window = 4
  Late = FALSE
  MayFlush = FALSE
PROPERTIES
  RestartIsSane
