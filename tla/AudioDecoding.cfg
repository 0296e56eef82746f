SPECIFICATION FairPipelineSpec
CONSTANTS
  SeqSpace = 6
  BufferFrames = 3
  RollOver = 3
  StartFill = 0
  Lead = 2
  Window = 2
  Late = FALSE
  MayFlush = FALSE
  OutputBuffers = 2
  MayFail = TRUE
INVARIANTS
  PlaysTheFrameOfItsIndex
  PipelineTypeOK
  NativeIsOpen
  BuffersAreKept
  StopReachesTheDecoder
  BufferWillCome
PROPERTIES
  ImplementsPlayout
  DecoderOwnsItsFrame
  StopEnds
\* A session that was stopped is over.
CHECK_DEADLOCK FALSE
