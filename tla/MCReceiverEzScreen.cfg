SPECIFICATION FairSpec
CONSTANTS
  asyncServer = asyncServer
  NoThread = NoThread
  Main = main
  Threads = {asyncServer, main}
  Emits <- EzScreenEmits
INVARIANTS
  IdleMeansDisconnected
  MirrorMeansConnected
  SurfaceWillCome
PROPERTIES
  MonitorIsFreed
\* The main looper can wait for the monitor while its owner waits for the
\* surface that only the main looper can deliver.
CHECK_DEADLOCK FALSE
