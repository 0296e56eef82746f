SPECIFICATION Spec
CONSTANTS
  asyncServer = asyncServer
  NoThread = NoThread
  Main = main
  Threads = {asyncServer}
  Emits <- SerialEmits
INVARIANTS
  TypeOK
  ListenerKnowsTheState
  AirPlayVideoIsOwned
  PhotoIsOwned
  DecoderHasClock
PROPERTIES
  ReportsAlternate
