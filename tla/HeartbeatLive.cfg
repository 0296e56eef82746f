SPECIFICATION FairSpec
CONSTANTS
  client1 = client1
  Clients <- OneClient
  Timeout = 3
  Period = 1
  MaxTimers = 2
  MaxLate = 1
  None = None
INVARIANTS
  TypeOK
  SilenceIsNoticed
PROPERTIES
  AliveIsKept
  LossIsReported
  
