SPECIFICATION FreeMonitorSpec
CONSTANTS
  client1 = client1
  Clients <- OneClient
  Timeout = 2
  Period = 1
  MaxTimers = 1
  MaxLate = 1
  None = None
PROPERTIES
  DropIsReported
