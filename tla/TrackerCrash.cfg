SPECIFICATION Spec
CONSTANTS
  Records = {r1, r2}
  Files = {f1, f2, f3, f4}
  MaxCrashes = 1
  MaxFaults = 0
  NoFile = NoFile
CHECK_DEADLOCK FALSE
PROPERTIES
  CrashKeepsRecords
