SPECIFICATION FairSpec
CONSTANTS
  Records = {r1, r2}
  Files = {f1, f2, f3, f4}
  MaxCrashes = 1
  MaxFaults = 1
  NoFile = NoFile
CHECK_DEADLOCK FALSE
INVARIANTS
  TypeOK
  NothingIsLost
  HeldIsScheduled
  StoredIsScheduled
PROPERTIES
  EveryRecordIsUploaded
  UploadSurvivesCrash
