SPECIFICATION FairSpec
CONSTANTS
  Uploads = {i1, i2}
INVARIANTS
  TypeOK
  NoBoxLeftRunning
  HaltedNotRun
PROPERTY EveryUploadReturns
