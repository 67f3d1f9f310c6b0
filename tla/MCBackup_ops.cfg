SPECIFICATION FairSpec
CONSTANTS
  a = a
  b = b
  x = x
  NoDatabase = NoDatabase
  Databases <- MCDatabases
  OnDevice <- MCOnDevice
  RecordIds = {1, 2}
  Contents <- MCContents
  Lists <- MCLists
  Files <- MCFiles
  MaxOps = 2
  MaxSignals = 2
INVARIANTS
  TypeOK
  RestoredWhole
  BackupWhole
  NotUnderWorker
  Released
PROPERTIES
  OperationEnds
CHECK_DEADLOCK FALSE
