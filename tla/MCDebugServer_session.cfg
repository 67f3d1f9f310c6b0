SPECIFICATION FairSpec
CONSTANTS
  jdb = jdb
  jdb2 = jdb2
  nobody = nobody
  Debuggers = {jdb, jdb2}
  Nobody = nobody
  Requests = {"Version", "Other", "Suspend", "Resume", "AllThreads", "Dispose"}
  MaxMessages = 4
  MaxThreads = 1
  MaxModules = 2
INVARIANTS
  TypeOK
  InStep
PROPERTIES
  Serves
CHECK_DEADLOCK FALSE
