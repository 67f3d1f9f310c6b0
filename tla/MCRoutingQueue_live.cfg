SPECIFICATION FairSpec
CONSTANTS
  Clients = {c1, c2}
  Sockets = {s1}
  Buffers = {b1}
  Entries = {e1}
  Devices = {dev1, dev2}
  MaxPackets = 1
  Prealloc = 1
  SpuriousWakeups = FALSE
  None = None
INVARIANTS
  NoReadAfterClose
PROPERTIES
  DestructorsReturn
CHECK_DEADLOCK FALSE
