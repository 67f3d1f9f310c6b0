SPECIFICATION Spec
CONSTANTS
  Clients = {c1, c2}
  Sockets = {s1, s2}
  Buffers = {b1, b2}
  Entries = {e1, e2}
  Devices = {dev1}
  MaxPackets = 2
  Prealloc = 1
  SpuriousWakeups = TRUE
  None = None
SYMMETRY Interchangeable
INVARIANTS
  TypeOK
  BufferInOnePlace
  EveryPacketOnce
  RightQueue
  RegisteredNotDefault
  ArrivalOrder
