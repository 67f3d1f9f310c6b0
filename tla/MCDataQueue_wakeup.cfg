SPECIFICATION Spec
CONSTANTS
  q1 = q1
  q2 = q2
  NoThread = NoThread
  NoQueue = NoQueue
  Threads = {t1, t2}
  Data = {d1}
  Queues = {q1}
  AppendPairs <- NoPairs
  WaitModes = {"forever"}
  SpuriousWakeups = FALSE
SYMMETRY Interchangeable
INVARIANTS
  NoLostWakeup
CHECK_DEADLOCK FALSE
