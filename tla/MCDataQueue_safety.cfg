SPECIFICATION FairSpec
CONSTANTS
  q1 = q1
  q2 = q2
  NoThread = NoThread
  NoQueue = NoQueue
  Threads = {t1, t2}
  Data = {d1, d2, d3}
  Queues = {q1, q2}
  AppendPairs <- OnePair
  WaitModes = {"timed", "forever"}
  SpuriousWakeups = TRUE
INVARIANTS
  TypeOK
  Ownership
  FifoOrder
PROPERTIES
  ImplementsFifo
  TimedWaitReturns
