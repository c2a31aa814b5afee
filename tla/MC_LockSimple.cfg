SPECIFICATION FairSpec
CONSTANTS
  Threads = {t1, t2, t3}
  NoOne = NoOne
  StoreBuffer = FALSE
INVARIANTS MutualExclusion WaitersCounted NoLostWakeup
PROPERTIES MonitorSpec SomeoneGetsIn
CHECK_DEADLOCK FALSE
