SPECIFICATION VariantsSpec
CONSTANTS
  Threads = {t1, t2, t3}
  NoOne = NoOne
  StoreBuffer = FALSE
  BRUTE_WAIT_LIMIT = 2
  BRUTE_WAITERS_COUNT = 1
INVARIANT NoLostWakeup
PROPERTIES MonitorSpec SomeoneGetsIn 
CHECK_DEADLOCK FALSE
