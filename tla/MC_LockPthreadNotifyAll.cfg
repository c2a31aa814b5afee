SPECIFICATION Spec
CONSTANTS
  Threads = {t1, t2, t3}
  NoOne = NoOne
INVARIANT NotifyAllWakesAll
CHECK_DEADLOCK FALSE
