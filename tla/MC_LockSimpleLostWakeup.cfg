SPECIFICATION FairSpec
CONSTANTS
  Threads = {t1, t2}
  NoOne = NoOne
  StoreBuffer = TRUE
PROPERTY SomeoneGetsIn
CHECK_DEADLOCK FALSE
