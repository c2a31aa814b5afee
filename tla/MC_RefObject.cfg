SPECIFICATION FairSpec
CONSTANTS
  Threads = {t1, t2}
  Refs = {r1, r2, r3}
  Objects = {o1, o2}
  NULL = NULL
INVARIANTS RefCountExact NoDangling
PROPERTY UnheldDeleted
CHECK_DEADLOCK FALSE
