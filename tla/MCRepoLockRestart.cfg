SPECIFICATION FairSpec
CONSTANTS
  t1 = t1
  t2 = t2
  Tasks = {t1, t2}
  NoTask = NoTask
  Absent = Absent
  Torn = Torn
  Ops = {"acquire", "release", "keep", "releaseFor", "reconcile", "force", "cancel"}
  Faults = {"crash", "throw"}
  MaxOverlap = 1
PROPERTIES
  KeptLockIsFreed
CHECK_DEADLOCK FALSE
