SPECIFICATION Spec
CONSTANTS
  t1 = t1
  t2 = t2
  t3 = t3
  Tasks = {t1, t2, t3}
  NoTask = NoTask
  Absent = Absent
  Torn = Torn
  Ops = {"acquire", "update", "release", "keep", "releaseFor", "reconcile"}
  Faults = {"time", "crash", "crashInCall"}
  MaxOverlap = 1
SYMMETRY TaskSymmetry
INVARIANTS
  TypeOK
  OneHolder
  HolderOwnsFile
  
PROPERTIES
  RestartKeepsLock
  OrphanKeepsRepo
CHECK_DEADLOCK FALSE
