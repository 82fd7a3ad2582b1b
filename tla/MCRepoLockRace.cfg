SPECIFICATION Spec
CONSTANTS
  t1 = t1
  t2 = t2
  Tasks = {t1, t2}
  NoTask = NoTask
  Absent = Absent
  Torn = Torn
  Ops = {"acquire", "releaseFor", "reconcile"}
  Faults = {}
  MaxOverlap = 2
INVARIANTS
  OneHolder
CHECK_DEADLOCK FALSE
