SPECIFICATION LiveSpec
CONSTANTS
  g1 = g1
  g2 = g2
  g3 = g3
  Goals = {g1, g2, g3}
  None = None
  Plans <- DrainPlans
  Starters = {1}
  MaxItems = 3
  MaxTasks = 3
  MaxCrashes = 0
  Faults = {"lock", "operator"}
INVARIANTS
  NoWakeupLost
PROPERTIES
  DoneOnce
  QueueDrains
CHECK_DEADLOCK FALSE
