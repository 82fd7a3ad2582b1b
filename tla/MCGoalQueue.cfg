SPECIFICATION Spec
CONSTANTS
  g1 = g1
  g2 = g2
  g3 = g3
  Goals = {g1, g2}
  None = None
  Plans <- MCPlans
  Starters = {1}
  MaxItems = 2
  MaxTasks = 2
  MaxCrashes = 1
  Faults = {"cancel", "fail", "hold", "noEvidence", "worktree", "lock", "park", "supervisor"}
INVARIANTS
  TypeOK
  ItemDoneHasTask
PROPERTIES
  StartsAfterDependency
CHECK_DEADLOCK FALSE
