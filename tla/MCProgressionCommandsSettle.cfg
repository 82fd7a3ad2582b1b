SPECIFICATION FairSpec
CONSTANTS
  t1 = t1
  d1 = d1
  d2 = d2
  worker = worker
  other = other
  Tasks = {t1}
  Drains = {d1, d2}
  OwnerOf <- OneProcess
  DeadOwner = DeadOwner
  NoOwner = NoOwner
  NoKey = NoKey
  EffectSets = {{"create_repair_task"}, {"complete_task"}}
  MaxAttempts = 2
  MaxDecisions = 2
  MaxCrashes = 1
  StaleViews = TRUE
  Lapses = FALSE
INVARIANTS
  HandlerHasLease
PROPERTIES
  EveryCommandSettles
CHECK_DEADLOCK FALSE
