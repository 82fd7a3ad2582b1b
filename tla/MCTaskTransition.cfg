SPECIFICATION Spec
CONSTANTS
  t1 = t1
  t2 = t2
  c1 = c1
  k1 = k1
  k2 = k2
  Tasks = {t1, t2}
  Callers = {c1}
  Keys = {k1, k2}
  NoCall = NoCall
  NoStatus = NoStatus
  Canonicals = {"completed", "waiting_for_repair"}
  LegacyTasks = {t2}
  MaxEvents = 2
SYMMETRY Symmetry
INVARIANTS
  TypeOK
  OneEffectPerKey
  HistoryIsWhole
  StampsTellHistory
  CompletionIsDecided
PROPERTIES
  TerminalIsCorrected
  TerminalReopenedByCorrection
CHECK_DEADLOCK FALSE
