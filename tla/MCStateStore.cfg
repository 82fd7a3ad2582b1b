SPECIFICATION LiveSpec
CONSTANTS
  m1 = m1
  m2 = m2
  w1 = w1
  r1 = r1
  x1 = x1
  Mutators = {m1, m2}
  Savers = {w1}
  Readers = {}
  Externals = {x1}
  MaxCrashes = 1
  Faults = {"write", "throw", "unreadable"}
INVARIANTS
  TypeOK
  ReturnedIsDurable
PROPERTIES
  EveryCallSettles
CHECK_DEADLOCK FALSE
