SPECIFICATION Spec
CONSTANTS
  c1 = c1
  c2 = c2
  c3 = c3
  r1 = r1
  r2 = r2
  q1 = q1
  k1 = k1
  Calls = {c1, c2, c3}
  Runs = {r1, r2}
  Requests = {q1}
  Keys = {k1}
  None = None
SYMMETRY Symmetry
INVARIANTS
  TypeOK
  SingleExecutor
  OneRunPerRequest
PROPERTIES
  KeepsLifecycle
CHECK_DEADLOCK FALSE
