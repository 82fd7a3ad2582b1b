SPECIFICATION Spec
CONSTANTS
  Nodes = {1, 2, 3, 4, 5, 6}
  Kind <- MCKind
  Workstream <- MCWorkstream
  Fanouts = {"f"}
  Parent <- MCParent
  Shards <- MCShards
  Joins = {"j", "k"}
  JoinNode <- MCJoinNode
  Awaited <- MCAwaited
  Plans = {"p"}
  PlanNodes <- MCPlanNodes
  PlanEdges <- MCPlanEdges
  Callers = {c1, c2}
  c1 = c1
  c2 = c2
  MaxParallel = 2
  Results = {"completed", "failed"}
SYMMETRY Anyone
INVARIANTS
  TypeOK
  GraphIsAcyclic
  FanoutIsWhole
  BeginsAfterDependencies
  CycleIsFound
  OrderIsStable
CHECK_DEADLOCK FALSE
