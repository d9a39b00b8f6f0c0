SPECIFICATION Spec
CONSTANTS
  Types = {"MU", "SU"}
  Nodes = {n1, n2}
  FirstNode = n1
  Garbage = Garbage
  INIT_VEC_SIZE = 2
  MaxTasks = 4
  MaxCrashes = 2
INVARIANTS Restartable RulesReadable MemoryMatchesDatabase
PROPERTIES RestartKeepsRules
CHECK_DEADLOCK FALSE
