SPECIFICATION Spec
CONSTANTS
  Nodes = {n1, n2}
  Agents = {m1, m2}
  NoTask = NoTask
  MaxTasks = 2
INVARIANTS NoReferenceLeft
CHECK_DEADLOCK FALSE
