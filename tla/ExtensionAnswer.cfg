SPECIFICATION RecoveringSpec
CONSTANTS
  Nodes = {n1, n2}
  Agents = {m1, m2}
  NoTask = NoTask
  MaxTasks = 1
PROPERTIES OperatorIsAnswered
CHECK_DEADLOCK FALSE
