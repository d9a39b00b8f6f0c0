SPECIFICATION Spec
CONSTANTS
  Types = {"MU"}
  Nodes = {n1, n2, n3}
  Buckets = {0}
  Agents = {m1}
  NoTask = NoTask
  n1 = n1 n2 = n2 n3 = n3
  FirstRule <- MCFirstRule
  RetryTime = 2
  MaxTasks = 2
  OneAtATime = FALSE
INVARIANTS DeletedAfterDone
