SPECIFICATION Spec
CONSTANTS
  n1 = n1 n2 = n2
  Nodes = {n1, n2}
  NULL = NULL
  MURule <- MCMURule
  SURule <- MCSURule
  Own = {n1, n2}
  m_max_token_holders = 1
  MaxStarts = 1
  MaxFailures = 1
INVARIANTS NodesAccountedFor TokenLimit
PROPERTIES PhaseEndsFinished 
CHECK_DEADLOCK FALSE
