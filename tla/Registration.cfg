SPECIFICATION Spec
CONSTANTS
  c1 = c1  c2 = c2  c3 = c3  n1 = n1  n2 = n2
  Types = {"MU", "SU"}
  Nodes = {n1, n2}
  Conns <- MCConns
  Owner <- MCOwner
  number <- MCnumber
  dup <- MCdup
  mod <- MCmod
  Asks <- MCAsks
  Impatient = {c1}
  Deployments <- MCDeployments
  MaxExtra = 1
INVARIANTS DeployedMatchesDatabase EachCopyElsewhere EnoughAreDeployed
PROPERTIES CountedAreOpen WaitingIsAnswered
CHECK_DEADLOCK FALSE
