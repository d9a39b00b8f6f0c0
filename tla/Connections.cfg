SPECIFICATION Spec
CONSTANTS
  Agents = {a1, a2}
  Extension = {a2}
  MAXRECONNECTTIMES = 3
INVARIANTS TypeOK OneReport WriteArmed QueuedOnce
PROPERTIES FreedAfterReport EveryRequestEnds
CHECK_DEADLOCK FALSE
