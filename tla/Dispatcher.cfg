SPECIFICATION Spec
CONSTANTS
  Items = {i1, i2, i3}
  Threads = {t1, t2}
  NoItem = NoItem
  MainPipeSize = 1
  ThreadPipeSize = 1
  MaxSends = 2
INVARIANTS TypeOK  OneAnswerEach WriteArmed
PROPERTIES PoolSpec EveryItemAnswered
CHECK_DEADLOCK FALSE
