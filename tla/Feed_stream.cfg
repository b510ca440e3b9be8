SPECIFICATION FairFeed
CONSTANTS
  Loggers = {l1, l2}
  Clients = {c1}
  HelloLimit = 2
  Room = 2
  MaxId = 3
INVARIANTS
  NoGap
PROPERTY
  LogReturns
CHECK_DEADLOCK FALSE
