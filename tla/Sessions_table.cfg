SPECIFICATION FairHandlers
CONSTANTS
  t1 = t1
  t2 = t2
  s1 = s1
  Tcp <- TwoTcp
  Ssh <- OneSsh
  Body <- AllBodies
  MaxSessions = 2
  Long = {}
  MaxRows = 3
  MaxFile = 3
  ReplayLines = 3
  MaxId = 3
  MaxRuns = 2
  MaxFaults = 0
INVARIANTS
  TableBounded
  CountsCoverRing
PROPERTIES
  TcpSessionsEnd
  EvictsOldestClosedFirst
CHECK_DEADLOCK FALSE
