SPECIFICATION SessionsSpec
CONSTANTS
  t1 = t1
  t2 = t2
  s1 = s1
  Tcp <- TwoTcp
  Ssh <- OneSsh
  Body <- AllBodies
  MaxSessions = 2
  Long = {}
  MaxRows = 2
  MaxFile = 0
  ReplayLines = 4
  MaxId = 4
  MaxRuns = 1
  MaxFaults = 0
INVARIANT
  EndedSessionsAreClosed
CHECK_DEADLOCK FALSE
