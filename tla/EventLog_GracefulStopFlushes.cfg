SPECIFICATION Spec
CONSTANTS
  Body = {b}
  Long = {}
  MaxRows = 2
  MaxFile = 4
  ReplayLines = 3
  MaxId = 7
  MaxRuns = 4
  MaxFaults = 1
PROPERTY
  GracefulStopFlushes
CHECK_DEADLOCK FALSE
