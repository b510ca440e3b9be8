SPECIFICATION Spec
CONSTANTS
  b = b
  Body <- OneBody
  Long <- FirstIsLong
  MaxRows = 2
  MaxFile = 4
  ReplayLines = 3
  MaxId = 6
  MaxRuns = 4
  MaxFaults = 2
INVARIANTS
  TypeOK
  RingInOrder
  DiskInOrder
  DiskBounded
PROPERTIES
  OnlyRotationMovesLines
  RestartShowsWhatSurvived
CHECK_DEADLOCK FALSE
