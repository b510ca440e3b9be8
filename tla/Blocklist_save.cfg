SPECIFICATION BlocklistSpec
CONSTANTS
  Addresses = {a1}
  Ranges = {n1}
  Within <- MCWithin
  Reasons = {x, y}
  Requests = {r1}
  Absent = Absent
  Empty = Empty
  Torn = Torn
  MaxHits = 1
  MaxChanges = 2
  MaxFaults = 1
INVARIANTS
  ListIsSaved
  HitsAreSavedOrDirty
  WholeUnlessOverlapped
PROPERTIES
  DirtyIsFlushed
