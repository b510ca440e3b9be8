SPECIFICATION PubSpec
CONSTANTS
  Addresses = {a, b}
  None = None
  MaxHistory = 2
  Topics = {t, u}
  MaxMoves = 2
  MaxFaults = 1
INVARIANTS
  HistoryIsChain
PROPERTIES
  NameFollows
  DashboardFindsHost
  TrackerFollows
