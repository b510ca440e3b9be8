SPECIFICATION StatsSpec
CONSTANTS
  g1 = g1
  g2 = g2
  c1 = c1
  c2 = c2
  Writers <- TwoWriters
  Bodies <- SshAndSystem
  Sids = {"s"}
  Callers <- TwoCallers
  MaxRows = 3
  Limits = {0, 2, 3}
  DefaultLimit = 1
  MaxLimit = 2
  Hours = 2
  Ttl = 1
  MaxClock = 2
  MaxLogged = 3
SYMMETRY Alike
INVARIANTS
  EventsFindAll
  DetailCoversRow
  SummaryAddsUp
PROPERTIES
  SummaryNeverGoesBack
