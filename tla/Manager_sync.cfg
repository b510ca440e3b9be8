SPECIFICATION FairManager
CONSTANTS
  Services = {s1, s2}
  Ports = {p1, p2}
  Contested = {p2}
  Requests = {r1, r2}
  Off = Off
INVARIANTS
  StatusIsTrue
PROPERTIES
  ListenersPromise
  SecondSyncSettles
  RequestsReturn
CHECK_DEADLOCK FALSE
