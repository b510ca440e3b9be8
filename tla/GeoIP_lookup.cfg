SPECIFICATION GeoSpec
CONSTANTS
  IPs = {i1, i2, p}
  Private = {p}
  Callers = {c1, c2}
  QueueCap = 1
  CacheCap = 1
  MaxCrashes = 1
INVARIANTS
  PendingIsOwned
PROPERTIES
  ErrandsPromise
  AskedAgainForCause
  PendingIsReleased
