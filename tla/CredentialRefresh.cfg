SPECIFICATION Spec
CONSTANTS
  Procs = {p1, p2}
  Calls = {c1, c2}
  Nobody = Nobody
  Orphan = Orphan
  MaxStale = 1
  MaxLogins = 1
  MaxCrashes = 1
  MaxSuspended = 1
INVARIANTS DisabledOnlyDead OneRequestAtATime
PROPERTIES OnlyOutdatedCallsGoBack CallsReturn
CHECK_DEADLOCK FALSE
