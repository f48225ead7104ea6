SPECIFICATION FairSpec
CONSTANTS
  m1 = m1
  m2 = m2
  None = None
  Managers = {m1, m2}
  Migrated = {0, 1, 2}
  Horizon = 4
  Retention = 2
  MaxOutage = 3
  MaxTime = 12
  FaultKinds = {"pass", "detach"}
  MaxFaults = 3
INVARIANTS TypeOK RetainedHoursAttached TablesAreRegistered
PROPERTY ExpiredHoursGo
