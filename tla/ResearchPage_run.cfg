SPECIFICATION FairSpec
CONSTANTS
  Tasks = {t1, t2}
  Clients = {c1, c2}
  MaxRetries = 1
  MaxMounts = 2
  MaxFaults = 2
  None = None
INVARIANTS
  PageIsReplay
  OneLiveClient
PROPERTIES
  OverIsLetGo
CHECK_DEADLOCK FALSE
