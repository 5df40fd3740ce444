SPECIFICATION Spec
CONSTANTS
  Uploads = {u1, u2}
  Contents = {x}
  Default = t0
  Times = {1, 2}
  Lengths = {1}
  Tenants = {t1, t2}
  Ttl = 2
  HistoryLimit = 3
  Budget = 3
  Summarises = TRUE
  Persistent = FALSE
  Sizes = {1, 2, 4}
  Limit = 2
  Window = 2
  FailClosed = FALSE
  Workers = 3
  PoolCalls = {b1}
  SessionCalls = {b1}
  MaxCount = 5
  MaxClock = 3
  MaxCases = 5
  MaxFaults = 1
  None = None
INVARIANTS
  RepeatedUploadIsAccepted
CHECK_DEADLOCK FALSE
