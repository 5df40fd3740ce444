SPECIFICATION Spec
CONSTANTS
  Users = {u1}
  Tenants = {t1, t2}
  Roles = {"viewer", "admin"}
  Ttl = 2
  HistoryLimit = 3
  Budget = 3
  Summarises = TRUE
  Persistent = FALSE
  Sizes = {1, 2, 4}
  Limit = 2
  Window = 2
  FailClosed = FALSE
  Workers = 3
  PoolCalls = {b1}
  SessionCalls = {b1}
  MaxCount = 5
  MaxClock = 3
  MaxCases = 5
  MaxFaults = 1
  None = None
PROPERTIES
  DeadTokenIsDropped
CHECK_DEADLOCK FALSE
