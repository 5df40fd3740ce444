SPECIFICATION Spec
CONSTANTS
  Chats = {c1, c2}
  Sessions = {s1}
  Requests = {r1, r2, r3}
  PoolCalls = {b1, b2, b3, p1}
  SessionCalls = {b1, b2, b3}
  HistoryLimit = 3
  Budget = 3
  Summarises = TRUE
  Persistent = TRUE
  Sizes = {1, 2}
  Limit = 2
  Window = 2
  FailClosed = FALSE
  Workers = 3
  Uploads = {u1, u2, u3}
  Contents = {x, y}
  Default = t0
  Times = {1, 2}
  Lengths = {1}
  Users = {v1}
  Tenants = {t1, t2}
  Roles = {"viewer", "admin"}
  Ttl = 2
  Files = {f1}
  Editions <- MCEditions
  Scores = {1, 2}
  CandidateK = 2
  RerankK = 1
  MaxChunks = 3
  ChunkSize = 4
  ChunkOverlap = 2
  Domestic = {d1, d2}
  Foreign = {g1}
  Rows = {p1, p2}
  CacheMax = 2
  MaxCount = 5
  MaxClock = 2
  MaxCases = 5
  MaxFaults = 1
  None = None
INVARIANTS
  MemoryIsNoFault
CHECK_DEADLOCK FALSE
