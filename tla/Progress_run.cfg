SPECIFICATION EitherSpec
CONSTANTS
  Calls = {c1, c2}
  Ranks = 3
  Candidates <- MCCandidates
  Priority <- MCPriority
  Threshold = 2
  Interval = 1
  Retries = 1
  NoProvider = 0
  Tasks = {t1, t2}
  Conns = {k1}
  Aborts = {a1}
  MaxConcurrent = 1
  MaxProgress = 0
  NoTask = NoTask
INVARIANTS
  PriorityFailover
PROPERTIES
  OpenRunsItsCourse
  EveryCallReturns
  ProviderIsProbedAgain
  QueueIsServed
  StartedStreamEnds
  AbortIsAnswered
CHECK_DEADLOCK FALSE
