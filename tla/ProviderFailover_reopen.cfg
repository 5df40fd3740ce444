SPECIFICATION Spec
CONSTANTS
  Calls = {c1, c2}
  Ranks = 1
  Candidates <- MCCandidates
  Priority <- MCPriority
  Threshold = 2
  Interval = 1
  Retries = 0
  NoProvider = 0
PROPERTIES
  ThresholdOpens
CHECK_DEADLOCK FALSE
