SPECIFICATION Spec
CONSTANTS
  Tasks = {t1, t2}
  Conns = {c1}
  Aborts = {a1}
  MaxConcurrent = 1
  MaxProgress = 1
  NoTask = NoTask
INVARIANTS
  AnsweredAbortEnded
CHECK_DEADLOCK FALSE
