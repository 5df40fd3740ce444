SPECIFICATION BoundedSpec
CONSTANTS
  Tasks = {t1, t2, t3, t4, t5}
  Conns = {c1, c2}
  Aborts = {a1, a2}
  MaxConcurrent = 2
  MaxProgress = 1
  NoTask = NoTask
  StreamedTasks = 3
  StreamedAborts = 1
SYMMETRY Symmetry
INVARIANTS
  PermitsConserved
  NoLostWakeUp
  AnsweredAbortStopped
  StreamIsLog
  LogTellsStatus
PROPERTIES
  EndedIsFinal
  NoOvertaking
  ImplementsTaskStream
CHECK_DEADLOCK FALSE
