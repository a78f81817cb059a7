\* Tasks yield with YieldToReady and schedule tasks bound to a thread.
CONSTANTS
  Workers = {w1, w2}
  Tasks = {t1, t2}
  AnyThread = AnyThread
  NoTask = NoTask
  Yields = {"READY"}
  Targets = {w1, w2, AnyThread}
  MaxYields = 2
  MaxResumes = 0
SPECIFICATION Spec
INVARIANTS
  StopDrains
CHECK_DEADLOCK FALSE
