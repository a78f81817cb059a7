\* A fiber yields with YieldToHold, and the owner resumes it once.
CONSTANTS
  Workers = {w1, w2}
  Tasks = {t1}
  AnyThread = AnyThread
  NoTask = NoTask
  Yields = {"HOLD"}
  Targets = {AnyThread}
  MaxYields = 2
  MaxResumes = 1
SPECIFICATION Spec
INVARIANTS
  RunningIsExec
CHECK_DEADLOCK FALSE
