\* Tasks move between threads with switchTo and yield with YieldToHold.
CONSTANTS
  Workers = {w1, w2}
  Tasks = {t1, t2}
  AnyThread = AnyThread
  NoTask = NoTask
  Yields = {"HOLD", "SWITCH"}
  Targets = {w1, w2, AnyThread}
  MaxYields = 2
  MaxResumes = 1
SPECIFICATION FairSpec
INVARIANTS
  StopDrains
PROPERTIES
  StopReturns
CHECK_DEADLOCK FALSE
