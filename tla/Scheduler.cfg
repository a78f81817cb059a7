CONSTANTS
  Workers = {w1, w2}
  Tasks = {t1, t2, t3}
  AnyThread = AnyThread
  NoTask = NoTask
  Yields = {"READY", "HOLD"}
  Targets = {w1, w2, AnyThread}
  MaxYields = 1
  MaxResumes = 1
SPECIFICATION Spec
SYMMETRY Symmetry
INVARIANTS
  CountersAgree
  FaultOnlyIfEarly
  ReadyIsNotLost
PROPERTY
  ImplementsExecutor
CHECK_DEADLOCK FALSE
