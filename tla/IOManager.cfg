CONSTANTS
  Workers = {w1, w2}
  Tasks = {t1, t2}
  AnyThread = AnyThread
  NoTask = NoTask
  Yields = {"HOLD"}
  Targets = {AnyThread}
  MaxYields = 1
  MaxResumes = 0
  Fds = {f1, f2}
  Events = {"READ", "WRITE"}
  Main = Main
  Fibers = TRUE
  Hangups = TRUE
  MaxAdds = 2
  PipeCapacity = 1
SPECIFICATION IOSpec
SYMMETRY Symmetry
INVARIANTS
  PendingCountsRegistered
  ContextMatchesEvents
  CallbackDeliveredOnce
  LastWorkerStays
PROPERTY
  ImplementsExecutor
CHECK_DEADLOCK FALSE
