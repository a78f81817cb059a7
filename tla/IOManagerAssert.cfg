\* One descriptor registered for READ; its peer may hang up.
CONSTANTS
  Workers = {w1, w2}
  Tasks = {t1, t2}
  AnyThread = AnyThread
  NoTask = NoTask
  Yields = {}
  Targets = {AnyThread}
  MaxYields = 1
  MaxResumes = 0
  Fds = {f1}
  Main = Main
  Fibers = FALSE
  Events = {"READ"}
  Hangups = TRUE
  MaxAdds = 1
  PipeCapacity = 12
SPECIFICATION IOSpec
INVARIANTS
  NoAssertFails
CHECK_DEADLOCK FALSE
