CONSTANTS
  Workers = {w1, w2}
  Tasks = {t1, t2}
  AnyThread = AnyThread
  NoTask = NoTask
  Yields = {}
  Targets = {AnyThread}
  MaxYields = 1
  MaxResumes = 0
  Fds = {f1}
  Events = {"READ"}
  Main = Main
  Fibers = FALSE
  Hangups = FALSE
  MaxAdds = 1
  PipeCapacity = 12
SPECIFICATION IOFairSpec
PROPERTIES
  StopReturnsWithoutEvents
  ListedTasksRun
CHECK_DEADLOCK FALSE
