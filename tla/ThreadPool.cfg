\* Two workers, one client thread and three tasks: a task can enqueue another
\* one, both workers can sleep at once, and enqueue can race with stop_.
CONSTANTS
  Workers = {w1, w2}
  Clients = {c1}
  Tasks = {t1, t2, t3}
  NoTask = NoTask
SPECIFICATION FairSpec
INVARIANTS
  PendingIsInOnePlace
  NoLostWakeup
  NoTaskAfterExit
PROPERTIES
  ImplementsTaskPool
  AcceptedTasksFinish
  DestructorReturns
\* Once the pool is gone and the tasks are used up nothing is left to do.
CHECK_DEADLOCK FALSE
