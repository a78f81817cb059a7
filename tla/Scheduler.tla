----------------------------- MODULE Scheduler -----------------------------
(***************************************************************************)
(* class Scheduler (scheduler/scheduler.h, scheduler.cpp) with the fiber   *)
(* states of fiber/fiber.cpp: an N:M coroutine scheduler.  Worker threads  *)
(* take fibers and callbacks from one list, swap them in until they yield  *)
(* or return, and decide from the state the fiber left behind what to do   *)
(* with it.                                                                *)
(*                                                                         *)
(* A step is what a thread does between two points where another thread    *)
(* can act on shared state: m_mutex protects m_fibers alone, so reading    *)
(* and writing a fiber's m_state, the counters and the two stop flags are  *)
(* steps of their own where the code has them outside the lock.            *)
(*                                                                         *)
(* The scheduler is built with use_caller=false, as in test_scheduler.cpp  *)
(* and test1 of test_iomanager.cpp.  A callback runs in a fiber of its own *)
(* (cb_fiber), so a task is one fiber whether it was scheduled as a fiber  *)
(* or as a callback.  What a task does while it runs is chosen freely      *)
(* among the calls of the API, within the bound MaxYields.                 *)
(*                                                                         *)
(* The virtual functions tickle, stopping and idle are those of the base   *)
(* class: tickle only logs and idle spins.  IOManager.tla overrides them.  *)
(***************************************************************************)
EXTENDS Naturals, FiniteSets, SequencesExt

CONSTANTS
  Workers,     \* the threads created by start(), standing for their ids
  Tasks,       \* fibers and callbacks
  AnyThread,   \* thread id -1: not bound to a thread
  NoTask,      \* a worker that holds no task
  Yields,      \* how tasks may yield: a subset of {"READY", "HOLD", "SWITCH"}
  Targets,     \* the threads tasks may be bound to
  MaxYields,   \* bound: how often one task yields before it returns
  MaxResumes   \* bound: how often tasks are scheduled again

ASSUME SchedulerAssumption ==
  /\ Workers # {} /\ IsFiniteSet(Workers)
  /\ AnyThread \notin Workers
  /\ NoTask \notin Tasks
  /\ Yields \subseteq {"READY", "HOLD", "SWITCH"}
  /\ Targets \subseteq Workers \cup {AnyThread}
  /\ MaxYields \in Nat /\ MaxResumes \in Nat

VARIABLES
  m_fibers,             \* the task list: records [task, thread]
  m_activeThreadCount,  \* workers that hold a task taken from the list
  m_idleThreadCount,    \* workers in their idle fiber
  m_stopping, m_autoStop,
  state,                \* per task: Fiber::m_state
  yielded,              \* per task: how often it has yielded
  scheduled,            \* the tasks that have been scheduled at least once
  resumed,              \* how often a task has been scheduled again
  early,                \* history: a task has been scheduled while an entry of the list
                        \* or a worker still had it
  pc,                   \* per worker: its position in run()
  cur,                  \* per worker: the task in ft (or cb_fiber)
  idleFiber,            \* per worker: the state of its idle fiber
  main,                 \* the thread that calls start, schedule and stop
  fault                 \* "none", or what ended the process: a failed ATPDXY_ASSERT
                        \* ("assert"), two threads on one fiber's stack ("stack")

schedVars == <<m_fibers, m_activeThreadCount, m_idleThreadCount, m_stopping, m_autoStop,
               state, yielded, scheduled, resumed, early, pc, cur, idleFiber, main, fault>>
counts == <<m_activeThreadCount, m_idleThreadCount>>
flags == <<m_stopping, m_autoStop, main>>
known == <<scheduled, resumed, early>>
tasks == <<state, yielded, known>>

FiberState == {"INIT", "HOLD", "EXEC", "TERM", "READY", "EXCEPT"}

\* "off": not started; "pick": about to take the lock; "none": found nothing;
\* "idle"/"unidle": in, and back from, the idle fiber; "dispatch": popped a
\* task; "run": the task's code runs; "switch": inside switchTo; "out": the
\* state is set and the context not yet swapped out; "back": swapIn has
\* returned; "settle": the active count is decremented; "exit": run returned.
WorkerPC == {"off", "pick", "none", "idle", "unidle", "dispatch", "run", "switch",
             "out", "back", "settle", "exit"}

TypeOK ==
  /\ m_fibers \in Seq([task : Tasks, thread : Workers \cup {AnyThread}])
  /\ m_activeThreadCount \in Nat
  /\ m_idleThreadCount \in Nat
  /\ m_stopping \in BOOLEAN /\ m_autoStop \in BOOLEAN
  /\ state \in [Tasks -> FiberState]
  /\ yielded \in [Tasks -> 0 .. MaxYields]
  /\ scheduled \subseteq Tasks
  /\ resumed \in 0 .. MaxResumes
  /\ early \in BOOLEAN
  /\ pc \in [Workers -> WorkerPC]
  /\ cur \in [Workers -> Tasks \cup {NoTask}]
  /\ idleFiber \in [Workers -> {"HOLD", "TERM"}]
  /\ main \in {"new", "running", "autostop", "joining", "stopped"}
  /\ fault \in {"none", "assert", "stack"}

Init ==
  /\ m_fibers = <<>>
  /\ m_activeThreadCount = 0
  /\ m_idleThreadCount = 0
  /\ m_stopping = TRUE /\ m_autoStop = FALSE
  /\ state = [t \in Tasks |-> "INIT"]
  /\ yielded = [t \in Tasks |-> 0]
  /\ scheduled = {}
  /\ resumed = 0
  /\ early = FALSE
  /\ pc = [w \in Workers |-> "off"]
  /\ cur = [w \in Workers |-> NoTask]
  /\ idleFiber = [w \in Workers |-> "HOLD"]
  /\ main = "new"
  /\ fault = "none"

\* A process that has failed takes no further step.
At(w, p) == fault = "none" /\ pc[w] = p

Goto(w, from, to) ==
  /\ At(w, from)
  /\ pc' = [pc EXCEPT ![w] = to]

MainAt(p) == fault = "none" /\ main = p

-----------------------------------------------------------------------------
(* schedule, and the fibers it may be called with *)

InList(t) == \E i \in DOMAIN m_fibers : m_fibers[i].task = t
InHand(t) == \E w \in Workers : cur[w] = t

\* Fault: the task gets two entries.
ScheduleTwice(t, thread) ==
  /\ m_fibers' = m_fibers \o <<[task |-> t, thread |-> thread], [task |-> t, thread |-> AnyThread]>>
  /\ early' = (early \/ InList(t) \/ InHand(t))

scheduleNoBlock(t, thread) ==
  m_fibers' = Append(m_fibers, [task |-> t, thread |-> thread])

\* Nothing is asked about the task: it may be in the list, or not yet parked.
schedule(t, thread) ==
  /\ scheduleNoBlock(t, thread)
  /\ early' = (early \/ InList(t) \/ InHand(t))

\* A task scheduled for the first time.
ScheduleNew(t, thread) ==
  /\ t \notin scheduled
  /\ thread \in Targets
  /\ schedule(t, thread)
  /\ scheduled' = scheduled \cup {t}
  /\ UNCHANGED resumed

\* A fiber that somebody holds a pointer to is scheduled again, whatever it is
\* doing: no call tells whether it has parked.  A callback that waits for its
\* first turn outside the list has no fiber yet.
ScheduleAgain(t, thread) ==
  /\ t \in scheduled
  /\ state[t] = "INIT" => InList(t) \/ InHand(t)
  /\ resumed < MaxResumes /\ resumed' = resumed + 1
  /\ thread \in Targets
  /\ schedule(t, thread)
  /\ UNCHANGED scheduled

-----------------------------------------------------------------------------
(* run(): the worker's loop *)

\* Fault: the thread an entry is bound to is not looked at.
CanTakeUnbound(w, e) == w \in Workers /\ state[e.task] # "EXEC"

CanTake(w, e) ==
  /\ e.thread \in {AnyThread, w}
  /\ state[e.task] # "EXEC"

Takeable(w) == {i \in DOMAIN m_fibers : CanTake(w, m_fibers[i])}

\* Fault: the active count is not raised under the lock.
PickNotActive(w) ==
  /\ Goto(w, "pick", "dispatch")
  /\ \E i \in Takeable(w) :
       /\ \A j \in Takeable(w) : i <= j
       /\ cur' = [cur EXCEPT ![w] = m_fibers[i].task]
       /\ m_fibers' = RemoveAt(m_fibers, i)
  /\ UNCHANGED <<counts, flags, tasks, idleFiber, fault>>

Pick(w) ==
  /\ Goto(w, "pick", "dispatch")
  /\ \E i \in Takeable(w) :
       /\ \A j \in Takeable(w) : i <= j
       /\ cur' = [cur EXCEPT ![w] = m_fibers[i].task]
       /\ m_fibers' = RemoveAt(m_fibers, i)
  /\ m_activeThreadCount' = m_activeThreadCount + 1
  /\ UNCHANGED <<m_idleThreadCount, flags, tasks, idleFiber, fault>>

PickNothing(w) ==
  /\ Takeable(w) = {}
  /\ Goto(w, "pick", "none")
  /\ UNCHANGED <<m_fibers, counts, flags, tasks, cur, idleFiber, fault>>

\* Fault: the count is not lowered before "continue".
DropEndedStaysActive(w) ==
  /\ Goto(w, "dispatch", "pick")
  /\ state[cur[w]] \in {"TERM", "EXCEPT"}
  /\ cur' = [cur EXCEPT ![w] = NoTask]
  /\ UNCHANGED <<m_fibers, counts, flags, tasks, idleFiber, fault>>

\* A fiber that has ended meanwhile is dropped (ft.fiber is TERM or EXCEPT).
DropEnded(w) ==
  /\ Goto(w, "dispatch", "pick")
  /\ state[cur[w]] \in {"TERM", "EXCEPT"}
  /\ cur' = [cur EXCEPT ![w] = NoTask]
  /\ m_activeThreadCount' = m_activeThreadCount - 1
  /\ UNCHANGED <<m_fibers, m_idleThreadCount, flags, tasks, idleFiber, fault>>

\* Workers on the stack of fiber t: from swapIn until swapOut saved the context.
OnStack(t) == {v \in Workers : cur[v] = t /\ pc[v] \in {"run", "switch", "out"}}

SwapIn(w) ==
  /\ Goto(w, "dispatch", "run")
  /\ state[cur[w]] \notin {"TERM", "EXCEPT", "EXEC"}
  /\ OnStack(cur[w]) = {}
  /\ state' = [state EXCEPT ![cur[w]] = "EXEC"]
  /\ UNCHANGED <<m_fibers, counts, flags, yielded, known, cur, idleFiber, fault>>

\* swapIn asserts that the fiber is not executing; and a fiber that has set
\* its state but not yet left its stack is entered a second time.
SwapInFails(w) ==
  /\ At(w, "dispatch")
  /\ state[cur[w]] \notin {"TERM", "EXCEPT"}
  /\ state[cur[w]] = "EXEC" \/ OnStack(cur[w]) # {}
  /\ fault' = IF state[cur[w]] = "EXEC" THEN "assert" ELSE "stack"
  /\ UNCHANGED <<m_fibers, counts, flags, tasks, pc, cur, idleFiber>>

\* The rest of swapOut: the contexts are swapped.
SwapOut(w) ==
  /\ Goto(w, "out", "back")
  /\ UNCHANGED <<m_fibers, counts, flags, tasks, cur, idleFiber, fault>>

Deactivate(w) ==
  /\ Goto(w, "back", "settle")
  /\ m_activeThreadCount' = m_activeThreadCount - 1
  /\ UNCHANGED <<m_fibers, m_idleThreadCount, flags, tasks, cur, idleFiber, fault>>

\* Fault: a fiber that yielded READY is forgotten.
SettleForgets(w) ==
  /\ Goto(w, "settle", "pick")
  /\ state' = IF state[cur[w]] \in {"TERM", "EXCEPT", "READY"} THEN state
              ELSE [state EXCEPT ![cur[w]] = "HOLD"]
  /\ cur' = [cur EXCEPT ![w] = NoTask]
  /\ UNCHANGED <<m_fibers, counts, flags, yielded, known, idleFiber, fault>>

\* What becomes of a task after swapIn returned, by the state it left.
Settle(w) ==
  LET t == cur[w] IN
  /\ Goto(w, "settle", "pick")
  /\ IF state[t] = "READY" THEN scheduleNoBlock(t, AnyThread) ELSE UNCHANGED m_fibers
  /\ state' = IF state[t] \in {"TERM", "EXCEPT", "READY"} THEN state
              ELSE [state EXCEPT ![t] = "HOLD"]
  /\ cur' = [cur EXCEPT ![w] = NoTask]
  /\ UNCHANGED <<counts, flags, yielded, known, idleFiber, fault>>

EnterIdle(w) ==
  /\ idleFiber[w] # "TERM"
  /\ Goto(w, "none", "idle")
  /\ m_idleThreadCount' = m_idleThreadCount + 1
  /\ UNCHANGED <<m_fibers, m_activeThreadCount, flags, tasks, cur, idleFiber, fault>>

LeaveIdle(w) ==
  /\ Goto(w, "unidle", "pick")
  /\ m_idleThreadCount' = m_idleThreadCount - 1
  /\ UNCHANGED <<m_fibers, m_activeThreadCount, flags, tasks, cur, idleFiber, fault>>

ExitRun(w) ==
  /\ idleFiber[w] = "TERM"
  /\ Goto(w, "none", "exit")
  /\ UNCHANGED <<m_fibers, counts, flags, tasks, cur, idleFiber, fault>>

-----------------------------------------------------------------------------
(* What a task may call while it runs on worker w *)

Spawn(w, t, thread) ==
  /\ At(w, "run")
  /\ ScheduleNew(t, thread)
  /\ UNCHANGED <<counts, flags, state, yielded, pc, cur, idleFiber, fault>>

Wake(w, t, thread) ==
  /\ At(w, "run")
  /\ ScheduleAgain(t, thread)
  /\ UNCHANGED <<counts, flags, state, yielded, pc, cur, idleFiber, fault>>

\* YieldToReady and YieldToHold up to the swap: the state is set first.
Yield(w, s) ==
  LET t == cur[w] IN
  /\ Goto(w, "run", "out")
  /\ s \in Yields \cap {"READY", "HOLD"}
  /\ yielded[t] < MaxYields
  /\ state[t] = "EXEC"
  /\ state' = [state EXCEPT ![t] = s]
  /\ yielded' = [yielded EXCEPT ![t] = @ + 1]
  /\ UNCHANGED <<m_fibers, counts, flags, known, cur, idleFiber, fault>>

\* switchTo(thread) to another worker of this scheduler: the running fiber is
\* scheduled, and then yields with YieldToHold.
SwitchTo(w, thread) ==
  /\ Goto(w, "run", "switch")
  /\ "SWITCH" \in Yields
  /\ yielded[cur[w]] < MaxYields
  /\ thread \in Targets \ {AnyThread, w}
  /\ schedule(cur[w], thread)
  /\ yielded' = [yielded EXCEPT ![cur[w]] = @ + 1]
  /\ UNCHANGED <<counts, flags, state, scheduled, resumed, cur, idleFiber, fault>>

SwitchToHold(w) ==
  /\ Goto(w, "switch", "out")
  /\ state[cur[w]] = "EXEC"
  /\ state' = [state EXCEPT ![cur[w]] = "HOLD"]
  /\ UNCHANGED <<m_fibers, counts, flags, yielded, known, cur, idleFiber, fault>>

\* YieldToReady and YieldToHold assert that the fiber is executing.
YieldFails(w) ==
  /\ \/ At(w, "switch")
     \/ At(w, "run") /\ yielded[cur[w]] < MaxYields
  /\ state[cur[w]] # "EXEC"
  /\ fault' = "assert"
  /\ UNCHANGED <<m_fibers, counts, flags, tasks, pc, cur, idleFiber>>

\* The task's function returns or throws: the end of MainFunc.
Return(w, s) ==
  /\ s \in {"TERM", "EXCEPT"}
  /\ Goto(w, "run", "out")
  /\ state' = [state EXCEPT ![cur[w]] = s]
  /\ UNCHANGED <<m_fibers, counts, flags, yielded, known, cur, idleFiber, fault>>

-----------------------------------------------------------------------------
(* The virtual functions of the base class *)

\* Fault: the workers that still hold a task are not looked at.
StoppingIgnoresActive ==
  /\ m_autoStop
  /\ m_stopping
  /\ m_fibers = <<>>

stopping ==
  /\ m_autoStop
  /\ m_stopping
  /\ m_fibers = <<>>
  /\ m_activeThreadCount = 0

\* One turn of idle(): leave for good, or yield back to run.
Idle(w) ==
  /\ Goto(w, "idle", "unidle")
  /\ idleFiber' = [idleFiber EXCEPT ![w] = IF stopping THEN "TERM" ELSE "HOLD"]
  /\ UNCHANGED <<m_fibers, counts, flags, tasks, cur, fault>>

-----------------------------------------------------------------------------
(* The thread that owns the scheduler *)

start ==
  /\ MainAt("new")
  /\ main' = "running"
  /\ m_stopping' = FALSE
  /\ pc' = [w \in Workers |-> "pick"]
  /\ UNCHANGED <<m_fibers, counts, m_autoStop, tasks, cur, idleFiber, fault>>

MainSchedule(t, thread) ==
  /\ MainAt("new") \/ MainAt("running")
  /\ ScheduleNew(t, thread)
  /\ UNCHANGED <<counts, flags, state, yielded, pc, cur, idleFiber, fault>>

MainResume(t, thread) ==
  /\ MainAt("new") \/ MainAt("running")
  /\ ScheduleAgain(t, thread)
  /\ UNCHANGED <<counts, flags, state, yielded, pc, cur, idleFiber, fault>>

\* stop(): m_autoStop and m_stopping are two unlocked writes.
StopAuto ==
  /\ MainAt("running")
  /\ main' = "autostop"
  /\ m_autoStop' = TRUE
  /\ UNCHANGED <<m_fibers, counts, m_stopping, tasks, pc, cur, idleFiber, fault>>

StopFlag ==
  /\ MainAt("autostop")
  /\ main' = "joining"
  /\ m_stopping' = TRUE
  /\ UNCHANGED <<m_fibers, counts, m_autoStop, tasks, pc, cur, idleFiber, fault>>

StopJoin ==
  /\ MainAt("joining")
  /\ \A w \in Workers : pc[w] = "exit"
  /\ main' = "stopped"
  /\ UNCHANGED <<m_fibers, counts, m_stopping, m_autoStop, tasks, pc, cur, idleFiber, fault>>

-----------------------------------------------------------------------------
\* The non-virtual part of a worker's loop.
RunStep(w) ==
  \/ Pick(w) \/ PickNothing(w) \/ DropEnded(w) \/ SwapIn(w) \/ SwapInFails(w) \/ SwapOut(w)
  \/ Deactivate(w) \/ Settle(w) \/ EnterIdle(w) \/ LeaveIdle(w) \/ ExitRun(w)

\* What the task in hand does.
TaskStep(w) ==
  \/ \E t \in Tasks, thread \in Targets : Spawn(w, t, thread) \/ Wake(w, t, thread)
  \/ \E s \in {"READY", "HOLD"} : Yield(w, s)
  \/ \E thread \in Targets : SwitchTo(w, thread)
  \/ SwitchToHold(w)
  \/ YieldFails(w)
  \/ \E s \in {"TERM", "EXCEPT"} : Return(w, s)

WorkerStep(w) == RunStep(w) \/ Idle(w) \/ TaskStep(w)

StopStep == StopFlag \/ StopJoin

Next ==
  \/ \E w \in Workers : WorkerStep(w)
  \/ StopStep
  \/ start
  \/ \E t \in Tasks, thread \in Targets : MainSchedule(t, thread) \/ MainResume(t, thread)
  \/ StopAuto

Spec == Init /\ [][Next]_schedVars

(* Worker threads are preemptive threads of the operating system, so each  *)
(* one keeps running, and tasks are finite.  The owner finishes a stop it  *)
(* has begun; it need not start, schedule or stop.                         *)
Fairness ==
  /\ \A w \in Workers : WF_schedVars(WorkerStep(w))
  /\ WF_schedVars(StopStep)

FairSpec == Spec /\ Fairness

-----------------------------------------------------------------------------
(* Properties *)

Holding == {"dispatch", "run", "switch", "out", "back"}

\* The counters agree with the workers' positions: m_activeThreadCount, which
\* stopping() trusts, counts the workers that hold a task until swapIn has
\* returned; m_idleThreadCount those in their idle fiber.
CountersAgree ==
  /\ m_activeThreadCount = Cardinality({w \in Workers : pc[w] \in Holding})
  /\ m_idleThreadCount = Cardinality({w \in Workers : pc[w] \in {"idle", "unidle"}})

\* As long as no task is scheduled early, a fiber is in at most one place: one
\* entry of the list or the hands of one worker.  The scheduler itself never
\* gives it to two workers, which would run on one stack.
FiberInOnePlace ==
  ~early =>
    /\ \A i, j \in DOMAIN m_fibers : m_fibers[i].task = m_fibers[j].task => i = j
    /\ \A v, w \in Workers : cur[v] # NoTask /\ cur[v] = cur[w] => v = w
    /\ \A w \in Workers : cur[w] # NoTask => ~InList(cur[w])

\* The assertion of YieldToReady and YieldToHold (fiber.cpp): a fiber that
\* runs is in state EXEC when it yields, whatever other workers do.
RunningIsExec ==
  \A w \in Workers : pc[w] \in {"run", "switch"} => state[cur[w]] = "EXEC"

\* No assertion of the fiber layer fails and no stack is entered twice, unless
\* a task was scheduled before the worker that had it let go of it.
FaultOnlyIfEarly == fault # "none" => early

\* A fiber that is ready to go on is never forgotten: it is in the list or on
\* its way back to it.
ReadyIsNotLost ==
  \A t \in Tasks : state[t] \in {"READY", "EXEC"} => InList(t) \/ InHand(t)

\* When stop() returns the list is empty and every task has ended or is
\* parked on hold (scheduler/readme.md: stop waits for the coroutines).
StopDrains ==
  main = "stopped" =>
    /\ m_fibers = <<>>
    /\ \A t \in scheduled : state[t] \in {"TERM", "EXCEPT", "HOLD"}

\* stop() returns, once it has begun.
StopReturns == main = "autostop" ~> main = "stopped" \/ fault # "none"

\* A task in the list is taken from it.
ListedTasksRun == \A t \in Tasks : InList(t) /\ main # "new" ~> InHand(t) \/ fault # "none"

\* What a worker and its task look like to somebody who knows no fiber states.
Stage(w) ==
  CASE pc[w] = "dispatch" -> "taken"
    [] pc[w] \in {"run", "switch"} -> "executing"
    [] pc[w] \in {"out", "back", "settle"} -> IF state[cur[w]] = "READY" THEN "ready" ELSE "parked"
    [] OTHER -> "free"

Exec == INSTANCE Executor WITH
          queue <- m_fibers, hand <- cur, misused <- early,
          stage <- [w \in Workers |-> Stage(w)],
          ended <- {t \in Tasks : state[t] \in {"TERM", "EXCEPT"}}

\* The scheduler keeps the promise of an executor, which knows nothing of
\* fiber states, until a task is scheduled early: tasks are taken in order by
\* the workers they are bound to, executed once for every time they are taken,
\* put back when they are ready to go on, and never executed after they ended.
ImplementsExecutor == Exec!Spec
=============================================================================
