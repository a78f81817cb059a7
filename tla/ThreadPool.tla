----------------------------- MODULE ThreadPool -----------------------------
(***************************************************************************)
(* class ThreadPool (ThreadPool/ThreadPool.h): worker threads that wait on *)
(* one condition variable for tasks in one queue.                          *)
(*                                                                         *)
(* Everything done under queue_mutex_ is one step.  notify_one in enqueue  *)
(* and notify_all in the destructor happen after the lock is released, so  *)
(* they are steps of their own and other threads run in between.  A wait   *)
(* on the condition variable is the state "wait" of a worker: a notify, or *)
(* a spurious wake-up, moves it to "check", where it takes the lock and    *)
(* evaluates the predicate of wait().                                      *)
(*                                                                         *)
(* A client thread is not inside enqueue once the destructor has begun (an *)
(* object's lifetime ends when its destructor starts).  Tasks are: a task  *)
(* that runs on a worker may call enqueue at any time, and it is for these *)
(* calls that enqueue throws once stop_ is set.                            *)
(***************************************************************************)
EXTENDS Naturals, Sequences

CONSTANTS
  Workers,   \* the threads of workers_
  Clients,   \* other threads that call enqueue
  Tasks,     \* the callables submitted; each is submitted at most once
  NoTask     \* a worker that holds no task

ASSUME PoolAssumption ==
  /\ Workers # {}
  /\ Workers \cap Clients = {}
  /\ NoTask \notin Tasks

VARIABLES
  tasks_,    \* the queue
  stop_,     \* set by the destructor
  wpc,       \* per worker: where it is in its loop
  task,      \* per worker: the local variable task
  epc,       \* per caller of enqueue: "notify" between unlock and notify_one
  future,    \* per task: its future - "none", "pending", "ready", or "thrown"
  dpc        \* the destructor: "alive", "notify", "join", "gone"

vars == <<tasks_, stop_, wpc, task, epc, future, dpc>>

Callers == Workers \cup Clients

TypeOK ==
  /\ tasks_ \in Seq(Tasks)
  /\ stop_ \in BOOLEAN
  /\ wpc \in [Workers -> {"check", "wait", "run", "exit"}]
  /\ task \in [Workers -> Tasks \cup {NoTask}]
  /\ \A w \in Workers : wpc[w] = "run" <=> task[w] # NoTask
  /\ epc \in [Callers -> {"idle", "notify"}]
  /\ future \in [Tasks -> {"none", "pending", "ready", "thrown"}]
  /\ dpc \in {"alive", "notify", "join", "gone"}

Init ==
  /\ tasks_ = <<>>
  /\ stop_ = FALSE
  /\ wpc = [w \in Workers |-> "check"]
  /\ task = [w \in Workers |-> NoTask]
  /\ epc = [c \in Callers |-> "idle"]
  /\ future = [t \in Tasks |-> "none"]
  /\ dpc = "alive"

-----------------------------------------------------------------------------
(* enqueue *)

\* A client calls before the destructor starts, a worker from within a task.
MayCall(c) ==
  /\ epc[c] = "idle"
  /\ IF c \in Workers THEN wpc[c] = "run" ELSE dpc = "alive"

EnqueueUnchecked(c, t) ==
  /\ MayCall(c)
  /\ future[t] = "none"
  /\ tasks_' = Append(tasks_, t)
  /\ future' = [future EXCEPT ![t] = "pending"]
  /\ epc' = [epc EXCEPT ![c] = "notify"]
  /\ UNCHANGED <<stop_, wpc, task, dpc>>

EnqueueNoNotify(c, t) ==
  /\ MayCall(c)
  /\ future[t] = "none"
  /\ tasks_' = Append(tasks_, t)
  /\ future' = [future EXCEPT ![t] = "pending"]
  /\ UNCHANGED <<stop_, wpc, task, epc, dpc>>

Enqueue(c, t) ==
  /\ MayCall(c)
  /\ future[t] = "none"
  /\ ~stop_
  /\ tasks_' = Append(tasks_, t)
  /\ future' = [future EXCEPT ![t] = "pending"]
  /\ epc' = [epc EXCEPT ![c] = "notify"]
  /\ UNCHANGED <<stop_, wpc, task, dpc>>

EnqueueThrows(c, t) ==
  /\ MayCall(c)
  /\ future[t] = "none"
  /\ stop_
  /\ future' = [future EXCEPT ![t] = "thrown"]
  /\ UNCHANGED <<tasks_, stop_, wpc, task, epc, dpc>>

Waiting == {w \in Workers : wpc[w] = "wait"}

\* The awakened worker skips the predicate ("if" in place of a loop).
NotifyOneNoRecheck(c) ==
  /\ epc[c] = "notify"
  /\ epc' = [epc EXCEPT ![c] = "idle"]
  /\ IF Waiting = {} THEN wpc' = wpc
     ELSE \E w \in Waiting : wpc' = [wpc EXCEPT ![w] = "run"]
  /\ UNCHANGED <<tasks_, stop_, task, future, dpc>>

NotifyOne(c) ==
  /\ epc[c] = "notify"
  /\ epc' = [epc EXCEPT ![c] = "idle"]
  /\ IF Waiting = {} THEN wpc' = wpc
     ELSE \E w \in Waiting : wpc' = [wpc EXCEPT ![w] = "check"]
  /\ UNCHANGED <<tasks_, stop_, task, future, dpc>>

-----------------------------------------------------------------------------
(* The loop of a worker *)

Wait(w) ==
  /\ wpc[w] = "check"
  /\ ~stop_
  /\ tasks_ = <<>>
  /\ wpc' = [wpc EXCEPT ![w] = "wait"]
  /\ UNCHANGED <<tasks_, stop_, task, epc, future, dpc>>

SpuriousWakeup(w) ==
  /\ wpc[w] = "wait"
  /\ wpc' = [wpc EXCEPT ![w] = "check"]
  /\ UNCHANGED <<tasks_, stop_, task, epc, future, dpc>>

\* The worker takes a copy and forgets to pop.
TakeNoPop(w) ==
  /\ wpc[w] = "check"
  /\ tasks_ # <<>>
  /\ task' = [task EXCEPT ![w] = Head(tasks_)]
  /\ wpc' = [wpc EXCEPT ![w] = "run"]
  /\ UNCHANGED <<tasks_, stop_, epc, future, dpc>>

Take(w) ==
  /\ wpc[w] = "check"
  /\ tasks_ # <<>>
  /\ task' = [task EXCEPT ![w] = Head(tasks_)]
  /\ tasks_' = Tail(tasks_)
  /\ wpc' = [wpc EXCEPT ![w] = "run"]
  /\ UNCHANGED <<stop_, epc, future, dpc>>

\* task() returns; packaged_task stores the result or the exception.
Run(w) ==
  /\ wpc[w] = "run"
  /\ epc[w] = "idle"
  /\ future' = [future EXCEPT ![task[w]] = "ready"]
  /\ task' = [task EXCEPT ![w] = NoTask]
  /\ wpc' = [wpc EXCEPT ![w] = "check"]
  /\ UNCHANGED <<tasks_, stop_, epc, dpc>>

\* The worker leaves as soon as stop_ is set.
ExitEarly(w) ==
  /\ wpc[w] = "check"
  /\ stop_
  /\ wpc' = [wpc EXCEPT ![w] = "exit"]
  /\ UNCHANGED <<tasks_, stop_, task, epc, future, dpc>>

Exit(w) ==
  /\ wpc[w] = "check"
  /\ stop_
  /\ tasks_ = <<>>
  /\ wpc' = [wpc EXCEPT ![w] = "exit"]
  /\ UNCHANGED <<tasks_, stop_, task, epc, future, dpc>>

-----------------------------------------------------------------------------
(* The destructor *)

DestroySetStop ==
  /\ dpc = "alive"
  /\ \A c \in Clients : epc[c] = "idle"
  /\ stop_' = TRUE
  /\ dpc' = "notify"
  /\ UNCHANGED <<tasks_, wpc, task, epc, future>>

\* notify_one in place of notify_all.
DestroyNotifyOne ==
  /\ dpc = "notify"
  /\ dpc' = "join"
  /\ IF Waiting = {} THEN wpc' = wpc
     ELSE \E w \in Waiting : wpc' = [wpc EXCEPT ![w] = "check"]
  /\ UNCHANGED <<tasks_, stop_, task, epc, future>>

DestroyNotifyAll ==
  /\ dpc = "notify"
  /\ wpc' = [w \in Workers |-> IF wpc[w] = "wait" THEN "check" ELSE wpc[w]]
  /\ dpc' = "join"
  /\ UNCHANGED <<tasks_, stop_, task, epc, future>>

DestroyJoin ==
  /\ dpc = "join"
  /\ \A w \in Workers : wpc[w] = "exit"
  /\ dpc' = "gone"
  /\ UNCHANGED <<tasks_, stop_, wpc, task, epc, future>>

-----------------------------------------------------------------------------
WorkerStep(w) == Wait(w) \/ Take(w) \/ Run(w) \/ Exit(w)

DestructorStep == DestroyNotifyAll \/ DestroyJoin

Next ==
  \/ \E c \in Callers, t \in Tasks : Enqueue(c, t) \/ EnqueueThrows(c, t)
  \/ \E c \in Callers : NotifyOne(c)
  \/ \E w \in Workers : WorkerStep(w) \/ SpuriousWakeup(w)
  \/ DestroySetStop
  \/ DestructorStep

Spec == Init /\ [][Next]_vars

(* The operating system schedules every runnable thread and every task     *)
(* returns.  Nobody is obliged to call enqueue or to destroy the pool, and *)
(* spurious wake-ups are not guaranteed.                                   *)
Fairness ==
  /\ \A w \in Workers : WF_vars(WorkerStep(w))
  /\ \A c \in Callers : WF_vars(NotifyOne(c))
  /\ WF_vars(DestructorStep)

FairSpec == Spec /\ Fairness

-----------------------------------------------------------------------------
(* Properties *)

Queued == {tasks_[i] : i \in DOMAIN tasks_}
Held == {task[w] : w \in {v \in Workers : wpc[v] = "run"}}

\* A task whose future is pending is in exactly one place: once in the queue
\* or in the hands of one worker.  No task is lost and none runs twice.
PendingIsInOnePlace ==
  /\ \A t \in Tasks : future[t] = "pending" <=> t \in Queued \cup Held
  /\ \A i, j \in DOMAIN tasks_ : tasks_[i] = tasks_[j] => i = j
  /\ \A v, w \in Workers :
       wpc[v] = "run" /\ wpc[w] = "run" /\ task[v] = task[w] => v = w
  /\ Queued \cap Held = {}

\* enqueue notifies after it unlocked and a worker waits after it checked:
\* there is never a queued task while every worker that is left sleeps and no
\* notify is on its way.
NoLostWakeup ==
  tasks_ # <<>> =>
    \/ \E w \in Workers : wpc[w] \in {"check", "run"}
    \/ \E c \in Callers : epc[c] = "notify"

\* After notify_all no worker sleeps, so join cannot hang on a sleeper.
NobodySleepsAfterStop ==
  dpc \in {"join", "gone"} => \A w \in Workers : wpc[w] # "wait"

\* A worker that has left leaves no task behind: once one worker has returned
\* the queue stays empty (readme: the pool runs what is queued, then joins).
NoTaskAfterExit ==
  (\E w \in Workers : wpc[w] = "exit") => stop_ /\ tasks_ = <<>>

TP == INSTANCE TaskPool WITH
        queue   <- tasks_,
        running <- Held,
        done    <- {t \in Tasks : future[t] = "ready"},
        refused <- {t \in Tasks : future[t] = "thrown"},
        phase   <- IF dpc = "gone" THEN "gone"
                   ELSE IF stop_ THEN "closed" ELSE "open"

\* The pool implements its abstract specification: tasks start in the order
\* of acceptance, once each, and the destructor returns only when all of them
\* have finished (readme, section 3).
ImplementsTaskPool == TP!Spec

\* An accepted task is eventually finished, whether or not the pool is being
\* destroyed meanwhile.
AcceptedTasksFinish ==
  \A t \in Tasks : future[t] = "pending" ~> future[t] = "ready"

\* The destructor returns.
DestructorReturns == dpc = "notify" ~> dpc = "gone"
=============================================================================
