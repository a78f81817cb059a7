----------------------------- MODULE IOManager -----------------------------
(***************************************************************************)
(* class IOManager (iomanager/iomanager.cpp): the scheduler whose idle     *)
(* workers wait in epoll_wait for events of file descriptors.  It derives  *)
(* from Scheduler and overrides tickle, stopping and idle.                 *)
(*                                                                         *)
(* Each operation on an fd runs under the mutex of its FdContext and is    *)
(* one step.  What schedule() does after it released the scheduler's lock, *)
(* tickle(), is a step of its own: tickles counts the calls a thread still *)
(* has to make before it goes on.  stopping() is two steps, since it reads *)
(* the scheduler's state and the event counter separately.                 *)
(*                                                                         *)
(* The kernel is modelled by what the code sees of it: epoll_wait may      *)
(* return at any time (an event, the tickle pipe, or its timeout) and may  *)
(* report any events the fd is registered for, and all of them on an error *)
(* or hang-up, whether registered or not.  epoll_ctl succeeds: a           *)
(* descriptor is not closed while events are registered for it.  The fds   *)
(* are below 32, so m_fdContexts is never resized.                         *)
(***************************************************************************)
EXTENDS Scheduler

CONSTANTS
  Fds,            \* file descriptors
  Events,         \* the events tasks register for: a subset of {"READ", "WRITE"}
  Main,           \* the thread that owns the IOManager
  Fibers,         \* TRUE: tasks also wait for events themselves (no callback)
  Hangups,        \* TRUE: the kernel may report EPOLLERR or EPOLLHUP
  MaxAdds,        \* bound: calls of addEvent
  PipeCapacity    \* bytes the tickle pipe holds before write blocks

ASSUME IOAssumption ==
  /\ Events \subseteq {"READ", "WRITE"}
  /\ Main \notin Workers \cup {AnyThread}
  /\ Fibers \in BOOLEAN /\ Hangups \in BOOLEAN
  /\ MaxAdds \in Nat
  /\ PipeCapacity \in Nat \ {0}

VARIABLES
  events,               \* per fd: FdContext::events
  context,              \* per fd and event: the task of its EventContext
  m_pendingEventCount,
  pipe,                 \* bytes in the tickle pipe
  tickles,              \* per thread: calls of tickle it has yet to make
  idlePc,               \* per worker: its position in idle()
  reported,             \* per worker and fd: real_events of a returned epoll_wait
  adds                  \* calls of addEvent so far

fdVars == <<events, context, m_pendingEventCount>>
ioVars == <<events, context, m_pendingEventCount, pipe, idlePc, reported, adds>>
vars == <<schedVars, ioVars, tickles>>

Threads == Workers \cup {Main}
AllEvents == {"READ", "WRITE"}
NoReport == [fd \in Fds |-> {}]

\* "check" and "pending": the two reads of stopping(); "wait": in epoll_wait;
\* "handle": in the loop over the reported events.
IOTypeOK ==
  /\ TypeOK
  /\ events \in [Fds -> SUBSET Events]
  /\ context \in [Fds -> [AllEvents -> Tasks \cup {NoTask}]]
  /\ m_pendingEventCount \in Nat
  /\ pipe \in 0 .. PipeCapacity
  /\ tickles \in [Threads -> Nat]
  /\ idlePc \in [Workers -> {"check", "pending", "wait", "handle"}]
  /\ reported \in [Workers -> [Fds -> SUBSET AllEvents]]
  /\ adds \in 0 .. MaxAdds

IOInit ==
  /\ Init
  /\ events = [fd \in Fds |-> {}]
  /\ context = [fd \in Fds |-> [e \in AllEvents |-> NoTask]]
  /\ m_pendingEventCount = 0
  /\ pipe = 0
  /\ tickles = [c \in Threads |-> 0]
  /\ idlePc = [w \in Workers |-> "check"]
  /\ reported = [w \in Workers |-> NoReport]
  /\ adds = 0

-----------------------------------------------------------------------------
(* tickle *)

\* The write end of the pipe is blocking: no step while the pipe is full.
tickle(c) ==
  /\ tickles[c] > 0
  /\ fault = "none"
  /\ tickles' = [tickles EXCEPT ![c] = @ - 1]
  /\ \/ m_idleThreadCount > 0 /\ pipe' = pipe
     \/ m_idleThreadCount = 0 /\ pipe < PipeCapacity /\ pipe' = pipe + 1
  /\ UNCHANGED <<schedVars, fdVars, idlePc, reported, adds>>

\* run() calls tickle after the lock when it passed over an entry bound to
\* another thread or left entries behind the one it took.
TickleMe(w) ==
  /\ pc[w] = "pick"
  /\ \/ \E i \in DOMAIN m_fibers :
          /\ \A j \in Takeable(w) : i < j
          /\ m_fibers[i].thread \notin {AnyThread, w}
     \/ \E i \in Takeable(w) : i < Len(m_fibers)

\* schedule calls tickle when the list was empty.
Tickled(c, more) ==
  tickles' = [tickles EXCEPT ![c] = @ + IF more THEN 1 ELSE 0]

ScheduledOnEmpty == m_fibers = <<>> /\ m_fibers' # <<>>

-----------------------------------------------------------------------------
(* The scheduler's own steps.  idle is replaced, the rest is inherited. *)

IORun(w) ==
  /\ tickles[w] = 0
  /\ RunStep(w) \/ TaskStep(w)
  /\ Tickled(w, TickleMe(w) \/ ScheduledOnEmpty)
  /\ UNCHANGED ioVars

IOMain ==
  /\ tickles[Main] = 0
  /\ \/ start
     \/ \E t \in Tasks, thread \in Targets : MainSchedule(t, thread) \/ MainResume(t, thread)
     \/ StopAuto
  /\ Tickled(Main, ScheduledOnEmpty)
  /\ UNCHANGED ioVars

\* stop() tickles once per worker before it joins them.
IOStop ==
  /\ tickles[Main] = 0
  /\ \/ StopFlag /\ tickles' = [tickles EXCEPT ![Main] = Cardinality(Workers)]
     \/ StopJoin /\ UNCHANGED tickles
  /\ UNCHANGED ioVars

-----------------------------------------------------------------------------
(* addEvent, delEvent, cancelEvent, cancelAll *)

\* Tasks call these, and the owner of the IOManager may cancel and delete.
MayCall(c) ==
  /\ tickles[c] = 0
  /\ IF c = Main THEN MainAt("running") ELSE At(c, "run")

unchangedSched == <<counts, flags, state, yielded, pc, cur, idleFiber>>

\* Task t is the callback, or the calling fiber itself, which must be EXEC.
\* Registering an event twice is an error of the caller (it asserts).
addEvent(w, fd, e, t) ==
  /\ MayCall(w)
  /\ adds < MaxAdds /\ adds' = adds + 1
  /\ e \notin events[fd]
  /\ t \notin scheduled \/ (Fibers /\ t = cur[w])
  /\ scheduled' = scheduled \cup {t}
  /\ events' = [events EXCEPT ![fd] = @ \cup {e}]
  /\ context' = [context EXCEPT ![fd][e] = t]
  /\ m_pendingEventCount' = m_pendingEventCount + 1
  /\ fault' = IF t = cur[w] /\ state[t] # "EXEC" THEN "assert" ELSE fault
  /\ UNCHANGED <<m_fibers, unchangedSched, resumed, early, pipe, tickles, idlePc, reported>>

\* Fault: the context keeps its task.
delEventKeepsContext(c, fd, e) ==
  /\ MayCall(c)
  /\ e \in events[fd]
  /\ events' = [events EXCEPT ![fd] = @ \ {e}]
  /\ m_pendingEventCount' = m_pendingEventCount - 1
  /\ UNCHANGED <<schedVars, context, pipe, tickles, idlePc, reported, adds>>

delEvent(c, fd, e) ==
  /\ MayCall(c)
  /\ e \in events[fd]
  /\ events' = [events EXCEPT ![fd] = @ \ {e}]
  /\ context' = [context EXCEPT ![fd][e] = NoTask]
  /\ m_pendingEventCount' = m_pendingEventCount - 1
  /\ UNCHANGED <<schedVars, pipe, tickles, idlePc, reported, adds>>

\* A fiber that waits for one of the events is still somewhere else, or waits
\* for both.  Callbacks have no fiber yet: that each is delivered once is up to
\* the IOManager alone.
TriggersEarly(fd, es) ==
  \E e \in es :
    LET t == context[fd][e] IN
    /\ state[t] # "INIT"
    /\ \/ InList(t) \/ InHand(t)
       \/ \E other \in es \ {e} : context[fd][other] = t

\* triggerEvent for each of the events es of fd, READ before WRITE: their
\* tasks go to the list and leave their contexts.
Entry(fd, e) == [task |-> context[fd][e], thread |-> AnyThread]

\* Fault: the event stays registered.
triggerEventsKeep(fd, es) ==
  /\ m_fibers' = m_fibers \o (IF "READ" \in es THEN <<Entry(fd, "READ")>> ELSE <<>>)
                          \o (IF "WRITE" \in es THEN <<Entry(fd, "WRITE")>> ELSE <<>>)
  /\ early' = (early \/ TriggersEarly(fd, es))
  /\ UNCHANGED <<unchangedSched, scheduled, resumed, events, context, pipe, idlePc, adds>>

triggerEvents(fd, es) ==
  /\ m_fibers' = m_fibers \o (IF "READ" \in es THEN <<Entry(fd, "READ")>> ELSE <<>>)
                          \o (IF "WRITE" \in es THEN <<Entry(fd, "WRITE")>> ELSE <<>>)
  /\ events' = [events EXCEPT ![fd] = @ \ es]
  /\ context' = [context EXCEPT ![fd] = [e \in AllEvents |-> IF e \in es THEN NoTask ELSE @[e]]]
  /\ early' = (early \/ TriggersEarly(fd, es))
  /\ UNCHANGED <<unchangedSched, scheduled, resumed, pipe, idlePc, adds>>

cancel(c, fd, es) ==
  /\ MayCall(c)
  /\ triggerEvents(fd, es)
  /\ m_pendingEventCount' = m_pendingEventCount - Cardinality(es)
  /\ Tickled(c, ScheduledOnEmpty)
  /\ UNCHANGED <<fault, reported>>

\* Fault: the event need not be registered.
cancelEventUnchecked(c, fd, e) == cancel(c, fd, {e})

cancelEvent(c, fd, e) == e \in events[fd] /\ cancel(c, fd, {e})

cancelAll(c, fd) == events[fd] # {} /\ cancel(c, fd, events[fd])

-----------------------------------------------------------------------------
(* idle(), and stopping() as it is called there *)

\* Fault: the number of pending events is not looked at.
StoppingAtOnce(w) ==
  /\ At(w, "idle") /\ idlePc[w] = "check"
  /\ IF stopping
     THEN /\ pc' = [pc EXCEPT ![w] = "unidle"]
          /\ idleFiber' = [idleFiber EXCEPT ![w] = "TERM"]
          /\ UNCHANGED idlePc
     ELSE /\ idlePc' = [idlePc EXCEPT ![w] = "wait"]
          /\ UNCHANGED <<pc, idleFiber>>
  /\ UNCHANGED <<m_fibers, counts, flags, tasks, cur, fault, fdVars, pipe, tickles, reported,
                  adds>>

\* Scheduler::stopping(), under the lock.
IdleCheck(w) ==
  /\ At(w, "idle") /\ idlePc[w] = "check"
  /\ idlePc' = [idlePc EXCEPT ![w] = IF stopping THEN "pending" ELSE "wait"]
  /\ UNCHANGED <<schedVars, fdVars, pipe, tickles, reported, adds>>

\* ... && m_pendingEventCount == 0, without it.
IdlePending(w) ==
  /\ At(w, "idle") /\ idlePc[w] = "pending"
  /\ IF m_pendingEventCount = 0
     THEN /\ pc' = [pc EXCEPT ![w] = "unidle"]
          /\ idleFiber' = [idleFiber EXCEPT ![w] = "TERM"]
          /\ idlePc' = [idlePc EXCEPT ![w] = "check"]
     ELSE /\ idlePc' = [idlePc EXCEPT ![w] = "wait"]
          /\ UNCHANGED <<pc, idleFiber>>
  /\ UNCHANGED <<m_fibers, counts, flags, tasks, cur, fault, fdVars, pipe, tickles, reported,
                  adds>>

\* What epoll_wait may report of fd, as the code reads it into real_events.
Reports(fd) ==
  SUBSET events[fd] \cup (IF Hangups /\ events[fd] # {} THEN {AllEvents} ELSE {})

\* Fault: epoll_wait has no timeout.
EpollWaitForever(w) ==
  /\ At(w, "idle") /\ idlePc[w] = "wait"
  /\ \E r \in [Fds -> SUBSET AllEvents] :
       /\ \A fd \in Fds : r[fd] \in Reports(fd)
       /\ r # NoReport \/ pipe > 0
       /\ reported' = [reported EXCEPT ![w] = r]
  /\ pipe' = 0
  /\ idlePc' = [idlePc EXCEPT ![w] = "handle"]
  /\ UNCHANGED <<schedVars, fdVars, tickles, adds>>

\* epoll_wait returns, at the latest after its timeout; a readable tickle
\* pipe is drained.
EpollWait(w) ==
  /\ At(w, "idle") /\ idlePc[w] = "wait"
  /\ \E r \in [Fds -> SUBSET AllEvents] :
       /\ \A fd \in Fds : r[fd] \in Reports(fd)
       /\ reported' = [reported EXCEPT ![w] = r]
  /\ pipe' = 0
  /\ idlePc' = [idlePc EXCEPT ![w] = "handle"]
  /\ UNCHANGED <<schedVars, fdVars, tickles, adds>>

\* Fault: the reported events are handled but not counted off.
HandleUncounted(w, fd) ==
  LET es == reported[w][fd] IN
  /\ At(w, "idle") /\ idlePc[w] = "handle"
  /\ es \cap events[fd] # {}
  /\ es \subseteq events[fd]
  /\ triggerEvents(fd, es)
  /\ reported' = [reported EXCEPT ![w][fd] = {}]
  /\ UNCHANGED <<fault, tickles, m_pendingEventCount>>

\* The events of one descriptor are triggered, under its mutex.  The calling
\* worker counts as idle, so tickle does nothing here.
HandleEvent(w, fd) ==
  LET es == reported[w][fd] IN
  /\ At(w, "idle") /\ idlePc[w] = "handle"
  /\ es \cap events[fd] # {}
  /\ es \subseteq events[fd]
  /\ triggerEvents(fd, es)
  /\ m_pendingEventCount' = m_pendingEventCount - Cardinality(es)
  /\ reported' = [reported EXCEPT ![w][fd] = {}]
  /\ UNCHANGED <<fault, tickles>>

\* Somebody else triggered or deleted them in the meantime.
HandleStale(w, fd) ==
  /\ At(w, "idle") /\ idlePc[w] = "handle"
  /\ reported[w][fd] # {}
  /\ reported[w][fd] \cap events[fd] = {}
  /\ reported' = [reported EXCEPT ![w][fd] = {}]
  /\ UNCHANGED <<schedVars, fdVars, pipe, tickles, idlePc, adds>>

\* Only some of the reported events are registered: real_events is not masked
\* with them, and triggerEvent asserts that the event is registered.
HandleFails(w, fd) ==
  LET es == reported[w][fd] IN
  /\ At(w, "idle") /\ idlePc[w] = "handle"
  /\ es \cap events[fd] # {} /\ ~(es \subseteq events[fd])
  /\ fault' = "assert"
  /\ UNCHANGED <<m_fibers, unchangedSched, known, ioVars, tickles>>

\* The loop is done: idle yields to run.
IdleYield(w) ==
  /\ idlePc[w] = "handle"
  /\ reported[w] = NoReport
  /\ Goto(w, "idle", "unidle")
  /\ idlePc' = [idlePc EXCEPT ![w] = "check"]
  /\ UNCHANGED <<m_fibers, counts, flags, tasks, cur, idleFiber, fault, fdVars, pipe, tickles,
                  reported, adds>>

-----------------------------------------------------------------------------
IOCall ==
  \/ \E w \in Workers, fd \in Fds, e \in Events, t \in Tasks : addEvent(w, fd, e, t)
  \/ \E c \in Threads, fd \in Fds, e \in Events : delEvent(c, fd, e) \/ cancelEvent(c, fd, e)
  \/ \E c \in Threads, fd \in Fds : cancelAll(c, fd)

idle(w) ==
  \/ IdleCheck(w) \/ IdlePending(w) \/ EpollWait(w) \/ IdleYield(w)
  \/ \E fd \in Fds : HandleEvent(w, fd) \/ HandleStale(w, fd) \/ HandleFails(w, fd)

IOWorker(w) == IORun(w) \/ idle(w) \/ tickle(w)

IONext ==
  \/ \E w \in Workers : IORun(w) \/ idle(w)
  \/ \E c \in Threads : tickle(c)
  \/ IOMain
  \/ IOStop
  \/ IOCall

IOSpec == IOInit /\ [][IONext]_vars

(* Threads keep running, and epoll_wait returns because of its timeout.    *)
(* No event is obliged to happen.                                          *)
IOFairness ==
  /\ \A w \in Workers : WF_vars(IOWorker(w))
  /\ WF_vars(IOStop \/ tickle(Main))

IOFairSpec == IOSpec /\ IOFairness

-----------------------------------------------------------------------------
(* Properties *)

Registered == {r \in Fds \X Events : r[2] \in events[r[1]]}

\* m_pendingEventCount, on which stopping() relies, is the number of events
\* registered over all descriptors.
PendingCountsRegistered ==
  fault = "none" => m_pendingEventCount = Cardinality(Registered)

\* A context holds a task exactly while its event is registered, so the
\* assertion of addEvent holds (its context is clean).
ContextMatchesEvents ==
  \A fd \in Fds, e \in AllEvents : context[fd][e] # NoTask <=> e \in events[fd]

\* A callback is delivered once: while it waits in a context it is in no other
\* context, not in the list and not running.
CallbackDeliveredOnce ==
  \A r \in Registered :
    LET t == context[r[1]][r[2]] IN
    state[t] = "INIT" =>
      /\ \A q \in Registered : context[q[1]][q[2]] = t => q = r
      /\ ~InList(t) /\ ~InHand(t)

\* Somebody is left to handle what is registered or listed: the last worker
\* does not leave before, although stopping() reads its two parts at different
\* times, so that stop() returns only when everything is done.
LastWorkerStays ==
  (\A w \in Workers : pc[w] = "exit") => m_fibers = <<>> /\ Registered = {}

\* The assertions of triggerEvent and of the fiber layer hold.
NoAssertFails == fault # "assert"

\* stop() returns if the registered events come to an end.
StopReturnsWithoutEvents ==
  <>[](m_pendingEventCount = 0) => StopReturns
=============================================================================
