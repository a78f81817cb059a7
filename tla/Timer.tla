------------------------------- MODULE Timer -------------------------------
(***************************************************************************)
(* classes Timer and TimerManager (timer/timer.h, timer.cpp): timers in a  *)
(* set ordered by the time they are due.                                   *)
(*                                                                         *)
(* Every operation runs under the write lock and is one step, except that  *)
(* onTimerInsertedAtFront is called after the lock is released (owed) and  *)
(* that listExpiredCb reads the clock and looks for an empty set before it *)
(* takes the write lock ("expire", then "locked"), as a timer's            *)
(* constructor reads the clock some time before it is inserted.            *)
(*                                                                         *)
(* TimerManager is abstract and nothing in the repository derives from it. *)
(* The waiters are modelled from its interface: they ask getNextTime how   *)
(* long to sleep, sleep that long or until onTimerInsertedAtFront wakes    *)
(* them, and call listExpiredCb.  A wake-up that comes before the waiter   *)
(* sleeps is remembered, as by a pipe in an epoll set.                     *)
(***************************************************************************)
EXTENDS Integers

CONSTANTS
  Timers,      \* the timers that may be created
  Recurring,   \* those created with recurring=true
  Waiters,     \* threads that wait for timers
  Callers,     \* how many threads call addTimer and reset at a time
  Intervals,   \* the values of ms
  Hour,        \* the 60*60*1000 ms of detectClockRollover
  MaxClock     \* bound: the clock stops there

ASSUME TimerAssumption ==
  /\ Recurring \subseteq Timers
  /\ Intervals \subseteq Nat
  /\ Callers \in Nat \ {0}
  /\ MaxClock \in Nat /\ Hour \in 0 .. MaxClock

VARIABLES
  m_timers,          \* the set of the manager
  m_next, m_ms,      \* per timer
  m_cb,              \* per timer: TRUE while its callback is not null
  m_tickled,
  m_previouseTimer,
  created,           \* timers that exist
  clock,             \* GetCurrentMS()
  setBack,           \* the system time has been set back
  owed,              \* calls of onTimerInsertedAtFront about to be made
  wake,              \* a wake-up no waiter has consumed
  wpc,               \* per waiter: "next", "sleep", "expire", "locked"
  timeout,           \* per waiter: time it still sleeps; Forever if no timer
  now_ms,            \* per waiter: the local variable of listExpiredCb
  crashed            \* listExpiredCb has dereferenced begin() of an empty set

tvars == <<m_timers, m_next, m_ms, m_cb, m_tickled, m_previouseTimer, created, clock, setBack,
          owed, wake, wpc, timeout, now_ms, crashed>>
timerVars == <<m_timers, m_next, m_ms, m_cb, created>>
waiterVars == <<wpc, timeout, now_ms>>

Forever == 0 - 1     \* ~0ull

TypeOK ==
  /\ m_timers \subseteq created /\ created \subseteq Timers
  /\ m_next \in [Timers -> Nat] /\ m_ms \in [Timers -> Intervals \cup {0}]
  /\ m_cb \in [Timers -> BOOLEAN]
  /\ m_tickled \in BOOLEAN /\ setBack \in BOOLEAN /\ wake \in BOOLEAN /\ crashed \in BOOLEAN
  /\ m_previouseTimer \in 0 .. MaxClock /\ clock \in 0 .. MaxClock
  /\ owed \in 0 .. Callers
  /\ wpc \in [Waiters -> {"next", "sleep", "expire", "locked"}]
  /\ timeout \in [Waiters -> Nat \cup {Forever}]
  /\ now_ms \in [Waiters -> 0 .. MaxClock]

TimerInit ==
  /\ m_timers = {} /\ created = {}
  /\ m_next = [t \in Timers |-> 0] /\ m_ms = [t \in Timers |-> 0]
  /\ m_cb = [t \in Timers |-> FALSE]
  /\ m_tickled = FALSE
  /\ clock = Hour /\ m_previouseTimer = clock
  /\ setBack = FALSE /\ owed = 0 /\ wake = FALSE /\ crashed = FALSE
  /\ wpc = [w \in Waiters |-> "next"]
  /\ timeout = [w \in Waiters |-> 0]
  /\ now_ms = [w \in Waiters |-> 0]

-----------------------------------------------------------------------------
(* The operations on timers, by any thread *)

\* TimerManager::addTimer(val, lock), m_next' being set: the new front is made
\* known unless that has been done since getNextTime.  Of two timers due at
\* the same time either may be the first (the set compares addresses).
insert(val) ==
  /\ owed < Callers
  /\ m_timers' = m_timers \cup {val}
  /\ \E at_front \in BOOLEAN :
       /\ at_front => \A t \in m_timers \ {val} : m_next'[val] <= m_next[t]
       /\ ~at_front => \E t \in m_timers \ {val} : m_next[t] <= m_next'[val]
       /\ m_tickled' = (m_tickled \/ at_front)
       /\ owed' = IF at_front /\ ~m_tickled THEN owed + 1 ELSE owed

\* What the clock may have shown since the manager was constructed.
Readings == IF setBack THEN 0 .. MaxClock ELSE Hour .. clock

\* The timer's constructor reads the clock, then, before the write lock is taken.
addTimer(t, ms, then) ==
  /\ t \notin created
  /\ created' = created \cup {t}
  /\ m_cb' = [m_cb EXCEPT ![t] = TRUE]
  /\ m_ms' = [m_ms EXCEPT ![t] = ms]
  /\ m_next' = [m_next EXCEPT ![t] = then + ms]
  /\ insert(t)
  /\ UNCHANGED <<m_previouseTimer, clock, setBack, wake, waiterVars, crashed>>

\* Fault: the callback is kept.
cancelKeepsCb(t) ==
  /\ m_cb[t]
  /\ m_timers' = m_timers \ {t}
  /\ UNCHANGED <<m_next, m_ms, m_cb, created, m_tickled, m_previouseTimer, clock, setBack, owed, wake,
                 waiterVars, crashed>>

cancel(t) ==
  /\ m_cb[t]
  /\ m_cb' = [m_cb EXCEPT ![t] = FALSE]
  /\ m_timers' = m_timers \ {t}
  /\ UNCHANGED <<m_next, m_ms, created, m_tickled, m_previouseTimer, clock, setBack, owed, wake,
                 waiterVars, crashed>>

\* refresh inserts into the set itself and tells nobody.
refresh(t) ==
  /\ m_cb[t] /\ t \in m_timers
  /\ m_next' = [m_next EXCEPT ![t] = clock + m_ms[t]]
  /\ UNCHANGED <<m_timers, m_ms, m_cb, created, m_tickled, m_previouseTimer, clock, setBack, owed,
                 wake, waiterVars, crashed>>

\* Fault: a timer without a callback is set again.
resetDead(t, ms, from_now) ==
  /\ t \in created
  /\ ~(ms = m_ms[t] /\ ~from_now)
  /\ m_ms' = [m_ms EXCEPT ![t] = ms]
  /\ m_next' = [m_next EXCEPT ![t] = (IF from_now THEN clock ELSE @ - m_ms[t]) + ms]
  /\ insert(t)
  /\ UNCHANGED <<m_cb, created, m_previouseTimer, clock, setBack, wake, waiterVars, crashed>>

\* Fault: the old start is not read from m_next.
resetFromZero(t, ms, from_now) ==
  /\ ~(ms = m_ms[t] /\ ~from_now)
  /\ m_cb[t] /\ t \in m_timers
  /\ m_ms' = [m_ms EXCEPT ![t] = ms]
  /\ m_next' = [m_next EXCEPT ![t] = (IF from_now THEN clock ELSE 0 - m_ms[t]) + ms]
  /\ insert(t)
  /\ UNCHANGED <<m_cb, created, m_previouseTimer, clock, setBack, wake, waiterVars, crashed>>

reset(t, ms, from_now) ==
  /\ ~(ms = m_ms[t] /\ ~from_now)
  /\ m_cb[t] /\ t \in m_timers
  /\ m_ms' = [m_ms EXCEPT ![t] = ms]
  /\ m_next' = [m_next EXCEPT ![t] = (IF from_now THEN clock ELSE @ - m_ms[t]) + ms]
  /\ insert(t)
  /\ UNCHANGED <<m_cb, created, m_previouseTimer, clock, setBack, wake, waiterVars, crashed>>

onTimerInsertedAtFront ==
  /\ owed > 0
  /\ owed' = owed - 1
  /\ wake' = TRUE
  /\ UNCHANGED <<timerVars, m_tickled, m_previouseTimer, clock, setBack, waiterVars, crashed>>

-----------------------------------------------------------------------------
(* The waiters *)

Goto(w, from, to) ==
  /\ ~crashed
  /\ wpc[w] = from
  /\ wpc' = [wpc EXCEPT ![w] = to]

SleepUntilFirst(w) ==
  \/ m_timers = {} /\ timeout' = [timeout EXCEPT ![w] = Forever]
  \/ \E first \in m_timers :
       /\ \A t \in m_timers : m_next[first] <= m_next[t]
       /\ timeout' = [timeout EXCEPT ![w] = IF clock >= m_next[first] THEN 0
                                            ELSE m_next[first] - clock]

\* Fault: m_tickled is not cleared.
getNextTimeKeepsTickled(w) ==
  /\ Goto(w, "next", "sleep")
  /\ SleepUntilFirst(w)
  /\ UNCHANGED <<timerVars, m_tickled, m_previouseTimer, clock, setBack, owed, wake, now_ms, crashed>>

getNextTime(w) ==
  /\ Goto(w, "next", "sleep")
  /\ m_tickled' = FALSE
  /\ SleepUntilFirst(w)
  /\ UNCHANGED <<timerVars, m_previouseTimer, clock, setBack, owed, wake, now_ms, crashed>>

WakeUp(w) ==
  /\ timeout[w] = 0 \/ wake
  /\ Goto(w, "sleep", "expire")
  /\ wake' = (wake /\ timeout[w] = 0)
  /\ timeout' = [timeout EXCEPT ![w] = 0]
  /\ UNCHANGED <<timerVars, m_tickled, m_previouseTimer, clock, setBack, owed, now_ms, crashed>>

\* listExpiredCb reads the clock and, under the read lock, looks for timers.
ListExpiredCheck(w) ==
  /\ IF m_timers = {}
     THEN Goto(w, "expire", "next") /\ UNCHANGED now_ms
     ELSE Goto(w, "expire", "locked") /\ now_ms' = [now_ms EXCEPT ![w] = clock]
  /\ UNCHANGED <<timerVars, m_tickled, m_previouseTimer, clock, setBack, owed, wake, timeout, crashed>>

\* The subtraction of an hour is one of uint64_t: it wraps below an hour.
detectClockRollover(now) ==
  /\ now < m_previouseTimer
  /\ m_previouseTimer < Hour \/ now < m_previouseTimer - Hour

Expired(now) ==
  IF detectClockRollover(now) THEN m_timers ELSE {t \in m_timers : m_next[t] <= now}

\* Under the write lock: expired timers leave the set, recurring ones return.
listExpiredCb(w) ==
  LET now == now_ms[w]
      expired == Expired(now)
      again == expired \cap Recurring IN
  /\ Goto(w, "locked", "next")
  /\ now_ms' = [now_ms EXCEPT ![w] = 0]
  /\ m_previouseTimer' = now
  /\ crashed' = (m_timers = {} /\ ~detectClockRollover(now))
  /\ m_timers' = m_timers \ (expired \ again)
  /\ m_next' = [t \in Timers |-> IF t \in again THEN now + m_ms[t] ELSE m_next[t]]
  /\ m_cb' = [t \in Timers |-> m_cb[t] /\ t \notin expired \ again]
  /\ UNCHANGED <<m_ms, created, m_tickled, clock, setBack, owed, wake, timeout>>

-----------------------------------------------------------------------------
(* Time *)

\* Sleeps are relative and go on when the model's clock has reached its bound.
Tick ==
  /\ clock < MaxClock \/ \E w \in Waiters : wpc[w] = "sleep" /\ timeout[w] > 0
  /\ clock' = IF clock < MaxClock THEN clock + 1 ELSE clock
  /\ timeout' = [w \in Waiters |-> IF wpc[w] = "sleep" /\ timeout[w] > 0 THEN timeout[w] - 1
                                   ELSE timeout[w]]
  /\ UNCHANGED <<timerVars, m_tickled, m_previouseTimer, setBack, owed, wake, wpc, now_ms, crashed>>

\* The system time is set back, once.
SetClockBack ==
  /\ ~setBack /\ setBack' = TRUE
  /\ \E c \in 0 .. MaxClock : c < clock /\ clock' = c
  /\ UNCHANGED <<timerVars, m_tickled, m_previouseTimer, owed, wake, waiterVars, crashed>>

-----------------------------------------------------------------------------
WaiterStep(w) == getNextTime(w) \/ WakeUp(w) \/ ListExpiredCheck(w) \/ listExpiredCb(w)

TimerNext ==
  \/ \E w \in Waiters : WaiterStep(w)
  \/ onTimerInsertedAtFront
  \/ \E t \in Timers, ms \in Intervals, then \in Readings : addTimer(t, ms, then)
  \/ \E t \in Timers : cancel(t) \/ refresh(t)
  \/ \E t \in Timers, ms \in Intervals, from_now \in BOOLEAN : reset(t, ms, from_now)
  \/ Tick
  \/ SetClockBack

TimerSpec == TimerInit /\ [][TimerNext]_tvars

-----------------------------------------------------------------------------
(* Properties *)

\* cancel erases find(this) without looking at what it found: a timer that
\* still has its callback must be in the set, whichever thread expired it.
CallbackIffListed == \A t \in Timers : m_cb[t] <=> t \in m_timers

\* m_tickled never suppresses a wake-up that is needed: while no waiter is
\* awake and none is about to be woken, somebody wakes no later than the
\* first timer is due.
NoTimerOverslept ==
  (\A w \in Waiters : wpc[w] = "sleep") /\ ~wake /\ owed = 0 /\ ~setBack =>
    \A t \in m_timers : \E w \in Waiters :
      timeout[w] # Forever /\ clock + timeout[w] <= (IF m_next[t] < clock THEN clock ELSE m_next[t])

\* A timer that was cancelled, or has fired for good, never comes back.
DeadTimersStayDead ==
  [][\A t \in created : ~m_cb[t] => ~m_cb'[t] /\ t \notin m_timers']_tvars
=============================================================================
