---------------------------- MODULE Timer_proofs ----------------------------
(***************************************************************************)
(* Theorems about Timer.tla, for every set of timers, waiters and          *)
(* intervals.  Type correctness needs that no timer is due before its own  *)
(* interval (reset subtracts it).  NoTimerOverslept is made inductive by   *)
(* dropping the assumption that every waiter sleeps: as long as the clock  *)
(* has not been set back, either somebody is awake or about to be woken,   *)
(* or each timer is covered by a sleeper, and m_tickled is set only in the *)
(* first case.                                                             *)
(***************************************************************************)
EXTENDS Timer, TLAPS

\* The time a timer was started is not negative.
StartsInNat == \A t \in Timers : m_ms[t] <= m_next[t]

TInv == TypeOK /\ StartsInNat

LEMMA InitTInv == TimerInit => TInv
<1> SUFFICES ASSUME TimerInit PROVE TInv
  OBVIOUS
<1> USE TimerAssumption DEF TimerInit
<1>1. m_timers \subseteq created /\ created \subseteq Timers
  OBVIOUS
<1>2. m_next \in [Timers -> Nat] /\ m_ms \in [Timers -> Intervals \cup {0}] /\ StartsInNat
  BY DEF StartsInNat
<1>3. m_cb \in [Timers -> BOOLEAN]
  OBVIOUS
<1>4. m_tickled \in BOOLEAN /\ setBack \in BOOLEAN /\ wake \in BOOLEAN /\ crashed \in BOOLEAN
  OBVIOUS
<1>5. m_previouseTimer \in 0 .. MaxClock /\ clock \in 0 .. MaxClock /\ owed \in 0 .. Callers
  OBVIOUS
<1>6. wpc \in [Waiters -> {"next", "sleep", "expire", "locked"}]
  OBVIOUS
<1>7. timeout \in [Waiters -> Nat \cup {Forever}] /\ now_ms \in [Waiters -> 0 .. MaxClock]
  OBVIOUS
<1> QED
  BY <1>1, <1>2, <1>3, <1>4, <1>5, <1>6, <1>7 DEF TInv, TypeOK

LEMMA Numbers ==
  ASSUME TypeOK
  PROVE  /\ \A ms \in Intervals : ms \in Nat
         /\ \A t \in Timers : m_ms[t] \in Nat /\ m_next[t] \in Nat
         /\ \A w \in Waiters : now_ms[w] \in Nat
         /\ clock \in Nat
<1>1. \A ms \in Intervals \cup {0} : ms \in Nat
  BY TimerAssumption
<1>2. \A t \in Timers : m_ms[t] \in Intervals \cup {0} /\ m_next[t] \in Nat
  BY DEF TypeOK
<1>3. clock \in Nat /\ \A w \in Waiters : now_ms[w] \in Nat
  BY TimerAssumption DEF TypeOK
<1> QED
  BY <1>1, <1>2, <1>3

LEMMA NextTInv == TInv /\ [TimerNext]_tvars => TInv'
<1> SUFFICES ASSUME TInv, [TimerNext]_tvars PROVE TInv'
  OBVIOUS
<1> USE TimerAssumption
    DEF TInv, TypeOK, StartsInNat, timerVars, waiterVars, Forever, Goto, insert
<1>1. ASSUME NEW t \in Timers, NEW ms \in Intervals, NEW then \in Readings,
             addTimer(t, ms, then)
      PROVE  TInv'
  <2>1. then \in Nat /\ then + ms \in Nat /\ ms <= then + ms
    BY DEF Readings
  <2> QED
    BY <1>1, <2>1 DEF addTimer
<1>2. ASSUME NEW t \in Timers, cancel(t) PROVE TInv'
  BY <1>2 DEF cancel
<1>3. ASSUME NEW t \in Timers, refresh(t) PROVE TInv'
  <2>1. clock + m_ms[t] \in Nat /\ m_ms[t] <= clock + m_ms[t]
    BY Numbers
  <2> QED
    BY <1>3, <2>1 DEF refresh
<1>4. ASSUME NEW t \in Timers, NEW ms \in Intervals, NEW from_now \in BOOLEAN,
             reset(t, ms, from_now)
      PROVE  TInv'
  <2>1. /\ m_ms' = [m_ms EXCEPT ![t] = ms]
        /\ m_next' = [m_next EXCEPT ![t] = (IF from_now THEN clock ELSE @ - m_ms[t]) + ms]
        /\ m_cb' = m_cb /\ created' = created
        /\ m_timers' \subseteq created' /\ created' \subseteq Timers
    BY <1>4 DEF reset
  <2>2. /\ m_tickled' \in BOOLEAN /\ owed' \in 0 .. Callers
        /\ UNCHANGED <<m_previouseTimer, clock, setBack, wake, wpc, timeout, now_ms, crashed>>
    BY <1>4 DEF reset
  <2>3. /\ ms \in Nat /\ clock \in Nat /\ m_ms[t] <= m_next[t]
        /\ m_ms[t] \in Nat /\ m_next[t] \in Nat
    BY Numbers
  <2>4. m_ms' \in [Timers -> Intervals \cup {0}] /\ m_next' \in [Timers -> Nat]
    BY <2>1, <2>3
  <2>5. StartsInNat'
    BY <2>1, <2>3
  <2> QED
    BY <2>1, <2>2, <2>4, <2>5
<1>5. ASSUME onTimerInsertedAtFront PROVE TInv'
  BY <1>5 DEF onTimerInsertedAtFront
<1>6. ASSUME NEW w \in Waiters, getNextTime(w) PROVE TInv'
  <2>1. \E d \in Nat \cup {Forever} : timeout' = [timeout EXCEPT ![w] = d]
    <3>1. CASE timeout' = [timeout EXCEPT ![w] = Forever]
      BY <3>1
    <3>2. ASSUME NEW first \in m_timers,
                 timeout' = [timeout EXCEPT ![w] = IF clock >= m_next[first] THEN 0
                                                   ELSE m_next[first] - clock]
          PROVE  \E d \in Nat \cup {Forever} : timeout' = [timeout EXCEPT ![w] = d]
      <4> DEFINE d == IF clock >= m_next[first] THEN 0 ELSE m_next[first] - clock
      <4>1. d \in Nat
        OBVIOUS
      <4> QED
        BY <3>2, <4>1
    <3> QED
      BY <1>6, <3>1, <3>2 DEF getNextTime, SleepUntilFirst
  <2>2. timeout' \in [Waiters -> Nat \cup {Forever}]
    BY <2>1
  <2>3. /\ wpc' \in [Waiters -> {"next", "sleep", "expire", "locked"}]
        /\ m_tickled' \in BOOLEAN
        /\ UNCHANGED <<timerVars, m_previouseTimer, clock, setBack, owed, wake, now_ms, crashed>>
    BY <1>6 DEF getNextTime
  <2> QED
    BY <2>2, <2>3
<1>7. ASSUME NEW w \in Waiters, WakeUp(w) PROVE TInv'
  BY <1>7 DEF WakeUp
<1>8. ASSUME NEW w \in Waiters, ListExpiredCheck(w) PROVE TInv'
  BY <1>8 DEF ListExpiredCheck
<1>9. ASSUME NEW w \in Waiters, listExpiredCb(w) PROVE TInv'
  <2> DEFINE expired == Expired(now_ms[w])
             again == expired \cap Recurring
  <2>1. /\ wpc' \in [Waiters -> {"next", "sleep", "expire", "locked"}]
        /\ now_ms' \in [Waiters -> 0 .. MaxClock]
        /\ m_previouseTimer' \in 0 .. MaxClock
        /\ crashed' \in BOOLEAN
        /\ m_timers' \subseteq created' /\ created' \subseteq Timers
        /\ m_cb' \in [Timers -> BOOLEAN]
        /\ UNCHANGED <<m_ms, m_tickled, clock, setBack, owed, wake, timeout>>
    BY <1>9 DEF listExpiredCb
  <2>2. m_next' = [t \in Timers |-> IF t \in again THEN now_ms[w] + m_ms[t] ELSE m_next[t]]
    BY <1>9 DEF listExpiredCb
  <2>3. /\ now_ms[w] \in Nat
        /\ \A t \in Timers : m_ms[t] \in Nat /\ m_next[t] \in Nat /\ m_ms[t] <= m_next[t]
    BY Numbers
  <2> HIDE DEF again
  <2>4. m_next' \in [Timers -> Nat] /\ \A t \in Timers : m_ms[t] <= m_next'[t]
    BY <2>2, <2>3
  <2> QED
    BY <2>1, <2>4
<1>10. ASSUME Tick PROVE TInv'
  BY <1>10 DEF Tick
<1>11. ASSUME SetClockBack PROVE TInv'
  BY <1>11 DEF SetClockBack
<1>12. ASSUME UNCHANGED tvars PROVE TInv'
  BY <1>12 DEF tvars
<1> QED
  BY <1>1, <1>2, <1>3, <1>4, <1>5, <1>6, <1>7, <1>8, <1>9, <1>10, <1>11, <1>12
     DEF TimerNext, WaiterStep

\* Every variable stays in its type, for any constants: in particular no time
\* computed by reset is negative.
THEOREM TypeCorrect == TimerSpec => []TypeOK
<1>1. TInv => TypeOK
  BY DEF TInv
<1> QED
  BY <1>1, InitTInv, NextTInv, PTL DEF TimerSpec

-----------------------------------------------------------------------------
(* Callbacks and the set of timers *)

LEMMA InitListed == TimerInit => CallbackIffListed
  BY DEF TimerInit, CallbackIffListed

LEMMA NextListed == TypeOK /\ CallbackIffListed /\ [TimerNext]_tvars => CallbackIffListed'
<1> SUFFICES ASSUME TypeOK, CallbackIffListed, [TimerNext]_tvars PROVE CallbackIffListed'
  OBVIOUS
<1> USE DEF TypeOK, CallbackIffListed, timerVars, waiterVars, insert
<1>1. ASSUME NEW t \in Timers, NEW ms \in Intervals, NEW then \in Readings, addTimer(t, ms, then)
      PROVE  CallbackIffListed'
  BY <1>1 DEF addTimer
<1>2. ASSUME NEW t \in Timers, cancel(t) PROVE CallbackIffListed'
  BY <1>2 DEF cancel
<1>3. ASSUME NEW t \in Timers, NEW ms \in Intervals, NEW from_now \in BOOLEAN,
             reset(t, ms, from_now)
      PROVE  CallbackIffListed'
  BY <1>3 DEF reset
<1>4. ASSUME NEW w \in Waiters, listExpiredCb(w) PROVE CallbackIffListed'
  BY <1>4 DEF listExpiredCb, Expired
<1>5. ASSUME UNCHANGED <<m_timers, m_cb>> PROVE CallbackIffListed'
  BY <1>5
<1> QED
  BY <1>1, <1>2, <1>3, <1>4, <1>5
     DEF TimerNext, WaiterStep, refresh, onTimerInsertedAtFront, getNextTime, WakeUp,
         ListExpiredCheck, Tick, SetClockBack, tvars

\* A timer has its callback exactly while it is in the set, so what cancel
\* erases is always found.
THEOREM CancelFindsItsTimer == TimerSpec => []CallbackIffListed
  BY TypeCorrect, InitListed, NextListed, PTL DEF TimerSpec

LEMMA NextDead ==
  TypeOK /\ CallbackIffListed /\ [TimerNext]_tvars =>
    [\A t \in created : ~m_cb[t] => ~m_cb'[t] /\ t \notin m_timers']_tvars
<1> SUFFICES ASSUME TypeOK, CallbackIffListed, TimerNext, NEW u \in created, ~m_cb[u]
             PROVE  ~m_cb'[u] /\ u \notin m_timers'
  OBVIOUS
<1> USE DEF TypeOK, CallbackIffListed, timerVars, waiterVars, insert
<1>1. ASSUME NEW t \in Timers, NEW ms \in Intervals, NEW then \in Readings, addTimer(t, ms, then)
      PROVE  ~m_cb'[u] /\ u \notin m_timers'
  BY <1>1 DEF addTimer
<1>2. ASSUME NEW t \in Timers, cancel(t) PROVE ~m_cb'[u] /\ u \notin m_timers'
  BY <1>2 DEF cancel
<1>3. ASSUME NEW t \in Timers, NEW ms \in Intervals, NEW from_now \in BOOLEAN,
             reset(t, ms, from_now)
      PROVE  ~m_cb'[u] /\ u \notin m_timers'
  BY <1>3 DEF reset
<1>4. ASSUME NEW w \in Waiters, listExpiredCb(w) PROVE ~m_cb'[u] /\ u \notin m_timers'
  BY <1>4 DEF listExpiredCb
<1>5. ASSUME UNCHANGED <<m_timers, m_cb>> PROVE ~m_cb'[u] /\ u \notin m_timers'
  BY <1>5
<1> QED
  BY <1>1, <1>2, <1>3, <1>4, <1>5
     DEF TimerNext, WaiterStep, refresh, onTimerInsertedAtFront, getNextTime, WakeUp,
         ListExpiredCheck, Tick, SetClockBack

\* A timer that was cancelled, or has fired for good, is not set again by any
\* refresh, reset or expiry.
THEOREM DeadForGood == TimerSpec => DeadTimersStayDead
<1>1. TimerSpec => [][\A t \in created : ~m_cb[t] => ~m_cb'[t] /\ t \notin m_timers']_tvars
  BY TypeCorrect, CancelFindsItsTimer, NextDead, PTL DEF TimerSpec
<1> QED
  BY <1>1 DEF DeadTimersStayDead

-----------------------------------------------------------------------------
(* Sleeping                                                                *)

\* Some waiter is awake, or a wake-up is on its way.
Awake == (\E w \in Waiters : wpc[w] # "sleep") \/ wake \/ owed > 0

\* If waiter w sleeps it wakes by the time that t is due (or now, when t is
\* overdue).
CoveredBy(w, t) ==
  /\ timeout[w] # Forever
  /\ clock + timeout[w] <= m_next[t] \/ timeout[w] = 0

Covered(t) == \E w \in Waiters : CoveredBy(w, t)

Asleep == \A t \in m_timers : Covered(t)

\* Times that were read from the clock are not ahead of it.
ClockIsLatest ==
  /\ \A t \in m_timers : m_next[t] <= clock + m_ms[t]
  /\ \A w \in Waiters : wpc[w] = "locked" => now_ms[w] <= clock

SInv ==
  /\ m_tickled => Awake
  /\ ~setBack => ClockIsLatest /\ (Awake \/ Asleep)

LEMMA InitSInv == TimerInit => SInv
  BY DEF TimerInit, SInv, ClockIsLatest, Asleep

LEMMA ClockIsLatestKept ==
  ASSUME TInv, [TimerNext]_tvars, ~setBack', ~setBack => ClockIsLatest
  PROVE  ClockIsLatest'
<1> USE DEF TInv, ClockIsLatest, timerVars, waiterVars, Goto
<1>0. ~setBack => ClockIsLatest
  OBVIOUS
<1>1. ASSUME NEW t \in Timers, NEW ms \in Intervals, NEW then \in Readings,
             addTimer(t, ms, then)
      PROVE  ClockIsLatest'
  <2>1. clock' = clock /\ m_next'[t] = then + ms /\ m_ms'[t] = ms
    BY <1>1 DEF addTimer, TypeOK
  <2>2. \A u \in Timers \ {t} : m_next'[u] = m_next[u] /\ m_ms'[u] = m_ms[u]
    BY <1>1 DEF addTimer, TypeOK
  <2>3. m_timers' = m_timers \cup {t} /\ UNCHANGED <<wpc, now_ms, setBack>> /\ m_timers \subseteq Timers
    BY <1>1 DEF addTimer, insert, TypeOK
  <2>4. ~setBack /\ then <= clock /\ then \in Int
    BY <2>3, TimerAssumption DEF Readings, TypeOK
  <2>5. then + ms <= clock + ms
    BY <2>4, Numbers
  <2> QED
    BY <2>1, <2>2, <2>3, <2>5
<1>2. ASSUME NEW t \in Timers, NEW ms \in Intervals, NEW from_now \in BOOLEAN,
             reset(t, ms, from_now)
      PROVE  ClockIsLatest'
  <2>1. clock' = clock /\ m_ms'[t] = ms
    BY <1>2 DEF reset, TypeOK
  <2>2. \A u \in Timers \ {t} : m_next'[u] = m_next[u] /\ m_ms'[u] = m_ms[u]
    BY <1>2 DEF reset, TypeOK
  <2>3. /\ m_timers' = m_timers /\ t \in m_timers /\ m_timers \subseteq Timers
        /\ UNCHANGED <<wpc, now_ms, setBack>>
    BY <1>2 DEF reset, insert, TypeOK
  <2>4. m_next'[t] = (IF from_now THEN clock ELSE m_next[t] - m_ms[t]) + ms
    BY <1>2 DEF reset, TypeOK
  <2>5. m_next[t] <= clock + m_ms[t]
    BY <2>3
  <2>6. m_next'[t] <= clock + ms
    BY <2>4, <2>5, Numbers
  <2> QED
    BY <2>1, <2>2, <2>3, <2>6
<1>3. ASSUME NEW t \in Timers, refresh(t) PROVE ClockIsLatest'
  <2>1. clock' = clock /\ m_next'[t] = clock + m_ms[t] /\ m_ms' = m_ms
    BY <1>3 DEF refresh, TypeOK
  <2>2. \A u \in Timers \ {t} : m_next'[u] = m_next[u]
    BY <1>3 DEF refresh, TypeOK
  <2>3. m_timers' = m_timers /\ UNCHANGED <<wpc, now_ms, setBack>> /\ m_timers \subseteq Timers
    BY <1>3 DEF refresh, TypeOK
  <2>4. clock + m_ms[t] <= clock + m_ms[t]
    BY Numbers
  <2> QED
    BY <2>1, <2>2, <2>3, <2>4
<1>4. ASSUME NEW w \in Waiters, listExpiredCb(w) PROVE ClockIsLatest'
  <2>1. /\ m_timers' \subseteq m_timers /\ m_ms' = m_ms /\ clock' = clock /\ setBack' = setBack
        /\ m_timers \subseteq Timers
    BY <1>4 DEF listExpiredCb, TypeOK
  <2>2. now_ms[w] <= clock
    BY <1>4, <2>1 DEF listExpiredCb
  <2>3. \A t \in Timers : m_next'[t] \in {m_next[t], now_ms[w] + m_ms[t]}
    BY <1>4 DEF listExpiredCb
  <2>4. \A t \in m_timers' : m_next'[t] <= clock + m_ms[t]
    BY <2>1, <2>2, <2>3, Numbers
  <2>5. \A v \in Waiters : wpc'[v] = "locked" => wpc[v] = "locked" /\ now_ms'[v] = now_ms[v]
    BY <1>4 DEF listExpiredCb, TypeOK
  <2> QED
    BY <2>1, <2>4, <2>5
<1>5. ASSUME NEW w \in Waiters, ListExpiredCheck(w) PROVE ClockIsLatest'
  <2>1. UNCHANGED <<m_timers, m_next, m_ms, clock, setBack>>
    BY <1>5 DEF ListExpiredCheck
  <2>2. \A v \in Waiters : wpc'[v] = "locked" =>
          now_ms'[v] = clock \/ (wpc[v] = "locked" /\ now_ms'[v] = now_ms[v])
    BY <1>5 DEF ListExpiredCheck, TypeOK
  <2>3. clock <= clock
    BY Numbers
  <2> QED
    BY <2>1, <2>2, <2>3
<1>6. ASSUME NEW w \in Waiters, getNextTime(w) \/ WakeUp(w) PROVE ClockIsLatest'
  <2>1. UNCHANGED <<m_timers, m_next, m_ms, clock, setBack, now_ms>>
    BY <1>6 DEF getNextTime, WakeUp
  <2>2. \A v \in Waiters : wpc'[v] = "locked" => wpc[v] = "locked"
    BY <1>6 DEF getNextTime, WakeUp, TypeOK
  <2> QED
    BY <2>1, <2>2
<1>7. ASSUME Tick PROVE ClockIsLatest'
  <2>1. UNCHANGED <<m_timers, m_next, m_ms, setBack, now_ms, wpc>> /\ clock' \in {clock, clock + 1}
        /\ m_timers \subseteq Timers
    BY <1>7 DEF Tick, TypeOK
  <2> QED
    BY <2>1, Numbers
<1>8. ASSUME UNCHANGED <<m_next, m_ms, clock, setBack, now_ms, wpc>>, m_timers' \subseteq m_timers
      PROVE  ClockIsLatest'
  BY <1>8
<1> QED
  BY <1>1, <1>2, <1>3, <1>4, <1>5, <1>6, <1>7, <1>8
     DEF TimerNext, WaiterStep, cancel, onTimerInsertedAtFront, SetClockBack, tvars

\* insert either owes a wake-up, or the timer it inserts is due no earlier
\* than another one.
LEMMA InsertIsCovered ==
  ASSUME TypeOK, NEW val \in Timers, insert(val),
         UNCHANGED <<wpc, wake, timeout, clock>>,
         \A t \in m_timers \ {val} : m_next'[t] = m_next[t],
         m_next'[val] \in Int,
         m_tickled => Awake,
         Awake \/ Asleep
  PROVE  (m_tickled' => Awake') /\ (Awake' \/ Asleep')
<1> USE DEF Awake, insert
<1>0. owed \in Nat
  BY TimerAssumption DEF TypeOK
<1>1. CASE owed' = owed + 1
  BY <1>0, <1>1
<1>2. CASE Awake
  BY <1>0, <1>2
<1>3. ASSUME owed' = owed, ~Awake PROVE (m_tickled' => Awake') /\ (Awake' \/ Asleep')
  <2>1. ~m_tickled
    BY <1>3
  <2>2. PICK at_front \in BOOLEAN :
          /\ ~at_front => \E t \in m_timers \ {val} : m_next[t] <= m_next'[val]
          /\ m_tickled' = (m_tickled \/ at_front)
          /\ owed' = IF at_front /\ ~m_tickled THEN owed + 1 ELSE owed
    BY DEF insert
  <2>3. ~at_front
    BY <1>0, <1>3, <2>1, <2>2
  <2>4. PICK t \in m_timers \ {val} : m_next[t] <= m_next'[val]
    BY <2>2, <2>3
  <2>5. PICK w \in Waiters : CoveredBy(w, t)
    BY <1>3 DEF Asleep, Covered
  <2>6. /\ timeout[w] \in Int /\ clock \in Int /\ m_next[t] \in Int
        /\ m_timers \subseteq Timers
    BY TimerAssumption DEF TypeOK, Forever
  <2>7. CoveredBy(w, val)'
    BY <2>4, <2>5, <2>6 DEF CoveredBy, Forever
  <2>8. \A u \in m_timers \ {val} : \A v \in Waiters : CoveredBy(v, u) => CoveredBy(v, u)'
    BY DEF CoveredBy, Forever
  <2>9. Asleep'
    BY <1>3, <2>7, <2>8 DEF Asleep, Covered
  <2> QED
    BY <2>1, <2>2, <2>3, <2>9
<1> QED
  BY <1>1, <1>2, <1>3

LEMMA SleepKept ==
  ASSUME TInv, [TimerNext]_tvars, ~setBack, ~setBack', ClockIsLatest,
         m_tickled => Awake, Awake \/ Asleep
  PROVE  Awake' \/ Asleep'
<1> USE DEF TInv
<1>1. ASSUME NEW t \in Timers, NEW ms \in Intervals, NEW then \in Readings,
             addTimer(t, ms, then)
      PROVE  Awake' \/ Asleep'
  <2>1. UNCHANGED <<wpc, wake, timeout, clock>> /\ insert(t)
    BY <1>1 DEF addTimer, waiterVars
  <2>2. \A u \in m_timers \ {t} : m_next'[u] = m_next[u]
    BY <1>1 DEF addTimer, TypeOK
  <2>3. m_next'[t] = then + ms /\ then \in Int
    BY <1>1, TimerAssumption DEF addTimer, TypeOK, Readings
  <2>4. m_next'[t] \in Int
    BY <2>3, Numbers
  <2> QED
    BY <2>1, <2>2, <2>4, InsertIsCovered
<1>2. ASSUME NEW t \in Timers, NEW ms \in Intervals, NEW from_now \in BOOLEAN,
             reset(t, ms, from_now)
      PROVE  Awake' \/ Asleep'
  <2>1. UNCHANGED <<wpc, wake, timeout, clock>> /\ insert(t)
    BY <1>2 DEF reset, waiterVars
  <2>2. \A u \in m_timers \ {t} : m_next'[u] = m_next[u]
    BY <1>2 DEF reset, TypeOK
  <2>3. m_next'[t] = (IF from_now THEN clock ELSE m_next[t] - m_ms[t]) + ms
    BY <1>2 DEF reset, TypeOK
  <2>4. m_next'[t] \in Int
    BY <2>3, Numbers
  <2> QED
    BY <2>1, <2>2, <2>4, InsertIsCovered
<1>3. ASSUME NEW t \in Timers, refresh(t) PROVE Awake' \/ Asleep'
  <2>1. /\ UNCHANGED <<wpc, wake, owed, timeout, clock, m_timers>>
        /\ t \in m_timers /\ m_next'[t] = clock + m_ms[t] /\ m_timers \subseteq Timers
    BY <1>3 DEF refresh, waiterVars, TypeOK
  <2>2. \A u \in Timers \ {t} : m_next'[u] = m_next[u]
    BY <1>3 DEF refresh, TypeOK
  <2>3. \A u \in m_timers : m_next[u] <= m_next'[u]
    BY <2>1, <2>2, Numbers DEF ClockIsLatest
  <2>4. \A u \in m_timers, v \in Waiters : CoveredBy(v, u) => CoveredBy(v, u)'
    <3> SUFFICES ASSUME NEW u \in m_timers, NEW v \in Waiters, CoveredBy(v, u)
                 PROVE  CoveredBy(v, u)'
      OBVIOUS
    <3>1. m_next'[u] \in Int /\ m_next[u] \in Int /\ clock \in Int /\ timeout[v] \in Int
      BY <2>1, <2>2, Numbers, TimerAssumption DEF TypeOK, Forever
    <3> QED
      BY <2>1, <2>3, <3>1 DEF CoveredBy, Forever
  <2> QED
    BY <2>1, <2>4 DEF Awake, Asleep, Covered
<1>4. ASSUME NEW t \in Timers, cancel(t) PROVE Awake' \/ Asleep'
  <2>1. UNCHANGED <<wpc, wake, owed, timeout, clock, m_next>> /\ m_timers' \subseteq m_timers
    BY <1>4 DEF cancel, waiterVars
  <2> QED
    BY <2>1 DEF Awake, Asleep, Covered, CoveredBy, Forever
<1>5. ASSUME onTimerInsertedAtFront PROVE Awake' \/ Asleep'
  BY <1>5 DEF onTimerInsertedAtFront, Awake
<1>6. ASSUME NEW w \in Waiters, getNextTime(w) PROVE Awake' \/ Asleep'
  <2>1. UNCHANGED <<clock, m_next, m_timers>> /\ SleepUntilFirst(w)
    BY <1>6 DEF getNextTime, timerVars
  <2>2. CASE m_timers = {}
    BY <2>1, <2>2 DEF Asleep
  <2>3. ASSUME NEW first \in m_timers,
               \A t \in m_timers : m_next[first] <= m_next[t],
               timeout' = [timeout EXCEPT ![w] = IF clock >= m_next[first] THEN 0
                                                 ELSE m_next[first] - clock]
        PROVE  Asleep'
    <3>1. timeout'[w] = IF clock >= m_next[first] THEN 0 ELSE m_next[first] - clock
      BY <2>3 DEF TypeOK
    <3>2. clock \in Nat /\ \A t \in m_timers : m_next[t] \in Nat
      BY Numbers DEF TypeOK
    <3>3. \A t \in m_timers : CoveredBy(w, t)'
      BY <2>1, <2>3, <3>1, <3>2 DEF CoveredBy, Forever
    <3> QED
      BY <2>1, <3>3 DEF Asleep, Covered
  <2> QED
    BY <2>1, <2>2, <2>3 DEF SleepUntilFirst
<1>7. ASSUME NEW w \in Waiters, WakeUp(w) \/ ListExpiredCheck(w) \/ listExpiredCb(w)
      PROVE  Awake'
  <2>1. wpc'[w] # "sleep"
    BY <1>7 DEF WakeUp, ListExpiredCheck, listExpiredCb, Goto, TypeOK
  <2> QED
    BY <2>1 DEF Awake
<1>8. ASSUME Tick PROVE Awake' \/ Asleep'
  <2>1. UNCHANGED <<wpc, wake, owed, m_next, m_timers>> /\ clock' \in {clock, clock + 1}
    BY <1>8 DEF Tick, timerVars
  <2>2. CASE Awake
    BY <2>1, <2>2 DEF Awake
  <2>3. ASSUME Asleep, \A w \in Waiters : wpc[w] = "sleep" PROVE Asleep'
    <3>1. \A w \in Waiters : timeout'[w] = IF timeout[w] > 0 THEN timeout[w] - 1 ELSE timeout[w]
      BY <1>8, <2>3 DEF Tick
    <3> SUFFICES ASSUME NEW t \in m_timers, NEW w \in Waiters, CoveredBy(w, t)
                 PROVE  CoveredBy(w, t)'
      BY <2>1, <2>3 DEF Asleep, Covered
    <3>2. timeout[w] \in Nat /\ clock \in Nat /\ m_next[t] \in Nat
      BY Numbers DEF TypeOK, CoveredBy
    <3> QED
      BY <2>1, <3>1, <3>2 DEF CoveredBy, Forever
  <2> QED
    BY <2>2, <2>3 DEF Awake
<1>9. ASSUME UNCHANGED tvars PROVE Awake' \/ Asleep'
  BY <1>9 DEF tvars, Awake, Asleep, Covered, CoveredBy
<1> QED
  BY <1>1, <1>2, <1>3, <1>4, <1>5, <1>6, <1>7, <1>8, <1>9 DEF TimerNext, WaiterStep, SetClockBack

\* m_tickled is set only when somebody is going to look at the timers again.
LEMMA TickledKept ==
  ASSUME TInv, [TimerNext]_tvars, m_tickled => Awake
  PROVE  m_tickled' => Awake'
<1> USE DEF TInv, Awake
<1>0. owed \in Nat
  BY TimerAssumption DEF TypeOK
<1>1. ASSUME NEW t \in Timers, insert(t), UNCHANGED <<wpc, wake>>
      PROVE  m_tickled' => Awake'
  BY <1>0, <1>1 DEF insert
<1>2. ASSUME NEW w \in Waiters, getNextTime(w) PROVE ~m_tickled'
  BY <1>2 DEF getNextTime
<1>3. ASSUME NEW w \in Waiters, WakeUp(w) \/ ListExpiredCheck(w) \/ listExpiredCb(w)
      PROVE  Awake'
  <2>1. wpc'[w] # "sleep"
    BY <1>3 DEF WakeUp, ListExpiredCheck, listExpiredCb, Goto, TypeOK
  <2> QED
    BY <2>1
<1>4. ASSUME onTimerInsertedAtFront PROVE Awake'
  BY <1>4 DEF onTimerInsertedAtFront
<1>5. ASSUME UNCHANGED <<m_tickled, wpc, wake, owed>> PROVE m_tickled' => Awake'
  BY <1>5
<1> QED
  BY <1>1, <1>2, <1>3, <1>4, <1>5
     DEF TimerNext, WaiterStep, addTimer, reset, refresh, cancel, Tick, SetClockBack, waiterVars, tvars

LEMMA NextSInv == TInv /\ SInv /\ [TimerNext]_tvars => SInv'
<1> SUFFICES ASSUME TInv, SInv, [TimerNext]_tvars PROVE SInv'
  OBVIOUS
<1>1. m_tickled' => Awake'
  BY TickledKept DEF SInv
<1>2. ASSUME ~setBack' PROVE ~setBack
  BY <1>2
     DEF TimerNext, WaiterStep, addTimer, reset, refresh, cancel, onTimerInsertedAtFront, getNextTime,
         WakeUp, ListExpiredCheck, listExpiredCb, Tick, SetClockBack, tvars
<1>3. ASSUME ~setBack' PROVE ClockIsLatest'
  BY <1>2, <1>3, ClockIsLatestKept DEF SInv
<1>4. ASSUME ~setBack' PROVE Awake' \/ Asleep'
  BY <1>2, <1>4, SleepKept DEF SInv
<1> QED
  BY <1>1, <1>3, <1>4 DEF SInv

LEMMA SInvImpliesNoTimerOverslept == TInv /\ SInv => NoTimerOverslept
<1> SUFFICES ASSUME TInv, SInv, \A w \in Waiters : wpc[w] = "sleep", ~wake, owed = 0, ~setBack,
                    NEW t \in m_timers
             PROVE  \E w \in Waiters :
                      timeout[w] # Forever
                      /\ clock + timeout[w] <= (IF m_next[t] < clock THEN clock ELSE m_next[t])
  BY DEF NoTimerOverslept
<1>1. PICK w \in Waiters : CoveredBy(w, t)
  BY DEF SInv, Awake, Asleep, Covered
<1>2. clock \in Nat /\ m_next[t] \in Nat /\ timeout[w] \in Int
  BY Numbers DEF TInv, TypeOK, Forever
<1> QED
  BY <1>1, <1>2 DEF CoveredBy

\* As long as the system time is not set back, m_tickled never suppresses a
\* notification that a sleeping waiter needs to be in time.
THEOREM NobodyOversleeps == TimerSpec => []NoTimerOverslept
  BY InitTInv, NextTInv, InitSInv, NextSInv, SInvImpliesNoTimerOverslept, PTL DEF TimerSpec
=============================================================================
