-------------------------- MODULE IOManager_proofs --------------------------
(***************************************************************************)
(* Theorems about IOManager.tla, for every number of workers, tasks and    *)
(* descriptors, for callbacks and for fibers that wait for events, and for *)
(* every way in which tasks yield, unless a theorem says otherwise.        *)
(*                                                                         *)
(* The IOManager takes the scheduler's own steps, so the lemmas of         *)
(* Scheduler_proofs.tla are used for these; what is new are the steps of   *)
(* idle and the calls on descriptors.                                      *)
(***************************************************************************)
EXTENDS IOManager, Scheduler_proofs

-----------------------------------------------------------------------------
(* The registered events, counted *)

LEMMA RegisteredPairs ==
  /\ Registered \subseteq Fds \X Events
  /\ \A fd \in Fds, e \in Events : <<fd, e>> \in Registered <=> e \in events[fd]
  BY DEF Registered

LEMMA AddRegistered ==
  ASSUME events \in [Fds -> SUBSET Events], IsFiniteSet(Registered),
         NEW fd \in Fds, NEW e \in Events, e \notin events[fd],
         events' = [events EXCEPT ![fd] = @ \cup {e}]
  PROVE  /\ IsFiniteSet(Registered')
         /\ Cardinality(Registered') = Cardinality(Registered) + 1
<1>1. Registered' = Registered \cup {<<fd, e>>}
  BY DEF Registered
<1>2. <<fd, e>> \notin Registered
  BY RegisteredPairs
<1> QED
  BY <1>1, <1>2, FS_AddElement

LEMMA EventSets ==
  ASSUME NEW es \in SUBSET Events
  PROVE  IsFiniteSet(es) /\ Cardinality(es) \in Nat
<1>1. IsFiniteSet({"READ"} \cup {"WRITE"})
  BY FS_Singleton, FS_AddElement
<1>2. es \subseteq {"READ"} \cup {"WRITE"}
  BY IOAssumption
<1>3. IsFiniteSet(es)
  BY <1>1, <1>2, FS_Subset
<1> QED
  BY <1>3, FS_CardinalityType

LEMMA RemoveRegistered ==
  ASSUME events \in [Fds -> SUBSET Events], IsFiniteSet(Registered),
         NEW fd \in Fds, NEW es \in SUBSET events[fd],
         events' = [events EXCEPT ![fd] = @ \ es]
  PROVE  /\ IsFiniteSet(Registered')
         /\ Cardinality(Registered') = Cardinality(Registered) - Cardinality(es)
<1>1. es \in SUBSET Events
  OBVIOUS
<1>2. IsFiniteSet(es) /\ Cardinality(es) \in Nat
  BY <1>1, EventSets
<1>3. Registered' = Registered \ ({fd} \X es)
  BY <1>1 DEF Registered
<1>4. Registered \cap ({fd} \X es) = {fd} \X es
  BY <1>1 DEF Registered
<1>5. Cardinality({fd} \X es) = Cardinality(es)
  <2>1. IsFiniteSet({fd}) /\ Cardinality({fd}) = 1
    BY FS_Singleton
  <2> QED
    BY <1>2, <2>1, FS_Product
<1> DEFINE R == Registered
           T == {fd} \X es
<1> HIDE DEF R, T
<1>6. IsFiniteSet(R \ T) /\ Cardinality(R \ T) = Cardinality(R) - Cardinality(R \cap T)
  BY FS_Difference DEF R
<1> QED
  BY <1>3, <1>4, <1>5, <1>6 DEF R, T

-----------------------------------------------------------------------------
(* Types, contexts and the counter.  The three belong together: a context  *)
(* holds a task whenever its event is triggered, so what goes to the list  *)
(* is a task; and the counter stays a natural number only because it is    *)
(* the number of registered events.                                        *)

IOTypes ==
  /\ events \in [Fds -> SUBSET Events]
  /\ context \in [Fds -> [AllEvents -> Tasks \cup {NoTask}]]
  /\ pipe \in 0 .. PipeCapacity
  /\ tickles \in [Threads -> Nat]
  /\ idlePc \in [Workers -> {"check", "pending", "wait", "handle"}]
  /\ reported \in [Workers -> [Fds -> SUBSET AllEvents]]
  /\ adds \in 0 .. MaxAdds

CountRegistered == IsFiniteSet(Registered) /\ m_pendingEventCount = Cardinality(Registered)

IInv == CInv /\ IOTypes /\ ContextMatchesEvents /\ CountRegistered

LEMMA InitIInv == IOInit => IInv
<1> SUFFICES ASSUME IOInit PROVE IInv
  OBVIOUS
<1>1. CInv
  BY InitCInv DEF IOInit
<1>2. IOTypes
  BY IOAssumption DEF IOInit, IOTypes, NoReport
<1>3. ContextMatchesEvents
  BY DEF IOInit, ContextMatchesEvents
<1>4. Registered = {}
  BY DEF IOInit, Registered
<1>5. CountRegistered
  BY <1>4, FS_EmptySet DEF IOInit, CountRegistered
<1> QED
  BY <1>1, <1>2, <1>3, <1>5 DEF IInv

LEMMA ConcatTasks ==
  ASSUME NEW q \in Seq(TaskEntry), NEW r \in Seq(TaskEntry)
  PROVE  /\ q \o r \in Seq(TaskEntry)
         /\ \A u : (\E i \in DOMAIN (q \o r) : (q \o r)[i].task = u) <=>
                     \/ \E i \in DOMAIN q : q[i].task = u
                     \/ \E i \in DOMAIN r : r[i].task = u
<1> DEFINE s == q \o r
           m == Len(q)
           n == Len(r)
<1>1. /\ s \in Seq(TaskEntry) /\ Len(s) = m + n
      /\ \A i \in 1 .. m + n : s[i] = IF i <= m THEN q[i] ELSE r[i - m]
  BY ConcatProperties
<1>2. DOMAIN s = 1 .. m + n /\ DOMAIN q = 1 .. m /\ DOMAIN r = 1 .. n /\ m \in Nat /\ n \in Nat
  BY <1>1
<1>3. s = q \o r
  OBVIOUS
<1> HIDE DEF s, m, n
<1> SUFFICES ASSUME NEW u
             PROVE  (\E i \in 1 .. m + n : s[i].task = u) <=>
                      \/ \E i \in 1 .. m : q[i].task = u
                      \/ \E i \in 1 .. n : r[i].task = u
  BY <1>1, <1>2, <1>3
<1>4. ASSUME NEW i \in 1 .. m PROVE i \in 1 .. m + n /\ s[i] = q[i]
  BY <1>1, <1>2
<1>5. ASSUME NEW i \in 1 .. n PROVE m + i \in 1 .. m + n /\ s[m + i] = r[i]
  <2> DEFINE k == m + i
  <2>1. k \in 1 .. m + n /\ ~(k <= m) /\ k - m = i
    BY <1>2
  <2> HIDE DEF k
  <2>2. s[k] = r[k - m]
    BY <1>1, <2>1
  <2> QED
    BY <2>1, <2>2 DEF k
<1>6. ASSUME NEW i \in 1 .. m + n
      PROVE  (i \in 1 .. m /\ s[i] = q[i]) \/ (i - m \in 1 .. n /\ s[i] = r[i - m])
  BY <1>1, <1>2
<1> QED
  BY <1>4, <1>5, <1>6

\* What triggering the registered events es of fd does.
LEMMA Triggered ==
  ASSUME IInv, NEW fd \in Fds, NEW es \in SUBSET events[fd], triggerEvents(fd, es)
  PROVE  /\ m_fibers' \in Seq(TaskEntry)
         /\ \A u : InList(u)' <=> InList(u) \/ \E e \in es : context[fd][e] = u
         /\ events' \in [Fds -> SUBSET Events]
         /\ context' \in [Fds -> [AllEvents -> Tasks \cup {NoTask}]]
         /\ ContextMatchesEvents'
<1>1. es \subseteq Events /\ es \subseteq AllEvents /\ es \subseteq {"READ", "WRITE"}
  BY IOAssumption DEF IInv, IOTypes, AllEvents
<1>2. \A e \in es : context[fd][e] \in Tasks /\ Entry(fd, e) \in TaskEntry
  BY <1>1 DEF IInv, IOTypes, ContextMatchesEvents, Entry, TaskEntry
<1> DEFINE a == IF "READ" \in es THEN <<Entry(fd, "READ")>> ELSE <<>>
           b == IF "WRITE" \in es THEN <<Entry(fd, "WRITE")>> ELSE <<>>
<1>3. /\ a \in Seq(TaskEntry)
      /\ \A u : (\E i \in DOMAIN a : a[i].task = u) <=> "READ" \in es /\ context[fd]["READ"] = u
  <2>1. CASE "READ" \in es
    BY <1>2, <2>1 DEF Entry
  <2>2. CASE "READ" \notin es
    BY <2>2
  <2> QED
    BY <2>1, <2>2
<1>4. /\ b \in Seq(TaskEntry)
      /\ \A u : (\E i \in DOMAIN b : b[i].task = u) <=> "WRITE" \in es /\ context[fd]["WRITE"] = u
  <2>1. CASE "WRITE" \in es
    BY <1>2, <2>1 DEF Entry
  <2>2. CASE "WRITE" \notin es
    BY <2>2
  <2> QED
    BY <2>1, <2>2
<1>5. m_fibers \in Seq(TaskEntry)
  BY DEF IInv, CInv, TypeOK, TaskEntry
<1>6. m_fibers' = (m_fibers \o a) \o b
  BY DEF triggerEvents
<1> HIDE DEF a, b
<1>7. /\ m_fibers \o a \in Seq(TaskEntry)
      /\ \A u : (\E i \in DOMAIN (m_fibers \o a) : (m_fibers \o a)[i].task = u) <=>
                  InList(u) \/ \E i \in DOMAIN a : a[i].task = u
  BY <1>3, <1>5, ConcatTasks DEF InList
<1> DEFINE q == m_fibers \o a
<1>8. /\ m_fibers' \in Seq(TaskEntry)
      /\ \A u : InList(u)' <=> (\E i \in DOMAIN q : q[i].task = u) \/ \E i \in DOMAIN b : b[i].task = u
  <2>1. q \in Seq(TaskEntry) /\ m_fibers' = q \o b
    BY <1>6, <1>7
  <2> HIDE DEF q
  <2>2. /\ q \o b \in Seq(TaskEntry)
        /\ \A u : (\E i \in DOMAIN (q \o b) : (q \o b)[i].task = u) <=>
                    \/ \E i \in DOMAIN q : q[i].task = u
                    \/ \E i \in DOMAIN b : b[i].task = u
    BY <1>4, <2>1, ConcatTasks
  <2> DEFINE l == q \o b
  <2>3. m_fibers' = l
    BY <2>1
  <2>4. /\ l \in Seq(TaskEntry)
        /\ \A u : (\E i \in DOMAIN l : l[i].task = u) <=>
                    \/ \E i \in DOMAIN q : q[i].task = u
                    \/ \E i \in DOMAIN b : b[i].task = u
    BY <2>2
  <2> HIDE DEF l
  <2> QED
    BY <2>3, <2>4 DEF InList
<1>9. \A u : InList(u)' <=> InList(u) \/ \E e \in es : context[fd][e] = u
  BY <1>1, <1>3, <1>4, <1>7, <1>8
<1>10. /\ events' \in [Fds -> SUBSET Events]
       /\ context' \in [Fds -> [AllEvents -> Tasks \cup {NoTask}]]
  BY DEF triggerEvents, IInv, IOTypes
<1>11. ContextMatchesEvents'
  BY <1>1 DEF triggerEvents, IInv, IOTypes, ContextMatchesEvents
<1> QED
  BY <1>8, <1>9, <1>10, <1>11

\* The steps taken over from the scheduler, and those of tickle.
LEMMA Inherited ==
  ASSUME IInv, \/ \E w \in Workers : IORun(w)
               \/ IOMain \/ IOStop
  PROVE  /\ [Next]_schedVars
         /\ UNCHANGED ioVars
         /\ tickles' \in [Threads -> Nat]
<1>1. ASSUME NEW c \in Threads, NEW more, Tickled(c, more) PROVE tickles' \in [Threads -> Nat]
  BY <1>1 DEF IInv, IOTypes, Tickled
<1>2. ASSUME NEW w \in Workers, IORun(w)
      PROVE  Next /\ UNCHANGED ioVars /\ tickles' \in [Threads -> Nat]
  BY <1>1, <1>2 DEF IORun, Next, WorkerStep, Threads
<1>3. ASSUME IOMain
      PROVE  Next /\ UNCHANGED ioVars /\ tickles' \in [Threads -> Nat]
  BY <1>1, <1>3 DEF IOMain, Next, Threads
<1>4. ASSUME IOStop
      PROVE  Next /\ UNCHANGED ioVars /\ tickles' \in [Threads -> Nat]
  <2>1. Cardinality(Workers) \in Nat
    BY SchedulerAssumption, FS_CardinalityType
  <2> QED
    BY <1>4, <2>1 DEF IOStop, Next, StopStep, IInv, IOTypes
<1> QED
  BY <1>2, <1>3, <1>4

LEMMA InheritedKeepsIInv ==
  ASSUME IInv, [Next]_schedVars, UNCHANGED ioVars, tickles' \in [Threads -> Nat]
  PROVE  IInv'
<1>1. CInv'
  BY NextTypeOK, NextCounters, NextBusyAndOff DEF IInv, CInv
<1>2. IOTypes' /\ ContextMatchesEvents' /\ CountRegistered'
  BY DEF IInv, IOTypes, ContextMatchesEvents, CountRegistered, Registered, ioVars
<1> QED
  BY <1>1, <1>2 DEF IInv

\* Steps that leave every worker where it is.
LEMMA WorkersStay ==
  ASSUME CInv, UNCHANGED unchangedSched,
         m_fibers' \in Seq(TaskEntry), scheduled' \subseteq Tasks, resumed' = resumed,
         early' \in BOOLEAN, fault' \in {"none", "assert", "stack"}
  PROVE  CInv'
<1>1. TypeOK'
  BY DEF CInv, TypeOK, TaskEntry, unchangedSched, counts, flags
<1>2. CountersAgree' /\ InHandWhenBusy' /\ OffUntilStart'
  BY DEF CInv, CountersAgree, InHandWhenBusy, OffUntilStart, unchangedSched, counts, flags
<1> QED
  BY <1>1, <1>2 DEF CInv

\* idle returns to run.
LEMMA IdleReturns ==
  ASSUME CInv, NEW w \in Workers, Goto(w, "idle", "unidle"),
         UNCHANGED <<m_fibers, counts, flags, tasks, cur, fault>>,
         idleFiber' \in [Workers -> {"HOLD", "TERM"}]
  PROVE  CInv'
<1>1. CountersAgree'
  <2>1. m_activeThreadCount' = NumHolding' /\ m_idleThreadCount' = NumIdling'
    BY MoveCounts DEF Holding, Idling, counts
  <2> QED
    BY <2>1 DEF CountersAgree, NumHolding, NumIdling, InPosition, Idling
<1>2. TypeOK'
  BY DEF CInv, TypeOK, Goto, At, WorkerPC, counts, flags, tasks, known
<1>3. InHandWhenBusy' /\ OffUntilStart'
  BY DEF CInv, TypeOK, InHandWhenBusy, OffUntilStart, Holding, Goto, At, counts, flags, tasks, known
<1> QED
  BY <1>1, <1>2, <1>3 DEF CInv

LEMMA NextIInv == IInv /\ [IONext]_vars => IInv'
<1> SUFFICES ASSUME IInv, [IONext]_vars PROVE IInv'
  OBVIOUS
<1>0. /\ m_fibers \in Seq(TaskEntry) /\ scheduled \subseteq Tasks
      /\ fault \in {"none", "assert", "stack"} /\ early \in BOOLEAN
      /\ idleFiber \in [Workers -> {"HOLD", "TERM"}]
  BY DEF IInv, CInv, TypeOK, TaskEntry
<1>1. CASE (\E w \in Workers : IORun(w)) \/ IOMain \/ IOStop
  BY <1>1, Inherited, InheritedKeepsIInv
<1>2. ASSUME UNCHANGED schedVars PROVE CInv'
  <2>1. [Next]_schedVars
    BY <1>2
  <2> QED
    BY <2>1, NextTypeOK, NextCounters, NextBusyAndOff DEF IInv, CInv
<1>3. ASSUME UNCHANGED <<events, context, m_pendingEventCount>>
      PROVE  ContextMatchesEvents' /\ CountRegistered'
  BY <1>3 DEF IInv, ContextMatchesEvents, CountRegistered, Registered
<1>4. ASSUME NEW c \in Threads, tickle(c) PROVE IInv'
  <2>1. IOTypes'
    BY <1>4, IOAssumption DEF tickle, IInv, IOTypes, fdVars
  <2> QED
    BY <1>2, <1>3, <1>4, <2>1 DEF tickle, IInv, fdVars
<1>5. ASSUME NEW w \in Workers, NEW fd \in Fds, NEW e \in Events, NEW t \in Tasks,
             addEvent(w, fd, e, t)
      PROVE  IInv'
  <2>1. CInv'
    <3>1. /\ UNCHANGED unchangedSched /\ m_fibers' \in Seq(TaskEntry)
          /\ scheduled' \subseteq Tasks /\ resumed' = resumed
      BY <1>0, <1>5 DEF addEvent
    <3>2. early' \in BOOLEAN /\ fault' \in {"none", "assert", "stack"}
      BY <1>0, <1>5 DEF addEvent
    <3> QED
      BY <3>1, <3>2, WorkersStay DEF IInv
  <2>2. IOTypes'
    <3>1. events' \in [Fds -> SUBSET Events]
      BY <1>5 DEF addEvent, IInv, IOTypes
    <3>2. context' \in [Fds -> [AllEvents -> Tasks \cup {NoTask}]]
      BY <1>5 DEF addEvent, IInv, IOTypes
    <3>3. adds' \in 0 .. MaxAdds
      BY <1>5, IOAssumption DEF addEvent, IInv, IOTypes
    <3> QED
      BY <1>5, <3>1, <3>2, <3>3 DEF addEvent, IInv, IOTypes
  <2>3. ContextMatchesEvents'
    BY <1>5, SchedulerAssumption, IOAssumption
       DEF addEvent, IInv, IOTypes, ContextMatchesEvents, AllEvents
  <2>4. CountRegistered'
    BY <1>5, AddRegistered DEF addEvent, IInv, IOTypes, CountRegistered
  <2> QED
    BY <2>1, <2>2, <2>3, <2>4 DEF IInv
<1>6. ASSUME NEW c \in Threads, NEW fd \in Fds, NEW e \in Events, delEvent(c, fd, e) PROVE IInv'
  <2>1. CInv'
    BY <1>2, <1>6 DEF delEvent
  <2>2. IOTypes'
    BY <1>6, IOAssumption DEF delEvent, IInv, IOTypes
  <2>3. ContextMatchesEvents'
    BY <1>6, IOAssumption DEF delEvent, IInv, IOTypes, ContextMatchesEvents, AllEvents
  <2>4. CountRegistered'
    <3>1. {e} \in SUBSET events[fd] /\ events' = [events EXCEPT ![fd] = @ \ {e}]
      BY <1>6 DEF delEvent
    <3>2. /\ IsFiniteSet(Registered')
          /\ Cardinality(Registered') = Cardinality(Registered) - Cardinality({e})
      BY <3>1, RemoveRegistered DEF IInv, IOTypes, CountRegistered
    <3>3. Cardinality({e}) = 1
      BY FS_Singleton
    <3> QED
      BY <1>6, <3>2, <3>3 DEF delEvent, IInv, CountRegistered
  <2> QED
    BY <2>1, <2>2, <2>3, <2>4 DEF IInv
<1>7. ASSUME NEW fd \in Fds, NEW es \in SUBSET events[fd], triggerEvents(fd, es),
             m_pendingEventCount' = m_pendingEventCount - Cardinality(es),
             tickles' \in [Threads -> Nat], fault' = fault,
             reported' \in [Workers -> [Fds -> SUBSET AllEvents]]
      PROVE  IInv'
  <2>1. CInv'
    <3>1. /\ UNCHANGED unchangedSched /\ m_fibers' \in Seq(TaskEntry)
          /\ scheduled' \subseteq Tasks /\ resumed' = resumed
      BY <1>0, <1>7, Triggered DEF triggerEvents
    <3>2. early' \in BOOLEAN /\ fault' \in {"none", "assert", "stack"}
      BY <1>0, <1>7 DEF triggerEvents
    <3> QED
      BY <3>1, <3>2, WorkersStay DEF IInv
  <2>2. IOTypes'
    BY <1>7, Triggered DEF triggerEvents, IInv, IOTypes
  <2>3. ContextMatchesEvents'
    BY <1>7, Triggered
  <2>4. CountRegistered'
    BY <1>7, RemoveRegistered DEF triggerEvents, IInv, IOTypes, CountRegistered
  <2> QED
    BY <2>1, <2>2, <2>3, <2>4 DEF IInv
<1>8. ASSUME NEW c \in Threads, NEW fd \in Fds, NEW es \in SUBSET events[fd], cancel(c, fd, es)
      PROVE  IInv'
  <2>1. tickles' \in [Threads -> Nat]
    BY <1>8 DEF cancel, Tickled, IInv, IOTypes
  <2> QED
    BY <1>7, <1>8, <2>1 DEF cancel, IInv, IOTypes
<1>9. ASSUME NEW c \in Threads, NEW fd \in Fds,
             cancelAll(c, fd) \/ \E e \in Events : cancelEvent(c, fd, e)
      PROVE  IInv'
  BY <1>8, <1>9 DEF cancelAll, cancelEvent
<1>10. ASSUME NEW w \in Workers, NEW fd \in Fds, HandleEvent(w, fd) PROVE IInv'
  <2>1. reported' \in [Workers -> [Fds -> SUBSET AllEvents]]
    BY <1>10 DEF HandleEvent, IInv, IOTypes
  <2> QED
    BY <1>7, <1>10, <2>1 DEF HandleEvent, IInv, IOTypes
<1>11. ASSUME NEW w \in Workers, NEW fd \in Fds, HandleStale(w, fd) PROVE IInv'
  <2>1. IOTypes'
    BY <1>11 DEF HandleStale, IInv, IOTypes, fdVars
  <2> QED
    BY <1>2, <1>3, <1>11, <2>1 DEF HandleStale, IInv, fdVars
<1>12. ASSUME NEW w \in Workers, NEW fd \in Fds, HandleFails(w, fd) PROVE IInv'
  <2>1. IOTypes'
    BY <1>12 DEF HandleFails, IInv, IOTypes, ioVars
  <2>2. CInv'
    BY <1>0, <1>12, WorkersStay DEF HandleFails, known, IInv
  <2> QED
    BY <1>3, <1>12, <2>1, <2>2 DEF HandleFails, IInv, ioVars
<1>13. ASSUME NEW w \in Workers, IdleCheck(w) \/ EpollWait(w) PROVE IInv'
  <2>1. IOTypes'
    <3>1. CASE IdleCheck(w)
      BY <3>1 DEF IdleCheck, IInv, IOTypes, fdVars
    <3>2. CASE EpollWait(w)
      <4>1. PICK r \in [Fds -> SUBSET AllEvents] : reported' = [reported EXCEPT ![w] = r]
        BY <3>2 DEF EpollWait
      <4>2. reported' \in [Workers -> [Fds -> SUBSET AllEvents]]
        BY <4>1 DEF IInv, IOTypes
      <4>3. pipe' \in 0 .. PipeCapacity
        BY <3>2, IOAssumption DEF EpollWait
      <4> QED
        BY <3>2, <4>2, <4>3 DEF EpollWait, IInv, IOTypes, fdVars
    <3> QED
      BY <1>13, <3>1, <3>2
  <2> QED
    BY <1>2, <1>3, <1>13, <2>1 DEF IdleCheck, EpollWait, IInv, fdVars
<1>14. ASSUME NEW w \in Workers, IdlePending(w) PROVE IInv'
  <2>1. IOTypes'
    BY <1>14 DEF IdlePending, IInv, IOTypes, fdVars
  <2>2. CInv'
    <3>1. CASE m_pendingEventCount = 0
      BY <1>0, <1>14, <3>1, IdleReturns DEF IdlePending, Goto, At, IInv
    <3>2. CASE m_pendingEventCount # 0
      BY <1>2, <1>14, <3>2 DEF IdlePending, schedVars, counts, flags, tasks, known
    <3> QED
      BY <3>1, <3>2
  <2> QED
    BY <1>3, <1>14, <2>1, <2>2 DEF IdlePending, IInv, fdVars
<1>15. ASSUME NEW w \in Workers, IdleYield(w) PROVE IInv'
  <2>1. IOTypes'
    BY <1>15 DEF IdleYield, IInv, IOTypes, fdVars
  <2>2. CInv'
    BY <1>0, <1>15, IdleReturns DEF IdleYield, IInv
  <2> QED
    BY <1>3, <1>15, <2>1, <2>2 DEF IdleYield, IInv, fdVars
<1>16. CASE UNCHANGED vars
  BY <1>2, <1>3, <1>16 DEF vars, ioVars, IInv, IOTypes
<1> QED
  BY <1>1, <1>4, <1>5, <1>6, <1>9, <1>10, <1>11, <1>12, <1>13, <1>14, <1>15, <1>16
     DEF IONext, IOCall, idle

LEMMA IInvInvariant == IOSpec => []IInv
  BY InitIInv, NextIInv, PTL DEF IOSpec

\* Every variable of the IOManager and of its scheduler stays in its type; the
\* counter of pending events never goes below zero.
THEOREM IOTypeCorrect == IOSpec => []IOTypeOK
<1>1. IInv => IOTypeOK
  <2>1. CountRegistered => m_pendingEventCount \in Nat
    BY FS_CardinalityType DEF CountRegistered
  <2> QED
    BY <2>1 DEF IInv, CInv, IOTypes, IOTypeOK
<1> QED
  BY <1>1, IInvInvariant, PTL

\* The counter that stopping() relies on is the number of registered events,
\* although each descriptor has a mutex of its own and the events of one
\* descriptor may be triggered, cancelled and deleted by several threads.
THEOREM PendingEventsAreCounted == IOSpec => []PendingCountsRegistered
<1>1. IInv => PendingCountsRegistered
  BY DEF IInv, CountRegistered, PendingCountsRegistered
<1> QED
  BY <1>1, IInvInvariant, PTL

\* An event context is clean exactly while its event is not registered.
THEOREM ContextsAreClean == IOSpec => []ContextMatchesEvents
<1>1. IInv => ContextMatchesEvents
  BY DEF IInv
<1> QED
  BY <1>1, IInvInvariant, PTL

\* The active and idle counts are exact under the IOManager, too: tickle and
\* stopping() rely on them.
THEOREM IOCountersAreExact == IOSpec => []CountersAgree
<1>1. IInv => CountersAgree
  BY DEF IInv, CInv
<1> QED
  BY <1>1, IInvInvariant, PTL

-----------------------------------------------------------------------------
(* Callbacks are delivered once *)

\* A task that has not been scheduled nor given to addEvent is nowhere.
FreshIsNowhere ==
  \A t \in Tasks : t \notin scheduled =>
    /\ ~InList(t) /\ ~InHand(t)
    /\ \A fd \in Fds, e \in AllEvents : context[fd][e] # t

\* A task that a worker has swapped in is past its first state for good.
BegunIsNotInit ==
  \A w \in Workers :
    pc[w] \in {"run", "switch", "out", "back", "settle"} => state[cur[w]] # "INIT"

\* The inductive invariant.
OnceInv == FreshIsNowhere /\ BegunIsNotInit /\ CallbackDeliveredOnce

\* What the scheduler's own steps may do to a task that has not begun: it gets
\* into the list when it is scheduled for the first time, and not otherwise.
NothingBegunReturns ==
  /\ scheduled \subseteq scheduled'
  /\ \A t \in Tasks :
       /\ state'[t] = "INIT" => state[t] = "INIT"
       /\ InList(t)' \/ InHand(t)' =>
            \/ InList(t) \/ InHand(t)
            \/ t \in scheduled' /\ (t \notin scheduled \/ state[t] # "INIT")

LEMMA SchedulerStepMoves ==
  ASSUME CInv, [Next]_schedVars
  PROVE  NothingBegunReturns
<1> USE DEF counts, flags, tasks, known
<1>c. \A w \in Workers : pc[w] \in Holding \cup {"settle"} => cur[w] \in Tasks
  BY SchedulerAssumption DEF CInv, InHandWhenBusy, TypeOK
<1>1. ASSUME NEW w \in Workers, Pick(w) PROVE NothingBegunReturns
  <2>1. PICK i \in Takeable(w) :
          cur' = [cur EXCEPT ![w] = m_fibers[i].task] /\ m_fibers' = RemoveAt(m_fibers, i)
    BY <1>1 DEF Pick
  <2>2. i \in DOMAIN m_fibers
    BY <2>1 DEF Takeable
  <2>3. \A u \in Tasks : InList(u)' => InList(u)
    BY <2>1, <2>2, TakeKeepsOthers DEF CInv
  <2>4. \A u \in Tasks : InHand(u)' => InHand(u) \/ InList(u)
    BY <2>1, <2>2 DEF InHand, InList, CInv, TypeOK
  <2> QED
    BY <1>1, <2>3, <2>4 DEF Pick, NothingBegunReturns
<1>2. ASSUME UNCHANGED <<m_fibers, cur, scheduled>>,
             \A u \in Tasks : state'[u] = "INIT" => state[u] = "INIT"
      PROVE  NothingBegunReturns
  BY <1>2 DEF NothingBegunReturns, InList, InHand
<1>3. ASSUME NEW w \in Workers,
             \/ PickNothing(w) \/ SwapInFails(w) \/ SwapOut(w) \/ Deactivate(w)
             \/ EnterIdle(w) \/ LeaveIdle(w) \/ ExitRun(w) \/ Idle(w) \/ YieldFails(w)
      PROVE  UNCHANGED <<m_fibers, cur, scheduled, state>>
  BY <1>3 DEF PickNothing, SwapInFails, SwapOut, Deactivate, EnterIdle, LeaveIdle, ExitRun, Idle,
              YieldFails
<1>4. ASSUME \/ start \/ StopAuto \/ StopStep \/ UNCHANGED schedVars
      PROVE  UNCHANGED <<m_fibers, cur, scheduled, state>>
  BY <1>4 DEF start, StopAuto, StopStep, StopFlag, StopJoin, schedVars
<1>5. ASSUME NEW w \in Workers, DropEnded(w) \/ Settle(w) PROVE NothingBegunReturns
  <2>1. PICK t \in Tasks : t = cur[w]
    BY <1>5, <1>c DEF DropEnded, Settle, Goto, At, Holding
  <2>2. /\ cur' = [cur EXCEPT ![w] = NoTask]
        /\ \A u \in Tasks : state'[u] = "INIT" => state[u] = "INIT"
        /\ UNCHANGED scheduled
    BY <1>5, <2>1 DEF DropEnded, Settle, CInv, TypeOK
  <2>3. m_fibers' = m_fibers \/ scheduleNoBlock(t, AnyThread)
    BY <1>5, <2>1 DEF DropEnded, Settle
  <2>4. \A u \in Tasks : InList(u)' => InList(u) \/ u = t
    BY <2>3, ScheduleAddsOne DEF InList, CInv
  <2>5. InHand(t) /\ \A u \in Tasks : InHand(u)' => InHand(u)
    BY <2>1, <2>2, SchedulerAssumption DEF InHand, CInv, TypeOK
  <2> QED
    BY <2>2, <2>4, <2>5 DEF NothingBegunReturns
<1>6. ASSUME NEW w \in Workers,
             \/ SwapIn(w) \/ SwitchToHold(w)
             \/ \E s \in {"READY", "HOLD"} : Yield(w, s)
             \/ \E s \in {"TERM", "EXCEPT"} : Return(w, s)
      PROVE  NothingBegunReturns
  <2>1. /\ UNCHANGED <<m_fibers, cur, scheduled>>
        /\ \A u \in Tasks : state'[u] = "INIT" => state[u] = "INIT"
    BY <1>6 DEF SwapIn, SwitchToHold, Yield, Return, CInv, TypeOK
  <2> QED
    BY <1>2, <2>1
<1>7. ASSUME NEW t \in Tasks, NEW thread \in Workers \cup {AnyThread}, scheduleNoBlock(t, thread),
             UNCHANGED <<cur, state>>, scheduled' = scheduled \cup {t},
             t \notin scheduled \/ state[t] # "INIT" \/ InList(t) \/ InHand(t)
      PROVE  NothingBegunReturns
  <2>1. \A u \in Tasks : InList(u)' <=> InList(u) \/ u = t
    BY <1>7, ScheduleAddsOne DEF CInv
  <2>2. \A u \in Tasks : InHand(u)' <=> InHand(u)
    BY <1>7 DEF InHand
  <2> QED
    BY <1>7, <2>1, <2>2 DEF NothingBegunReturns
<1>8. ASSUME NEW w \in Workers, NEW t \in Tasks, NEW thread \in Targets,
             \/ Spawn(w, t, thread) \/ Wake(w, t, thread)
             \/ MainSchedule(t, thread) \/ MainResume(t, thread)
      PROVE  NothingBegunReturns
  <2>1. /\ scheduleNoBlock(t, thread) /\ UNCHANGED <<cur, state>>
        /\ scheduled' = scheduled \cup {t}
        /\ t \notin scheduled \/ state[t] # "INIT" \/ InList(t) \/ InHand(t)
    <3>1. CASE Spawn(w, t, thread) \/ MainSchedule(t, thread)
      BY <3>1 DEF Spawn, MainSchedule, ScheduleNew, schedule
    <3>2. CASE Wake(w, t, thread) \/ MainResume(t, thread)
      BY <3>2 DEF Wake, MainResume, ScheduleAgain, schedule
    <3> QED
      BY <1>8, <3>1, <3>2
  <2> QED
    BY <1>7, <2>1, SchedulerAssumption
<1>9. ASSUME NEW w \in Workers, NEW thread \in Targets, SwitchTo(w, thread)
      PROVE  NothingBegunReturns
  <2>1. PICK t \in Tasks : t = cur[w]
    BY <1>9, <1>c DEF SwitchTo, Goto, At, Holding
  <2>2. scheduleNoBlock(t, thread) /\ UNCHANGED <<cur, state, scheduled>>
    BY <1>9, <2>1 DEF SwitchTo, schedule
  <2>3. \A u \in Tasks : InList(u)' <=> InList(u) \/ u = t
    BY <2>2, ScheduleAddsOne, SchedulerAssumption DEF CInv
  <2>4. InHand(t) /\ \A u \in Tasks : InHand(u)' <=> InHand(u)
    BY <2>1, <2>2 DEF InHand
  <2> QED
    BY <2>2, <2>3, <2>4 DEF NothingBegunReturns
<1>10. Workers # {}
  BY SchedulerAssumption
<1> QED
  BY <1>1, <1>2, <1>3, <1>4, <1>5, <1>6, <1>8, <1>9, <1>10
     DEF Next, WorkerStep, RunStep, TaskStep

LEMMA SchedulerKeepsBegun ==
  ASSUME CInv, BegunIsNotInit, [Next]_schedVars
  PROVE  BegunIsNotInit'
<1> DEFINE Begun == {"run", "switch", "out", "back", "settle"}
<1>1. \A t \in Tasks : state'[t] = "INIT" => state[t] = "INIT"
  BY SchedulerStepMoves DEF NothingBegunReturns
<1>2. \A w \in Workers : pc[w] \in Begun \cup {"dispatch"} => cur[w] \in Tasks
  BY SchedulerAssumption DEF CInv, InHandWhenBusy, TypeOK, Holding
<1>3. ASSUME NEW w \in Workers, SwapIn(w) PROVE cur'[w] = cur[w] /\ state'[cur[w]] = "EXEC"
  BY <1>2, <1>3 DEF SwapIn, Goto, At, CInv, TypeOK
<1>4. ASSUME NEW v \in Workers, pc'[v] \in Begun
      PROVE  SwapIn(v) \/ (pc[v] \in Begun /\ cur'[v] = cur[v])
  <2> USE DEF counts, flags, tasks, known, Goto, At, CInv, TypeOK
  <2>1. ASSUME NEW w \in Workers,
               \/ Pick(w) \/ PickNothing(w) \/ DropEnded(w) \/ SwapIn(w) \/ SwapInFails(w)
        PROVE  SwapIn(v) \/ (pc[v] \in Begun /\ cur'[v] = cur[v])
    BY <1>4, <2>1 DEF Pick, PickNothing, DropEnded, SwapIn, SwapInFails
  <2>2. ASSUME NEW w \in Workers, SwapOut(w) \/ Deactivate(w) \/ Settle(w)
        PROVE  pc[v] \in Begun /\ cur'[v] = cur[v]
    BY <1>4, <2>2 DEF SwapOut, Deactivate, Settle
  <2>3. ASSUME NEW w \in Workers, EnterIdle(w) \/ LeaveIdle(w) \/ ExitRun(w) \/ Idle(w)
        PROVE  pc[v] \in Begun /\ cur'[v] = cur[v]
    BY <1>4, <2>3 DEF EnterIdle, LeaveIdle, ExitRun, Idle
  <2>4. ASSUME NEW w \in Workers, TaskStep(w)
        PROVE  pc[v] \in Begun /\ cur'[v] = cur[v]
    BY <1>4, <2>4 DEF TaskStep, Spawn, Wake, Yield, SwitchTo, SwitchToHold, YieldFails, Return
  <2>5. ASSUME \/ start \/ StopAuto \/ StopStep \/ UNCHANGED schedVars
               \/ \E t \in Tasks, thread \in Targets :
                    MainSchedule(t, thread) \/ MainResume(t, thread)
        PROVE  pc[v] \in Begun /\ cur'[v] = cur[v]
    BY <1>4, <2>5
       DEF start, StopAuto, StopStep, StopFlag, StopJoin, schedVars, MainSchedule, MainResume
  <2> QED
    BY <2>1, <2>2, <2>3, <2>4, <2>5 DEF Next, WorkerStep, RunStep
<1> QED
  BY <1>1, <1>2, <1>3, <1>4 DEF BegunIsNotInit

\* The steps of the scheduler, and those that leave it alone.
LEMMA InheritedKeepsOnce ==
  ASSUME IInv, OnceInv, [Next]_schedVars, UNCHANGED context, UNCHANGED events
  PROVE  OnceInv'
<1>1. BegunIsNotInit'
  BY SchedulerKeepsBegun DEF IInv, OnceInv
<1>2. NothingBegunReturns
  BY SchedulerStepMoves DEF IInv
<1>3. FreshIsNowhere'
  BY <1>2 DEF OnceInv, FreshIsNowhere, NothingBegunReturns
<1>4. CallbackDeliveredOnce'
  <2> SUFFICES ASSUME NEW r \in Registered,
                      state'[context[r[1]][r[2]]] = "INIT"
               PROVE  /\ \A q \in Registered : context[q[1]][q[2]] = context[r[1]][r[2]] => q = r
                      /\ ~InList(context[r[1]][r[2]])' /\ ~InHand(context[r[1]][r[2]])'
    BY DEF CallbackDeliveredOnce, Registered, InList, InHand
  <2>1. PICK t : t = context[r[1]][r[2]]
    OBVIOUS
  <2>2. r[1] \in Fds /\ r[2] \in Events /\ r[2] \in events[r[1]] /\ r[2] \in AllEvents
    BY IOAssumption DEF Registered, AllEvents
  <2>3. t \in Tasks /\ t \in scheduled
    BY <2>1, <2>2 DEF IInv, IOTypes, ContextMatchesEvents, OnceInv, FreshIsNowhere
  <2>4. state[t] = "INIT"
    BY <1>2, <2>1, <2>3 DEF NothingBegunReturns
  <2>5. /\ \A q \in Registered : context[q[1]][q[2]] = t => q = r
        /\ ~InList(t) /\ ~InHand(t)
    BY <2>1, <2>4 DEF OnceInv, CallbackDeliveredOnce
  <2>6. ~InList(t)' /\ ~InHand(t)'
    BY <1>2, <2>3, <2>4, <2>5 DEF NothingBegunReturns
  <2> QED
    BY <2>1, <2>5, <2>6 DEF InList, InHand
<1> QED
  BY <1>1, <1>3, <1>4 DEF OnceInv

\* Steps that move no task and register or trigger nothing.
LEMMA MovesKeepOnce ==
  ASSUME IInv, OnceInv,
         UNCHANGED <<m_fibers, cur, state, scheduled, events, context>>,
         \A w \in Workers : pc'[w] = pc[w] \/ pc'[w] = "unidle"
  PROVE  OnceInv'
<1>1. FreshIsNowhere' /\ BegunIsNotInit'
  BY DEF OnceInv, FreshIsNowhere, BegunIsNotInit, InList, InHand
<1>2. CallbackDeliveredOnce'
  BY DEF OnceInv, CallbackDeliveredOnce, Registered, InList, InHand
<1> QED
  BY <1>1, <1>2 DEF OnceInv

LEMMA RegisteredTask ==
  ASSUME IInv, OnceInv, NEW fd \in Fds, NEW e \in AllEvents, e \in events[fd]
  PROVE  context[fd][e] \in Tasks /\ context[fd][e] \in scheduled
  BY DEF IInv, IOTypes, ContextMatchesEvents, OnceInv, FreshIsNowhere

\* CallbackDeliveredOnce by descriptor and event.
OnceEach ==
  \A fd \in Fds, e \in Events :
    e \in events[fd] /\ state[context[fd][e]] = "INIT" =>
      /\ \A g \in Fds, f \in Events :
           f \in events[g] /\ context[g][f] = context[fd][e] => g = fd /\ f = e
      /\ ~InList(context[fd][e]) /\ ~InHand(context[fd][e])

LEMMA OnceByEvent == CallbackDeliveredOnce <=> OnceEach
<1> DEFINE Once(fd, e) ==
             e \in events[fd] /\ state[context[fd][e]] = "INIT" =>
               /\ \A g \in Fds, f \in Events :
                    f \in events[g] /\ context[g][f] = context[fd][e] => g = fd /\ f = e
               /\ ~InList(context[fd][e]) /\ ~InHand(context[fd][e])
<1>1. \A r \in Registered : r = <<r[1], r[2]>> /\ r[1] \in Fds /\ r[2] \in Events
                              /\ r[2] \in events[r[1]]
  BY DEF Registered
<1>2. \A fd \in Fds, e \in Events : e \in events[fd] => <<fd, e>> \in Registered
  BY DEF Registered
<1>3. ASSUME CallbackDeliveredOnce, NEW fd \in Fds, NEW e \in Events PROVE Once(fd, e)
  <2> SUFFICES ASSUME e \in events[fd], state[context[fd][e]] = "INIT" PROVE Once(fd, e)
    OBVIOUS
  <2>1. PICK r \in Registered : r = <<fd, e>>
    BY <1>2
  <2>2. /\ \A q \in Registered : context[q[1]][q[2]] = context[fd][e] => q = r
        /\ ~InList(context[fd][e]) /\ ~InHand(context[fd][e])
    BY <1>3, <2>1 DEF CallbackDeliveredOnce
  <2>3. ASSUME NEW g \in Fds, NEW f \in Events, f \in events[g], context[g][f] = context[fd][e]
        PROVE  g = fd /\ f = e
    <3>1. PICK q \in Registered : q = <<g, f>>
      BY <1>2, <2>3
    <3> QED
      BY <2>1, <2>2, <2>3, <3>1
  <2> QED
    BY <2>2, <2>3
<1>4. ASSUME \A fd \in Fds, e \in Events : Once(fd, e) PROVE CallbackDeliveredOnce
  <2> SUFFICES ASSUME NEW r \in Registered, state[context[r[1]][r[2]]] = "INIT"
               PROVE  /\ \A q \in Registered : context[q[1]][q[2]] = context[r[1]][r[2]] => q = r
                      /\ ~InList(context[r[1]][r[2]]) /\ ~InHand(context[r[1]][r[2]])
    BY DEF CallbackDeliveredOnce
  <2>1. Once(r[1], r[2]) /\ r[1] \in Fds /\ r[2] \in Events /\ r[2] \in events[r[1]]
    BY <1>1, <1>4
  <2> QED
    BY <1>1, <2>1
<1> QED
  BY <1>3, <1>4 DEF OnceEach

LEMMA AddKeepsOnce ==
  ASSUME IInv, OnceInv, NEW w \in Workers, NEW fd \in Fds, NEW e \in Events, NEW t \in Tasks,
         addEvent(w, fd, e, t)
  PROVE  OnceInv'
<1> USE DEF unchangedSched
<1>1. /\ UNCHANGED <<m_fibers, pc, cur, state>> /\ scheduled' = scheduled \cup {t}
      /\ events' = [events EXCEPT ![fd] = @ \cup {e}]
      /\ context' = [context EXCEPT ![fd][e] = t]
  BY DEF addEvent
<1>2. /\ \A g \in Fds, f \in AllEvents : context'[g][f] = IF g = fd /\ f = e THEN t ELSE context[g][f]
      /\ \A g \in Fds, f \in Events : f \in events'[g] <=> f \in events[g] \/ (g = fd /\ f = e)
      /\ Events \subseteq AllEvents
  BY <1>1, IOAssumption DEF IInv, IOTypes, AllEvents
<1>3. \A u \in Tasks : (InList(u)' <=> InList(u)) /\ (InHand(u)' <=> InHand(u))
  BY <1>1 DEF InList, InHand
<1>4. t \notin scheduled \/ state[t] # "INIT"
  <2>1. pc[w] = "run"
    BY IOAssumption DEF addEvent, MayCall, At
  <2> QED
    BY <2>1 DEF addEvent, OnceInv, BegunIsNotInit
<1>5. FreshIsNowhere'
  BY <1>1, <1>2, <1>3 DEF OnceInv, FreshIsNowhere
<1>6. BegunIsNotInit'
  BY <1>1 DEF OnceInv, BegunIsNotInit
<1>7. CallbackDeliveredOnce'
  <2> SUFFICES ASSUME NEW g \in Fds, NEW f \in Events, NEW u, u = context'[g][f],
                      f \in events'[g], state'[u] = "INIT"
               PROVE  /\ \A h \in Fds, k \in Events :
                           k \in events'[h] /\ context'[h][k] = u => h = g /\ k = f
                      /\ ~InList(u)' /\ ~InHand(u)'
    <3>1. CallbackDeliveredOnce' <=> OnceEach'
      BY OnceByEvent, PTL
    <3> QED
      BY <1>1, <3>1 DEF OnceEach, InList, InHand
  <2>1. CASE g = fd /\ f = e
    <3>1. u = t /\ t \notin scheduled
      BY <1>1, <1>2, <1>4, <2>1
    <3>2. /\ ~InList(t) /\ ~InHand(t)
          /\ \A h \in Fds, k \in AllEvents : context[h][k] # t
      BY <3>1 DEF OnceInv, FreshIsNowhere
    <3> QED
      BY <1>2, <1>3, <2>1, <3>1, <3>2
  <2>2. CASE ~(g = fd /\ f = e)
    <3>1. u = context[g][f] /\ f \in events[g] /\ state[u] = "INIT"
      BY <1>1, <1>2, <2>2
    <3>2. u \in Tasks /\ u \in scheduled
      BY <1>2, <3>1, RegisteredTask
    <3>3. u # t
      BY <1>4, <3>1, <3>2
    <3>4. /\ \A h \in Fds, k \in Events : k \in events[h] /\ context[h][k] = u => h = g /\ k = f
          /\ ~InList(u) /\ ~InHand(u)
      BY <3>1, OnceByEvent DEF OnceInv, OnceEach
    <3> QED
      BY <1>2, <1>3, <3>2, <3>3, <3>4
  <2> QED
    BY <2>1, <2>2
<1> QED
  BY <1>5, <1>6, <1>7 DEF OnceInv

LEMMA DeleteKeepsOnce ==
  ASSUME IInv, OnceInv, NEW c \in Threads, NEW fd \in Fds, NEW e \in Events, delEvent(c, fd, e)
  PROVE  OnceInv'
<1>1. /\ UNCHANGED <<m_fibers, pc, cur, state, scheduled>>
      /\ events' = [events EXCEPT ![fd] = @ \ {e}]
      /\ context' = [context EXCEPT ![fd][e] = NoTask]
  BY DEF delEvent, schedVars
<1>2. /\ \A g \in Fds, f \in AllEvents :
           context'[g][f] = IF g = fd /\ f = e THEN NoTask ELSE context[g][f]
      /\ \A g \in Fds, f \in Events : f \in events'[g] <=> f \in events[g] /\ ~(g = fd /\ f = e)
      /\ Events \subseteq AllEvents
  BY <1>1, IOAssumption DEF IInv, IOTypes, AllEvents
<1>3. FreshIsNowhere' /\ BegunIsNotInit'
  BY <1>1, <1>2, SchedulerAssumption DEF OnceInv, FreshIsNowhere, BegunIsNotInit, InList, InHand
<1>4. CallbackDeliveredOnce'
  <2>1. CallbackDeliveredOnce' <=> OnceEach'
    BY OnceByEvent, PTL
  <2>2. OnceEach'
    BY <1>1, <1>2, OnceByEvent DEF OnceInv, OnceEach, InList, InHand
  <2> QED
    BY <2>1, <2>2
<1> QED
  BY <1>3, <1>4 DEF OnceInv

LEMMA TriggerKeepsOnce ==
  ASSUME IInv, OnceInv, NEW fd \in Fds, NEW es \in SUBSET events[fd], triggerEvents(fd, es)
  PROVE  OnceInv'
<1>1. /\ UNCHANGED <<pc, cur, state, scheduled>>
      /\ events' = [events EXCEPT ![fd] = @ \ es]
      /\ context' = [context EXCEPT ![fd] = [e \in AllEvents |-> IF e \in es THEN NoTask ELSE @[e]]]
  BY DEF triggerEvents, unchangedSched
<1>2. /\ \A g \in Fds, f \in AllEvents :
           context'[g][f] = IF g = fd /\ f \in es THEN NoTask ELSE context[g][f]
      /\ \A g \in Fds, f \in Events : f \in events'[g] <=> f \in events[g] /\ ~(g = fd /\ f \in es)
      /\ Events \subseteq AllEvents /\ es \subseteq Events
  BY <1>1, IOAssumption DEF IInv, IOTypes, AllEvents
<1>3. \A u : InList(u)' <=> InList(u) \/ \E e \in es : context[fd][e] = u
  BY Triggered
<1>4. \A u : InHand(u)' <=> InHand(u)
  BY <1>1 DEF InHand
<1>5. \A e \in es : context[fd][e] \in scheduled
  BY <1>2, RegisteredTask
<1>6. FreshIsNowhere'
  BY <1>1, <1>2, <1>3, <1>4, <1>5, SchedulerAssumption DEF OnceInv, FreshIsNowhere
<1>7. BegunIsNotInit'
  BY <1>1 DEF OnceInv, BegunIsNotInit
<1>8. CallbackDeliveredOnce'
  <2>1. CallbackDeliveredOnce' <=> OnceEach'
    BY OnceByEvent, PTL
  <2>2. OnceEach
    BY OnceByEvent DEF OnceInv
  <2> SUFFICES ASSUME NEW g \in Fds, NEW f \in Events, NEW u, u = context'[g][f],
                      f \in events'[g], state'[u] = "INIT"
               PROVE  /\ \A h \in Fds, k \in Events :
                           k \in events'[h] /\ context'[h][k] = u => h = g /\ k = f
                      /\ ~InList(u)' /\ ~InHand(u)'
    BY <2>1 DEF OnceEach, InList, InHand
  <2>3. u = context[g][f] /\ f \in events[g] /\ state[u] = "INIT" /\ ~(g = fd /\ f \in es)
    BY <1>1, <1>2
  <2>4. /\ \A h \in Fds, k \in Events : k \in events[h] /\ context[h][k] = u => h = g /\ k = f
        /\ ~InList(u) /\ ~InHand(u)
    BY <2>2, <2>3 DEF OnceEach
  <2>5. \A e \in es : context[fd][e] # u
    BY <1>2, <2>3, <2>4
  <2>6. ~InList(u)' /\ ~InHand(u)'
    BY <1>3, <1>4, <2>4, <2>5
  <2>7. \A h \in Fds, k \in Events : k \in events'[h] /\ context'[h][k] = u => h = g /\ k = f
    BY <1>2, <2>4
  <2> QED
    BY <2>6, <2>7
<1> QED
  BY <1>6, <1>7, <1>8 DEF OnceInv

LEMMA NextOnce == IInv /\ OnceInv /\ [IONext]_vars => OnceInv'
<1> SUFFICES ASSUME IInv, OnceInv, [IONext]_vars PROVE OnceInv'
  OBVIOUS
<1>1. CASE (\E w \in Workers : IORun(w)) \/ IOMain \/ IOStop
  BY <1>1, Inherited, InheritedKeepsOnce DEF ioVars
<1>2. ASSUME UNCHANGED schedVars, UNCHANGED fdVars PROVE OnceInv'
  BY <1>2, MovesKeepOnce DEF schedVars, fdVars
<1>3. ASSUME NEW c \in Threads, tickle(c) PROVE OnceInv'
  BY <1>2, <1>3 DEF tickle
<1>4. ASSUME NEW c \in Threads, NEW fd \in Fds, NEW e \in Events,
             delEvent(c, fd, e) \/ cancelEvent(c, fd, e) \/ cancelAll(c, fd)
      PROVE  OnceInv'
  <2>1. CASE delEvent(c, fd, e)
    BY <2>1, DeleteKeepsOnce
  <2>2. CASE cancelEvent(c, fd, e) \/ cancelAll(c, fd)
    <3>1. PICK es \in SUBSET events[fd] : triggerEvents(fd, es)
      BY <2>2 DEF cancelEvent, cancelAll, cancel
    <3> QED
      BY <3>1, TriggerKeepsOnce
  <2> QED
    BY <1>4, <2>1, <2>2
<1>5. ASSUME NEW c \in Threads, NEW fd \in Fds, cancelAll(c, fd) PROVE OnceInv'
  <2>1. PICK es \in SUBSET events[fd] : triggerEvents(fd, es)
    BY <1>5 DEF cancelAll, cancel
  <2> QED
    BY <2>1, TriggerKeepsOnce
<1>6. ASSUME NEW w \in Workers, NEW fd \in Fds,
             HandleEvent(w, fd) \/ HandleStale(w, fd) \/ HandleFails(w, fd)
      PROVE  OnceInv'
  <2>1. CASE HandleEvent(w, fd)
    <3>1. PICK es \in SUBSET events[fd] : triggerEvents(fd, es)
      BY <2>1 DEF HandleEvent
    <3> QED
      BY <3>1, TriggerKeepsOnce
  <2>2. CASE HandleStale(w, fd)
    BY <1>2, <2>2 DEF HandleStale
  <2>3. CASE HandleFails(w, fd)
    BY <2>3, MovesKeepOnce DEF HandleFails, unchangedSched, known, ioVars
  <2> QED
    BY <1>6, <2>1, <2>2, <2>3
<1>7. ASSUME NEW w \in Workers, IdleCheck(w) \/ EpollWait(w) PROVE OnceInv'
  BY <1>2, <1>7 DEF IdleCheck, EpollWait
<1>8. ASSUME NEW w \in Workers, IdlePending(w) \/ IdleYield(w) PROVE OnceInv'
  <2>1. UNCHANGED <<m_fibers, cur, state, scheduled, events, context>>
    BY <1>8 DEF IdlePending, IdleYield, tasks, known, fdVars
  <2>2. \A v \in Workers : pc'[v] = pc[v] \/ pc'[v] = "unidle"
    BY <1>8 DEF IdlePending, IdleYield, Goto, IInv, CInv, TypeOK
  <2> QED
    BY <2>1, <2>2, MovesKeepOnce
<1>9. CASE UNCHANGED vars
  BY <1>2, <1>9 DEF vars, ioVars, fdVars
<1> QED
  BY <1>1, <1>3, <1>4, <1>5, <1>6, <1>7, <1>8, <1>9, AddKeepsOnce DEF IONext, IOCall, idle

LEMMA InitOnce == IOInit => OnceInv
<1> SUFFICES ASSUME IOInit PROVE OnceInv
  OBVIOUS
<1>1. /\ Registered = {} /\ m_fibers = <<>> /\ pc = [w \in Workers |-> "off"]
      /\ cur = [w \in Workers |-> NoTask]
      /\ context = [fd \in Fds |-> [e \in AllEvents |-> NoTask]]
  BY DEF IOInit, Init, Registered
<1> QED
  BY <1>1, SchedulerAssumption
     DEF OnceInv, FreshIsNowhere, BegunIsNotInit, CallbackDeliveredOnce, InList, InHand

\* A callback given to addEvent is in one place until it begins: in the one
\* context it was registered in, or in the list, or in one worker's hands,
\* whoever triggers, cancels or deletes the event at the same time.
THEOREM CallbacksAreDeliveredOnce == IOSpec => []CallbackDeliveredOnce
<1>1. OnceInv => CallbackDeliveredOnce
  BY DEF OnceInv
<1> QED
  BY <1>1, InitOnce, IInvInvariant, NextOnce, PTL DEF IOSpec

-----------------------------------------------------------------------------
(* The last worker, when no task uses YieldToReady                         *)

IdlePcInIdle == \A w \in Workers : pc[w] # "idle" => idlePc[w] = "check"

\* A worker that has left, or that has found the first half of stopping() true
\* and will leave unless the second half is false.  The two halves are read at
\* different times, so a worker may well leave while there is something to do:
\* the invariant says that not all of them do.
Leaving(w) == idleFiber[w] = "TERM" \/ idlePc[w] = "pending"

LastInv ==
  /\ SInv
  /\ IdlePcInIdle
  /\ (\A w \in Workers : Leaving(w)) => Quiet
  /\ (\A w \in Workers : idleFiber[w] = "TERM") => Registered = {}

\* While all workers are about to leave no thread can register, trigger or
\* handle anything.
LEMMA NobodyCalls ==
  ASSUME IInv, LastInv, \A w \in Workers : Leaving(w)
  PROVE  /\ \A c \in Threads : ~MayCall(c)
         /\ \A w \in Workers : ~(At(w, "idle") /\ idlePc[w] = "handle")
<1>1. Quiet
  BY DEF LastInv
<1>2. \A c \in Threads : ~MayCall(c)
  BY <1>1, IOAssumption DEF Quiet, MayCall, Threads, At, MainAt, Holding
<1>3. \A w \in Workers : ~(At(w, "idle") /\ idlePc[w] = "handle")
  BY DEF LastInv, SInv, IdleIsHold, Leaving, At
<1> QED
  BY <1>2, <1>3

\* Calls, and the handling of reported events.
LEMMA CallsKeepLast ==
  ASSUME IInv, LastInv, UNCHANGED unchangedSched, UNCHANGED idlePc,
         \/ \E c \in Threads : MayCall(c)
         \/ \E w \in Workers : At(w, "idle") /\ idlePc[w] = "handle"
  PROVE  LastInv'
<1>1. ~\A w \in Workers : Leaving(w)
  BY NobodyCalls
<1>2. \A w \in Workers : Leaving(w)' <=> Leaving(w)
  BY DEF Leaving, unchangedSched
<1>3. SInv' /\ IdlePcInIdle'
  BY DEF LastInv, SInv, NeverReady, FlagsFollowMain, ExitIsTerm, IdleIsHold, StoppedIsJoined,
         IdlePcInIdle, unchangedSched, flags
<1>4. ~\A w \in Workers : idleFiber'[w] = "TERM"
  BY <1>1 DEF Leaving, unchangedSched
<1> QED
  BY <1>1, <1>2, <1>3, <1>4 DEF LastInv

LEMMA InheritedKeepsLast ==
  ASSUME "READY" \notin Yields, IInv, LastInv,
         \/ \E w \in Workers : RunStep(w) \/ TaskStep(w)
         \/ start \/ StopAuto \/ StopStep
         \/ \E t \in Tasks, thread \in Targets : MainSchedule(t, thread) \/ MainResume(t, thread)
         \/ UNCHANGED schedVars,
         UNCHANGED <<events, idlePc>>
  PROVE  LastInv'
<1>1. [Next]_schedVars
  BY DEF Next, WorkerStep
<1>2. SInv'
  BY <1>1, NextSInv DEF IInv, LastInv
<1>3. UNCHANGED idleFiber /\ \A v \in Workers : pc[v] = "idle" => pc'[v] = "idle"
  <2> USE DEF Goto, At, MainAt, IInv, CInv, TypeOK
  <2>1. ASSUME NEW w \in Workers,
               \/ Pick(w) \/ PickNothing(w) \/ DropEnded(w) \/ SwapIn(w) \/ SwapInFails(w)
               \/ SwapOut(w)
        PROVE  UNCHANGED idleFiber /\ \A v \in Workers : pc[v] = "idle" => pc'[v] = "idle"
    BY <2>1 DEF Pick, PickNothing, DropEnded, SwapIn, SwapInFails, SwapOut
  <2>2. ASSUME NEW w \in Workers,
               Deactivate(w) \/ Settle(w) \/ EnterIdle(w) \/ LeaveIdle(w) \/ ExitRun(w)
        PROVE  UNCHANGED idleFiber /\ \A v \in Workers : pc[v] = "idle" => pc'[v] = "idle"
    BY <2>2 DEF Deactivate, Settle, EnterIdle, LeaveIdle, ExitRun
  <2>3. ASSUME NEW w \in Workers, TaskStep(w)
        PROVE  UNCHANGED idleFiber /\ \A v \in Workers : pc[v] = "idle" => pc'[v] = "idle"
    BY <2>3 DEF TaskStep, Spawn, Wake, Yield, SwitchTo, SwitchToHold, YieldFails, Return
  <2>4. ASSUME start
        PROVE  UNCHANGED idleFiber /\ \A v \in Workers : pc[v] = "idle" => pc'[v] = "idle"
    BY <2>4 DEF start, OffUntilStart
  <2>5. ASSUME \/ StopAuto \/ StopStep \/ UNCHANGED schedVars
               \/ \E t \in Tasks, thread \in Targets :
                    MainSchedule(t, thread) \/ MainResume(t, thread)
        PROVE  UNCHANGED idleFiber /\ \A v \in Workers : pc[v] = "idle" => pc'[v] = "idle"
    BY <2>5 DEF StopAuto, StopStep, StopFlag, StopJoin, schedVars, MainSchedule, MainResume
  <2> QED
    BY <2>1, <2>2, <2>3, <2>4, <2>5 DEF RunStep
<1>4. IdlePcInIdle'
  BY <1>3 DEF LastInv, IdlePcInIdle
<1>5. \A w \in Workers : Leaving(w)' <=> Leaving(w)
  BY <1>3 DEF Leaving
<1>6. (\A w \in Workers : Leaving(w)) => Quiet'
  BY <1>1, QuietStays DEF IInv, LastInv
<1>7. (\A w \in Workers : idleFiber'[w] = "TERM") => Registered' = {}
  BY <1>3 DEF LastInv, Registered
<1> QED
  BY <1>2, <1>4, <1>5, <1>6, <1>7 DEF LastInv

\* A worker in idle goes on without leaving.
LEMMA IdleGoesOn ==
  ASSUME IInv, LastInv, NEW w \in Workers, pc[w] = "idle",
         \A v \in Workers \ {w} : idlePc'[v] = idlePc[v] /\ pc'[v] = pc[v],
         idlePc'[w] # "pending",
         \/ pc'[w] = "idle"
         \/ pc'[w] = "unidle" /\ idlePc'[w] = "check",
         UNCHANGED <<m_fibers, counts, flags, tasks, cur, idleFiber, fault, events>>
  PROVE  LastInv'
<1>1. idleFiber'[w] = "HOLD"
  BY DEF LastInv, SInv, IdleIsHold
<1>2. ~Leaving(w)' /\ ~\A v \in Workers : idleFiber'[v] = "TERM"
  BY <1>1 DEF Leaving
<1>3. SInv' /\ IdlePcInIdle'
  BY <1>1 DEF LastInv, SInv, NeverReady, FlagsFollowMain, ExitIsTerm, IdleIsHold, StoppedIsJoined,
              IdlePcInIdle, flags, tasks, known
<1> QED
  BY <1>2, <1>3 DEF LastInv

LEMMA CheckKeepsLast ==
  ASSUME IInv, LastInv, NEW w \in Workers, IdleCheck(w)
  PROVE  LastInv'
<1>1. CASE ~stopping
  <2>1. idlePc'[w] = "wait" /\ \A v \in Workers \ {w} : idlePc'[v] = idlePc[v]
    BY <1>1 DEF IdleCheck, IInv, IOTypes
  <2>2. pc[w] = "idle" /\ UNCHANGED schedVars /\ UNCHANGED events
    BY DEF IdleCheck, At, fdVars
  <2>3. \A v \in Workers : pc'[v] = pc[v]
    BY <2>2 DEF schedVars
  <2> QED
    BY <2>1, <2>2, <2>3, IdleGoesOn DEF schedVars, counts, flags, tasks, known
<1>2. CASE stopping
  <2>1. Quiet
    BY <1>2, StoppingIsQuiet DEF IInv, LastInv
  <2>2. pc[w] = "idle" /\ UNCHANGED schedVars /\ UNCHANGED events
    BY DEF IdleCheck, At, fdVars
  <2>3. idlePc' = [idlePc EXCEPT ![w] = "pending"]
    BY <1>2 DEF IdleCheck
  <2>4. Quiet'
    BY <2>1, <2>2 DEF Quiet, schedVars
  <2>5. SInv'
    BY <2>2 DEF LastInv, SInv, NeverReady, FlagsFollowMain, ExitIsTerm, IdleIsHold,
                StoppedIsJoined, schedVars
  <2>6. IdlePcInIdle'
    BY <2>2, <2>3 DEF LastInv, IdlePcInIdle, schedVars, IInv, IOTypes
  <2>7. (\A v \in Workers : idleFiber'[v] = "TERM") => Registered' = {}
    BY <2>2 DEF LastInv, Registered, schedVars
  <2> QED
    BY <2>4, <2>5, <2>6, <2>7 DEF LastInv
<1> QED
  BY <1>1, <1>2

\* The worker that finds no event registered either leaves.
LEMMA PendingKeepsLast ==
  ASSUME IInv, LastInv, NEW w \in Workers, IdlePending(w)
  PROVE  LastInv'
<1> USE DEF fdVars
<1>0. pc[w] = "idle" /\ idlePc[w] = "pending" /\ Leaving(w)
  BY DEF IdlePending, At, Leaving
<1>1. CASE m_pendingEventCount # 0
  <2>1. idlePc'[w] = "wait" /\ \A v \in Workers \ {w} : idlePc'[v] = idlePc[v]
    BY <1>1 DEF IdlePending, IInv, IOTypes
  <2>2. /\ UNCHANGED <<pc, idleFiber>>
        /\ UNCHANGED <<m_fibers, counts, flags, tasks, cur, fault, events>>
    BY <1>1 DEF IdlePending
  <2> QED
    BY <1>0, <2>1, <2>2, IdleGoesOn
<1>2. CASE m_pendingEventCount = 0
  <2>1. /\ pc'[w] = "unidle" /\ idleFiber'[w] = "TERM" /\ idlePc'[w] = "check"
        /\ \A v \in Workers \ {w} :
             pc'[v] = pc[v] /\ idleFiber'[v] = idleFiber[v] /\ idlePc'[v] = idlePc[v]
        /\ UNCHANGED <<m_fibers, counts, flags, tasks, cur, fault, events>>
    BY <1>2 DEF IdlePending, IInv, IOTypes, CInv, TypeOK
  <2>2. (\A v \in Workers : Leaving(v)') => \A v \in Workers : Leaving(v)
    BY <1>0, <2>1 DEF Leaving
  <2>3. Quiet => Quiet'
    BY <2>1 DEF Quiet, Holding, flags
  <2>4. SInv'
    BY <1>0, <2>1 DEF LastInv, SInv, NeverReady, FlagsFollowMain, ExitIsTerm, IdleIsHold,
                      StoppedIsJoined, flags, tasks, known
  <2>5. IdlePcInIdle'
    BY <2>1 DEF LastInv, IdlePcInIdle
  <2>6. Registered' = {}
    <3>1. Registered = {}
      BY <1>2, FS_EmptySet DEF IInv, CountRegistered
    <3> QED
      BY <2>1, <3>1 DEF Registered
  <2> QED
    BY <2>2, <2>3, <2>4, <2>5, <2>6 DEF LastInv
<1> QED
  BY <1>1, <1>2

LEMMA NextLast ==
  ASSUME "READY" \notin Yields, IInv, LastInv, [IONext]_vars
  PROVE  LastInv'
<1> USE DEF fdVars, ioVars
<1>1. ASSUME NEW w \in Workers, IORun(w) PROVE LastInv'
  BY <1>1, InheritedKeepsLast DEF IORun
<1>2. CASE IOMain \/ IOStop
  BY <1>2, InheritedKeepsLast DEF IOMain, IOStop, StopStep
<1>3. ASSUME NEW c \in Threads, tickle(c) PROVE LastInv'
  BY <1>3, InheritedKeepsLast DEF tickle
<1>4. CASE IOCall
  <2>1. UNCHANGED unchangedSched /\ UNCHANGED idlePc /\ \E c \in Threads : MayCall(c)
    BY <1>4 DEF IOCall, addEvent, delEvent, cancelEvent, cancelAll, cancel, triggerEvents,
                unchangedSched, schedVars, counts, flags, Threads
  <2> QED
    BY <2>1, CallsKeepLast
<1>5. ASSUME NEW w \in Workers, NEW fd \in Fds,
             HandleEvent(w, fd) \/ HandleStale(w, fd) \/ HandleFails(w, fd)
      PROVE  LastInv'
  <2>1. UNCHANGED unchangedSched /\ UNCHANGED idlePc /\ At(w, "idle") /\ idlePc[w] = "handle"
    BY <1>5 DEF HandleEvent, HandleStale, HandleFails, triggerEvents, unchangedSched, schedVars,
                counts, flags
  <2> QED
    BY <2>1, CallsKeepLast
<1>6. ASSUME NEW w \in Workers, EpollWait(w) \/ IdleYield(w) PROVE LastInv'
  <2>1. /\ pc[w] = "idle" /\ idlePc'[w] # "pending"
        /\ \A v \in Workers \ {w} : idlePc'[v] = idlePc[v] /\ pc'[v] = pc[v]
        /\ \/ pc'[w] = "idle"
           \/ pc'[w] = "unidle" /\ idlePc'[w] = "check"
    BY <1>6 DEF EpollWait, IdleYield, At, Goto, schedVars, IInv, IOTypes, CInv, TypeOK
  <2>2. UNCHANGED <<m_fibers, counts, flags, tasks, cur, idleFiber, fault, events>>
    BY <1>6 DEF EpollWait, IdleYield, schedVars, counts, flags, tasks, known
  <2> QED
    BY <2>1, <2>2, IdleGoesOn
<1>7. CASE UNCHANGED vars
  BY <1>7, InheritedKeepsLast DEF vars
<1> QED
  BY <1>1, <1>2, <1>3, <1>4, <1>5, <1>6, <1>7, CheckKeepsLast, PendingKeepsLast DEF IONext, idle

\* While something is in the list or registered some worker has not left, even
\* though a worker that leaves has read the two halves of stopping() at
\* different times: what happens in between is the work of another worker,
\* which sees it.  This holds as long as no task uses YieldToReady.
THEOREM SomebodyStays ==
  ASSUME "READY" \notin Yields
  PROVE  IOSpec => []LastWorkerStays
<1>1. IOInit => LastInv
  BY InitSInv, SchedulerAssumption
     DEF IOInit, Init, LastInv, IdlePcInIdle, Leaving
<1>2. IInv /\ LastInv /\ [IONext]_vars => LastInv'
  BY NextLast
<1>3. LastInv => LastWorkerStays
  BY DEF LastInv, SInv, ExitIsTerm, Leaving, Quiet, LastWorkerStays
<1> QED
  BY <1>1, <1>2, <1>3, IInvInvariant, PTL DEF IOSpec

-----------------------------------------------------------------------------
(* The IOManager is an executor, too, until a task is scheduled early.  A  *)
(* task that is triggered is put in the list, and an operation that        *)
(* triggers both events of a descriptor puts both tasks there in one step. *)
(* That is early if a fiber which registered its event has not parked yet, *)
(* or waits for both events; it never is for callbacks, which are          *)
(* delivered once.                                                         *)

\* Everything the scheduler knows of its fibers, whether the process has
\* failed or not.
Places ==
  /\ Distinct /\ OneHand /\ HandOrList
  /\ ExecIffRunning
  /\ OnlyScheduled
  /\ NoSwitch

LEMMA PlacesAndFault == PInv <=> Places /\ NoFault
  BY DEF PInv, Places

\* A process that has failed stops.
LEMMA FailedStops ==
  ASSUME [Next]_schedVars, fault # "none"
  PROVE  UNCHANGED schedVars
<1> USE DEF Goto, At, MainAt
<1>1. ASSUME NEW w \in Workers PROVE ~RunStep(w)
  BY DEF RunStep, Pick, PickNothing, DropEnded, SwapIn, SwapInFails, SwapOut, Deactivate, Settle,
         EnterIdle, LeaveIdle, ExitRun
<1>2. ASSUME NEW w \in Workers PROVE ~TaskStep(w) /\ ~Idle(w)
  BY DEF TaskStep, Spawn, Wake, Yield, SwitchTo, SwitchToHold, YieldFails, Return, Idle
<1>3. ~start /\ ~StopAuto /\ ~StopStep
  BY DEF start, StopAuto, StopStep, StopFlag, StopJoin
<1>4. ASSUME NEW t \in Tasks, NEW thread \in Targets
      PROVE  ~MainSchedule(t, thread) /\ ~MainResume(t, thread)
  BY DEF MainSchedule, MainResume
<1> QED
  BY <1>1, <1>2, <1>3, <1>4 DEF Next, WorkerStep

-----------------------------------------------------------------------------
(* What a step of the IOManager is for the scheduler *)

\* A step that the fibers do not notice: registrations come and go.
Unnoticed ==
  /\ UNCHANGED <<m_fibers, cur, state, early>>
  /\ scheduled \subseteq scheduled'
  /\ \A w \in Workers : pc'[w] = pc[w] \/ (pc[w] = "idle" /\ pc'[w] = "unidle")

Triggers ==
  /\ fault = "none"
  /\ \E fd \in Fds : \E es \in SUBSET events[fd] : triggerEvents(fd, es)

LEMMA UnnoticedCalls ==
  ASSUME NEW c \in Threads, NEW fd \in Fds, NEW e \in Events,
         delEvent(c, fd, e) \/ (c \in Workers /\ \E t \in Tasks : addEvent(c, fd, e, t))
  PROVE  Unnoticed
  BY DEF delEvent, addEvent, schedVars, unchangedSched, Unnoticed

LEMMA UnnoticedIdle ==
  ASSUME IInv, NEW w \in Workers, idle(w), \A fd \in Fds : ~HandleEvent(w, fd)
  PROVE  Unnoticed
<1>1. UNCHANGED <<m_fibers, cur, state, scheduled, early>>
  <2>1. CASE IdleCheck(w) \/ EpollWait(w) \/ \E fd \in Fds : HandleStale(w, fd)
    BY <2>1 DEF IdleCheck, EpollWait, HandleStale, schedVars
  <2>2. CASE IdlePending(w) \/ IdleYield(w)
    BY <2>2 DEF IdlePending, IdleYield, tasks, known
  <2>3. CASE \E fd \in Fds : HandleFails(w, fd)
    BY <2>3 DEF HandleFails, unchangedSched, known
  <2> QED
    BY <2>1, <2>2, <2>3 DEF idle
<1>2. \A v \in Workers : pc'[v] = pc[v] \/ (pc[v] = "idle" /\ pc'[v] = "unidle")
  <2>1. CASE IdleCheck(w) \/ EpollWait(w) \/ \E fd \in Fds : HandleStale(w, fd)
    BY <2>1 DEF IdleCheck, EpollWait, HandleStale, schedVars
  <2>2. CASE IdlePending(w) \/ IdleYield(w)
    BY <2>2 DEF IdlePending, IdleYield, Goto, At, IInv, CInv, TypeOK
  <2>3. CASE \E fd \in Fds : HandleFails(w, fd)
    BY <2>3 DEF HandleFails, unchangedSched
  <2> QED
    BY <2>1, <2>2, <2>3 DEF idle
<1> QED
  BY <1>1, <1>2 DEF Unnoticed

LEMMA StepsForTheScheduler ==
  ASSUME IInv, [IONext]_vars
  PROVE  [Next]_schedVars \/ Triggers \/ Unnoticed
<1>1. CASE (\E w \in Workers : IORun(w)) \/ IOMain \/ IOStop
  BY <1>1, Inherited
<1>2. CASE UNCHANGED vars \/ \E c \in Threads : tickle(c)
  BY <1>2 DEF vars, tickle
<1>3. ASSUME NEW w \in Workers, idle(w) PROVE Triggers \/ Unnoticed
  <2>1. ASSUME NEW fd \in Fds, HandleEvent(w, fd) PROVE Triggers
    BY <2>1 DEF HandleEvent, At, Triggers
  <2> QED
    BY <1>3, <2>1, UnnoticedIdle
<1>4. ASSUME NEW c \in Threads, NEW fd \in Fds,
             cancelAll(c, fd) \/ \E e \in Events : cancelEvent(c, fd, e)
      PROVE  Triggers
  <2>1. PICK es \in SUBSET events[fd] : cancel(c, fd, es)
    BY <1>4 DEF cancelAll, cancelEvent
  <2> QED
    BY <2>1 DEF cancel, MayCall, MainAt, At, Triggers
<1>5. \A w \in Workers : w \in Threads
  BY DEF Threads
<1> QED
  BY <1>1, <1>2, <1>3, <1>4, <1>5, UnnoticedCalls DEF IONext, IOCall

-----------------------------------------------------------------------------
(* Several tasks put in the list at once *)

\* r is q with one further entry for each k in K, of task f[k]; at is where.
ExtendsAt(q, r, K, f, at) ==
  /\ r \in Seq(TaskEntry)
  /\ \A i \in DOMAIN q : i \in DOMAIN r /\ r[i] = q[i]
  /\ \A k \in K : at[k] \in DOMAIN r \ DOMAIN q /\ r[at[k]].task = f[k]
  /\ \A k, l \in K : at[k] = at[l] => k = l
  /\ \A i \in DOMAIN r \ DOMAIN q : \E k \in K : at[k] = i

Extends(q, r, K, f) == \E at : ExtendsAt(q, r, K, f, at)

LEMMA OneMore ==
  ASSUME NEW q \in Seq(TaskEntry), NEW r, NEW K, NEW f, Extends(q, r, K, f),
         NEW e \in TaskEntry, NEW m, m \notin K, e.task = f[m]
  PROVE  Extends(q, r \o <<e>>, K \cup {m}, f)
<1> DEFINE s == r \o <<e>>
           n == Len(r)
<1>0. PICK at : ExtendsAt(q, r, K, f, at)
  BY DEF Extends
<1>1. r \in Seq(TaskEntry) /\ <<e>> \in Seq(TaskEntry) /\ Len(<<e>>) = 1 /\ <<e>>[1] = e
  BY <1>0 DEF ExtendsAt
<1>2. /\ s \in Seq(TaskEntry) /\ Len(s) = n + 1
      /\ \A i \in 1 .. n + 1 : s[i] = IF i <= n THEN r[i] ELSE <<e>>[i - n]
  BY <1>1, ConcatProperties
<1>3. n \in Nat /\ DOMAIN r = 1 .. n /\ DOMAIN s = 1 .. n + 1
  BY <1>1, <1>2
<1>4. s = r \o <<e>>
  OBVIOUS
<1> HIDE DEF s, n
<1>5. s[n + 1] = e
  <2> DEFINE k == n + 1
  <2>1. k \in 1 .. n + 1 /\ ~(k <= n) /\ k - n = 1
    BY <1>3
  <2> HIDE DEF k
  <2>2. s[k] = <<e>>[k - n]
    BY <1>2, <2>1
  <2> QED
    BY <1>1, <2>1, <2>2 DEF k
<1>6. \A i \in DOMAIN r : i \in DOMAIN s /\ s[i] = r[i]
  BY <1>2, <1>3
<1>7. PICK x : x = n + 1
  OBVIOUS
<1>8. /\ \A i \in DOMAIN s : i \in DOMAIN r \/ i = x
      /\ x \in DOMAIN s /\ x \notin DOMAIN r /\ s[x].task = f[m]
  BY <1>3, <1>5, <1>7
<1>9. x \notin DOMAIN q
  BY <1>0, <1>8 DEF ExtendsAt
<1> DEFINE L == K \cup {m}
           to == [k \in L |-> IF k = m THEN x ELSE at[k]]
<1>10. to[m] = x /\ \A k \in K : to[k] = at[k] /\ to[k] # x
  BY <1>0, <1>8 DEF ExtendsAt
<1>11. \A k \in L : k = m \/ k \in K
  OBVIOUS
<1>12. m \in L /\ \A k \in K : k \in L
  OBVIOUS
<1> HIDE DEF L, to
<1>13. ExtendsAt(q, s, L, f, to)
  <2>1. s \in Seq(TaskEntry) /\ \A i \in DOMAIN q : i \in DOMAIN s /\ s[i] = q[i]
    BY <1>0, <1>2, <1>6 DEF ExtendsAt
  <2>2. \A k \in L : to[k] \in DOMAIN s \ DOMAIN q /\ s[to[k]].task = f[k]
    BY <1>0, <1>6, <1>8, <1>9, <1>10, <1>11 DEF ExtendsAt
  <2>3. \A k, l \in L : to[k] = to[l] => k = l
    BY <1>0, <1>10, <1>11 DEF ExtendsAt
  <2>4. \A i \in DOMAIN s \ DOMAIN q : \E k \in L : to[k] = i
    BY <1>0, <1>8, <1>10, <1>12 DEF ExtendsAt
  <2> QED
    BY <2>1, <2>2, <2>3, <2>4 DEF ExtendsAt
<1>14. Extends(q, s, L, f)
  BY <1>13 DEF Extends
<1> QED
  BY <1>4, <1>14 DEF L

\* The list after the events es of fd were triggered.
LEMMA TriggeredExtends ==
  ASSUME IInv, NEW fd \in Fds, NEW es \in SUBSET events[fd], triggerEvents(fd, es)
  PROVE  Extends(m_fibers, m_fibers', es, context[fd])
<1> DEFINE a == IF "READ" \in es THEN <<Entry(fd, "READ")>> ELSE <<>>
           b == IF "WRITE" \in es THEN <<Entry(fd, "WRITE")>> ELSE <<>>
           A == es \cap {"READ"}
           f == context[fd]
<1>1. es \subseteq Events /\ es \subseteq AllEvents /\ es \subseteq {"READ", "WRITE"}
  BY IOAssumption DEF IInv, IOTypes, AllEvents
<1>2. \A e \in es : Entry(fd, e) \in TaskEntry /\ Entry(fd, e).task = f[e]
  BY <1>1 DEF IInv, IOTypes, ContextMatchesEvents, Entry, TaskEntry
<1> HIDE DEF f
<1>4. m_fibers \in Seq(TaskEntry)
  BY DEF IInv, CInv, TypeOK, TaskEntry
<1>5. Extends(m_fibers, m_fibers, {}, f)
  BY <1>4 DEF Extends, ExtendsAt
<1>6. Extends(m_fibers, m_fibers \o a, A, f)
  <2>1. CASE "READ" \in es
    <3>1. A = {} \cup {"READ"}
      BY <2>1
    <3>2. Extends(m_fibers, m_fibers \o <<Entry(fd, "READ")>>, {} \cup {"READ"}, f)
      BY <1>2, <1>4, <1>5, <2>1, OneMore
    <3> QED
      BY <2>1, <3>1, <3>2
  <2>2. CASE "READ" \notin es
    <3>1. A = {} /\ m_fibers \o a = m_fibers
      BY <1>4, <2>2
    <3> QED
      BY <1>5, <3>1
  <2> QED
    BY <2>1, <2>2
<1>7. Extends(m_fibers, (m_fibers \o a) \o b, es, f)
  <2>1. CASE "WRITE" \in es
    <3>1. es = A \cup {"WRITE"} /\ "WRITE" \notin A
      BY <1>1, <2>1
    <3> DEFINE r == m_fibers \o a
    <3>2. Extends(m_fibers, r, A, f)
      BY <1>6
    <3>3. r \o b = r \o <<Entry(fd, "WRITE")>>
      BY <2>1
    <3> HIDE DEF r, A
    <3>4. Extends(m_fibers, r \o <<Entry(fd, "WRITE")>>, A \cup {"WRITE"}, f)
      BY <1>2, <1>4, <2>1, <3>1, <3>2, OneMore
    <3> QED
      BY <3>1, <3>3, <3>4 DEF r
  <2>2. CASE "WRITE" \notin es
    <3>1. m_fibers \o a \in Seq(TaskEntry)
      BY <1>6 DEF Extends, ExtendsAt
    <3>2. es = A
      BY <1>1, <2>2
    <3>3. (m_fibers \o a) \o b = m_fibers \o a
      <4> DEFINE r == m_fibers \o a
      <4>1. r \in Seq(TaskEntry) /\ b = <<>>
        BY <2>2, <3>1
      <4> HIDE DEF r, b
      <4>2. r \o b = r
        BY <4>1
      <4> QED
        BY <4>2 DEF r
    <3> QED
      BY <1>6, <3>2, <3>3
  <2> QED
    BY <2>1, <2>2
<1>8. m_fibers' = (m_fibers \o a) \o b
  BY DEF triggerEvents
<1> QED
  BY <1>7, <1>8 DEF f

\* What is put in the list is nowhere else, and put there once, exactly if
\* TriggersEarly does not find a fiber that is early: callbacks never are.
LEMMA TriggeredFree ==
  ASSUME IInv, OnceInv, NEW fd \in Fds, NEW es \in SUBSET events[fd], triggerEvents(fd, es)
  PROVE  ~TriggersEarly(fd, es) <=>
           /\ \A i \in DOMAIN m_fibers' \ DOMAIN m_fibers :
                ~InList(m_fibers'[i].task) /\ ~InHand(m_fibers'[i].task)
           /\ \A i, j \in DOMAIN m_fibers' \ DOMAIN m_fibers :
                m_fibers'[i].task = m_fibers'[j].task => i = j
<1> DEFINE f == context[fd]
<1>1. PICK at : ExtendsAt(m_fibers, m_fibers', es, f, at)
  BY TriggeredExtends DEF Extends
<1>2. ASSUME NEW e \in es, state[f[e]] = "INIT"
      PROVE  ~InList(f[e]) /\ ~InHand(f[e]) /\ \A k \in es : f[k] = f[e] => k = e
  <2>1. \A k \in es : k \in Events /\ k \in events[fd]
    BY DEF IInv, IOTypes
  <2> QED
    BY <1>2, <2>1, OnceByEvent DEF OnceInv, OnceEach
<1>3. TriggersEarly(fd, es) <=>
        \E e \in es : /\ state[f[e]] # "INIT"
                      /\ InList(f[e]) \/ InHand(f[e]) \/ \E k \in es \ {e} : f[k] = f[e]
  BY DEF TriggersEarly
<1> HIDE DEF f
<1>4. ~TriggersEarly(fd, es) <=>
        /\ \A e \in es : ~InList(f[e]) /\ ~InHand(f[e])
        /\ \A e, k \in es : f[k] = f[e] => k = e
  BY <1>2, <1>3
<1> DEFINE new == DOMAIN m_fibers' \ DOMAIN m_fibers
<1>5. /\ \A e \in es : at[e] \in new /\ m_fibers'[at[e]].task = f[e]
      /\ \A e, k \in es : at[e] = at[k] => e = k
      /\ \A i \in new : \E e \in es : at[e] = i
  BY <1>1 DEF ExtendsAt
<1> HIDE DEF new
<1>6. (\A e \in es : ~InList(f[e]) /\ ~InHand(f[e])) <=>
        \A i \in new : ~InList(m_fibers'[i].task) /\ ~InHand(m_fibers'[i].task)
  BY <1>5
<1>7. (\A e, k \in es : f[k] = f[e] => k = e) <=>
        \A i, j \in new : m_fibers'[i].task = m_fibers'[j].task => i = j
  BY <1>5
<1> QED
  BY <1>4, <1>6, <1>7 DEF new

LEMMA TriggersKeepPlaces ==
  ASSUME IInv, OnceInv, ~early, Places, Triggers
  PROVE  (~early' => Places') /\ Exec!Put
<1>1. PICK fd \in Fds : \E es \in SUBSET events[fd] : triggerEvents(fd, es)
  BY DEF Triggers
<1>2. PICK es \in SUBSET events[fd] : triggerEvents(fd, es)
  BY <1>1
<1> DEFINE free == ~TriggersEarly(fd, es)
           new == DOMAIN m_fibers' \ DOMAIN m_fibers
           T == {context[fd][e] : e \in es}
<1>3. m_fibers' \in Seq(TaskEntry) /\ \A i \in DOMAIN m_fibers : i \in DOMAIN m_fibers' /\ m_fibers'[i] = m_fibers[i]
  BY <1>2, TriggeredExtends DEF Extends, ExtendsAt
<1>4. free \in BOOLEAN /\ early' = ~free
  BY <1>2 DEF triggerEvents
<1>5. UNCHANGED <<pc, cur, state, scheduled>>
  BY <1>2 DEF triggerEvents, unchangedSched
<1>6. \A u : InList(u)' <=> InList(u) \/ u \in T
  BY <1>2, Triggered
<1>7. free <=> /\ \A i \in new : ~InList(m_fibers'[i].task) /\ ~InHand(m_fibers'[i].task)
               /\ \A i, j \in new : m_fibers'[i].task = m_fibers'[j].task => i = j
  BY <1>2, TriggeredFree
<1>8. \A t \in T : t \in Tasks /\ t \in scheduled
  <2>1. \A e \in es : e \in AllEvents /\ e \in events[fd]
    BY IOAssumption DEF IInv, IOTypes, AllEvents
  <2> QED
    BY <2>1, RegisteredTask
<1>9. \A i \in new : m_fibers'[i].task \in T
  BY <1>2, TriggeredExtends DEF Extends, ExtendsAt
<1>10. \A t \in T : \E i \in new : m_fibers'[i].task = t
  BY <1>2, TriggeredExtends DEF Extends, ExtendsAt
<1> HIDE DEF free, T
<1>11. Stages' = Stages /\ Ended' = Ended
  BY <1>5 DEF Stages, Stage, Ended
<1>12. Exec!Put
  BY <1>3, <1>4, <1>5, <1>7, <1>11, BatchIsShown
<1>13. ASSUME free PROVE Places'
  <2>1. \A u : InHand(u)' <=> InHand(u)
    BY <1>5 DEF InHand
  <2>2. \A t \in T : ~InList(t) /\ ~InHand(t)
    BY <1>7, <1>10, <1>13
  <2>3. Distinct'
    BY <1>3, <1>7, <1>13 DEF Places, Distinct, InList
  <2>4. HandOrList'
    BY <1>5, <1>6, <2>2 DEF Places, HandOrList, InHand
  <2>5. OneHand' /\ ExecIffRunning' /\ NoSwitch'
    BY <1>5 DEF Places, OneHand, ExecIffRunning, NoSwitch
  <2>6. OnlyScheduled'
    BY <1>5, <1>6, <1>8, <2>1 DEF Places, OnlyScheduled
  <2> QED
    BY <2>3, <2>4, <2>5, <2>6 DEF Places
<1> QED
  BY <1>4, <1>12, <1>13

LEMMA UnnoticedKeepsPlaces ==
  ASSUME IInv, Unnoticed
  PROVE  (Places => Places') /\ UNCHANGED <<m_fibers, cur, Stages, Ended, early>>
<1>1. Places => Places'
  BY DEF Unnoticed, Places, Distinct, OneHand, HandOrList, ExecIffRunning, OnlyScheduled, NoSwitch,
         InList, InHand
<1>2. UNCHANGED <<m_fibers, cur, Stages, Ended, early>>
  BY NotShown DEF Unnoticed, IInv
<1> QED
  BY <1>1, <1>2

LEMMA SchedulerKeepsPlaces ==
  ASSUME IInv, ~early, Places, [Next]_schedVars
  PROVE  (~early' => Places') /\ [Exec!Next]_<<m_fibers, cur, Stages, Ended, early>>
<1>1. CASE fault = "none"
  <2>1. PInv /\ CInv
    BY <1>1, PlacesAndFault DEF NoFault, IInv
  <2>2. ~early' => PInv'
    BY <2>1, NextPInv
  <2>3. ~early' => Places'
    BY <2>2 DEF PInv, Places
  <2> QED
    BY <2>1, <2>3, NextIsShown
<1>2. CASE fault # "none"
  <2>1. UNCHANGED schedVars
    BY <1>2, FailedStops
  <2>2. UNCHANGED <<m_fibers, cur, Stages, Ended, early>>
    BY <2>1, NotShown DEF schedVars, IInv
  <2>3. Places'
    BY <2>1 DEF schedVars, Places, Distinct, OneHand, HandOrList, ExecIffRunning, OnlyScheduled,
                NoSwitch, InList, InHand
  <2> QED
    BY <2>2, <2>3
<1> QED
  BY <1>1, <1>2

\* The inductive invariant: everything is in its place until a task is early.
IOPlaces == ~early => Places

LEMMA NextIOPlaces ==
  ASSUME IInv, OnceInv, IOPlaces, [IONext]_vars
  PROVE  IOPlaces' /\ [Exec!Next]_<<m_fibers, cur, Stages, Ended, early>>
<1>1. CASE early
  <2>1. ASSUME [Next]_schedVars PROVE early'
    BY <1>1, <2>1, EarlyStays
  <2>2. ASSUME Triggers PROVE early'
    BY <1>1, <2>2 DEF Triggers, triggerEvents
  <2>3. ASSUME Unnoticed PROVE early'
    BY <1>1, <2>3 DEF Unnoticed
  <2>4. early'
    BY <2>1, <2>2, <2>3, StepsForTheScheduler
  <2> QED
    BY <1>1, <2>4 DEF IOPlaces, Exec!Next
<1>2. CASE ~early
  <2>1. CASE [Next]_schedVars
    BY <1>2, <2>1, SchedulerKeepsPlaces DEF IOPlaces
  <2>2. CASE Triggers
    BY <1>2, <2>2, TriggersKeepPlaces DEF IOPlaces, Exec!Next
  <2>3. CASE Unnoticed
    BY <1>2, <2>3, UnnoticedKeepsPlaces DEF IOPlaces
  <2> QED
    BY <2>1, <2>2, <2>3, StepsForTheScheduler
<1> QED
  BY <1>1, <1>2

LEMMA InitIOPlaces == IOInit => IOPlaces
  BY InitPInv, PlacesAndFault DEF IOInit, IOPlaces

LEMMA IOPlacesInvariant == IOSpec => [](IInv /\ OnceInv /\ IOPlaces)
<1>1. IInv /\ OnceInv /\ IOPlaces /\ [IONext]_vars => IOPlaces'
  BY NextIOPlaces
<1> QED
  BY <1>1, InitIOPlaces, InitOnce, IInvInvariant, NextOnce, PTL DEF IOSpec

\* Until a task is early a fiber is in one place under the IOManager, too:
\* whoever triggers the two events of a descriptor, cancels them or deletes
\* them at the same time, no task gets into the list twice and none that a
\* worker runs gets there.
THEOREM IOFiberIsInOnePlace == IOSpec => []FiberInOnePlace
<1>1. IOPlaces => FiberInOnePlace
  BY DEF IOPlaces, Places, Distinct, OneHand, HandOrList, FiberInOnePlace
<1> QED
  BY <1>1, IOPlacesInvariant, PTL

\* ... and a fiber that yields is in state EXEC.
THEOREM IORunningFibersAreExec == IOSpec => [](~early => RunningIsExec)
<1>1. IInv /\ IOPlaces => (~early => RunningIsExec)
  <2> SUFFICES ASSUME IInv, Places PROVE RunningIsExec
    BY DEF IOPlaces
  <2>1. \A w \in Workers : pc[w] = "run" => cur[w] \in Tasks
    BY SchedulerAssumption DEF IInv, CInv, InHandWhenBusy, TypeOK, Holding
  <2> QED
    BY <2>1 DEF Places, NoSwitch, ExecIffRunning, RunningIsExec
<1> QED
  BY <1>1, IOPlacesInvariant, PTL

\* A fiber that is READY or EXEC is never forgotten under the IOManager, early
\* or not.
THEOREM IOFibersAreKept == IOSpec => []ReadyIsNotLost
<1>1. IOInit => ReadyIsNotLost
  BY DEF IOInit, Init, ReadyIsNotLost
<1>2. ASSUME IInv, ReadyIsNotLost, [IONext]_vars PROVE ReadyIsNotLost'
  <2>1. CASE [Next]_schedVars
    BY <1>2, <2>1, NextReady DEF IInv
  <2>2. CASE Triggers
    <3>1. PICK fd \in Fds : \E es \in SUBSET events[fd] : triggerEvents(fd, es)
      BY <2>2 DEF Triggers
    <3>2. UNCHANGED <<cur, state>>
      BY <3>1 DEF triggerEvents, unchangedSched
    <3>3. \A u : InList(u) => InList(u)'
      BY <1>2, <3>1, Triggered
    <3> QED
      BY <1>2, <3>2, <3>3 DEF ReadyIsNotLost, InHand
  <2>3. CASE Unnoticed
    BY <1>2, <2>3 DEF Unnoticed, ReadyIsNotLost, InList, InHand
  <2> QED
    BY <1>2, <2>1, <2>2, <2>3, StepsForTheScheduler
<1> QED
  BY <1>1, <1>2, IInvInvariant, PTL DEF IOSpec

\* The IOManager keeps the promise of an executor until a task is early: a
\* callback that is triggered is put in the list once, while it is nowhere
\* else; a fiber that waits for an event is, too, unless the event comes before
\* it has parked; and nothing that idle, addEvent, delEvent or tickle do is
\* seen by an executor.
THEOREM IOManagerIsExecutor == IOSpec => ImplementsExecutor
<1>1. IOInit => Exec!Init
  BY SchedulerAssumption DEF IOInit, Init, Exec!Init, Stage
<1>2. IInv /\ OnceInv /\ IOPlaces /\ [IONext]_vars => [Exec!Next]_Exec!evars
  <2>1. [Exec!Next]_<<m_fibers, cur, Stages, Ended, early>> => [Exec!Next]_Exec!evars
    BY DEF Exec!evars, Stages, Ended
  <2> QED
    BY <2>1, NextIOPlaces
<1> QED
  BY <1>1, <1>2, IOPlacesInvariant, PTL DEF IOSpec, ImplementsExecutor, Exec!Spec
=============================================================================
