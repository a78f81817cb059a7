-------------------------- MODULE Scheduler_proofs --------------------------
(***************************************************************************)
(* Theorems about Scheduler.tla, for every number of workers and tasks.    *)
(*                                                                         *)
(* The first part holds for all the ways in which tasks may yield and be  *)
(* scheduled: types, and the two counters.  m_activeThreadCount stays in   *)
(* its type only because it counts the workers that hold a task, so the    *)
(* two are proved together; and a fiber that is READY is not forgotten.    *)
(*                                                                         *)
(* The second part is about what the scheduler does as long as no task is  *)
(* scheduled early, that is while the list or a worker still has it (by    *)
(* switchTo, or by somebody who resumes a fiber too soon): a fiber is in   *)
(* one place, in the state that belongs to this place, no assertion of the *)
(* fiber layer fails, and the scheduler implements the abstract Executor.  *)
(*                                                                         *)
(* The third part is about stop().  It excludes YieldToReady instead,      *)
(* which breaks it (SchedulerStranded.cfg shows how): when stop() returns  *)
(* nothing is left in the list and no task is in the middle of its work.   *)
(***************************************************************************)
EXTENDS Scheduler, FiniteSetTheorems, SequenceTheorems, TLAPS

TaskEntry == [task : Tasks, thread : Workers \cup {AnyThread}]

-----------------------------------------------------------------------------
(* Sequences and counting *)

LEMMA AppendEntry ==
  ASSUME NEW S, NEW q \in Seq(S), NEW e \in S
  PROVE  /\ Append(q, e) \in Seq(S)
         /\ DOMAIN Append(q, e) = 1 .. Len(q) + 1
         /\ DOMAIN q = 1 .. Len(q) /\ Len(q) \in Nat
         /\ \A i \in DOMAIN q : Append(q, e)[i] = q[i]
         /\ Append(q, e)[Len(q) + 1] = e
  OBVIOUS

LEMMA RemoveEntry ==
  ASSUME NEW S, NEW q \in Seq(S), NEW i \in DOMAIN q
  PROVE  /\ RemoveAt(q, i) \in Seq(S)
         /\ DOMAIN RemoveAt(q, i) = 1 .. Len(q) - 1
         /\ DOMAIN q = 1 .. Len(q) /\ Len(q) \in Nat
         /\ \A j \in 1 .. Len(q) - 1 : RemoveAt(q, i)[j] = IF j < i THEN q[j] ELSE q[j + 1]
<1> DEFINE a == SubSeq(q, 1, i - 1)
           b == SubSeq(q, i + 1, Len(q))
<1>1. Len(q) \in Nat /\ i \in 1 .. Len(q) /\ \A j \in 1 .. Len(q) : q[j] \in S
  OBVIOUS
<1>2. /\ a \in Seq(S) /\ Len(a) = i - 1
      /\ \A j \in 1 .. i - 1 : a[j] = q[j]
  <2>1. \A j \in 1 .. i - 1 : q[j] \in S
    BY <1>1
  <2> QED
    BY <1>1, <2>1, SubSeqProperties
<1>3. /\ b \in Seq(S) /\ Len(b) = Len(q) - i
      /\ \A j \in 1 .. Len(q) - i : b[j] = q[i + j]
  <2>1. \A j \in i + 1 .. Len(q) : q[j] \in S
    BY <1>1
  <2>2. /\ b \in Seq(S)
        /\ Len(b) = IF i + 1 <= Len(q) THEN Len(q) - (i + 1) + 1 ELSE 0
        /\ \A j \in 1 .. Len(q) - (i + 1) + 1 : b[j] = q[i + 1 + j - 1]
    BY <1>1, <2>1, SubSeqProperties
  <2> QED
    BY <1>1, <2>2
<1> HIDE DEF a, b
<1>4. /\ a \o b \in Seq(S)
      /\ Len(a \o b) = Len(a) + Len(b)
      /\ \A j \in 1 .. Len(a) + Len(b) : (a \o b)[j] = IF j <= Len(a) THEN a[j] ELSE b[j - Len(a)]
  BY <1>2, <1>3, ConcatProperties
<1>5. RemoveAt(q, i) = a \o b
  BY DEF RemoveAt, a, b
<1>6. Len(a) + Len(b) = Len(q) - 1 /\ Len(a) = i - 1
  BY <1>1, <1>2, <1>3
<1>7. ASSUME NEW j \in 1 .. Len(q) - 1
      PROVE  (a \o b)[j] = IF j < i THEN q[j] ELSE q[j + 1]
  <2>1. CASE j < i
    BY <1>1, <1>2, <1>4, <1>6, <2>1
  <2>2. CASE ~(j < i)
    <3>1. (a \o b)[j] = b[j - (i - 1)]
      BY <1>1, <1>4, <1>6, <2>2
    <3>2. j - (i - 1) \in 1 .. Len(q) - i /\ i + (j - (i - 1)) = j + 1
      BY <1>1, <2>2
    <3> QED
      BY <1>3, <2>2, <3>1, <3>2
  <2> QED
    BY <2>1, <2>2
<1> DEFINE r == a \o b
<1>8. r \in Seq(S) /\ Len(r) = Len(q) - 1
  BY <1>4, <1>6
<1>9. \A j \in 1 .. Len(q) - 1 : r[j] = IF j < i THEN q[j] ELSE q[j + 1]
  BY <1>7
<1> HIDE DEF r
<1>10. DOMAIN r = 1 .. Len(q) - 1
  BY <1>8
<1>11. DOMAIN q = 1 .. Len(q)
  OBVIOUS
<1>12. RemoveAt(q, i) = r
  BY <1>5 DEF r
<1> QED
  BY <1>1, <1>8, <1>9, <1>10, <1>11, <1>12

\* Two sets of workers that differ at most in worker w.
LEMMA CountStep ==
  ASSUME NEW w \in Workers, NEW F \in SUBSET Workers, NEW G \in SUBSET Workers,
         \A v \in Workers \ {w} : v \in F <=> v \in G
  PROVE  /\ Cardinality(F) \in Nat
         /\ (w \in F <=> w \in G) => Cardinality(G) = Cardinality(F)
         /\ w \notin F /\ w \in G => Cardinality(G) = Cardinality(F) + 1
         /\ w \in F /\ w \notin G => Cardinality(G) = Cardinality(F) - 1 /\ Cardinality(F) > 0
<1>1. IsFiniteSet(F)
  BY SchedulerAssumption, FS_Subset
<1>2. Cardinality(F) \in Nat
  BY <1>1, FS_CardinalityType
<1>3. CASE w \in F <=> w \in G
  <2>1. F = G
    BY <1>3
  <2> QED
    BY <1>2, <1>3, <2>1
<1>4. CASE w \notin F /\ w \in G
  <2>1. G = F \cup {w}
    BY <1>4
  <2> QED
    BY <1>1, <1>2, <1>4, <2>1, FS_AddElement
<1>5. CASE w \in F /\ w \notin G
  <2>1. G = F \ {w}
    BY <1>5
  <2>2. Cardinality(F) # 0
    BY <1>1, <1>5, FS_EmptySet
  <2> QED
    BY <1>1, <1>2, <1>5, <2>1, <2>2, FS_RemoveElement
<1> QED
  BY <1>2, <1>3, <1>4, <1>5

-----------------------------------------------------------------------------
(* Types and counters *)

\* Which positions go with a task in hand, and that start() has not been
\* called while the owner is in its first state.
InHandWhenBusy ==
  \A w \in Workers : cur[w] # NoTask <=> pc[w] \in Holding \cup {"settle"}

OffUntilStart == main = "new" => \A w \in Workers : pc[w] = "off"

CInv == TypeOK /\ CountersAgree /\ InHandWhenBusy /\ OffUntilStart

Idling == {"idle", "unidle"}
InPosition(P) == {w \in Workers : pc[w] \in P}
NumHolding == Cardinality(InPosition(Holding))
NumIdling == Cardinality(InPosition(Idling))

LEMMA CountersAgreeAsCounts ==
  CountersAgree <=> m_activeThreadCount = NumHolding /\ m_idleThreadCount = NumIdling
  BY DEF CountersAgree, NumHolding, NumIdling, InPosition, Idling

LEMMA InitCInv == Init => CInv
<1> SUFFICES ASSUME Init PROVE CInv
  OBVIOUS
<1> USE SchedulerAssumption DEF Init
<1>1. m_fibers \in Seq([task : Tasks, thread : Workers \cup {AnyThread}])
  OBVIOUS
<1>2. state \in [Tasks -> FiberState] /\ yielded \in [Tasks -> 0 .. MaxYields]
  BY DEF FiberState
<1>3. pc \in [Workers -> WorkerPC] /\ cur \in [Workers -> Tasks \cup {NoTask}]
  BY DEF WorkerPC
<1>4. idleFiber \in [Workers -> {"HOLD", "TERM"}]
  OBVIOUS
<1>a. resumed \in 0 .. MaxResumes
  OBVIOUS
<1>b. early \in BOOLEAN
  OBVIOUS
<1>5. TypeOK
  BY <1>1, <1>2, <1>3, <1>4, <1>a, <1>b DEF TypeOK
<1>6. {w \in Workers : pc[w] \in Holding} = {} /\ {w \in Workers : pc[w] \in Idling} = {}
  BY DEF Holding, Idling
<1>7. CountersAgree
  BY <1>6, FS_EmptySet DEF CountersAgree, Idling
<1> QED
  BY <1>5, <1>7 DEF CInv, InHandWhenBusy, OffUntilStart, Holding

\* What every step of a worker that goes from one position to another does to
\* the counts.
LEMMA MoveCounts ==
  ASSUME CInv, NEW w \in Workers, NEW from, NEW to, Goto(w, from, to)
  PROVE  /\ m_activeThreadCount \in Nat /\ m_idleThreadCount \in Nat
         /\ pc[w] = from
         /\ (from \in Holding <=> to \in Holding) => NumHolding' = m_activeThreadCount
         /\ from \notin Holding /\ to \in Holding =>
              NumHolding' = m_activeThreadCount + 1
         /\ from \in Holding /\ to \notin Holding =>
              NumHolding' = m_activeThreadCount - 1 /\ m_activeThreadCount > 0
         /\ (from \in Idling <=> to \in Idling) => NumIdling' = m_idleThreadCount
         /\ from \notin Idling /\ to \in Idling => NumIdling' = m_idleThreadCount + 1
         /\ from \in Idling /\ to \notin Idling =>
              NumIdling' = m_idleThreadCount - 1 /\ m_idleThreadCount > 0
<1>1. pc \in [Workers -> WorkerPC] /\ pc[w] = from /\ pc' = [pc EXCEPT ![w] = to]
  BY DEF CInv, TypeOK, Goto, At
<1>2. m_activeThreadCount = NumHolding /\ m_idleThreadCount = NumIdling
  BY CountersAgreeAsCounts DEF CInv
<1>3. /\ NumHolding \in Nat
      /\ (from \in Holding <=> to \in Holding) => NumHolding' = NumHolding
      /\ from \notin Holding /\ to \in Holding => NumHolding' = NumHolding + 1
      /\ from \in Holding /\ to \notin Holding => NumHolding' = NumHolding - 1 /\ NumHolding > 0
  <2> DEFINE F == InPosition(Holding)
             G == F'
  <2>1. /\ F \in SUBSET Workers /\ G \in SUBSET Workers
        /\ \A v \in Workers \ {w} : v \in F <=> v \in G
        /\ w \in F <=> from \in Holding
        /\ w \in G <=> to \in Holding
    BY <1>1 DEF InPosition
  <2>2. NumHolding = Cardinality(F) /\ NumHolding' = Cardinality(G)
    BY DEF NumHolding
  <2> HIDE DEF F, G
  <2> QED
    BY <2>1, <2>2, CountStep
<1>4. /\ NumIdling \in Nat
      /\ (from \in Idling <=> to \in Idling) => NumIdling' = NumIdling
      /\ from \notin Idling /\ to \in Idling => NumIdling' = NumIdling + 1
      /\ from \in Idling /\ to \notin Idling => NumIdling' = NumIdling - 1 /\ NumIdling > 0
  <2> DEFINE F == InPosition(Idling)
             G == F'
  <2>1. /\ F \in SUBSET Workers /\ G \in SUBSET Workers
        /\ \A v \in Workers \ {w} : v \in F <=> v \in G
        /\ w \in F <=> from \in Idling
        /\ w \in G <=> to \in Idling
    BY <1>1 DEF InPosition
  <2>2. NumIdling = Cardinality(F) /\ NumIdling' = Cardinality(G)
    BY DEF NumIdling
  <2> HIDE DEF F, G
  <2> QED
    BY <2>1, <2>2, CountStep
<1> QED
  BY <1>1, <1>2, <1>3, <1>4

\* Steps that keep the counts of workers, or change them as the counters.
LEMMA NextCounters == CInv /\ [Next]_schedVars => CountersAgree'
<1> SUFFICES ASSUME CInv, [Next]_schedVars PROVE CountersAgree'
  OBVIOUS
<1>0. CountersAgree' <=>
        m_activeThreadCount' = NumHolding' /\ m_idleThreadCount' = NumIdling'
  BY DEF CountersAgree, NumHolding, NumIdling, InPosition, Idling
<1> USE DEF counts
<1>1. ASSUME NEW w \in Workers, Pick(w) PROVE CountersAgree'
  <2>1. Goto(w, "pick", "dispatch")
    BY <1>1 DEF Pick
  <2> QED
    BY <1>0, <1>1, <2>1, MoveCounts DEF Pick, Holding, Idling
<1>2. ASSUME NEW w \in Workers, PickNothing(w) PROVE CountersAgree'
  <2>1. Goto(w, "pick", "none")
    BY <1>2 DEF PickNothing
  <2> QED
    BY <1>0, <1>2, <2>1, MoveCounts DEF PickNothing, Holding, Idling
<1>3. ASSUME NEW w \in Workers, DropEnded(w) PROVE CountersAgree'
  <2>1. Goto(w, "dispatch", "pick")
    BY <1>3 DEF DropEnded
  <2> QED
    BY <1>0, <1>3, <2>1, MoveCounts DEF DropEnded, Holding, Idling
<1>4. ASSUME NEW w \in Workers, SwapIn(w) PROVE CountersAgree'
  <2>1. Goto(w, "dispatch", "run")
    BY <1>4 DEF SwapIn
  <2> QED
    BY <1>0, <1>4, <2>1, MoveCounts DEF SwapIn, Holding, Idling
<1>5. ASSUME NEW w \in Workers, SwapOut(w) PROVE CountersAgree'
  <2>1. Goto(w, "out", "back")
    BY <1>5 DEF SwapOut
  <2> QED
    BY <1>0, <1>5, <2>1, MoveCounts DEF SwapOut, Holding, Idling
<1>6. ASSUME NEW w \in Workers, Deactivate(w) PROVE CountersAgree'
  <2>1. Goto(w, "back", "settle")
    BY <1>6 DEF Deactivate
  <2> QED
    BY <1>0, <1>6, <2>1, MoveCounts DEF Deactivate, Holding, Idling
<1>7. ASSUME NEW w \in Workers, Settle(w) PROVE CountersAgree'
  <2>1. Goto(w, "settle", "pick")
    BY <1>7 DEF Settle
  <2> QED
    BY <1>0, <1>7, <2>1, MoveCounts DEF Settle, Holding, Idling
<1>8. ASSUME NEW w \in Workers, EnterIdle(w) PROVE CountersAgree'
  <2>1. Goto(w, "none", "idle")
    BY <1>8 DEF EnterIdle
  <2> QED
    BY <1>0, <1>8, <2>1, MoveCounts DEF EnterIdle, Holding, Idling
<1>9. ASSUME NEW w \in Workers, LeaveIdle(w) PROVE CountersAgree'
  <2>1. Goto(w, "unidle", "pick")
    BY <1>9 DEF LeaveIdle
  <2> QED
    BY <1>0, <1>9, <2>1, MoveCounts DEF LeaveIdle, Holding, Idling
<1>10. ASSUME NEW w \in Workers, ExitRun(w) PROVE CountersAgree'
  <2>1. Goto(w, "none", "exit")
    BY <1>10 DEF ExitRun
  <2> QED
    BY <1>0, <1>10, <2>1, MoveCounts DEF ExitRun, Holding, Idling
<1>11. ASSUME NEW w \in Workers, Idle(w) PROVE CountersAgree'
  <2>1. Goto(w, "idle", "unidle")
    BY <1>11 DEF Idle
  <2> QED
    BY <1>0, <1>11, <2>1, MoveCounts DEF Idle, Holding, Idling
<1>12. ASSUME NEW w \in Workers,
              \/ \E s \in {"READY", "HOLD"} : Yield(w, s)
              \/ \E s \in {"TERM", "EXCEPT"} : Return(w, s)
       PROVE  CountersAgree'
  <2>1. Goto(w, "run", "out") /\ UNCHANGED counts
    BY <1>12 DEF Yield, Return
  <2> QED
    BY <1>0, <2>1, MoveCounts DEF Holding, Idling
<1>13. ASSUME NEW w \in Workers, \E thread \in Targets : SwitchTo(w, thread) PROVE CountersAgree'
  <2>1. Goto(w, "run", "switch") /\ UNCHANGED counts
    BY <1>13 DEF SwitchTo
  <2> QED
    BY <1>0, <2>1, MoveCounts DEF Holding, Idling
<1>14. ASSUME NEW w \in Workers, SwitchToHold(w) PROVE CountersAgree'
  <2>1. Goto(w, "switch", "out") /\ UNCHANGED counts
    BY <1>14 DEF SwitchToHold
  <2> QED
    BY <1>0, <2>1, MoveCounts DEF Holding, Idling
<1>15. ASSUME UNCHANGED <<pc, m_activeThreadCount, m_idleThreadCount>> PROVE CountersAgree'
  BY <1>15 DEF CInv, CountersAgree
<1>16. ASSUME start PROVE CountersAgree'
  <2>1. /\ \A w \in Workers : pc[w] = "off" /\ pc'[w] = "pick"
        /\ UNCHANGED counts
    BY <1>16 DEF start, MainAt, CInv, OffUntilStart
  <2>2. /\ {w \in Workers : pc'[w] \in Holding} = {w \in Workers : pc[w] \in Holding}
        /\ {w \in Workers : pc'[w] \in Idling} = {w \in Workers : pc[w] \in Idling}
    BY <2>1 DEF Holding, Idling
  <2> QED
    BY <2>1, <2>2 DEF CInv, CountersAgree, Idling
<1>17. ASSUME NEW w \in Workers,
              \/ SwapInFails(w) \/ YieldFails(w)
              \/ \E t \in Tasks, thread \in Targets : Spawn(w, t, thread) \/ Wake(w, t, thread)
       PROVE  UNCHANGED <<pc, m_activeThreadCount, m_idleThreadCount>>
  BY <1>17 DEF SwapInFails, YieldFails, Spawn, Wake
<1>18. ASSUME \/ StopStep \/ StopAuto
              \/ \E t \in Tasks, thread \in Targets :
                   MainSchedule(t, thread) \/ MainResume(t, thread)
              \/ UNCHANGED schedVars
       PROVE  UNCHANGED <<pc, m_activeThreadCount, m_idleThreadCount>>
  BY <1>18 DEF StopStep, StopFlag, StopJoin, StopAuto, MainSchedule, MainResume, schedVars
<1> QED
  BY <1>1, <1>2, <1>3, <1>4, <1>5, <1>6, <1>7, <1>8, <1>9, <1>10, <1>11, <1>12, <1>13, <1>14,
     <1>15, <1>16, <1>17, <1>18
     DEF Next, WorkerStep, RunStep, TaskStep

LEMMA ListEntries ==
  ASSUME TypeOK, NEW i \in DOMAIN m_fibers
  PROVE  m_fibers[i] \in TaskEntry /\ m_fibers[i].task \in Tasks
<1>1. m_fibers \in Seq(TaskEntry)
  BY DEF TypeOK, TaskEntry
<1>2. m_fibers[i] \in TaskEntry
  BY <1>1
<1> QED
  BY <1>2 DEF TaskEntry

LEMMA CountsStayNatural ==
  ASSUME CInv, NEW w \in Workers
  PROVE  /\ DropEnded(w) \/ Deactivate(w) => m_activeThreadCount' \in Nat
         /\ LeaveIdle(w) => m_idleThreadCount' \in Nat
<1>1. ASSUME Goto(w, "dispatch", "pick") \/ Goto(w, "back", "settle")
      PROVE  m_activeThreadCount \in Nat /\ m_activeThreadCount > 0
  BY <1>1, MoveCounts DEF Holding
<1>2. ASSUME Goto(w, "unidle", "pick")
      PROVE  m_idleThreadCount \in Nat /\ m_idleThreadCount > 0
  BY <1>2, MoveCounts DEF Idling
<1> QED
  BY <1>1, <1>2 DEF DropEnded, Deactivate, LeaveIdle

LEMMA NextTypeOK == CInv /\ [Next]_schedVars => TypeOK'
<1> SUFFICES ASSUME CInv, [Next]_schedVars PROVE TypeOK'
  OBVIOUS
<1>0. /\ \A w \in Workers : pc[w] \in Holding \cup {"settle"} => cur[w] \in Tasks
      /\ \A t \in Tasks, thread \in Targets : [task |-> t, thread |-> thread] \in TaskEntry
      /\ \A t \in Tasks : [task |-> t, thread |-> AnyThread] \in TaskEntry
  BY SchedulerAssumption DEF CInv, InHandWhenBusy, TypeOK, TaskEntry
<1>a. ASSUME NEW t \in Tasks, NEW thread \in Targets \cup {AnyThread}, scheduleNoBlock(t, thread)
      PROVE  m_fibers' \in Seq(TaskEntry)
  BY <1>a, <1>0, AppendEntry DEF scheduleNoBlock, CInv, TypeOK, TaskEntry
<1>b. ASSUME NEW w \in Workers
      PROVE  /\ DropEnded(w) \/ Deactivate(w) => m_activeThreadCount' \in Nat
             /\ LeaveIdle(w) => m_idleThreadCount' \in Nat
  BY CountsStayNatural
<1>c. \A i \in DOMAIN m_fibers : m_fibers[i] \in TaskEntry /\ m_fibers[i].task \in Tasks
  BY ListEntries DEF CInv
<1> USE DEF CInv, TypeOK, FiberState, WorkerPC, Goto, At, counts, flags, tasks, known
<1>1. ASSUME NEW w \in Workers, Pick(w) PROVE TypeOK'
  <2>1. PICK i \in Takeable(w) :
          cur' = [cur EXCEPT ![w] = m_fibers[i].task] /\ m_fibers' = RemoveAt(m_fibers, i)
    BY <1>1 DEF Pick
  <2>2. i \in DOMAIN m_fibers /\ m_fibers[i].task \in Tasks
    BY <1>c, <2>1 DEF Takeable
  <2>3. m_fibers' \in Seq(TaskEntry)
    BY <2>1, <2>2, RemoveEntry DEF TaskEntry
  <2>4. cur' \in [Workers -> Tasks \cup {NoTask}]
    BY <2>1, <2>2
  <2> QED
    BY <1>1, <2>3, <2>4 DEF Pick, TaskEntry
<1>2. ASSUME NEW w \in Workers, DropEnded(w) \/ Deactivate(w) PROVE TypeOK'
  BY <1>b, <1>2 DEF DropEnded, Deactivate
<1>3. ASSUME NEW w \in Workers, LeaveIdle(w) PROVE TypeOK'
  BY <1>b, <1>3 DEF LeaveIdle
<1>4. ASSUME NEW w \in Workers,
             \/ PickNothing(w) \/ SwapIn(w) \/ SwapInFails(w) \/ SwapOut(w)
             \/ EnterIdle(w) \/ ExitRun(w) \/ Idle(w)
      PROVE  TypeOK'
  <2>1. CASE PickNothing(w) \/ SwapOut(w)
    BY <2>1 DEF PickNothing, SwapOut
  <2>2. CASE SwapIn(w)
    BY <2>2 DEF SwapIn
  <2>3. CASE SwapInFails(w)
    BY <2>3 DEF SwapInFails
  <2>4. CASE EnterIdle(w)
    BY <2>4 DEF EnterIdle
  <2>5. CASE ExitRun(w)
    BY <2>5 DEF ExitRun
  <2>6. CASE Idle(w)
    BY <2>6 DEF Idle
  <2> QED
    BY <1>4, <2>1, <2>2, <2>3, <2>4, <2>5, <2>6
<1>5. ASSUME NEW w \in Workers, Settle(w) PROVE TypeOK'
  <2>1. cur[w] \in Tasks
    BY <1>0, <1>5 DEF Settle
  <2>2. m_fibers' \in Seq(TaskEntry)
    BY <1>5, <1>a, <2>1 DEF Settle, TaskEntry
  <2> QED
    BY <1>5, <2>2 DEF Settle, TaskEntry
<1>6. ASSUME NEW w \in Workers, NEW t \in Tasks, NEW thread \in Targets,
             Spawn(w, t, thread) \/ Wake(w, t, thread)
      PROVE  TypeOK'
  <2>1. m_fibers' \in Seq(TaskEntry)
    BY <1>6, <1>a DEF Spawn, Wake, ScheduleNew, ScheduleAgain, schedule
  <2>2. resumed' \in 0 .. MaxResumes
    <3>1. resumed' = resumed \/ (resumed < MaxResumes /\ resumed' = resumed + 1)
      BY <1>6 DEF Spawn, Wake, ScheduleNew, ScheduleAgain
    <3> QED
      BY <3>1, SchedulerAssumption
  <2>3. early' \in BOOLEAN
    BY <1>6 DEF Spawn, Wake, ScheduleNew, ScheduleAgain, schedule
  <2> QED
    BY <1>6, <2>1, <2>2, <2>3 DEF Spawn, Wake, ScheduleNew, ScheduleAgain, TaskEntry
<1>7. ASSUME NEW w \in Workers, NEW s \in {"READY", "HOLD"}, Yield(w, s) PROVE TypeOK'
  <2>1. yielded' \in [Tasks -> 0 .. MaxYields]
    <3>1. /\ yielded' = [yielded EXCEPT ![cur[w]] = @ + 1] /\ yielded[cur[w]] < MaxYields
          /\ cur[w] \in Tasks
      BY <1>0, <1>7 DEF Yield, Holding
    <3>2. yielded[cur[w]] + 1 \in 0 .. MaxYields
      BY <3>1, SchedulerAssumption
    <3> QED
      BY <3>1, <3>2
  <2> QED
    BY <1>7, <2>1 DEF Yield
<1>8. ASSUME NEW w \in Workers, NEW thread \in Targets, SwitchTo(w, thread) PROVE TypeOK'
  <2>1. cur[w] \in Tasks
    BY <1>0, <1>8 DEF SwitchTo, Holding
  <2>2. yielded' \in [Tasks -> 0 .. MaxYields]
    <3>1. yielded' = [yielded EXCEPT ![cur[w]] = @ + 1] /\ yielded[cur[w]] < MaxYields
      BY <1>8 DEF SwitchTo
    <3>2. yielded[cur[w]] + 1 \in 0 .. MaxYields
      BY <2>1, <3>1, SchedulerAssumption
    <3> QED
      BY <3>1, <3>2
  <2>3. m_fibers' \in Seq(TaskEntry)
    BY <1>8, <1>a, <2>1 DEF SwitchTo, schedule
  <2> QED
    BY <1>8, <2>2, <2>3 DEF SwitchTo, schedule, TaskEntry
<1>9. ASSUME NEW w \in Workers,
             SwitchToHold(w) \/ YieldFails(w) \/ \E s \in {"TERM", "EXCEPT"} : Return(w, s)
      PROVE  TypeOK'
  BY <1>9 DEF SwitchToHold, YieldFails, Return
<1>10. ASSUME start PROVE TypeOK'
  BY <1>10 DEF start
<1>11. ASSUME NEW t \in Tasks, NEW thread \in Targets,
              MainSchedule(t, thread) \/ MainResume(t, thread)
       PROVE  TypeOK'
  <2>1. m_fibers' \in Seq(TaskEntry)
    BY <1>11, <1>a DEF MainSchedule, MainResume, ScheduleNew, ScheduleAgain, schedule
  <2>2. resumed' \in 0 .. MaxResumes
    <3>1. resumed' = resumed \/ (resumed < MaxResumes /\ resumed' = resumed + 1)
      BY <1>11 DEF MainSchedule, MainResume, ScheduleNew, ScheduleAgain
    <3> QED
      BY <3>1, SchedulerAssumption
  <2>3. early' \in BOOLEAN
    BY <1>11 DEF MainSchedule, MainResume, ScheduleNew, ScheduleAgain, schedule
  <2> QED
    BY <1>11, <2>1, <2>2, <2>3 DEF MainSchedule, MainResume, ScheduleNew, ScheduleAgain, TaskEntry
<1>12. ASSUME StopAuto \/ StopStep PROVE TypeOK'
  BY <1>12 DEF StopAuto, StopStep, StopFlag, StopJoin
<1>13. ASSUME UNCHANGED schedVars PROVE TypeOK'
  BY <1>13 DEF schedVars
<1> QED
  BY <1>1, <1>2, <1>3, <1>4, <1>5, <1>6, <1>7, <1>8, <1>9, <1>10, <1>11, <1>12, <1>13
     DEF Next, WorkerStep, RunStep, TaskStep

LEMMA NextBusyAndOff ==
  CInv /\ [Next]_schedVars => InHandWhenBusy' /\ OffUntilStart'
<1> SUFFICES ASSUME CInv, [Next]_schedVars PROVE InHandWhenBusy' /\ OffUntilStart'
  OBVIOUS
<1> USE DEF CInv, TypeOK, InHandWhenBusy, OffUntilStart, Holding, Goto, At, MainAt, flags, counts, tasks, known
<1>1. ASSUME NEW w \in Workers, Pick(w) PROVE InHandWhenBusy' /\ OffUntilStart'
  <2>1. PICK i \in Takeable(w) : cur' = [cur EXCEPT ![w] = m_fibers[i].task]
    BY <1>1 DEF Pick
  <2>2. m_fibers[i].task \in Tasks
    BY <2>1, ListEntries DEF Takeable
  <2>3. m_fibers[i].task # NoTask
    BY <2>2, SchedulerAssumption
  <2> QED
    BY <1>1, <2>1, <2>3 DEF Pick
<1>2. ASSUME NEW w \in Workers,
             PickNothing(w) \/ DropEnded(w) \/ SwapIn(w) \/ SwapInFails(w) \/ SwapOut(w)
               \/ Deactivate(w)
      PROVE  InHandWhenBusy' /\ OffUntilStart'
  BY <1>2 DEF PickNothing, DropEnded, SwapIn, SwapInFails, SwapOut, Deactivate
<1>3. ASSUME NEW w \in Workers,
             Settle(w) \/ EnterIdle(w) \/ LeaveIdle(w) \/ ExitRun(w) \/ Idle(w)
      PROVE  InHandWhenBusy' /\ OffUntilStart'
  BY <1>3 DEF Settle, EnterIdle, LeaveIdle, ExitRun, Idle
<1>4. ASSUME NEW w \in Workers, TaskStep(w) PROVE InHandWhenBusy' /\ OffUntilStart'
  BY <1>4 DEF TaskStep, Spawn, Wake, Yield, SwitchTo, SwitchToHold, YieldFails, Return
<1>5. ASSUME start PROVE InHandWhenBusy' /\ OffUntilStart'
  BY <1>5 DEF start
<1>6. ASSUME NEW t \in Tasks, NEW thread \in Targets,
             MainSchedule(t, thread) \/ MainResume(t, thread)
      PROVE  InHandWhenBusy' /\ OffUntilStart'
  BY <1>6 DEF MainSchedule, MainResume
<1>7. ASSUME StopAuto \/ StopStep PROVE InHandWhenBusy' /\ OffUntilStart'
  BY <1>7 DEF StopAuto, StopStep, StopFlag, StopJoin
<1>8. ASSUME UNCHANGED schedVars PROVE InHandWhenBusy' /\ OffUntilStart'
  BY <1>8 DEF schedVars
<1> QED
  BY <1>1, <1>2, <1>3, <1>4, <1>5, <1>6, <1>7, <1>8 DEF Next, WorkerStep, RunStep

LEMMA CInvInvariant == Spec => []CInv
<1>1. CInv /\ [Next]_schedVars => CInv'
  BY NextTypeOK, NextCounters, NextBusyAndOff DEF CInv
<1> QED
  BY InitCInv, <1>1, PTL DEF Spec

\* Every variable of the scheduler stays in its type; the active and the idle
\* count, which workers lower without the lock, never go below zero.
THEOREM TypeCorrect == Spec => []TypeOK
<1>1. CInv => TypeOK
  BY DEF CInv
<1> QED
  BY <1>1, CInvInvariant, PTL

\* m_activeThreadCount, which stopping() relies on, is the number of workers
\* that hold a task, and m_idleThreadCount that of the workers in idle.
THEOREM CountersAreExact == Spec => []CountersAgree
<1>1. CInv => CountersAgree
  BY DEF CInv
<1> QED
  BY <1>1, CInvInvariant, PTL

-----------------------------------------------------------------------------
(* A fiber that is ready to go on is never forgotten                       *)

Distinct == \A i, j \in DOMAIN m_fibers : m_fibers[i].task = m_fibers[j].task => i = j

LEMMA ScheduleAddsOne ==
  ASSUME TypeOK, NEW t \in Tasks, NEW thread \in Workers \cup {AnyThread},
         scheduleNoBlock(t, thread)
  PROVE  /\ \A u \in Tasks : InList(u)' <=> InList(u) \/ u = t
         /\ Distinct /\ ~InList(t) => Distinct'
<1> DEFINE e == [task |-> t, thread |-> thread]
           n == Len(m_fibers)
<1>1. m_fibers \in Seq(TaskEntry) /\ e \in TaskEntry /\ m_fibers' = Append(m_fibers, e)
  BY DEF TypeOK, TaskEntry, scheduleNoBlock
<1>2. /\ DOMAIN m_fibers' = 1 .. n + 1 /\ DOMAIN m_fibers = 1 .. n /\ n \in Nat
      /\ \A i \in 1 .. n : m_fibers'[i] = m_fibers[i]
      /\ m_fibers'[n + 1] = e
  BY <1>1, AppendEntry
<1>3. e.task = t
  OBVIOUS
<1> HIDE DEF e, n
<1> QED
  BY <1>2, <1>3 DEF InList, Distinct

LEMMA TakeKeepsOthers ==
  ASSUME TypeOK, NEW i \in DOMAIN m_fibers, m_fibers' = RemoveAt(m_fibers, i)
  PROVE  \A u \in Tasks :
           /\ InList(u) => InList(u)' \/ u = m_fibers[i].task
           /\ InList(u)' => InList(u)
<1> DEFINE n == Len(m_fibers)
<1>1. m_fibers \in Seq(TaskEntry)
  BY DEF TypeOK, TaskEntry
<1>2. /\ DOMAIN m_fibers' = 1 .. n - 1 /\ DOMAIN m_fibers = 1 .. n /\ n \in Nat
      /\ \A j \in 1 .. n - 1 : m_fibers'[j] = IF j < i THEN m_fibers[j] ELSE m_fibers[j + 1]
  BY <1>1, RemoveEntry
<1> HIDE DEF n
<1> SUFFICES ASSUME NEW u \in Tasks
             PROVE  /\ InList(u) => InList(u)' \/ u = m_fibers[i].task
                    /\ InList(u)' => InList(u)
  OBVIOUS
<1>3. ASSUME NEW k \in 1 .. n, m_fibers[k].task = u, u # m_fibers[i].task
      PROVE  InList(u)'
  <2>1. CASE k < i
    BY <1>2, <1>3, <2>1 DEF InList
  <2>2. CASE ~(k < i)
    <3>1. k - 1 \in 1 .. n - 1 /\ ~(k - 1 < i) /\ k - 1 + 1 = k
      BY <1>2, <1>3, <2>2
    <3>2. m_fibers'[k - 1] = m_fibers[k]
      BY <1>2, <3>1
    <3> QED
      BY <1>2, <1>3, <3>1, <3>2 DEF InList
  <2> QED
    BY <2>1, <2>2
<1>4. ASSUME NEW j \in 1 .. n - 1, m_fibers'[j].task = u
      PROVE  InList(u)
  <2>1. \E k \in 1 .. n : m_fibers[k].task = u
    BY <1>2, <1>4
  <2> QED
    BY <1>2, <2>1 DEF InList
<1> QED
  BY <1>2, <1>3, <1>4 DEF InList

Somewhere(t) == InList(t) \/ InHand(t)

\* The worker lets go of its task, which is listed if it is READY.
LEMMA LetGoKeepsReady ==
  ASSUME CInv, ReadyIsNotLost, NEW w \in Workers, DropEnded(w) \/ Settle(w)
  PROVE  ReadyIsNotLost'
<1>1. PICK t \in Tasks : t = cur[w]
  BY SchedulerAssumption DEF DropEnded, Settle, Goto, At, CInv, InHandWhenBusy, Holding, TypeOK
<1>2. /\ cur' = [cur EXCEPT ![w] = NoTask]
      /\ \A u \in Tasks \ {t} : state'[u] = state[u]
      /\ state'[t] # "EXEC"
  BY <1>1 DEF DropEnded, Settle, CInv, TypeOK, tasks
<1>3. CASE Settle(w) /\ state[t] = "READY"
  <2>1. scheduleNoBlock(t, AnyThread)
    BY <1>1, <1>3 DEF Settle
  <2>2. \A u \in Tasks : InList(u)' <=> InList(u) \/ u = t
    BY <2>1, ScheduleAddsOne DEF CInv
  <2>3. \A u \in Tasks \ {t} : InHand(u)' <=> InHand(u)
    BY <1>1, <1>2, SchedulerAssumption DEF InHand, CInv, TypeOK
  <2> QED
    BY <1>2, <2>2, <2>3 DEF ReadyIsNotLost
<1>4. CASE ~(Settle(w) /\ state[t] = "READY")
  <2>1. m_fibers' = m_fibers /\ state'[t] \notin {"READY", "EXEC"}
    BY <1>1, <1>4 DEF DropEnded, Settle, CInv, TypeOK, tasks
  <2>2. \A u \in Tasks \ {t} : (InHand(u)' <=> InHand(u)) /\ (InList(u)' <=> InList(u))
    BY <1>1, <1>2, <2>1, SchedulerAssumption DEF InHand, InList, CInv, TypeOK
  <2> QED
    BY <1>2, <2>1, <2>2 DEF ReadyIsNotLost
<1> QED
  BY <1>3, <1>4

LEMMA NextReady ==
  ASSUME CInv, ReadyIsNotLost, [Next]_schedVars
  PROVE  ReadyIsNotLost'
<1> USE DEF counts, flags, tasks, known
<1>a. \A w \in Workers : pc[w] \in Holding \cup {"settle"} => cur[w] \in Tasks
  BY SchedulerAssumption DEF CInv, InHandWhenBusy, TypeOK
<1>1. ASSUME NEW w \in Workers, Pick(w) PROVE ReadyIsNotLost'
  <2>1. PICK i \in Takeable(w) :
          cur' = [cur EXCEPT ![w] = m_fibers[i].task] /\ m_fibers' = RemoveAt(m_fibers, i)
    BY <1>1 DEF Pick
  <2>2. i \in DOMAIN m_fibers
    BY <2>1 DEF Takeable
  <2>3. \A u \in Tasks : InList(u) => InList(u)' \/ u = m_fibers[i].task
    BY <2>1, <2>2, TakeKeepsOthers DEF CInv
  <2>4. /\ cur'[w] = m_fibers[i].task /\ \A v \in Workers \ {w} : cur'[v] = cur[v]
        /\ cur[w] = NoTask /\ state' = state
    BY <1>1, <2>1 DEF Pick, Goto, At, CInv, TypeOK, InHandWhenBusy, Holding
  <2>5. \A u \in Tasks : Somewhere(u) => Somewhere(u)'
    BY <2>3, <2>4, SchedulerAssumption DEF InHand, Somewhere
  <2> QED
    BY <2>4, <2>5 DEF ReadyIsNotLost, Somewhere
<1>2. ASSUME NEW w \in Workers, DropEnded(w) \/ Settle(w) PROVE ReadyIsNotLost'
  BY <1>2, LetGoKeepsReady
<1>3. ASSUME UNCHANGED <<m_fibers, cur>>, NEW w \in Workers, cur[w] \in Tasks,
             \A u \in Tasks \ {cur[w]} : state'[u] = state[u]
      PROVE  ReadyIsNotLost'
  <2>1. \A u \in Tasks : (InHand(u)' <=> InHand(u)) /\ (InList(u)' <=> InList(u))
    BY <1>3 DEF InHand, InList
  <2>2. InHand(cur[w])
    BY DEF InHand
  <2> QED
    BY <1>3, <2>1, <2>2 DEF ReadyIsNotLost
<1>4. ASSUME NEW w \in Workers,
             \/ SwapIn(w) \/ SwitchToHold(w)
             \/ \E s \in {"READY", "HOLD"} : Yield(w, s)
             \/ \E s \in {"TERM", "EXCEPT"} : Return(w, s)
      PROVE  ReadyIsNotLost'
  <2>1. cur[w] \in Tasks /\ UNCHANGED <<m_fibers, cur>>
    BY <1>4, <1>a DEF SwapIn, SwitchToHold, Yield, Return, Goto, At, Holding
  <2>2. \A u \in Tasks \ {cur[w]} : state'[u] = state[u]
    BY <1>4, <2>1 DEF SwapIn, SwitchToHold, Yield, Return, CInv, TypeOK
  <2> QED
    BY <1>3, <2>1, <2>2
<1>5. ASSUME NEW t \in Tasks, NEW thread \in Workers \cup {AnyThread},
             scheduleNoBlock(t, thread), UNCHANGED <<cur, state>>
      PROVE  ReadyIsNotLost'
  <2>1. \A u \in Tasks : InList(u)' <=> InList(u) \/ u = t
    BY <1>5, ScheduleAddsOne DEF CInv
  <2>2. \A u \in Tasks : InHand(u)' <=> InHand(u)
    BY <1>5 DEF InHand
  <2> QED
    BY <1>5, <2>1, <2>2 DEF ReadyIsNotLost
<1>6. ASSUME NEW w \in Workers, NEW t \in Tasks, NEW thread \in Targets,
             \/ Spawn(w, t, thread) \/ Wake(w, t, thread)
             \/ MainSchedule(t, thread) \/ MainResume(t, thread)
      PROVE  ReadyIsNotLost'
  <2>1. scheduleNoBlock(t, thread) /\ UNCHANGED <<cur, state>>
    BY <1>6 DEF Spawn, Wake, MainSchedule, MainResume, ScheduleNew, ScheduleAgain, schedule
  <2> QED
    BY <1>5, <2>1, SchedulerAssumption
<1>7. ASSUME NEW w \in Workers, NEW thread \in Targets, SwitchTo(w, thread)
      PROVE  ReadyIsNotLost'
  <2>1. cur[w] \in Tasks /\ scheduleNoBlock(cur[w], thread) /\ UNCHANGED <<cur, state>>
    BY <1>7, <1>a DEF SwitchTo, schedule, Goto, At, Holding
  <2> QED
    BY <1>5, <2>1, SchedulerAssumption
<1>8. ASSUME UNCHANGED <<m_fibers, cur, state>> PROVE ReadyIsNotLost'
  BY <1>8 DEF ReadyIsNotLost, InList, InHand
<1>9. ASSUME NEW w \in Workers,
             \/ PickNothing(w) \/ SwapInFails(w) \/ SwapOut(w) \/ Deactivate(w)
             \/ EnterIdle(w) \/ LeaveIdle(w) \/ ExitRun(w) \/ Idle(w) \/ YieldFails(w)
      PROVE  UNCHANGED <<m_fibers, cur, state>>
  BY <1>9 DEF PickNothing, SwapInFails, SwapOut, Deactivate, EnterIdle, LeaveIdle, ExitRun, Idle,
              YieldFails
<1>10. ASSUME start \/ StopAuto \/ StopStep \/ UNCHANGED schedVars
       PROVE  UNCHANGED <<m_fibers, cur, state>>
  BY <1>10 DEF start, StopAuto, StopStep, StopFlag, StopJoin, schedVars
<1>11. Workers # {}
  BY SchedulerAssumption
<1> QED
  BY <1>1, <1>2, <1>4, <1>6, <1>7, <1>8, <1>9, <1>10, <1>11 DEF Next, WorkerStep, RunStep, TaskStep

\* A fiber that is READY or EXEC is in the list or in the hands of a worker
\* that will put it there, also when tasks use switchTo or are resumed early.
THEOREM ReadyFibersAreKept == Spec => []ReadyIsNotLost
<1>1. Init => ReadyIsNotLost
  BY DEF Init, ReadyIsNotLost
<1>2. CInv /\ ReadyIsNotLost /\ [Next]_schedVars => ReadyIsNotLost'
  BY NextReady
<1> QED
  BY <1>1, <1>2, CInvInvariant, PTL DEF Spec

-----------------------------------------------------------------------------
(* Fibers and places, until a task is scheduled early                      *)

LEMMA TakeRemovesOne ==
  ASSUME TypeOK, Distinct, NEW i \in DOMAIN m_fibers, m_fibers' = RemoveAt(m_fibers, i)
  PROVE  /\ \A u \in Tasks : InList(u)' <=> InList(u) /\ u # m_fibers[i].task
         /\ Distinct'
<1> DEFINE n == Len(m_fibers)
<1>1. m_fibers \in Seq(TaskEntry)
  BY DEF TypeOK, TaskEntry
<1>2. /\ DOMAIN m_fibers' = 1 .. n - 1 /\ DOMAIN m_fibers = 1 .. n /\ n \in Nat
      /\ \A j \in 1 .. n - 1 : m_fibers'[j] = IF j < i THEN m_fibers[j] ELSE m_fibers[j + 1]
  BY <1>1, RemoveEntry
<1> HIDE DEF n
<1>3. \A j \in 1 .. n - 1 :
        \E k \in 1 .. n \ {i} : m_fibers'[j] = m_fibers[k] /\ k = IF j < i THEN j ELSE j + 1
  BY <1>2
<1>4. \A k \in 1 .. n \ {i} : \E j \in 1 .. n - 1 : m_fibers'[j] = m_fibers[k]
  <2> SUFFICES ASSUME NEW k \in 1 .. n \ {i} PROVE \E j \in 1 .. n - 1 : m_fibers'[j] = m_fibers[k]
    OBVIOUS
  <2>1. CASE k < i
    BY <1>2, <2>1
  <2>2. CASE k > i
    <3>1. k - 1 \in 1 .. n - 1 /\ ~(k - 1 < i) /\ k - 1 + 1 = k
      BY <1>2, <2>2
    <3> QED
      BY <1>2, <3>1
  <2> QED
    BY <1>2, <2>1, <2>2
<1>5. ASSUME NEW u \in Tasks PROVE InList(u)' <=> InList(u) /\ u # m_fibers[i].task
  <2>1. ASSUME NEW j \in 1 .. n - 1, m_fibers'[j].task = u
        PROVE  InList(u) /\ u # m_fibers[i].task
    BY <1>2, <1>3, <2>1 DEF InList, Distinct
  <2>2. ASSUME NEW k \in 1 .. n, m_fibers[k].task = u, u # m_fibers[i].task
        PROVE  InList(u)'
    BY <1>2, <1>4, <2>2 DEF InList
  <2> QED
    BY <1>2, <2>1, <2>2 DEF InList
<1>6. Distinct'
  <2> SUFFICES ASSUME NEW j \in 1 .. n - 1, NEW k \in 1 .. n - 1,
                      m_fibers'[j].task = m_fibers'[k].task
               PROVE  j = k
    BY <1>2 DEF Distinct
  <2>1. PICK p \in 1 .. n \ {i} :
          m_fibers'[j] = m_fibers[p] /\ p = IF j < i THEN j ELSE j + 1
    BY <1>3
  <2>2. PICK q \in 1 .. n \ {i} :
          m_fibers'[k] = m_fibers[q] /\ q = IF k < i THEN k ELSE k + 1
    BY <1>3
  <2>3. p = q
    BY <1>2, <2>1, <2>2 DEF Distinct
  <2> QED
    BY <1>2, <2>1, <2>2, <2>3
<1> QED
  BY <1>5, <1>6

\* The inductive invariant: a fiber is EXEC exactly while a worker runs it.
ExecIffRunning ==
  \A t \in Tasks : state[t] = "EXEC" <=> \E w \in Workers : pc[w] = "run" /\ cur[w] = t

OnlyScheduled == \A t \in Tasks : InList(t) \/ InHand(t) => t \in scheduled

OneHand == \A v, w \in Workers : cur[v] # NoTask /\ cur[v] = cur[w] => v = w

HandOrList == \A w \in Workers : cur[w] # NoTask => ~InList(cur[w])

NoFault == fault = "none"

NoSwitch == \A w \in Workers : pc[w] # "switch"

PInv ==
  /\ Distinct /\ OneHand /\ HandOrList
  /\ ExecIffRunning
  /\ OnlyScheduled
  /\ NoSwitch
  /\ NoFault

LEMMA InitPInv == Init => PInv
<1> SUFFICES ASSUME Init PROVE PInv
  OBVIOUS
<1>1. DOMAIN m_fibers = {}
  BY DEF Init
<1> QED
  BY <1>1, SchedulerAssumption
     DEF Init, PInv, Distinct, OneHand, HandOrList, ExecIffRunning, OnlyScheduled,
         NoSwitch, NoFault, InList, InHand

\* Scheduling a task that is nowhere, by whichever thread.
LEMMA ScheduleFree ==
  ASSUME TypeOK, PInv, NEW t \in Tasks, NEW thread \in Workers \cup {AnyThread},
         scheduleNoBlock(t, thread), ~InList(t), ~InHand(t),
         scheduled' = scheduled \cup {t}, UNCHANGED <<pc, cur, state, fault>>
  PROVE  PInv'
<1>1. /\ \A u \in Tasks : InList(u)' <=> InList(u) \/ u = t
      /\ Distinct'
  BY ScheduleAddsOne DEF PInv
<1>2. \A u \in Tasks : InHand(u)' <=> InHand(u)
  BY DEF InHand
<1>3. \A w \in Workers : cur[w] # NoTask => cur[w] \in Tasks
  BY DEF TypeOK
<1>4. HandOrList'
  BY <1>1, <1>3 DEF PInv, HandOrList, InHand
<1>5. OneHand' /\ ExecIffRunning' /\ NoSwitch' /\ NoFault'
  BY DEF PInv, OneHand, ExecIffRunning, NoSwitch, NoFault
<1>6. OnlyScheduled'
  BY <1>1, <1>2 DEF PInv, OnlyScheduled
<1> QED
  BY <1>1, <1>4, <1>5, <1>6 DEF PInv

\* Steps that move a worker, and leave the list and what is in hand alone.
LEMMA MoveOnly ==
  ASSUME PInv, UNCHANGED <<m_fibers, cur, state, scheduled, fault>>,
         \A w \in Workers : (pc'[w] = "run" <=> pc[w] = "run") /\ pc'[w] # "switch"
  PROVE  PInv'
  BY DEF PInv, Distinct, OneHand, HandOrList, ExecIffRunning, OnlyScheduled,
         NoSwitch, NoFault, InList, InHand

\* Steps that change the state of the task in the hands of worker w.
LEMMA StateOfMine ==
  ASSUME TypeOK, PInv, NEW w \in Workers, cur[w] \in Tasks, NEW s \in FiberState,
         state' = [state EXCEPT ![cur[w]] = s],
         UNCHANGED <<m_fibers, cur, scheduled, fault>>,
         \A v \in Workers \ {w} : pc'[v] = pc[v],
         pc'[w] = "run" <=> s = "EXEC",
         pc'[w] # "switch"
  PROVE  PInv'
<1>1. state'[cur[w]] = s /\ \A u \in Tasks \ {cur[w]} : state'[u] = state[u]
  BY DEF TypeOK
<1>2. Distinct' /\ OneHand' /\ HandOrList' /\ OnlyScheduled' /\ NoFault' /\ NoSwitch'
  BY DEF PInv, Distinct, OneHand, HandOrList, OnlyScheduled, NoSwitch, NoFault, InList, InHand
<1>3. \A v \in Workers : cur[v] = cur[w] => v = w
  BY SchedulerAssumption DEF PInv, OneHand
<1>4. ExecIffRunning'
  BY <1>1, <1>3 DEF PInv, ExecIffRunning
<1> QED
  BY <1>2, <1>4 DEF PInv

\* Worker w lets go of its task, which has been put where it belongs.
LEMMA LetGo ==
  ASSUME TypeOK, PInv, NEW w \in Workers, NEW t \in Tasks, cur[w] = t,
         cur' = [cur EXCEPT ![w] = NoTask],
         Distinct',
         \A u \in Tasks \ {t} : InList(u)' <=> InList(u),
         \A u \in Tasks \ {t} : state'[u] = state[u],
         state'[t] # "EXEC",
         pc[w] # "run", pc'[w] \notin {"run", "switch"},
         \A v \in Workers \ {w} : pc'[v] = pc[v],
         UNCHANGED <<scheduled, fault>>
  PROVE  PInv'
<1>1. cur'[w] = NoTask /\ \A v \in Workers \ {w} : cur'[v] = cur[v]
  BY DEF TypeOK
<1>2. \A v \in Workers : cur[v] # NoTask => cur[v] \in Tasks
  BY DEF TypeOK
<1>3. \A v \in Workers : cur[v] = t => v = w
  BY SchedulerAssumption DEF PInv, OneHand
<1>4. OneHand' /\ NoSwitch' /\ NoFault'
  BY <1>1 DEF PInv, OneHand, NoSwitch, NoFault
<1>5. HandOrList'
  <2> SUFFICES ASSUME NEW v \in Workers, NEW u \in Tasks, cur'[v] = u PROVE ~InList(u)'
    BY <1>1, <1>2 DEF HandOrList, InList
  <2>1. v # w /\ cur[v] = u /\ u # t
    BY <1>1, <1>3, SchedulerAssumption
  <2>2. ~InList(u)
    BY <2>1, SchedulerAssumption DEF PInv, HandOrList
  <2> QED
    BY <2>1, <2>2
<1>6. \A u \in Tasks \ {t} : InHand(u)' <=> InHand(u)
  BY <1>1, SchedulerAssumption DEF InHand
<1>7. ExecIffRunning'
  BY <1>1, <1>3 DEF PInv, ExecIffRunning
<1>9. OnlyScheduled'
  BY <1>6 DEF PInv, OnlyScheduled, InHand
<1> QED
  BY <1>4, <1>5, <1>7, <1>9 DEF PInv

LEMMA TakeKeepsPInv ==
  ASSUME CInv, PInv, NEW w \in Workers, Pick(w)
  PROVE  PInv'
<1>1. PICK i \in Takeable(w) :
        cur' = [cur EXCEPT ![w] = m_fibers[i].task] /\ m_fibers' = RemoveAt(m_fibers, i)
  BY DEF Pick
<1>2. PICK t \in Tasks : t = m_fibers[i].task
  BY <1>1, ListEntries DEF Takeable, CInv
<1>3. i \in DOMAIN m_fibers /\ InList(t)
  BY <1>1, <1>2 DEF Takeable, InList
<1>4. Distinct' /\ \A u \in Tasks : InList(u)' <=> InList(u) /\ u # t
  BY <1>1, <1>2, <1>3, TakeRemovesOne DEF PInv, CInv
<1>5. cur'[w] = t /\ \A v \in Workers \ {w} : cur'[v] = cur[v]
  BY <1>1, <1>2 DEF CInv, TypeOK
<1>6. cur[w] = NoTask /\ \A v \in Workers : cur[v] # NoTask => cur[v] \in Tasks
  BY DEF Pick, Goto, At, CInv, InHandWhenBusy, Holding, TypeOK
<1>7. \A v \in Workers : cur[v] # t
  BY <1>3, SchedulerAssumption DEF PInv, HandOrList
<1>8. /\ UNCHANGED <<state, scheduled, fault>>
      /\ pc[w] = "pick" /\ pc'[w] = "dispatch" /\ \A v \in Workers \ {w} : pc'[v] = pc[v]
  BY DEF Pick, Goto, At, CInv, TypeOK, tasks, known
<1>9. OneHand' /\ NoSwitch' /\ NoFault'
  BY <1>5, <1>7, <1>8 DEF PInv, OneHand, NoSwitch, NoFault
<1>10. HandOrList'
  <2> SUFFICES ASSUME NEW v \in Workers, NEW u \in Tasks, cur'[v] = u PROVE ~InList(u)'
    BY <1>5, <1>6 DEF HandOrList, InList
  <2>1. CASE u = t
    BY <1>4, <2>1
  <2>2. CASE u # t
    BY <1>4, <1>5, <2>2, SchedulerAssumption DEF PInv, HandOrList
  <2> QED
    BY <2>1, <2>2
<1>11. \A u \in Tasks : InHand(u)' <=> InHand(u) \/ u = t
  BY <1>5, <1>6, SchedulerAssumption DEF InHand
<1>12. ExecIffRunning'
  BY <1>5, <1>8 DEF PInv, ExecIffRunning
<1>13. OnlyScheduled'
  BY <1>3, <1>4, <1>8, <1>11 DEF PInv, OnlyScheduled
<1> QED
  BY <1>4, <1>9, <1>10, <1>12, <1>13 DEF PInv

LEMMA SettleKeepsPInv ==
  ASSUME CInv, PInv, NEW w \in Workers, Settle(w)
  PROVE  PInv'
<1>1. PICK t \in Tasks : t = cur[w]
  BY SchedulerAssumption DEF Settle, Goto, At, CInv, InHandWhenBusy, Holding, TypeOK
<1>2. /\ pc[w] = "settle" /\ pc'[w] = "pick" /\ \A v \in Workers \ {w} : pc'[v] = pc[v]
      /\ cur' = [cur EXCEPT ![w] = NoTask]
      /\ UNCHANGED <<scheduled, fault>>
  BY DEF Settle, Goto, At, CInv, TypeOK, known
<1>3. state[t] # "EXEC"
  <2>1. \A v \in Workers : cur[v] = t => v = w
    BY <1>1, SchedulerAssumption DEF PInv, OneHand
  <2> QED
    BY <1>2, <2>1 DEF PInv, ExecIffRunning
<1>4. ~InList(t)
  BY <1>1, SchedulerAssumption DEF PInv, HandOrList
<1>5. CASE state[t] = "READY"
  <2>1. scheduleNoBlock(t, AnyThread) /\ state' = state
    BY <1>1, <1>5 DEF Settle
  <2>2. Distinct' /\ \A u \in Tasks : InList(u)' <=> InList(u) \/ u = t
    BY <1>4, <2>1, ScheduleAddsOne DEF PInv, CInv
  <2> QED
    BY <1>1, <1>2, <1>3, <2>1, <2>2, LetGo DEF CInv
<1>6. CASE state[t] # "READY"
  <2>1. UNCHANGED m_fibers
    BY <1>1, <1>6 DEF Settle
  <2>2. state'[t] \notin {"EXEC", "READY"} /\ \A u \in Tasks \ {t} : state'[u] = state[u]
    BY <1>1, <1>3, <1>6 DEF Settle, CInv, TypeOK
  <2>3. Distinct' /\ \A u \in Tasks : InList(u)' <=> InList(u)
    BY <2>1 DEF PInv, Distinct, InList
  <2> QED
    BY <1>1, <1>2, <2>2, <2>3, LetGo DEF CInv
<1> QED
  BY <1>5, <1>6

LEMMA DropKeepsPInv ==
  ASSUME CInv, PInv, NEW w \in Workers, DropEnded(w)
  PROVE  PInv'
<1>1. PICK t \in Tasks : t = cur[w]
  BY SchedulerAssumption DEF DropEnded, Goto, At, CInv, InHandWhenBusy, Holding, TypeOK
<1>2. /\ pc[w] = "dispatch" /\ pc'[w] = "pick" /\ \A v \in Workers \ {w} : pc'[v] = pc[v]
      /\ cur' = [cur EXCEPT ![w] = NoTask]
      /\ UNCHANGED <<m_fibers, state, scheduled, fault>>
      /\ state[t] \in {"TERM", "EXCEPT"}
  BY <1>1 DEF DropEnded, Goto, At, CInv, TypeOK, tasks, known
<1>3. Distinct' /\ \A u \in Tasks : InList(u)' <=> InList(u)
  BY <1>2 DEF PInv, Distinct, InList
<1> QED
  BY <1>1, <1>2, <1>3, LetGo DEF CInv

\* A task that runs, is taken or is about to be left is in one worker's hands
\* only, so its stack and its state are.
LEMMA MineAlone ==
  ASSUME CInv, PInv, NEW w \in Workers, pc[w] \in Holding
  PROVE  /\ cur[w] \in Tasks
         /\ \A v \in Workers : cur[v] = cur[w] => v = w
         /\ state[cur[w]] = "EXEC" <=> pc[w] = "run"
<1>1. cur[w] \in Tasks
  BY SchedulerAssumption DEF CInv, InHandWhenBusy, TypeOK
<1>2. \A v \in Workers : cur[v] = cur[w] => v = w
  BY <1>1, SchedulerAssumption DEF PInv, OneHand
<1> QED
  BY <1>1, <1>2 DEF PInv, ExecIffRunning

\* Nothing of the fiber layer fails, and nobody is inside switchTo.
LEMMA StepsThatDoNotOccur ==
  ASSUME CInv, PInv, NEW w \in Workers
  PROVE  ~SwapInFails(w) /\ ~YieldFails(w) /\ ~SwitchToHold(w)
<1>1. pc[w] # "switch"
  BY DEF PInv, NoSwitch
<1>2. ~SwapInFails(w)
  <2> SUFFICES ASSUME SwapInFails(w)
               PROVE  FALSE
    OBVIOUS
  <2>1. pc[w] = "dispatch" /\ pc[w] \in Holding
    BY DEF SwapInFails, At, Holding
  <2>2. state[cur[w]] # "EXEC" /\ OnStack(cur[w]) = {}
    BY <2>1, MineAlone DEF OnStack
  <2> QED
    BY <2>2 DEF SwapInFails
<1>3. ~YieldFails(w)
  <2> SUFFICES ASSUME YieldFails(w)
               PROVE  FALSE
    OBVIOUS
  <2>1. pc[w] = "run" /\ pc[w] \in Holding
    BY <1>1 DEF YieldFails, At, Holding
  <2> QED
    BY <2>1, MineAlone DEF YieldFails
<1>4. ~SwitchToHold(w)
  BY <1>1 DEF SwitchToHold, Goto, At
<1> QED
  BY <1>2, <1>3, <1>4

\* History does not forget, and switchTo schedules a fiber that is in hand.
LEMMA EarlyStays ==
  ASSUME [Next]_schedVars
  PROVE  /\ early => early'
         /\ \A w \in Workers, thread \in Targets : SwitchTo(w, thread) => early'
<1> USE DEF flags, counts, tasks, known
<1>1. ASSUME NEW w \in Workers, RunStep(w) \/ Idle(w) PROVE early' = early
  BY <1>1 DEF RunStep, Pick, PickNothing, DropEnded, SwapIn, SwapInFails, SwapOut, Deactivate,
              Settle, EnterIdle, LeaveIdle, ExitRun, Idle
<1>2. ASSUME NEW w \in Workers, TaskStep(w) PROVE early => early'
  BY <1>2 DEF TaskStep, Spawn, Wake, ScheduleNew, ScheduleAgain, schedule, Yield, SwitchTo,
              SwitchToHold, YieldFails, Return
<1>3. ASSUME start \/ StopAuto \/ StopStep \/ UNCHANGED schedVars PROVE early' = early
  BY <1>3 DEF start, StopAuto, StopStep, StopFlag, StopJoin, schedVars
<1>4. ASSUME NEW t \in Tasks, NEW thread \in Targets, MainSchedule(t, thread) \/ MainResume(t, thread)
      PROVE  early => early'
  BY <1>4 DEF MainSchedule, MainResume, ScheduleNew, ScheduleAgain, schedule
<1>5. ASSUME NEW w \in Workers, NEW thread \in Targets, SwitchTo(w, thread) PROVE early'
  BY <1>5 DEF SwitchTo, schedule, InHand
<1> QED
  BY <1>1, <1>2, <1>3, <1>4, <1>5 DEF Next, WorkerStep

LEMMA NextPInv ==
  ASSUME CInv, PInv, [Next]_schedVars, ~early'
  PROVE  PInv'
<1> USE DEF flags, counts, tasks, known
<1>0. \A w \in Workers : pc[w] # "switch"
  BY DEF PInv, NoSwitch
<1>1. ASSUME NEW w \in Workers, Pick(w) \/ Settle(w) \/ DropEnded(w) PROVE PInv'
  BY <1>1, TakeKeepsPInv, SettleKeepsPInv, DropKeepsPInv
<1>2. ASSUME NEW w \in Workers,
             \/ PickNothing(w) \/ SwapOut(w) \/ Deactivate(w) \/ EnterIdle(w)
             \/ LeaveIdle(w) \/ ExitRun(w) \/ Idle(w)
      PROVE  PInv'
  <2>1. /\ UNCHANGED <<m_fibers, cur, state, scheduled, fault>>
        /\ \E from, to \in WorkerPC \ {"run", "switch"} : Goto(w, from, to)
    BY <1>2
       DEF PickNothing, SwapOut, Deactivate, EnterIdle, LeaveIdle, ExitRun, Idle, WorkerPC
  <2>2. \A v \in Workers : (pc'[v] = "run" <=> pc[v] = "run") /\ pc'[v] # "switch"
    BY <1>0, <2>1 DEF Goto, At, CInv, TypeOK
  <2> QED
    BY <2>1, <2>2, MoveOnly
<1>3. ASSUME NEW w \in Workers, SwapIn(w) PROVE PInv'
  <2>1. pc[w] \in Holding
    BY <1>3 DEF SwapIn, Goto, At, Holding
  <2>2. pc'[w] = "run" /\ \A v \in Workers \ {w} : pc'[v] = pc[v]
    BY <1>3 DEF SwapIn, Goto, At, CInv, TypeOK
  <2> QED
    BY <1>3, <2>1, <2>2, MineAlone, StateOfMine DEF SwapIn, CInv, FiberState
<1>4. ASSUME NEW w \in Workers, NEW t \in Tasks, NEW thread \in Targets,
             Spawn(w, t, thread) \/ MainSchedule(t, thread)
      PROVE  PInv'
  <2>1. t \notin scheduled /\ scheduleNoBlock(t, thread) /\ scheduled' = scheduled \cup {t}
    BY <1>4 DEF Spawn, MainSchedule, ScheduleNew, schedule
  <2>2. ~InList(t) /\ ~InHand(t)
    BY <2>1 DEF PInv, OnlyScheduled
  <2>3. UNCHANGED <<pc, cur, state, fault>>
    BY <1>4 DEF Spawn, MainSchedule
  <2> QED
    BY <2>1, <2>2, <2>3, ScheduleFree, SchedulerAssumption DEF CInv
<1>5. ASSUME NEW w \in Workers, NEW t \in Tasks, NEW thread \in Targets,
             Wake(w, t, thread) \/ MainResume(t, thread)
      PROVE  PInv'
  <2>1. /\ t \in scheduled /\ scheduleNoBlock(t, thread) /\ scheduled' = scheduled
        /\ ~InList(t) /\ ~InHand(t)
    BY <1>5 DEF Wake, MainResume, ScheduleAgain, schedule
  <2>2. UNCHANGED <<pc, cur, state, fault>>
    BY <1>5 DEF Wake, MainResume
  <2>3. scheduled' = scheduled \cup {t}
    BY <2>1
  <2> QED
    BY <2>1, <2>2, <2>3, ScheduleFree, SchedulerAssumption DEF CInv
<1>6. ASSUME NEW w \in Workers, NEW s \in {"READY", "HOLD", "TERM", "EXCEPT"},
             Yield(w, s) \/ Return(w, s)
      PROVE  PInv'
  <2>1. pc[w] \in Holding
    BY <1>6 DEF Yield, Return, Goto, At, Holding
  <2>2. pc'[w] = "out" /\ \A v \in Workers \ {w} : pc'[v] = pc[v]
    BY <1>6 DEF Yield, Return, Goto, At, CInv, TypeOK
  <2>3. /\ state' = [state EXCEPT ![cur[w]] = s]
        /\ UNCHANGED <<m_fibers, cur, scheduled, fault>>
    BY <1>6 DEF Yield, Return
  <2> QED
    BY <2>1, <2>2, <2>3, MineAlone, StateOfMine DEF CInv, FiberState
<1>7. ASSUME start PROVE PInv'
  <2>1. \A w \in Workers : pc[w] = "off" /\ pc'[w] = "pick"
    BY <1>7 DEF start, MainAt, CInv, OffUntilStart
  <2> QED
    BY <1>7, <2>1, MoveOnly DEF start
<1>8. ASSUME StopAuto \/ StopStep \/ UNCHANGED schedVars PROVE PInv'
  <2>1. UNCHANGED <<m_fibers, cur, state, scheduled, fault, pc>>
    BY <1>8 DEF StopAuto, StopStep, StopFlag, StopJoin, schedVars
  <2> QED
    BY <1>0, <2>1, MoveOnly
<1>9. Workers # {}
  BY SchedulerAssumption
<1> QED
  BY <1>1, <1>2, <1>3, <1>4, <1>5, <1>6, <1>7, <1>8, <1>9, StepsThatDoNotOccur, EarlyStays
     DEF Next, WorkerStep, RunStep, TaskStep

LEMMA PInvInvariant == Spec => [](~early => PInv)
<1> DEFINE Inv == ~early => PInv
<1>1. Init => Inv
  BY InitPInv
<1>2. CInv /\ Inv /\ [Next]_schedVars => Inv'
  BY NextPInv, EarlyStays
<1> QED
  BY <1>1, <1>2, CInvInvariant, PTL DEF Spec

\* The scheduler never puts a fiber in the list twice, in the hands of two
\* workers, or in both places, so that two workers would share a stack: it
\* happens only once somebody schedules a fiber that is still in such a place.
THEOREM FiberIsInOnePlace == Spec => []FiberInOnePlace
<1>1. (~early => PInv) => FiberInOnePlace
  BY DEF PInv, Distinct, OneHand, HandOrList, FiberInOnePlace
<1> QED
  BY <1>1, PInvInvariant, PTL

\* A fiber that yields is in state EXEC, whatever the worker that ran it before
\* and the ones that wait for it do, until somebody schedules a fiber that is
\* still in the list or in a worker's hands.
THEOREM RunningFibersAreExec == Spec => [](~early => RunningIsExec)
<1>1. (~early => PInv) /\ CInv => (~early => RunningIsExec)
  BY MineAlone DEF PInv, NoSwitch, RunningIsExec, Holding
<1> QED
  BY <1>1, PInvInvariant, CInvInvariant, PTL

\* An assertion about a fiber's state fails, or a worker enters the stack of a
\* fiber that has not yet left it, only after somebody has scheduled a fiber
\* while the list or a worker still had it.
THEOREM FibersDoNotFail == Spec => []FaultOnlyIfEarly
<1>1. (~early => PInv) => FaultOnlyIfEarly
  BY DEF PInv, NoFault, FaultOnlyIfEarly
<1> QED
  BY <1>1, PInvInvariant, PTL

-----------------------------------------------------------------------------
(* The scheduler is an executor, until a task is scheduled early           *)

Stages == [w \in Workers |-> Stage(w)]
Ended == {t \in Tasks : state[t] \in {"TERM", "EXCEPT"}}

\* Worker w moves, the others stay where they are, with tasks that are as ready
\* as before.
LEMMA OneStageMoves ==
  ASSUME CInv, NEW w \in Workers,
         \A v \in Workers \ {w} : pc'[v] = pc[v] /\ cur'[v] = cur[v],
         \A v \in Workers \ {w} :
           cur[v] # NoTask => (state'[cur[v]] = "READY" <=> state[cur[v]] = "READY")
  PROVE  Stages' = [Stages EXCEPT ![w] = Stage(w)']
<1>1. \A v \in Workers \ {w} : Stage(v)' = Stage(v)
  BY DEF Stage, CInv, InHandWhenBusy, Holding
<1>2. PICK f : f = [v \in Workers |-> Stage(v)']
  OBVIOUS
<1>3. f = [Stages EXCEPT ![w] = Stage(w)']
  BY <1>1, <1>2 DEF Stages
<1> QED
  BY <1>2, <1>3 DEF Stages

\* Steps that an executor does not show.
LEMMA NotShown ==
  ASSUME CInv, UNCHANGED <<m_fibers, cur, state>>,
         \A w \in Workers : \/ pc'[w] = pc[w]
                            \/ {pc[w], pc'[w]} \subseteq {"off", "pick", "none", "idle", "unidle", "exit"}
                            \/ {pc[w], pc'[w]} \subseteq {"out", "back", "settle"}
  PROVE  UNCHANGED <<m_fibers, cur, Stages, Ended>>
<1>1. ASSUME NEW w \in Workers
      PROVE  Stage(w)' = Stage(w)
  <2>1. CASE pc'[w] = pc[w]
    BY <2>1 DEF Stage
  <2>2. CASE {pc[w], pc'[w]} \subseteq {"off", "pick", "none", "idle", "unidle", "exit"}
    BY <2>2 DEF Stage
  <2>3. CASE {pc[w], pc'[w]} \subseteq {"out", "back", "settle"}
    BY <2>3 DEF Stage
  <2> QED
    BY <2>1, <2>2, <2>3
<1> QED
  BY <1>1 DEF Stages, Ended

\* New entries at the end of the list.
LEMMA BatchIsShown ==
  ASSUME Stages' = Stages, Ended' = Ended, cur' = cur,
         m_fibers' \in Seq(TaskEntry),
         \A i \in DOMAIN m_fibers : i \in DOMAIN m_fibers' /\ m_fibers'[i] = m_fibers[i],
         NEW free \in BOOLEAN, early' = ~free,
         free <=> /\ \A i \in DOMAIN m_fibers' \ DOMAIN m_fibers :
                       ~InList(m_fibers'[i].task) /\ ~InHand(m_fibers'[i].task)
                  /\ \A i, j \in DOMAIN m_fibers' \ DOMAIN m_fibers :
                       m_fibers'[i].task = m_fibers'[j].task => i = j
  PROVE  Exec!Put
  BY DEF Exec!Put, Exec!Waits, Exec!Taken, TaskEntry, InList, InHand, Stages, Ended

LEMMA PutIsShown ==
  ASSUME TypeOK, NEW t \in Tasks, NEW thread \in Workers \cup {AnyThread},
         schedule(t, thread), ~early, Stages' = Stages, Ended' = Ended, cur' = cur
  PROVE  Exec!Put
<1> DEFINE e == [task |-> t, thread |-> thread]
           n == Len(m_fibers)
           free == ~(InList(t) \/ InHand(t))
<1>1. m_fibers \in Seq(TaskEntry) /\ e \in TaskEntry /\ m_fibers' = Append(m_fibers, e)
  BY DEF TypeOK, TaskEntry, schedule, scheduleNoBlock
<1>2. /\ DOMAIN m_fibers' = 1 .. n + 1 /\ DOMAIN m_fibers = 1 .. n /\ n \in Nat
      /\ \A i \in 1 .. n : m_fibers'[i] = m_fibers[i]
      /\ m_fibers'[n + 1] = e
  BY <1>1, AppendEntry
<1>3. m_fibers' \in Seq(TaskEntry)
  BY <1>1, AppendProperties
<1>4. e.task = t
  OBVIOUS
<1> HIDE DEF e, n
<1>5. DOMAIN m_fibers' \ DOMAIN m_fibers = {n + 1}
  BY <1>2
<1>6. early' = ~free /\ free \in BOOLEAN
  BY DEF schedule
<1>7. free <=> /\ \A i \in DOMAIN m_fibers' \ DOMAIN m_fibers :
                    ~InList(m_fibers'[i].task) /\ ~InHand(m_fibers'[i].task)
               /\ \A i, j \in DOMAIN m_fibers' \ DOMAIN m_fibers :
                    m_fibers'[i].task = m_fibers'[j].task => i = j
  BY <1>2, <1>4, <1>5
<1> HIDE DEF free
<1> QED
  BY <1>2, <1>3, <1>6, <1>7, BatchIsShown

\* No fiber in the list is EXEC, so that Pick takes the first that w may have.
LEMMA TakeIsShown ==
  ASSUME CInv, PInv, NEW w \in Workers, Pick(w)
  PROVE  Exec!Take(w)
<1>1. PICK i \in Takeable(w) :
        /\ \A j \in Takeable(w) : i <= j
        /\ cur' = [cur EXCEPT ![w] = m_fibers[i].task] /\ m_fibers' = RemoveAt(m_fibers, i)
  BY DEF Pick
<1>2. ASSUME NEW j \in DOMAIN m_fibers
      PROVE  state[m_fibers[j].task] # "EXEC"
  <2>1. PICK t \in Tasks : t = m_fibers[j].task
    BY ListEntries DEF CInv
  <2>2. InList(t)
    BY <2>1 DEF InList
  <2>3. \A v \in Workers : cur[v] # t
    BY <2>2, SchedulerAssumption DEF PInv, HandOrList
  <2> QED
    BY <2>1, <2>3 DEF PInv, ExecIffRunning
<1>3. Takeable(w) = Exec!For(w)
  BY <1>2 DEF Takeable, CanTake, Exec!For
<1>4. /\ pc[w] = "pick" /\ pc'[w] = "dispatch" /\ \A v \in Workers \ {w} : pc'[v] = pc[v]
      /\ state' = state /\ early' = early
  BY DEF Pick, Goto, At, CInv, TypeOK, tasks, known
<1>5. \A v \in Workers \ {w} : cur'[v] = cur[v]
  BY <1>1 DEF CInv, TypeOK
<1>6. Stages' = [Stages EXCEPT ![w] = "taken"] /\ Stages[w] = "free" /\ Ended' = Ended
  <2>1. Stage(w)' = "taken" /\ Stage(w) = "free"
    BY <1>4 DEF Stage
  <2> QED
    BY <1>4, <1>5, <2>1, OneStageMoves DEF Ended, Stages
<1>7. /\ i \in Exec!For(w) /\ \A j \in Exec!For(w) : i <= j
  BY <1>1, <1>3
<1>8. m_fibers' = Exec!RemoveAt(m_fibers, i)
  BY <1>1 DEF RemoveAt, Exec!RemoveAt
<1> QED
  BY <1>1, <1>4, <1>6, <1>7, <1>8 DEF Exec!Take, Stages, Ended

LEMMA ExecuteIsShown ==
  ASSUME CInv, PInv, NEW w \in Workers, SwapIn(w)
  PROVE  Exec!Execute(w)
<1>1. PICK t : t = cur[w]
  OBVIOUS
<1>2. /\ pc[w] = "dispatch" /\ pc'[w] = "run" /\ \A v \in Workers \ {w} : pc'[v] = pc[v]
      /\ state' = [state EXCEPT ![t] = "EXEC"] /\ state[t] \notin {"TERM", "EXCEPT", "EXEC"}
      /\ UNCHANGED <<m_fibers, cur, early>>
  BY <1>1 DEF SwapIn, Goto, At, CInv, TypeOK, known
<1>3. t \in Tasks /\ \A v \in Workers \ {w} : cur[v] # t
  BY <1>1, <1>2, MineAlone DEF Holding
<1>4. state'[t] = "EXEC" /\ \A u \in Tasks \ {t} : state'[u] = state[u]
  BY <1>2, <1>3 DEF CInv, TypeOK
<1>5. \A v \in Workers \ {w} : cur[v] # NoTask => state'[cur[v]] = state[cur[v]]
  BY <1>3, <1>4 DEF CInv, TypeOK
<1>6. Stages' = [Stages EXCEPT ![w] = "executing"] /\ Stages[w] = "taken"
  <2>1. Stage(w)' = "executing" /\ Stage(w) = "taken"
    BY <1>2 DEF Stage
  <2> QED
    BY <1>2, <1>5, <2>1, OneStageMoves DEF Stages
<1>7. Ended' = Ended /\ cur[w] \notin Ended
  <2>1. \A u \in Tasks : state'[u] \in {"TERM", "EXCEPT"} <=> state[u] \in {"TERM", "EXCEPT"}
    BY <1>2, <1>4
  <2> QED
    BY <1>1, <1>2, <2>1 DEF Ended
<1> QED
  BY <1>2, <1>6, <1>7 DEF Exec!Execute, Stages, Ended

LEMMA LeavingIsShown ==
  ASSUME CInv, PInv, NEW w \in Workers, NEW s \in {"READY", "HOLD", "TERM", "EXCEPT"},
         Yield(w, s) \/ Return(w, s)
  PROVE  Exec!YieldReady(w) \/ Exec!Park(w)
<1>1. PICK t : t = cur[w]
  OBVIOUS
<1>2. /\ pc[w] = "run" /\ pc'[w] = "out" /\ \A v \in Workers \ {w} : pc'[v] = pc[v]
      /\ state' = [state EXCEPT ![t] = s]
      /\ UNCHANGED <<m_fibers, cur, early>>
  BY <1>1 DEF Yield, Return, Goto, At, CInv, TypeOK, known
<1>3. t \in Tasks /\ state[t] = "EXEC" /\ \A v \in Workers \ {w} : cur[v] # t
  BY <1>1, <1>2, MineAlone DEF Holding
<1>4. state'[t] = s /\ \A u \in Tasks \ {t} : state'[u] = state[u]
  BY <1>2, <1>3 DEF CInv, TypeOK
<1>5. \A v \in Workers \ {w} : cur[v] # NoTask => state'[cur[v]] = state[cur[v]]
  BY <1>3, <1>4 DEF CInv, TypeOK
<1>6. Stages[w] = "executing" /\ Stages' = [Stages EXCEPT ![w] = IF s = "READY" THEN "ready" ELSE "parked"]
  <2>1. Stage(w) = "executing" /\ Stage(w)' = IF s = "READY" THEN "ready" ELSE "parked"
    BY <1>1, <1>2, <1>4 DEF Stage
  <2> QED
    BY <1>2, <1>5, <2>1, OneStageMoves DEF Stages
<1>7. Ended' = IF s \in {"TERM", "EXCEPT"} THEN Ended \cup {t} ELSE Ended
  <2>1. CASE s \in {"TERM", "EXCEPT"}
    BY <1>3, <1>4, <2>1 DEF Ended
  <2>2. CASE s \notin {"TERM", "EXCEPT"}
    BY <1>3, <1>4, <2>2 DEF Ended
  <2> QED
    BY <2>1, <2>2
<1>8. CASE s = "READY"
  BY <1>2, <1>6, <1>7, <1>8 DEF Exec!YieldReady, Stages, Ended
<1>9. CASE s # "READY"
  <2>1. Ended' \in {Ended, Ended \cup {cur[w]}}
    BY <1>1, <1>7
  <2> QED
    BY <1>2, <1>6, <1>9, <2>1 DEF Exec!Park, Stages, Ended
<1> QED
  BY <1>8, <1>9

\* A worker that lets go of its task.
LEMMA FreeIsShown ==
  ASSUME CInv, NEW w \in Workers, cur' = [cur EXCEPT ![w] = NoTask], early' = early,
         pc'[w] = "pick", \A v \in Workers \ {w} : pc'[v] = pc[v],
         \A u \in Tasks : state'[u] = state[u] \/ {state[u], state'[u]} \cap {"READY", "TERM", "EXCEPT"} = {}
  PROVE  Exec!Free(w) /\ Ended' = Ended
<1>1. \A v \in Workers \ {w} : cur'[v] = cur[v] /\ (cur[v] # NoTask => cur[v] \in Tasks)
  BY DEF CInv, TypeOK
<1>2. \A u \in Tasks : /\ state'[u] = "READY" <=> state[u] = "READY"
                       /\ state'[u] \in {"TERM", "EXCEPT"} <=> state[u] \in {"TERM", "EXCEPT"}
  OBVIOUS
<1>3. Stages' = [Stages EXCEPT ![w] = "free"]
  <2>1. Stage(w)' = "free"
    BY DEF Stage
  <2> QED
    BY <1>1, <1>2, <2>1, OneStageMoves
<1>4. Ended' = Ended
  BY <1>2 DEF Ended
<1> QED
  BY <1>3, <1>4 DEF Exec!Free, Stages, Ended

LEMMA LetGoIsShown ==
  ASSUME CInv, PInv, NEW w \in Workers, Settle(w) \/ DropEnded(w)
  PROVE  Exec!Requeue(w) \/ Exec!Drop(w)
<1>1. PICK t \in Tasks : t = cur[w]
  BY SchedulerAssumption DEF Settle, DropEnded, Goto, At, CInv, InHandWhenBusy, Holding, TypeOK
<1>2. /\ cur' = [cur EXCEPT ![w] = NoTask]
      /\ pc'[w] = "pick" /\ \A v \in Workers \ {w} : pc'[v] = pc[v]
      /\ early' = early
  BY DEF Settle, DropEnded, Goto, At, CInv, TypeOK, tasks, known
<1>3. CASE DropEnded(w)
  <2>1. /\ pc[w] = "dispatch" /\ state[t] \in {"TERM", "EXCEPT"}
        /\ UNCHANGED <<m_fibers, state>>
    BY <1>1, <1>3 DEF DropEnded, Goto, At, tasks
  <2>2. Stages[w] = "taken" /\ cur[w] \in Ended
    BY <1>1, <2>1 DEF Stages, Stage, Ended
  <2>3. Exec!Free(w)
    BY <1>2, <2>1, FreeIsShown
  <2> QED
    BY <2>1, <2>2, <2>3 DEF Exec!Drop, Stages, Ended
<1>4. CASE Settle(w)
  <2>1. pc[w] = "settle" /\ state[t] # "EXEC"
    <3>1. pc[w] = "settle"
      BY <1>4 DEF Settle, Goto, At
    <3>2. \A v \in Workers : cur[v] = t => v = w
      BY <1>1, SchedulerAssumption DEF PInv, OneHand
    <3> QED
      BY <3>1, <3>2 DEF PInv, ExecIffRunning
  <2>2. \A u \in Tasks : state'[u] = state[u] \/ {state[u], state'[u]} \cap {"READY", "TERM", "EXCEPT"} = {}
    BY <1>1, <1>4 DEF Settle, CInv, TypeOK
  <2>3. Exec!Free(w)
    BY <1>2, <2>2, FreeIsShown
  <2>4. CASE state[t] = "READY"
    <3>1. Stages[w] = "ready" /\ scheduleNoBlock(t, AnyThread)
      BY <1>1, <1>4, <2>1, <2>4 DEF Stages, Stage, Settle
    <3> QED
      BY <1>1, <2>3, <3>1 DEF Exec!Requeue, scheduleNoBlock, Stages
  <2>5. CASE state[t] # "READY"
    <3>1. Stages[w] = "parked" /\ UNCHANGED m_fibers
      BY <1>1, <1>4, <2>1, <2>5 DEF Stages, Stage, Settle
    <3> QED
      BY <2>3, <3>1 DEF Exec!Drop, Stages
  <2> QED
    BY <2>4, <2>5
<1> QED
  BY <1>3, <1>4

LEMMA NextIsShown ==
  ASSUME CInv, ~early => PInv, [Next]_schedVars
  PROVE  [Exec!Next]_<<m_fibers, cur, Stages, Ended, early>>
<1> USE DEF flags, counts, tasks, known
<1>a. CASE early
  BY <1>a, EarlyStays DEF Exec!Next
<1> SUFFICES ASSUME ~early, PInv
             PROVE  [Exec!Next]_<<m_fibers, cur, Stages, Ended, early>>
  BY <1>a
<1>1. ASSUME NEW w \in Workers,
             \/ PickNothing(w) \/ SwapOut(w) \/ Deactivate(w) \/ EnterIdle(w)
             \/ LeaveIdle(w) \/ ExitRun(w) \/ Idle(w)
      PROVE  UNCHANGED <<m_fibers, cur, Stages, Ended, early>>
  <2>1. /\ UNCHANGED <<m_fibers, cur, state, early>>
        /\ \/ \E from, to \in {"off", "pick", "none", "idle", "unidle", "exit"} : Goto(w, from, to)
           \/ \E from, to \in {"out", "back", "settle"} : Goto(w, from, to)
    BY <1>1 DEF PickNothing, SwapOut, Deactivate, EnterIdle, LeaveIdle, ExitRun, Idle
  <2>2. \A v \in Workers : \/ pc'[v] = pc[v]
                           \/ {pc[v], pc'[v]} \subseteq {"off", "pick", "none", "idle", "unidle", "exit"}
                           \/ {pc[v], pc'[v]} \subseteq {"out", "back", "settle"}
    BY <2>1 DEF Goto, At, CInv, TypeOK
  <2> QED
    BY <2>1, <2>2, NotShown
<1>2. ASSUME NEW w \in Workers, NEW t \in Tasks, NEW thread \in Targets,
             \/ Spawn(w, t, thread) \/ MainSchedule(t, thread)
             \/ Wake(w, t, thread) \/ MainResume(t, thread)
      PROVE  Exec!Put
  <2>1. schedule(t, thread) /\ UNCHANGED <<pc, cur, state>>
    BY <1>2 DEF Spawn, MainSchedule, Wake, MainResume, ScheduleNew, ScheduleAgain
  <2>2. Stages' = Stages /\ Ended' = Ended
    BY <2>1 DEF Stages, Stage, Ended
  <2> QED
    BY <2>1, <2>2, PutIsShown, SchedulerAssumption DEF CInv
<1>b. ASSUME NEW w \in Workers, NEW thread \in Targets, SwitchTo(w, thread) PROVE Exec!Put
  <2>1. /\ pc[w] = "run" /\ pc'[w] = "switch" /\ \A v \in Workers \ {w} : pc'[v] = pc[v]
        /\ schedule(cur[w], thread) /\ UNCHANGED <<cur, state>>
    BY <1>b DEF SwitchTo, Goto, At, CInv, TypeOK
  <2>2. cur[w] \in Tasks
    BY <2>1, MineAlone DEF Holding
  <2>3. Stages' = Stages /\ Ended' = Ended
    <3>1. \A v \in Workers : Stage(v)' = Stage(v)
      BY <2>1 DEF Stage
    <3> QED
      BY <2>1, <3>1 DEF Stages, Ended
  <2> QED
    BY <2>1, <2>2, <2>3, PutIsShown, SchedulerAssumption DEF CInv
<1>3. ASSUME NEW w \in Workers, NEW s \in {"READY", "HOLD", "TERM", "EXCEPT"},
             Yield(w, s) \/ Return(w, s)
      PROVE  Exec!YieldReady(w) \/ Exec!Park(w)
  BY <1>3, LeavingIsShown
<1>4. ASSUME NEW w \in Workers, Pick(w) \/ SwapIn(w) \/ Settle(w) \/ DropEnded(w)
      PROVE  Exec!Take(w) \/ Exec!Execute(w) \/ Exec!Requeue(w) \/ Exec!Drop(w)
  BY <1>4, TakeIsShown, ExecuteIsShown, LetGoIsShown
<1>5. ASSUME start \/ StopAuto \/ StopStep \/ UNCHANGED schedVars
      PROVE  UNCHANGED <<m_fibers, cur, Stages, Ended, early>>
  <2>1. UNCHANGED <<m_fibers, cur, state, early>>
    BY <1>5 DEF start, StopAuto, StopStep, StopFlag, StopJoin, schedVars
  <2>2. CASE start
    <3>1. \A w \in Workers : pc[w] = "off" /\ pc'[w] = "pick"
      BY <2>2 DEF start, MainAt, CInv, OffUntilStart
    <3> QED
      BY <2>1, <3>1, NotShown
  <2>3. CASE ~start
    <3>1. pc' = pc
      BY <1>5, <2>3 DEF StopAuto, StopStep, StopFlag, StopJoin, schedVars
    <3> QED
      BY <2>1, <3>1, NotShown
  <2> QED
    BY <2>2, <2>3
<1>6. ASSUME NEW w \in Workers, WorkerStep(w)
      PROVE  Exec!Next \/ UNCHANGED <<m_fibers, cur, Stages, Ended, early>>
  <2>1. CASE RunStep(w) \/ Idle(w)
    BY <1>1, <1>4, <2>1, StepsThatDoNotOccur DEF RunStep, Exec!Next, Exec!Work
  <2>2. CASE TaskStep(w)
    <3>1. CASE \E t \in Tasks, thread \in Targets : Spawn(w, t, thread) \/ Wake(w, t, thread)
      BY <1>2, <3>1, SchedulerAssumption DEF Exec!Next
    <3>2. CASE \E s \in {"READY", "HOLD", "TERM", "EXCEPT"} : Yield(w, s) \/ Return(w, s)
      BY <1>3, <3>2 DEF Exec!Next, Exec!Work
    <3>3. CASE \E thread \in Targets : SwitchTo(w, thread)
      BY <1>b, <3>3 DEF Exec!Next
    <3> QED
      BY <2>2, <3>1, <3>2, <3>3, StepsThatDoNotOccur DEF TaskStep
  <2> QED
    BY <1>6, <2>1, <2>2 DEF WorkerStep
<1>7. ASSUME NEW t \in Tasks, NEW thread \in Targets, MainSchedule(t, thread) \/ MainResume(t, thread)
      PROVE  Exec!Next
  <2>1. PICK w : w \in Workers
    BY SchedulerAssumption
  <2> QED
    BY <1>2, <1>7, <2>1, SchedulerAssumption DEF Exec!Next
<1> QED
  BY <1>5, <1>6, <1>7 DEF Next

\* Until a task is scheduled early the scheduler implements an executor: what
\* is listed is taken in order by the workers it is bound to, executed once for
\* every time it is taken, put back when it is ready, and not executed after it
\* has ended; so the workers keep their part of the promise.
THEOREM SchedulerIsExecutor == Spec => ImplementsExecutor
<1>1. Init => Exec!Init
  BY SchedulerAssumption DEF Init, Exec!Init, Stage
<1>2. CInv /\ (~early => PInv) /\ [Next]_schedVars
        => [Exec!Next]_<<m_fibers, cur, Stages, Ended, early>>
  BY NextIsShown
<1>3. [Exec!Next]_<<m_fibers, cur, Stages, Ended, early>> => [Exec!Next]_Exec!evars
  BY DEF Exec!evars, Stages, Ended
<1>4. CInv /\ (~early => PInv) /\ [Next]_schedVars => [Exec!Next]_Exec!evars
  BY <1>2, <1>3
<1> QED
  BY <1>1, <1>4, CInvInvariant, PInvInvariant, PTL DEF Spec, ImplementsExecutor, Exec!Spec

-----------------------------------------------------------------------------
(* What stop() leaves behind, when no task uses YieldToReady               *)

NeverReady == \A t \in Tasks : state[t] # "READY"

FlagsFollowMain ==
  /\ m_autoStop <=> main \in {"autostop", "joining", "stopped"}
  /\ m_stopping <=> main \in {"new", "joining", "stopped"}

ExitIsTerm == \A w \in Workers : pc[w] = "exit" => idleFiber[w] = "TERM"
IdleIsHold == \A w \in Workers : pc[w] = "idle" => idleFiber[w] = "HOLD"

StoppedIsJoined == main = "stopped" => \A w \in Workers : pc[w] = "exit"

\* What each thread knows of the others.
SInv == NeverReady /\ FlagsFollowMain /\ ExitIsTerm /\ IdleIsHold /\ StoppedIsJoined

\* Nothing to do, and nobody who could find something to do.  A worker may be
\* in "settle": it only stores the state of a task that has been left.
Quiet ==
  /\ m_fibers = <<>>
  /\ \A w \in Workers : pc[w] \notin Holding
  /\ main \in {"joining", "stopped"}

\* A task that waits for its first turn, or has one, is somewhere.
StartedIsSomewhere ==
  \A t \in Tasks :
    \/ state[t] = "EXEC"
    \/ state[t] = "INIT" /\ t \in scheduled
    => InList(t) \/ InHand(t)

LEMMA InitSInv == Init => SInv
  BY DEF Init, SInv, NeverReady, FlagsFollowMain, ExitIsTerm, IdleIsHold, StoppedIsJoined

LEMMA NextSInv ==
  ASSUME "READY" \notin Yields, CInv, SInv, [Next]_schedVars
  PROVE  SInv'
<1> USE DEF SInv, NeverReady, FlagsFollowMain, ExitIsTerm, IdleIsHold, StoppedIsJoined,
            CInv, TypeOK, FiberState, Goto, At, MainAt, counts, flags, tasks, known
<1>1. ASSUME NEW w \in Workers, Pick(w) \/ PickNothing(w) \/ DropEnded(w) PROVE SInv'
  BY <1>1 DEF Pick, PickNothing, DropEnded
<1>2. ASSUME NEW w \in Workers, SwapIn(w) \/ SwapInFails(w) \/ SwapOut(w) \/ Deactivate(w)
      PROVE  SInv'
  BY <1>2 DEF SwapIn, SwapInFails, SwapOut, Deactivate
<1>3. ASSUME NEW w \in Workers, Settle(w) PROVE SInv'
  BY <1>3 DEF Settle
<1>4. ASSUME NEW w \in Workers, EnterIdle(w) \/ LeaveIdle(w) \/ ExitRun(w) \/ Idle(w)
      PROVE  SInv'
  <2>1. CASE EnterIdle(w)
    BY <2>1 DEF EnterIdle
  <2>2. CASE LeaveIdle(w) \/ ExitRun(w)
    BY <2>2 DEF LeaveIdle, ExitRun
  <2>3. CASE Idle(w)
    BY <2>3 DEF Idle
  <2> QED
    BY <1>4, <2>1, <2>2, <2>3
<1>5. ASSUME NEW w \in Workers, TaskStep(w) PROVE SInv'
  BY <1>5 DEF TaskStep, Spawn, Wake, Yield, SwitchTo, SwitchToHold, YieldFails, Return
<1>6. ASSUME start \/ StopAuto \/ StopStep PROVE SInv'
  BY <1>6 DEF start, StopAuto, StopStep, StopFlag, StopJoin
<1>7. ASSUME NEW t \in Tasks, NEW thread \in Targets,
             MainSchedule(t, thread) \/ MainResume(t, thread)
      PROVE  SInv'
  BY <1>7 DEF MainSchedule, MainResume
<1>8. ASSUME UNCHANGED schedVars PROVE SInv'
  BY <1>8 DEF schedVars
<1> QED
  BY <1>1, <1>2, <1>3, <1>4, <1>5, <1>6, <1>7, <1>8 DEF Next, WorkerStep, RunStep

\* What the base class calls stopping() is that nothing is left to do.
LEMMA StoppingIsQuiet ==
  ASSUME CInv, SInv, stopping
  PROVE  Quiet
<1>1. Cardinality(InPosition(Holding)) = 0
  BY CountersAgreeAsCounts DEF stopping, CInv, NumHolding
<1>2. IsFiniteSet(InPosition(Holding))
  BY SchedulerAssumption, FS_Subset DEF InPosition
<1>3. InPosition(Holding) = {}
  BY <1>1, <1>2, FS_EmptySet
<1> QED
  BY <1>3 DEF stopping, SInv, FlagsFollowMain, Quiet, InPosition

\* A quiet scheduler stays quiet: no thread is where it could schedule.
LEMMA QuietStays ==
  ASSUME CInv, SInv, Quiet, [Next]_schedVars
  PROVE  Quiet'
<1> USE DEF Quiet, SInv, NeverReady, CInv, TypeOK, Holding, Goto, At, MainAt, counts, flags, tasks, known
<1>1. ASSUME NEW w \in Workers, Pick(w) PROVE FALSE
  BY <1>1 DEF Pick, Takeable
<1>2. ASSUME NEW w \in Workers,
             \/ DropEnded(w) \/ SwapIn(w) \/ SwapInFails(w) \/ SwapOut(w) \/ Deactivate(w)
             \/ TaskStep(w)
      PROVE  FALSE
  BY <1>2 DEF DropEnded, SwapIn, SwapInFails, SwapOut, Deactivate, TaskStep, Spawn, Wake, Yield,
              SwitchTo, SwitchToHold, YieldFails, Return
<1>3. ASSUME NEW w \in Workers, PickNothing(w) \/ EnterIdle(w) \/ LeaveIdle(w) \/ ExitRun(w) \/ Idle(w)
      PROVE  Quiet'
  BY <1>3 DEF PickNothing, EnterIdle, LeaveIdle, ExitRun, Idle
<1>4. ASSUME NEW w \in Workers, Settle(w) PROVE Quiet'
  <2>1. cur[w] \in Tasks
    BY <1>4, SchedulerAssumption DEF Settle, InHandWhenBusy
  <2> QED
    BY <1>4, <2>1 DEF Settle
<1>5. ASSUME \/ start \/ StopAuto
             \/ \E t \in Tasks, thread \in Targets :
                  MainSchedule(t, thread) \/ MainResume(t, thread)
      PROVE  FALSE
  BY <1>5 DEF start, StopAuto, MainSchedule, MainResume
<1>6. ASSUME StopStep \/ UNCHANGED schedVars PROVE Quiet'
  BY <1>6 DEF StopStep, StopFlag, StopJoin, schedVars
<1> QED
  BY <1>1, <1>2, <1>3, <1>4, <1>5, <1>6 DEF Next, WorkerStep, RunStep

LEMMA NextStarted ==
  ASSUME "READY" \notin Yields, CInv, SInv, StartedIsSomewhere, [Next]_schedVars
  PROVE  StartedIsSomewhere'
<1> DEFINE Started(u) == state[u] = "EXEC" \/ (state[u] = "INIT" /\ u \in scheduled)
<1> USE DEF counts, flags, tasks, known, Somewhere
<1>a. \A u \in Tasks : Started(u) => Somewhere(u)
  BY DEF StartedIsSomewhere
<1>b. ASSUME \A u \in Tasks : Started(u)' => Somewhere(u)' PROVE StartedIsSomewhere'
  BY <1>b DEF StartedIsSomewhere
<1>c. \A w \in Workers : pc[w] \in Holding \cup {"settle"} => cur[w] \in Tasks
  BY SchedulerAssumption DEF CInv, InHandWhenBusy, TypeOK
<1>1. ASSUME NEW w \in Workers, Pick(w) PROVE StartedIsSomewhere'
  <2>1. PICK i \in Takeable(w) :
          cur' = [cur EXCEPT ![w] = m_fibers[i].task] /\ m_fibers' = RemoveAt(m_fibers, i)
    BY <1>1 DEF Pick
  <2>2. i \in DOMAIN m_fibers
    BY <2>1 DEF Takeable
  <2>3. \A u \in Tasks : InList(u) => InList(u)' \/ u = m_fibers[i].task
    BY <2>1, <2>2, TakeKeepsOthers DEF CInv
  <2>4. /\ cur'[w] = m_fibers[i].task /\ \A v \in Workers \ {w} : cur'[v] = cur[v]
        /\ cur[w] = NoTask
    BY <1>1, <2>1 DEF Pick, Goto, At, CInv, TypeOK, InHandWhenBusy, Holding
  <2>5. \A u \in Tasks : Somewhere(u) => Somewhere(u)'
    BY <2>3, <2>4, SchedulerAssumption DEF InHand
  <2>6. UNCHANGED <<state, scheduled>>
    BY <1>1 DEF Pick
  <2> QED
    BY <1>a, <1>b, <2>5, <2>6
<1>2. ASSUME UNCHANGED <<m_fibers, cur, state, scheduled>> PROVE StartedIsSomewhere'
  BY <1>2, <1>a, <1>b DEF InList, InHand
<1>3. ASSUME NEW w \in Workers,
             \/ PickNothing(w) \/ SwapInFails(w) \/ SwapOut(w) \/ Deactivate(w)
             \/ EnterIdle(w) \/ LeaveIdle(w) \/ ExitRun(w) \/ Idle(w) \/ YieldFails(w)
      PROVE  UNCHANGED <<m_fibers, cur, state, scheduled>>
  BY <1>3 DEF PickNothing, SwapInFails, SwapOut, Deactivate, EnterIdle, LeaveIdle, ExitRun, Idle,
              YieldFails
<1>4. ASSUME \/ start \/ StopAuto \/ StopStep \/ UNCHANGED schedVars
      PROVE  UNCHANGED <<m_fibers, cur, state, scheduled>>
  BY <1>4 DEF start, StopAuto, StopStep, StopFlag, StopJoin, schedVars
<1>5. ASSUME NEW w \in Workers, DropEnded(w) \/ Settle(w) PROVE StartedIsSomewhere'
  <2>1. PICK t \in Tasks : t = cur[w]
    BY <1>5, <1>c DEF DropEnded, Settle, Goto, At, Holding
  <2>2. /\ cur' = [cur EXCEPT ![w] = NoTask]
        /\ ~Started(t)' /\ \A u \in Tasks \ {t} : state'[u] = state[u]
        /\ UNCHANGED scheduled
    BY <1>5, <2>1 DEF DropEnded, Settle, SInv, NeverReady, CInv, TypeOK, FiberState
  <2>3. m_fibers' = m_fibers
    BY <1>5, <2>1 DEF DropEnded, Settle, SInv, NeverReady
  <2>4. \A u \in Tasks \ {t} : Somewhere(u) => Somewhere(u)'
    BY <2>1, <2>2, <2>3 DEF InList, InHand, CInv, TypeOK
  <2> QED
    BY <1>a, <1>b, <2>2, <2>4
<1>6. ASSUME NEW w \in Workers,
             \/ SwapIn(w) \/ SwitchToHold(w)
             \/ \E s \in {"READY", "HOLD"} : Yield(w, s)
             \/ \E s \in {"TERM", "EXCEPT"} : Return(w, s)
      PROVE  StartedIsSomewhere'
  <2>1. PICK t \in Tasks : t = cur[w]
    BY <1>6, <1>c DEF SwapIn, SwitchToHold, Yield, Return, Goto, At, Holding
  <2>2. /\ UNCHANGED <<m_fibers, cur, scheduled>>
        /\ \A u \in Tasks \ {t} : state'[u] = state[u]
    BY <1>6, <2>1 DEF SwapIn, SwitchToHold, Yield, Return, CInv, TypeOK
  <2>3. InHand(t)'
    BY <2>1, <2>2 DEF InHand
  <2>4. \A u \in Tasks : Somewhere(u) => Somewhere(u)'
    BY <2>2 DEF InList, InHand
  <2> QED
    BY <1>a, <1>b, <2>2, <2>3, <2>4
<1>7. ASSUME NEW t \in Tasks, NEW thread \in Workers \cup {AnyThread}, scheduleNoBlock(t, thread),
             UNCHANGED <<cur, state>>, scheduled' \subseteq scheduled \cup {t}
      PROVE  StartedIsSomewhere'
  <2>1. \A u \in Tasks : InList(u)' <=> InList(u) \/ u = t
    BY <1>7, ScheduleAddsOne DEF CInv
  <2>2. \A u \in Tasks : InHand(u)' <=> InHand(u)
    BY <1>7 DEF InHand
  <2> QED
    BY <1>7, <1>a, <1>b, <2>1, <2>2
<1>8. ASSUME NEW w \in Workers, NEW t \in Tasks, NEW thread \in Targets,
             \/ Spawn(w, t, thread) \/ Wake(w, t, thread)
             \/ MainSchedule(t, thread) \/ MainResume(t, thread)
      PROVE  StartedIsSomewhere'
  <2>1. /\ scheduleNoBlock(t, thread) /\ UNCHANGED <<cur, state>>
        /\ scheduled' \subseteq scheduled \cup {t}
    BY <1>8 DEF Spawn, Wake, MainSchedule, MainResume, ScheduleNew, ScheduleAgain, schedule
  <2> QED
    BY <1>7, <2>1, SchedulerAssumption
<1>9. ASSUME NEW w \in Workers, NEW thread \in Targets, SwitchTo(w, thread)
      PROVE  StartedIsSomewhere'
  <2>1. PICK t \in Tasks : t = cur[w]
    BY <1>9, <1>c DEF SwitchTo, Goto, At, Holding
  <2>2. /\ scheduleNoBlock(t, thread) /\ UNCHANGED <<cur, state>>
        /\ scheduled' \subseteq scheduled \cup {t}
    BY <1>9, <2>1 DEF SwitchTo, schedule
  <2> QED
    BY <1>7, <2>2, SchedulerAssumption
<1>10. Workers # {}
  BY SchedulerAssumption
<1> QED
  BY <1>1, <1>2, <1>3, <1>4, <1>5, <1>6, <1>8, <1>9, <1>10
     DEF Next, WorkerStep, RunStep, TaskStep

\* The inductive invariant: a worker whose idle fiber has ended found the
\* scheduler quiet, and it has been quiet since.
TermIsQuiet == (\E w \in Workers : idleFiber[w] = "TERM") => Quiet

LEMMA NextTermIsQuiet ==
  ASSUME CInv, SInv, TermIsQuiet, [Next]_schedVars
  PROVE  TermIsQuiet'
<1> SUFFICES ASSUME NEW w \in Workers, idleFiber'[w] = "TERM" PROVE Quiet'
  BY DEF TermIsQuiet
<1>1. CASE \E v \in Workers : idleFiber[v] = "TERM"
  BY <1>1, QuietStays DEF TermIsQuiet
<1>2. CASE \A v \in Workers : idleFiber[v] # "TERM"
  <2>1. PICK v \in Workers : Idle(v)
    BY <1>2 DEF Next, WorkerStep, RunStep, TaskStep, StopStep, Pick, PickNothing, DropEnded, SwapIn,
       SwapInFails, SwapOut, Deactivate, Settle, EnterIdle, LeaveIdle, ExitRun, Spawn, Wake, Yield,
       SwitchTo, SwitchToHold, YieldFails, Return, start, StopAuto, StopFlag, StopJoin,
       MainSchedule, MainResume, schedVars
  <2>2. stopping
    BY <1>2, <2>1 DEF Idle, CInv, TypeOK
  <2> QED
    BY <2>2, StoppingIsQuiet, QuietStays
<1> QED
  BY <1>1, <1>2

LEMMA StopInvariant ==
  ASSUME "READY" \notin Yields
  PROVE  Spec => [](SInv /\ TermIsQuiet /\ StartedIsSomewhere)
<1> DEFINE Inv == SInv /\ TermIsQuiet /\ StartedIsSomewhere
<1>1. Init => Inv
  BY InitSInv DEF Init, TermIsQuiet, StartedIsSomewhere
<1>2. CInv /\ Inv /\ [Next]_schedVars => Inv'
  BY NextSInv, NextTermIsQuiet, NextStarted
<1> QED
  BY <1>1, <1>2, CInvInvariant, PTL DEF Spec

\* When stop() returns the list is empty and every task that was scheduled has
\* ended or is parked on hold, whichever worker noticed the end first and
\* whatever the others were doing then, provided no task uses YieldToReady.
THEOREM StopLeavesNothing ==
  ASSUME "READY" \notin Yields
  PROVE  Spec => []StopDrains
<1>1. CInv /\ SInv /\ TermIsQuiet /\ StartedIsSomewhere => StopDrains
  <2> SUFFICES ASSUME CInv, SInv, TermIsQuiet, StartedIsSomewhere, main = "stopped"
               PROVE  /\ m_fibers = <<>>
                      /\ \A t \in scheduled : state[t] \in {"TERM", "EXCEPT", "HOLD"}
    BY DEF StopDrains
  <2>1. \A w \in Workers : pc[w] = "exit" /\ idleFiber[w] = "TERM"
    BY DEF SInv, StoppedIsJoined, ExitIsTerm
  <2>2. m_fibers = <<>>
    BY <2>1, SchedulerAssumption DEF TermIsQuiet, Quiet
  <2>3. \A t \in Tasks : ~InList(t) /\ ~InHand(t)
    BY <2>1, <2>2, SchedulerAssumption DEF InList, InHand, CInv, InHandWhenBusy, Holding
  <2>4. \A t \in scheduled : t \in Tasks /\ state[t] \in FiberState
    BY DEF CInv, TypeOK
  <2> QED
    BY <2>2, <2>3, <2>4 DEF StartedIsSomewhere, SInv, NeverReady, FiberState
<1> QED
  BY <1>1, CInvInvariant, StopInvariant, PTL
=============================================================================
