-------------------------- MODULE ThreadPool_proofs --------------------------
(***************************************************************************)
(* Proofs about ThreadPool.tla, for any set of workers, clients and tasks. *)
(***************************************************************************)
EXTENDS ThreadPool, TLAPS

(***************************************************************************)
(* The inductive invariant: the properties of the run, together with how   *)
(* the destructor's position and stop_ are related.                        *)
(***************************************************************************)
DestructorState ==
  /\ stop_ <=> dpc # "alive"
  /\ dpc = "gone" => \A w \in Workers : wpc[w] = "exit"

IInv ==
  /\ TypeOK
  /\ DestructorState
  /\ NoTaskAfterExit
  /\ NoLostWakeup
  /\ NobodySleepsAfterStop

-----------------------------------------------------------------------------
(* Sequences: what Append and Tail do to the positions and the elements.   *)

\* Appending adds one element at one new, last position.
LEMMA AppendFacts ==
  ASSUME NEW S, NEW q \in Seq(S), NEW e \in S
  PROVE  /\ Append(q, e) \in Seq(S)
         /\ Append(q, e) # <<>>
         /\ DOMAIN Append(q, e) = 1 .. Len(q) + 1
         /\ \A i \in 1 .. Len(q) : Append(q, e)[i] = q[i]
         /\ Append(q, e)[Len(q) + 1] = e
         /\ DOMAIN q = 1 .. Len(q)
         /\ Len(q) \in Nat
OBVIOUS

\* Tail shifts the positions after the first by one.
LEMMA TailFacts ==
  ASSUME NEW S, NEW q \in Seq(S), q # <<>>
  PROVE  /\ Tail(q) \in Seq(S)
         /\ Head(q) \in S
         /\ Head(q) = q[1]
         /\ Len(q) \in Nat \ {0}
         /\ DOMAIN q = 1 .. Len(q)
         /\ DOMAIN Tail(q) = 1 .. Len(q) - 1
         /\ \A i \in 1 .. Len(q) - 1 : Tail(q)[i] = q[i + 1]
OBVIOUS

-----------------------------------------------------------------------------
(* Type correctness.                                                       *)

LEMMA InitTypeOK == Init => TypeOK
<1> SUFFICES ASSUME Init PROVE TypeOK
  OBVIOUS
<1> USE PoolAssumption DEF Init
<1>1. tasks_ \in Seq(Tasks)
  OBVIOUS
<1>2. /\ wpc \in [Workers -> {"check", "wait", "run", "exit"}]
      /\ \A w \in Workers : wpc[w] = "run" <=> task[w] # NoTask
  OBVIOUS
<1>3. /\ task \in [Workers -> Tasks \cup {NoTask}]
      /\ epc \in [Callers -> {"idle", "notify"}]
      /\ future \in [Tasks -> {"none", "pending", "ready", "thrown"}]
  OBVIOUS
<1> QED
  BY <1>1, <1>2, <1>3 DEF TypeOK

\* ThreadPool keeps its types, and a worker holds a task exactly while it
\* runs one.
THEOREM TypeCorrect == Spec => []TypeOK
<1>1. Init => TypeOK
  BY InitTypeOK
<1>2. TypeOK /\ [Next]_vars => TypeOK'
  <2> SUFFICES ASSUME TypeOK, [Next]_vars PROVE TypeOK'
    OBVIOUS
  <2> USE PoolAssumption DEF TypeOK, Callers
  <2>1. ASSUME NEW c \in Callers, NEW t \in Tasks, Enqueue(c, t) PROVE TypeOK'
    BY <2>1, AppendFacts DEF Enqueue, MayCall
  <2>2. ASSUME NEW c \in Callers, NEW t \in Tasks, EnqueueThrows(c, t) PROVE TypeOK'
    BY <2>2 DEF EnqueueThrows
  <2>3. ASSUME NEW c \in Callers, NotifyOne(c) PROVE TypeOK'
    BY <2>3 DEF NotifyOne, Waiting
  <2>4. ASSUME NEW w \in Workers, Wait(w) PROVE TypeOK'
    BY <2>4 DEF Wait
  <2>5. ASSUME NEW w \in Workers, SpuriousWakeup(w) PROVE TypeOK'
    BY <2>5 DEF SpuriousWakeup
  <2>6. ASSUME NEW w \in Workers, Take(w) PROVE TypeOK'
    BY <2>6, TailFacts DEF Take
  <2>7. ASSUME NEW w \in Workers, Run(w) PROVE TypeOK'
    BY <2>7 DEF Run
  <2>8. ASSUME NEW w \in Workers, Exit(w) PROVE TypeOK'
    BY <2>8 DEF Exit
  <2>9. CASE DestroySetStop
    BY <2>9 DEF DestroySetStop
  <2>10. CASE DestroyNotifyAll
    BY <2>10 DEF DestroyNotifyAll
  <2>11. CASE DestroyJoin
    BY <2>11 DEF DestroyJoin
  <2>12. CASE UNCHANGED vars
    BY <2>12 DEF vars
  <2> QED
    BY <2>1, <2>2, <2>3, <2>4, <2>5, <2>6, <2>7, <2>8, <2>9, <2>10, <2>11, <2>12
       DEF Next, WorkerStep, DestructorStep
<1> QED
  BY <1>1, <1>2, PTL DEF Spec

-----------------------------------------------------------------------------
(* The hand-over between enqueue, the sleeping workers and the destructor. *)

LEMMA InitIInv == Init => IInv
  BY InitTypeOK, PoolAssumption
     DEF Init, IInv, DestructorState, NoTaskAfterExit, NoLostWakeup,
         NobodySleepsAfterStop

LEMMA NextIInv == IInv /\ TypeOK' /\ [Next]_vars => IInv'
<1> SUFFICES ASSUME IInv, TypeOK', [Next]_vars PROVE IInv'
  OBVIOUS
<1> USE PoolAssumption
    DEF IInv, TypeOK, Callers, DestructorState, NoTaskAfterExit, NoLostWakeup,
        NobodySleepsAfterStop
<1>1. ASSUME NEW c \in Callers, NEW t \in Tasks, Enqueue(c, t) PROVE IInv'
  BY <1>1, AppendFacts DEF Enqueue, MayCall
<1>2. ASSUME NEW c \in Callers, NEW t \in Tasks, EnqueueThrows(c, t) PROVE IInv'
  BY <1>2 DEF EnqueueThrows
<1>3. ASSUME NEW c \in Callers, NotifyOne(c) PROVE IInv'
  BY <1>3 DEF NotifyOne, Waiting
<1>4. ASSUME NEW w \in Workers, Wait(w) PROVE IInv'
  BY <1>4 DEF Wait
<1>5. ASSUME NEW w \in Workers, SpuriousWakeup(w) PROVE IInv'
  BY <1>5 DEF SpuriousWakeup
<1>6. ASSUME NEW w \in Workers, Take(w) PROVE IInv'
  BY <1>6, TailFacts DEF Take
<1>7. ASSUME NEW w \in Workers, Run(w) PROVE IInv'
  BY <1>7 DEF Run
<1>8. ASSUME NEW w \in Workers, Exit(w) PROVE IInv'
  BY <1>8 DEF Exit
<1>9. CASE DestroySetStop
  BY <1>9 DEF DestroySetStop
<1>10. CASE DestroyNotifyAll
  BY <1>10 DEF DestroyNotifyAll
<1>11. CASE DestroyJoin
  BY <1>11 DEF DestroyJoin
<1>12. CASE UNCHANGED vars
  BY <1>12 DEF vars
<1> QED
  BY <1>1, <1>2, <1>3, <1>4, <1>5, <1>6, <1>7, <1>8, <1>9, <1>10, <1>11, <1>12
     DEF Next, WorkerStep, DestructorStep

THEOREM Invariance == Spec => []IInv
  BY TypeCorrect, InitIInv, NextIInv, PTL DEF Spec

\* No queued task is ever left with every remaining worker asleep and no
\* notify on its way, although notify_one runs outside the lock.
THEOREM WakeupsAreNotLost == Spec => []NoLostWakeup
<1>1. IInv => NoLostWakeup
  BY DEF IInv
<1> QED
  BY <1>1, Invariance, PTL

\* Past notify_all nobody sleeps: the destructor's joins wait for workers
\* that can run.
THEOREM NoSleeperBlocksJoin == Spec => []NobodySleepsAfterStop
<1>1. IInv => NobodySleepsAfterStop
  BY DEF IInv
<1> QED
  BY <1>1, Invariance, PTL

\* A worker returns only when the queue is empty, and it stays empty.
THEOREM ExitLeavesNothing == Spec => []NoTaskAfterExit
<1>1. IInv => NoTaskAfterExit
  BY DEF IInv
<1> QED
  BY <1>1, Invariance, PTL

-----------------------------------------------------------------------------
(* Where the tasks are.                                                    *)

LEMMA ElementsAfterAppend ==
  ASSUME NEW S, NEW q \in Seq(S), NEW e \in S
  PROVE  {Append(q, e)[i] : i \in DOMAIN Append(q, e)} = {q[i] : i \in DOMAIN q} \cup {e}
  BY AppendFacts

LEMMA ElementsAfterTail ==
  ASSUME NEW S, NEW q \in Seq(S), q # <<>>,
         \A i, j \in DOMAIN q : q[i] = q[j] => i = j
  PROVE  /\ {Tail(q)[i] : i \in DOMAIN Tail(q)} = {q[i] : i \in DOMAIN q} \ {Head(q)}
         /\ Head(q) \in {q[i] : i \in DOMAIN q}
         /\ \A i, j \in DOMAIN Tail(q) : Tail(q)[i] = Tail(q)[j] => i = j
<1> USE TailFacts
<1> DEFINE E == {q[i] : i \in DOMAIN q}
           F == {Tail(q)[i] : i \in DOMAIN Tail(q)}
<1>1. ASSUME NEW x \in F PROVE x \in E \ {Head(q)}
  <2>1. PICK i \in 1 .. Len(q) - 1 : x = q[i + 1]
    OBVIOUS
  <2>2. i + 1 \in DOMAIN q /\ 1 \in DOMAIN q /\ i + 1 # 1
    OBVIOUS
  <2> QED
    BY <2>1, <2>2
<1>2. ASSUME NEW x \in E, x # Head(q) PROVE x \in F
  <2>1. PICK i \in DOMAIN q : x = q[i]
    OBVIOUS
  <2>2. i - 1 \in 1 .. Len(q) - 1 /\ (i - 1) + 1 = i
    BY <1>2, <2>1
  <2> QED
    BY <2>1, <2>2
<1>3. Head(q) \in E
  OBVIOUS
<1>4. \A i, j \in DOMAIN Tail(q) : Tail(q)[i] = Tail(q)[j] => i = j
  <2> SUFFICES ASSUME NEW i \in 1 .. Len(q) - 1, NEW j \in 1 .. Len(q) - 1,
                      q[i + 1] = q[j + 1]
               PROVE  i = j
    OBVIOUS
  <2>1. i + 1 \in DOMAIN q /\ j + 1 \in DOMAIN q
    OBVIOUS
  <2> QED
    BY <2>1
<1> QED
  BY <1>1, <1>2, <1>3, <1>4

LEMMA InitPlaces == Init => PendingIsInOnePlace
  BY DEF Init, PendingIsInOnePlace, Queued, Held

\* How each step changes the set of queued tasks and the set of held tasks.
LEMMA EnqueueMoves ==
  ASSUME TypeOK, PendingIsInOnePlace, NEW c \in Callers, NEW t \in Tasks, Enqueue(c, t)
  PROVE  Queued' = Queued \cup {t} /\ Held' = Held /\ t \notin Queued \cup Held
<1>1. tasks_ \in Seq(Tasks) /\ tasks_' = Append(tasks_, t)
  BY DEF TypeOK, Enqueue
<1>2. Queued' = Queued \cup {t}
  BY <1>1, ElementsAfterAppend DEF Queued
<1>3. Held' = Held
  BY DEF Enqueue, Held
<1>4. t \notin Queued \cup Held
  BY DEF Enqueue, PendingIsInOnePlace
<1> QED
  BY <1>2, <1>3, <1>4

LEMMA TakeMoves ==
  ASSUME TypeOK, PendingIsInOnePlace, NEW w \in Workers, Take(w)
  PROVE  /\ Queued' = Queued \ {Head(tasks_)}
         /\ Held' = Held \cup {Head(tasks_)}
         /\ Head(tasks_) \in Queued
         /\ Head(tasks_) \notin Held
<1>1. Queued' = Queued \ {Head(tasks_)} /\ Head(tasks_) \in Queued
  <2>1. tasks_ \in Seq(Tasks) /\ tasks_ # <<>> /\ tasks_' = Tail(tasks_)
    BY DEF TypeOK, Take
  <2>2. \A i, j \in DOMAIN tasks_ : tasks_[i] = tasks_[j] => i = j
    BY DEF PendingIsInOnePlace
  <2> QED
    BY <2>1, <2>2, ElementsAfterTail DEF Queued
<1>2. Held' = Held \cup {Head(tasks_)}
  BY DEF TypeOK, Take, Held
<1> QED
  BY <1>1, <1>2 DEF PendingIsInOnePlace

LEMMA RunMoves ==
  ASSUME TypeOK, PendingIsInOnePlace, NEW w \in Workers, Run(w)
  PROVE  /\ Queued' = Queued
         /\ Held' = Held \ {task[w]}
         /\ task[w] \in Held /\ task[w] \in Tasks
<1>1. Queued' = Queued
  BY DEF Run, Queued
<1>2. task[w] \in Held /\ task[w] \in Tasks
  BY DEF Run, Held, TypeOK
<1>3. Held' = Held \ {task[w]}
  BY DEF TypeOK, PendingIsInOnePlace, Run, Held
<1> QED
  BY <1>1, <1>2, <1>3

\* Every other step leaves both sets as they are.
LEMMA OthersMoveNothing ==
  ASSUME TypeOK, UNCHANGED <<tasks_, task>>,
         \A w \in Workers : wpc'[w] = "run" <=> wpc[w] = "run"
  PROVE  Queued' = Queued /\ Held' = Held
  BY DEF Queued, Held

LEMMA RunningIsKept ==
  ASSUME TypeOK,
         \/ \E c \in Callers : NotifyOne(c)
         \/ \E c \in Callers, t \in Tasks : EnqueueThrows(c, t)
         \/ \E w \in Workers : Wait(w) \/ SpuriousWakeup(w) \/ Exit(w)
         \/ DestroySetStop \/ DestroyNotifyAll \/ DestroyJoin
         \/ UNCHANGED vars
  PROVE  /\ UNCHANGED <<tasks_, task>>
         /\ \A w \in Workers : wpc'[w] = "run" <=> wpc[w] = "run"
  BY DEF TypeOK, NotifyOne, Waiting, EnqueueThrows, Wait, SpuriousWakeup, Exit,
         DestroySetStop, DestroyNotifyAll, DestroyJoin, vars

LEMMA NextPlaces ==
  TypeOK /\ TypeOK' /\ PendingIsInOnePlace /\ [Next]_vars => PendingIsInOnePlace'
<1> SUFFICES ASSUME TypeOK, TypeOK', PendingIsInOnePlace, [Next]_vars
             PROVE  PendingIsInOnePlace'
  OBVIOUS
<1>1. ASSUME NEW c \in Callers, NEW t \in Tasks, Enqueue(c, t)
      PROVE  PendingIsInOnePlace'
  <2>1. Queued' = Queued \cup {t} /\ Held' = Held /\ t \notin Queued \cup Held
    BY <1>1, EnqueueMoves
  <2>2. \A i, j \in DOMAIN tasks_' : tasks_'[i] = tasks_'[j] => i = j
    BY <1>1, <2>1, AppendFacts DEF TypeOK, PendingIsInOnePlace, Enqueue, Queued
  <2>3. \A s \in Tasks : (future[s] = "pending")' <=> s \in (Queued \cup Held)'
    BY <1>1, <2>1 DEF TypeOK, PendingIsInOnePlace, Enqueue
  <2> QED
    BY <1>1, <2>1, <2>2, <2>3 DEF PendingIsInOnePlace, Enqueue
<1>2. ASSUME NEW w \in Workers, Take(w) PROVE PendingIsInOnePlace'
  <2>1. /\ Queued' = Queued \ {Head(tasks_)}
        /\ Held' = Held \cup {Head(tasks_)}
        /\ Head(tasks_) \in Queued /\ Head(tasks_) \notin Held
    BY <1>2, TakeMoves
  <2>2. \A i, j \in DOMAIN tasks_' : tasks_'[i] = tasks_'[j] => i = j
    BY <1>2, ElementsAfterTail DEF TypeOK, PendingIsInOnePlace, Take
  <2>3. \A u, v \in Workers :
          wpc'[u] = "run" /\ wpc'[v] = "run" /\ task'[u] = task'[v] => u = v
    BY <1>2, <2>1 DEF TypeOK, PendingIsInOnePlace, Take, Held
  <2> QED
    BY <1>2, <2>1, <2>2, <2>3 DEF PendingIsInOnePlace, Take
<1>3. ASSUME NEW w \in Workers, Run(w) PROVE PendingIsInOnePlace'
  <2>1. /\ Queued' = Queued /\ Held' = Held \ {task[w]}
        /\ task[w] \in Held /\ task[w] \in Tasks
    BY <1>3, RunMoves
  <2>2. \A u, v \in Workers :
          wpc'[u] = "run" /\ wpc'[v] = "run" /\ task'[u] = task'[v] => u = v
    BY <1>3 DEF TypeOK, PendingIsInOnePlace, Run
  <2>3. \A s \in Tasks : (future[s] = "pending")' <=> s \in (Queued \cup Held)'
    BY <1>3, <2>1 DEF TypeOK, PendingIsInOnePlace, Run
  <2> QED
    BY <1>3, <2>1, <2>2, <2>3 DEF PendingIsInOnePlace, Run
<1>4. CASE ~ \/ \E c \in Callers, t \in Tasks : Enqueue(c, t)
             \/ \E w \in Workers : Take(w) \/ Run(w)
  <2>1. /\ UNCHANGED <<tasks_, task>>
        /\ \A w \in Workers : wpc'[w] = "run" <=> wpc[w] = "run"
    BY <1>4, RunningIsKept DEF Next, WorkerStep, DestructorStep
  <2>2. Queued' = Queued /\ Held' = Held
    BY <2>1, OthersMoveNothing
  <2>3. \A s \in Tasks : (future[s] = "pending")' <=> future[s] = "pending"
    BY <1>4 DEF Next, WorkerStep, DestructorStep, TypeOK, NotifyOne, EnqueueThrows, Wait,
       SpuriousWakeup, Exit, DestroySetStop, DestroyNotifyAll, DestroyJoin, vars
  <2> QED
    BY <2>1, <2>2, <2>3 DEF PendingIsInOnePlace
<1> QED
  BY <1>1, <1>2, <1>3, <1>4

\* An accepted task is queued once or held by one worker until it is finished:
\* none is lost, none is run twice.
THEOREM NoTaskLostOrRepeated == Spec => []PendingIsInOnePlace
  BY TypeCorrect, InitPlaces, NextPlaces, PTL DEF Spec

-----------------------------------------------------------------------------
(* The pool implements TaskPool.                                           *)

LEMMA InitMapsToInit == Init => TP!Init
  BY DEF Init, TP!Init, Held

LEMMA StepMapsToStep ==
  IInv /\ PendingIsInOnePlace /\ [Next]_vars => [TP!Next]_(TP!tpvars)
<1> SUFFICES ASSUME IInv, PendingIsInOnePlace, [Next]_vars
             PROVE  [TP!Next]_(TP!tpvars)
  OBVIOUS
<1> DEFINE Done == {t \in Tasks : future[t] = "ready"}
           Refused == {t \in Tasks : future[t] = "thrown"}
           Phase == IF dpc = "gone" THEN "gone"
                    ELSE IF stop_ THEN "closed" ELSE "open"
<1>0. TypeOK /\ DestructorState
  BY DEF IInv
<1>1. \A t \in Tasks : future[t] = "none" => t \notin TP!Submitted
  BY <1>0 DEF TypeOK, PendingIsInOnePlace, TP!Submitted, Queued
<1>2. ASSUME NEW c \in Callers, NEW t \in Tasks, Enqueue(c, t)
      PROVE  TP!Submit(t)
  <2>1. Held' = Held
    BY <1>0, <1>2, EnqueueMoves
  <2>2. Done' = Done /\ Refused' = Refused
    BY <1>0, <1>2 DEF TypeOK, Enqueue
  <2>3. Phase = "open" /\ Phase' = "open"
    BY <1>0, <1>2 DEF Enqueue, DestructorState
  <2> QED
    BY <1>1, <1>2, <2>1, <2>2, <2>3 DEF TP!Submit, Enqueue
<1>3. ASSUME NEW c \in Callers, NEW t \in Tasks, EnqueueThrows(c, t)
      PROVE  TP!Refuse(t)
  <2>1. Held' = Held
    BY <1>3 DEF EnqueueThrows, Held
  <2>2. Done' = Done /\ Refused' = Refused \cup {t}
    BY <1>0, <1>3 DEF TypeOK, EnqueueThrows
  <2>3. dpc # "gone"
    BY <1>0, <1>3 DEF EnqueueThrows, MayCall, DestructorState, Callers
  <2>4. Phase = "closed" /\ Phase' = "closed"
    BY <1>3, <2>3 DEF EnqueueThrows
  <2> QED
    BY <1>1, <1>3, <2>1, <2>2, <2>4 DEF TP!Refuse, EnqueueThrows
<1>4. ASSUME NEW w \in Workers, Take(w) PROVE TP!Start
  BY <1>0, <1>4, TakeMoves DEF TP!Start, Take
<1>5. ASSUME NEW w \in Workers, Run(w) PROVE TP!Finish(task[w]) /\ task[w] \in Tasks
  <2>1. Held' = Held \ {task[w]} /\ task[w] \in Held /\ task[w] \in Tasks
    BY <1>0, <1>5, RunMoves
  <2>2. Done' = Done \cup {task[w]}
    BY <1>0, <1>5, <2>1 DEF TypeOK, Run
  <2>3. future[task[w]] = "pending"
    BY <2>1 DEF PendingIsInOnePlace
  <2>4. Refused' = Refused
    BY <1>0, <1>5, <2>1, <2>3 DEF TypeOK, Run
  <2>5. Phase' = Phase
    BY <1>5 DEF Run
  <2> QED
    BY <1>5, <2>1, <2>2, <2>4, <2>5 DEF TP!Finish, Run
<1>6. CASE DestroySetStop
  BY <1>0, <1>6 DEF DestroySetStop, DestructorState, Held, TP!Next, TP!Close
<1>7. CASE DestroyJoin
  <2>1. tasks_ = <<>> /\ Held = {}
    BY <1>7, PoolAssumption DEF DestroyJoin, IInv, NoTaskAfterExit, Held
  <2>2. Phase = "closed" /\ Phase' = "gone"
    BY <1>0, <1>7 DEF DestroyJoin, DestructorState
  <2>3. Held' = Held
    BY <1>7 DEF DestroyJoin, Held
  <2> QED
    BY <1>7, <2>1, <2>2, <2>3 DEF DestroyJoin, TP!Next, TP!Destroy
<1>8. ASSUME \/ \E c \in Callers : NotifyOne(c)
             \/ \E w \in Workers : Wait(w) \/ SpuriousWakeup(w) \/ Exit(w)
             \/ DestroyNotifyAll
             \/ UNCHANGED vars
      PROVE  UNCHANGED TP!tpvars
  <2>1. Held' = Held
    BY <1>0, <1>8, RunningIsKept, OthersMoveNothing
  <2>2. UNCHANGED <<tasks_, future, stop_>> /\ Phase' = Phase
    BY <1>0, <1>8 DEF NotifyOne, Wait, SpuriousWakeup, Exit, DestroyNotifyAll, vars,
       DestructorState, TypeOK
  <2> QED
    BY <2>1, <2>2 DEF TP!tpvars
<1>9. ASSUME NEW c \in Callers, NEW t \in Tasks, Enqueue(c, t) \/ EnqueueThrows(c, t)
      PROVE  TP!Next
  BY <1>2, <1>3, <1>9 DEF TP!Next
<1>10. ASSUME NEW w \in Workers, Take(w) \/ Run(w) PROVE TP!Next
  <2>1. CASE Take(w)
    BY <1>4, <2>1 DEF TP!Next
  <2>2. CASE Run(w)
    <3>1. TP!Finish(task[w]) /\ task[w] \in Tasks
      BY <1>5, <2>2
    <3>2. \E t \in Tasks : TP!Finish(t)
      BY <3>1 DEF TP!Finish
    <3> QED
      BY <3>2 DEF TP!Next
  <2> QED
    BY <1>10, <2>1, <2>2
<1>11. CASE Next
  BY <1>6, <1>7, <1>8, <1>9, <1>10, <1>11 DEF Next, WorkerStep, DestructorStep
<1> QED
  BY <1>8, <1>11

\* ThreadPool implements TaskPool: first-come first-served, once each, and the
\* destructor returns only after the last accepted task has finished.
THEOREM Refinement == Spec => ImplementsTaskPool
  BY Invariance, NoTaskLostOrRepeated, InitMapsToInit, StepMapsToStep, PTL
     DEF Spec, ImplementsTaskPool, TP!Spec
=============================================================================
