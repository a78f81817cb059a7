---------------------------- MODULE Fibers_proofs ----------------------------
(* What the threads under the fibers promise, whatever the fibers do: the steps *)
(* of a fiber touch a Thread only where its callback returns.  Then the fibers  *)
(* themselves: contexts are resumed once, and control returns to who gave it,   *)
(* as long as no fiber runs others (Nested = FALSE).  With Nested = TRUE it     *)
(* does not return there: the thread has one slot for the place to return to.   *)
EXTENDS Fibers, TLAPS

(* Where an object and its pthread can be together, and what is then in the     *)
(* object.  The semaphore carries the one notification from run() to the        *)
(* constructor.                                                                 *)
Together(t) ==
  /\ object[t] = "none" => run[t] = "none"
  /\ run[t] = "none" => object[t] = "none"
  /\ run[t] \in {"start", "notify"} => object[t] = "constructing"
  /\ run[t] \in {"notify", "callback", "done"} => t \in m_id /\ t \notin m_cb

NotifiedOnce(t) ==
  m_semaphore[t] =
    IF object[t] = "constructing" /\ run[t] \in {"callback", "done"} THEN 1 ELSE 0

ThreadInv == ThreadTypeOK /\ \A t \in Threads : Together(t) /\ NotifiedOnce(t)

-----------------------------------------------------------------------------
(* ThreadInv is inductive.                                                      *)
LEMMA InitThreadInv == FibersInit => ThreadInv
BY DEF FibersInit, ThreadInit, ThreadInv, ThreadTypeOK, Together, NotifiedOnce

LEMMA ThreadStep ==
  ASSUME ThreadInv, NEW t \in Threads, OwnerStep(t) \/ RunStep(t) \/ Return(t)
  PROVE  ThreadInv'
<1> USE DEF ThreadInv, ThreadTypeOK, Together, NotifiedOnce
<1>1. CASE Construct(t)
  BY <1>1 DEF Construct
<1>2. CASE Constructed(t)
  BY <1>2 DEF Constructed
<1>3. CASE join(t)
  BY <1>3 DEF join
<1>4. CASE Destroy(t)
  BY <1>4 DEF Destroy
<1>5. CASE TakeCallback(t)
  BY <1>5 DEF TakeCallback
<1>6. CASE Notify(t)
  BY <1>6 DEF Notify
<1>7. CASE Return(t)
  BY <1>7 DEF Return
<1> QED
  BY <1>1, <1>2, <1>3, <1>4, <1>5, <1>6, <1>7 DEF OwnerStep, RunStep

(* Of a fiber's steps only the end of the thread's callback is a step of the    *)
(* Thread.                                                                      *)
LEMMA FiberStepIsReturn ==
  ASSUME NEW t \in Threads, FiberStep(t)
  PROVE  Return(t) \/ UNCHANGED threadVars
BY DEF FiberStep, GetThis, Enter, ThreadExit, Create, swapIn, call, reset, Drop, Yield, End

LEMMA NextThreadInv == ThreadInv /\ [FibersNext]_fvars => ThreadInv'
<1> SUFFICES ASSUME ThreadInv, [FibersNext]_fvars
             PROVE  ThreadInv'
  OBVIOUS
<1>1. CASE UNCHANGED threadVars
  BY <1>1 DEF threadVars, ThreadInv, ThreadTypeOK, Together, NotifiedOnce
<1>2. ASSUME NEW t \in Threads, OwnerStep(t) \/ RunStep(t)
      PROVE  ThreadInv'
  BY <1>2, ThreadStep
<1>3. ASSUME NEW t \in Threads, FiberStep(t)
      PROVE  ThreadInv'
  BY <1>1, <1>3, FiberStepIsReturn, ThreadStep
<1> QED
  BY <1>1, <1>2, <1>3 DEF FibersNext, fvars

(* Once the constructor of a Thread has returned, the id is written, the        *)
(* callback is taken and run() does not come back to the object, so that the    *)
(* owner may destroy it: thread.cpp's semaphore carries exactly one notification, *)
(* after the last access.                                                       *)
THEOREM ConstructedThreadsAreReady == FibersSpec => []ThreadIsReady
<1>1. ThreadInv => ThreadIsReady
  BY DEF ThreadInv, ThreadTypeOK, Together, ThreadIsReady
<1> QED
  BY <1>1, InitThreadInv, NextThreadInv, PTL DEF FibersSpec

-----------------------------------------------------------------------------
(* The fibers.  A thread is on its own stack, or on that of one fiber, which it *)
(* resumed from there, which runs on no other thread and which the program      *)
(* holds; its way back is in the context of the main fiber, unspent.            *)
ThreadInOrder(t) ==
  /\ at[t] \in {t} \cup Fibers
  /\ t_threadFiber[t] \in {None, t}
  /\ t_threadFiber[t] = None => at[t] = t /\ t_fiber[t] = None /\ m_state[t] = "none"
  /\ t_threadFiber[t] = t => t_fiber[t] = at[t] /\ m_state[t] = "EXEC"
  /\ at[t] \in Fibers =>
       /\ m_ctx[t] = Place(t, "main")
       /\ m_state[at[t]] = "EXEC" /\ resumer[at[t]] = t /\ at[t] \in held
       /\ \A u \in Threads : at[u] = at[t] => u = t

(* A fiber that can be resumed has an unspent context on its own stack, at the  *)
(* entry or inside the callback; MainFunc holds the fiber from its entry to the *)
(* end of the callback; one that is over is held by the program.                *)
FiberInOrder(f) ==
  /\ cur[f] \in {None, f}
  /\ m_state[f] \in Ended \cup {"none"} => cur[f] = None
  /\ m_state[f] = "INIT" => m_ctx[f] = Place(f, "entry")
  /\ m_state[f] \in {"HOLD", "READY"} => cur[f] = f /\ m_ctx[f] = Place(f, "callback")
  /\ m_state[f] \in Ended => f \in held
  /\ m_state[f] = "none" => f \notin held
  /\ m_state[f] = "EXEC" => \E t \in Threads : at[t] = f

FInv ==
  /\ FiberTypeOK
  /\ fiber_fault = "none"
  /\ \A t \in Threads : ThreadInOrder(t)
  /\ \A f \in Fibers : FiberInOrder(f)

LEMMA InitFInv == FibersInit => FInv
BY FibersAssumption
   DEF FibersInit, FInv, FiberTypeOK, Stacks, States, NoPlace, ThreadInOrder, FiberInOrder, Ended

(* Control goes from the thread's stack to a fiber that can be resumed.         *)
LEMMA SwitchStep ==
  ASSUME Nested = FALSE, FInv, NEW t \in Threads, NEW f \in Fibers, swapIn(t, f) \/ call(t, f)
  PROVE  FInv'
<1>1. /\ at[t] = t /\ t_threadFiber[t] = t /\ f \in held /\ \A u \in Threads : at[u] # f
      /\ m_state[f] \in {"INIT", "HOLD", "READY"} /\ f \notin Threads /\ t \notin Fibers
  BY FibersAssumption DEF swapIn, call, MayRun, OnFiber, FInv, ThreadInOrder
<1>2. \E p \in {"entry", "callback"} : m_ctx[f] = Place(f, p)
  BY <1>1 DEF FInv, FiberInOrder
<1>3. /\ m_ctx[f].stack = f /\ m_ctx[f].spent = FALSE /\ m_ctx[f].place # "end" /\ f # t
  BY <1>1, <1>2 DEF Place
<1>4. /\ t_fiber' = [t_fiber EXCEPT ![t] = f]
      /\ m_state' = [m_state EXCEPT ![f] = "EXEC"]
      /\ resumer' = [resumer EXCEPT ![f] = t]
      /\ UNCHANGED <<t_threadFiber, cur, held>>
      /\ swapcontext(t, t, f, "main")
  BY <1>1 DEF swapIn, call, Asserted, Here
<1>5. /\ at' = [at EXCEPT ![t] = f]
      /\ m_ctx' = [m_ctx EXCEPT ![t] = Place(t, "main"), ![f].spent = TRUE]
      /\ fiber_fault' = "none"
  BY <1>1, <1>3, <1>4 DEF swapcontext, FInv
<1>6. FiberTypeOK'
  <2> DEFINE Contexts == [stack : Stacks \cup {None}, spent : BOOLEAN,
                          place : {"none", "main", "entry", "callback", "end"}]
  <2>1. m_ctx \in [Stacks -> Contexts] /\ f \in Stacks /\ t \in Stacks
    BY DEF FInv, FiberTypeOK, Stacks
  <2>2. [m_ctx[f] EXCEPT !.spent = TRUE] \in Contexts /\ Place(t, "main") \in Contexts
    BY <2>1 DEF Place
  <2> HIDE DEF Contexts
  <2>3. m_ctx' = [m_ctx EXCEPT ![t] = Place(t, "main"), ![f] = [m_ctx[f] EXCEPT !.spent = TRUE]]
    BY <1>3, <1>5, <2>1
  <2>4. m_ctx' \in [Stacks -> Contexts]
    BY <2>1, <2>2, <2>3
  <2> QED
    BY <1>4, <1>5, <2>4 DEF FInv, FiberTypeOK, Stacks, States, Contexts
<1>7. /\ at'[t] = f /\ t_fiber'[t] = f /\ resumer'[f] = t /\ m_state'[f] = "EXEC"
      /\ m_ctx'[t] = Place(t, "main")
      /\ \A u \in Threads \ {t} : at'[u] = at[u] /\ t_fiber'[u] = t_fiber[u]
      /\ \A s \in Stacks \ {f} : m_state'[s] = m_state[s]
      /\ \A s \in Stacks \ {f, t} : m_ctx'[s] = m_ctx[s]
      /\ \A g \in Fibers \ {f} : resumer'[g] = resumer[g]
      /\ t_threadFiber' = t_threadFiber /\ cur' = cur /\ held' = held
  BY <1>1, <1>4, <1>5 DEF FInv, FiberTypeOK, Stacks
<1>8. ASSUME NEW u \in Threads
      PROVE  ThreadInOrder(u)'
  BY <1>1, <1>7, <1>8, FibersAssumption DEF FInv, ThreadInOrder, Stacks
<1>9. ASSUME NEW g \in Fibers
      PROVE  FiberInOrder(g)'
  BY <1>1, <1>7, <1>9, FibersAssumption DEF FInv, FiberInOrder, Stacks, Ended
<1> QED
  BY <1>5, <1>6, <1>8, <1>9 DEF FInv

(* Control comes back to the thread's stack: the callback yields, or is over.   *)
LEMMA BackStep ==
  ASSUME FInv, NEW t \in Threads, NEW f \in Fibers, f = at[t], cur[f] # None,
         NEW state \in {"HOLD", "READY", "TERM", "EXCEPT"}, NEW p,
         m_state' = [m_state EXCEPT ![f] = state],
         swapOut(t, f, p),
         UNCHANGED <<t_threadFiber, held, resumer>>,
         \/ state \in {"HOLD", "READY"} /\ p = "callback" /\ cur' = cur
         \/ state \in {"TERM", "EXCEPT"} /\ p = "end" /\ cur' = [cur EXCEPT ![f] = None]
  PROVE  FInv' /\ at'[t] = resumer[f]
<1>1. /\ t_threadFiber[t] = t /\ t_fiber[t] = f /\ m_state[f] = "EXEC" /\ m_state[t] = "EXEC"
      /\ m_ctx[t] = Place(t, "main") /\ f \in held /\ cur[f] = f /\ resumer[f] = t
      /\ f \notin Threads /\ t \notin Fibers /\ f # t /\ None \notin Stacks
      /\ \A u \in Threads : at[u] = f => u = t
  BY FibersAssumption DEF FInv, ThreadInOrder, FiberInOrder, Stacks
<1>2. m_ctx[t].stack = t /\ m_ctx[t].spent = FALSE /\ m_ctx[t].place # "end"
  BY <1>1 DEF Place
<1>3. /\ t_fiber' = [t_fiber EXCEPT ![t] = t]
      /\ at' = [at EXCEPT ![t] = t]
      /\ m_ctx' = [m_ctx EXCEPT ![f] = Place(f, p), ![t].spent = TRUE]
      /\ fiber_fault' = "none"
  BY <1>1, <1>2 DEF swapOut, swapcontext, FInv
<1>4. FiberTypeOK'
  <2> DEFINE Contexts == [stack : Stacks \cup {None}, spent : BOOLEAN,
                          place : {"none", "main", "entry", "callback", "end"}]
  <2>1. m_ctx \in [Stacks -> Contexts] /\ f \in Stacks /\ t \in Stacks
    BY DEF FInv, FiberTypeOK, Stacks
  <2>2. [m_ctx[t] EXCEPT !.spent = TRUE] \in Contexts /\ Place(f, p) \in Contexts
    BY <2>1 DEF Place
  <2> HIDE DEF Contexts
  <2>3. m_ctx' = [m_ctx EXCEPT ![f] = Place(f, p), ![t] = [m_ctx[t] EXCEPT !.spent = TRUE]]
    BY <1>1, <1>3, <2>1
  <2>4. m_ctx' \in [Stacks -> Contexts]
    BY <2>1, <2>2, <2>3
  <2>5. cur' \in [Fibers -> Stacks \cup {None}]
    BY DEF FInv, FiberTypeOK
  <2> QED
    BY <1>3, <2>4, <2>5 DEF FInv, FiberTypeOK, Stacks, States, Contexts
<1>5. /\ at'[t] = t /\ t_fiber'[t] = t /\ m_state'[f] = state /\ m_ctx'[f] = Place(f, p)
      /\ \A u \in Threads \ {t} : at'[u] = at[u] /\ t_fiber'[u] = t_fiber[u]
      /\ \A s \in Stacks \ {f} : m_state'[s] = m_state[s]
      /\ \A s \in Stacks \ {f, t} : m_ctx'[s] = m_ctx[s]
      /\ \A g \in Fibers \ {f} : cur'[g] = cur[g]
      /\ cur'[f] = IF state \in {"HOLD", "READY"} THEN f ELSE None
      /\ t_threadFiber' = t_threadFiber /\ held' = held /\ resumer' = resumer
  BY <1>1, <1>3 DEF FInv, FiberTypeOK, Stacks
<1>6. ASSUME NEW u \in Threads
      PROVE  ThreadInOrder(u)'
  BY <1>1, <1>5, <1>6, FibersAssumption DEF FInv, ThreadInOrder, Stacks
<1>7. ASSUME NEW g \in Fibers
      PROVE  FiberInOrder(g)'
  <2>1. CASE g = f
    BY <1>1, <1>5, <2>1 DEF FiberInOrder, Ended
  <2>2. CASE g # f
    <3>1. FiberInOrder(g) /\ g # t /\ g \in Stacks
      BY <1>1 DEF FInv, Stacks
    <3>2. \A u \in Threads : at[u] = g => at'[u] = g
      BY <1>5, <2>2
    <3> QED
      BY <1>5, <2>2, <3>1, <3>2 DEF FiberInOrder, Ended
  <2> QED
    BY <2>1, <2>2
<1> QED
  BY <1>1, <1>3, <1>4, <1>5, <1>6, <1>7 DEF FInv

LEMMA YieldStep ==
  ASSUME FInv, NEW t \in Threads, NEW state \in {"HOLD", "READY"}, Yield(t, state)
  PROVE  FInv' /\ at'[t] = resumer[at[t]]
<1>1. PICK f \in Fibers : f = at[t] /\ cur[f] # None
  BY DEF Yield, InCallback, OnFiber
<1>2. t_fiber[t] = f /\ m_state[f] = "EXEC"
  BY <1>1, FibersAssumption DEF FInv, ThreadInOrder
<1>3. /\ m_state' = [m_state EXCEPT ![f] = state] /\ swapOut(t, f, "callback")
      /\ UNCHANGED <<t_threadFiber, cur, held, resumer>>
  BY <1>2 DEF Yield, Asserted
<1> QED
  BY <1>1, <1>3, BackStep

(* The program still holds the fiber, so that giving up cur frees nothing.      *)
LEMMA EndStep ==
  ASSUME FInv, NEW t \in Threads, NEW state \in {"TERM", "EXCEPT"}, End(t, state)
  PROVE  FInv' /\ at'[t] = resumer[at[t]]
<1>1. PICK f \in Fibers : f = at[t] /\ cur[f] # None
  BY DEF End, InCallback, OnFiber
<1>2. cur[f] = f /\ f \in held
  BY <1>1 DEF FInv, ThreadInOrder, FiberInOrder
<1>3. /\ m_state' = [m_state EXCEPT ![f] = state] /\ swapOut(t, f, "end")
      /\ cur' = [cur EXCEPT ![f] = None]
      /\ UNCHANGED <<t_threadFiber, held, resumer>>
  BY <1>1, <1>2 DEF End, Referenced
<1> QED
  BY <1>1, <1>3, BackStep

(* The steps that switch nowhere.  Those on a fiber's object are only for       *)
(* fibers that no thread is on.                                                 *)
LEMMA GetThisStep ==
  ASSUME FInv, NEW t \in Threads, GetThis(t)
  PROVE  FInv' /\ \A f \in Fibers : m_state'[f] = m_state[f]
<1>1. /\ at[t] = t /\ t_threadFiber[t] = None /\ t \notin Fibers
      /\ None \notin Threads /\ t \in Stacks
  BY FibersAssumption DEF GetThis, OnFiber, FInv, ThreadInOrder, Stacks
<1>2. /\ t_fiber'[t] = t /\ t_threadFiber'[t] = t /\ m_state'[t] = "EXEC"
      /\ \A u \in Threads \ {t} : t_fiber'[u] = t_fiber[u] /\ t_threadFiber'[u] = t_threadFiber[u]
      /\ \A s \in Stacks \ {t} : m_state'[s] = m_state[s]
      /\ UNCHANGED <<at, m_ctx, cur, held, resumer, fiber_fault>>
  BY <1>1 DEF GetThis, FInv, FiberTypeOK
<1>3. FiberTypeOK'
  BY <1>1, <1>2 DEF GetThis, FInv, FiberTypeOK, Stacks, States
<1>4. \A u \in Threads : ThreadInOrder(u)'
  BY <1>1, <1>2, FibersAssumption DEF FInv, ThreadInOrder, Stacks
<1>5. \A f \in Fibers : FiberInOrder(f)' /\ m_state'[f] = m_state[f]
  BY <1>1, <1>2 DEF FInv, FiberInOrder, Stacks
<1> QED
  BY <1>2, <1>3, <1>4, <1>5 DEF FInv

LEMMA EnterStep ==
  ASSUME FInv, NEW t \in Threads, Enter(t)
  PROVE  FInv' /\ m_state' = m_state
<1>1. PICK f \in Fibers : f = at[t] /\ t_fiber[t] = f /\ m_state[f] = "EXEC"
  BY FibersAssumption DEF Enter, OnFiber, FInv, ThreadInOrder
<1>2. /\ cur' = [cur EXCEPT ![f] = f]
      /\ UNCHANGED <<t_fiber, t_threadFiber, at, m_state, m_ctx, held, resumer, fiber_fault>>
  BY <1>1 DEF Enter
<1>3. FiberTypeOK' /\ \A u \in Threads : ThreadInOrder(u)'
  BY <1>2 DEF FInv, FiberTypeOK, Stacks, ThreadInOrder
<1>4. \A g \in Fibers : FiberInOrder(g)'
  BY <1>1, <1>2 DEF FInv, FiberTypeOK, FiberInOrder, Ended
<1> QED
  BY <1>2, <1>3, <1>4 DEF FInv

LEMMA OffStackStep ==
  ASSUME FInv, NEW f \in Fibers, \A u \in Threads : at[u] # f,
         NEW state \in {"none", "INIT"}, NEW c, m_ctx' = [m_ctx EXCEPT ![f] = c],
         m_state' = [m_state EXCEPT ![f] = state], cur[f] = None,
         state = "INIT" => c = Place(f, "entry") /\ f \in held',
         state = "none" => c = NoPlace /\ f \notin held',
         held' \subseteq Fibers, \A g \in Fibers \ {f} : g \in held' <=> g \in held,
         UNCHANGED <<t_fiber, t_threadFiber, at, cur, resumer, fiber_fault>>
  PROVE  FInv' /\ \A g \in Fibers : m_state[g] = "EXEC" => m_state'[g] = "EXEC"
<1>1. f \in Stacks /\ f \notin Threads /\ c = (IF state = "INIT" THEN Place(f, "entry") ELSE NoPlace)
  BY FibersAssumption DEF Stacks
<1>2. /\ m_state'[f] = state /\ m_ctx'[f] = c
      /\ \A s \in Stacks \ {f} : m_state'[s] = m_state[s] /\ m_ctx'[s] = m_ctx[s]
  BY <1>1 DEF FInv, FiberTypeOK
<1>3. FiberTypeOK'
  BY <1>1 DEF FInv, FiberTypeOK, Stacks, States, Place, NoPlace
<1>4. ASSUME NEW u \in Threads
      PROVE  ThreadInOrder(u)'
  <2>1. u \in Stacks /\ u # f /\ ThreadInOrder(u) /\ at[u] # f
    BY <1>1 DEF Stacks, FInv
  <2>2. at[u] \in Fibers => at[u] \in Stacks /\ (at[u] \in held' <=> at[u] \in held)
    BY <2>1 DEF Stacks
  <2> QED
    BY <1>2, <2>1, <2>2 DEF ThreadInOrder
<1>5. m_state[f] # "EXEC"
  BY DEF FInv, FiberInOrder
<1>6. \A g \in Fibers : FiberInOrder(g)'
  BY <1>1, <1>2 DEF FInv, FiberInOrder, Stacks, Ended
<1> QED
  BY <1>1, <1>2, <1>3, <1>4, <1>5, <1>6 DEF FInv, Stacks

LEMMA CreateStep ==
  ASSUME FInv, NEW t \in Threads, NEW f \in Fibers, Create(t, f)
  PROVE  FInv' /\ \A g \in Fibers : m_state[g] = "EXEC" => m_state'[g] = "EXEC"
<1>1. cur[f] = None /\ \A u \in Threads : at[u] # f
  BY DEF Create, FInv, ThreadInOrder, FiberInOrder
<1>2. held' \subseteq Fibers
  BY DEF Create, FInv, FiberTypeOK
<1> QED
  BY <1>1, <1>2, OffStackStep DEF Create

LEMMA ResetStep ==
  ASSUME FInv, NEW t \in Threads, NEW f \in Fibers, reset(t, f)
  PROVE  FInv' /\ \A g \in Fibers : m_state[g] = "EXEC" => m_state'[g] = "EXEC"
<1>1. cur[f] = None /\ \A u \in Threads : at[u] # f
  BY DEF reset, Ended, FInv, ThreadInOrder, FiberInOrder
<1>2. held' \subseteq Fibers
  BY DEF reset, FInv, FiberTypeOK
<1> QED
  BY <1>1, <1>2, OffStackStep DEF reset

(* A fiber without its last pointer is over: a suspended one is held by its own *)
(* stack.                                                                       *)
LEMMA DropStep ==
  ASSUME FInv, NEW t \in Threads, NEW f \in Fibers, Drop(t, f)
  PROVE  FInv' /\ \A g \in Fibers : m_state[g] = "EXEC" => m_state'[g] = "EXEC"
<1>1. /\ held' = held \ {f} /\ \A u \in Threads : at[u] # f
      /\ UNCHANGED <<t_fiber, t_threadFiber, at, cur, resumer>>
  BY DEF Drop
<1>2. Referenced(f) <=> cur[f] = f
  BY <1>1, FibersAssumption DEF Referenced, FInv, FiberInOrder
<1>3. m_state[f] # "EXEC" /\ m_state[f] \in States \cup {"none"}
  BY <1>1 DEF FInv, FiberInOrder, FiberTypeOK, Stacks
<1>4. CASE Referenced(f)
  <2>1. UNCHANGED <<m_state, m_ctx, fiber_fault>> /\ m_state[f] \notin Ended
    BY <1>2, <1>4, FibersAssumption DEF Drop, FInv, FiberInOrder
  <2> QED
    BY <1>1, <2>1 DEF FInv, FiberTypeOK, ThreadInOrder, FiberInOrder
<1>5. CASE ~Referenced(f)
  <2>1. cur[f] = None
    BY <1>2, <1>5 DEF FInv, FiberInOrder
  <2>2. m_state[f] \in Ended
    BY <1>3, <2>1, FibersAssumption DEF FInv, FiberInOrder, States, Ended, Drop
  <2>3. /\ m_state' = [m_state EXCEPT ![f] = "none"] /\ m_ctx' = [m_ctx EXCEPT ![f] = NoPlace]
        /\ fiber_fault' = fiber_fault
    BY <1>5, <2>2 DEF Drop
  <2>4. held' \subseteq Fibers
    BY <1>1 DEF FInv, FiberTypeOK
  <2> QED
    BY <1>1, <2>1, <2>3, <2>4, OffStackStep
<1> QED
  BY <1>4, <1>5

LEMMA ThreadExitStep ==
  ASSUME FInv, NEW t \in Threads, ThreadExit(t)
  PROVE  FInv' /\ \A f \in Fibers : m_state'[f] = m_state[f]
<1>1. /\ at[t] = t /\ t_fiber[t] = t_threadFiber[t] /\ t \notin Fibers /\ t \in Stacks
      /\ m_state[t] \in {"none", "EXEC"}
  BY FibersAssumption DEF ThreadExit, OnFiber, FInv, ThreadInOrder, Stacks
<1>2. /\ t_fiber'[t] = None /\ t_threadFiber'[t] = None /\ m_state'[t] = "none"
      /\ \A u \in Threads \ {t} : t_fiber'[u] = t_fiber[u] /\ t_threadFiber'[u] = t_threadFiber[u]
      /\ \A s \in Stacks \ {t} : m_state'[s] = m_state[s]
      /\ UNCHANGED <<at, m_ctx, cur, held, resumer, fiber_fault>>
  BY <1>1 DEF ThreadExit, FInv, FiberTypeOK
<1>3. FiberTypeOK'
  BY <1>1, <1>2 DEF ThreadExit, FInv, FiberTypeOK, Stacks, States
<1>4. \A u \in Threads : ThreadInOrder(u)'
  BY <1>1, <1>2, FibersAssumption DEF FInv, ThreadInOrder, Stacks
<1>5. \A f \in Fibers : FiberInOrder(f)' /\ m_state'[f] = m_state[f]
  BY <1>1, <1>2 DEF FInv, FiberInOrder, Stacks
<1> QED
  BY <1>2, <1>3, <1>4, <1>5 DEF FInv

(* The state of a fiber that a thread is on changes only when it gives the      *)
(* thread back.                                                                 *)
Returns ==
  \A t \in Threads :
    at[t] \in Fibers /\ m_state[at[t]] = "EXEC" /\ m_state'[at[t]] # "EXEC"
      => at'[t] = resumer[at[t]]

LEMMA FiberStepFInv ==
  ASSUME Nested = FALSE, FInv, NEW t \in Threads, FiberStep(t)
  PROVE  FInv' /\ Returns
<1>1. ASSUME NEW state, Yield(t, state) \/ End(t, state),
             FInv', at'[t] = resumer[at[t]]
      PROVE  Returns
  <2>1. PICK f \in Fibers : f = at[t]
    BY <1>1 DEF Yield, End, InCallback, OnFiber
  <2>2. t_fiber[t] = f /\ cur[f] \in {None, f} /\ m_state[f] = "EXEC"
    BY <2>1, FibersAssumption DEF FInv, ThreadInOrder, FiberInOrder
  <2>3. m_state' = [m_state EXCEPT ![f] = state]
    BY <1>1, <2>1, <2>2 DEF Yield, End, InCallback, OnFiber, Asserted
  <2>4. \A u \in Threads : at[u] \in Fibers /\ at[u] # f => m_state'[at[u]] = m_state[at[u]]
    BY <2>3 DEF FInv, FiberTypeOK, Stacks
  <2>5. \A u \in Threads : at[u] = f => u = t
    BY <2>1 DEF FInv, ThreadInOrder
  <2> QED
    BY <1>1, <2>4, <2>5 DEF Returns
<1>2. ASSUME NEW state \in {"HOLD", "READY"}, Yield(t, state)
      PROVE  FInv' /\ Returns
  BY <1>1, <1>2, YieldStep
<1>3. ASSUME NEW state \in {"TERM", "EXCEPT"}, End(t, state)
      PROVE  FInv' /\ Returns
  BY <1>1, <1>3, EndStep
<1>4. CASE GetThis(t) \/ Enter(t) \/ ThreadExit(t)
  BY <1>4, GetThisStep, EnterStep, ThreadExitStep DEF Returns
<1>5. ASSUME NEW f \in Fibers, Create(t, f) \/ reset(t, f) \/ Drop(t, f)
      PROVE  FInv' /\ Returns
  BY <1>5, CreateStep, ResetStep, DropStep DEF Returns
<1>6. ASSUME NEW f \in Fibers, swapIn(t, f) \/ call(t, f)
      PROVE  FInv' /\ Returns
  <2>1. FInv'
    BY <1>6, SwitchStep
  <2>2. m_state' = [m_state EXCEPT ![f] = "EXEC"]
    <3>1. m_state[f] # "EXEC"
      BY <1>6 DEF swapIn, call, MayRun
    <3> QED
      BY <1>6, <3>1 DEF swapIn, call, Asserted
  <2> QED
    BY <2>1, <2>2 DEF Returns, FInv, FiberTypeOK, Stacks
<1> QED
  BY <1>2, <1>3, <1>4, <1>5, <1>6 DEF FiberStep

LEMMA NextFInv ==
  ASSUME Nested = FALSE, FInv, [FibersNext]_fvars
  PROVE  FInv' /\ Returns
<1>1. CASE UNCHANGED fiberVars
  BY <1>1 DEF fiberVars, FInv, FiberTypeOK, ThreadInOrder, FiberInOrder, Returns
<1> QED
  BY <1>1, FiberStepFInv DEF FibersNext, fvars

(* No context is resumed twice, no assertion of fiber.cpp fails, no thread runs *)
(* on a freed stack and GetThis names the fiber whose stack the thread is on,   *)
(* for any threads and fibers of which none runs others.                        *)
THEOREM FibersStayInOrder ==
  ASSUME Nested = FALSE
  PROVE  FibersSpec => []FibersInOrder
<1>1. FInv => FibersInOrder
  BY FibersAssumption DEF FInv, ThreadInOrder, FiberInOrder, FibersInOrder
<1>2. FInv /\ [FibersNext]_fvars => FInv'
  BY NextFInv
<1> QED
  BY <1>1, <1>2, InitFInv, PTL DEF FibersSpec

(* A fiber that yields or ends hands its thread to the stack that switched to   *)
(* it, for any threads and fibers of which none runs others.                    *)
THEOREM ControlReturns ==
  ASSUME Nested = FALSE
  PROVE  FibersSpec => ControlReturnsToResumer
<1>1. FInv /\ [FibersNext]_fvars => FInv' /\ Returns
  BY NextFInv
<1>2. FibersSpec => [][Returns]_fvars
  BY <1>1, InitFInv, PTL DEF FibersSpec
<1> QED
  BY <1>2 DEF Returns, ControlReturnsToResumer
=============================================================================
