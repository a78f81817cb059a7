------------------------------- MODULE Fibers -------------------------------
(***************************************************************************)
(* fiber.cpp: fibers as stacks and saved contexts.  A context is the place *)
(* on a stack where a thread left it; swapcontext saves the place where    *)
(* the thread is in one fiber's m_ctx and goes on from another's.  A place *)
(* can be resumed once: afterwards the frames it names have moved on.      *)
(*                                                                         *)
(* Every thread has a main fiber, here the thread itself, which runs on    *)
(* the thread's own stack.  Its m_ctx is the only slot that call and       *)
(* swapIn save to, and swapOut and back go on from.                        *)
(*                                                                         *)
(* Between threads a fiber is handed over when it has left its stack;      *)
(* module Scheduler has the window before that.                            *)
(***************************************************************************)
EXTENDS Thread

CONSTANTS
  Fibers,       \* fibers made with a callback
  Callers,      \* those made with use_caller=true
  Nested,       \* whether a fiber of Callers runs other fibers, as the root
                \* fiber of a Scheduler made with use_caller=true does
  None

ASSUME FibersAssumption ==
  /\ Callers \subseteq Fibers /\ Nested \in BOOLEAN
  /\ Fibers \cap Threads = {} /\ None \notin Fibers \cup Threads

VARIABLES
  t_fiber,        \* the fiber each thread says it executes
  t_threadFiber,  \* its main fiber
  at,             \* the stack each thread is on
  m_state,        \* of every fiber; "none" before it is made and once it is destroyed
  m_ctx,          \* its saved context: whose stack, where, and whether it was resumed
  cur,            \* the fiber that MainFunc holds while it runs the callback
  held,           \* fibers the program holds a pointer to
  resumer,        \* the stack that last switched to a fiber
  fiber_fault

fiberVars == <<t_fiber, t_threadFiber, at, m_state, m_ctx, cur, held, resumer, fiber_fault>>
fvars == <<threadVars, fiberVars>>

Stacks == Fibers \cup Threads
States == {"INIT", "HOLD", "EXEC", "TERM", "READY", "EXCEPT"}
Ended == {"INIT", "TERM", "EXCEPT"}
Place(s, p) == [stack |-> s, place |-> p, spent |-> FALSE]
NoPlace == [stack |-> None, place |-> "none", spent |-> TRUE]

FiberTypeOK ==
  /\ t_fiber \in [Threads -> Stacks \cup {None}]
  /\ t_threadFiber \in [Threads -> Threads \cup {None}]
  /\ at \in [Threads -> Stacks]
  /\ m_state \in [Stacks -> States \cup {"none"}]
  /\ m_ctx \in [Stacks -> [stack : Stacks \cup {None}, spent : BOOLEAN,
                           place : {"none", "main", "entry", "callback", "end"}]]
  /\ held \subseteq Fibers
  /\ cur \in [Fibers -> Stacks \cup {None}]
  /\ resumer \in [Fibers -> Stacks \cup {None}]

FibersInit ==
  /\ ThreadInit
  /\ t_fiber = [t \in Threads |-> None]
  /\ t_threadFiber = [t \in Threads |-> None]
  /\ at = [t \in Threads |-> t]
  /\ m_state = [s \in Stacks |-> "none"]
  /\ m_ctx = [s \in Stacks |-> NoPlace]
  /\ held = {}
  /\ cur = [f \in Fibers |-> None]
  /\ resumer = [f \in Fibers |-> None]
  /\ fiber_fault = "none"

-----------------------------------------------------------------------------
(* swapcontext(&save->m_ctx, &load->m_ctx) by thread t at place p.  With   *)
(* one and the same context it comes back at once.                         *)
swapcontext(t, save, load, p) ==
  /\ at' = [at EXCEPT ![t] = IF load = save THEN @ ELSE m_ctx[load].stack]
  /\ m_ctx' = IF load = save THEN m_ctx
              ELSE [m_ctx EXCEPT ![save] = Place(at[t], p), ![load].spent = TRUE]
  /\ fiber_fault' = CASE load # save /\ m_ctx[load].spent -> "stale context"
                [] load # save /\ m_ctx[load].place = "end" -> "never reach"
                [] OTHER -> fiber_fault

Asserted(cond, A) ==
  \/ cond /\ A
  \/ ~cond /\ fiber_fault' = "assertion" /\ UNCHANGED <<t_fiber, at, m_state, m_ctx>>

(* Where a thread is on its stack.                                         *)
Here(t) == IF at[t] \in Threads THEN "main" ELSE "callback"
OnFiber(t) == at[t] \in Fibers
Calling(t) == run[t] = "callback" /\ fiber_fault = "none"
InCallback(t) == Calling(t) /\ (OnFiber(t) => cur[at[t]] # None)

(* Fiber::GetThis on a thread that has no fiber yet.                       *)
GetThis(t) ==
  /\ Calling(t) /\ ~OnFiber(t) /\ t_fiber[t] = None
  /\ t_fiber' = [t_fiber EXCEPT ![t] = t]
  /\ t_threadFiber' = [t_threadFiber EXCEPT ![t] = t]
  /\ m_state' = [m_state EXCEPT ![t] = "EXEC"]
  /\ UNCHANGED <<threadVars, at, m_ctx, cur, held, resumer, fiber_fault>>

(* Fiber::Fiber(cb, stacksize, use_caller)                                 *)
Create(t, f) ==
  /\ InCallback(t) /\ m_state[f] = "none"
  /\ m_state' = [m_state EXCEPT ![f] = "INIT"]
  /\ m_ctx' = [m_ctx EXCEPT ![f] = Place(f, "entry")]
  /\ held' = held \cup {f}
  /\ UNCHANGED <<threadVars, t_fiber, t_threadFiber, at, cur, resumer, fiber_fault>>

(* Who may switch to f: the main fiber, or a fiber that runs others.  f is *)
(* held, and runs nowhere.                                                 *)
MayRun(t, f) ==
  /\ InCallback(t) /\ t_threadFiber[t] # None
  /\ OnFiber(t) => Nested /\ at[t] \in Callers
  /\ f \in held /\ \A u \in Threads : at[u] # f
  /\ m_state[f] \in {"INIT", "HOLD", "READY"}

swapIn(t, f) ==
  /\ MayRun(t, f) /\ f \notin Callers
  /\ Asserted(m_state[f] # "EXEC",
            /\ t_fiber' = [t_fiber EXCEPT ![t] = f]
            /\ m_state' = [m_state EXCEPT ![f] = "EXEC"]
            /\ swapcontext(t, t_threadFiber[t], f, Here(t)))
  /\ resumer' = [resumer EXCEPT ![f] = at[t]]
  /\ UNCHANGED <<threadVars, t_threadFiber, cur, held>>

call(t, f) ==
  /\ MayRun(t, f) /\ f \in Callers
  /\ t_fiber' = [t_fiber EXCEPT ![t] = f]
  /\ m_state' = [m_state EXCEPT ![f] = "EXEC"]
  /\ swapcontext(t, t_threadFiber[t], f, Here(t))
  /\ resumer' = [resumer EXCEPT ![f] = at[t]]
  /\ UNCHANGED <<threadVars, t_threadFiber, cur, held>>

(* Fault: the contexts are given in the order of swapIn.                   *)
swapOutReversed(t, f, p) ==
  /\ t_fiber' = [t_fiber EXCEPT ![t] = t_threadFiber[t]]
  /\ swapcontext(t, t_threadFiber[t], f, p)

(* swapOut and back of the fiber f, which differ in name only.             *)
swapOut(t, f, p) ==
  /\ t_fiber' = [t_fiber EXCEPT ![t] = t_threadFiber[t]]
  /\ swapcontext(t, f, t_threadFiber[t], p)

(* MainFunc and CallerMainFunc up to the callback: cur is the fiber the    *)
(* thread says it executes.                                                *)
Enter(t) ==
  /\ Calling(t) /\ OnFiber(t) /\ cur[at[t]] = None
  /\ cur' = [cur EXCEPT ![at[t]] = t_fiber[t]]
  /\ UNCHANGED <<threadVars, t_fiber, t_threadFiber, at, m_state, m_ctx, held, resumer, fiber_fault>>

(* YieldToReady, YieldToHold                                               *)
Yield(t, state) ==
  /\ InCallback(t) /\ OnFiber(t)
  /\ Asserted(m_state[t_fiber[t]] = "EXEC",
            /\ m_state' = [m_state EXCEPT ![t_fiber[t]] = state]
            /\ swapOut(t, t_fiber[t], "callback"))
  /\ UNCHANGED <<threadVars, t_threadFiber, cur, held, resumer>>

(* The fiber's stack holds a pointer to it until the callback has ended;   *)
(* with the last pointer the fiber is destroyed.                           *)
Referenced(f) == f \in held' \/ \E g \in Fibers : cur'[g] = f

(* Fault: cur is not given up, as if the function returned normally.       *)
EndWithCur(t, state) ==
  LET f == at[t] IN
  /\ InCallback(t) /\ OnFiber(t)
  /\ m_state' = [m_state EXCEPT ![cur[f]] = state]
  /\ swapOut(t, cur[f], "end")
  /\ UNCHANGED <<threadVars, t_threadFiber, cur, held, resumer>>

(* The callback returns (TERM) or throws (EXCEPT): cur is given up before  *)
(* the last switch, which would run on a freed stack if it was the last    *)
(* pointer.                                                                *)
End(t, state) ==
  LET f == at[t] IN
  /\ InCallback(t) /\ OnFiber(t)
  /\ cur' = [cur EXCEPT ![f] = None]
  /\ m_state' = [m_state EXCEPT ![cur[f]] = state]
  /\ UNCHANGED <<threadVars, t_threadFiber, held, resumer>>
  /\ IF Referenced(cur[f]) THEN swapOut(t, cur[f], "end")
     ELSE fiber_fault' = "freed stack" /\ UNCHANGED <<t_fiber, at, m_ctx>>

(* Fiber::reset of a fiber that is over, or was never run.                 *)
reset(t, f) ==
  /\ InCallback(t) /\ f \in held /\ m_state[f] \in Ended
  /\ m_ctx' = [m_ctx EXCEPT ![f] = Place(f, "entry")]
  /\ m_state' = [m_state EXCEPT ![f] = "INIT"]
  /\ UNCHANGED <<threadVars, t_fiber, t_threadFiber, at, cur, held, resumer, fiber_fault>>

(* The program gives up its pointer; whoever runs a fiber keeps his.  If   *)
(* it was the last pointer, Fiber::~Fiber asserts that the fiber is over.  *)
Drop(t, f) ==
  /\ InCallback(t) /\ f \in held /\ \A u \in Threads : at[u] # f
  /\ held' = held \ {f}
  /\ UNCHANGED <<threadVars, t_fiber, t_threadFiber, at, cur, resumer>>
  /\ IF Referenced(f) THEN UNCHANGED <<m_state, m_ctx, fiber_fault>>
     ELSE /\ m_state' = [m_state EXCEPT ![f] = "none"]
          /\ m_ctx' = [m_ctx EXCEPT ![f] = NoPlace]
          /\ fiber_fault' = IF m_state[f] \in Ended THEN fiber_fault ELSE "assertion"

(* The callback of the thread returns and the main fiber, thread-local, is *)
(* destroyed with an assertion on its state.                               *)
ThreadExit(t) ==
  /\ Calling(t) /\ ~OnFiber(t)
  /\ Return(t)
  /\ t_fiber' = [t_fiber EXCEPT ![t] = IF @ = t_threadFiber[t] THEN None ELSE @]
  /\ t_threadFiber' = [t_threadFiber EXCEPT ![t] = None]
  /\ m_state' = [m_state EXCEPT ![t] = "none"]
  /\ fiber_fault' = IF m_state[t] \in {"none", "EXEC"} THEN fiber_fault ELSE "assertion"
  /\ UNCHANGED <<at, m_ctx, cur, held, resumer>>

FiberStep(t) ==
  \/ GetThis(t) \/ Enter(t) \/ ThreadExit(t)
  \/ \E f \in Fibers : Create(t, f) \/ swapIn(t, f) \/ call(t, f) \/ reset(t, f) \/ Drop(t, f)
  \/ \E state \in {"HOLD", "READY"} : Yield(t, state)
  \/ \E state \in {"TERM", "EXCEPT"} : End(t, state)

FibersNext ==
  \E t \in Threads :
    \/ (OwnerStep(t) \/ RunStep(t)) /\ UNCHANGED fiberVars
    \/ FiberStep(t)

FibersSpec == FibersInit /\ [][FibersNext]_fvars

(***************************************************************************)
(* Properties                                                              *)
(***************************************************************************)

(* No place on a stack is resumed twice, no assertion of fiber.cpp fails   *)
(* and no thread runs on a freed stack; GetThis names the fiber whose      *)
(* stack the thread is on; and a fiber that is over and that nobody holds  *)
(* has been destroyed.                                                     *)
FibersInOrder ==
  /\ fiber_fault = "none"
  /\ \A t \in Threads : t_fiber[t] # None => t_fiber[t] = at[t]
  /\ \A f \in Fibers : m_state[f] \in Ended => f \in held

(* A fiber that yields or ends hands the thread to the stack that switched *)
(* to it, whatever other fibers and threads did since it was made.         *)
ControlReturnsToResumer ==
  [][\A t \in Threads :
       at[t] \in Fibers /\ m_state[at[t]] = "EXEC" /\ m_state'[at[t]] # "EXEC"
         => at'[t] = resumer[at[t]]]_fvars
=============================================================================
