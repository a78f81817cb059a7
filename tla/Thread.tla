------------------------------- MODULE Thread -------------------------------
(***************************************************************************)
(* thread.cpp: the constructor of a Thread starts a pthread in run() and   *)
(* waits on the object's semaphore (mutex.cpp) until run() has taken from  *)
(* the object what it needs; from then on the object may be joined, or     *)
(* destroyed, which detaches the pthread.                                  *)
(***************************************************************************)
EXTENDS Naturals, FiniteSets

CONSTANT Threads

VARIABLES
  object,       \* of a Thread: "none", "constructing", "live", "joined", "destroyed"
  run,          \* of its pthread: "none", "start", "notify", "callback", "done"
  m_id,         \* threads whose m_id is set
  m_cb,         \* threads whose object still holds the callback
  m_semaphore   \* the count of each semaphore

threadVars == <<object, run, m_id, m_cb, m_semaphore>>

ThreadTypeOK ==
  /\ object \in [Threads -> {"none", "constructing", "live", "joined", "destroyed"}]
  /\ run \in [Threads -> {"none", "start", "notify", "callback", "done"}]
  /\ m_id \subseteq Threads /\ m_cb \subseteq Threads
  /\ m_semaphore \in [Threads -> 0 .. 1]

ThreadInit ==
  /\ object = [t \in Threads |-> "none"]
  /\ run = [t \in Threads |-> "none"]
  /\ m_id = {} /\ m_cb = {}
  /\ m_semaphore = [t \in Threads |-> 0]

(* Thread::Thread up to the wait.  If pthread_create fails it throws and   *)
(* there is no object.                                                     *)
Construct(t) ==
  /\ object[t] = "none"
  /\ \/ /\ object' = [object EXCEPT ![t] = "constructing"]
        /\ run' = [run EXCEPT ![t] = "start"]
        /\ m_cb' = m_cb \cup {t}
     \/ UNCHANGED <<object, run, m_cb>>
  /\ UNCHANGED <<m_id, m_semaphore>>

(* Semaphore::wait at the end of the constructor.                          *)
Constructed(t) ==
  /\ object[t] = "constructing" /\ m_semaphore[t] > 0
  /\ m_semaphore' = [m_semaphore EXCEPT ![t] = @ - 1]
  /\ object' = [object EXCEPT ![t] = "live"]
  /\ UNCHANGED <<run, m_id, m_cb>>

(* Fault: run() notifies before it has read the object.                    *)
TakeAfterNotify(t) ==
  /\ \/ /\ run[t] = "start" /\ m_semaphore[t] = 0 /\ object[t] = "constructing"
        /\ m_semaphore' = [m_semaphore EXCEPT ![t] = @ + 1]
        /\ UNCHANGED <<run, m_id, m_cb>>
     \/ /\ run[t] = "start" /\ (m_semaphore[t] > 0 \/ object[t] # "constructing")
        /\ m_id' = m_id \cup {t} /\ m_cb' = m_cb \ {t}
        /\ run' = [run EXCEPT ![t] = "callback"]
        /\ UNCHANGED m_semaphore
  /\ UNCHANGED object

(* run() writes the id and swaps the callback out of the object.           *)
TakeCallback(t) ==
  /\ run[t] = "start"
  /\ m_id' = m_id \cup {t} /\ m_cb' = m_cb \ {t}
  /\ run' = [run EXCEPT ![t] = "notify"]
  /\ UNCHANGED <<object, m_semaphore>>

Notify(t) ==
  /\ run[t] = "notify"
  /\ m_semaphore' = [m_semaphore EXCEPT ![t] = @ + 1]
  /\ run' = [run EXCEPT ![t] = "callback"]
  /\ UNCHANGED <<object, m_id, m_cb>>

Return(t) ==
  /\ run[t] = "callback"
  /\ run' = [run EXCEPT ![t] = "done"]
  /\ UNCHANGED <<object, m_id, m_cb, m_semaphore>>

join(t) ==
  /\ object[t] = "live" /\ run[t] = "done"
  /\ object' = [object EXCEPT ![t] = "joined"]
  /\ UNCHANGED <<run, m_id, m_cb, m_semaphore>>

(* Thread::~Thread, which detaches a pthread that was not joined.          *)
Destroy(t) ==
  /\ object[t] \in {"live", "joined"}
  /\ object' = [object EXCEPT ![t] = "destroyed"]
  /\ UNCHANGED <<run, m_id, m_cb, m_semaphore>>

OwnerStep(t) == Construct(t) \/ Constructed(t) \/ join(t) \/ Destroy(t)
RunStep(t) == TakeCallback(t) \/ Notify(t)

-----------------------------------------------------------------------------
(* The owner of a Thread has its id, and may destroy it, once the          *)
(* constructor has returned: run() has then written the id, has taken the  *)
(* callback and does not come back to the object.                          *)
ThreadIsReady ==
  \A t \in Threads : object[t] \in {"live", "joined", "destroyed"} =>
    t \in m_id /\ t \notin m_cb /\ run[t] \in {"callback", "done"}
=============================================================================
