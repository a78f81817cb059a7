------------------------------ MODULE TaskPool ------------------------------
(***************************************************************************)
(* What a thread pool promises, with no threads, lock or condition         *)
(* variable: tasks accepted while the pool is open are started in the      *)
(* order they were accepted, each one exactly once, every accepted task is *)
(* finished before the pool is gone, and submissions to a closed pool are  *)
(* refused.  ThreadPool.tla is shown to implement this specification.      *)
(***************************************************************************)
EXTENDS Naturals, Sequences

CONSTANT Tasks

VARIABLES
  queue,     \* accepted and not started, in the order of acceptance
  running,   \* started and not finished
  done,      \* finished
  refused,   \* submitted to a closed pool
  phase      \* "open", "closed" (no more submissions accepted) or "gone"

tpvars == <<queue, running, done, refused, phase>>

Submitted == {queue[i] : i \in DOMAIN queue} \cup running \cup done \cup refused

Init ==
  /\ queue = <<>>
  /\ running = {}
  /\ done = {}
  /\ refused = {}
  /\ phase = "open"

Submit(t) ==
  /\ phase = "open"
  /\ t \notin Submitted
  /\ queue' = Append(queue, t)
  /\ UNCHANGED <<running, done, refused, phase>>

Refuse(t) ==
  /\ phase = "closed"
  /\ t \notin Submitted
  /\ refused' = refused \cup {t}
  /\ UNCHANGED <<queue, running, done, phase>>

Start ==
  /\ queue # <<>>
  /\ running' = running \cup {Head(queue)}
  /\ queue' = Tail(queue)
  /\ UNCHANGED <<done, refused, phase>>

Finish(t) ==
  /\ t \in running
  /\ running' = running \ {t}
  /\ done' = done \cup {t}
  /\ UNCHANGED <<queue, refused, phase>>

Close ==
  /\ phase = "open"
  /\ phase' = "closed"
  /\ UNCHANGED <<queue, running, done, refused>>

Destroy ==
  /\ phase = "closed"
  /\ queue = <<>>
  /\ running = {}
  /\ phase' = "gone"
  /\ UNCHANGED <<queue, running, done, refused>>

Next ==
  \/ \E t \in Tasks : Submit(t) \/ Refuse(t) \/ Finish(t)
  \/ Start
  \/ Close
  \/ Destroy

Spec == Init /\ [][Next]_tpvars
=============================================================================
