------------------------------ MODULE Executor ------------------------------
(***************************************************************************)
(* What a scheduler of coroutines promises, with no fiber states, counters *)
(* or lock: a task that is put in the queue is taken by one worker, the    *)
(* first that comes for it among those it is bound to; the worker takes    *)
(* what has waited longest; a task is executed by the worker that took it, *)
(* once for every time it is taken; and a task that has ended is never     *)
(* executed again.  A task may only be put in the queue when it is nowhere *)
(* else; from the first time that somebody does otherwise nothing is       *)
(* promised.  Scheduler.tla and IOManager.tla are shown to implement this  *)
(* specification.                                                          *)
(***************************************************************************)
EXTENDS Naturals, SequencesExt

CONSTANTS Workers, Tasks, AnyThread, NoTask

VARIABLES
  queue,   \* records [task, thread], in the order in which they were put
  hand,    \* per worker: the task it has taken, or NoTask
  stage,   \* per worker: "free", "taken", "executing", "ready" or "parked"
  ended,   \* the tasks that have ended
  misused  \* a task has been put in the queue while it was somewhere else

evars == <<queue, hand, stage, ended, misused>>

Waits(t) == \E i \in DOMAIN queue : queue[i].task = t
Taken(t) == \E w \in Workers : hand[w] = t
For(w) == {i \in DOMAIN queue : queue[i].thread \in {AnyThread, w}}

Init ==
  /\ queue = <<>>
  /\ hand = [w \in Workers |-> NoTask]
  /\ stage = [w \in Workers |-> "free"]
  /\ ended = {}
  /\ misused = FALSE

\* Tasks are put in the queue, several at once, and again later; properly so if
\* they are nowhere else.
Put ==
  LET new == DOMAIN queue' \ DOMAIN queue IN
  /\ queue' \in Seq([task : Tasks, thread : Workers \cup {AnyThread}])
  /\ \A i \in DOMAIN queue : i \in DOMAIN queue' /\ queue'[i] = queue[i]
  /\ misused' = ~( /\ \A i \in new : ~Waits(queue'[i].task) /\ ~Taken(queue'[i].task)
                  /\ \A i, j \in new : queue'[i].task = queue'[j].task => i = j )
  /\ UNCHANGED <<hand, stage, ended>>

Take(w) ==
  /\ stage[w] = "free"
  /\ \E i \in For(w) :
       /\ \A j \in For(w) : i <= j
       /\ hand' = [hand EXCEPT ![w] = queue[i].task]
       /\ queue' = RemoveAt(queue, i)
  /\ stage' = [stage EXCEPT ![w] = "taken"]
  /\ UNCHANGED <<ended, misused>>

Execute(w) ==
  /\ stage[w] = "taken" /\ hand[w] \notin ended
  /\ stage' = [stage EXCEPT ![w] = "executing"]
  /\ UNCHANGED <<queue, hand, ended, misused>>

\* The task yields to be resumed at once, or until it is put again, or ends.
YieldReady(w) ==
  /\ stage[w] = "executing"
  /\ stage' = [stage EXCEPT ![w] = "ready"]
  /\ UNCHANGED <<queue, hand, ended, misused>>

Park(w) ==
  /\ stage[w] = "executing"
  /\ stage' = [stage EXCEPT ![w] = "parked"]
  /\ ended' \in {ended, ended \cup {hand[w]}}
  /\ UNCHANGED <<queue, hand, misused>>

Free(w) ==
  /\ hand' = [hand EXCEPT ![w] = NoTask]
  /\ stage' = [stage EXCEPT ![w] = "free"]
  /\ UNCHANGED <<ended, misused>>

\* The worker lets go of it: one that is ready goes to the end of the queue.
Requeue(w) ==
  /\ stage[w] = "ready"
  /\ queue' = Append(queue, [task |-> hand[w], thread |-> AnyThread])
  /\ Free(w)

Drop(w) ==
  /\ stage[w] = "parked" \/ (stage[w] = "taken" /\ hand[w] \in ended)
  /\ UNCHANGED queue
  /\ Free(w)

Work(w) == Take(w) \/ Execute(w) \/ YieldReady(w) \/ Park(w) \/ Requeue(w) \/ Drop(w)

Next ==
  \/ misused /\ misused'
  \/ ~misused /\ (Put \/ \E w \in Workers : Work(w))

Spec == Init /\ [][Next]_evars
=============================================================================
