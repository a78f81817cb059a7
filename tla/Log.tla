-------------------------------- MODULE Log --------------------------------
(***************************************************************************)
(* log.cpp: loggers, their appenders, and threads that log.  Logger::log   *)
(* holds the logger's spinlock while its appenders work, and takes the     *)
(* root logger's inside it when the logger has none.  The operations that  *)
(* change a logger take the same lock for their whole body, so each is one *)
(* step that waits until the lock is free.                                 *)
(*                                                                         *)
(* An appender is a record in its logger's list: configured appenders are  *)
(* new objects that no other logger has.  Its own mutex is always taken    *)
(* inside its logger's and orders nothing further.                         *)
(*                                                                         *)
(* The file: renaming or deleting the path (Rotate) leaves open streams on *)
(* the old file; opening makes a new one.  Files are numbered, current is  *)
(* the one the path names (or will name once it is opened).                *)
(***************************************************************************)
EXTENDS Naturals, Sequences, FiniteSets

CONSTANTS
  Root,         \* name of the root logger
  Names,        \* names of the other loggers
  Threads,      \* threads that log
  Levels,       \* LogLevel::Level without UNKNOW, which is 0; DEBUG is 1
  NoFormat,     \* a null formatter, or an empty pattern
  Formats,      \* valid patterns
  BadFormat,    \* a pattern whose LogFormatter isError()
  Period,       \* the 3 seconds after which a file is opened again
  MaxClock,     \* bound: last second of a behaviour, which starts late enough for m_last_time_=0
  MaxRotations, \* bound: how often the path is renamed or deleted
  MaxEvents,    \* bound: events each thread logs
  Nobody        \* a free lock

Loggers == Names \cup {Root}

ASSUME LogAssumption ==
  /\ Root \notin Names /\ Nobody \notin Threads
  /\ Levels \subseteq Nat \ {0} /\ 1 \in Levels
  /\ NoFormat \notin Formats /\ BadFormat \notin Formats \cup {NoFormat}
  /\ Formats # {} /\ Period \in Nat \ {0} /\ MaxClock \in Nat /\ MaxClock >= 2 * Period
  /\ MaxRotations \in Nat /\ MaxEvents \in Nat

VARIABLES
  level,        \* m_level_ of each logger
  formatter,    \* m_formatter_ of each logger
  appenders,    \* m_appenders_ of each logger
  lock,         \* who holds m_mutex of each logger
  now,          \* time(0)
  current,      \* number of the file under the path
  rotated,      \* rotated[n]: when file n was renamed or deleted
  pc,           \* "idle", "log" (at the level test), "lock", "emit", "write"
  event,        \* what each thread logs
  at,           \* the logger whose log() each thread is in
  todo,         \* appenders it has still to call
  sinks,        \* where the event has gone so far
  events,       \* events each thread has left
  vanished,     \* loggers that accepted an event nobody got
  misplaced     \* <<event time, rotation time>> of lines in a file that was rotated

logVars == <<level, formatter, appenders, lock, now, current, rotated, pc, event,
             at, todo, sinks, events, vanished, misplaced>>

Appender(kind, lvl, own, fmt) ==
  [kind |-> kind, level |-> lvl, own |-> own, formatter |-> fmt, last |-> 0, stream |-> current]

NoEvent == [logger |-> Root, level |-> CHOOSE v \in Levels : TRUE, time |-> 0]
Event == [logger : Loggers, level : Levels, time : 0 .. MaxClock]

AppenderOK(a) ==
  /\ a.kind \in {"file", "stdout"} /\ a.level \in Levels \cup {0} /\ a.own \in BOOLEAN
  /\ a.formatter \in Formats
  /\ a.last \in 0 .. MaxClock /\ a.stream \in 0 .. current

LogTypeOK ==
  /\ level \in [Loggers -> Levels \cup {0}]
  /\ formatter \in [Loggers -> Formats]
  /\ \A l \in Loggers : \A i \in 1 .. Len(appenders[l]) : AppenderOK(appenders[l][i])
  /\ lock \in [Loggers -> Threads \cup {Nobody}]
  /\ now \in 0 .. MaxClock /\ current \in Nat
  /\ rotated \in [0 .. current - 1 -> 0 .. MaxClock]
  /\ pc \in [Threads -> {"idle", "log", "lock", "emit", "write"}]
  /\ \A t \in Threads : event[t] \in Event /\ at[t] \in Loggers /\ todo[t] \in 0 .. Len(appenders[at[t]])
  /\ events \in [Threads -> 0 .. MaxEvents]
  /\ vanished \subseteq Loggers
  /\ misplaced \subseteq (0 .. MaxClock) \X (0 .. MaxClock)

(* LoggerManager's constructor gives the root logger a stdout appender;    *)
(* getLogger makes the others on demand, without any.                      *)
LogInit(fmt) ==
  /\ level = [l \in Loggers |-> 1]
  /\ formatter = [l \in Loggers |-> fmt]
  /\ current = 0 /\ rotated = <<>> /\ now = 2 * Period
  /\ appenders = [l \in Loggers |-> IF l = Root THEN <<Appender("stdout", 1, FALSE, fmt)>> ELSE <<>>]
  /\ lock = [l \in Loggers |-> Nobody]
  /\ pc = [t \in Threads |-> "idle"]
  /\ event = [t \in Threads |-> NoEvent]
  /\ at = [t \in Threads |-> Root]
  /\ todo = [t \in Threads |-> 0]
  /\ sinks = [t \in Threads |-> {}]
  /\ events = [t \in Threads |-> MaxEvents]
  /\ vanished = {}
  /\ misplaced = {}

threadVars == <<pc, event, at, todo, sinks, events, vanished, misplaced>>
fileVars == <<now, current, rotated>>

(***************************************************************************)
(* Operations on a logger, under its lock.                                 *)
(***************************************************************************)
Unlocked(l) == lock[l] = Nobody

(* setLevel takes no lock.                                                 *)
setLevel(l, v) ==
  /\ level' = [level EXCEPT ![l] = v]
  /\ UNCHANGED <<formatter, appenders>>

(* setFormatter(pattern): an erroneous one is refused, a valid one is also *)
(* given to the appenders that have none of their own.                     *)
setFormatter(l, fmt) ==
  /\ Unlocked(l)
  /\ IF fmt = BadFormat THEN UNCHANGED <<formatter, appenders>>
     ELSE /\ formatter' = [formatter EXCEPT ![l] = fmt]
          /\ appenders' = [appenders EXCEPT ![l] =
               [i \in DOMAIN @ |-> IF @[i].own THEN @[i] ELSE [@[i] EXCEPT !.formatter = fmt]]]
  /\ UNCHANGED level

clearAppenders(l) ==
  /\ Unlocked(l)
  /\ appenders' = [appenders EXCEPT ![l] = <<>>]
  /\ UNCHANGED <<level, formatter>>

(* addAppender: one without a formatter is given the logger's.             *)
addAppender(l, a) ==
  /\ Unlocked(l)
  /\ appenders' = [appenders EXCEPT ![l] = Append(@, IF a.own THEN a ELSE [a EXCEPT !.formatter = formatter[l]])]
  /\ UNCHANGED <<level, formatter>>

(***************************************************************************)
(* Logging.                                                                *)
(***************************************************************************)

(* The macro: an event is made if the logger's level lets it pass, with    *)
(* the time of its making; ~LogEventWrap calls log.                        *)
MakeEvent(t, l, v) ==
  /\ pc[t] = "idle" /\ events[t] > 0 /\ level[l] <= v
  /\ event' = [event EXCEPT ![t] = [logger |-> l, level |-> v, time |-> now]]
  /\ at' = [at EXCEPT ![t] = l]
  /\ events' = [events EXCEPT ![t] = @ - 1]
  /\ pc' = [pc EXCEPT ![t] = "log"]
  /\ UNCHANGED <<level, formatter, appenders, lock, fileVars, todo, sinks, vanished, misplaced>>

(* The thread is done with its event: its locks are released.  got is      *)
(* where the event went; an event that is turned down at its own logger    *)
(* was never accepted.                                                     *)
Leave(t) ==
  /\ pc' = [pc EXCEPT ![t] = "idle"]
  /\ todo' = [todo EXCEPT ![t] = 0]
  /\ at' = [at EXCEPT ![t] = Root]
  /\ lock' = [l \in Loggers |-> IF lock[l] = t THEN Nobody ELSE lock[l]]
  /\ event' = [event EXCEPT ![t] = NoEvent]
  /\ sinks' = [sinks EXCEPT ![t] = {}]

Finish(t, got) ==
  /\ Leave(t)
  /\ vanished' = IF got = {} THEN vanished \cup {event[t].logger} ELSE vanished

(* log tests the level again before it takes the lock.                     *)
TestLevel(t) ==
  /\ pc[t] = "log"
  /\ IF event[t].level >= level[at[t]]
     THEN pc' = [pc EXCEPT ![t] = "lock"] /\ UNCHANGED <<at, todo, lock, event, sinks, vanished>>
     ELSE IF at[t] = event[t].logger
     THEN Leave(t) /\ UNCHANGED vanished
     ELSE Finish(t, {})
  /\ UNCHANGED <<level, formatter, appenders, fileVars, events, misplaced>>

(* Fault: a logger without appenders drops its events.                     *)
TakeLockNoRoot(t) ==
  LET l == at[t] IN
  /\ pc[t] = "lock" /\ Unlocked(l)
  /\ IF appenders[l] = <<>>
     THEN Finish(t, {})
     ELSE /\ lock' = [lock EXCEPT ![l] = t]
          /\ todo' = [todo EXCEPT ![t] = 1]
          /\ pc' = [pc EXCEPT ![t] = "emit"]
          /\ UNCHANGED <<at, event, sinks, vanished>>
  /\ UNCHANGED <<level, formatter, appenders, fileVars, events, misplaced>>

(* Under the lock: call the appenders, or the root logger's log if there   *)
(* are none.                                                               *)
TakeLock(t) ==
  LET l == at[t] IN
  /\ pc[t] = "lock" /\ Unlocked(l)
  /\ IF appenders[l] = <<>> /\ l = Root
     THEN Finish(t, {})
     ELSE /\ lock' = [lock EXCEPT ![l] = t]
          /\ IF appenders[l] # <<>>
             THEN /\ todo' = [todo EXCEPT ![t] = 1]
                  /\ pc' = [pc EXCEPT ![t] = "emit"]
                  /\ UNCHANGED at
             ELSE /\ at' = [at EXCEPT ![t] = Root]
                  /\ pc' = [pc EXCEPT ![t] = "log"]
                  /\ UNCHANGED todo
          /\ UNCHANGED <<event, sinks, vanished>>
  /\ UNCHANGED <<level, formatter, appenders, fileVars, events, misplaced>>

NextAppender(t, got) ==
  IF todo[t] < Len(appenders[at[t]])
  THEN /\ todo' = [todo EXCEPT ![t] = @ + 1]
       /\ pc' = [pc EXCEPT ![t] = "emit"]
       /\ sinks' = [sinks EXCEPT ![t] = got]
       /\ UNCHANGED <<at, lock, event, vanished>>
  ELSE Finish(t, got)

(* A file is opened again when Period has passed since it was last opened, *)
(* measured by the event's time.                                           *)
(* Fault: only when more than Period has passed.                           *)
DueLate(a, time) == a.kind = "file" /\ time > a.last + Period
Due(a, time) == a.kind = "file" /\ time >= a.last + Period

(* The next appender: its level, and for a file whether it is due.         *)
Emit(t) ==
  LET l == at[t]  a == appenders[l][todo[t]] IN
  /\ pc[t] = "emit"
  /\ IF event[t].level < a.level
     THEN NextAppender(t, sinks[t]) /\ UNCHANGED appenders
     ELSE /\ appenders' =
               IF Due(a, event[t].time)
               THEN [appenders EXCEPT ![l][todo[t]] =
                       [@ EXCEPT !.last = event[t].time, !.stream = current]]
               ELSE appenders
          /\ pc' = [pc EXCEPT ![t] = "write"]
          /\ UNCHANGED <<at, todo, lock, event, sinks, vanished>>
  /\ UNCHANGED <<level, formatter, fileVars, events, misplaced>>

Write(t) ==
  LET a == appenders[at[t]][todo[t]] IN
  /\ pc[t] = "write"
  /\ misplaced' = IF a.kind = "file" /\ a.stream # current
                  THEN misplaced \cup {<<event[t].time, rotated[a.stream]>>} ELSE misplaced
  /\ NextAppender(t, sinks[t] \cup {a.kind})
  /\ UNCHANGED <<level, formatter, appenders, fileVars, events>>

(* The path is renamed or deleted; time passes.                            *)
Rotate ==
  /\ current < MaxRotations
  /\ current' = current + 1
  /\ rotated' = [n \in 0 .. current |-> IF n = current THEN now ELSE rotated[n]]
  /\ UNCHANGED <<now, level, formatter, appenders, lock, threadVars>>

Tick ==
  /\ now < MaxClock
  /\ now' = now + 1
  /\ UNCHANGED <<current, rotated, level, formatter, appenders, lock, threadVars>>

LogStep(t) == TestLevel(t) \/ TakeLock(t) \/ Emit(t) \/ Write(t)
=============================================================================
