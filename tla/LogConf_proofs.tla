--------------------------- MODULE LogConf_proofs ---------------------------
(* The logging system under a changing configuration, for any loggers, threads, *)
(* setters and values.  Three results, each from an invariant of its own: lines *)
(* go to a renamed file for a limited time, no event is lost while a logger is  *)
(* rebuilt, and the loggers end up as the last value says.                      *)
EXTENDS LogConf, TLAPS

-----------------------------------------------------------------------------
(* The loggers and the threads that log.                                        *)
Recs == [kind : {"file", "stdout"}, level : Levels \cup {0}, own : BOOLEAN,
         formatter : Formats, last : Nat, stream : Nat]

LogTypes ==
  /\ level \in [Loggers -> Levels \cup {0}]
  /\ formatter \in [Loggers -> Formats]
  /\ appenders \in [Loggers -> Seq(Recs)]
  /\ lock \in [Loggers -> Threads \cup {Nobody}]
  /\ now \in 0 .. MaxClock /\ current \in Nat
  /\ rotated \in [0 .. current - 1 -> 0 .. MaxClock]
  /\ pc \in [Threads -> {"idle", "log", "lock", "emit", "write"}]
  /\ event \in [Threads -> Event]
  /\ at \in [Threads -> Loggers]
  /\ todo \in [Threads -> Nat]
  /\ sinks \in [Threads -> SUBSET {"file", "stdout"}]
  /\ events \in [Threads -> 0 .. MaxEvents]
  /\ vanished \subseteq Loggers
  /\ misplaced \subseteq (0 .. MaxClock) \X (0 .. MaxClock)

(* A thread at an appender holds the logger's lock, so that nobody takes the    *)
(* appender away; a file it writes to was opened less than Period before the    *)
(* event.                                                                       *)
Working(t) ==
  /\ event[t].time <= now
  /\ pc[t] \in {"emit", "write"} => lock[at[t]] = t /\ todo[t] \in 1 .. Len(appenders[at[t]])
  /\ pc[t] \notin {"emit", "write"} => todo[t] = 0
  /\ pc[t] = "write" /\ appenders[at[t]][todo[t]].kind = "file" =>
       event[t].time < appenders[at[t]][todo[t]].last + Period

(* A file that was rotated was opened before.                                   *)
FileOK(a) ==
  /\ a.stream <= current /\ a.last <= now
  /\ a.stream < current => a.last <= rotated[a.stream]

FilesOK == \A l \in Loggers : \A i \in 1 .. Len(appenders[l]) : FileOK(appenders[l][i])

LInv == LogTypes /\ (\A t \in Threads : Working(t)) /\ FilesOK /\ LinesMisplacedBriefly

LEMMA InitLInv == Init => LInv
<1> SUFFICES ASSUME Init
             PROVE  LInv
  OBVIOUS
<1>1. /\ Root \in Loggers /\ Nobody \notin Threads
      /\ Period \in Nat \ {0} /\ MaxClock \in Nat /\ 2 * Period \in 0 .. MaxClock /\ MaxEvents \in Nat
  BY LogAssumption DEF Loggers
<1>2. PICK fmt \in Formats : LogInit(fmt)
  BY LogAssumption DEF Init
<1>3. NoEvent \in Event /\ NoEvent.time = 0
  BY <1>1, LogAssumption DEF NoEvent, Event
<1>4. LogTypes
  <2>1. PICK r \in Recs : r = Appender("stdout", 1, FALSE, fmt)
    BY <1>1, <1>2, LogAssumption DEF LogInit, Appender, Recs
  <2>2. appenders \in [Loggers -> Seq(Recs)]
    <3>1. <<r>> \in Seq(Recs) /\ <<>> \in Seq(Recs)
      OBVIOUS
    <3>2. appenders = [l \in Loggers |-> IF l = Root THEN <<r>> ELSE <<>>]
      BY <1>2, <2>1 DEF LogInit
    <3> QED
      BY <3>1, <3>2
  <2>3. rotated \in [0 .. current - 1 -> 0 .. MaxClock]
    BY <1>1, <1>2 DEF LogInit
  <2>4. /\ level \in [Loggers -> Levels \cup {0}] /\ formatter \in [Loggers -> Formats]
        /\ lock \in [Loggers -> Threads \cup {Nobody}]
        /\ now \in 0 .. MaxClock /\ current \in Nat
    BY <1>1, <1>2, LogAssumption DEF LogInit
  <2>5. /\ pc \in [Threads -> {"idle", "log", "lock", "emit", "write"}]
        /\ event \in [Threads -> Event] /\ at \in [Threads -> Loggers] /\ todo \in [Threads -> Nat]
        /\ sinks \in [Threads -> SUBSET {"file", "stdout"}]
        /\ events \in [Threads -> 0 .. MaxEvents]
    BY <1>1, <1>2, <1>3 DEF LogInit
  <2>6. vanished \subseteq Loggers /\ misplaced \subseteq (0 .. MaxClock) \X (0 .. MaxClock)
    BY <1>2 DEF LogInit
  <2> QED
    BY <2>2, <2>3, <2>4, <2>5, <2>6 DEF LogTypes
<1>5. \A t \in Threads : Working(t)
  BY <1>1, <1>2, <1>3 DEF LogInit, Working
<1>6. FilesOK
  BY <1>1, <1>2 DEF LogInit, FilesOK, FileOK, Appender
<1>7. LinesMisplacedBriefly
  BY <1>2 DEF LogInit, LinesMisplacedBriefly
<1> QED
  BY <1>4, <1>5, <1>6, <1>7 DEF LInv

(* A step of thread t leaves the others' work alone: what they use is locked.   *)
LEMMA OthersWork ==
  ASSUME LInv, NEW t \in Threads, NEW u \in Threads \ {t}, now' = now,
         pc'[u] = pc[u], event'[u] = event[u], at'[u] = at[u], todo'[u] = todo[u],
         \A l \in Loggers : lock'[l] = lock[l] \/ lock[l] \in {Nobody, t},
         \A l \in Loggers : appenders'[l] = appenders[l] \/ lock[l] \in {Nobody, t}
  PROVE  Working(u)'
<1>1. u # Nobody /\ u # t /\ Working(u) /\ at[u] \in Loggers
  BY LogAssumption DEF LInv, LogTypes
<1>2. pc[u] \in {"emit", "write"} => lock'[at[u]] = u /\ appenders'[at[u]] = appenders[at[u]]
  BY <1>1 DEF Working
<1> QED
  BY <1>1, <1>2 DEF Working

LEMMA MakeEventStep ==
  ASSUME LInv, NEW t \in Threads, NEW l \in Loggers, NEW v \in Levels, MakeEvent(t, l, v)
  PROVE  LInv'
<1>1. [logger |-> l, level |-> v, time |-> now] \in Event
  BY DEF LInv, LogTypes, Event
<1>2. LogTypes'
  <2>1. events' \in [Threads -> 0 .. MaxEvents]
    BY LogAssumption DEF MakeEvent, LInv, LogTypes
  <2>2. event' \in [Threads -> Event] /\ at' \in [Threads -> Loggers]
    BY <1>1 DEF MakeEvent, LInv, LogTypes
  <2> QED
    BY <2>1, <2>2 DEF MakeEvent, fileVars, LInv, LogTypes
<1>3. ASSUME NEW u \in Threads \ {t}
      PROVE  Working(u)'
  BY <1>3, OthersWork DEF MakeEvent, fileVars, LInv, LogTypes
<1>4. Working(t)'
  <2>1. pc[t] = "idle" /\ pc'[t] = "log" /\ todo' = todo /\ now' = now /\ event'[t].time = now
    BY DEF MakeEvent, fileVars, LInv, LogTypes
  <2>2. todo[t] = 0 /\ now \in Nat
    <3>1. Working(t) /\ now \in 0 .. MaxClock
      BY DEF LInv, LogTypes
    <3> QED
      BY <2>1, <3>1, LogAssumption DEF Working
  <2> QED
    BY <2>1, <2>2 DEF Working
<1>5. FilesOK' /\ LinesMisplacedBriefly'
  BY DEF MakeEvent, fileVars, LInv, FilesOK, FileOK, LinesMisplacedBriefly
<1> QED
  BY <1>2, <1>3, <1>4, <1>5 DEF LInv

(* A thread that is done with its event has no lock.                            *)
LEMMA LeaveStep ==
  ASSUME LInv, NEW t \in Threads, Leave(t)
  PROVE  /\ pc' \in [Threads -> {"idle", "log", "lock", "emit", "write"}]
         /\ todo' \in [Threads -> Nat] /\ at' \in [Threads -> Loggers]
         /\ lock' \in [Loggers -> Threads \cup {Nobody}]
         /\ event' \in [Threads -> Event] /\ sinks' \in [Threads -> SUBSET {"file", "stdout"}]
         /\ pc'[t] = "idle" /\ todo'[t] = 0 /\ event'[t].time = 0
         /\ \A u \in Threads \ {t} : /\ pc'[u] = pc[u] /\ event'[u] = event[u]
                                     /\ at'[u] = at[u] /\ todo'[u] = todo[u]
         /\ \A l \in Loggers : lock'[l] = lock[l] \/ lock[l] \in {Nobody, t}
<1>1. NoEvent \in Event /\ NoEvent.time = 0 /\ Root \in Loggers
  BY LogAssumption DEF NoEvent, Event, Loggers
<1> QED
  BY <1>1 DEF Leave, LInv, LogTypes

LEMMA FinishStep ==
  ASSUME LInv, NEW t \in Threads, NEW got, (Leave(t) /\ UNCHANGED vanished) \/ Finish(t, got),
         appenders' \in [Loggers -> Seq(Recs)], FilesOK',
         \A l \in Loggers : appenders'[l] = appenders[l] \/ lock[l] \in {Nobody, t},
         misplaced' \subseteq (0 .. MaxClock) \X (0 .. MaxClock), LinesMisplacedBriefly',
         UNCHANGED <<level, formatter, fileVars, events>>
  PROVE  LInv'
<1>1. Leave(t) /\ vanished' \subseteq Loggers
  BY DEF Finish, LInv, LogTypes, Event
<1>2. LogTypes'
  BY <1>1, LeaveStep DEF LInv, LogTypes, fileVars
<1>3. ASSUME NEW u \in Threads \ {t}
      PROVE  Working(u)'
  <2>1. /\ pc'[u] = pc[u] /\ event'[u] = event[u] /\ at'[u] = at[u] /\ todo'[u] = todo[u]
        /\ \A l \in Loggers : lock'[l] = lock[l] \/ lock[l] \in {Nobody, t}
    BY <1>1, LeaveStep
  <2>2. now' = now
    BY DEF fileVars
  <2> QED
    BY <2>1, <2>2, OthersWork
<1>4. Working(t)'
  BY <1>1, LeaveStep DEF Working, LInv, LogTypes, fileVars
<1> QED
  BY <1>2, <1>3, <1>4 DEF LInv

LEMMA TestLevelStep ==
  ASSUME LInv, NEW t \in Threads, TestLevel(t)
  PROVE  LInv'
<1>1. CASE event[t].level >= level[at[t]]
  <2>1. /\ pc[t] = "log" /\ pc' = [pc EXCEPT ![t] = "lock"]
        /\ UNCHANGED <<at, todo, lock, event, sinks, vanished, level, formatter, appenders,
                       now, current, rotated, events, misplaced>>
    BY <1>1 DEF TestLevel, fileVars
  <2>2. LogTypes'
    BY <2>1 DEF LInv, LogTypes
  <2>3. ASSUME NEW u \in Threads \ {t}
        PROVE  Working(u)'
    BY <2>1, OthersWork DEF LInv, LogTypes
  <2>4. Working(t)' /\ FilesOK' /\ LinesMisplacedBriefly'
    BY <2>1 DEF LInv, LogTypes, Working, FilesOK, FileOK, LinesMisplacedBriefly
  <2> QED
    BY <2>2, <2>3, <2>4 DEF LInv
<1>2. CASE ~(event[t].level >= level[at[t]])
  <2>1. /\ (Leave(t) /\ UNCHANGED vanished) \/ Finish(t, {})
        /\ UNCHANGED <<level, formatter, appenders, fileVars, events, misplaced>>
    BY <1>2 DEF TestLevel
  <2>2. FilesOK' /\ LinesMisplacedBriefly'
    BY <2>1 DEF LInv, FilesOK, FileOK, LinesMisplacedBriefly, fileVars
  <2> QED
    BY <2>1, <2>2, FinishStep DEF LInv, LogTypes
<1> QED
  BY <1>1, <1>2

LEMMA TakeLockStep ==
  ASSUME LInv, NEW t \in Threads, TakeLock(t)
  PROVE  LInv'
<1> DEFINE l == at[t]
<1>1. FilesOK' /\ LinesMisplacedBriefly'
  BY DEF TakeLock, LInv, FilesOK, FileOK, LinesMisplacedBriefly, fileVars
<1>2. CASE appenders[l] = <<>> /\ l = Root
  BY <1>1, <1>2, FinishStep DEF TakeLock, LInv, LogTypes
<1>3. CASE ~(appenders[l] = <<>> /\ l = Root)
  <2>1. /\ pc[t] = "lock" /\ lock[l] = Nobody /\ lock' = [lock EXCEPT ![l] = t]
        /\ UNCHANGED <<event, sinks, vanished, level, formatter, appenders,
                       now, current, rotated, events, misplaced>>
    BY <1>3 DEF TakeLock, Unlocked, fileVars
  <2>2. \/ /\ appenders[l] # <<>> /\ todo' = [todo EXCEPT ![t] = 1]
           /\ pc' = [pc EXCEPT ![t] = "emit"] /\ at' = at
        \/ /\ at' = [at EXCEPT ![t] = Root] /\ pc' = [pc EXCEPT ![t] = "log"] /\ todo' = todo
    BY <1>3 DEF TakeLock
  <2>3. l \in Loggers /\ Root \in Loggers /\ appenders[l] \in Seq(Recs)
    BY DEF LInv, LogTypes, Loggers
  <2>4. LogTypes'
    <3>1. /\ pc' \in [Threads -> {"idle", "log", "lock", "emit", "write"}]
          /\ todo' \in [Threads -> Nat] /\ at' \in [Threads -> Loggers]
      <4>1. /\ pc \in [Threads -> {"idle", "log", "lock", "emit", "write"}]
            /\ todo \in [Threads -> Nat] /\ at \in [Threads -> Loggers]
        BY DEF LInv, LogTypes
      <4>2. CASE todo' = [todo EXCEPT ![t] = 1] /\ pc' = [pc EXCEPT ![t] = "emit"] /\ at' = at
        BY <4>1, <4>2
      <4>3. CASE at' = [at EXCEPT ![t] = Root] /\ pc' = [pc EXCEPT ![t] = "log"] /\ todo' = todo
        BY <2>3, <4>1, <4>3
      <4> QED
        BY <2>2, <4>2, <4>3
    <3>2. lock' \in [Loggers -> Threads \cup {Nobody}]
      BY <2>1 DEF LInv, LogTypes
    <3> QED
      BY <2>1, <3>1, <3>2 DEF LInv, LogTypes
  <2>5. ASSUME NEW u \in Threads \ {t}
        PROVE  Working(u)'
    <3>1. pc'[u] = pc[u] /\ at'[u] = at[u] /\ todo'[u] = todo[u]
      BY <2>2 DEF LInv, LogTypes
    <3>2. \A k \in Loggers : lock'[k] = lock[k] \/ lock[k] \in {Nobody, t}
      BY <2>1 DEF LInv, LogTypes
    <3> QED
      BY <2>1, <3>1, <3>2, OthersWork
  <2>6. Working(t)'
    <3>1. Working(t) /\ lock'[l] = t
      BY <2>1, <2>3 DEF LInv, LogTypes
    <3>2. CASE /\ appenders[l] # <<>> /\ todo' = [todo EXCEPT ![t] = 1]
               /\ pc' = [pc EXCEPT ![t] = "emit"] /\ at' = at
      <4>1. 1 \in 1 .. Len(appenders[l]) /\ pc'[t] = "emit" /\ todo'[t] = 1
        BY <2>3, <3>2 DEF LInv, LogTypes
      <4> QED
        BY <2>1, <3>1, <3>2, <4>1 DEF Working
    <3>3. CASE at' = [at EXCEPT ![t] = Root] /\ pc' = [pc EXCEPT ![t] = "log"] /\ todo' = todo
      <4>1. pc'[t] = "log" /\ todo'[t] = 0
        BY <2>1, <3>1, <3>3 DEF LInv, LogTypes, Working
      <4> QED
        BY <2>1, <3>1, <4>1 DEF Working
    <3> QED
      BY <2>2, <3>2, <3>3
  <2> QED
    BY <1>1, <2>4, <2>5, <2>6 DEF LInv
<1> QED
  BY <1>2, <1>3

LEMMA NextAppenderStep ==
  ASSUME LInv, NEW t \in Threads, pc[t] \in {"emit", "write"},
         NEW got \in SUBSET {"file", "stdout"}, NextAppender(t, got), appenders' = appenders,
         misplaced' \subseteq (0 .. MaxClock) \X (0 .. MaxClock), LinesMisplacedBriefly',
         UNCHANGED <<level, formatter, fileVars, events>>
  PROVE  LInv'
<1>1. FilesOK' /\ appenders' \in [Loggers -> Seq(Recs)]
  BY DEF LInv, LogTypes, FilesOK, FileOK, fileVars
<1>2. CASE todo[t] < Len(appenders[at[t]])
  <2>1. /\ todo' = [todo EXCEPT ![t] = @ + 1] /\ pc' = [pc EXCEPT ![t] = "emit"]
        /\ sinks' = [sinks EXCEPT ![t] = got]
        /\ UNCHANGED <<at, lock, event, vanished, now, current, rotated>>
    BY <1>2 DEF NextAppender, fileVars
  <2>2. LogTypes'
    BY <1>1, <2>1 DEF LInv, LogTypes
  <2>3. ASSUME NEW u \in Threads \ {t}
        PROVE  Working(u)'
    BY <2>1, OthersWork DEF LInv, LogTypes
  <2>4. Working(t)'
    <3>1. Working(t) /\ todo[t] \in Nat /\ todo'[t] = todo[t] + 1 /\ pc'[t] = "emit"
      BY <2>1 DEF LInv, LogTypes
    <3>2. appenders[at[t]] \in Seq(Recs)
      BY DEF LInv, LogTypes
    <3>3. todo[t] + 1 \in 1 .. Len(appenders[at[t]])
      BY <1>2, <3>1, <3>2
    <3> QED
      BY <2>1, <3>1, <3>3 DEF Working
  <2> QED
    BY <1>1, <2>2, <2>3, <2>4 DEF LInv
<1>3. CASE ~(todo[t] < Len(appenders[at[t]]))
  BY <1>1, <1>3, FinishStep DEF NextAppender
<1> QED
  BY <1>2, <1>3

(* What an appender is after the test whether its file is due.                  *)
Tested(a, time) == IF Due(a, time) THEN [a EXCEPT !.last = time, !.stream = current] ELSE a

LEMMA TestedOK ==
  ASSUME LInv, NEW a \in Recs, FileOK(a), NEW time \in 0 .. MaxClock, time <= now
  PROVE  /\ Tested(a, time) \in Recs /\ FileOK(Tested(a, time))
         /\ Tested(a, time).kind = a.kind /\ Tested(a, time).own = a.own
         /\ Tested(a, time).level = a.level /\ Tested(a, time).formatter = a.formatter
         /\ a.kind = "file" => time < Tested(a, time).last + Period
<1>1. time \in Nat /\ current \in Nat /\ Period \in Nat \ {0} /\ a.last \in Nat /\ now \in Nat
  BY LogAssumption DEF LInv, LogTypes, Recs
<1>2. CASE Due(a, time)
  <2>1. Tested(a, time) = [a EXCEPT !.last = time, !.stream = current]
    BY <1>2 DEF Tested
  <2> DEFINE p == [a EXCEPT !.last = time, !.stream = current]
  <2>2. p \in Recs /\ p.last = time /\ p.stream = current
    BY <1>1 DEF Recs
  <2>3. p.kind = a.kind /\ p.own = a.own /\ p.level = a.level /\ p.formatter = a.formatter
    BY DEF Recs
  <2> HIDE DEF p
  <2>4. Tested(a, time) = p
    BY <2>1 DEF p
  <2>5. FileOK(p) /\ time < p.last + Period
    BY <1>1, <2>2 DEF FileOK
  <2> QED
    BY <2>2, <2>3, <2>4, <2>5
<1>3. CASE ~Due(a, time)
  BY <1>1, <1>3 DEF Tested, Due
<1> QED
  BY <1>2, <1>3

LEMMA EmitStep ==
  ASSUME LInv, NEW t \in Threads, Emit(t)
  PROVE  LInv'
<1>1. PICK l \in Loggers, k \in Nat : l = at[t] /\ k = todo[t]
  BY DEF LInv, LogTypes
<1>2. /\ pc[t] = "emit" /\ lock[l] = t /\ k \in 1 .. Len(appenders[l]) /\ appenders[l] \in Seq(Recs)
      /\ event[t] \in Event /\ event[t].time \in 0 .. MaxClock /\ event[t].time <= now
      /\ appenders[l][k] \in Recs /\ FileOK(appenders[l][k])
  BY <1>1 DEF Emit, LInv, LogTypes, Working, FilesOK, Event
<1>3. CASE event[t].level < appenders[l][k].level
  <2>1. NextAppender(t, sinks[t]) /\ appenders' = appenders /\ sinks[t] \in SUBSET {"file", "stdout"}
        /\ UNCHANGED <<level, formatter, fileVars, events, misplaced>>
    BY <1>1, <1>3 DEF Emit, LInv, LogTypes
  <2>2. LinesMisplacedBriefly' /\ misplaced' \subseteq (0 .. MaxClock) \X (0 .. MaxClock)
    BY <2>1 DEF LInv, LogTypes, LinesMisplacedBriefly
  <2> QED
    BY <1>2, <2>1, <2>2, NextAppenderStep
<1>4. CASE ~(event[t].level < appenders[l][k].level)
  <2> DEFINE b == Tested(appenders[l][k], event[t].time)
  <2>1. /\ pc' = [pc EXCEPT ![t] = "write"]
        /\ UNCHANGED <<at, todo, lock, event, sinks, vanished, level, formatter,
                       now, current, rotated, events, misplaced>>
    BY <1>1, <1>4 DEF Emit, fileVars
  <2>2. /\ b \in Recs /\ FileOK(b) /\ b.kind = appenders[l][k].kind
        /\ b.kind = "file" => event[t].time < b.last + Period
    BY <1>2, TestedOK
  <2>3. appenders' = [appenders EXCEPT ![l] = [appenders[l] EXCEPT ![k] = b]]
    <3>1. CASE Due(appenders[l][k], event[t].time)
      BY <1>1, <1>2, <1>4, <3>1 DEF Emit, Tested, LInv, LogTypes
    <3>2. CASE ~Due(appenders[l][k], event[t].time)
      BY <1>1, <1>2, <1>4, <3>2 DEF Emit, Tested, LInv, LogTypes
    <3> QED
      BY <3>1, <3>2
  <2> HIDE DEF b
  <2>4. /\ appenders' \in [Loggers -> Seq(Recs)]
        /\ \A m \in Loggers \ {l} : appenders'[m] = appenders[m]
        /\ Len(appenders'[l]) = Len(appenders[l]) /\ appenders'[l][k] = b
        /\ \A i \in 1 .. Len(appenders[l]) : i # k => appenders'[l][i] = appenders[l][i]
    BY <1>2, <2>2, <2>3 DEF LInv, LogTypes
  <2>5. LogTypes'
    BY <2>1, <2>4 DEF LInv, LogTypes
  <2>6. ASSUME NEW u \in Threads \ {t}
        PROVE  Working(u)'
    BY <1>2, <2>1, <2>4, OthersWork DEF LInv, LogTypes
  <2>7. Working(t)'
    <3>1. Working(t) /\ pc'[t] = "write"
      BY <2>1 DEF LInv, LogTypes
    <3> QED
      BY <1>1, <1>2, <2>1, <2>2, <2>4, <3>1 DEF Working
  <2>8. FilesOK'
    <3>1. ASSUME NEW m \in Loggers, NEW i \in 1 .. Len(appenders'[m]), NEW c, c = appenders'[m][i]
          PROVE  FileOK(c)
      <4>1. CASE m = l /\ i = k
        BY <2>2, <2>4, <3>1, <4>1
      <4>2. CASE ~(m = l /\ i = k)
        BY <2>4, <3>1, <4>2 DEF LInv, FilesOK
      <4> QED
        BY <4>1, <4>2
    <3>2. \A c : FileOK(c) => FileOK(c)'
      BY <2>1 DEF FileOK
    <3> QED
      BY <3>1, <3>2 DEF FilesOK
  <2>9. LinesMisplacedBriefly'
    BY <2>1 DEF LInv, LinesMisplacedBriefly
  <2> QED
    BY <2>5, <2>6, <2>7, <2>8, <2>9 DEF LInv
<1> QED
  BY <1>3, <1>4

(* The line goes to a file that was rotated after it was opened, and the event  *)
(* came less than Period after the opening.                                     *)
LEMMA WriteStep ==
  ASSUME LInv, NEW t \in Threads, Write(t)
  PROVE  LInv'
<1>1. PICK l \in Loggers, k \in Nat : l = at[t] /\ k = todo[t]
  BY DEF LInv, LogTypes
<1> DEFINE a == appenders[l][k]
<1>2. /\ pc[t] = "write" /\ k \in 1 .. Len(appenders[l]) /\ a \in Recs /\ FileOK(a)
      /\ event[t].time \in 0 .. MaxClock
      /\ a.kind = "file" => event[t].time < a.last + Period
  BY <1>1 DEF Write, LInv, LogTypes, Working, FilesOK, Event
<1>3. /\ misplaced' = IF a.kind = "file" /\ a.stream # current
                      THEN misplaced \cup {<<event[t].time, rotated[a.stream]>>} ELSE misplaced
      /\ NextAppender(t, sinks[t] \cup {a.kind})
      /\ UNCHANGED <<level, formatter, appenders, fileVars, events>>
  BY <1>1 DEF Write
<1>4. sinks[t] \cup {a.kind} \in SUBSET {"file", "stdout"}
  BY <1>2 DEF LInv, LogTypes, Recs
<1> HIDE DEF a
<1>5. CASE a.kind = "file" /\ a.stream # current
  <2>1. /\ a.stream \in 0 .. current - 1 /\ rotated[a.stream] \in 0 .. MaxClock
        /\ a.last \in Nat /\ a.last <= rotated[a.stream]
    <3>1. a.stream \in Nat /\ a.last \in Nat /\ current \in Nat
      BY <1>2 DEF LInv, LogTypes, Recs
    <3>2. a.stream < current /\ a.last <= rotated[a.stream]
      BY <1>2, <1>5, <3>1 DEF FileOK
    <3>3. a.stream \in 0 .. current - 1
      BY <3>1, <3>2
    <3> QED
      BY <3>1, <3>2, <3>3 DEF LInv, LogTypes
  <2>2. event[t].time < rotated[a.stream] + Period
    BY <1>2, <1>5, <2>1, LogAssumption
  <2>3. LinesMisplacedBriefly' /\ misplaced' \subseteq (0 .. MaxClock) \X (0 .. MaxClock)
    <3>1. PICK m : m = <<event[t].time, rotated[a.stream]>>
      OBVIOUS
    <3>2. m \in (0 .. MaxClock) \X (0 .. MaxClock) /\ m[1] < m[2] + Period
      BY <1>2, <2>1, <2>2, <3>1
    <3>3. misplaced' = misplaced \cup {m}
      BY <1>3, <1>5, <3>1
    <3>4. /\ misplaced \subseteq (0 .. MaxClock) \X (0 .. MaxClock)
          /\ \A n \in misplaced : n[1] < n[2] + Period
      BY DEF LInv, LogTypes, LinesMisplacedBriefly
    <3>5. misplaced' \subseteq (0 .. MaxClock) \X (0 .. MaxClock)
      BY <3>2, <3>3, <3>4
    <3>6. LinesMisplacedBriefly'
      BY <3>2, <3>3, <3>4 DEF LinesMisplacedBriefly
    <3> QED
      BY <3>5, <3>6
  <2> QED
    BY <1>2, <1>3, <1>4, <2>3, NextAppenderStep
<1>6. CASE ~(a.kind = "file" /\ a.stream # current)
  <2>1. LinesMisplacedBriefly' /\ misplaced' \subseteq (0 .. MaxClock) \X (0 .. MaxClock)
    BY <1>3, <1>6 DEF LInv, LogTypes, LinesMisplacedBriefly
  <2> QED
    BY <1>2, <1>3, <1>4, <2>1, NextAppenderStep
<1> QED
  BY <1>5, <1>6

(* The path is renamed or deleted; time passes.                                 *)
LEMMA RotateStep ==
  ASSUME LInv, Rotate
  PROVE  LInv'
<1>1. /\ current' = current + 1
      /\ rotated' = [n \in 0 .. current |-> IF n = current THEN now ELSE rotated[n]]
      /\ UNCHANGED <<now, level, formatter, appenders, lock, threadVars>>
      /\ current \in Nat /\ now \in 0 .. MaxClock
  BY DEF Rotate, LInv, LogTypes
<1>2. rotated' \in [0 .. current' - 1 -> 0 .. MaxClock] /\ current' \in Nat
  <2>1. 0 .. current' - 1 = 0 .. current /\ \A n \in 0 .. current : n # current => n \in 0 .. current - 1
    BY <1>1
  <2> QED
    BY <1>1, <2>1 DEF LInv, LogTypes
<1>3. LogTypes' /\ LinesMisplacedBriefly' /\ \A t \in Threads : Working(t)'
  BY <1>1, <1>2 DEF LInv, LogTypes, LinesMisplacedBriefly, Working, threadVars
<1>4. ASSUME NEW a \in Recs, FileOK(a)
      PROVE  FileOK(a)'
  <2>1. a.stream \in Nat /\ a.last \in Nat
    BY DEF Recs
  <2>2. a.stream < current' => a.stream \in 0 .. current /\ (a.stream = current \/ a.stream < current)
    BY <1>1, <1>4, <2>1 DEF FileOK
  <2> QED
    BY <1>1, <1>4, <2>1, <2>2 DEF FileOK
<1>5. \A l \in Loggers : \A i \in 1 .. Len(appenders[l]) : appenders[l][i] \in Recs
  BY DEF LInv, LogTypes
<1>6. FilesOK'
  BY <1>1, <1>4, <1>5 DEF LInv, FilesOK
<1> QED
  BY <1>3, <1>6 DEF LInv

LEMMA TickStep ==
  ASSUME LInv, Tick
  PROVE  LInv'
<1>1. /\ now' = now + 1 /\ now \in Nat /\ now' \in 0 .. MaxClock
      /\ UNCHANGED <<current, rotated, level, formatter, appenders, lock, threadVars>>
  BY LogAssumption DEF Tick, LInv, LogTypes
<1>2. LogTypes' /\ LinesMisplacedBriefly'
  BY <1>1 DEF LInv, LogTypes, LinesMisplacedBriefly, threadVars
<1>3. ASSUME NEW t \in Threads
      PROVE  Working(t)'
  <2>1. event[t].time \in Nat
    BY LogAssumption DEF LInv, LogTypes, Event
  <2> QED
    BY <1>1, <2>1 DEF LInv, Working, threadVars
<1>4. FilesOK'
  <2>1. \A l \in Loggers : \A i \in 1 .. Len(appenders[l]) : appenders[l][i].last \in Nat
    <3>1. \A l \in Loggers : \A i \in 1 .. Len(appenders[l]) : appenders[l][i] \in Recs
      BY DEF LInv, LogTypes
    <3>2. \A a \in Recs : a.last \in Nat
      BY DEF Recs
    <3> QED
      BY <3>1, <3>2
  <2> QED
    BY <1>1, <2>1 DEF LInv, FilesOK, FileOK
<1> QED
  BY <1>2, <1>3, <1>4 DEF LInv

-----------------------------------------------------------------------------
(* The setters and the listener.                                                *)
Loop(s) ==
  /\ setting[s] # "notify" => step[s] = "next" /\ left[s] = {}
  /\ step[s] = "formatter" => Defined(s) /\ Define(s).formatter # NoFormat
  /\ step[s] = "add" => Defined(s) /\ added[s] < Len(Define(s).appenders)

CInv ==
  /\ ConfigTypeOK
  /\ left \in [Setters -> SUBSET Loggers] /\ it \in [Setters -> Loggers]
  /\ step \in [Setters -> {"next", "formatter", "clear", "add"}]
  /\ added \in [Setters -> Nat]
  /\ \A s \in Setters : Loop(s)

LEMMA DefineFields ==
  ASSUME NEW v \in Values, NEW l \in DOMAIN v
  PROVE  /\ l \in Loggers /\ v[l].level \in Levels \cup {0}
         /\ v[l].formatter \in Formats \cup {NoFormat, BadFormat}
         /\ v[l].appenders \in Seq(AppenderDefine)
  BY LogConfAssumption DEF ValueOK, LogDefine

LEMMA InitCInv == Init => CInv
<1> SUFFICES ASSUME Init
             PROVE  CInv
  OBVIOUS
<1>1. ConfigTypeOK
  BY ConfigAssumption DEF Init, ConfigInit, ConfigTypeOK
<1>2. Root \in Loggers
  BY DEF Loggers
<1> QED
  BY <1>1, <1>2 DEF Init, ConfigInit, CInv, Loop

LEMMA ListenCInv ==
  ASSUME CInv, NEW s \in Setters, Listen(s)
  PROVE  CInv'
<1>1. UNCHANGED configVars /\ ConfigTypeOK'
  BY DEF Listen, CInv, ConfigTypeOK, configVars
<1>2. setting[s] = "notify" /\ new[s] \in Values /\ it[s] \in Loggers /\ Root \in Loggers
  BY DEF Listen, Visit, SetFormatter, ClearAppenders, AddAppender, Listening, CInv, ConfigTypeOK, Loggers
<1>3. ASSUME NEW l \in Loggers, Visit(s, l)
      PROVE  CInv'
  <2>1. /\ left' \in [Setters -> SUBSET Loggers] /\ it' \in [Setters -> Loggers]
        /\ step' \in [Setters -> {"next", "formatter", "clear", "add"}]
        /\ added' \in [Setters -> Nat]
    BY <1>3 DEF Visit, CInv
  <2>2. \A r \in Setters : Loop(r)'
    BY <1>1, <1>2, <1>3 DEF Visit, CInv, Loop, Defined, Define, configVars
  <2> QED
    BY <1>1, <2>1, <2>2 DEF CInv
<1>4. CASE SetFormatter(s)
  <2>1. \A r \in Setters : Loop(r)'
    BY <1>1, <1>2, <1>4 DEF SetFormatter, CInv, Loop, Defined, Define, configVars
  <2> QED
    BY <1>1, <1>4, <2>1 DEF SetFormatter, CInv
<1>5. ASSUME NEW n \in Nat, Added(s, n), UNCHANGED left
      PROVE  CInv'
  <2>1. \A r \in Setters : Loop(r)'
    BY <1>1, <1>2, <1>5 DEF Added, CInv, Loop, Defined, Define, configVars
  <2>2. /\ it' \in [Setters -> Loggers]
        /\ step' \in [Setters -> {"next", "formatter", "clear", "add"}]
        /\ added' \in [Setters -> Nat]
    <3>1. CASE Defined(s) /\ n < Len(Define(s).appenders)
      BY <1>2, <1>5, <3>1 DEF Added, CInv
    <3>2. CASE ~(Defined(s) /\ n < Len(Define(s).appenders))
      <4>1. /\ step' = [step EXCEPT ![s] = "next"] /\ added' = [added EXCEPT ![s] = 0]
            /\ it' = [it EXCEPT ![s] = Root]
        BY <1>5, <3>2 DEF Added
      <4> QED
        BY <1>2, <4>1 DEF CInv
    <3> QED
      BY <3>1, <3>2
  <2> QED
    BY <1>1, <1>5, <2>1, <2>2 DEF CInv
<1>6. added[s] + 1 \in Nat
  BY DEF CInv
<1> QED
  BY <1>3, <1>4, <1>5, <1>6 DEF Listen, ClearAppenders, AddAppender

LEMMA ConfigStepCInv ==
  ASSUME CInv, NEW s \in Setters, Listened(s) \/ Assigned(s) \/ \E v \in Values : SetValue(s, v)
  PROVE  CInv'
<1>1. CASE Listened(s)
  BY <1>1 DEF Listened, EndNotify, listenVars, CInv, ConfigTypeOK, Loop, Defined, Define
<1>2. CASE Assigned(s)
  BY <1>2, ConfigAssumption DEF Assigned, Assign, listenVars, CInv, ConfigTypeOK, Loop, Defined, Define
<1>3. ASSUME NEW v \in Values, SetValue(s, v)
      PROVE  CInv'
  <2>1. m_val \in Values /\ Changed(m_val, v) \cup Gone(m_val, v) \subseteq Loggers
    BY DefineFields DEF CInv, ConfigTypeOK, Changed, Gone
  <2>2. ConfigTypeOK' /\ left' \in [Setters -> SUBSET Loggers]
    BY <1>3, <2>1 DEF SetValue, BeginSet, CInv, ConfigTypeOK
  <2>3. \A r \in Setters : Loop(r)'
    BY <1>3 DEF SetValue, BeginSet, CInv, ConfigTypeOK, Loop, Defined, Define
  <2> QED
    BY <1>3, <2>2, <2>3 DEF SetValue, CInv
<1> QED
  BY <1>1, <1>2, <1>3

(* The listener changes the appenders of a logger only while nobody holds it.   *)
LEMMA RebuildStep ==
  ASSUME LInv, UNCHANGED <<lock, fileVars, threadVars>>, NEW k \in Loggers,
         level' \in [Loggers -> Levels \cup {0}], formatter' \in [Loggers -> Formats],
         NEW as \in Seq(Recs), appenders' = [appenders EXCEPT ![k] = as],
         as = appenders[k] \/ lock[k] = Nobody,
         \A i \in 1 .. Len(as) : FileOK(as[i])
  PROVE  LInv'
<1>1. /\ UNCHANGED <<lock, now, current, rotated, pc, event, at, todo, sinks, events, vanished, misplaced>>
      /\ appenders' \in [Loggers -> Seq(Recs)] /\ appenders'[k] = as
      /\ \A l \in Loggers \ {k} : appenders'[l] = appenders[l]
  BY DEF fileVars, threadVars, LInv, LogTypes
<1>2. LogTypes' /\ LinesMisplacedBriefly'
  BY <1>1 DEF LInv, LogTypes, LinesMisplacedBriefly
<1>3. ASSUME NEW t \in Threads
      PROVE  Working(t)'
  <2>1. Working(t) /\ t # Nobody /\ at[t] \in Loggers
    BY LogAssumption DEF LInv, LogTypes
  <2>2. pc[t] \in {"emit", "write"} => appenders'[at[t]] = appenders[at[t]]
    BY <1>1, <2>1 DEF Working
  <2> QED
    BY <1>1, <2>1, <2>2 DEF Working
<1>4. FilesOK'
  <2>1. ASSUME NEW l \in Loggers, NEW i \in 1 .. Len(appenders'[l]), NEW c, c = appenders'[l][i]
        PROVE  FileOK(c)
    BY <1>1, <2>1 DEF LInv, FilesOK
  <2>2. \A c : FileOK(c) => FileOK(c)'
    BY <1>1 DEF FileOK
  <2> QED
    BY <2>1, <2>2 DEF FilesOK
<1> QED
  BY <1>2, <1>3, <1>4 DEF LInv

LEMMA ListOf ==
  ASSUME NEW S, NEW n \in Nat, NEW f \in [1 .. n -> S]
  PROVE  f \in Seq(S) /\ Len(f) = n
  OBVIOUS

(* An appender that is given the logger's formatter.                            *)
LEMMA FormattedOK ==
  ASSUME NEW a \in Recs, NEW fmt \in Formats
  PROVE  /\ [a EXCEPT !.formatter = fmt] \in Recs
         /\ FileOK(a) => FileOK([a EXCEPT !.formatter = fmt])
         /\ [a EXCEPT !.formatter = fmt].level = a.level
         /\ [a EXCEPT !.formatter = fmt].kind = a.kind
         /\ [a EXCEPT !.formatter = fmt].own = a.own
         /\ [a EXCEPT !.formatter = fmt].formatter = fmt
  BY DEF Recs, FileOK

(* What addAppender puts into the list for the definition a.                    *)
Given(a, fmt) ==
  IF NewAppender(a).own THEN NewAppender(a) ELSE [NewAppender(a) EXCEPT !.formatter = fmt]

LEMMA GivenOK ==
  ASSUME LInv, NEW a \in AppenderDefine, NEW fmt \in Formats
  PROVE  /\ Given(a, fmt) \in Recs /\ FileOK(Given(a, fmt))
         /\ Given(a, fmt).level = 0 /\ Given(a, fmt).kind = a.kind
         /\ Given(a, fmt).own = (a.formatter \in Formats)
         /\ Given(a, fmt).formatter = IF a.formatter \in Formats THEN a.formatter ELSE fmt
<1>1. Given(a, fmt) =
        [kind |-> a.kind, level |-> 0, own |-> a.formatter \in Formats,
         formatter |-> IF a.formatter \in Formats THEN a.formatter ELSE fmt,
         last |-> 0, stream |-> current]
  BY DEF Given, NewAppender, Appender
<1>2. current \in Nat /\ now \in Nat /\ a.kind \in {"file", "stdout"}
  BY LogAssumption DEF LInv, LogTypes, AppenderDefine
<1> QED
  BY <1>1, <1>2 DEF Recs, FileOK

LEMMA ListenLInv ==
  ASSUME LInv, CInv, NEW s \in Setters, Listen(s)
  PROVE  LInv'
<1> DEFINE k == it[s]
<1>1. /\ setting[s] = "notify" /\ new[s] \in Values /\ k \in Loggers /\ Loop(s)
      /\ UNCHANGED <<configVars, lock, fileVars, threadVars>>
  BY DEF Listen, Visit, SetFormatter, ClearAppenders, AddAppender, Listening, CInv, ConfigTypeOK
<1>2. /\ level \in [Loggers -> Levels \cup {0}] /\ formatter \in [Loggers -> Formats]
      /\ appenders \in [Loggers -> Seq(Recs)]
      /\ \A l \in Loggers : \A i \in 1 .. Len(appenders[l]) : FileOK(appenders[l][i])
  BY DEF LInv, LogTypes, FilesOK
<1>3. ASSUME NEW l \in Loggers, Visit(s, l)
      PROVE  LInv'
  <2>1. formatter' = formatter /\ appenders' = [appenders EXCEPT ![l] = appenders[l]]
        /\ level' = [level EXCEPT ![l] = IF l \in DOMAIN new[s] THEN new[s][l].level ELSE 0]
    BY <1>2, <1>3 DEF Visit, setLevel
  <2>2. level' \in [Loggers -> Levels \cup {0}]
    BY <1>1, <1>2, <2>1, DefineFields
  <2> QED
    BY <1>1, <1>2, <2>1, <2>2, RebuildStep
<1>4. CASE SetFormatter(s)
  <2> DEFINE fmt == Define(s).formatter
             old_ == appenders[k]
             as == [i \in DOMAIN old_ |-> IF old_[i].own THEN old_[i]
                                          ELSE [old_[i] EXCEPT !.formatter = fmt]]
  <2>1. lock[k] = Nobody /\ level' = level /\ fmt \in Formats \cup {BadFormat}
    BY <1>1, <1>4, DefineFields
       DEF SetFormatter, setFormatter, Unlocked, Listening, Loop, Defined, Define
  <2>2. CASE fmt = BadFormat
    <3>1. formatter' = formatter /\ appenders' = [appenders EXCEPT ![k] = appenders[k]]
      BY <1>2, <1>4, <2>2 DEF SetFormatter, setFormatter
    <3> QED
      BY <1>1, <1>2, <2>1, <3>1, RebuildStep
  <2>3. CASE fmt # BadFormat
    <3>1. /\ fmt \in Formats /\ formatter' = [formatter EXCEPT ![k] = fmt]
          /\ appenders' = [appenders EXCEPT ![k] = as]
      BY <1>1, <1>2, <1>4, <2>1, <2>3 DEF SetFormatter, setFormatter
    <3>2. old_ \in Seq(Recs) /\ DOMAIN old_ = 1 .. Len(old_)
      BY <1>1, <1>2
    <3> HIDE DEF fmt
    <3>3. \A i \in 1 .. Len(old_) : as[i] \in Recs /\ FileOK(as[i])
      BY <1>1, <1>2, <3>1, <3>2, FormattedOK
    <3>4. as \in Seq(Recs) /\ Len(as) = Len(old_)
      <4>1. PICK n \in Nat : n = Len(old_)
        BY <3>2
      <4>2. DOMAIN old_ = 1 .. n
        BY <3>2, <4>1
      <4> HIDE DEF old_
      <4>3. DOMAIN as = 1 .. n
        BY <4>2
      <4>4. as = [i \in 1 .. n |-> as[i]]
        BY <4>2
      <4> HIDE DEF as
      <4>5. as \in [1 .. n -> Recs]
        BY <3>3, <4>1, <4>4
      <4> QED
        BY <4>1, <4>5, ListOf
    <3> HIDE DEF as
    <3> QED
      BY <1>1, <1>2, <2>1, <3>1, <3>3, <3>4, RebuildStep
  <2> QED
    BY <2>2, <2>3
<1>5. CASE ClearAppenders(s)
  <2>1. /\ lock[k] = Nobody /\ level' = level /\ formatter' = formatter
        /\ appenders' = [appenders EXCEPT ![k] = <<>>]
    BY <1>5 DEF ClearAppenders, clearAppenders, Unlocked
  <2>2. <<>> \in Seq(Recs) /\ Len(<<>>) = 0
    OBVIOUS
  <2>3. \A i \in 1 .. Len(<<>>) : FileOK((<<>>)[i])
    BY <2>2
  <2> QED
    BY <1>1, <1>2, <2>1, <2>2, <2>3, RebuildStep
<1>6. CASE AddAppender(s)
  <2> DEFINE d == Define(s).appenders[added[s] + 1]
             g == Given(d, formatter[k])
             as == Append(appenders[k], g)
  <2>1. /\ lock[k] = Nobody /\ level' = level /\ formatter' = formatter
        /\ appenders' = [appenders EXCEPT ![k] = as]
    BY <1>6 DEF AddAppender, addAppender, Unlocked, Given
  <2>2. d \in AppenderDefine
    <3>1. Define(s).appenders \in Seq(AppenderDefine) /\ added[s] \in Nat
          /\ added[s] < Len(Define(s).appenders)
      BY <1>1, <1>6, DefineFields DEF AddAppender, Listening, Loop, CInv, Defined, Define
    <3> QED
      BY <3>1
  <2> HIDE DEF d
  <2>3. g \in Recs /\ FileOK(g) /\ appenders[k] \in Seq(Recs)
    BY <1>1, <1>2, <2>2, GivenOK
  <2> HIDE DEF g
  <2>4. /\ as \in Seq(Recs) /\ Len(as) = Len(appenders[k]) + 1
        /\ \A i \in 1 .. Len(as) : IF i <= Len(appenders[k]) THEN as[i] = appenders[k][i] ELSE as[i] = g
    BY <2>3
  <2>5. ASSUME NEW i \in 1 .. Len(as)
        PROVE  FileOK(as[i])
    <3>1. CASE i <= Len(appenders[k])
      <4>1. i \in 1 .. Len(appenders[k]) /\ as[i] = appenders[k][i]
        BY <2>3, <2>4, <3>1
      <4> QED
        BY <1>1, <1>2, <4>1
    <3>2. CASE ~(i <= Len(appenders[k]))
      BY <2>3, <2>4, <3>2
    <3> QED
      BY <3>1, <3>2
  <2> HIDE DEF as
  <2> QED
    BY <1>1, <1>2, <2>1, <2>4, <2>5, RebuildStep
<1> QED
  BY <1>3, <1>4, <1>5, <1>6 DEF Listen

LEMMA NextLInv ==
  ASSUME LInv, CInv, [Next]_vars
  PROVE  LInv' /\ CInv'
<1>1. ASSUME UNCHANGED logVars
      PROVE  LInv'
  BY <1>1 DEF logVars, LInv, LogTypes, Working, FilesOK, FileOK, LinesMisplacedBriefly
<1>2. ASSUME UNCHANGED <<configVars, listenVars>>
      PROVE  CInv'
  BY <1>2 DEF configVars, listenVars, CInv, ConfigTypeOK, Loop, Defined, Define
<1>3. ASSUME NEW s \in Setters, SetterStep(s) \/ \E v \in Values : SetValue(s, v)
      PROVE  LInv' /\ CInv'
  <2>1. CASE Listen(s)
    BY <2>1, ListenLInv, ListenCInv
  <2>2. CASE Listened(s) \/ Assigned(s) \/ \E v \in Values : SetValue(s, v)
    BY <1>1, <2>2, ConfigStepCInv DEF Listened, Assigned, SetValue
  <2> QED
    BY <1>3, <2>1, <2>2 DEF SetterStep
<1>4. ASSUME NEW t \in Threads,
             \/ ThreadStep(t)
             \/ \E l \in Loggers, v \in Levels : MakeEvent(t, l, v) /\ UNCHANGED <<configVars, listenVars>>
      PROVE  LInv' /\ CInv'
  BY <1>2, <1>4, MakeEventStep, TestLevelStep, TakeLockStep, EmitStep, WriteStep DEF ThreadStep, LogStep
<1>5. CASE Environment
  BY <1>2, <1>5, RotateStep, TickStep DEF Environment
<1>6. CASE UNCHANGED vars
  BY <1>1, <1>2, <1>6 DEF vars
<1> QED
  BY <1>3, <1>4, <1>5, <1>6 DEF Next

LEMMA LogInvariant == Spec => [](LInv /\ CInv)
<1>1. Init => LInv /\ CInv
  BY InitLInv, InitCInv
<1>2. LInv /\ CInv /\ [Next]_vars => LInv' /\ CInv'
  BY NextLInv
<1> QED
  BY <1>1, <1>2, PTL DEF Spec

LEMMA TypesOK ==
  ASSUME LInv, CInv
  PROVE  TypeOK
<1>1. \A l \in Loggers : \A i \in 1 .. Len(appenders[l]) : AppenderOK(appenders[l][i])
  <2> SUFFICES ASSUME NEW l \in Loggers, NEW i \in 1 .. Len(appenders[l])
               PROVE  AppenderOK(appenders[l][i])
    OBVIOUS
  <2>1. appenders[l] \in Seq(Recs)
    BY DEF LInv, LogTypes
  <2>2. appenders[l][i] \in Recs /\ FileOK(appenders[l][i])
    BY <2>1 DEF LInv, FilesOK
  <2>3. now \in Nat /\ now <= MaxClock /\ current \in Nat
    BY LogAssumption DEF LInv, LogTypes
  <2>4. \A a \in Recs : FileOK(a) => AppenderOK(a)
    BY <2>3, LogAssumption DEF Recs, FileOK, AppenderOK
  <2> QED
    BY <2>2, <2>4
<1>2. \A t \in Threads : event[t] \in Event /\ at[t] \in Loggers /\ todo[t] \in 0 .. Len(appenders[at[t]])
  <2> SUFFICES ASSUME NEW t \in Threads
               PROVE  event[t] \in Event /\ at[t] \in Loggers /\ todo[t] \in 0 .. Len(appenders[at[t]])
    OBVIOUS
  <2>1. event[t] \in Event /\ at[t] \in Loggers /\ Working(t) /\ todo[t] \in Nat
    BY DEF LInv, LogTypes
  <2>2. appenders[at[t]] \in Seq(Recs)
    BY <2>1 DEF LInv, LogTypes
  <2>3. Len(appenders[at[t]]) \in Nat
    BY <2>2
  <2>4. todo[t] = 0 \/ todo[t] \in 1 .. Len(appenders[at[t]])
    BY <2>1 DEF Working
  <2> QED
    BY <2>1, <2>3, <2>4
<1>3. LogTypeOK
  BY <1>1, <1>2 DEF LInv, LogTypes, LogTypeOK
<1> QED
  BY <1>3 DEF CInv, TypeOK

(* Every variable stays in its set.                                             *)
THEOREM LogConfTypeCorrect == Spec => []TypeOK
<1>1. LInv /\ CInv => TypeOK
  BY TypesOK
<1> QED
  BY <1>1, LogInvariant, PTL

(* A line that lands in a file already renamed or deleted was logged less than  *)
(* Period after that.  FileLogAppender::log opens the file again before it      *)
(* writes when Period has passed since the last opening, and the logger's lock  *)
(* keeps the appender as it is between the test and the write.                  *)
THEOREM MisplacedBriefly == Spec => []LinesMisplacedBriefly
<1>1. LInv => LinesMisplacedBriefly
  BY DEF LInv
<1> QED
  BY <1>1, LogInvariant, PTL

-----------------------------------------------------------------------------
(* No event is lost, as long as no value redefines the root logger: it keeps    *)
(* its level DEBUG and its appender, and the level of an appender is never      *)
(* above DEBUG, whatever its definition says.                                   *)
KeepsRoot == \A v \in Values : Root \notin DOMAIN v

LowLevels == \A l \in Loggers : \A i \in 1 .. Len(appenders[l]) : appenders[l][i].level \in {0, 1}

(* The listener stays away from the root logger.                                *)
Elsewhere(s) == left[s] \subseteq Names /\ (step[s] # "next" => it[s] \in Names)

VInv ==
  /\ level[Root] = 1 /\ appenders[Root] # <<>> /\ LowLevels
  /\ \A t \in Threads : at[t] \in {event[t].logger, Root}
  /\ vanished = {}
  /\ \A s \in Setters : Elsewhere(s)

LEMMA InitVInv == Init => VInv
<1> SUFFICES ASSUME Init
             PROVE  VInv
  OBVIOUS
<1>1. PICK fmt \in Formats : LogInit(fmt)
  BY LogAssumption DEF Init
<1>2. Root \in Loggers
  BY DEF Loggers
<1>3. PICK r : r = Appender("stdout", 1, FALSE, fmt)
  OBVIOUS
<1>4. r.level = 1
  BY <1>3 DEF Appender
<1>5. appenders = [l \in Loggers |-> IF l = Root THEN <<r>> ELSE <<>>]
  BY <1>1, <1>3 DEF LogInit
<1>6. appenders[Root] # <<>> /\ LowLevels
  BY <1>2, <1>4, <1>5 DEF LowLevels
<1> QED
  BY <1>1, <1>2, <1>6 DEF Init, LogInit, VInv, Elsewhere

(* A list that a logger is given.                                               *)
LEMMA LowStep ==
  ASSUME LInv, LowLevels, NEW k \in Loggers, NEW as, appenders' = [appenders EXCEPT ![k] = as],
         \A i \in 1 .. Len(as) : as[i].level \in {0, 1}
  PROVE  LowLevels'
<1>1. appenders'[k] = as /\ \A l \in Loggers \ {k} : appenders'[l] = appenders[l]
  BY DEF LInv, LogTypes
<1> QED
  BY <1>1 DEF LowLevels

LEMMA ListenVInv ==
  ASSUME LInv, CInv, VInv, NEW s \in Setters, Listen(s)
  PROVE  VInv'
<1> DEFINE k == it[s]
<1>1. /\ setting[s] = "notify" /\ new[s] \in Values /\ k \in Loggers /\ Loop(s)
      /\ UNCHANGED <<configVars, lock, fileVars, threadVars>>
      /\ Root \in Loggers /\ Root \notin Names
  BY LogAssumption
     DEF Listen, Visit, SetFormatter, ClearAppenders, AddAppender, Listening, CInv, ConfigTypeOK, Loggers
<1>2. /\ level \in [Loggers -> Levels \cup {0}] /\ formatter \in [Loggers -> Formats]
      /\ appenders \in [Loggers -> Seq(Recs)] /\ LowLevels
  BY DEF LInv, LogTypes, VInv
<1>3. vanished' = {} /\ \A t \in Threads : at'[t] \in {event'[t].logger, Root}
  BY <1>1 DEF VInv, threadVars
<1>4. ASSUME NEW l \in Loggers, Visit(s, l)
      PROVE  VInv'
  <2>1. l \in Names /\ l # Root /\ level'[Root] = level[Root] /\ UNCHANGED appenders
    BY <1>1, <1>2, <1>4 DEF Visit, setLevel, VInv, Elsewhere
  <2>2. \A r \in Setters : Elsewhere(r)'
    BY <1>4, <2>1 DEF Visit, CInv, VInv, Elsewhere
  <2> QED
    BY <1>3, <2>1, <2>2 DEF VInv, LowLevels
<1>5. CASE SetFormatter(s)
  <2>1. k \in Names /\ k # Root /\ level' = level /\ \A r \in Setters : Elsewhere(r)'
    BY <1>1, <1>5 DEF SetFormatter, setFormatter, Listening, CInv, VInv, Elsewhere
  <2>2. CASE Define(s).formatter = BadFormat
    BY <1>3, <1>5, <2>1, <2>2 DEF SetFormatter, setFormatter, VInv, LowLevels
  <2>3. CASE Define(s).formatter # BadFormat
    <3>1. Define(s).formatter \in Formats
      BY <1>1, <1>5, <2>3, DefineFields DEF SetFormatter, Listening, Loop, Defined, Define
    <3>2. PICK fmt \in Formats : fmt = Define(s).formatter
      BY <3>1
    <3>3. PICK o \in Seq(Recs) : o = appenders[k]
      BY <1>1, <1>2
    <3>4. PICK as : as = [i \in DOMAIN o |-> IF o[i].own THEN o[i] ELSE [o[i] EXCEPT !.formatter = fmt]]
      OBVIOUS
    <3>5. appenders' = [appenders EXCEPT ![k] = as]
      BY <1>1, <1>2, <1>5, <2>3, <3>2, <3>3, <3>4 DEF SetFormatter, setFormatter
    <3>6. DOMAIN as = 1 .. Len(o) /\ Len(o) \in Nat
      BY <3>3, <3>4
    <3>7. Len(as) = Len(o)
      <4>1. \A i \in 1 .. Len(o) : as[i] \in Recs
        BY <3>3, <3>4, FormattedOK
      <4>2. as = [i \in 1 .. Len(o) |-> as[i]]
        BY <3>4, <3>6
      <4>3. as \in [1 .. Len(o) -> Recs]
        BY <4>1, <4>2
      <4> QED
        BY <3>6, <4>3, ListOf
    <3>8. ASSUME NEW i \in 1 .. Len(as)
          PROVE  as[i].level \in {0, 1}
      <4>1. i \in DOMAIN o /\ o[i] \in Recs /\ o[i].level \in {0, 1}
        BY <1>1, <1>2, <3>3, <3>6, <3>7 DEF LowLevels
      <4>2. as[i] = o[i] \/ as[i] = [o[i] EXCEPT !.formatter = fmt]
        BY <3>4, <4>1
      <4>3. \A a \in Recs : [a EXCEPT !.formatter = fmt].level = a.level
        BY FormattedOK
      <4> QED
        BY <4>1, <4>2, <4>3
    <3>9. LowLevels'
      BY <1>1, <1>2, <3>5, <3>8, LowStep
    <3>10. appenders'[Root] = appenders[Root]
      BY <1>1, <1>2, <2>1, <3>5
    <3> QED
      BY <1>3, <2>1, <3>9, <3>10 DEF VInv
  <2> QED
    BY <2>2, <2>3
<1>6. CASE ClearAppenders(s)
  <2>1. /\ k \in Names /\ k # Root /\ level' = level /\ appenders' = [appenders EXCEPT ![k] = <<>>]
        /\ \A r \in Setters : Elsewhere(r)'
    BY <1>1, <1>6 DEF ClearAppenders, clearAppenders, Listening, Added, CInv, VInv, Elsewhere
  <2>2. PICK as : as = <<>>
    OBVIOUS
  <2>3. \A i \in 1 .. Len(as) : as[i].level \in {0, 1}
    BY <2>2
  <2>4. LowLevels'
    BY <1>1, <1>2, <2>1, <2>2, <2>3, LowStep
  <2>5. appenders'[Root] = appenders[Root]
    BY <1>1, <1>2, <2>1
  <2> QED
    BY <1>3, <2>1, <2>4, <2>5 DEF VInv
<1>7. CASE AddAppender(s)
  <2> DEFINE d == Define(s).appenders[added[s] + 1]
  <2>1. /\ k \in Names /\ k # Root /\ level' = level
        /\ \A r \in Setters : Elsewhere(r)'
    BY <1>1, <1>7 DEF AddAppender, addAppender, Listening, Added, CInv, VInv, Elsewhere
  <2>2. PICK g : g = Given(d, formatter[k])
    OBVIOUS
  <2>3. appenders' = [appenders EXCEPT ![k] = Append(appenders[k], g)]
    BY <1>7, <2>2 DEF AddAppender, addAppender, Given
  <2>4. d \in AppenderDefine
    <3>1. Define(s).appenders \in Seq(AppenderDefine) /\ added[s] \in Nat
          /\ added[s] < Len(Define(s).appenders)
      BY <1>1, <1>7, DefineFields DEF AddAppender, Listening, Loop, CInv, Defined, Define
    <3> QED
      BY <3>1
  <2> HIDE DEF d
  <2>5. g \in Recs /\ g.level = 0
    BY <1>1, <1>2, <2>2, <2>4, GivenOK
  <2>6. PICK o \in Seq(Recs) : o = appenders[k]
    BY <1>1, <1>2
  <2>7. PICK as : as = Append(o, g)
    OBVIOUS
  <2>8. /\ Len(as) = Len(o) + 1
        /\ \A i \in 1 .. Len(as) : (i \in 1 .. Len(o) /\ as[i] = o[i]) \/ as[i] = g
    BY <2>5, <2>6, <2>7
  <2>9. \A i \in 1 .. Len(as) : as[i].level \in {0, 1}
    BY <1>1, <1>2, <2>5, <2>6, <2>8 DEF LowLevels
  <2>10. LowLevels'
    BY <1>1, <1>2, <2>3, <2>6, <2>7, <2>9, LowStep
  <2>11. appenders'[Root] = appenders[Root]
    BY <1>1, <1>2, <2>1, <2>3
  <2> QED
    BY <1>3, <2>1, <2>10, <2>11 DEF VInv
<1> QED
  BY <1>4, <1>5, <1>6, <1>7 DEF Listen

(* The threads: an event is refused only by its own logger, and by no appender. *)
LEMMA EventLevel ==
  ASSUME LInv, NEW t \in Threads
  PROVE  event[t].level \in Nat \ {0} /\ event[t].level >= 1 /\ at[t] \in Loggers /\ Root \in Loggers
<1>1. event[t] \in Event /\ at[t] \in Loggers
  BY DEF LInv, LogTypes
<1>2. event[t].level \in Levels
  BY <1>1 DEF Event
<1>3. event[t].level \in Nat \ {0}
  BY <1>2, LogAssumption
<1> QED
  BY <1>1, <1>3 DEF Loggers

LEMMA LeaveAt ==
  ASSUME LInv, VInv, NEW t \in Threads, Leave(t)
  PROVE  \A u \in Threads : at'[u] \in {event'[u].logger, Root}
<1>1. at' = [at EXCEPT ![t] = Root] /\ event' = [event EXCEPT ![t] = NoEvent]
  BY DEF Leave
<1>2. at'[t] = Root /\ \A u \in Threads \ {t} : at'[u] = at[u] /\ event'[u] = event[u]
  BY <1>1 DEF LInv, LogTypes
<1> QED
  BY <1>2 DEF VInv

LEMMA NextAppenderVInv ==
  ASSUME LInv, VInv, NEW t \in Threads, NEW got, got # {}, NextAppender(t, got)
  PROVE  vanished' = {} /\ \A u \in Threads : at'[u] \in {event'[u].logger, Root}
<1>1. CASE todo[t] < Len(appenders[at[t]])
  BY <1>1 DEF NextAppender, VInv
<1>2. CASE ~(todo[t] < Len(appenders[at[t]]))
  <2>1. Leave(t) /\ vanished' = vanished
    BY <1>2 DEF NextAppender, Finish
  <2> QED
    BY <2>1, LeaveAt DEF VInv
<1> QED
  BY <1>1, <1>2

LEMMA LogStepVInv ==
  ASSUME LInv, VInv, NEW t \in Threads, LogStep(t), UNCHANGED listenVars
  PROVE  VInv'
<1>1. /\ level[Root] = 1 /\ appenders[Root] # <<>> /\ vanished = {} /\ Root \in Loggers
      /\ event[t].level \in Nat /\ event[t].level >= 1 /\ at[t] \in {event[t].logger, Root}
  BY EventLevel DEF VInv
<1>2. \A s \in Setters : Elsewhere(s)'
  BY DEF VInv, Elsewhere, listenVars
<1>3. ASSUME level' = level, appenders' = appenders, vanished' = {},
             \A u \in Threads : at'[u] \in {event'[u].logger, Root}
      PROVE  VInv'
  BY <1>2, <1>3 DEF VInv, LowLevels
<1>4. CASE TestLevel(t)
  <2>1. \/ UNCHANGED <<at, event, vanished>>
        \/ Leave(t) /\ UNCHANGED vanished
        \/ at[t] # event[t].logger /\ ~(event[t].level >= level[at[t]])
    BY <1>4 DEF TestLevel
  <2>2. ~(at[t] # event[t].logger /\ ~(event[t].level >= level[at[t]]))
    BY <1>1
  <2>3. \A u \in Threads : at'[u] \in {event'[u].logger, Root}
    BY <2>1, <2>2, LeaveAt DEF VInv
  <2> QED
    BY <1>1, <1>3, <1>4, <2>1, <2>2, <2>3 DEF TestLevel
<1>5. CASE TakeLock(t)
  <2>1. /\ event' = event /\ vanished' = vanished
        /\ at' = at \/ at' = [at EXCEPT ![t] = Root]
    BY <1>1, <1>5 DEF TakeLock
  <2>2. \A u \in Threads : at'[u] \in {event'[u].logger, Root}
    BY <2>1 DEF VInv, LInv, LogTypes
  <2> QED
    BY <1>1, <1>3, <1>5, <2>1, <2>2 DEF TakeLock
<1>6. CASE Emit(t)
  <2>1. PICK l \in Loggers, k \in Nat : l = at[t] /\ k = todo[t]
    BY EventLevel DEF LInv, LogTypes
  <2>2. /\ k \in 1 .. Len(appenders[l]) /\ pc[t] = "emit" /\ appenders[l] \in Seq(Recs)
        /\ appenders \in [Loggers -> Seq(Recs)]
    BY <1>6, <2>1 DEF Emit, LInv, LogTypes, Working
  <2>3. PICK a \in Recs : a = appenders[l][k]
    BY <2>2
  <2>4. a.level \in {0, 1}
    BY <2>1, <2>2, <2>3 DEF VInv, LowLevels
  <2>5. ~(event[t].level < a.level)
    BY <1>1, <2>4
  <2>6. UNCHANGED <<at, event, vanished, level>>
    BY <1>6, <2>1, <2>3, <2>5 DEF Emit
  <2>7. \/ appenders' = appenders
        \/ appenders' = [appenders EXCEPT ![l][k] = [@ EXCEPT !.last = event[t].time, !.stream = current]]
    BY <1>6, <2>1, <2>3, <2>5 DEF Emit
  <2>8. CASE appenders' = appenders
    BY <1>1, <1>3, <2>6, <2>8 DEF VInv
  <2>9. CASE appenders' = [appenders EXCEPT ![l][k] = [@ EXCEPT !.last = event[t].time, !.stream = current]]
    <3>1. PICK p : p = [a EXCEPT !.last = event[t].time, !.stream = current]
      OBVIOUS
    <3>2. p.level = a.level
      BY <3>1 DEF Recs
    <3>3. PICK o \in Seq(Recs) : o = appenders[l]
      BY <2>2
    <3>4. PICK as : as = [o EXCEPT ![k] = p]
      OBVIOUS
    <3>5. appenders' = [appenders EXCEPT ![l] = as]
      BY <2>2, <2>3, <2>9, <3>1, <3>3, <3>4
    <3>6. Len(as) = Len(o) /\ \A i \in 1 .. Len(o) : as[i] = IF i = k THEN p ELSE o[i]
      BY <3>3, <3>4
    <3>7. \A i \in 1 .. Len(as) : as[i].level \in {0, 1}
      BY <2>1, <2>4, <3>2, <3>3, <3>6 DEF VInv, LowLevels
    <3>8. LowLevels'
      BY <3>5, <3>7, LowStep DEF VInv
    <3>9. appenders'[Root] # <<>>
      <4>1. CASE l = Root
        <5>1. appenders'[Root] = as
          BY <1>1, <2>2, <3>5, <4>1
        <5>2. as # <<>>
          <6>1. Len(o) \in Nat /\ Len(o) >= 1 /\ Len(as) = Len(o)
            BY <2>2, <3>3, <3>6
          <6>2. Len(as) # 0
            BY <6>1
          <6>3. Len(<<>>) = 0
            OBVIOUS
          <6> QED
            BY <6>2, <6>3, Zenon
        <5> QED
          BY <5>1, <5>2
      <4>2. CASE l # Root
        BY <1>1, <2>2, <3>5, <4>2
      <4> QED
        BY <4>1, <4>2
    <3> QED
      BY <1>1, <1>2, <2>6, <3>8, <3>9 DEF VInv
  <2> QED
    BY <2>7, <2>8, <2>9
<1>7. CASE Write(t)
  <2>1. PICK got : got # {} /\ NextAppender(t, got)
    BY <1>7 DEF Write
  <2>2. vanished' = {} /\ \A u \in Threads : at'[u] \in {event'[u].logger, Root}
    BY <2>1, NextAppenderVInv
  <2> QED
    BY <1>3, <1>7, <2>2 DEF Write
<1> QED
  BY <1>4, <1>5, <1>6, <1>7 DEF LogStep

LEMMA NextVInv ==
  ASSUME KeepsRoot, LInv, CInv, VInv, [Next]_vars
  PROVE  VInv'
<1>1. ASSUME UNCHANGED <<level, appenders, listenVars>>, vanished' = vanished,
             \A t \in Threads : at'[t] \in {event'[t].logger, Root}
      PROVE  VInv'
  BY <1>1 DEF VInv, LowLevels, Elsewhere, listenVars
<1>2. ASSUME NEW s \in Setters, SetterStep(s)
      PROVE  VInv'
  <2>1. CASE Listen(s)
    BY <2>1, ListenVInv
  <2>2. CASE Listened(s) \/ Assigned(s)
    <3>1. UNCHANGED <<logVars, listenVars>>
      BY <2>2 DEF Listened, Assigned
    <3> QED
      BY <1>1, <3>1 DEF VInv, logVars
  <2> QED
    BY <1>2, <2>1, <2>2 DEF SetterStep
<1>3. ASSUME NEW s \in Setters, NEW v \in Values, SetValue(s, v)
      PROVE  VInv'
  <2>1. m_val \in Values /\ Changed(m_val, v) \cup Gone(m_val, v) \subseteq Names
    <3>1. m_val \in Values /\ \A w \in Values : DOMAIN w \subseteq Names
      BY LogConfAssumption DEF KeepsRoot, ValueOK, Loggers, CInv, ConfigTypeOK
    <3> QED
      BY <3>1 DEF Changed, Gone
  <2>2. \A r \in Setters : Elsewhere(r)'
    BY <1>3, <2>1 DEF SetValue, CInv, VInv, Elsewhere
  <2> QED
    BY <1>3, <2>2 DEF SetValue, logVars, VInv, LowLevels
<1>4. ASSUME NEW t \in Threads, ThreadStep(t)
      PROVE  VInv'
  BY <1>4, LogStepVInv DEF ThreadStep
<1>5. ASSUME NEW t \in Threads, NEW l \in Loggers, NEW v \in Levels,
             MakeEvent(t, l, v), UNCHANGED <<configVars, listenVars>>
      PROVE  VInv'
  <2>1. \A u \in Threads : at'[u] \in {event'[u].logger, Root}
    BY <1>5 DEF MakeEvent, VInv, LInv, LogTypes
  <2> QED
    BY <1>1, <1>5, <2>1 DEF MakeEvent
<1>6. CASE Environment
  BY <1>1, <1>6 DEF Environment, Rotate, Tick, threadVars, VInv
<1>7. CASE UNCHANGED vars
  BY <1>1, <1>7 DEF vars, logVars, listenVars, VInv
<1> QED
  BY <1>2, <1>3, <1>4, <1>5, <1>6, <1>7 DEF Next

(* No event is lost while the listener rebuilds a logger: an event that the     *)
(* logger's level lets pass reaches an appender of it or of the root logger.    *)
(* Logger::log forwards to the root logger under its own lock when it has no    *)
(* appenders, which is why clearAppenders and addAppender need not be one step. *)
(* The values must leave the root logger alone: one that redefines it takes its *)
(* appenders away for a moment, or raises its level above a forwarded event's.  *)
THEOREM NoEventVanishes ==
  ASSUME KeepsRoot
  PROVE  Spec => []NothingVanishes
<1>1. Init => VInv
  BY InitVInv
<1>2. LInv /\ CInv /\ VInv /\ [Next]_vars => VInv'
  BY NextVInv
<1>3. VInv => NothingVanishes
  BY DEF VInv, NothingVanishes
<1> QED
  BY <1>1, <1>2, <1>3, LogInvariant, PTL DEF Spec

-----------------------------------------------------------------------------
(* The loggers follow the configuration.  A logger the listener has come past   *)
(* agrees with the new value, one it will not come to agreed with the old value *)
(* and is defined alike in both; the one it is at agrees as far as it got.      *)
Matches(a, b, fmt) ==
  a.kind = b.kind /\ a.formatter = IF b.formatter \in Formats THEN b.formatter ELSE fmt

(* The loggers the listener has still to bring in line with the new value.      *)
Pending(s) == left[s] \cup (IF step[s] = "next" THEN {} ELSE {it[s]})

Rest(s) ==
  /\ \A l \in DOMAIN new[s] \ Pending(s) : Follows(l, new[s][l])
  /\ \A l \in Names \ (DOMAIN new[s] \cup Pending(s)) : appenders[l] = <<>>

(* How far the logger is that the listener is at.                               *)
AtWork(s) ==
  /\ it[s] \notin left[s]
  /\ Defined(s) =>
       /\ level[it[s]] = Define(s).level
       /\ step[s] \in {"clear", "add"} /\ Define(s).formatter \in Formats =>
            formatter[it[s]] = Define(s).formatter
       /\ step[s] = "add" =>
            /\ Len(appenders[it[s]]) = added[s]
            /\ \A i \in 1 .. added[s] :
                 Matches(appenders[it[s]][i], Define(s).appenders[i], formatter[it[s]])

Progress(s) ==
  /\ setting[s] = "assign" => Agree(new[s])
  /\ setting[s] = "notify" => Rest(s) /\ (step[s] # "next" => AtWork(s))

AInv ==
  ~overlapped =>
    /\ \A r, s \in Setting : r = s
    /\ Setting = {} => Agree(m_val)
    /\ \A s \in Setters : Progress(s)

(* What logging changes of an appender is not configured.                       *)
Same(l) ==
  /\ level'[l] = level[l] /\ formatter'[l] = formatter[l]
  /\ Len(appenders'[l]) = Len(appenders[l])
  /\ \A i \in 1 .. Len(appenders[l]) : /\ appenders'[l][i].kind = appenders[l][i].kind
                                       /\ appenders'[l][i].formatter = appenders[l][i].formatter

LEMMA SameFollows ==
  ASSUME LogTypes, LogTypes', NEW l \in Loggers, Same(l)
  PROVE  /\ \A d \in LogDefine : Follows(l, d) => Follows(l, d)'
         /\ appenders[l] = <<>> => appenders'[l] = <<>>
<1>1. appenders[l] \in Seq(Recs) /\ appenders'[l] \in Seq(Recs)
  BY DEF LogTypes
<1>2. ASSUME NEW d \in LogDefine, Follows(l, d)
      PROVE  Follows(l, d)'
  <2>1. DOMAIN d.appenders = 1 .. Len(d.appenders)
    BY DEF LogDefine
  <2>2. DOMAIN d.appenders = 1 .. Len(appenders[l])
    BY <1>2, <2>1 DEF Follows
  <2> QED
    BY <1>2, <2>2 DEF Follows, Same
<1>3. appenders[l] = <<>> => appenders'[l] = <<>>
  <2>1. appenders[l] = <<>> => Len(appenders'[l]) = 0
    BY DEF Same
  <2> QED
    BY <1>1, <2>1
<1> QED
  BY <1>2, <1>3

LEMMA SameAgree ==
  ASSUME LogTypes, LogTypes', NEW v \in Values, \A l \in Loggers : Same(l), Agree(v)
  PROVE  Agree(v)'
<1>1. \A l \in DOMAIN v : l \in Loggers /\ v[l] \in LogDefine
  BY LogConfAssumption DEF ValueOK
<1>2. Names \subseteq Loggers
  BY DEF Loggers
<1>3. \A l \in Loggers : /\ \A d \in LogDefine : Follows(l, d) => Follows(l, d)'
                         /\ appenders[l] = <<>> => appenders'[l] = <<>>
  BY SameFollows
<1> QED
  BY <1>1, <1>2, <1>3 DEF Agree

LEMMA SameAInv ==
  ASSUME LogTypes, LogTypes', CInv, AInv, \A l \in Loggers : Same(l),
         UNCHANGED <<configVars, listenVars>>
  PROVE  AInv'
<1>1. UNCHANGED <<m_val, setting, new, overlapped, left, it, step, added>> /\ Setting' = Setting
  BY DEF configVars, listenVars, Setting
<1>2. CASE overlapped
  BY <1>1, <1>2 DEF AInv
<1>3. CASE ~overlapped
  <2>1. Setting' = {} => Agree(m_val)'
    BY <1>1, <1>3, SameAgree DEF AInv, CInv, ConfigTypeOK
  <2>2. ASSUME NEW s \in Setters
        PROVE  Progress(s)'
    <3>1. PICK v \in Values : v = new[s]
      BY DEF CInv, ConfigTypeOK
    <3>2. PICK k \in Loggers : k = it[s]
      BY DEF CInv
    <3>3. Progress(s) /\ Loop(s)
      BY <1>3 DEF AInv, CInv
    <3>4. (setting[s] = "assign" => Agree(new[s]))'
      BY <1>1, <3>1, <3>3, SameAgree DEF Progress
    <3>5. ASSUME setting[s] = "notify"
          PROVE  Rest(s)'
      <4>1. Pending(s)' = Pending(s) /\ Rest(s)
        BY <1>1, <3>3, <3>5 DEF Pending, Progress
      <4>2. \A l \in DOMAIN v : l \in Loggers /\ v[l] \in LogDefine
        BY LogConfAssumption DEF ValueOK
      <4>3. \A l \in Loggers : /\ \A d \in LogDefine : Follows(l, d) => Follows(l, d)'
                               /\ appenders[l] = <<>> => appenders'[l] = <<>>
        BY SameFollows
      <4>4. ASSUME NEW l \in DOMAIN v \ Pending(s)
            PROVE  Follows(l, v[l])'
        BY <3>1, <4>1, <4>2, <4>3 DEF Rest
      <4>5. \A l \in Names \ (DOMAIN v \cup Pending(s)) : appenders'[l] = <<>>
        BY <3>1, <4>1, <4>3 DEF Rest, Loggers
      <4> QED
        BY <1>1, <3>1, <4>1, <4>4, <4>5 DEF Rest
    <3>6. ASSUME setting[s] = "notify", step[s] # "next"
          PROVE  AtWork(s)'
      <4>1. AtWork(s) /\ Same(k)
        BY <3>3, <3>6 DEF Progress
      <4> QED
        BY <1>1, <3>1, <3>2, <4>1 DEF AtWork, Defined, Define, Same, Matches
    <3> QED
      BY <1>1, <3>4, <3>5, <3>6 DEF Progress
  <2> QED
    BY <1>1, <1>3, <2>1, <2>2 DEF AInv
<1> QED
  BY <1>2, <1>3

LEMMA ThreadSame ==
  ASSUME LInv, LInv', NEW t \in Threads, LogStep(t)
  PROVE  \A l \in Loggers : Same(l)
<1>1. UNCHANGED <<level, formatter>>
  BY DEF LogStep, TestLevel, TakeLock, Emit, Write
<1>2. CASE appenders' = appenders
  BY <1>1, <1>2 DEF Same
<1>3. CASE appenders' # appenders
  <2>1. PICK l \in Loggers, k \in Nat : l = at[t] /\ k = todo[t]
    BY EventLevel DEF LInv, LogTypes
  <2>2. Emit(t) /\ pc[t] = "emit"
    BY <1>3 DEF LogStep, TestLevel, TakeLock, Emit, Write
  <2>3. /\ k \in 1 .. Len(appenders[l]) /\ appenders[l] \in Seq(Recs)
        /\ appenders \in [Loggers -> Seq(Recs)]
    BY <2>1, <2>2 DEF LInv, LogTypes, Working
  <2>4. PICK a \in Recs : a = appenders[l][k]
    BY <2>3
  <2>5. appenders' = [appenders EXCEPT ![l][k] = [@ EXCEPT !.last = event[t].time, !.stream = current]]
    BY <1>3, <2>1, <2>2, <2>4 DEF Emit
  <2>6. PICK p : p = [a EXCEPT !.last = event[t].time, !.stream = current]
    OBVIOUS
  <2>7. p.kind = a.kind /\ p.formatter = a.formatter
    BY <2>6 DEF Recs
  <2>8. PICK o \in Seq(Recs) : o = appenders[l]
    BY <2>3
  <2>9. PICK as : as = [o EXCEPT ![k] = p]
    OBVIOUS
  <2>10. Len(as) = Len(o) /\ \A i \in 1 .. Len(o) : as[i] = IF i = k THEN p ELSE o[i]
    BY <2>8, <2>9
  <2>11. appenders' = [appenders EXCEPT ![l] = as]
    BY <2>3, <2>4, <2>5, <2>6, <2>8, <2>9
  <2>12. appenders'[l] = as /\ \A j \in Loggers \ {l} : appenders'[j] = appenders[j]
    BY <2>3, <2>11
  <2>13. Same(l)
    BY <1>1, <2>4, <2>7, <2>8, <2>10, <2>12 DEF Same
  <2>14. \A j \in Loggers \ {l} : Same(j)
    BY <1>1, <2>12 DEF Same
  <2> QED
    BY <2>13, <2>14
<1> QED
  BY <1>2, <1>3

(* A step of the listener concerns the one setter there is.                     *)
LEMMA AloneAInv ==
  ASSUME CInv, AInv, ~overlapped, NEW s \in Setters, setting[s] = "notify",
         UNCHANGED configVars, Progress(s)'
  PROVE  AInv'
<1>1. UNCHANGED <<m_val, setting, new, overlapped>> /\ Setting' = Setting /\ s \in Setting
  BY DEF configVars, Setting
<1>2. \A r \in Setters \ {s} : setting[r] = "idle"
  BY <1>1 DEF AInv, Setting
<1>3. \A r \in Setters \ {s} : Progress(r)'
  BY <1>1, <1>2 DEF Progress
<1> QED
  BY <1>1, <1>3 DEF AInv

(* The logger the listener is at changes, and no other.                         *)
LEMMA OthersRest ==
  ASSUME CInv, NEW s \in Setters, Rest(s), new' = new, Pending(s) \subseteq Pending(s)',
         \A l \in Loggers \ Pending(s) :
            level'[l] = level[l] /\ formatter'[l] = formatter[l] /\ appenders'[l] = appenders[l]
  PROVE  Rest(s)'
<1>1. PICK v \in Values : v = new[s]
  BY DEF CInv, ConfigTypeOK
<1>2. \A l \in DOMAIN v : l \in Loggers
  BY LogConfAssumption DEF ValueOK
<1>3. ASSUME NEW l \in DOMAIN v \ Pending(s)
      PROVE  Follows(l, v[l])'
  <2>1. Follows(l, v[l])
    BY <1>1 DEF Rest
  <2> QED
    BY <1>2, <2>1 DEF Follows
<1>4. \A l \in Names \ (DOMAIN v \cup Pending(s)) : appenders'[l] = <<>>
  BY <1>1 DEF Rest, Loggers
<1> QED
  BY <1>1, <1>3, <1>4 DEF Rest

LEMMA VisitAInv ==
  ASSUME LInv, CInv, AInv, ~overlapped, NEW s \in Setters, NEW l \in Loggers, Visit(s, l),
         UNCHANGED configVars
  PROVE  AInv'
<1>1. /\ setting[s] = "notify" /\ step[s] = "next" /\ new' = new /\ setting' = setting
      /\ Rest(s) /\ l \in left[s]
  BY DEF Visit, Listening, AInv, Progress, configVars
<1>2. /\ left'[s] = left[s] \ {l} /\ it'[s] = l /\ step'[s] \in {"formatter", "clear"}
      /\ UNCHANGED <<formatter, appenders>>
      /\ level' = [level EXCEPT ![l] = IF l \in DOMAIN new[s] THEN new[s][l].level ELSE 0]
      /\ step'[s] = "clear" => l \notin DOMAIN new[s] \/ new[s][l].formatter = NoFormat
  BY DEF Visit, setLevel, CInv
<1>3. Pending(s)' = Pending(s)
  BY <1>1, <1>2 DEF Pending
<1>4. Rest(s)'
  <2>1. \A k \in Loggers \ Pending(s) : level'[k] = level[k]
    BY <1>1, <1>2 DEF Pending, LInv, LogTypes
  <2> QED
    BY <1>1, <1>2, <1>3, <2>1, OthersRest
<1>5. AtWork(s)'
  <2>1. level'[l] = IF l \in DOMAIN new[s] THEN new[s][l].level ELSE 0
    BY <1>2 DEF LInv, LogTypes
  <2> QED
    BY <1>1, <1>2, <2>1, LogAssumption DEF AtWork, Defined, Define
<1> QED
  BY <1>1, <1>4, <1>5, AloneAInv DEF Progress

LEMMA SetFormatterAInv ==
  ASSUME LInv, CInv, AInv, ~overlapped, NEW s \in Setters, SetFormatter(s), UNCHANGED configVars
  PROVE  AInv'
<1>1. /\ setting[s] = "notify" /\ step[s] = "formatter" /\ new' = new /\ setting' = setting
      /\ Rest(s) /\ AtWork(s) /\ Loop(s)
  BY DEF SetFormatter, Listening, AInv, CInv, Progress, configVars
<1>2. PICK k \in Loggers : k = it[s]
  BY DEF CInv
<1>3. left'[s] = left[s] /\ it'[s] = k /\ step'[s] = "clear" /\ level' = level
  BY <1>2 DEF SetFormatter, setFormatter, CInv
<1>4. Pending(s)' = Pending(s) /\ k \in Pending(s)
  BY <1>1, <1>2, <1>3 DEF Pending
<1>5. PICK d \in LogDefine : d = new[s][k] /\ k \in DOMAIN new[s]
  BY <1>1, <1>2, LogConfAssumption DEF Loop, Defined, ValueOK, CInv, ConfigTypeOK
<1>6. \/ d.formatter = BadFormat /\ UNCHANGED <<formatter, appenders>>
      \/ /\ d.formatter # BadFormat /\ formatter' = [formatter EXCEPT ![k] = d.formatter]
         /\ \A l \in Loggers \ {k} : appenders'[l] = appenders[l]
  BY <1>2, <1>5 DEF SetFormatter, setFormatter, Define, LInv, LogTypes
<1>7. \A l \in Loggers \ {k} : formatter'[l] = formatter[l] /\ appenders'[l] = appenders[l]
  BY <1>6 DEF LInv, LogTypes
<1>8. d.formatter \in Formats => formatter'[k] = d.formatter
  BY <1>6, LogAssumption DEF LInv, LogTypes
<1>9. Rest(s)'
  BY <1>1, <1>3, <1>4, <1>7, OthersRest
<1>10. AtWork(s)'
  BY <1>1, <1>2, <1>3, <1>5, <1>8 DEF AtWork, Defined, Define
<1> QED
  BY <1>1, <1>9, <1>10, AloneAInv DEF Progress

(* n appenders are there: the logger is done, or it is as far as n.             *)
LEMMA AddedAInv ==
  ASSUME LInv, CInv, AInv, ~overlapped, NEW s \in Setters, setting[s] = "notify",
         step[s] \in {"clear", "add"}, NEW n \in Nat, Added(s, n),
         NEW as \in Seq(Recs), appenders' = [appenders EXCEPT ![it[s]] = as], Len(as) = n,
         UNCHANGED <<left, level, formatter, configVars>>,
         IF Defined(s)
         THEN /\ n <= Len(Define(s).appenders)
              /\ \A i \in 1 .. n : Matches(as[i], Define(s).appenders[i], formatter[it[s]])
         ELSE n = 0
  PROVE  AInv'
<1>1. /\ new' = new /\ setting' = setting /\ Rest(s) /\ AtWork(s) /\ new[s] \in Values
  BY DEF AInv, CInv, ConfigTypeOK, Progress, configVars
<1>2. PICK k \in Loggers : k = it[s]
  BY DEF CInv
<1>3. appenders'[k] = as /\ \A l \in Loggers \ {k} : appenders'[l] = appenders[l]
  BY <1>2 DEF LInv, LogTypes
<1>4. k \in Pending(s) /\ Pending(s) = left[s] \cup {k} /\ k \notin left[s]
  BY <1>1, <1>2 DEF Pending, AtWork
<1>5. CASE Defined(s) /\ n < Len(Define(s).appenders)
  <2>1. step'[s] = "add" /\ added'[s] = n /\ it' = it
    BY <1>5 DEF Added, CInv
  <2>2. Pending(s)' = Pending(s)
    BY <1>4, <1>2, <2>1 DEF Pending
  <2>3. Rest(s)'
    BY <1>1, <1>3, <1>4, <2>2, OthersRest
  <2>4. AtWork(s)'
    BY <1>1, <1>2, <1>3, <1>5, <2>1 DEF AtWork, Defined, Define
  <2> QED
    BY <1>1, <2>3, <2>4, AloneAInv DEF Progress
<1>6. CASE ~(Defined(s) /\ n < Len(Define(s).appenders))
  <2>1. step'[s] = "next"
    BY <1>6 DEF Added, CInv
  <2>2. Pending(s)' = left[s] /\ Pending(s) \ Pending(s)' = {k}
    BY <1>4, <2>1 DEF Pending
  <2>3. PICK v \in Values : v = new[s]
    BY <1>1
  <2>4. DOMAIN v \subseteq Loggers /\ \A l \in DOMAIN v : v[l] \in LogDefine
    BY LogConfAssumption DEF ValueOK
  <2>5. ASSUME NEW l \in DOMAIN v \ Pending(s)
        PROVE  Follows(l, v[l])'
    <3>1. Follows(l, v[l]) /\ l \in Loggers /\ l # k
      BY <1>1, <1>4, <2>3, <2>4, <2>5 DEF Rest
    <3>2. level'[l] = level[l] /\ formatter'[l] = formatter[l] /\ appenders'[l] = appenders[l]
      BY <1>3, <3>1
    <3> QED
      BY <3>1, <3>2 DEF Follows
  <2>6. ASSUME k \in DOMAIN v
        PROVE  Follows(k, v[k])'
    <3>1. PICK d \in LogDefine : d = v[k]
      BY <2>4, <2>6
    <3>2. Define(s) = d /\ Defined(s)
      BY <1>2, <2>3, <2>6, <3>1 DEF Define, Defined
    <3>3. d.appenders \in Seq(AppenderDefine)
      BY DEF LogDefine
    <3>4. Len(d.appenders) \in Nat /\ DOMAIN d.appenders = 1 .. Len(d.appenders)
      BY <3>3
    <3>5. n = Len(d.appenders)
      BY <1>6, <3>2, <3>4
    <3>6. /\ level[k] = d.level
          /\ d.formatter \in Formats => formatter[k] = d.formatter
      BY <1>1, <1>2, <3>2 DEF AtWork
    <3>7. \A i \in 1 .. n : Matches(as[i], d.appenders[i], formatter[k])
      BY <1>2, <3>2
    <3> QED
      BY <1>3, <3>1, <3>4, <3>5, <3>6, <3>7 DEF Follows, Matches
  <2>7. ASSUME k \notin DOMAIN v
        PROVE  appenders'[k] = <<>>
    <3>1. n = 0
      BY <1>2, <2>3, <2>7 DEF Defined
    <3> QED
      BY <1>3, <3>1
  <2>8. \A l \in Names \ (DOMAIN v \cup Pending(s)) : appenders'[l] = <<>>
    BY <1>1, <1>3, <1>4, <2>3 DEF Rest, Loggers
  <2>9. Rest(s)'
    <3>1. \A l \in DOMAIN v \ Pending(s)' : Follows(l, v[l])'
      BY <2>2, <2>5, <2>6
    <3>2. \A l \in Names \ (DOMAIN v \cup Pending(s)') : appenders'[l] = <<>>
      BY <2>2, <2>7, <2>8
    <3> QED
      BY <1>1, <2>3, <3>1, <3>2 DEF Rest
  <2> QED
    BY <1>1, <2>1, <2>9, AloneAInv DEF Progress
<1> QED
  BY <1>5, <1>6

LEMMA ListenAInv ==
  ASSUME LInv, CInv, AInv, ~overlapped, NEW s \in Setters, Listen(s)
  PROVE  AInv'
<1> DEFINE k == it[s]
<1>1. UNCHANGED configVars /\ k \in Loggers /\ new[s] \in Values /\ Loop(s)
  BY DEF Listen, CInv, ConfigTypeOK
<1>2. \A l \in Loggers : Visit(s, l) => AInv'
  BY <1>1, VisitAInv
<1>3. CASE SetFormatter(s)
  BY <1>1, <1>3, SetFormatterAInv
<1>4. CASE ClearAppenders(s)
  <2>1. /\ setting[s] = "notify" /\ step[s] = "clear" /\ Added(s, 0)
        /\ appenders' = [appenders EXCEPT ![k] = <<>>]
        /\ UNCHANGED <<left, level, formatter>>
    BY <1>4 DEF ClearAppenders, clearAppenders, Listening
  <2>2. PICK as \in Seq(Recs) : as = <<>> /\ Len(as) = 0
    <3>1. <<>> \in Seq(Recs) /\ Len(<<>>) = 0
      OBVIOUS
    <3> QED
      BY <3>1
  <2>3. appenders' = [appenders EXCEPT ![k] = as]
    BY <2>1, <2>2
  <2>4. IF Defined(s)
        THEN /\ 0 <= Len(Define(s).appenders)
             /\ \A i \in 1 .. 0 : Matches(as[i], Define(s).appenders[i], formatter[k])
        ELSE 0 = 0
    <3>1. CASE Defined(s)
      <4>1. Define(s).appenders \in Seq(AppenderDefine)
        BY <1>1, <3>1, DefineFields DEF Defined, Define
      <4>2. Len(Define(s).appenders) \in Nat
        BY <4>1
      <4>3. 0 <= Len(Define(s).appenders)
        BY <4>2
      <4>4. \A i \in 1 .. 0 : FALSE
        OBVIOUS
      <4> QED
        BY <3>1, <4>3, <4>4
    <3> QED
      BY <3>1
  <2> QED
    BY <1>1, <2>1, <2>2, <2>3, <2>4, AddedAInv
<1>5. CASE AddAppender(s)
  <2>1. PICK n \in Nat : n = added[s]
    BY DEF CInv
  <2>2. /\ setting[s] = "notify" /\ step[s] = "add" /\ Added(s, n + 1) /\ Defined(s)
        /\ n < Len(Define(s).appenders) /\ UNCHANGED <<left, level, formatter>>
    BY <1>1, <1>5, <2>1 DEF AddAppender, addAppender, Listening, Loop
  <2>3. PICK ds \in Seq(AppenderDefine) : ds = Define(s).appenders
    BY <1>1, <2>2, DefineFields DEF Defined, Define
  <2>4. PICK d \in AppenderDefine : d = ds[n + 1]
    BY <2>2, <2>3
  <2>5. PICK fmt \in Formats : fmt = formatter[k]
    BY <1>1 DEF LInv, LogTypes
  <2>6. PICK g : g = Given(d, fmt)
    OBVIOUS
  <2>7. g \in Recs /\ Matches(g, d, fmt)
    BY <2>6, GivenOK DEF Matches
  <2>8. PICK o \in Seq(Recs) : o = appenders[k]
    BY <1>1 DEF LInv, LogTypes
  <2>9. PICK as : as = Append(o, g)
    OBVIOUS
  <2>10. appenders' = [appenders EXCEPT ![k] = as]
    BY <1>5, <2>1, <2>3, <2>4, <2>5, <2>6, <2>8, <2>9 DEF AddAppender, addAppender, Given
  <2>11. AtWork(s)
    BY <2>2 DEF AInv, Progress
  <2>12. Len(o) = n /\ \A i \in 1 .. n : Matches(o[i], ds[i], fmt)
    BY <2>1, <2>2, <2>3, <2>5, <2>8, <2>11 DEF AtWork
  <2>13. as \in Seq(Recs) /\ Len(as) = n + 1 /\ as[n + 1] = g /\ \A i \in 1 .. n : as[i] = o[i]
    BY <2>7, <2>8, <2>9, <2>12
  <2>14. ASSUME NEW i \in 1 .. n + 1
         PROVE  Matches(as[i], ds[i], fmt)
    <3>1. CASE i \in 1 .. n
      BY <2>12, <2>13, <3>1
    <3>2. CASE i = n + 1
      BY <2>4, <2>7, <2>13, <3>2
    <3>3. i \in 1 .. n \/ i = n + 1
      BY <2>14
    <3> QED
      BY <3>1, <3>2, <3>3
  <2>15. n + 1 \in Nat /\ n + 1 <= Len(ds)
    BY <2>1, <2>2, <2>3
  <2> QED
    BY <1>1, <2>2, <2>3, <2>5, <2>10, <2>13, <2>14, <2>15, AddedAInv
<1> QED
  BY <1>2, <1>3, <1>4, <1>5 DEF Listen

(* A value is set: what is pending is where it differs from the one before.     *)
LEMMA SetValueAInv ==
  ASSUME LInv, CInv, AInv, NEW s \in Setters, NEW v \in Values, SetValue(s, v)
  PROVE  AInv'
<1>1. /\ setting[s] = "idle" /\ new' = [new EXCEPT ![s] = v]
      /\ setting' = [setting EXCEPT ![s] = "notify"] /\ m_val' = m_val
      /\ overlapped' = (overlapped \/ \E r \in Setters : setting[r] # "idle")
      /\ left' = [left EXCEPT ![s] = Changed(m_val, v) \cup Gone(m_val, v)]
      /\ UNCHANGED <<level, formatter, appenders, it, step, added>>
  BY DEF SetValue, BeginSet, logVars
<1>2. CASE overlapped \/ \E r \in Setters : setting[r] # "idle"
  <2>1. overlapped'
    BY <1>1, <1>2
  <2> QED
    BY <2>1 DEF AInv
<1>3. CASE ~(overlapped \/ \E r \in Setters : setting[r] # "idle")
  <2>1. Setting = {} /\ Agree(m_val) /\ m_val \in Values
    BY <1>3 DEF AInv, Setting, CInv, ConfigTypeOK
  <2>2. setting'[s] = "notify" /\ \A r \in Setters \ {s} : setting'[r] = "idle"
    BY <1>1, <1>3 DEF CInv, ConfigTypeOK
  <2>3. Setting' = {s}
    BY <2>2 DEF Setting
  <2>4. /\ step'[s] = "next" /\ new'[s] = v
        /\ left'[s] = Changed(m_val, v) \cup Gone(m_val, v)
    BY <1>1 DEF CInv, ConfigTypeOK, Loop
  <2>5. Pending(s)' = Changed(m_val, v) \cup Gone(m_val, v)
    BY <2>4 DEF Pending
  <2>6. ASSUME NEW l \in DOMAIN v \ Pending(s)'
        PROVE  Follows(l, v[l])'
    <3>1. l \in DOMAIN m_val /\ m_val[l] = v[l]
      BY <2>5, <2>6 DEF Changed
    <3>2. Follows(l, v[l])
      BY <2>1, <3>1 DEF Agree
    <3> QED
      BY <1>1, <3>2 DEF Follows
  <2>7. \A l \in Names \ (DOMAIN v \cup Pending(s)') : appenders'[l] = <<>>
    BY <1>1, <2>1, <2>5 DEF Gone, Agree
  <2>8. Rest(s)'
    BY <2>4, <2>6, <2>7 DEF Rest
  <2>9. \A r \in Setters : Progress(r)'
    BY <2>2, <2>4, <2>8 DEF Progress
  <2> QED
    BY <2>3, <2>9 DEF AInv
<1> QED
  BY <1>2, <1>3

LEMMA ListenedAInv ==
  ASSUME CInv, AInv, NEW s \in Setters, Listened(s)
  PROVE  AInv'
<1>1. /\ setting[s] = "notify" /\ setting' = [setting EXCEPT ![s] = "assign"]
      /\ step[s] = "next" /\ left[s] = {}
      /\ UNCHANGED <<m_val, new, overlapped, level, formatter, appenders>>
  BY DEF Listened, EndNotify, logVars
<1>2. CASE overlapped
  BY <1>1, <1>2 DEF AInv
<1>3. CASE ~overlapped
  <2>1. Setting' = Setting /\ s \in Setting
    BY <1>1 DEF Setting, CInv, ConfigTypeOK
  <2>2. setting'[s] = "assign" /\ \A r \in Setters \ {s} : setting'[r] = "idle"
    BY <1>1, <1>3, <2>1 DEF AInv, Setting, CInv, ConfigTypeOK
  <2>3. Rest(s) /\ Pending(s) = {}
    BY <1>1, <1>3 DEF AInv, Progress, Pending
  <2>4. Agree(new[s])'
    BY <1>1, <2>3 DEF Rest, Agree, Follows
  <2>5. \A r \in Setters : Progress(r)'
    BY <2>2, <2>4 DEF Progress
  <2> QED
    BY <1>3, <2>1, <2>5 DEF AInv
<1> QED
  BY <1>2, <1>3

LEMMA AssignedAInv ==
  ASSUME CInv, AInv, NEW s \in Setters, Assigned(s)
  PROVE  AInv'
<1>1. /\ setting[s] = "assign" /\ setting' = [setting EXCEPT ![s] = "idle"]
      /\ m_val' = new[s] /\ UNCHANGED <<overlapped, level, formatter, appenders>>
  BY DEF Assigned, Assign, logVars
<1>2. CASE overlapped
  BY <1>1, <1>2 DEF AInv
<1>3. CASE ~overlapped
  <2>1. Agree(new[s]) /\ s \in Setting
    BY <1>1, <1>3 DEF AInv, Progress, Setting
  <2>2. \A r \in Setters : setting'[r] = "idle"
    BY <1>1, <1>3, <2>1 DEF AInv, Setting, CInv, ConfigTypeOK
  <2>3. Agree(m_val)'
    BY <1>1, <2>1 DEF Agree, Follows
  <2> QED
    BY <2>2, <2>3 DEF AInv, Setting, Progress
<1> QED
  BY <1>2, <1>3

LEMMA InitAInv == Init => AInv
<1> SUFFICES ASSUME Init
             PROVE  AInv
  OBVIOUS
<1>1. PICK fmt \in Formats : LogInit(fmt)
  BY LogAssumption DEF Init
<1>2. /\ m_val = Default /\ \A s \in Setters : setting[s] = "idle"
  BY DEF Init, ConfigInit
<1>3. \A l \in Names : appenders[l] = <<>>
  BY <1>1, LogAssumption DEF LogInit, Loggers
<1>4. Agree(m_val)
  BY <1>2, <1>3, LogConfAssumption DEF Agree
<1> QED
  BY <1>2, <1>4 DEF AInv, Setting, Progress

LEMMA NextAInv ==
  ASSUME LInv, CInv, AInv, [Next]_vars
  PROVE  AInv'
<1>1. LInv' /\ CInv' /\ LogTypes /\ LogTypes'
  <2>1. LInv' /\ CInv'
    BY NextLInv
  <2> QED
    BY <2>1 DEF LInv
<1>2. ASSUME UNCHANGED <<level, formatter, appenders, configVars, listenVars>>
      PROVE  AInv'
  <2>1. \A l \in Loggers : Same(l)
    BY <1>2 DEF Same
  <2> QED
    BY <1>1, <1>2, <2>1, SameAInv
<1>3. ASSUME NEW s \in Setters, SetterStep(s) \/ \E v \in Values : SetValue(s, v)
      PROVE  AInv'
  <2>1. CASE Listen(s) /\ overlapped
    <3>1. overlapped'
      BY <2>1 DEF Listen, configVars
    <3> QED
      BY <3>1 DEF AInv
  <2>2. CASE Listen(s) /\ ~overlapped
    BY <2>2, ListenAInv
  <2> QED
    BY <1>3, <2>1, <2>2, ListenedAInv, AssignedAInv, SetValueAInv DEF SetterStep
<1>4. ASSUME NEW t \in Threads, ThreadStep(t)
      PROVE  AInv'
  <2>1. \A l \in Loggers : Same(l)
    BY <1>1, <1>4, ThreadSame DEF ThreadStep
  <2> QED
    BY <1>1, <1>4, <2>1, SameAInv DEF ThreadStep
<1>5. ASSUME NEW t \in Threads, NEW l \in Loggers, NEW v \in Levels,
             MakeEvent(t, l, v), UNCHANGED <<configVars, listenVars>>
      PROVE  AInv'
  BY <1>2, <1>5 DEF MakeEvent
<1>6. CASE Environment
  BY <1>2, <1>6 DEF Environment, Rotate, Tick
<1>7. CASE UNCHANGED vars
  BY <1>2, <1>7 DEF vars, logVars
<1> QED
  BY <1>3, <1>4, <1>5, <1>6, <1>7 DEF Next

(* When no setValue is under way, and no two ever overlapped, every logger has  *)
(* the level, the formatter and exactly the appenders of its definition in the  *)
(* value, and a logger without definition has no appenders: the listener in     *)
(* LogIniter compares the sets of definitions, so that a logger it does not     *)
(* touch was right before.  Logging meanwhile changes nothing of that.          *)
THEOREM LoggersAgree == Spec => []LoggersFollowConfig
<1>1. Init => AInv
  BY InitAInv
<1>2. LInv /\ CInv /\ AInv /\ [Next]_vars => AInv'
  BY NextAInv
<1>3. AInv => LoggersFollowConfig
  BY DEF AInv, LoggersFollowConfig
<1> QED
  BY <1>1, <1>2, <1>3, LogInvariant, PTL DEF Spec
=============================================================================
