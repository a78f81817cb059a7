------------------------------ MODULE LogConf ------------------------------
(***************************************************************************)
(* The logging system and its configuration: the variable "logs" holds a   *)
(* set of logger definitions, and the listener that log.cpp registers      *)
(* before main (LogIniter) brings the loggers in line with a new value,    *)
(* one logger after the other and one call after the other, while other    *)
(* threads log and other setters may be inside setValue, for the read lock *)
(* admits several.                                                         *)
(*                                                                         *)
(* A value maps the names it defines to level, pattern and appenders: the  *)
(* std::set of definitions is ordered by name alone, so a name occurs once.*)
(* Reading a definition (LexicalCast) leaves the level of its appenders at *)
(* UNKNOW, whatever the text says.                                         *)
(***************************************************************************)
EXTENDS Config, Log

(* What the loops of the listener of each setter are at.                   *)
VARIABLES
  left,    \* loggers they have still to come to
  it,      \* the logger they are at; Root between two of them
  step,    \* "next" (between two), or what is to be done: "formatter", "clear", "add"
  added    \* appenders the logger has been given

listenVars == <<left, it, step, added>>
vars == <<configVars, logVars, listenVars>>

AppenderDefine == [kind : {"file", "stdout"}, formatter : Formats \cup {NoFormat, BadFormat}]
LogDefine == [level : Levels \cup {0}, formatter : Formats \cup {NoFormat, BadFormat},
              appenders : Seq(AppenderDefine)]
ValueOK(v) == DOMAIN v \subseteq Loggers /\ \A l \in DOMAIN v : v[l] \in LogDefine

ASSUME LogConfAssumption == (\A v \in Values : ValueOK(v)) /\ DOMAIN Default = {}

Init ==
  /\ ConfigInit(1)
  /\ LogInit(CHOOSE fmt \in Formats : TRUE)
  /\ left = [s \in Setters |-> {}] /\ it = [s \in Setters |-> Root]
  /\ step = [s \in Setters |-> "next"] /\ added = [s \in Setters |-> 0]

(* The loggers of a new value n that are not defined as in o, and those    *)
(* that n defines no longer.                                               *)
Changed(o, n) == { l \in DOMAIN n : l \in DOMAIN o => o[l] # n[l] }
Gone(o, n) == DOMAIN o \ DOMAIN n

SetValue(s, v) ==
  /\ BeginSet(s, v)
  /\ left' = [left EXCEPT ![s] = Changed(m_val, v) \cup Gone(m_val, v)]
  /\ UNCHANGED <<logVars, it, step, added>>

Listening(s, where) == setting[s] = "notify" /\ step[s] = where
Define(s) == new[s][it[s]]
Defined(s) == it[s] \in DOMAIN new[s]

(* The next logger of the first loop, or when that is over of the second:  *)
(* it is looked up, or made, and its level set.                            *)
Visit(s, l) ==
  /\ Listening(s, "next") /\ l \in left[s]
  /\ l \in DOMAIN new[s] \/ left[s] \cap DOMAIN new[s] = {}
  /\ setLevel(l, IF l \in DOMAIN new[s] THEN new[s][l].level ELSE 0)
  /\ left' = [left EXCEPT ![s] = @ \ {l}]
  /\ it' = [it EXCEPT ![s] = l]
  /\ step' = [step EXCEPT ![s] = IF l \in DOMAIN new[s] /\ new[s][l].formatter # NoFormat
                                 THEN "formatter" ELSE "clear"]
  /\ UNCHANGED added

SetFormatter(s) ==
  /\ Listening(s, "formatter")
  /\ setFormatter(it[s], Define(s).formatter)
  /\ step' = [step EXCEPT ![s] = "clear"]
  /\ UNCHANGED <<left, it, added>>

(* n appenders are added: there is another one, or the logger is done.     *)
Added(s, n) ==
  IF Defined(s) /\ n < Len(Define(s).appenders)
  THEN /\ step' = [step EXCEPT ![s] = "add"]
       /\ added' = [added EXCEPT ![s] = n]
       /\ UNCHANGED it
  ELSE /\ step' = [step EXCEPT ![s] = "next"]
       /\ added' = [added EXCEPT ![s] = 0]
       /\ it' = [it EXCEPT ![s] = Root]

(* Fault: the appenders of the previous definition stay.                   *)
AddOnTop(s) ==
  /\ Listening(s, "clear")
  /\ Added(s, 0)
  /\ UNCHANGED <<left, level, formatter, appenders>>

ClearAppenders(s) ==
  /\ Listening(s, "clear")
  /\ clearAppenders(it[s])
  /\ Added(s, 0)
  /\ UNCHANGED left

(* The appender of a definition: its file is opened at once, an erroneous  *)
(* pattern leaves it without a formatter.                                  *)
NewAppender(a) ==
  LET own == a.formatter \in Formats
  IN  Appender(a.kind, 0, own, IF own THEN a.formatter ELSE NoFormat)

AddAppender(s) ==
  /\ Listening(s, "add")
  /\ addAppender(it[s], NewAppender(Define(s).appenders[added[s] + 1]))
  /\ Added(s, added[s] + 1)
  /\ UNCHANGED left

Listen(s) ==
  /\ (\E l \in Loggers : Visit(s, l)) \/ SetFormatter(s) \/ ClearAppenders(s) \/ AddAppender(s)
  /\ UNCHANGED <<configVars, lock, fileVars, threadVars>>

Listened(s) ==
  /\ step[s] = "next" /\ left[s] = {}
  /\ EndNotify(s)
  /\ UNCHANGED <<logVars, listenVars>>

Assigned(s) == Assign(s) /\ UNCHANGED <<logVars, listenVars>>

SetterStep(s) == Listen(s) \/ Listened(s) \/ Assigned(s)

ThreadStep(t) == LogStep(t) /\ UNCHANGED <<configVars, listenVars>>

Environment == (Rotate \/ Tick) /\ UNCHANGED <<configVars, listenVars>>

Next ==
  \/ \E s \in Setters : SetterStep(s) \/ \E v \in Values : SetValue(s, v)
  \/ \E t \in Threads :
       \/ ThreadStep(t)
       \/ \E l \in Loggers, v \in Levels : MakeEvent(t, l, v) /\ UNCHANGED <<configVars, listenVars>>
  \/ Environment

Spec == Init /\ [][Next]_vars

(***************************************************************************)
(* Properties                                                              *)
(***************************************************************************)

TypeOK ==
  /\ ConfigTypeOK /\ LogTypeOK
  /\ left \in [Setters -> SUBSET Loggers] /\ it \in [Setters -> Loggers]
  /\ step \in [Setters -> {"next", "formatter", "clear", "add"}]
  /\ added \in [Setters -> Nat]

(* A logger agrees with its definition: level, formatter if the definition *)
(* has a valid one, and exactly the appenders listed, each with its own    *)
(* formatter or else the logger's.                                         *)
Follows(l, d) ==
  /\ level[l] = d.level
  /\ d.formatter \in Formats => formatter[l] = d.formatter
  /\ Len(appenders[l]) = Len(d.appenders)
  /\ \A i \in DOMAIN d.appenders :
       LET a == appenders[l][i]  b == d.appenders[i] IN
       /\ a.kind = b.kind
       /\ a.formatter = IF b.formatter \in Formats THEN b.formatter ELSE formatter[l]

Agree(v) ==
  /\ \A l \in DOMAIN v : Follows(l, v[l])
  /\ \A l \in Names \ DOMAIN v : appenders[l] = <<>>

(* After calls of setValue that did not overlap, the loggers are those of  *)
(* the value, whatever was logged meanwhile and whatever the values before *)
(* were.                                                                   *)
LoggersFollowConfig == Setting = {} /\ ~overlapped => Agree(m_val)

(* An event that the level of a logger other than the root logger lets     *)
(* pass reaches an appender, also while the listener takes the logger's    *)
(* appenders away and gives it new ones: it finds some of them, or the     *)
(* root logger's.                                                          *)
NothingVanishes == vanished \cap Names = {}

(* Lines that land in a file already renamed or deleted were logged less   *)
(* than Period after that: from then on lines are in the file at the path. *)
LinesMisplacedBriefly == \A m \in misplaced : m[1] < m[2] + Period
=============================================================================
