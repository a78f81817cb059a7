------------------------------- MODULE Config -------------------------------
(***************************************************************************)
(* config.h: one configuration variable, the threads that set it and its   *)
(* listeners.  setValue (and fromString, which converts and calls it)      *)
(* compares and calls the listeners under the read lock, releases it, and  *)
(* assigns under the write lock.  What a listener does is left to the      *)
(* module that uses this one: notify is where it runs.                     *)
(*                                                                         *)
(* A section under the write lock is one step, since nothing else can be   *)
(* under the lock meanwhile.                                               *)
(***************************************************************************)
EXTENDS Naturals, FiniteSets

CONSTANTS
  Setters,      \* threads that call setValue
  Values,       \* values of the variable
  Default       \* the value lookUp registers it with

ASSUME ConfigAssumption == Default \in Values

VARIABLES
  m_val,        \* the value
  readers,      \* setters that hold the read lock
  setting,      \* where each setter is: "idle", "notify", "assign"
  old, new,     \* the arguments of the callback
  calls,        \* calls of setValue each setter has left (a bound)
  overlapped    \* whether two calls of setValue were ever under way at once

configVars == <<m_val, readers, setting, old, new, calls, overlapped>>

ConfigTypeOK ==
  /\ m_val \in Values
  /\ readers \subseteq Setters
  /\ setting \in [Setters -> {"idle", "notify", "assign"}]
  /\ old \in [Setters -> Values] /\ new \in [Setters -> Values]
  /\ calls \in [Setters -> Nat] /\ overlapped \in BOOLEAN

ConfigInit(n) ==
  /\ m_val = Default
  /\ readers = {}
  /\ setting = [s \in Setters |-> "idle"]
  /\ old = [s \in Setters |-> Default]
  /\ new = [s \in Setters |-> Default]
  /\ calls = [s \in Setters |-> n] /\ overlapped = FALSE

(* setValue(v) up to the loop over the listeners.  With the same value it  *)
(* returns.                                                                *)
BeginSet(s, v) ==
  /\ setting[s] = "idle" /\ calls[s] > 0 /\ v # m_val
  /\ calls' = [calls EXCEPT ![s] = @ - 1]
  /\ overlapped' = (overlapped \/ \E r \in Setters : setting[r] # "idle")
  /\ readers' = readers \cup {s}
  /\ old' = [old EXCEPT ![s] = m_val]
  /\ new' = [new EXCEPT ![s] = v]
  /\ setting' = [setting EXCEPT ![s] = "notify"]
  /\ UNCHANGED m_val

EndNotify(s) ==
  /\ setting[s] = "notify"
  /\ readers' = readers \ {s}
  /\ setting' = [setting EXCEPT ![s] = "assign"]
  /\ UNCHANGED <<m_val, old, new, calls, overlapped>>

Assign(s) ==
  /\ setting[s] = "assign" /\ readers = {}
  /\ m_val' = new[s]
  /\ setting' = [setting EXCEPT ![s] = "idle"]
  /\ old' = [old EXCEPT ![s] = Default]
  /\ new' = [new EXCEPT ![s] = Default]
  /\ UNCHANGED <<readers, calls, overlapped>>

Setting == { s \in Setters : setting[s] # "idle" }
=============================================================================
