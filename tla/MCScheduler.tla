---------------------------- MODULE MCScheduler ----------------------------
(***************************************************************************)
(* The scheduler for the runs that check invariants only.  Workers are     *)
(* interchangeable, and so are tasks, so their permutations are symmetries *)
(* (no such run has a liveness property, for which this would be unsound). *)
(***************************************************************************)
EXTENDS Scheduler

Symmetry == Permutations(Workers) \cup Permutations(Tasks)
=============================================================================
