---------------------------- MODULE MCIOManager ----------------------------
(***************************************************************************)
(* The IOManager for the runs that check invariants only: workers, tasks   *)
(* and descriptors are interchangeable.  READ and WRITE are not, since     *)
(* they are triggered in this order.                                       *)
(***************************************************************************)
EXTENDS IOManager

Symmetry == Permutations(Workers) \cup Permutations(Tasks) \cup Permutations(Fds)
=============================================================================
