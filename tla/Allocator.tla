----------------------------- MODULE Allocator -----------------------------
(***************************************************************************)
(* What a pool of memory blocks promises its users: a block that is handed *)
(* out belongs to nobody else, and stays its user's until the user gives   *)
(* it back.  There are no lists, counters or lock here.                    *)
(***************************************************************************)
CONSTANTS Users, Blocks

VARIABLE held    \* held[u]: the blocks that u has been given

AllocatorTypeOK == held \in [Users -> SUBSET Blocks]

AllocatorInit == held = [u \in Users |-> {}]

InUse == UNION { held[u] : u \in Users }

(* A user is given a block nobody has.                                     *)
Allocate(u, b) ==
  /\ b \in Blocks \ InUse
  /\ held' = [held EXCEPT ![u] = @ \cup {b}]

(* A user gives back a block it has.                                       *)
Release(u, b) ==
  /\ b \in held[u]
  /\ held' = [held EXCEPT ![u] = @ \ {b}]

AllocatorNext == \E u \in Users, b \in Blocks : Allocate(u, b) \/ Release(u, b)

AllocatorSpec == AllocatorInit /\ [][AllocatorNext]_held
=============================================================================
