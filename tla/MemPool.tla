------------------------------ MODULE MemPool ------------------------------
(***************************************************************************)
(* MemoryPool/memory_pool.cpp and chunk.cpp: free lists of chunks, one     *)
(* list per capacity, and two counters.  Every operation holds m_mutex_    *)
(* from its first access to the lists to its last, so each is one step.    *)
(*                                                                         *)
(* Sizes are in units; a kilobyte is one unit, so that index/1024 is the   *)
(* index.  A chunk is named by its capacity and a number; created says how *)
(* many of a capacity exist.  A chunk's bytes are numbers, 0 for whatever  *)
(* memory holds that a user may not rely on: bytes never written, popped,  *)
(* or left in a chunk that went back to the pool.                          *)
(***************************************************************************)
EXTENDS Naturals, Sequences, FiniteSets, FiniteSetsExt

CONSTANTS
  Caps,       \* MEM_4K .. MEM_4M: the capacities of the lists
  Initial,    \* how many chunks of each capacity the constructor makes
  PerCap,     \* bound: chunks of one capacity in a behaviour
  MaxTotal,   \* MAX_MEM_POOL_SIZE
  NoChunk     \* nullptr

ASSUME PoolAssumption ==
  /\ Caps \subseteq Nat \ {0} /\ IsFiniteSet(Caps) /\ Caps # {}
  /\ PerCap \in Nat /\ MaxTotal \in Nat
  /\ Initial \in [Caps -> 1 .. PerCap]
  /\ NoChunk \notin Caps \X (1 .. PerCap)

VARIABLES
  m_pool,     \* the free list of each capacity, first element first
  m_total,    \* m_total_size_kb_
  m_left,     \* m_left_size_kb_
  created,    \* chunks ever made of each capacity
  chunk,      \* what each chunk holds
  exited      \* exit(1) was called

poolVars == <<m_pool, m_total, m_left, created, chunk, exited>>

Chunks == Caps \X (1 .. PerCap)
capacity(c) == c[1]

EmptyChunk(c) == [length |-> 0, head |-> 0, data |-> [i \in 0 .. capacity(c) - 1 |-> 0]]

ChunkTypeOK ==
  /\ chunk = [c \in Chunks |-> [length |-> chunk[c].length, head |-> chunk[c].head,
                                data |-> chunk[c].data]]
  /\ \A c \in Chunks :
       /\ chunk[c].length \in Nat /\ chunk[c].head \in Nat
       /\ chunk[c].data \in [0 .. capacity(c) - 1 -> Nat]

SumOver(f) == MapThenSumSet(LAMBDA k : f[k], Caps)

(* mem_init for every capacity, then m_left_size_kb_ = m_total_size_kb_.   *)
PoolInit ==
  /\ m_pool = [k \in Caps |-> [i \in 1 .. Initial[k] |-> <<k, i>>]]
  /\ m_total = SumOver([k \in Caps |-> k * Initial[k]])
  /\ m_left = m_total
  /\ created = Initial
  /\ chunk = [c \in Chunks |-> EmptyChunk(c)]
  /\ exited = FALSE

(* The loop over the capacities: the first that is not smaller than n.     *)
Fits(n) == \E k \in Caps : n <= k
ClassOf(n) == CHOOSE k \in Caps : n <= k /\ \A j \in Caps : n <= j => k <= j

(* Fault: the chunk stays in the list.                                     *)
TakeFreeNoUnlink(n, c) ==
  LET k == ClassOf(n) IN
  /\ m_pool[k] # <<>>
  /\ c = Head(m_pool[k])
  /\ UNCHANGED <<m_pool, m_left, m_total, created, exited>>

(* alloc_chunk(n) hands out chunk c, from the list or newly made.          *)
TakeFree(n, c) ==
  LET k == ClassOf(n) IN
  /\ m_pool[k] # <<>>
  /\ c = Head(m_pool[k])
  /\ m_pool' = [m_pool EXCEPT ![k] = Tail(@)]
  /\ m_left' = m_left - k
  /\ UNCHANGED <<m_total, created, exited>>

BeyondLimit(n) == m_pool[ClassOf(n)] = <<>> /\ m_total + ClassOf(n) >= MaxTotal

(* Fault: a new chunk is charged to the free space instead of the total.   *)
MakeNewFromLeft(n, c) ==
  LET k == ClassOf(n) IN
  /\ m_pool[k] = <<>> /\ ~BeyondLimit(n)
  /\ created[k] < PerCap
  /\ c = <<k, created[k] + 1>>
  /\ m_left' = m_left - k
  /\ created' = [created EXCEPT ![k] = @ + 1]
  /\ UNCHANGED <<m_pool, m_total, exited>>

(* Fault: the total leaves out what is made later.                         *)
MakeNewUncounted(n, c) ==
  LET k == ClassOf(n) IN
  /\ m_pool[k] = <<>> /\ ~BeyondLimit(n)
  /\ created[k] < PerCap
  /\ c = <<k, created[k] + 1>>
  /\ created' = [created EXCEPT ![k] = @ + 1]
  /\ UNCHANGED <<m_pool, m_total, m_left, exited>>

MakeNew(n, c) ==
  LET k == ClassOf(n) IN
  /\ m_pool[k] = <<>> /\ ~BeyondLimit(n)
  /\ created[k] < PerCap
  /\ c = <<k, created[k] + 1>>
  /\ m_total' = m_total + k
  /\ created' = [created EXCEPT ![k] = @ + 1]
  /\ UNCHANGED <<m_pool, m_left, exited>>

alloc_chunk(n, c) == Fits(n) /\ (TakeFree(n, c) \/ MakeNew(n, c))

Exit(n) ==
  /\ Fits(n) /\ BeyondLimit(n)
  /\ exited' = TRUE
  /\ UNCHANGED <<m_pool, m_total, m_left, created, chunk>>

(* retrieve: the chunk, emptied, becomes the first of its list.            *)
retrieve(c) ==
  /\ m_pool' = [m_pool EXCEPT ![capacity(c)] = <<c>> \o @]
  /\ m_left' = m_left + capacity(c)
  /\ chunk' = [chunk EXCEPT ![c] = EmptyChunk(c)]
  /\ UNCHANGED <<m_total, created, exited>>

(* get_list_size_byte: walks the list of capacity k.                       *)
get_list_size_byte(k) == k * Len(m_pool[k])

Free == UNION { Range(m_pool[k]) : k \in Caps }

(* The chunk operations of chunk.cpp, on what a chunk holds.  Bytes that   *)
(* are popped or moved away count as unwritten.                            *)
PopChunk(h, len) ==
  [h EXCEPT !.length = @ - len, !.head = @ + len,
            !.data = [i \in DOMAIN @ |-> IF i < h.head + len THEN 0 ELSE @[i]]]

(* Fault: the head is reset, the bytes are not moved.                      *)
AdjustNoMove(h) == [h EXCEPT !.head = 0]

(* Fault: returns early when nothing is left.                              *)
AdjustUnlessEmpty(h) ==
  IF h.length = 0 THEN h
  ELSE [h EXCEPT !.head = 0,
                 !.data = [i \in DOMAIN @ |-> IF i < h.length THEN @[h.head + i] ELSE 0]]

AdjustChunk(h) ==
  [h EXCEPT !.head = 0,
            !.data = [i \in DOMAIN @ |-> IF i < h.length THEN @[h.head + i] ELSE 0]]

(* copy into a chunk whose memory is d.                                    *)
CopyChunk(d, other) ==
  [length |-> other.length, head |-> 0,
   data |-> [i \in DOMAIN d |-> IF i < other.length THEN other.data[other.head + i] ELSE d[i]]]

(* n bytes put behind those the chunk holds, numbered from first on.       *)
Append_(h, n, first) ==
  [h EXCEPT !.length = @ + n,
            !.data = [i \in DOMAIN @ |-> IF i \in h.length .. h.length + n - 1
                                          THEN first + i - h.length ELSE @[i]]]
=============================================================================
