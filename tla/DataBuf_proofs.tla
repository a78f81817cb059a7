--------------------------- MODULE DataBuf_proofs ---------------------------
(* The pool under the buffers is an allocator, for any capacities, limit and    *)
(* buffers.  A chunk is in one free list, in one place of it, or with one       *)
(* buffer, once: while a buffer grows it has two, and they differ.  On this     *)
(* rests what the bytes do: they stay in order and within their chunk.          *)
EXTENDS DataBuf, WellFoundedInduction, FiniteSetTheorems, TLAPS

(* Lists hold chunks of their own capacity that have been made, each once.      *)
Listed(c) == \E i \in 1 .. Len(m_pool[c[1]]) : m_pool[c[1]][i] = c
Made(c) == c[2] <= created[c[1]]

OwnKind(k) ==
  \A i \in 1 .. Len(m_pool[k]) : m_pool[k][i][1] = k /\ m_pool[k][i][2] <= created[k]

EachOnce(k) ==
  \A i, j \in 1 .. Len(m_pool[k]) : m_pool[k][i] = m_pool[k][j] => i = j

ListsInOrder ==
  /\ m_pool \in [Caps -> Seq(Chunks)]
  /\ created \in [Caps -> 0 .. PerCap]
  /\ \A k \in Caps : OwnKind(k) /\ EachOnce(k)

(* A buffer has a second chunk only between its allocation and the return of    *)
(* the first.                                                                   *)
SecondChunk(b) ==
  /\ new_buf[b] # NoChunk <=> pc[b] = "swap"
  /\ pc[b] = "swap" => data_buf[b] # NoChunk /\ data_buf[b] # new_buf[b]

Places ==
  /\ data_buf \in [Buffers -> Chunks \cup {NoChunk}]
  /\ new_buf \in [Buffers -> Chunks \cup {NoChunk}]
  /\ pc \in [Buffers -> {"idle", "popped", "reserve", "swap", "fill"}]
  /\ \A b \in Buffers : SecondChunk(b)

HeldByOne ==
  \A b \in Buffers : \A c \in Held(b) :
    /\ Made(c) /\ ~Listed(c)
    /\ \A d \in Buffers : c \in Held(d) => d = b

BInv == ListsInOrder /\ Places /\ HeldByOne

-----------------------------------------------------------------------------
(* The pool.                                                                    *)

(* A size that fits has a smallest capacity that is not below it.               *)
LEMMA ClassIsCapacity ==
  ASSUME NEW n, Fits(n)
  PROVE  ClassOf(n) \in Caps /\ n <= ClassOf(n)
<1> DEFINE Large == {k \in Caps : n <= k}
           R == OpToRel(<, Nat)
<1>1. Large \subseteq Nat /\ Large # {}
  BY PoolAssumption DEF Fits
<1>2. IsWellFoundedOn(R, Nat)
  BY NatLessThanWellFounded
<1>3. \A i, j \in Nat : i < j => <<i, j>> \in R
  BY DEF OpToRel
<1> HIDE DEF Large, R
<1>4. PICK k \in Large : \A j \in Large : ~(<<j, k>> \in R)
  BY <1>1, <1>2, WFMin
<1>5. \A j \in Large : k <= j
  <2> SUFFICES ASSUME NEW j \in Large, ~(k <= j)
               PROVE  FALSE
    OBVIOUS
  <2>1. j \in Nat /\ k \in Nat
    BY <1>1
  <2>2. j < k
    BY <2>1
  <2> QED
    BY <1>3, <1>4, <2>1, <2>2
<1>6. k \in Caps /\ n <= k /\ \A j \in Caps : n <= j => k <= j
  BY <1>5 DEF Large
<1> QED
  BY <1>6 DEF ClassOf

(* A chunk that alloc_chunk hands out is one that was listed, or is new.        *)
LEMMA AllocatedIsUnused ==
  ASSUME ListsInOrder, NEW n, NEW c \in Chunks, alloc_chunk(n, c)
  PROVE  /\ ListsInOrder' /\ Made(c)' /\ ~Listed(c)'
         /\ Listed(c) \/ ~Made(c)
         /\ \A d \in Chunks : (Made(d) => Made(d)') /\ (Listed(d)' => Listed(d))
<1> DEFINE k == ClassOf(n)
<1>1. k \in Caps /\ PerCap \in Nat /\ Caps \subseteq Nat
  BY ClassIsCapacity, PoolAssumption DEF alloc_chunk
<1>2. CASE TakeFree(n, c)
  <2> HIDE DEF k
  <2>1. /\ m_pool[k] # <<>> /\ c = Head(m_pool[k])
        /\ m_pool' = [m_pool EXCEPT ![k] = Tail(@)]
        /\ created' = created
    BY <1>2 DEF TakeFree, k
  <2>2. /\ m_pool[k] \in Seq(Chunks) /\ Len(m_pool[k]) \in Nat \ {0} /\ c = m_pool[k][1]
        /\ m_pool'[k] \in Seq(Chunks) /\ Len(m_pool'[k]) = Len(m_pool[k]) - 1
        /\ \A i \in 1 .. Len(m_pool'[k]) : i + 1 \in 1 .. Len(m_pool[k]) /\ m_pool'[k][i] = m_pool[k][i + 1]
    BY <1>1, <2>1 DEF ListsInOrder
  <2>3. \A l \in Caps \ {k} : m_pool'[l] = m_pool[l]
    BY <1>1, <2>1 DEF ListsInOrder
  <2>4. c[1] = k /\ Made(c) /\ Listed(c)
    BY <1>1, <2>2 DEF ListsInOrder, OwnKind, Made, Listed
  <2>5. ASSUME NEW d \in Chunks, Listed(d)'
        PROVE  Listed(d)
    <3>1. PICK i \in 1 .. Len(m_pool'[d[1]]) : m_pool'[d[1]][i] = d
      BY <2>5 DEF Listed
    <3>2. CASE d[1] = k
      BY <2>2, <3>1, <3>2 DEF Listed
    <3>3. CASE d[1] # k
      BY <2>3, <3>1, <3>3 DEF Listed, Chunks
    <3> QED
      BY <3>2, <3>3
  <2>6. ~Listed(c)'
    <3> SUFFICES ASSUME NEW i \in 1 .. Len(m_pool'[k]), m_pool'[k][i] = c
                 PROVE  FALSE
      BY <2>4 DEF Listed
    <3> QED
      BY <1>1, <2>2 DEF ListsInOrder, EachOnce
  <2>7. ListsInOrder'
    <3>1. m_pool' \in [Caps -> Seq(Chunks)] /\ created' \in [Caps -> 0 .. PerCap]
      BY <2>1, <2>2, <2>3 DEF ListsInOrder
    <3>2. OwnKind(k)' /\ EachOnce(k)'
      BY <1>1, <2>1, <2>2 DEF ListsInOrder, OwnKind, EachOnce
    <3>3. ASSUME NEW l \in Caps \ {k}
          PROVE  OwnKind(l)' /\ EachOnce(l)'
      BY <2>1, <2>3 DEF ListsInOrder, OwnKind, EachOnce
    <3> QED
      BY <3>1, <3>2, <3>3 DEF ListsInOrder
  <2> QED
    BY <2>1, <2>4, <2>5, <2>6, <2>7 DEF Made
<1>3. CASE MakeNew(n, c)
  <2> HIDE DEF k
  <2>1. /\ created[k] < PerCap /\ c = <<k, created[k] + 1>> /\ m_pool[k] = <<>>
        /\ created' = [created EXCEPT ![k] = @ + 1] /\ m_pool' = m_pool
    BY <1>3 DEF MakeNew, k
  <2>2. /\ created' \in [Caps -> 0 .. PerCap]
        /\ \A l \in Caps : created[l] <= created'[l] /\ created[l] \in Nat /\ created'[l] \in Nat
        /\ created'[k] = created[k] + 1
    BY <1>1, <2>1 DEF ListsInOrder
  <2>3. c[1] = k /\ c[2] = created[k] + 1 /\ Made(c)' /\ ~Made(c)
    BY <2>1, <2>2, <1>1 DEF Made
  <2>4. ASSUME NEW d \in Chunks, Made(d)
        PROVE  Made(d)'
    <3>1. d[1] \in Caps /\ d[2] \in Nat /\ d[2] <= created[d[1]]
      BY <1>1, <2>4 DEF Made, Chunks
    <3>2. d[2] <= created'[d[1]]
      BY <2>2, <3>1
    <3> QED
      BY <3>2 DEF Made
  <2>5. ListsInOrder'
    <3>1. ASSUME NEW l \in Caps
          PROVE  OwnKind(l)' /\ EachOnce(l)'
      <4>1. \A i \in 1 .. Len(m_pool[l]) : m_pool[l][i] \in Chunks
        BY DEF ListsInOrder
      <4>2. \A i \in 1 .. Len(m_pool[l]) : m_pool[l][i][2] \in Nat
        BY <1>1, <4>1 DEF Chunks
      <4> QED
        BY <2>1, <2>2, <4>2 DEF ListsInOrder, OwnKind, EachOnce
    <3> QED
      BY <2>1, <2>2, <3>1 DEF ListsInOrder
  <2>6. ~Listed(c)'
    BY <2>1, <2>3 DEF Listed
  <2> QED
    BY <2>1, <2>3, <2>4, <2>5, <2>6 DEF Listed
<1> QED
  BY <1>2, <1>3 DEF alloc_chunk

(* A chunk that was in no list may be given back; nothing else becomes listed.  *)
LEMMA RetrievedIsListed ==
  ASSUME ListsInOrder, NEW c \in Chunks, Made(c), ~Listed(c), retrieve(c)
  PROVE  /\ ListsInOrder' /\ created' = created
         /\ \A d \in Chunks : Listed(d)' => Listed(d) \/ d = c
<1> DEFINE k == c[1]
           old == m_pool[k]
<1>1. k \in Caps /\ Caps \subseteq Nat
  BY PoolAssumption DEF Chunks
<1>2. m_pool' = [m_pool EXCEPT ![k] = <<c>> \o @] /\ created' = created
  BY DEF retrieve, capacity
<1>3. old \in Seq(Chunks) /\ m_pool'[k] = <<c>> \o old
  BY <1>1, <1>2 DEF ListsInOrder
<1>4. /\ m_pool'[k] \in Seq(Chunks) /\ Len(m_pool'[k]) = Len(old) + 1 /\ Len(old) \in Nat
      /\ m_pool'[k][1] = c
      /\ \A i \in 2 .. Len(m_pool'[k]) : i - 1 \in 1 .. Len(old) /\ m_pool'[k][i] = old[i - 1]
  BY <1>3
<1>5. \A l \in Caps \ {k} : m_pool'[l] = m_pool[l]
  BY <1>1, <1>2 DEF ListsInOrder
<1>6. ListsInOrder'
  <2>1. m_pool' \in [Caps -> Seq(Chunks)] /\ created' \in [Caps -> 0 .. PerCap]
    BY <1>2, <1>3, <1>4, <1>5 DEF ListsInOrder
  <2>2. \A i \in 1 .. Len(old) : old[i] # c /\ old[i][1] = k /\ old[i][2] <= created[k]
    BY <1>1 DEF ListsInOrder, OwnKind, Listed
  <2>3. \A i, j \in 1 .. Len(old) : old[i] = old[j] => i = j
    BY <1>1 DEF ListsInOrder, EachOnce
  <2>4. \A i \in 1 .. Len(m_pool'[k]) : i = 1 \/ i \in 2 .. Len(m_pool'[k])
    BY <1>4
  <2>5. c[2] <= created[k]
    BY DEF Made
  <2>6. OwnKind(k)'
    <3>1. \A i \in 1 .. Len(m_pool'[k]) : m_pool'[k][i][1] = k /\ m_pool'[k][i][2] <= created'[k]
      <4> TAKE i \in 1 .. Len(m_pool'[k])
      <4>1. CASE i = 1
        BY <1>2, <1>4, <2>5, <4>1
      <4>2. CASE i \in 2 .. Len(m_pool'[k])
        <5>1. i - 1 \in 1 .. Len(old) /\ m_pool'[k][i] = old[i - 1]
          BY <1>4, <4>2
        <5>2. old[i - 1][1] = k /\ old[i - 1][2] <= created[k]
          BY <2>2, <5>1
        <5> QED
          BY <1>2, <5>1, <5>2
      <4> QED
        BY <2>4, <4>1, <4>2
    <3> QED
      BY <3>1 DEF OwnKind
  <2>7. EachOnce(k)'
    <3>1. \A i, j \in 1 .. Len(m_pool'[k]) : m_pool'[k][i] = m_pool'[k][j] => i = j
      <4> TAKE i, j \in 1 .. Len(m_pool'[k])
      <4> HAVE m_pool'[k][i] = m_pool'[k][j]
      <4>1. \A n \in 2 .. Len(m_pool'[k]) : m_pool'[k][n] # c
        <5> TAKE n \in 2 .. Len(m_pool'[k])
        <5>1. n - 1 \in 1 .. Len(old) /\ m_pool'[k][n] = old[n - 1]
          BY <1>4
        <5> QED
          BY <2>2, <5>1
      <4>2. CASE i \in 2 .. Len(m_pool'[k]) /\ j \in 2 .. Len(m_pool'[k])
        <5>1. /\ i - 1 \in 1 .. Len(old) /\ m_pool'[k][i] = old[i - 1]
              /\ j - 1 \in 1 .. Len(old) /\ m_pool'[k][j] = old[j - 1]
          BY <1>4, <4>2
        <5>2. i - 1 = j - 1
          BY <2>3, <5>1
        <5> QED
          BY <5>2, <4>2
      <4> QED
        BY <1>4, <2>4, <4>1, <4>2
    <3> QED
      BY <3>1 DEF EachOnce
  <2>8. ASSUME NEW l \in Caps \ {k}
        PROVE  OwnKind(l)' /\ EachOnce(l)'
    BY <1>2, <1>5 DEF ListsInOrder, OwnKind, EachOnce
  <2> QED
    BY <2>1, <2>6, <2>7, <2>8 DEF ListsInOrder
<1>7. ASSUME NEW d \in Chunks, Listed(d)', d # c
      PROVE  Listed(d)
  <2>1. CASE d[1] = k
    <3>1. PICK i \in 1 .. Len(m_pool'[k]) : m_pool'[k][i] = d
      BY <1>7, <2>1 DEF Listed
    <3>2. i \in 2 .. Len(m_pool'[k])
      BY <1>4, <1>7, <3>1
    <3> QED
      BY <1>4, <2>1, <3>1, <3>2 DEF Listed
  <2>2. CASE d[1] # k
    BY <1>5, <1>7, <2>2 DEF Listed, Chunks
  <2> QED
    BY <2>1, <2>2
<1> QED
  BY <1>2, <1>6, <1>7

-----------------------------------------------------------------------------
(* The buffers.  Every step of theirs takes a chunk, gives one back, or leaves  *)
(* all of them where they are.                                                  *)

(* A chunk from the pool is with nobody: what is held is made and not listed.   *)
LEMMA TakeStep ==
  ASSUME BInv, ListsInOrder', NEW b \in Buffers, NEW c \in Chunks,
         Made(c)', ~Listed(c)', Listed(c) \/ ~Made(c),
         \A d \in Chunks : (Made(d) => Made(d)') /\ (Listed(d)' => Listed(d)),
         Held(b)' = Held(b) \cup {c},
         \A d \in Buffers \ {b} : Held(d)' = Held(d)
  PROVE  HeldByOne' /\ Alloc!Allocate(b, c)
<1>1. \A d \in Buffers : c \notin Held(d) /\ Held(d) \subseteq Chunks
  BY DEF BInv, HeldByOne, Places, Held
<1>2. ASSUME NEW e \in Buffers, NEW h \in Held(e)'
      PROVE  Made(h)' /\ ~Listed(h)' /\ \A d \in Buffers : h \in Held(d)' => d = e
  <2>1. CASE h = c
    BY <1>1, <1>2, <2>1
  <2>2. CASE h # c
    <3>1. h \in Held(e) /\ h \in Chunks
      BY <1>1, <1>2, <2>2
    <3>2. \A d \in Buffers : h \in Held(d)' => h \in Held(d)
      BY <2>2
    <3> QED
      BY <3>1, <3>2 DEF BInv, HeldByOne
  <2> QED
    BY <2>1, <2>2
<1>3. HeldByOne'
  BY <1>2 DEF HeldByOne
<1>4. ChunksOf' = [ChunksOf EXCEPT ![b] = @ \cup {c}]
  BY DEF ChunksOf
<1>5. c \in Chunks \ Alloc!InUse
  BY <1>1 DEF Alloc!InUse, ChunksOf
<1> QED
  BY <1>3, <1>4, <1>5 DEF Alloc!Allocate

LEMMA GiveStep ==
  ASSUME BInv, NEW b \in Buffers, NEW c \in Held(b), retrieve(c),
         Held(b)' = Held(b) \ {c},
         \A d \in Buffers \ {b} : Held(d)' = Held(d)
  PROVE  ListsInOrder' /\ HeldByOne' /\ Alloc!Release(b, c)
<1>1. \A d \in Buffers : Held(d) \subseteq Chunks
  BY DEF BInv, Places, Held
<1>2. c \in Chunks /\ Made(c) /\ ~Listed(c)
  BY <1>1 DEF BInv, HeldByOne
<1>3. /\ ListsInOrder' /\ created' = created
      /\ \A d \in Chunks : Listed(d)' => Listed(d) \/ d = c
  BY <1>2, RetrievedIsListed DEF BInv
<1>4. ASSUME NEW e \in Buffers, NEW h \in Held(e)'
      PROVE  Made(h)' /\ ~Listed(h)' /\ \A d \in Buffers : h \in Held(d)' => d = e
  <2>1. h # c /\ h \in Held(e) /\ h \in Chunks
    BY <1>1, <1>4 DEF BInv, HeldByOne
  <2>2. \A d \in Buffers : h \in Held(d)' => h \in Held(d)
    OBVIOUS
  <2>3. Made(h) /\ ~Listed(h) /\ \A d \in Buffers : h \in Held(d) => d = e
    BY <2>1 DEF BInv, HeldByOne
  <2> QED
    BY <1>3, <2>1, <2>2, <2>3 DEF Made
<1>5. HeldByOne'
  BY <1>4 DEF HeldByOne
<1>6. ChunksOf' = [ChunksOf EXCEPT ![b] = @ \ {c}]
  BY DEF ChunksOf
<1> QED
  BY <1>3, <1>5, <1>6 DEF Alloc!Release, ChunksOf

(* What a step shows to the abstract allocator.                                 *)
Shown(b) ==
  \/ \E c \in Chunks : Alloc!Allocate(b, c) \/ Alloc!Release(b, c)
  \/ ChunksOf' = ChunksOf

LEMMA QuietStep ==
  ASSUME BInv, NEW b \in Buffers,
         UNCHANGED <<m_pool, created, data_buf, new_buf>>,
         \/ UNCHANGED pc
         \/ pc[b] # "swap" /\ \E w \in {"idle", "popped", "reserve", "fill"} : Goto(b, w)
  PROVE  BInv' /\ Shown(b)
<1>1. ListsInOrder' /\ HeldByOne'
  BY DEF BInv, ListsInOrder, OwnKind, EachOnce, HeldByOne, Made, Listed, Held
<1>2. Places'
  BY DEF BInv, Places, SecondChunk, Goto
<1>3. Shown(b)
  BY DEF Shown, ChunksOf, Held
<1> QED
  BY <1>1, <1>2, <1>3 DEF BInv

LEMMA TakesFirst ==
  ASSUME BInv, NEW b \in Buffers, NEW c \in Chunks, FirstChunk(b, c)
  PROVE  BInv' /\ Shown(b)
<1>1. /\ pc[b] = "reserve" /\ data_buf[b] = NoChunk /\ new_buf[b] = NoChunk
      /\ data_buf' = [data_buf EXCEPT ![b] = c] /\ new_buf' = new_buf
      /\ pc' = [pc EXCEPT ![b] = "fill"] /\ c # NoChunk
  BY PoolAssumption DEF FirstChunk, BInv, Places, SecondChunk, Goto, Chunks
<1>2. Held(b)' = Held(b) \cup {c} /\ \A d \in Buffers \ {b} : Held(d)' = Held(d)
  BY <1>1 DEF Held, BInv, Places
<1>3. Places'
  BY <1>1 DEF BInv, Places, SecondChunk
<1> QED
  BY <1>2, <1>3, TakeStep, AllocatedIsUnused DEF FirstChunk, BInv, Shown

LEMMA TakesLarger ==
  ASSUME BInv, NEW b \in Buffers, NEW c \in Chunks, LargerChunk(b, c)
  PROVE  BInv' /\ Shown(b)
<1>1. /\ pc[b] = "reserve" /\ data_buf[b] # NoChunk /\ new_buf[b] = NoChunk
      /\ new_buf' = [new_buf EXCEPT ![b] = c] /\ data_buf' = data_buf
      /\ pc' = [pc EXCEPT ![b] = "swap"] /\ c # NoChunk
  BY PoolAssumption DEF LargerChunk, BInv, Places, SecondChunk, Goto, Chunks
<1>2. Held(b)' = Held(b) \cup {c} /\ \A d \in Buffers \ {b} : Held(d)' = Held(d)
  BY <1>1 DEF Held, BInv, Places
<1>3. /\ ListsInOrder' /\ Made(c)' /\ ~Listed(c)' /\ (Listed(c) \/ ~Made(c))
      /\ \A d \in Chunks : (Made(d) => Made(d)') /\ (Listed(d)' => Listed(d))
  BY AllocatedIsUnused DEF LargerChunk, BInv
<1>4. HeldByOne' /\ Alloc!Allocate(b, c)
  BY <1>2, <1>3, TakeStep
<1>5. data_buf[b] # c
  BY <1>1, <1>3 DEF BInv, HeldByOne, Held
<1>6. Places'
  BY <1>1, <1>5 DEF BInv, Places, SecondChunk
<1> QED
  BY <1>3, <1>4, <1>6 DEF BInv, Shown

LEMMA GivesOldBack ==
  ASSUME BInv, NEW b \in Buffers, GiveOldBack(b)
  PROVE  BInv' /\ Shown(b)
<1> DEFINE c == data_buf[b]
<1>1. /\ retrieve(c) /\ c # NoChunk /\ new_buf[b] # NoChunk /\ c # new_buf[b]
      /\ data_buf' = [data_buf EXCEPT ![b] = new_buf[b]]
      /\ new_buf' = [new_buf EXCEPT ![b] = NoChunk]
      /\ pc' = [pc EXCEPT ![b] = "fill"]
  BY DEF GiveOldBack, BInv, Places, SecondChunk, Goto
<1>2. /\ c \in Held(b) /\ c \in Chunks /\ Held(b)' = Held(b) \ {c}
      /\ \A d \in Buffers \ {b} : Held(d)' = Held(d)
  BY <1>1 DEF Held, BInv, Places
<1>3. Places'
  BY <1>1 DEF BInv, Places, SecondChunk
<1> QED
  BY <1>1, <1>2, <1>3, GiveStep DEF BInv, Shown

LEMMA GivesLast ==
  ASSUME BInv, NEW b \in Buffers, data_buf[b] # NoChunk, pc[b] # "swap",
         retrieve(data_buf[b]), UNCHANGED new_buf,
         data_buf' = [data_buf EXCEPT ![b] = NoChunk], Goto(b, "idle")
  PROVE  BInv' /\ Shown(b)
<1> DEFINE c == data_buf[b]
<1>1. new_buf[b] = NoChunk
  BY DEF BInv, Places, SecondChunk
<1>2. /\ c \in Held(b) /\ c \in Chunks /\ Held(b)' = Held(b) \ {c}
      /\ \A d \in Buffers \ {b} : Held(d)' = Held(d)
  BY <1>1 DEF Held, BInv, Places
<1>3. Places'
  BY <1>1 DEF BInv, Places, SecondChunk, Goto
<1> QED
  BY <1>2, <1>3, GiveStep DEF BInv, Shown

LEMMA BufferStep ==
  ASSUME BInv, NEW b \in Buffers,
         \/ Reserve(b) \/ clear(b)
         \/ b \in Inputs /\ InputStep(b)
         \/ b \in Outputs /\ OutputStep(b)
  PROVE  BInv' /\ Shown(b)
<1>1. CASE GiveUp(b) \/ KeepChunk(b)
  BY <1>1, QuietStep DEF GiveUp, KeepChunk, poolVars
<1>2. CASE LimitReached(b) \/ HeadFails(b)
  BY <1>2, QuietStep DEF LimitReached, HeadFails, Exit, poolVars, bufVars
<1>3. CASE GiveOldBack(b)
  BY <1>3, GivesOldBack
<1>4. ASSUME NEW c \in Chunks, FirstChunk(b, c) \/ LargerChunk(b, c)
      PROVE  BInv' /\ Shown(b)
  BY <1>4, TakesFirst, TakesLarger
<1>5. CASE clear(b)
  BY <1>5, GivesLast DEF clear
<1>6. ASSUME NEW n, pop(b, n)
      PROVE  BInv' /\ Shown(b)
  <2>1. CASE length(b) = n
    BY <1>6, <2>1, GivesLast DEF pop
  <2>2. CASE length(b) # n
    BY <1>6, <2>2, QuietStep DEF pop
  <2> QED
    BY <2>1, <2>2
<1>7. CASE BeginRead(b) \/ adjust(b) \/ Close(b)
  BY <1>7, QuietStep DEF BeginRead, adjust, Close, poolVars
<1>8. CASE Read(b) \/ Write(b)
  BY <1>8, QuietStep DEF Read, Write, Put
<1>9. ASSUME NEW n, Arrive(b, n) \/ BeginWrite(b, n) \/ write_to_fd(b, n)
      PROVE  BInv' /\ Shown(b)
  BY <1>9, QuietStep DEF Arrive, BeginWrite, write_to_fd, poolVars
<1> QED
  BY <1>1, <1>2, <1>3, <1>4, <1>5, <1>6, <1>7, <1>8, <1>9 DEF Reserve, InputStep, OutputStep

-----------------------------------------------------------------------------
LEMMA InitBInv == DataBufInit => BInv
<1> SUFFICES ASSUME DataBufInit
             PROVE  BInv
  OBVIOUS
<1>1. Places /\ \A b \in Buffers : Held(b) = {}
  BY DEF DataBufInit, Places, SecondChunk, Held
<1>2. ListsInOrder
  <2>1. \A k \in Caps : /\ [i \in 1 .. Initial[k] |-> <<k, i>>] \in Seq(Chunks)
                        /\ Len([i \in 1 .. Initial[k] |-> <<k, i>>]) = Initial[k]
    BY PoolAssumption DEF Chunks
  <2>2. \A k \in Caps : m_pool[k] = [i \in 1 .. Initial[k] |-> <<k, i>>]
    BY DEF DataBufInit, PoolInit
  <2>3. m_pool \in [Caps -> Seq(Chunks)] /\ created \in [Caps -> 0 .. PerCap]
    BY <2>1, PoolAssumption DEF DataBufInit, PoolInit
  <2>4. \A k \in Caps : OwnKind(k) /\ EachOnce(k)
    BY <2>1, <2>2, PoolAssumption DEF DataBufInit, PoolInit, OwnKind, EachOnce
  <2> QED
    BY <2>3, <2>4 DEF ListsInOrder
<1> QED
  BY <1>1, <1>2 DEF BInv, HeldByOne

LEMMA NextBInv ==
  ASSUME BInv, [DataBufNext]_dvars
  PROVE  BInv' /\ [Alloc!AllocatorNext]_ChunksOf
<1>1. CASE UNCHANGED dvars
  BY <1>1 DEF dvars, poolVars, bufVars, BInv, ListsInOrder, OwnKind, EachOnce,
              Places, SecondChunk, HeldByOne, Made, Listed, ChunksOf, Held
<1>2. ASSUME NEW b \in Buffers,
             \/ Reserve(b) \/ clear(b)
             \/ b \in Inputs /\ InputStep(b)
             \/ b \in Outputs /\ OutputStep(b)
      PROVE  BInv' /\ [Alloc!AllocatorNext]_ChunksOf
  BY <1>2, BufferStep DEF Shown, Alloc!AllocatorNext
<1> QED
  BY <1>1, <1>2 DEF DataBufNext, Buffers

(* A chunk in use is with one buffer and not in the free lists, through every   *)
(* interleaving of buffers that grow, shrink and empty.                         *)
ChunksHaveOneUser ==
  \A b \in Buffers : \A c \in Held(b) :
    ~Listed(c) /\ \A d \in Buffers : c \in Held(d) => d = b

THEOREM ChunksAreNotShared == DataBufSpec => []ChunksHaveOneUser
<1>1. BInv /\ [DataBufNext]_dvars => BInv'
  BY NextBInv
<1>2. BInv => ChunksHaveOneUser
  BY DEF BInv, HeldByOne, ChunksHaveOneUser
<1> QED
  BY <1>1, <1>2, InitBInv, PTL DEF DataBufSpec

(* alloc_chunk and retrieve, called by any number of buffers, keep the promise  *)
(* of an allocator: a chunk that is handed out is in nobody else's use, and is  *)
(* given back by its user only.                                                 *)
THEOREM PoolIsAllocator == DataBufSpec => ImplementsAllocator
<1>1. DataBufInit => Alloc!AllocatorInit
  BY DEF DataBufInit, Alloc!AllocatorInit, ChunksOf, Held
<1>2. BInv /\ [DataBufNext]_dvars => BInv' /\ [Alloc!AllocatorNext]_ChunksOf
  BY NextBInv
<1> QED
  BY <1>1, <1>2, InitBInv, PTL DEF DataBufSpec, ImplementsAllocator, Alloc!AllocatorSpec

-----------------------------------------------------------------------------
(* The bytes.  First the operations of chunk.cpp, on what a chunk of capacity n *)
(* holds: bytes g + 1, g + 2, ... of a stream, in order.                        *)
ChunkRecs(n) == [length : Nat, head : Nat, data : [0 .. n - 1 -> Nat]]
Within(h, n) == h.head + h.length <= n
Bytes(h, g) == \A i \in 0 .. h.length - 1 : h.data[h.head + i] = g + i + 1

LEMMA EmptyOk ==
  ASSUME NEW c \in Chunks
  PROVE  /\ EmptyChunk(c) \in ChunkRecs(capacity(c))
         /\ EmptyChunk(c).length = 0 /\ EmptyChunk(c).head = 0
  BY DEF EmptyChunk, ChunkRecs

LEMMA PopIndex ==
  ASSUME NEW size \in Nat, NEW head \in Nat, NEW n \in Nat, head + size <= n,
         NEW len \in Nat, len <= size, NEW g \in Nat, NEW i \in 0 .. size - len - 1
  PROVE  /\ len + i \in 0 .. size - 1 /\ head + len + i \in 0 .. n - 1
         /\ ~(head + len + i < head + len) /\ head + len + i = head + (len + i)
         /\ g + (len + i) + 1 = g + len + i + 1
  OBVIOUS

LEMMA PopOk ==
  ASSUME NEW n \in Nat, NEW h \in ChunkRecs(n), Within(h, n), NEW g \in Nat, Bytes(h, g),
         NEW len \in Nat, len <= h.length
  PROVE  /\ PopChunk(h, len) \in ChunkRecs(n)
         /\ PopChunk(h, len).length = h.length - len /\ PopChunk(h, len).head = h.head + len
         /\ Within(PopChunk(h, len), n) /\ Bytes(PopChunk(h, len), g + len)
<1>1. /\ h.length \in Nat /\ h.head \in Nat /\ h.data \in [0 .. n - 1 -> Nat]
      /\ h.head + h.length <= n
  BY DEF ChunkRecs, Within
<1> DEFINE p == PopChunk(h, len)
           a == h.length - len
           b == h.head + len
           d == [i \in DOMAIN h.data |-> IF i < b THEN 0 ELSE h.data[i]]
<1>2. p = [h EXCEPT !.length = a, !.head = b, !.data = d]
  BY DEF PopChunk
<1>3. a \in Nat /\ b \in Nat /\ d \in [0 .. n - 1 -> Nat]
  BY <1>1
<1>4. \A i \in 0 .. n - 1 : ~(i < b) => d[i] = h.data[i]
  BY <1>1
<1>5. a = h.length - len /\ b = h.head + len
  OBVIOUS
<1>6. ASSUME NEW i \in 0 .. a - 1
      PROVE  /\ len + i \in 0 .. h.length - 1 /\ b + i \in 0 .. n - 1
             /\ ~(b + i < b) /\ b + i = h.head + (len + i)
             /\ g + (len + i) + 1 = g + len + i + 1
  <2>1. PICK l \in Nat, k \in Nat : l = h.length /\ k = h.head
    BY <1>1
  <2>2. i \in 0 .. l - len - 1 /\ len <= l /\ k + l <= n
    BY <1>1, <2>1
  <2>3. /\ len + i \in 0 .. l - 1 /\ k + len + i \in 0 .. n - 1
        /\ ~(k + len + i < k + len) /\ k + len + i = k + (len + i)
        /\ g + (len + i) + 1 = g + len + i + 1
    BY <2>2, PopIndex
  <2> QED
    BY <2>1, <2>3
<1> HIDE DEF p, a, b, d
<1>7. p \in ChunkRecs(n) /\ p.length = a /\ p.head = b /\ p.data = d
  BY <1>2, <1>3 DEF ChunkRecs
<1>8. ASSUME NEW i \in 0 .. a - 1
      PROVE  d[b + i] = g + len + i + 1
  <2>1. h.data[h.head + (len + i)] = g + (len + i) + 1
    BY <1>6 DEF Bytes
  <2> QED
    BY <1>4, <1>6, <2>1
<1> QED
  BY <1>1, <1>5, <1>7, <1>8 DEF Within, Bytes, p

LEMMA AdjustOk ==
  ASSUME NEW n \in Nat, NEW h \in ChunkRecs(n), Within(h, n), NEW g \in Nat, Bytes(h, g)
  PROVE  /\ AdjustChunk(h) \in ChunkRecs(n)
         /\ AdjustChunk(h).length = h.length /\ AdjustChunk(h).head = 0
         /\ Within(AdjustChunk(h), n) /\ Bytes(AdjustChunk(h), g)
<1>1. /\ h.length \in Nat /\ h.head \in Nat /\ h.data \in [0 .. n - 1 -> Nat]
      /\ h.head + h.length <= n
  BY DEF ChunkRecs, Within
<1> DEFINE p == AdjustChunk(h)
           d == [i \in DOMAIN h.data |-> IF i < h.length THEN h.data[h.head + i] ELSE 0]
<1>2. p = [h EXCEPT !.head = 0, !.data = d]
  BY DEF AdjustChunk
<1>3. ASSUME NEW i \in 0 .. n - 1, i < h.length
      PROVE  h.data[h.head + i] = g + i + 1 /\ g + i + 1 \in Nat
  BY <1>1, <1>3 DEF Bytes
<1>4. d \in [0 .. n - 1 -> Nat] /\ \A i \in 0 .. n - 1 : i < h.length => d[i] = g + i + 1
  BY <1>1, <1>3
<1> HIDE DEF p, d
<1>5. p \in ChunkRecs(n) /\ p.length = h.length /\ p.head = 0 /\ p.data = d
  BY <1>1, <1>2, <1>4 DEF ChunkRecs
<1>6. \A i \in 0 .. h.length - 1 : i \in 0 .. n - 1 /\ i < h.length /\ 0 + i = i
  BY <1>1
<1> QED
  BY <1>1, <1>4, <1>5, <1>6 DEF Within, Bytes, p

LEMMA CopyOk ==
  ASSUME NEW n \in Nat, NEW h \in ChunkRecs(n), Within(h, n), NEW g \in Nat, Bytes(h, g),
         NEW m \in Nat, NEW e \in [0 .. m - 1 -> Nat], h.length <= m
  PROVE  /\ CopyChunk(e, h) \in ChunkRecs(m)
         /\ CopyChunk(e, h).length = h.length /\ CopyChunk(e, h).head = 0
         /\ Within(CopyChunk(e, h), m) /\ Bytes(CopyChunk(e, h), g)
<1>1. /\ h.length \in Nat /\ h.head \in Nat /\ h.data \in [0 .. n - 1 -> Nat]
      /\ h.head + h.length <= n
  BY DEF ChunkRecs, Within
<1> DEFINE p == CopyChunk(e, h)
           d == [i \in DOMAIN e |-> IF i < h.length THEN h.data[h.head + i] ELSE e[i]]
<1>2. p = [length |-> h.length, head |-> 0, data |-> d]
  BY DEF CopyChunk
<1>3. ASSUME NEW i \in 0 .. m - 1, i < h.length
      PROVE  h.data[h.head + i] = g + i + 1 /\ g + i + 1 \in Nat
  BY <1>1, <1>3 DEF Bytes
<1>4. d \in [0 .. m - 1 -> Nat] /\ \A i \in 0 .. m - 1 : i < h.length => d[i] = g + i + 1
  BY <1>1, <1>3
<1> HIDE DEF p, d
<1>5. p \in ChunkRecs(m) /\ p.length = h.length /\ p.head = 0 /\ p.data = d
  BY <1>1, <1>2, <1>4 DEF ChunkRecs
<1>6. \A i \in 0 .. h.length - 1 : i \in 0 .. m - 1 /\ i < h.length /\ 0 + i = i
  BY <1>1
<1> QED
  BY <1>1, <1>4, <1>5, <1>6 DEF Within, Bytes, p

LEMMA AppendOk ==
  ASSUME NEW n \in Nat, NEW h \in ChunkRecs(n), NEW g \in Nat, Bytes(h, g), h.head = 0,
         NEW k \in Nat, h.length + k <= n, NEW first, first = g + h.length + 1
  PROVE  /\ Append_(h, k, first) \in ChunkRecs(n)
         /\ Append_(h, k, first).length = h.length + k /\ Append_(h, k, first).head = 0
         /\ Within(Append_(h, k, first), n) /\ Bytes(Append_(h, k, first), g)
<1>1. h.length \in Nat /\ h.head = 0 /\ h.data \in [0 .. n - 1 -> Nat]
  BY DEF ChunkRecs
<1> DEFINE p == Append_(h, k, first)
           a == h.length + k
           d == [i \in DOMAIN h.data |-> IF i \in h.length .. h.length + k - 1
                                         THEN first + i - h.length ELSE h.data[i]]
<1>2. p = [h EXCEPT !.length = a, !.data = d]
  BY DEF Append_
<1>3. a \in Nat /\ a <= n /\ a = h.length + k
  BY <1>1
<1>4. ASSUME NEW i \in 0 .. n - 1, i < a
      PROVE  d[i] = g + i + 1
  <2>1. CASE i \in h.length .. h.length + k - 1
    <3>1. d[i] = first + i - h.length
      BY <1>1, <2>1
    <3> QED
      BY <1>1, <3>1
  <2>2. CASE i \notin h.length .. h.length + k - 1
    <3>1. i \in 0 .. h.length - 1 /\ h.head + i = i
      BY <1>1, <1>4, <2>2
    <3>2. h.data[i] = g + i + 1
      BY <3>1 DEF Bytes
    <3> QED
      BY <1>1, <2>2, <3>2
  <2> QED
    BY <2>1, <2>2
<1>5. d \in [0 .. n - 1 -> Nat]
  <2>1. \A i \in h.length .. h.length + k - 1 : first + i - h.length = g + 1 + i /\ g + 1 + i \in Nat
    BY <1>1
  <2> QED
    BY <1>1, <2>1
<1> HIDE DEF p, a, d
<1>6. p \in ChunkRecs(n) /\ p.length = a /\ p.head = 0 /\ p.data = d
  BY <1>1, <1>2, <1>3, <1>5 DEF ChunkRecs
<1>7. \A i \in 0 .. a - 1 : i \in 0 .. n - 1 /\ i < a /\ 0 + i = i
  BY <1>3
<1> QED
  BY <1>3, <1>4, <1>6, <1>7 DEF Within, Bytes, p

-----------------------------------------------------------------------------
(* What the buffers hold.  A chunk c of buffer b holds the bytes of b's stream  *)
(* that are not taken out; while the buffer grows the second chunk holds them   *)
(* as well, at the front and with room for those that are to come.              *)
Holds(b, c) ==
  /\ Within(chunk[c], capacity(c))
  /\ put[b] = got[b] + chunk[c].length
  /\ Bytes(chunk[c], got[b])

Room(b, c) == chunk[c].length + need[b] <= capacity(c)

BufOK(b) ==
  /\ data_buf[b] = NoChunk => put[b] = got[b] /\ pc[b] \in {"idle", "reserve"}
  /\ data_buf[b] # NoChunk =>
       Holds(b, data_buf[b]) /\ (pc[b] # "popped" => chunk[data_buf[b]].head = 0)
  /\ pc[b] = "swap" =>
       Holds(b, new_buf[b]) /\ chunk[new_buf[b]].head = 0 /\ Room(b, new_buf[b])
  /\ pc[b] = "fill" => Room(b, data_buf[b])
  /\ b \in Inputs /\ pc[b] \in {"reserve", "swap", "fill"} /\ need[b] = 0 =>
       b \in closed /\ avail[b] = 0

StreamTypes ==
  /\ DOMAIN chunk = Chunks
  /\ \A c \in Chunks : chunk[c] \in ChunkRecs(capacity(c))
  /\ need \in [Buffers -> Nat]
  /\ put \in [Buffers -> Nat] /\ got \in [Buffers -> Nat]
  /\ avail \in [Inputs -> Nat]
  /\ buf_fault = {}

(* A chunk that nobody holds is empty: retrieve empties it.                     *)
UnusedEmpty ==
  \A c \in Chunks : (\A b \in Buffers : c \notin Held(b)) => chunk[c] = EmptyChunk(c)

SInv == StreamTypes /\ UnusedEmpty /\ \A b \in Buffers : BufOK(b)

LEMMA InitSInv == DataBufInit => SInv
<1> SUFFICES ASSUME DataBufInit
             PROVE  SInv
  OBVIOUS
<1>1. DOMAIN chunk = Chunks /\ \A c \in Chunks : chunk[c] = EmptyChunk(c)
  BY DEF DataBufInit, PoolInit
<1>2. StreamTypes
  BY <1>1, EmptyOk DEF StreamTypes, DataBufInit
<1>3. \A b \in Buffers : BufOK(b)
  BY DEF DataBufInit, BufOK
<1> QED
  BY <1>1, <1>2, <1>3 DEF SInv, UnusedEmpty

(* A step of b leaves the others' fields alone, and their chunks: a chunk is    *)
(* with one buffer.                                                             *)
OnlyOf(b) ==
  \A d \in Buffers \ {b} :
    /\ data_buf'[d] = data_buf[d] /\ new_buf'[d] = new_buf[d] /\ pc'[d] = pc[d]
    /\ need'[d] = need[d] /\ put'[d] = put[d] /\ got'[d] = got[d]
    /\ d \in closed' <=> d \in closed
    /\ d \in Inputs => avail'[d] = avail[d]

LEMMA OneBuffer ==
  ASSUME BInv, BInv', SInv, NEW b \in Buffers, OnlyOf(b), StreamTypes', BufOK(b)',
         \A c \in Chunks : c \notin Held(b) \cup Held(b)' => chunk'[c] = chunk[c],
         \A c \in Held(b) \ Held(b)' : chunk'[c] = EmptyChunk(c)
  PROVE  SInv'
<1>1. ASSUME NEW d \in Buffers \ {b}
      PROVE  BufOK(d)'
  <2>1. BufOK(d) /\ Held(d)' = Held(d)
    BY DEF SInv, OnlyOf, Held
  <2>2. \A c \in Held(d) : c \in Chunks /\ c \notin Held(b)
    BY DEF BInv, HeldByOne, Places, Held
  <2>3. \A c \in Held(d)' : c \notin Held(b)'
    BY DEF BInv, HeldByOne
  <2>4. \A c \in Held(d) : chunk'[c] = chunk[c]
    BY <2>1, <2>2, <2>3
  <2>5. /\ data_buf[d] # NoChunk => data_buf[d] \in Held(d)
        /\ pc[d] = "swap" => new_buf[d] \in Held(d)
        /\ pc[d] = "fill" => data_buf[d] # NoChunk
    BY <2>1 DEF BInv, Places, SecondChunk, Held, BufOK
  <2> QED
    BY <2>1, <2>4, <2>5 DEF OnlyOf, BufOK, Holds, Room
<1>2. UnusedEmpty'
  <2> SUFFICES ASSUME NEW c \in Chunks, \A d \in Buffers : c \notin Held(d)'
               PROVE  chunk'[c] = EmptyChunk(c)
    BY DEF UnusedEmpty
  <2>1. CASE c \in Held(b)
    BY <2>1
  <2>2. CASE c \notin Held(b)
    <3>1. \A d \in Buffers : c \notin Held(d)
      BY <2>2 DEF OnlyOf, Held
    <3> QED
      BY <2>2, <3>1 DEF SInv, UnusedEmpty
  <2> QED
    BY <2>1, <2>2
<1> QED
  BY <1>1, <1>2 DEF SInv

(* The capacity that a size gets is not smaller, and a chunk from the pool is   *)
(* empty.                                                                       *)
LEMMA AllocatedIsEmpty ==
  ASSUME BInv, SInv, NEW n, NEW c \in Chunks, alloc_chunk(n, c)
  PROVE  /\ n <= capacity(c) /\ chunk[c] = EmptyChunk(c)
         /\ \A b \in Buffers : c \notin Held(b)
<1>1. ClassOf(n) \in Caps /\ n <= ClassOf(n)
  BY ClassIsCapacity DEF alloc_chunk
<1>2. c[1] = ClassOf(n)
  <2>1. CASE TakeFree(n, c)
    <3>1. m_pool[ClassOf(n)] # <<>> /\ m_pool[ClassOf(n)] \in Seq(Chunks)
          /\ c = Head(m_pool[ClassOf(n)])
      BY <1>1, <2>1 DEF TakeFree, BInv, ListsInOrder
    <3>2. 1 \in 1 .. Len(m_pool[ClassOf(n)]) /\ c = m_pool[ClassOf(n)][1]
      BY <3>1
    <3> QED
      BY <1>1, <3>2 DEF BInv, ListsInOrder, OwnKind
  <2>2. CASE MakeNew(n, c)
    BY <2>2 DEF MakeNew
  <2> QED
    BY <2>1, <2>2 DEF alloc_chunk
<1>3. \A b \in Buffers : c \notin Held(b)
  BY AllocatedIsUnused DEF BInv, HeldByOne
<1> QED
  BY <1>1, <1>2, <1>3 DEF SInv, UnusedEmpty, capacity

LEMMA ChunkFields ==
  ASSUME SInv, NEW c \in Chunks
  PROVE  /\ capacity(c) \in Nat /\ c # NoChunk
         /\ chunk[c] \in ChunkRecs(capacity(c))
         /\ chunk[c].length \in Nat /\ chunk[c].head \in Nat
         /\ chunk[c].data \in [0 .. capacity(c) - 1 -> Nat]
<1>1. capacity(c) \in Nat /\ c # NoChunk
  BY PoolAssumption DEF Chunks, capacity
<1>2. chunk[c] \in ChunkRecs(capacity(c))
  BY DEF SInv, StreamTypes
<1> QED
  BY <1>1, <1>2 DEF ChunkRecs

LEMMA BufFields ==
  ASSUME BInv, SInv, NEW b \in Buffers
  PROVE  /\ data_buf[b] \in Chunks \cup {NoChunk} /\ new_buf[b] \in Chunks \cup {NoChunk}
         /\ pc[b] \in {"idle", "popped", "reserve", "swap", "fill"}
         /\ need[b] \in Nat /\ put[b] \in Nat /\ got[b] \in Nat
         /\ BufOK(b)
         /\ pc[b] # "swap" => new_buf[b] = NoChunk
         /\ pc[b] = "swap" => data_buf[b] # NoChunk /\ new_buf[b] # NoChunk /\ data_buf[b] # new_buf[b]
  BY DEF BInv, Places, SecondChunk, SInv, StreamTypes

(* Steps that move no byte: the call is entered, or finds room, or gives up.    *)
LEMMA PlainStep ==
  ASSUME BInv, BInv', SInv, NEW b \in Buffers,
         \/ GiveUp(b) \/ KeepChunk(b) \/ LimitReached(b) \/ HeadFails(b)
         \/ b \in Inputs /\ (BeginRead(b) \/ Close(b))
         \/ b \in Inputs /\ \E n \in 1 .. MaxBytes : Arrive(b, n)
         \/ b \in Outputs /\ \E n \in 1 .. MaxBytes : BeginWrite(b, n)
  PROVE  SInv'
<1> USE BufFields
<1>0. /\ UNCHANGED <<data_buf, new_buf, chunk, put, got>>
      /\ Held(b)' = Held(b)
  BY DEF GiveUp, KeepChunk, LimitReached, HeadFails, BeginRead, Close, Arrive, BeginWrite,
         Exit, poolVars, bufVars, Held
<1>1. CASE GiveUp(b)
  <2>1. StreamTypes' /\ OnlyOf(b)
    BY <1>1, <1>0 DEF GiveUp, SInv, StreamTypes, OnlyOf, Goto, BInv, Places, poolVars
  <2>2. BufOK(b)'
    BY <1>1, <1>0 DEF GiveUp, BufOK, Holds, Room, Goto, BInv, Places, poolVars
  <2> QED
    BY <1>0, <2>1, <2>2, OneBuffer
<1>2. CASE KeepChunk(b)
  <2>1. StreamTypes' /\ OnlyOf(b)
    BY <1>2, <1>0 DEF KeepChunk, SInv, StreamTypes, OnlyOf, Goto, BInv, Places, poolVars
  <2>2. /\ data_buf[b] \in Chunks /\ Holds(b, data_buf[b])
        /\ capacity(data_buf[b]) - chunk[data_buf[b]].length >= need[b]
        /\ pc'[b] = "fill" /\ need' = need /\ avail' = avail /\ closed' = closed /\ pc[b] = "reserve"
    BY <1>2 DEF KeepChunk, HasRoom, length, Content, BufOK, Goto, BInv, Places, poolVars
  <2>3. Room(b, data_buf[b])
    BY <2>2, ChunkFields DEF Room
  <2>4. BufOK(b)'
    BY <1>0, <2>2, <2>3, ChunkFields DEF BufOK, Holds, Room
  <2> QED
    BY <1>0, <2>1, <2>4, OneBuffer
<1>3. CASE LimitReached(b)
  BY <1>3, <1>0 DEF LimitReached, bufVars, SInv, StreamTypes, UnusedEmpty, BufOK, Holds, Room, Held
<1>4. CASE HeadFails(b)
  BY <1>4 DEF HeadFails, HeadAssert, BufOK, Content
<1>5. CASE b \in Inputs /\ BeginRead(b)
  <2>1. StreamTypes' /\ OnlyOf(b)
    BY <1>5, <1>0 DEF BeginRead, SInv, StreamTypes, OnlyOf, Goto, BInv, Places, poolVars
  <2>2. /\ pc[b] = "idle" /\ pc'[b] = "reserve" /\ need'[b] = avail[b] /\ avail' = avail
        /\ closed' = closed /\ avail[b] \in Nat /\ (avail[b] > 0 \/ b \in closed)
    BY <1>5 DEF BeginRead, Goto, BInv, Places, SInv, StreamTypes
  <2>3. BufOK(b)'
    BY <1>0, <2>2 DEF BufOK, Holds, Room
  <2> QED
    BY <1>0, <2>1, <2>3, OneBuffer
<1>6. CASE b \in Inputs /\ Close(b)
  <2>1. StreamTypes' /\ OnlyOf(b)
    BY <1>6, <1>0 DEF Close, SInv, StreamTypes, OnlyOf, poolVars
  <2>2. BufOK(b)'
    BY <1>6, <1>0 DEF Close, BufOK, Holds, Room
  <2> QED
    BY <1>0, <2>1, <2>2, OneBuffer
<1>7. ASSUME b \in Inputs, NEW n \in 1 .. MaxBytes, Arrive(b, n)
      PROVE  SInv'
  <2>1. StreamTypes' /\ OnlyOf(b)
    BY <1>7, <1>0, BufferAssumption DEF Arrive, SInv, StreamTypes, OnlyOf, poolVars
  <2>2. BufOK(b)'
    BY <1>7, <1>0 DEF Arrive, BufOK, Holds, Room
  <2> QED
    BY <1>0, <2>1, <2>2, OneBuffer
<1>8. ASSUME b \in Outputs, NEW n \in 1 .. MaxBytes, BeginWrite(b, n)
      PROVE  SInv'
  <2>1. StreamTypes' /\ OnlyOf(b)
    BY <1>8, <1>0, BufferAssumption
       DEF BeginWrite, SInv, StreamTypes, OnlyOf, Goto, BInv, Places, poolVars
  <2>2. pc[b] = "idle" /\ pc'[b] = "reserve" /\ b \notin Inputs
    BY <1>8, BufferAssumption DEF BeginWrite, Goto, BInv, Places
  <2>3. BufOK(b)'
    BY <1>0, <2>2 DEF BufOK, Holds, Room
  <2> QED
    BY <1>0, <2>1, <2>3, OneBuffer
<1> QED
  BY <1>1, <1>2, <1>3, <1>4, <1>5, <1>6, <1>7, <1>8

(* The steps that take a chunk from the pool.                                   *)
LEMMA FirstChunkStep ==
  ASSUME BInv, BInv', SInv, NEW b \in Buffers, NEW c \in Chunks, FirstChunk(b, c)
  PROVE  SInv'
<1> USE BufFields
<1>1. /\ need[b] + 0 <= capacity(c) /\ chunk[c] = EmptyChunk(c)
      /\ data_buf[b] = NoChunk /\ pc[b] = "reserve"
  BY AllocatedIsEmpty DEF FirstChunk, Wanted, length
<1>2. /\ chunk' = chunk /\ new_buf' = new_buf /\ need' = need /\ put' = put /\ got' = got
      /\ avail' = avail /\ closed' = closed /\ buf_fault' = buf_fault
      /\ data_buf'[b] = c /\ pc'[b] = "fill"
  BY DEF FirstChunk, Goto, BInv, Places
<1>3. StreamTypes' /\ OnlyOf(b)
  BY <1>2 DEF FirstChunk, Goto, SInv, StreamTypes, OnlyOf, BInv, Places
<1>4. chunk[c].length = 0 /\ chunk[c].head = 0 /\ c # NoChunk /\ capacity(c) \in Nat
  BY <1>1, EmptyOk, ChunkFields
<1>5. Holds(b, c)' /\ Room(b, c)'
  BY <1>1, <1>2, <1>4 DEF BufOK, Holds, Room, Within, Bytes
<1>6. BufOK(b)'
  BY <1>1, <1>2, <1>4, <1>5 DEF BufOK
<1>7. Held(b) = {}
  BY <1>1 DEF Held
<1> QED
  BY <1>2, <1>3, <1>6, <1>7, OneBuffer

LEMMA LargerChunkStep ==
  ASSUME BInv, BInv', SInv, NEW b \in Buffers, NEW c \in Chunks, LargerChunk(b, c)
  PROVE  SInv'
<1> USE BufFields
<1>0. PICK o \in Chunks : o = data_buf[b]
  BY DEF LargerChunk
<1> DEFINE p == CopyChunk(chunk[c].data, chunk[o])
<1>1. /\ need[b] + chunk[o].length <= capacity(c)
      /\ pc[b] = "reserve" /\ chunk[o].head = 0 /\ Holds(b, o)
  BY <1>0, AllocatedIsEmpty DEF LargerChunk, Wanted, length, Content, BufOK
<1>2. /\ chunk' = [chunk EXCEPT ![c] = p]
      /\ data_buf' = data_buf /\ need' = need /\ put' = put /\ got' = got
      /\ avail' = avail /\ closed' = closed /\ buf_fault' = buf_fault
      /\ new_buf'[b] = c /\ pc'[b] = "swap" /\ new_buf[b] = NoChunk
  BY <1>0 DEF LargerChunk, Goto, BInv, Places, SecondChunk, Content
<1>3. \A d \in Buffers : c \notin Held(d)
  BY AllocatedIsEmpty DEF LargerChunk
<1>4. c # o /\ Held(b) = {o} /\ Held(b)' = {o, c}
  BY <1>0, <1>2, <1>3, ChunkFields DEF Held
<1>5. /\ capacity(c) \in Nat /\ capacity(o) \in Nat
      /\ chunk[o] \in ChunkRecs(capacity(o)) /\ chunk[c].data \in [0 .. capacity(c) - 1 -> Nat]
      /\ chunk[o].length \in Nat /\ chunk[o].length <= capacity(c)
  BY <1>1, ChunkFields
<1>6. /\ p \in ChunkRecs(capacity(c)) /\ p.length = chunk[o].length /\ p.head = 0
      /\ Within(p, capacity(c)) /\ Bytes(p, got[b])
  BY <1>1, <1>5, CopyOk DEF Holds
<1> HIDE DEF p
<1>7. /\ DOMAIN chunk = Chunks /\ chunk'[c] = p
      /\ \A e \in Chunks \ {c} : chunk'[e] = chunk[e]
  BY <1>2 DEF SInv, StreamTypes
<1>8. StreamTypes' /\ OnlyOf(b)
  BY <1>2, <1>6, <1>7 DEF LargerChunk, Goto, SInv, StreamTypes, OnlyOf, BInv, Places
<1>9. Holds(b, o)' /\ Holds(b, c)' /\ Room(b, c)'
  BY <1>1, <1>2, <1>4, <1>5, <1>6, <1>7 DEF Holds, Room
<1>10. BufOK(b)'
  BY <1>0, <1>1, <1>2, <1>4, <1>6, <1>7, <1>9, ChunkFields DEF BufOK
<1> QED
  BY <1>4, <1>7, <1>8, <1>10, OneBuffer

(* The steps that give a chunk back, emptied.                                   *)
LEMMA GiveOldBackStep ==
  ASSUME BInv, BInv', SInv, NEW b \in Buffers, GiveOldBack(b)
  PROVE  SInv'
<1> USE BufFields
<1>0. PICK o \in Chunks, c \in Chunks : o = data_buf[b] /\ c = new_buf[b]
  BY DEF GiveOldBack
<1>1. /\ pc[b] = "swap" /\ o # c /\ c # NoChunk
      /\ Holds(b, c) /\ Room(b, c) /\ chunk[c].head = 0
  BY <1>0 DEF GiveOldBack, BufOK
<1>2. /\ chunk' = [chunk EXCEPT ![o] = EmptyChunk(o)]
      /\ data_buf'[b] = c /\ new_buf'[b] = NoChunk /\ pc'[b] = "fill"
      /\ need' = need /\ put' = put /\ got' = got
      /\ avail' = avail /\ closed' = closed /\ buf_fault' = buf_fault
  BY <1>0 DEF GiveOldBack, retrieve, Goto, BInv, Places
<1>3. Held(b) = {o, c} /\ Held(b)' = {c}
  BY <1>0, <1>2, ChunkFields DEF Held
<1>4. /\ DOMAIN chunk = Chunks /\ chunk'[o] = EmptyChunk(o)
      /\ \A e \in Chunks \ {o} : chunk'[e] = chunk[e]
  BY <1>1, <1>2 DEF SInv, StreamTypes
<1>5. StreamTypes' /\ OnlyOf(b)
  BY <1>0, <1>2, <1>4, EmptyOk DEF GiveOldBack, Goto, SInv, StreamTypes, OnlyOf, BInv, Places
<1>6. Holds(b, c)' /\ Room(b, c)'
  BY <1>1, <1>2, <1>4 DEF Holds, Room
<1>7. BufOK(b)'
  BY <1>1, <1>2, <1>4, <1>6 DEF BufOK
<1> QED
  BY <1>3, <1>4, <1>5, <1>7, OneBuffer

LEMMA GiveLastStep ==
  ASSUME BInv, BInv', SInv, NEW b \in Buffers, data_buf[b] # NoChunk, pc[b] # "swap",
         retrieve(data_buf[b]), data_buf' = [data_buf EXCEPT ![b] = NoChunk], Goto(b, "idle"),
         got' = [got EXCEPT ![b] = put[b]],
         UNCHANGED <<new_buf, need, put, avail, closed, buf_fault>>
  PROVE  SInv'
<1> USE BufFields
<1> DEFINE o == data_buf[b]
<1>1. o \in Chunks /\ Held(b) = {o} /\ pc'[b] = "idle" /\ data_buf'[b] = NoChunk
      /\ got'[b] = put[b] /\ chunk' = [chunk EXCEPT ![o] = EmptyChunk(o)]
  BY DEF retrieve, Goto, BInv, Places, Held, SInv, StreamTypes
<1>2. Held(b)' = {}
  BY <1>1 DEF Held
<1>3. /\ DOMAIN chunk = Chunks /\ chunk'[o] = EmptyChunk(o)
      /\ \A e \in Chunks \ {o} : chunk'[e] = chunk[e]
  BY <1>1 DEF SInv, StreamTypes
<1>4. StreamTypes' /\ OnlyOf(b)
  BY <1>1, <1>3, EmptyOk DEF Goto, SInv, StreamTypes, OnlyOf, BInv, Places
<1>5. BufOK(b)'
  BY <1>1 DEF BufOK
<1> QED
  BY <1>1, <1>2, <1>3, <1>4, <1>5, OneBuffer

(* The steps that change what the chunk holds.                                  *)
LEMMA ContentStep ==
  ASSUME BInv, BInv', SInv, NEW b \in Buffers, NEW o \in Chunks, o = data_buf[b], pc[b] # "swap",
         NEW p \in ChunkRecs(capacity(o)), chunk' = [chunk EXCEPT ![o] = p],
         UNCHANGED <<data_buf, new_buf, need, closed, buf_fault>>,
         NEW where \in {"idle", "popped"}, pc' = [pc EXCEPT ![b] = where],
         NEW s \in Nat, put' = [put EXCEPT ![b] = s],
         NEW g \in Nat, got' = [got EXCEPT ![b] = g],
         avail' \in [Inputs -> Nat], \A d \in Inputs \ {b} : avail'[d] = avail[d],
         Within(p, capacity(o)), s = g + p.length, Bytes(p, g), where # "popped" => p.head = 0
  PROVE  SInv'
<1> USE BufFields
<1>1. Held(b) = {o} /\ Held(b)' = {o}
  BY ChunkFields DEF Held
<1>2. /\ DOMAIN chunk = Chunks /\ chunk'[o] = p
      /\ \A e \in Chunks \ {o} : chunk'[e] = chunk[e]
  BY DEF SInv, StreamTypes
<1>3. StreamTypes' /\ OnlyOf(b)
  BY <1>2 DEF SInv, StreamTypes, OnlyOf, BInv, Places
<1>4. pc'[b] = where /\ put'[b] = s /\ got'[b] = g /\ data_buf'[b] = o /\ o # NoChunk
  BY ChunkFields DEF SInv, StreamTypes, BInv, Places
<1>5. Holds(b, o)'
  BY <1>2, <1>4 DEF Holds
<1>6. BufOK(b)'
  BY <1>2, <1>4, <1>5 DEF BufOK
<1> QED
  BY <1>1, <1>2, <1>3, <1>6, OneBuffer

LEMMA LeastCapacity == Min(Caps) \in Nat
<1> DEFINE R == OpToRel(<, Nat)
<1>1. Caps \subseteq Nat /\ Caps # {}
  BY PoolAssumption
<1>2. IsWellFoundedOn(R, Nat)
  BY NatLessThanWellFounded
<1>3. \A i, j \in Nat : i < j => <<i, j>> \in R
  BY DEF OpToRel
<1> HIDE DEF R
<1>4. PICK k \in Caps : \A j \in Caps : ~(<<j, k>> \in R)
  BY <1>1, <1>2, WFMin
<1>5. \A j \in Caps : k <= j
  <2> SUFFICES ASSUME NEW j \in Caps, ~(k <= j)
               PROVE  FALSE
    OBVIOUS
  <2>1. j \in Nat /\ k \in Nat /\ j < k
    BY <1>1
  <2> QED
    BY <1>3, <1>4, <2>1
<1> QED
  BY <1>1, <1>4, <1>5 DEF Min

LEMMA LesserOf ==
  ASSUME NEW x \in Nat, NEW y \in Nat
  PROVE  Min({x, y}) \in Nat /\ Min({x, y}) <= x /\ Min({x, y}) <= y
<1>1. \E m \in {x, y} : \A n \in {x, y} : m <= n
  OBVIOUS
<1> QED
  BY <1>1 DEF Min

(* The bytes that are put in fit: there is room for need of them, and of those  *)
(* that a read did not announce (need = 0) there are none.                      *)
LEMMA PutStep ==
  ASSUME BInv, BInv', SInv, NEW b \in Buffers, pc[b] = "fill", NEW n \in Nat, n <= need[b],
         Put(b, n), avail' \in [Inputs -> Nat], \A d \in Inputs \ {b} : avail'[d] = avail[d]
  PROVE  SInv'
<1> USE BufFields
<1>1. PICK o \in Chunks : o = data_buf[b]
  BY DEF BufOK
<1>2. /\ Holds(b, o) /\ chunk[o].head = 0 /\ Room(b, o) /\ o # NoChunk
      /\ length(b) = chunk[o].length
  BY <1>1, ChunkFields DEF BufOK, length, Content
<1>3. /\ capacity(o) \in Nat /\ chunk[o] \in ChunkRecs(capacity(o))
      /\ chunk[o].length \in Nat
  BY ChunkFields
<1>4. chunk[o].length + n <= capacity(o)
  BY <1>2, <1>3 DEF Room
<1>5. /\ put' = [put EXCEPT ![b] = put[b] + n] /\ pc' = [pc EXCEPT ![b] = "idle"]
      /\ got' = [got EXCEPT ![b] = got[b]]
      /\ UNCHANGED <<data_buf, new_buf, need, closed, buf_fault>>
      /\ chunk' = [chunk EXCEPT ![o] = Append_(chunk[o], n, put[b] + 1)]
  BY <1>1, <1>2, <1>4 DEF Put, Goto, SInv, StreamTypes
<1>6. put[b] + 1 = got[b] + chunk[o].length + 1 /\ put[b] + n \in Nat
  BY <1>2, <1>3 DEF Holds
<1> DEFINE p == Append_(chunk[o], n, put[b] + 1)
<1>7. /\ p \in ChunkRecs(capacity(o)) /\ p.length = chunk[o].length + n /\ p.head = 0
      /\ Within(p, capacity(o)) /\ Bytes(p, got[b])
  BY <1>2, <1>3, <1>4, <1>6, AppendOk DEF Holds
<1> HIDE DEF p
<1>8. put[b] + n = got[b] + p.length
  BY <1>2, <1>3, <1>7 DEF Holds
<1> QED
  BY <1>1, <1>5, <1>6, <1>7, <1>8, ContentStep DEF p

LEMMA ReadStep ==
  ASSUME BInv, BInv', SInv, NEW b \in Inputs, Read(b)
  PROVE  SInv'
<1>1. b \in Buffers /\ pc[b] = "fill" /\ Put(b, ReadCount(b))
      /\ avail' = [avail EXCEPT ![b] = @ - ReadCount(b)]
      /\ avail \in [Inputs -> Nat] /\ avail[b] \in Nat /\ need[b] \in Nat
  BY DEF Read, Buffers, SInv, StreamTypes
<1>2. need[b] = 0 => avail[b] = 0
  BY <1>1, BufFields DEF BufOK
<1>3. ReadCount(b) \in Nat /\ ReadCount(b) <= avail[b] /\ ReadCount(b) <= need[b]
  <2>1. CASE need[b] = 0
    <3>1. ReadCount(b) = Min({avail[b], Min(Caps)})
      BY <2>1 DEF ReadCount
    <3>2. ReadCount(b) \in Nat /\ ReadCount(b) <= avail[b]
      BY <1>1, <3>1, LeastCapacity, LesserOf
    <3> QED
      BY <1>2, <2>1, <3>2
  <2>2. CASE need[b] # 0
    <3>1. ReadCount(b) = Min({avail[b], need[b]})
      BY <2>2 DEF ReadCount
    <3> QED
      BY <1>1, <3>1, LesserOf
  <2> QED
    BY <2>1, <2>2
<1>4. avail' \in [Inputs -> Nat] /\ \A d \in Inputs \ {b} : avail'[d] = avail[d]
  BY <1>1, <1>3
<1> QED
  BY <1>1, <1>3, <1>4, PutStep

LEMMA WriteStep ==
  ASSUME BInv, BInv', SInv, NEW b \in Outputs, Write(b)
  PROVE  SInv'
<1>1. b \in Buffers /\ b \notin Inputs /\ pc[b] = "fill" /\ Put(b, need[b]) /\ avail' = avail
      /\ avail \in [Inputs -> Nat] /\ need[b] \in Nat
  BY BufferAssumption DEF Write, Buffers, SInv, StreamTypes
<1> QED
  BY <1>1, PutStep

LEMMA HoldsItsBytes ==
  ASSUME BInv, SInv, NEW b \in Buffers, pc[b] \in {"idle", "popped"}, data_buf[b] # NoChunk
  PROVE  \E o \in Chunks :
           /\ o = data_buf[b] /\ Holds(b, o) /\ length(b) = chunk[o].length /\ Content(b) = chunk[o]
           /\ capacity(o) \in Nat /\ chunk[o] \in ChunkRecs(capacity(o))
           /\ chunk[o].length \in Nat /\ put[b] = got[b] + chunk[o].length
           /\ pc[b] = "idle" => chunk[o].head = 0
<1>1. PICK o \in Chunks : o = data_buf[b]
  BY BufFields
<1>2. Holds(b, o) /\ (pc[b] = "idle" => chunk[o].head = 0)
  BY <1>1, BufFields DEF BufOK
<1> QED
  BY <1>1, <1>2, ChunkFields DEF length, Content, Holds

LEMMA PopStep ==
  ASSUME BInv, BInv', SInv, NEW b \in Inputs, NEW n \in Nat, pop(b, n)
  PROVE  SInv'
<1>1. b \in Buffers /\ pc[b] \in {"idle", "popped"} /\ data_buf[b] # NoChunk /\ n <= length(b)
      /\ got[b] \in Nat /\ put[b] \in Nat
  BY DEF pop, Buffers, SInv, StreamTypes
<1>2. PICK o \in Chunks :
        /\ o = data_buf[b] /\ Holds(b, o) /\ length(b) = chunk[o].length /\ Content(b) = chunk[o]
        /\ capacity(o) \in Nat /\ chunk[o] \in ChunkRecs(capacity(o))
        /\ chunk[o].length \in Nat /\ put[b] = got[b] + chunk[o].length
  BY <1>1, HoldsItsBytes
<1>3. CASE length(b) = n
  <2>1. got' = [got EXCEPT ![b] = put[b]]
    BY <1>2, <1>3 DEF pop
  <2> QED
    BY <1>1, <1>3, <2>1, GiveLastStep DEF pop
<1>4. CASE length(b) # n
  <2> DEFINE p == PopChunk(chunk[o], n)
  <2>1. /\ p \in ChunkRecs(capacity(o)) /\ p.length = chunk[o].length - n
        /\ Within(p, capacity(o)) /\ Bytes(p, got[b] + n)
    BY <1>1, <1>2, PopOk DEF Holds
  <2>2. got[b] + n \in Nat /\ put[b] = (got[b] + n) + p.length
    BY <1>1, <1>2, <2>1
  <2>3. /\ chunk' = [chunk EXCEPT ![o] = p] /\ pc' = [pc EXCEPT ![b] = "popped"]
        /\ UNCHANGED <<data_buf, new_buf, need, closed, buf_fault>>
        /\ put' = [put EXCEPT ![b] = put[b]] /\ got' = [got EXCEPT ![b] = got[b] + n]
        /\ avail' \in [Inputs -> Nat] /\ \A d \in Inputs \ {b} : avail'[d] = avail[d]
    BY <1>2, <1>4 DEF pop, Goto, SInv, StreamTypes
  <2> HIDE DEF p
  <2> QED
    BY <1>1, <1>2, <2>1, <2>2, <2>3, ContentStep
<1> QED
  BY <1>3, <1>4

LEMMA AdjustStep ==
  ASSUME BInv, BInv', SInv, NEW b \in Inputs, adjust(b)
  PROVE  SInv'
<1>1. b \in Buffers /\ pc[b] = "popped" /\ data_buf[b] # NoChunk /\ got[b] \in Nat /\ put[b] \in Nat
  BY BufFields DEF adjust, Buffers, BufOK
<1>2. PICK o \in Chunks :
        /\ o = data_buf[b] /\ Holds(b, o)
        /\ capacity(o) \in Nat /\ chunk[o] \in ChunkRecs(capacity(o))
        /\ put[b] = got[b] + chunk[o].length
  BY <1>1, HoldsItsBytes
<1> DEFINE p == AdjustChunk(chunk[o])
<1>3. /\ p \in ChunkRecs(capacity(o)) /\ p.length = chunk[o].length /\ p.head = 0
      /\ Within(p, capacity(o)) /\ Bytes(p, got[b])
  BY <1>1, <1>2, AdjustOk DEF Holds
<1>4. /\ chunk' = [chunk EXCEPT ![o] = p] /\ pc' = [pc EXCEPT ![b] = "idle"]
      /\ UNCHANGED <<data_buf, new_buf, need, closed, buf_fault>>
      /\ put' = [put EXCEPT ![b] = put[b]] /\ got' = [got EXCEPT ![b] = got[b]]
      /\ avail' \in [Inputs -> Nat] /\ \A d \in Inputs \ {b} : avail'[d] = avail[d]
  BY <1>2 DEF adjust, Goto, SInv, StreamTypes
<1> HIDE DEF p
<1>5. put[b] = got[b] + p.length
  BY <1>2, <1>3
<1> QED
  BY <1>1, <1>2, <1>3, <1>4, <1>5, ContentStep

LEMMA WriteToFdStep ==
  ASSUME BInv, BInv', SInv, NEW b \in Outputs, NEW n \in Nat, write_to_fd(b, n)
  PROVE  SInv'
<1>1. b \in Buffers /\ b \notin Inputs /\ pc[b] = "idle" /\ data_buf[b] # NoChunk /\ n <= length(b)
      /\ got[b] \in Nat /\ put[b] \in Nat
  BY BufferAssumption DEF write_to_fd, Buffers, SInv, StreamTypes
<1>2. PICK o \in Chunks :
        /\ o = data_buf[b] /\ Holds(b, o) /\ length(b) = chunk[o].length /\ Content(b) = chunk[o]
        /\ capacity(o) \in Nat /\ chunk[o] \in ChunkRecs(capacity(o))
        /\ chunk[o].length \in Nat /\ put[b] = got[b] + chunk[o].length /\ chunk[o].head = 0
  BY <1>1, HoldsItsBytes
<1> DEFINE p == PopChunk(chunk[o], n)
           q == AdjustChunk(p)
<1>3. /\ p \in ChunkRecs(capacity(o)) /\ p.length = chunk[o].length - n
      /\ Within(p, capacity(o)) /\ Bytes(p, got[b] + n)
  BY <1>1, <1>2, PopOk DEF Holds
<1>4. got[b] + n \in Nat /\ put[b] = (got[b] + n) + (chunk[o].length - n)
  BY <1>1, <1>2
<1>5. /\ chunk' = [chunk EXCEPT ![o] = q] /\ pc' = [pc EXCEPT ![b] = "idle"]
      /\ UNCHANGED <<data_buf, new_buf, need, closed, buf_fault>>
      /\ put' = [put EXCEPT ![b] = put[b]] /\ got' = [got EXCEPT ![b] = got[b] + n]
      /\ avail' \in [Inputs -> Nat] /\ \A d \in Inputs \ {b} : avail'[d] = avail[d]
  BY <1>1, <1>2 DEF write_to_fd, HeadAssert, SInv, StreamTypes, BInv, Places
<1> HIDE DEF p
<1>6. /\ q \in ChunkRecs(capacity(o)) /\ q.length = p.length /\ q.head = 0
      /\ Within(q, capacity(o)) /\ Bytes(q, got[b] + n)
  BY <1>2, <1>3, <1>4, AdjustOk
<1> HIDE DEF q
<1>7. put[b] = (got[b] + n) + q.length
  BY <1>3, <1>4, <1>6
<1> QED
  BY <1>1, <1>2, <1>4, <1>5, <1>6, <1>7, ContentStep

LEMMA NextSInv ==
  ASSUME BInv, BInv', SInv, [DataBufNext]_dvars
  PROVE  SInv'
<1>1. CASE UNCHANGED dvars
  BY <1>1 DEF dvars, poolVars, bufVars, SInv, StreamTypes, UnusedEmpty, BufOK, Holds, Room, Held
<1>2. ASSUME NEW b \in Buffers, Reserve(b) \/ clear(b)
      PROVE  SInv'
  <2>1. CASE clear(b)
    BY <2>1, GiveLastStep DEF clear
  <2>2. CASE Reserve(b)
    BY <2>2, PlainStep, GiveOldBackStep, FirstChunkStep, LargerChunkStep DEF Reserve
  <2> QED
    BY <1>2, <2>1, <2>2
<1>3. ASSUME NEW b \in Inputs, InputStep(b)
      PROVE  SInv'
  <2>1. b \in Buffers /\ \A n \in 1 .. MaxBytes : n \in Nat
    BY BufferAssumption DEF Buffers
  <2> QED
    BY <1>3, <2>1, PlainStep, ReadStep, AdjustStep, PopStep DEF InputStep
<1>4. ASSUME NEW b \in Outputs, OutputStep(b)
      PROVE  SInv'
  <2>1. b \in Buffers /\ \A n \in 0 .. MaxBytes : n \in Nat
    BY BufferAssumption DEF Buffers
  <2> QED
    BY <1>4, <2>1, PlainStep, WriteStep, WriteToFdStep DEF OutputStep
<1> QED
  BY <1>1, <1>2, <1>3, <1>4 DEF DataBufNext

LEMMA StreamInvariant == DataBufSpec => [](BInv /\ SInv)
<1>1. BInv /\ SInv /\ [DataBufNext]_dvars => BInv' /\ SInv'
  BY NextBInv, NextSInv
<1> QED
  BY <1>1, InitBInv, InitSInv, PTL DEF DataBufSpec

(* No assertion about head fails and no byte is written behind the end of a     *)
(* chunk, however much arrives between FIONREAD and read.                       *)
THEOREM BuffersAreSound == DataBufSpec => []BuffersDoNotFault
<1>1. SInv => BuffersDoNotFault
  BY DEF SInv, StreamTypes, BuffersDoNotFault
<1> QED
  BY <1>1, StreamInvariant, PTL

(* A buffer holds the bytes of its stream that are not taken out, in order.     *)
THEOREM StreamsKeepOrder == DataBufSpec => []StreamInOrder
<1>1. ASSUME BInv, SInv, NEW b \in Buffers
      PROVE  /\ put[b] = got[b] + length(b)
             /\ \A i \in 0 .. length(b) - 1 : Content(b).data[Content(b).head + i] = got[b] + i + 1
  <2>1. CASE data_buf[b] = NoChunk
    BY <1>1, <2>1, BufFields DEF BufOK, length
  <2>2. CASE data_buf[b] # NoChunk
    BY <1>1, <2>2, BufFields DEF BufOK, Holds, Bytes, length, Content
  <2> QED
    BY <2>1, <2>2
<1>2. BInv /\ SInv => StreamInOrder
  BY <1>1 DEF StreamInOrder
<1> QED
  BY <1>2, StreamInvariant, PTL

-----------------------------------------------------------------------------
(* The counters of the pool, which are sums over the capacities.                *)

(* How SumOver adds up: it takes away one element after the other.              *)
Any(s) == CHOOSE x \in s : TRUE
IsSum(f, s, h) == h = [u \in SUBSET s |-> IF u = {} THEN 0 ELSE f[Any(u)] + h[u \ {Any(u)}]]

LEMMA AnyIsIn ==
  ASSUME NEW s, s # {}
  PROVE  Any(s) \in s /\ s \ {Any(s)} \subseteq s /\ s \ {Any(s)} # s
  BY DEF Any

(* A nonempty set of sets of capacities has one that none of the others is in:  *)
(* the induction over finite sets.                                              *)
LEMMA SmallestSet ==
  ASSUME NEW T, T \subseteq SUBSET Caps, T # {}
  PROVE  \E x \in T : \A y \in T : ~(y \subseteq x /\ y # x)
<1> DEFINE R == StrictSubsetOrdering(Caps)
<1>1. IsWellFoundedOn(R, SUBSET Caps)
  <2>1. IsWellFoundedOn(R, FiniteSubsetsOf(Caps))
    BY FS_StrictSubsetOrderingWellFounded
  <2>2. FiniteSubsetsOf(Caps) = SUBSET Caps
    BY PoolAssumption, FS_FiniteSubsetsOfFinite
  <2> QED
    BY <2>1, <2>2
<1>2. \A x, y \in SUBSET Caps : y \subseteq x /\ y # x => <<y, x>> \in R
  BY DEF StrictSubsetOrdering
<1> HIDE DEF R
<1>3. PICK x \in T : \A y \in T : ~(<<y, x>> \in R)
  BY <1>1, WFMin
<1> QED
  BY <1>2, <1>3

LEMMA SumStep ==
  ASSUME NEW f, NEW s, NEW h, IsSum(f, s, h), NEW u \in SUBSET s
  PROVE  h[u] = IF u = {} THEN 0 ELSE f[Any(u)] + h[u \ {Any(u)}]
<1>1. PICK g : g = [v \in SUBSET s |-> IF v = {} THEN 0 ELSE f[Any(v)] + h[v \ {Any(v)}]]
  OBVIOUS
<1>2. h = g
  BY <1>1 DEF IsSum
<1>3. g[u] = IF u = {} THEN 0 ELSE f[Any(u)] + h[u \ {Any(u)}]
  BY <1>1
<1> QED
  BY <1>2, <1>3

LEMMA SumsAgree ==
  ASSUME NEW f, NEW s \in SUBSET Caps, NEW g, IsSum(f, s, g), NEW t \in SUBSET Caps, NEW h, IsSum(f, t, h),
         NEW w \in SUBSET s, w \in SUBSET t
  PROVE  g[w] = h[w]
<1> DEFINE T == {u \in SUBSET Caps : u \subseteq s /\ u \subseteq t /\ g[u] # h[u]}
<1> SUFFICES ASSUME T # {}
             PROVE  FALSE
  OBVIOUS
<1>1. /\ T \subseteq SUBSET Caps
      /\ \A u \in T : u \in SUBSET s /\ u \in SUBSET t /\ g[u] # h[u]
      /\ \A u \in SUBSET s : u \subseteq t /\ g[u] # h[u] => u \in T
  OBVIOUS
<1> HIDE DEF T
<1>2. PICK u \in T : \A v \in T : ~(v \subseteq u /\ v # u)
  BY <1>1, SmallestSet
<1>3. u # {}
  <2>1. u \in SUBSET s /\ u \in SUBSET t /\ g[u] # h[u]
    BY <1>1
  <2>2. u = {} => g[u] = 0 /\ h[u] = 0
    BY <2>1, SumStep
  <2> QED
    BY <2>1, <2>2
<1>4. PICK v : v = u \ {Any(u)}
  OBVIOUS
<1>5. v \subseteq u /\ v # u
  BY <1>3, <1>4, AnyIsIn
<1>6. g[v] = h[v]
  BY <1>1, <1>2, <1>5
<1>7. g[u] = f[Any(u)] + g[v] /\ h[u] = f[Any(u)] + h[v]
  <2>1. u \in SUBSET s /\ u \in SUBSET t
    BY <1>1
  <2>2. g[u] = f[Any(u)] + g[v]
    <3>1. g[u] = IF u = {} THEN 0 ELSE f[Any(u)] + g[u \ {Any(u)}]
      BY <2>1, SumStep
    <3> QED
      BY <1>3, <1>4, <3>1
  <2>3. h[u] = f[Any(u)] + h[v]
    <3>1. IsSum(f, t, h) /\ u \in SUBSET t
      BY <2>1
    <3>2. h[u] = IF u = {} THEN 0 ELSE f[Any(u)] + h[u \ {Any(u)}]
      BY <3>1, SumStep
    <3> QED
      BY <1>3, <1>4, <3>2
  <2> QED
    BY <2>2, <2>3
<1> QED
  BY <1>1, <1>6, <1>7

LEMMA SumExists ==
  ASSUME NEW f
  PROVE  \E h : IsSum(f, Caps, h)
<1> DEFINE T == {s \in SUBSET Caps : ~\E h : IsSum(f, s, h)}
<1> SUFFICES ASSUME T # {}
             PROVE  FALSE
  OBVIOUS
<1>0. T \subseteq SUBSET Caps /\ \A s \in SUBSET Caps : s \in T <=> ~\E h : IsSum(f, s, h)
  OBVIOUS
<1> HIDE DEF T
<1>1. PICK s \in T : \A u \in T : ~(u \subseteq s /\ u # s)
  BY <1>0, SmallestSet
<1>2. s \in SUBSET Caps /\ ~\E h : IsSum(f, s, h)
  BY <1>0
<1>3. \A u \in SUBSET s : u # s => \E h : IsSum(f, u, h)
  BY <1>0, <1>1, <1>2
<1>4. PICK H : \A u \in SUBSET s : u # s => IsSum(f, u, H[u])
  <2>1. PICK H : H = [u \in SUBSET s |-> CHOOSE h : IsSum(f, u, h)]
    OBVIOUS
  <2>2. ASSUME NEW u \in SUBSET s, u # s
        PROVE  IsSum(f, u, H[u])
    <3>1. H[u] = CHOOSE h : IsSum(f, u, h)
      BY <2>1
    <3>2. \E h : IsSum(f, u, h)
      BY <1>3, <2>2
    <3> QED
      BY <3>1, <3>2
  <2> QED
    BY <2>2
<1>5. PICK below : below = s \ {Any(s)}
  OBVIOUS
<1>6. PICK h : h = [u \in SUBSET s |-> IF u = {} THEN 0
                                       ELSE IF u = s THEN f[Any(s)] + H[below][below] ELSE H[u][u]]
  OBVIOUS
<1>7. ASSUME NEW u \in SUBSET s, u # {}
      PROVE  h[u] = f[Any(u)] + h[u \ {Any(u)}]
  <2>1. PICK v : v = u \ {Any(u)}
    OBVIOUS
  <2>2. v \subseteq u /\ v # u /\ v \in SUBSET s /\ v # s
    BY <1>7, <2>1, AnyIsIn
  <2>3. H[v][v] = h[v]
    <3>1. v = {} => H[v][v] = 0
      BY <1>4, <2>2, SumStep
    <3> QED
      BY <1>6, <2>2, <3>1
  <2>4. CASE u = s
    BY <1>5, <1>6, <1>7, <2>1, <2>3, <2>4
  <2>5. CASE u # s
    <3>1. h[u] = H[u][u]
      BY <1>6, <1>7, <2>5
    <3>2. H[u][u] = f[Any(u)] + H[u][v]
      <4>1. PICK hu : hu = H[u] /\ IsSum(f, u, hu)
        BY <1>4, <2>5
      <4>2. u \in SUBSET u
        OBVIOUS
      <4>3. hu[u] = f[Any(u)] + hu[u \ {Any(u)}]
        BY <1>7, <4>1, <4>2, SumStep
      <4> QED
        BY <2>1, <4>1, <4>3
    <3>3. H[u][v] = H[v][v]
      <4>1. IsSum(f, u, H[u]) /\ IsSum(f, v, H[v])
        BY <1>4, <2>2, <2>5
      <4>2. u \in SUBSET Caps /\ v \in SUBSET Caps
        BY <1>2, <2>2
      <4>3. v \in SUBSET u /\ v \in SUBSET v
        BY <2>2
      <4> QED
        BY <4>1, <4>2, <4>3, SumsAgree
    <3> QED
      BY <2>1, <2>3, <3>1, <3>2, <3>3
  <2> QED
    BY <2>4, <2>5
<1>8. IsSum(f, s, h)
  <2>1. h[{}] = 0
    BY <1>6
  <2>2. DOMAIN h = SUBSET s /\ h = [u \in SUBSET s |-> h[u]]
    BY <1>6
  <2>3. \A u \in SUBSET s : h[u] = IF u = {} THEN 0 ELSE f[Any(u)] + h[u \ {Any(u)}]
    BY <1>7, <2>1
  <2>4. h = [u \in SUBSET s |-> IF u = {} THEN 0 ELSE f[Any(u)] + h[u \ {Any(u)}]]
    BY <2>2, <2>3
  <2> QED
    BY <2>4 DEF IsSum
<1> QED
  BY <1>2, <1>8

LEMMA SumByParts ==
  ASSUME NEW f
  PROVE  \E h : IsSum(f, Caps, h) /\ SumOver(f) = h[Caps]
<1>1. PICK h : h = CHOOSE g : IsSum(f, Caps, g)
  OBVIOUS
<1>2. IsSum(f, Caps, h)
  BY <1>1, SumExists
<1>3. SumOver(f) = h[Caps]
  BY <1>1 DEF SumOver, MapThenSumSet, MapThenFoldSet, IsSum, Any
<1> QED
  BY <1>2, <1>3

LEMMA PartIsNat ==
  ASSUME NEW f, f \in [Caps -> Nat], NEW h, IsSum(f, Caps, h), NEW w \in SUBSET Caps
  PROVE  h[w] \in Nat
<1> DEFINE T == {u \in SUBSET Caps : h[u] \notin Nat}
<1> SUFFICES ASSUME T # {}
             PROVE  FALSE
  OBVIOUS
<1>0. T \subseteq SUBSET Caps /\ \A u \in SUBSET Caps : u \in T <=> h[u] \notin Nat
  OBVIOUS
<1> HIDE DEF T
<1>1. PICK u \in T : \A v \in T : ~(v \subseteq u /\ v # u)
  BY <1>0, SmallestSet
<1>2. u \in SUBSET Caps /\ h[u] \notin Nat
  BY <1>0
<1>3. h[u] = IF u = {} THEN 0 ELSE f[Any(u)] + h[u \ {Any(u)}]
  <2>1. IsSum(f, Caps, h) /\ u \in SUBSET Caps
    BY <1>2
  <2> QED
    BY ONLY <2>1, SumStep
<1>4. u # {}
  BY <1>2, <1>3
<1>5. Any(u) \in Caps /\ h[u \ {Any(u)}] \in Nat
  BY <1>0, <1>1, <1>2, <1>4, AnyIsIn
<1> QED
  BY <1>2, <1>3, <1>4, <1>5

(* Two functions that differ at k only: so do their sums, over every part that  *)
(* k is in.                                                                     *)
LEMMA PartsDiffer ==
  ASSUME NEW f, f \in [Caps -> Nat], NEW h, IsSum(f, Caps, h),
         NEW g, g \in [Caps -> Nat], NEW l, IsSum(g, Caps, l),
         NEW k \in Caps, \A j \in Caps \ {k} : g[j] = f[j],
         NEW w \in SUBSET Caps
  PROVE  /\ k \notin w => l[w] = h[w]
         /\ k \in w => l[w] + f[k] = h[w] + g[k]
<1> DEFINE Off(u) == (k \notin u /\ l[u] # h[u]) \/ (k \in u /\ l[u] + f[k] # h[u] + g[k])
           T == {u \in SUBSET Caps : Off(u)}
<1> SUFFICES ASSUME T # {}
             PROVE  FALSE
  OBVIOUS
<1>0. T \subseteq SUBSET Caps /\ \A u \in SUBSET Caps : u \in T <=> Off(u)
  OBVIOUS
<1> HIDE DEF T
<1>1. PICK u \in T : \A v \in T : ~(v \subseteq u /\ v # u)
  BY <1>0, SmallestSet
<1>2. u \in SUBSET Caps /\ Off(u)
  BY <1>0
<1>3. h[u] = IF u = {} THEN 0 ELSE f[Any(u)] + h[u \ {Any(u)}]
  <2>1. IsSum(f, Caps, h) /\ u \in SUBSET Caps
    BY <1>2
  <2> QED
    BY ONLY <2>1, SumStep
<1>4. l[u] = IF u = {} THEN 0 ELSE g[Any(u)] + l[u \ {Any(u)}]
  <2>1. IsSum(g, Caps, l) /\ u \in SUBSET Caps
    BY <1>2
  <2> QED
    BY ONLY <2>1, SumStep
<1>5. u # {}
  BY <1>2, <1>3, <1>4
<1>6. PICK a, v : a = Any(u) /\ v = u \ {a}
  OBVIOUS
<1>7. a \in u /\ a \in Caps /\ v \in SUBSET Caps /\ v \subseteq u /\ v # u
  BY <1>2, <1>5, <1>6, AnyIsIn
<1>8. ~Off(v)
  BY <1>0, <1>1, <1>7
<1>9. h[u] = f[a] + h[v] /\ l[u] = g[a] + l[v] /\ h[v] \in Nat /\ l[v] \in Nat
  BY <1>3, <1>4, <1>5, <1>6, <1>7, PartIsNat
<1>10. f[a] \in Nat /\ g[a] \in Nat /\ f[k] \in Nat /\ g[k] \in Nat
  BY <1>7
<1>11. CASE a = k
  <2>1. k \in u /\ k \notin v
    BY <1>6, <1>7, <1>11
  <2>2. l[v] = h[v]
    BY <1>8, <2>1
  <2> QED
    BY <1>2, <1>9, <1>10, <1>11, <2>1, <2>2
<1>12. CASE a # k
  <2>1. f[a] = g[a] /\ (k \in u <=> k \in v)
    BY <1>6, <1>7, <1>12
  <2> QED
    BY <1>2, <1>8, <1>9, <1>10, <2>1
<1> QED
  BY <1>11, <1>12

LEMMA SumIsNat ==
  ASSUME NEW f, f \in [Caps -> Nat]
  PROVE  SumOver(f) \in Nat
<1>1. PICK h : IsSum(f, Caps, h) /\ SumOver(f) = h[Caps]
  BY SumByParts
<1> QED
  BY <1>1, PartIsNat

LEMMA SumChanges ==
  ASSUME NEW f, f \in [Caps -> Nat], NEW g, g \in [Caps -> Nat],
         NEW k \in Caps, \A j \in Caps \ {k} : g[j] = f[j]
  PROVE  SumOver(g) + f[k] = SumOver(f) + g[k]
<1>1. PICK h : IsSum(f, Caps, h) /\ SumOver(f) = h[Caps]
  BY SumByParts
<1>2. PICK l : IsSum(g, Caps, l) /\ SumOver(g) = l[Caps]
  BY SumByParts
<1> QED
  BY <1>1, <1>2, PartsDiffer

-----------------------------------------------------------------------------
(* The sizes of the chunks that have been made, and of those in the lists.      *)
MadeSizes == [k \in Caps |-> k * created[k]]
ListSizes == [k \in Caps |-> k * Len(m_pool[k])]

LEMMA OneMore == \A a, n \in Nat : a * n \in Nat /\ a * (n + 1) = a * n + a
  OBVIOUS

LEMMA SizesAreNat ==
  ASSUME NEW made \in [Caps -> 0 .. PerCap], NEW lists \in [Caps -> Seq(Chunks)]
  PROVE  /\ [k \in Caps |-> k * made[k]] \in [Caps -> Nat]
         /\ [k \in Caps |-> k * Len(lists[k])] \in [Caps -> Nat]
<1>1. Caps \subseteq Nat /\ PerCap \in Nat
  BY PoolAssumption
<1>2. \A k \in Caps : k \in Nat /\ made[k] \in Nat /\ Len(lists[k]) \in Nat
  BY <1>1
<1> QED
  BY <1>2, OneMore

LEMMA AccountsAreSums ==
  PoolAccounts <=> m_total = SumOver(MadeSizes) /\ m_left = SumOver(ListSizes)
BY DEF PoolAccounts, MadeSizes, ListSizes, get_list_size_byte

LEMMA QuietAccounts ==
  ASSUME PoolAccounts, UNCHANGED <<m_pool, m_total, m_left, created>>
  PROVE  PoolAccounts'
<1>1. MadeSizes' = MadeSizes /\ ListSizes' = ListSizes
  BY DEF MadeSizes, ListSizes
<1>2. \A f, g : f = g => SumOver(f) = SumOver(g)
  OBVIOUS
<1> QED
  BY <1>1, <1>2 DEF PoolAccounts, get_list_size_byte

LEMMA InitAccounts == DataBufInit => PoolAccounts
<1> SUFFICES ASSUME DataBufInit
             PROVE  PoolAccounts
  OBVIOUS
<1>1. /\ m_pool = [k \in Caps |-> [i \in 1 .. Initial[k] |-> <<k, i>>]]
      /\ m_total = SumOver([k \in Caps |-> k * Initial[k]]) /\ m_left = m_total /\ created = Initial
  BY DEF DataBufInit, PoolInit
<1>2. \A k \in Caps : Len(m_pool[k]) = Initial[k]
  <2> TAKE k \in Caps
  <2>1. m_pool[k] = [i \in 1 .. Initial[k] |-> <<k, i>>] /\ Initial[k] \in Nat
    BY <1>1, PoolAssumption
  <2> QED
    BY <2>1
<1>3. /\ MadeSizes = [k \in Caps |-> k * Initial[k]]
      /\ ListSizes = [k \in Caps |-> k * Initial[k]]
  BY <1>1, <1>2 DEF MadeSizes, ListSizes
<1> QED
  BY <1>1, <1>3, AccountsAreSums

LEMMA TakeAccounts ==
  ASSUME ListsInOrder, ListsInOrder', PoolAccounts, NEW n, NEW c, alloc_chunk(n, c)
  PROVE  PoolAccounts'
<1>1. PICK k : k = ClassOf(n)
  OBVIOUS
<1>2. k \in Caps /\ Caps \subseteq Nat /\ PerCap \in Nat
  BY <1>1, ClassIsCapacity, PoolAssumption DEF alloc_chunk
<1>3. /\ MadeSizes \in [Caps -> Nat] /\ ListSizes \in [Caps -> Nat]
      /\ SumOver(MadeSizes) \in Nat /\ SumOver(ListSizes) \in Nat
      /\ m_total = SumOver(MadeSizes) /\ m_left = SumOver(ListSizes)
  BY SizesAreNat, SumIsNat, AccountsAreSums DEF ListsInOrder, MadeSizes, ListSizes
<1>4. MadeSizes' \in [Caps -> Nat] /\ ListSizes' \in [Caps -> Nat]
  BY SizesAreNat DEF ListsInOrder, MadeSizes, ListSizes
<1>5. PICK f, g : f = MadeSizes' /\ g = ListSizes'
  OBVIOUS
<1>6. f \in [Caps -> Nat] /\ g \in [Caps -> Nat] /\ SumOver(f) \in Nat /\ SumOver(g) \in Nat
  BY <1>4, <1>5, SumIsNat
<1>7. CASE TakeFree(n, c)
  <2>1. /\ m_pool[k] # <<>> /\ m_pool' = [m_pool EXCEPT ![k] = Tail(@)]
        /\ m_left' = m_left - k /\ m_total' = m_total /\ created' = created
    BY <1>1, <1>7 DEF TakeFree
  <2>2. Len(m_pool'[k]) = Len(m_pool[k]) - 1 /\ Len(m_pool[k]) \in Nat \ {0}
    BY <1>2, <2>1 DEF ListsInOrder
  <2>3. \A j \in Caps \ {k} : m_pool'[j] = m_pool[j]
    BY <1>2, <2>1 DEF ListsInOrder
  <2>4. f = MadeSizes
    BY <1>5, <2>1 DEF MadeSizes
  <2>5. \A j \in Caps \ {k} : g[j] = ListSizes[j]
    BY <1>5, <2>3 DEF ListSizes
  <2>6. ListSizes[k] = g[k] + k
    <3>1. PICK m \in Nat : Len(m_pool[k]) = m + 1 /\ Len(m_pool'[k]) = m
      BY <2>2
    <3>2. ListSizes[k] = k * (m + 1) /\ g[k] = k * m
      BY <1>2, <1>5, <3>1 DEF ListSizes
    <3> QED
      BY <1>2, <3>2, OneMore
  <2>7. SumOver(g) + ListSizes[k] = SumOver(ListSizes) + g[k]
    BY <1>2, <1>3, <1>6, <2>5, SumChanges
  <2>8. m_left' = SumOver(g) /\ m_total' = SumOver(f)
    <3>1. g[k] \in Nat /\ k \in Nat
      BY <1>2, <1>6
    <3> QED
      BY <1>3, <1>6, <2>1, <2>4, <2>6, <2>7, <3>1
  <2> QED
    BY <1>5, <2>8 DEF PoolAccounts, MadeSizes, ListSizes, get_list_size_byte
<1>8. CASE MakeNew(n, c)
  <2>1. /\ created' = [created EXCEPT ![k] = @ + 1] /\ m_total' = m_total + k
        /\ m_pool' = m_pool /\ m_left' = m_left
    BY <1>1, <1>8 DEF MakeNew
  <2>2. created'[k] = created[k] + 1 /\ created[k] \in Nat
    BY <1>2, <2>1 DEF ListsInOrder
  <2>3. \A j \in Caps \ {k} : created'[j] = created[j]
    BY <1>2, <2>1 DEF ListsInOrder
  <2>4. g = ListSizes
    BY <1>5, <2>1 DEF ListSizes
  <2>5. \A j \in Caps \ {k} : f[j] = MadeSizes[j]
    BY <1>5, <2>3 DEF MadeSizes
  <2>6. f[k] = MadeSizes[k] + k
    <3>1. f[k] = k * (created[k] + 1) /\ MadeSizes[k] = k * created[k]
      BY <1>2, <1>5, <2>2 DEF MadeSizes
    <3> QED
      BY <1>2, <2>2, <3>1, OneMore
  <2>7. SumOver(f) + MadeSizes[k] = SumOver(MadeSizes) + f[k]
    BY <1>2, <1>3, <1>6, <2>5, SumChanges
  <2>8. m_left' = SumOver(g) /\ m_total' = SumOver(f)
    <3>1. MadeSizes[k] \in Nat /\ k \in Nat
      BY <1>2, <1>3
    <3> QED
      BY <1>3, <1>6, <2>1, <2>4, <2>6, <2>7, <3>1
  <2> QED
    BY <1>5, <2>8 DEF PoolAccounts, MadeSizes, ListSizes, get_list_size_byte
<1> QED
  BY <1>7, <1>8 DEF alloc_chunk

LEMMA GiveAccounts ==
  ASSUME ListsInOrder, ListsInOrder', PoolAccounts, NEW c \in Chunks, retrieve(c)
  PROVE  PoolAccounts'
<1>1. PICK k : k = capacity(c)
  OBVIOUS
<1>2. k \in Caps /\ Caps \subseteq Nat
  BY <1>1, PoolAssumption DEF Chunks, capacity
<1>3. /\ ListSizes \in [Caps -> Nat] /\ SumOver(ListSizes) \in Nat
      /\ m_total = SumOver(MadeSizes) /\ m_left = SumOver(ListSizes)
  BY SizesAreNat, SumIsNat, AccountsAreSums DEF ListsInOrder, MadeSizes, ListSizes
<1>4. PICK g : g = ListSizes'
  OBVIOUS
<1>5. g \in [Caps -> Nat] /\ SumOver(g) \in Nat
  <2>1. ListSizes' \in [Caps -> Nat]
    BY SizesAreNat DEF ListsInOrder, MadeSizes, ListSizes
  <2> QED
    BY <1>4, <2>1, SumIsNat
<1>6. /\ m_pool' = [m_pool EXCEPT ![k] = <<c>> \o @] /\ m_left' = m_left + k
      /\ m_total' = m_total /\ created' = created
  BY <1>1 DEF retrieve
<1>7. Len(m_pool'[k]) = Len(m_pool[k]) + 1 /\ Len(m_pool[k]) \in Nat
  BY <1>2, <1>6 DEF ListsInOrder
<1>8. \A j \in Caps \ {k} : g[j] = ListSizes[j]
  BY <1>2, <1>4, <1>6 DEF ListSizes, ListsInOrder
<1>9. g[k] = ListSizes[k] + k
  <2>1. g[k] = k * (Len(m_pool[k]) + 1) /\ ListSizes[k] = k * Len(m_pool[k])
    BY <1>2, <1>4, <1>7 DEF ListSizes
  <2> QED
    BY <1>2, <1>7, <2>1, OneMore
<1>10. SumOver(g) + ListSizes[k] = SumOver(ListSizes) + g[k]
  BY <1>2, <1>3, <1>5, <1>8, SumChanges
<1>11. m_left' = SumOver(g) /\ m_total' = SumOver(MadeSizes)
  <2>1. ListSizes[k] \in Nat /\ k \in Nat
    BY <1>2, <1>3
  <2> QED
    BY <1>3, <1>5, <1>6, <1>9, <1>10, <2>1
<1> QED
  BY <1>4, <1>6, <1>11 DEF PoolAccounts, MadeSizes, ListSizes, get_list_size_byte

LEMMA BufferAccounts ==
  ASSUME BInv, BInv', PoolAccounts, NEW b \in Buffers,
         \/ Reserve(b) \/ clear(b)
         \/ b \in Inputs /\ InputStep(b)
         \/ b \in Outputs /\ OutputStep(b)
  PROVE  PoolAccounts'
<1>0. /\ ListsInOrder /\ ListsInOrder'
      /\ data_buf[b] # NoChunk => data_buf[b] \in Chunks
      /\ pc[b] = "swap" => data_buf[b] # NoChunk
  BY DEF BInv, Places, SecondChunk
<1>1. CASE GiveUp(b) \/ KeepChunk(b) \/ LimitReached(b) \/ HeadFails(b)
  BY <1>1, QuietAccounts DEF GiveUp, KeepChunk, LimitReached, HeadFails, Exit, poolVars
<1>2. ASSUME NEW c, FirstChunk(b, c) \/ LargerChunk(b, c)
      PROVE  PoolAccounts'
  BY <1>0, <1>2, TakeAccounts DEF FirstChunk, LargerChunk
<1>3. CASE GiveOldBack(b)
  BY <1>0, <1>3, GiveAccounts DEF GiveOldBack
<1>4. CASE clear(b)
  BY <1>0, <1>4, GiveAccounts DEF clear
<1>5. ASSUME NEW n, pop(b, n)
      PROVE  PoolAccounts'
  <2>1. CASE length(b) = n
    BY <1>0, <1>5, <2>1, GiveAccounts DEF pop
  <2>2. CASE length(b) # n
    BY <1>5, <2>2, QuietAccounts DEF pop
  <2> QED
    BY <2>1, <2>2
<1>6. CASE BeginRead(b) \/ adjust(b) \/ Close(b)
  BY <1>6, QuietAccounts DEF BeginRead, adjust, Close, poolVars
<1>7. CASE Read(b) \/ Write(b)
  BY <1>7, QuietAccounts DEF Read, Write, Put
<1>8. ASSUME NEW n, Arrive(b, n) \/ BeginWrite(b, n) \/ write_to_fd(b, n)
      PROVE  PoolAccounts'
  BY <1>8, QuietAccounts DEF Arrive, BeginWrite, write_to_fd, poolVars
<1> QED
  BY <1>1, <1>2, <1>3, <1>4, <1>5, <1>6, <1>7, <1>8 DEF Reserve, InputStep, OutputStep

(* The two counters are the sums of the sizes of all chunks and of those in the *)
(* free lists, for any capacities, through every allocation, growth and return. *)
THEOREM AccountsBalance == DataBufSpec => []PoolAccounts
<1>1. ASSUME BInv, BInv', PoolAccounts, [DataBufNext]_dvars
      PROVE  PoolAccounts'
  <2>1. CASE UNCHANGED dvars
    BY <1>1, <2>1, QuietAccounts DEF dvars, poolVars
  <2>2. CASE DataBufNext
    BY <1>1, <2>2, BufferAccounts DEF DataBufNext, Buffers
  <2> QED
    BY <1>1, <2>1, <2>2
<1>2. BInv /\ [DataBufNext]_dvars => BInv'
  BY NextBInv
<1>3. BInv /\ PoolAccounts /\ [DataBufNext]_dvars => BInv' /\ PoolAccounts'
  BY <1>1, <1>2
<1> QED
  BY <1>3, InitBInv, InitAccounts, PTL DEF DataBufSpec
=============================================================================
