------------------------------ MODULE DataBuf ------------------------------
(***************************************************************************)
(* MemoryPool/data_buf.cpp on top of the pool: input buffers that read     *)
(* from a descriptor and output buffers that write to one.  Each buffer    *)
(* has a thread of its own (its connection's), all share the pool.         *)
(*                                                                         *)
(* The bytes of a stream are numbered 1, 2, ...: put[b] of them have been  *)
(* put into b's chunk, got[b] taken out or thrown away by clear.           *)
(*                                                                         *)
(* Nothing in the repository uses the buffers.  Their user is external: it *)
(* calls adjust after it has popped and before it reads again, calls       *)
(* write_to_fd only with something to write, and read_from_fd when the     *)
(* descriptor is readable (bytes are there, or its peer has closed).       *)
(***************************************************************************)
EXTENDS MemPool

CONSTANTS
  Inputs, Outputs,   \* InputBuffer and OutputBuffer objects
  MaxBytes           \* bound: bytes of one stream

Buffers == Inputs \cup Outputs

ASSUME BufferAssumption == MaxBytes \in Nat /\ Inputs \cap Outputs = {}

VARIABLES
  data_buf,   \* the chunk of each buffer
  new_buf,    \* the larger chunk while the bytes move, or NoChunk
  pc,         \* "idle", "popped" (until adjust), and inside a call "reserve", "swap", "fill"
  need,       \* need_read, or len of write_to_buf
  put, got,   \* bytes that entered and left the buffer
  avail,      \* bytes the kernel holds for an input
  closed,     \* inputs whose peer has closed
  buf_fault       \* what would have gone wrong: "assert" or "overflow"

bufVars == <<data_buf, new_buf, pc, need, put, got, avail, closed, buf_fault>>
dvars == <<poolVars, bufVars>>

Held(b) == {data_buf[b], new_buf[b]} \ {NoChunk}
InUse == UNION { Held(b) : b \in Buffers }

DataBufTypeOK ==
  /\ m_pool \in [Caps -> Seq(Chunks)]
  /\ m_total \in Nat /\ m_left \in Nat
  /\ created \in [Caps -> 0 .. PerCap]
  /\ ChunkTypeOK
  /\ exited \in BOOLEAN
  /\ data_buf \in [Buffers -> Chunks \cup {NoChunk}]
  /\ new_buf \in [Buffers -> Chunks \cup {NoChunk}]
  /\ pc \in [Buffers -> {"idle", "popped", "reserve", "swap", "fill"}]
  /\ need \in [Buffers -> 0 .. MaxBytes]
  /\ put \in [Buffers -> Nat] /\ got \in [Buffers -> Nat]
  /\ avail \in [Inputs -> Nat]
  /\ closed \subseteq Inputs
  /\ buf_fault \subseteq {"assert", "overflow"}

DataBufInit ==
  /\ PoolInit
  /\ data_buf = [b \in Buffers |-> NoChunk]
  /\ new_buf = [b \in Buffers |-> NoChunk]
  /\ pc = [b \in Buffers |-> "idle"]
  /\ need = [b \in Buffers |-> 0]
  /\ put = [b \in Buffers |-> 0]
  /\ got = [b \in Buffers |-> 0]
  /\ avail = [b \in Inputs |-> 0]
  /\ closed = {}
  /\ buf_fault = {}

InProcess == ~exited /\ buf_fault = {}
Content(b) == chunk[data_buf[b]]
length(b) == IF data_buf[b] = NoChunk THEN 0 ELSE Content(b).length
Goto(b, where) == pc' = [pc EXCEPT ![b] = where]
Faulty(what) == buf_fault' = buf_fault \cup {what}

(* The peer of an input sends n bytes, or closes.                          *)
Arrive(b, n) ==
  /\ b \notin closed /\ put[b] + avail[b] + n <= MaxBytes
  /\ avail' = [avail EXCEPT ![b] = @ + n]
  /\ UNCHANGED <<poolVars, data_buf, new_buf, pc, need, put, got, closed, buf_fault>>

Close(b) ==
  /\ closed' = closed \cup {b}
  /\ UNCHANGED <<poolVars, data_buf, new_buf, pc, need, put, got, avail, buf_fault>>

(* read_from_fd up to ioctl(FIONREAD); write_to_buf is entered.            *)
BeginRead(b) ==
  /\ pc[b] = "idle" /\ (avail[b] > 0 \/ b \in closed)
  /\ need' = [need EXCEPT ![b] = avail[b]]
  /\ Goto(b, "reserve")
  /\ UNCHANGED <<poolVars, data_buf, new_buf, put, got, avail, closed, buf_fault>>

BeginWrite(b, len) ==
  /\ pc[b] = "idle" /\ put[b] + len <= MaxBytes
  /\ need' = [need EXCEPT ![b] = len]
  /\ Goto(b, "reserve")
  /\ UNCHANGED <<poolVars, data_buf, new_buf, put, got, avail, closed, buf_fault>>

(* Room for need bytes: a first chunk, the present one, or a larger one    *)
(* that the bytes are copied to.  With no capacity large enough the call   *)
(* returns -1 and the buffer keeps what it has.                            *)
Wanted(b) == need[b] + length(b)
HasRoom(b) == data_buf[b] # NoChunk /\ capacity(data_buf[b]) - length(b) >= need[b]

HeadAssert(b) == data_buf[b] # NoChunk => Content(b).head = 0

GiveUp(b) ==
  /\ pc[b] = "reserve" /\ HeadAssert(b) /\ ~HasRoom(b) /\ ~Fits(Wanted(b))
  /\ Goto(b, "idle")
  /\ UNCHANGED <<poolVars, data_buf, new_buf, need, put, got, avail, closed, buf_fault>>

KeepChunk(b) ==
  /\ pc[b] = "reserve" /\ HeadAssert(b) /\ HasRoom(b)
  /\ Goto(b, "fill")
  /\ UNCHANGED <<poolVars, data_buf, new_buf, need, put, got, avail, closed, buf_fault>>

FirstChunk(b, c) ==
  /\ pc[b] = "reserve" /\ data_buf[b] = NoChunk
  /\ alloc_chunk(Wanted(b), c)
  /\ data_buf' = [data_buf EXCEPT ![b] = c]
  /\ Goto(b, "fill")
  /\ UNCHANGED <<chunk, new_buf, need, put, got, avail, closed, buf_fault>>

LargerChunk(b, c) ==
  /\ pc[b] = "reserve" /\ data_buf[b] # NoChunk /\ HeadAssert(b) /\ ~HasRoom(b)
  /\ alloc_chunk(Wanted(b), c)
  /\ chunk' = [chunk EXCEPT ![c] = CopyChunk(@.data, Content(b))]
  /\ new_buf' = [new_buf EXCEPT ![b] = c]
  /\ Goto(b, "swap")
  /\ UNCHANGED <<data_buf, need, put, got, avail, closed, buf_fault>>

GiveOldBack(b) ==
  /\ pc[b] = "swap"
  /\ retrieve(data_buf[b])
  /\ data_buf' = [data_buf EXCEPT ![b] = new_buf[b]]
  /\ new_buf' = [new_buf EXCEPT ![b] = NoChunk]
  /\ Goto(b, "fill")
  /\ UNCHANGED <<need, put, got, avail, closed, buf_fault>>

LimitReached(b) ==
  /\ pc[b] = "reserve" /\ HeadAssert(b) /\ ~HasRoom(b)
  /\ Exit(Wanted(b))
  /\ UNCHANGED bufVars

HeadFails(b) ==
  /\ pc[b] = "reserve" /\ ~HeadAssert(b)
  /\ Faulty("assert")
  /\ UNCHANGED <<poolVars, data_buf, new_buf, pc, need, put, got, avail, closed>>

(* The bytes go behind those in the chunk; read takes at most need_read,   *)
(* or MEM_4K when FIONREAD said there are none.                            *)
ReadCount(b) == IF need[b] = 0 THEN Min({avail[b], Min(Caps)}) ELSE Min({avail[b], need[b]})

Put(b, n) ==
  /\ IF length(b) + n <= capacity(data_buf[b])
     THEN /\ chunk' = [chunk EXCEPT ![data_buf[b]] = Append_(@, n, put[b] + 1)]
          /\ UNCHANGED buf_fault
     ELSE Faulty("overflow") /\ UNCHANGED chunk
  /\ put' = [put EXCEPT ![b] = @ + n]
  /\ Goto(b, "idle")
  /\ UNCHANGED <<m_pool, m_total, m_left, created, exited, data_buf, new_buf, need, got, closed>>

Read(b) ==
  /\ pc[b] = "fill"
  /\ Put(b, ReadCount(b))
  /\ avail' = [avail EXCEPT ![b] = @ - ReadCount(b)]

Write(b) ==
  /\ pc[b] = "fill"
  /\ Put(b, need[b])
  /\ UNCHANGED avail

(* BufferBase::pop: an emptied chunk goes back to the pool.                *)
pop(b, len) ==
  /\ pc[b] \in {"idle", "popped"} /\ data_buf[b] # NoChunk /\ len <= length(b)
  /\ got' = [got EXCEPT ![b] = @ + len]
  /\ IF length(b) = len
     THEN /\ retrieve(data_buf[b])
          /\ data_buf' = [data_buf EXCEPT ![b] = NoChunk]
          /\ Goto(b, "idle")
     ELSE /\ chunk' = [chunk EXCEPT ![data_buf[b]] = PopChunk(@, len)]
          /\ Goto(b, "popped")
          /\ UNCHANGED <<m_pool, m_total, m_left, created, exited, data_buf>>
  /\ UNCHANGED <<new_buf, need, put, avail, closed, buf_fault>>

adjust(b) ==
  /\ pc[b] = "popped"
  /\ chunk' = [chunk EXCEPT ![data_buf[b]] = AdjustChunk(@)]
  /\ Goto(b, "idle")
  /\ UNCHANGED <<m_pool, m_total, m_left, created, exited,
                 data_buf, new_buf, need, put, got, avail, closed, buf_fault>>

clear(b) ==
  /\ pc[b] \in {"idle", "popped"} /\ data_buf[b] # NoChunk
  /\ retrieve(data_buf[b])
  /\ data_buf' = [data_buf EXCEPT ![b] = NoChunk]
  /\ got' = [got EXCEPT ![b] = put[b]]
  /\ Goto(b, "idle")
  /\ UNCHANGED <<new_buf, need, put, avail, closed, buf_fault>>

(* write_to_fd: write takes n bytes (none on EAGAIN), which are popped and *)
(* the rest moved to the front.  The chunk stays, even when it is empty.   *)
write_to_fd(b, n) ==
  /\ pc[b] = "idle" /\ data_buf[b] # NoChunk /\ n <= length(b)
  /\ IF HeadAssert(b)
     THEN /\ chunk' = [chunk EXCEPT ![data_buf[b]] = AdjustChunk(PopChunk(@, n))]
          /\ got' = [got EXCEPT ![b] = @ + n]
          /\ UNCHANGED buf_fault
     ELSE Faulty("assert") /\ UNCHANGED <<chunk, got>>
  /\ UNCHANGED <<m_pool, m_total, m_left, created, exited,
                 data_buf, new_buf, pc, need, put, avail, closed>>

Reserve(b) ==
  \/ GiveUp(b) \/ KeepChunk(b) \/ GiveOldBack(b) \/ LimitReached(b) \/ HeadFails(b)
  \/ \E c \in Chunks : FirstChunk(b, c) \/ LargerChunk(b, c)

InputStep(b) ==
  \/ BeginRead(b) \/ Read(b) \/ adjust(b) \/ Close(b)
  \/ \E n \in 1 .. MaxBytes : Arrive(b, n) \/ pop(b, n)

OutputStep(b) ==
  \/ Write(b)
  \/ \E n \in 1 .. MaxBytes : BeginWrite(b, n)
  \/ \E n \in 0 .. MaxBytes : write_to_fd(b, n)

DataBufNext ==
  /\ InProcess
  /\ \/ \E b \in Buffers : Reserve(b) \/ clear(b)
     \/ \E b \in Inputs : InputStep(b)
     \/ \E b \in Outputs : OutputStep(b)

DataBufSpec == DataBufInit /\ [][DataBufNext]_dvars

(***************************************************************************)
(* Properties                                                              *)
(***************************************************************************)

(* The counters: m_total_size_kb_ is the size of all chunks there are,     *)
(* m_left_size_kb_ that of the chunks in the free lists, also while chunks *)
(* made beyond the first ones come and go.                                 *)
PoolAccounts ==
  /\ m_total = SumOver([k \in Caps |-> k * created[k]])
  /\ m_left = SumOver([k \in Caps |-> get_list_size_byte(k)])

(* A buffer holds the bytes of its stream that are not taken out, all of   *)
(* them, in order, through reads of any size, partial writes and moves to  *)
(* larger chunks.                                                          *)
StreamInOrder ==
  buf_fault = {} =>
    \A b \in Buffers :
      /\ put[b] = got[b] + length(b)
      /\ \A i \in 0 .. length(b) - 1 : Content(b).data[Content(b).head + i] = got[b] + i + 1

(* With such a user no assertion about head fails and no byte is written   *)
(* behind the end of a chunk.                                              *)
BuffersDoNotFault == buf_fault = {}

(* The pool under the buffers is an allocator: a chunk that alloc_chunk    *)
(* hands out is in nobody else's use and comes back from its user only.    *)
ChunksOf == [b \in Buffers |-> Held(b)]
Alloc == INSTANCE Allocator WITH Users <- Buffers, Blocks <- Chunks, held <- ChunksOf

ImplementsAllocator == Alloc!AllocatorSpec
=============================================================================
