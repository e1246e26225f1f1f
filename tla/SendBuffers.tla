----------------------------- MODULE SendBuffers -----------------------------
(***************************************************************************)
(* The SendBuffers of ServiceManager: MakeSendPacket cuts a chunk for each  *)
(* packet from a buffer of its thread (LSendBuffer); chunks are copied into *)
(* the queues of sessions and into m_Send, whose bytes the kernel reads;    *)
(* the last shared_ptr to a buffer gives it back to the pool, from whatever *)
(* thread it goes.                                                          *)
(*                                                                          *)
(* A thread is a room's or a worker: both make packets, and both end        *)
(* sends.  Reference counts are not kept: who holds a buffer is known, and  *)
(* the thread whose step leaves it without a holder runs the deleter.  A    *)
(* byte of a buffer is the packet it was written for; in which order chunks *)
(* are sent is FifoOutbox' subject, here they are sets.                     *)
(***************************************************************************)
EXTENDS Naturals, Sequences, FiniteSets

CONSTANTS
  Threads,
  Sessions,
  Buffers,      \* m_Storage of the ObjectPool
  FirstPool,    \* the buffers, in the order in which InitObjectPool stacks them
  NoBuffer,     \* nullptr
  Packets,      \* contents of packets
  NoPacket,
  Sizes,        \* sizes of packets, without header
  HeaderSize,   \* PacketID_SIZE
  ChunkSize,    \* sizeof( m_chunk )
  MaxHeld       \* packets a caller makes before it queues them

ASSUME BuffersAssumption ==
  /\ NoBuffer \notin Buffers
  /\ FirstPool \in Seq(Buffers)
  /\ \A b \in Buffers : \E i \in DOMAIN FirstPool : FirstPool[i] = b
  /\ \A i, j \in DOMAIN FirstPool : FirstPool[i] = FirstPool[j] => i = j
  /\ NoPacket \notin [content : Packets, size : Sizes]
  /\ Sizes \subseteq Nat
  /\ HeaderSize \in Nat \ {0} /\ ChunkSize \in Nat /\ MaxHeld \in Nat

VARIABLES
  pool,       \* m_Pools, its top first
  isUse,      \* m_IsUse
  freeCount,  \* m_FreeCount
  bytes,      \* m_chunk up to m_pointer
  own,        \* LSendBuffer of each thread
  pc,         \* where a thread is in MakeSendPacket
  packet,     \* its arguments
  chunks,     \* chunks its caller holds
  drops,      \* chunks that a thread is destroying
  dying,      \* buffer whose deleter the thread runs
  queue,      \* m_SendQueue of each session
  send        \* its m_Send, that the kernel reads

vars == <<pool, isUse, freeCount, bytes, own, pc, packet, chunks, drops, dying,
          queue, send>>
thePool == <<pool, isUse, freeCount>>
sessions == <<queue, send>>

Arguments == [content : Packets, size : Sizes]

(* Who holds a reference. *)
Held == (UNION {chunks[t] \cup drops[t] : t \in Threads}) \cup
        (UNION {queue[s] \cup send[s] : s \in Sessions})

Referenced(b) ==
  \/ \E t \in Threads : own[t] = b
  \/ \E c \in Held : c.buf = b

Init ==
  /\ pool = FirstPool
  /\ isUse = [b \in Buffers |-> FALSE]
  /\ freeCount = Len(FirstPool)
  /\ bytes = [b \in Buffers |-> <<>>]
  /\ own = [t \in Threads |-> NoBuffer]
  /\ pc = [t \in Threads |-> "idle"]
  /\ packet = [t \in Threads |-> NoPacket]
  /\ chunks = [t \in Threads |-> {}]
  /\ drops = [t \in Threads |-> {}]
  /\ dying = [t \in Threads |-> NoBuffer]
  /\ queue = [s \in Sessions |-> {}]
  /\ send = [s \in Sessions |-> {}]

-----------------------------------------------------------------------------
(* ObjectPool, each method under its lock.  The top is never in use, so Pop
   fails only when there is no top. *)
Pop(t) ==
  /\ own' = [own EXCEPT ![t] = Head(pool)]
  /\ isUse' = [isUse EXCEPT ![Head(pool)] = TRUE]
  /\ freeCount' = freeCount - 1
  /\ pool' = Tail(pool)

(* Faulty variant: a buffer goes back as it is. *)
PushAsItIs(b) ==
  /\ isUse[b]
  /\ isUse' = [isUse EXCEPT ![b] = FALSE]
  /\ pool' = <<b>> \o pool
  /\ freeCount' = freeCount + 1
  /\ UNCHANGED bytes

(* Push resets the buffer, and takes none that is not in use. *)
Push(b) ==
  IF isUse[b]
  THEN /\ isUse' = [isUse EXCEPT ![b] = FALSE]
       /\ bytes' = [bytes EXCEPT ![b] = <<>>]
       /\ pool' = <<b>> \o pool
       /\ freeCount' = freeCount + 1
  ELSE UNCHANGED <<thePool, bytes>>

(* Faulty variant: a thread that takes another buffer gives the old one back. *)
DropAtOnce(t) ==
  dying' = [dying EXCEPT ![t] = IF own'[t] # own[t] THEN own[t] ELSE NoBuffer]

(* In this step of t a reference goes: the deleter is called for a buffer whose
   last it was. *)
Drop(t) ==
  \/ /\ \A b \in Buffers : Referenced(b) => Referenced(b)'
     /\ UNCHANGED dying
  \/ \E b \in Buffers :
       /\ Referenced(b) /\ ~Referenced(b)'
       /\ dying' = [dying EXCEPT ![t] = b]

(* The deleter of GetSendBuffer. *)
Delete(t) ==
  /\ dying[t] # NoBuffer
  /\ Push(dying[t])
  /\ dying' = [dying EXCEPT ![t] = NoBuffer]
  /\ UNCHANGED <<own, pc, packet, chunks, drops, sessions>>

(* A thread goes on when its last deleter has returned. *)
At(t, place) ==
  /\ pc[t] = place
  /\ drops[t] = {} /\ dying[t] = NoBuffer

Goto(t, place) == pc' = [pc EXCEPT ![t] = place]

-----------------------------------------------------------------------------
(* MakeSendPacket. *)

(* Faulty variant: the header is not counted. *)
FitsWithoutHeader(t) == Len(bytes[own[t]]) + packet[t].size <= ChunkSize

(* SendBuffer::IsCopy. *)
Fits(t) == Len(bytes[own[t]]) + HeaderSize + packet[t].size <= ChunkSize

MakeSendPacket(t, p) ==
  /\ At(t, "idle")
  /\ Cardinality(chunks[t]) < MaxHeld
  /\ packet' = [packet EXCEPT ![t] = p]
  /\ Goto(t, IF own[t] = NoBuffer THEN "first" ELSE "copy")
  /\ UNCHANGED <<thePool, bytes, own, chunks, drops, dying, sessions>>

(* The caller learns that there is no chunk; those it has it keeps for now
   (Enter goes on without a SPAWN, or returns). *)
NotMade(t) ==
  /\ Goto(t, "idle")
  /\ packet' = [packet EXCEPT ![t] = NoPacket]
  /\ UNCHANGED <<chunks, drops>>

(* The thread has no buffer. *)
FirstBuffer(t) ==
  /\ At(t, "first")
  /\ pool # <<>>
  /\ Pop(t)
  /\ Goto(t, "copy")
  /\ UNCHANGED <<bytes, packet, chunks, drops, dying, sessions>>

NoFirstBuffer(t) ==
  /\ At(t, "first")
  /\ pool = <<>>
  /\ NotMade(t)
  /\ UNCHANGED <<thePool, bytes, own, dying, sessions>>

(* CopyBuffer: the header and the packet go behind what is there, and the
   chunk refers to them. *)
CopyBuffer(t) ==
  LET b == own[t]
      n == HeaderSize + packet[t].size
      c == [buf |-> b, pos |-> Len(bytes[b]), size |-> n,
            content |-> packet[t].content]
  IN  /\ pc[t] \in {"copy", "again"} /\ dying[t] = NoBuffer
      /\ Fits(t)
      /\ bytes' = [bytes EXCEPT ![b] = @ \o [i \in 1 .. n |-> c.content]]
      /\ chunks' = [chunks EXCEPT ![t] = @ \cup {c}]
      /\ packet' = [packet EXCEPT ![t] = NoPacket]
      /\ Goto(t, "idle")
      /\ UNCHANGED <<thePool, own, drops, dying, sessions>>

(* No room left: another buffer takes the place of this one, whose reference
   goes after the new one has been taken (or not found). *)
NextBuffer(t) ==
  /\ At(t, "copy")
  /\ ~Fits(t)
  /\ pool # <<>>
  /\ Pop(t)
  /\ Goto(t, "again")
  /\ UNCHANGED <<bytes, packet, chunks, drops, sessions>>
  /\ Drop(t)

NoNextBuffer(t) ==
  /\ At(t, "copy")
  /\ ~Fits(t)
  /\ pool = <<>>
  /\ own' = [own EXCEPT ![t] = NoBuffer]
  /\ NotMade(t)
  /\ UNCHANGED <<thePool, bytes, sessions>>
  /\ Drop(t)

(* Larger than a buffer: the thread keeps the new one. *)
TooLarge(t) ==
  /\ At(t, "again")
  /\ ~Fits(t)
  /\ NotMade(t)
  /\ UNCHANGED <<thePool, bytes, own, dying, sessions>>

-----------------------------------------------------------------------------
(* The chunks. *)

(* InsertSendQueue copies a chunk of the caller. *)
InsertSendQueue(t, s, c) ==
  /\ At(t, "idle")
  /\ c \in chunks[t]
  /\ queue' = [queue EXCEPT ![s] = @ \cup {c}]
  /\ UNCHANGED <<thePool, bytes, own, pc, packet, chunks, drops, dying, send>>

(* The caller leaves the scope of a chunk, or returns. *)
Return(t, c) ==
  /\ At(t, "idle")
  /\ c \in chunks[t]
  /\ drops' = [drops EXCEPT ![t] = {c}]
  /\ chunks' = [chunks EXCEPT ![t] = @ \ {c}]
  /\ UNCHANGED <<thePool, bytes, own, pc, packet, dying, sessions>>

(* SessionData::Send moves the queue to m_Send and posts it.  (Here also while
   the last chunks of the previous send are still being destroyed.) *)
Send(s) ==
  /\ queue[s] # {}
  /\ send[s] = {}
  /\ send' = [send EXCEPT ![s] = queue[s]]
  /\ queue' = [queue EXCEPT ![s] = {}]
  /\ UNCHANGED <<thePool, bytes, own, pc, packet, chunks, drops, dying>>

(* SendObject::Clear, on a completion, good or bad, or a refused WSASend. *)
Clear(t, s) ==
  /\ At(t, "idle")
  /\ chunks[t] = {}
  /\ send[s] # {}
  /\ drops' = [drops EXCEPT ![t] = send[s]]
  /\ send' = [send EXCEPT ![s] = {}]
  /\ UNCHANGED <<thePool, bytes, own, pc, packet, chunks, dying, queue>>

(* One SendChunk is destroyed. *)
DropChunk(t, c) ==
  /\ dying[t] = NoBuffer
  /\ c \in drops[t]
  /\ drops' = [drops EXCEPT ![t] = @ \ {c}]
  /\ UNCHANGED <<thePool, bytes, own, pc, packet, chunks, sessions>>
  /\ Drop(t)

(* The thread ends: its thread_local goes. *)
Exit(t) ==
  /\ At(t, "idle")
  /\ chunks[t] = {}
  /\ Goto(t, "gone")
  /\ own' = [own EXCEPT ![t] = NoBuffer]
  /\ UNCHANGED <<thePool, bytes, packet, chunks, drops, sessions>>
  /\ Drop(t)

Next ==
  \/ \E t \in Threads :
       \/ \E p \in Arguments : MakeSendPacket(t, p)
       \/ FirstBuffer(t)
       \/ NoFirstBuffer(t)
       \/ CopyBuffer(t)
       \/ NextBuffer(t)
       \/ NoNextBuffer(t)
       \/ TooLarge(t)
       \/ Delete(t)
       \/ Exit(t)
       \/ \E c \in chunks[t], s \in Sessions : InsertSendQueue(t, s, c)
       \/ \E c \in chunks[t] : Return(t, c)
       \/ \E c \in drops[t] : DropChunk(t, c)
       \/ \E s \in Sessions : Clear(t, s)
  \/ \E s \in Sessions : Send(s)

Spec == Init /\ [][Next]_vars

-----------------------------------------------------------------------------
Chunks == [buf : Buffers, pos : Nat, size : Nat, content : Packets]

TypeOK ==
  /\ pool \in Seq(Buffers)
  /\ isUse \in [Buffers -> BOOLEAN]
  /\ freeCount \in Nat
  /\ bytes \in [Buffers -> Seq(Packets)]
  /\ \A b \in Buffers : Len(bytes[b]) <= ChunkSize
  /\ own \in [Threads -> Buffers \cup {NoBuffer}]
  /\ pc \in [Threads -> {"idle", "first", "copy", "again", "gone"}]
  /\ packet \in [Threads -> Arguments \cup {NoPacket}]
  /\ \A t \in Threads : pc[t] \in {"first", "copy", "again"} => packet[t] # NoPacket
  /\ chunks \in [Threads -> SUBSET Chunks] /\ drops \in [Threads -> SUBSET Chunks]
  /\ dying \in [Threads -> Buffers \cup {NoBuffer}]
  /\ queue \in [Sessions -> SUBSET Chunks] /\ send \in [Sessions -> SUBSET Chunks]

(* README.md on MakeSendPacket: sessions share the bytes of a packet.  As long
   as anybody refers to them, be it the kernel after the thread that wrote them
   has moved on or ended, they are what was written: no buffer is reset or
   given out again under a chunk, and no packet is written over another. *)
ChunksIntact ==
  \A c \in Held :
    /\ c.pos + c.size <= Len(bytes[c.buf])
    /\ \A i \in 1 .. c.size : bytes[c.buf][c.pos + i] = c.content

(* A buffer is in exactly one place: pooled, and then empty and referred to by
   nobody; or referred to; or on its way back with one thread.  No buffer
   leaks, none is pooled twice, no two threads write to one, m_IsUse and
   m_FreeCount tell the truth (ObjectPool.h:80-117). *)
Pooled(b) == \E i \in DOMAIN pool : pool[i] = b

BuffersConserved ==
  /\ freeCount = Len(pool)
  /\ \A i, j \in DOMAIN pool : pool[i] = pool[j] => i = j
  /\ \A b \in Buffers :
       /\ isUse[b] <=> ~Pooled(b)
       /\ isUse[b] <=> Referenced(b) \/ \E t \in Threads : dying[t] = b
       /\ ~isUse[b] => bytes[b] = <<>>
       /\ \A t, u \in Threads : own[t] = b /\ own[u] = b => t = u
       /\ \A t \in Threads : dying[t] = b =>
            ~Referenced(b) /\ \A u \in Threads : dying[u] = b => u = t
=============================================================================
