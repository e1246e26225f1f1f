-------------------------- MODULE SendBuffersProofs --------------------------
(***************************************************************************)
(* What SendBuffers promises, proved for any threads, sessions, pool and   *)
(* sizes: the bytes of a chunk stay what they were as long as anybody      *)
(* refers to them, and every buffer is in exactly one place.               *)
(***************************************************************************)
EXTENDS SendBuffers, SeqLemmas

(* The count of the pool is needed for freeCount to stay a number, and a thread
   copies only to a buffer that it has, and asks for its first when it has none. *)
TypeInv ==
  /\ TypeOK
  /\ freeCount = Len(pool)
  /\ \A t \in Threads : pc[t] \in {"copy", "again"} => own[t] # NoBuffer
  /\ \A t \in Threads : pc[t] = "first" => own[t] = NoBuffer

-----------------------------------------------------------------------------
USE DEF thePool, sessions

(* What a packet adds to a buffer. *)
LEMMA CopyFacts ==
  ASSUME NEW S, NEW s \in Seq(S), NEW n \in Nat, NEW x \in S
  PROVE  LET r == s \o [i \in 1 .. n |-> x]
         IN  /\ r \in Seq(S) /\ Len(r) = Len(s) + n
             /\ \A i \in 1 .. Len(s) : r[i] = s[i]
             /\ \A i \in 1 .. n : r[Len(s) + i] = x
<1> DEFINE u == [i \in 1 .. n |-> x]
           r == s \o u
<1>1. u \in Seq(S) /\ Len(u) = n
  <2>1. u \in [1 .. n -> S]
    OBVIOUS
  <2>2. u \in Seq(S)
    BY <2>1, SeqDef
  <2>3. Len(u) \in Nat /\ 1 .. Len(u) = 1 .. n
    BY <2>1, <2>2, LenProperties
  <2> HIDE DEF u
  <2> QED BY <2>2, <2>3
<1>2. \A i \in 1 .. n : u[i] = x
  OBVIOUS
<1>3. Len(s) \in Nat
  BY LenProperties
<1> HIDE DEF u
<1>4. /\ r \in Seq(S) /\ Len(r) = Len(s) + n
      /\ \A i \in 1 .. Len(s) + n : r[i] = IF i <= Len(s) THEN s[i] ELSE u[i - Len(s)]
  BY <1>1, ConcatProperties
<1> HIDE DEF r
<1>5. \A i \in 1 .. n : r[Len(s) + i] = x
  <2> TAKE i \in 1 .. n
  <2>1. Len(s) + i \in 1 .. Len(s) + n /\ ~(Len(s) + i <= Len(s)) /\ (Len(s) + i) - Len(s) = i
    BY <1>3
  <2> QED BY <1>2, <1>4, <2>1
<1>6. \A i \in 1 .. Len(s) : r[i] = s[i]
  BY <1>3, <1>4
<1> QED BY <1>4, <1>5, <1>6 DEF r, u

(* What Push puts on the stack. *)
LEMMA ConsFacts ==
  ASSUME NEW S, NEW s \in Seq(S), NEW x \in S
  PROVE  /\ <<x>> \o s \in Seq(S) /\ Len(<<x>> \o s) = Len(s) + 1
         /\ (<<x>> \o s)[1] = x
         /\ \A i \in 1 .. Len(s) : (<<x>> \o s)[i + 1] = s[i]
<1> DEFINE o == <<x>>
           r == o \o s
<1>1. o \in Seq(S) /\ Len(o) = 1 /\ o[1] = x
  OBVIOUS
<1>2. Len(s) \in Nat
  BY LenProperties
<1> HIDE DEF o
<1>3. /\ r \in Seq(S) /\ Len(r) = Len(o) + Len(s)
      /\ \A i \in 1 .. Len(o) + Len(s) :
            r[i] = IF i <= Len(o) THEN o[i] ELSE s[i - Len(o)]
  BY <1>1, ConcatProperties
<1> HIDE DEF r
<1>4. \A i \in 1 .. Len(s) : r[i + 1] = s[i]
  <2> TAKE i \in 1 .. Len(s)
  <2>1. i + 1 \in 1 .. 1 + Len(s) /\ ~(i + 1 <= 1) /\ (i + 1) - 1 = i
    BY <1>2
  <2> QED BY <1>1, <1>3, <2>1
<1> QED BY <1>1, <1>2, <1>3, <1>4 DEF r, o

LEMMA PopType ==
  ASSUME TypeInv, NEW t \in Threads, pool # <<>>, Pop(t)
  PROVE  /\ pool' \in Seq(Buffers) /\ freeCount' \in Nat /\ freeCount' = Len(pool')
         /\ Head(pool) \in Buffers
         /\ isUse' \in [Buffers -> BOOLEAN]
         /\ own' \in [Threads -> Buffers \cup {NoBuffer}]
         /\ own' = [own EXCEPT ![t] = Head(pool)] /\ own'[t] # NoBuffer
<1>1. /\ Head(pool) \in Buffers /\ Tail(pool) \in Seq(Buffers)
      /\ Len(Tail(pool)) = Len(pool) - 1
  BY HeadTailProperties DEF TypeInv, TypeOK
<1>2. Len(Tail(pool)) \in Nat
  BY <1>1, LenProperties
<1> QED BY <1>1, <1>2, BuffersAssumption DEF Pop, TypeInv, TypeOK

LEMMA DropType ==
  ASSUME TypeOK, NEW t \in Threads, Drop(t)
  PROVE  dying' \in [Threads -> Buffers \cup {NoBuffer}]
BY DEF TypeOK, Drop

LEMMA NotMadeType ==
  ASSUME TypeOK, NEW t \in Threads, NotMade(t)
  PROVE  /\ pc' \in [Threads -> {"idle", "first", "copy", "again", "gone"}]
         /\ pc' = [pc EXCEPT ![t] = "idle"]
         /\ packet' \in [Threads -> Arguments \cup {NoPacket}]
         /\ \A u \in Threads : pc'[u] \in {"first", "copy", "again"} => packet'[u] # NoPacket
         /\ chunks' \in [Threads -> SUBSET Chunks] /\ drops' \in [Threads -> SUBSET Chunks]
BY DEF TypeOK, NotMade, Goto

LEMMA TypeStep == TypeInv /\ [Next]_vars => TypeInv'
<1> SUFFICES ASSUME TypeInv, [Next]_vars PROVE TypeInv'
  OBVIOUS
<1> USE DEF TypeInv
<1>1. ASSUME NEW t \in Threads, NEW p \in Arguments, MakeSendPacket(t, p) PROVE TypeInv'
  BY <1>1, BuffersAssumption DEF TypeOK, MakeSendPacket, Goto, At, Arguments
<1>2. ASSUME NEW t \in Threads, FirstBuffer(t) PROVE TypeInv'
  BY <1>2, PopType DEF TypeOK, FirstBuffer, Goto, At
<1>3. ASSUME NEW t \in Threads, NoFirstBuffer(t) PROVE TypeInv'
  BY <1>3, NotMadeType DEF TypeOK, NoFirstBuffer
<1>4. ASSUME NEW t \in Threads, CopyBuffer(t) PROVE TypeInv'
  <2> DEFINE b == own[t]
             n == HeaderSize + packet[t].size
             c == [buf |-> b, pos |-> Len(bytes[b]), size |-> n,
                   content |-> packet[t].content]
             r == bytes[b] \o [i \in 1 .. n |-> c.content]
  <2>1. b \in Buffers /\ packet[t] \in Arguments
    BY <1>4 DEF TypeOK, CopyBuffer
  <2>2. bytes[b] \in Seq(Packets) /\ Len(bytes[b]) \in Nat
    <3>1. bytes[b] \in Seq(Packets)
      BY <2>1 DEF TypeOK
    <3> HIDE DEF b
    <3> QED BY <3>1, LenProperties
  <2>3. n \in Nat /\ packet[t].content \in Packets
    <3>1. packet[t].size \in Nat /\ packet[t].content \in Packets
      BY <2>1, BuffersAssumption DEF Arguments
    <3> QED BY <3>1, BuffersAssumption
  <2>4. r \in Seq(Packets) /\ Len(r) = Len(bytes[b]) + n
    BY <2>2, <2>3, CopyFacts
  <2>5. c \in Chunks
    BY <2>1, <2>2, <2>3 DEF Chunks
  <2>6. Len(r) <= ChunkSize
    <3>1. Len(bytes[b]) + HeaderSize + packet[t].size <= ChunkSize
      BY <1>4 DEF CopyBuffer, Fits
    <3>2. packet[t].size \in Nat
      BY <2>1, BuffersAssumption DEF Arguments
    <3>3. Len(r) = Len(bytes[b]) + (HeaderSize + packet[t].size)
      BY <2>4
    <3> HIDE DEF r, b
    <3> QED BY <2>2, <3>1, <3>2, <3>3, BuffersAssumption
  <2>7. /\ bytes' = [bytes EXCEPT ![b] = r] /\ chunks' = [chunks EXCEPT ![t] = @ \cup {c}]
        /\ packet' = [packet EXCEPT ![t] = NoPacket] /\ pc' = [pc EXCEPT ![t] = "idle"]
        /\ UNCHANGED <<pool, isUse, freeCount, own, drops, dying, queue, send>>
    BY <1>4 DEF CopyBuffer, Goto
  <2> HIDE DEF b, n, c, r
  <2> QED BY <2>1, <2>4, <2>5, <2>6, <2>7 DEF TypeOK
<1>5. ASSUME NEW t \in Threads, NextBuffer(t) PROVE TypeInv'
  BY <1>5, PopType, DropType DEF TypeOK, NextBuffer, Goto, At
<1>6. ASSUME NEW t \in Threads, NoNextBuffer(t) PROVE TypeInv'
  BY <1>6, NotMadeType, DropType DEF TypeOK, NoNextBuffer
<1>7. ASSUME NEW t \in Threads, TooLarge(t) PROVE TypeInv'
  BY <1>7, NotMadeType DEF TypeOK, TooLarge
<1>8. ASSUME NEW t \in Threads, NEW c \in chunks[t], Return(t, c) PROVE TypeInv'
  BY <1>8 DEF TypeOK, Return
<1>9. ASSUME NEW t \in Threads, Delete(t) PROVE TypeInv'
  <2>1. dying[t] \in Buffers
    BY <1>9 DEF TypeOK, Delete
  <2>2. Len(pool) \in Nat /\ Len(<<>>) = 0
    BY LenProperties DEF TypeOK
  <2>3. <<>> \in Seq(Packets) /\ Len(<<>>) <= ChunkSize
    BY BuffersAssumption, <2>2
  <2>4. /\ <<dying[t]>> \o pool \in Seq(Buffers)
        /\ Len(<<dying[t]>> \o pool) = Len(pool) + 1
    BY <2>1, ConsFacts DEF TypeOK
  <2>5. CASE isUse[dying[t]]
    <3>1. /\ pool' = <<dying[t]>> \o pool /\ freeCount' = freeCount + 1
          /\ isUse' = [isUse EXCEPT ![dying[t]] = FALSE]
          /\ bytes' = [bytes EXCEPT ![dying[t]] = <<>>]
          /\ dying' = [dying EXCEPT ![t] = NoBuffer]
          /\ UNCHANGED <<own, pc, packet, chunks, drops, queue, send>>
      BY <1>9, <2>5 DEF Delete, Push
    <3>2. bytes' \in [Buffers -> Seq(Packets)] /\ \A b \in Buffers : Len(bytes'[b]) <= ChunkSize
      BY <2>1, <2>3, <3>1 DEF TypeOK
    <3>3. freeCount' \in Nat /\ freeCount' = Len(pool')
      BY <2>2, <2>4, <3>1
    <3> QED BY <2>1, <2>4, <3>1, <3>2, <3>3 DEF TypeOK
  <2>6. CASE ~isUse[dying[t]]
    BY <1>9, <2>1, <2>6 DEF TypeOK, Delete, Push
  <2> QED BY <2>5, <2>6
<1>10. ASSUME NEW t \in Threads, Exit(t) PROVE TypeInv'
  BY <1>10, DropType DEF TypeOK, Exit, Goto
<1>11. ASSUME NEW t \in Threads, NEW s \in Sessions, NEW c \in chunks[t],
              InsertSendQueue(t, s, c) PROVE TypeInv'
  BY <1>11 DEF TypeOK, InsertSendQueue
<1>12. ASSUME NEW t \in Threads, NEW c \in drops[t], DropChunk(t, c) PROVE TypeInv'
  BY <1>12, DropType DEF TypeOK, DropChunk
<1>13. ASSUME NEW t \in Threads, NEW s \in Sessions, Clear(t, s) PROVE TypeInv'
  BY <1>13 DEF TypeOK, Clear
<1>14. ASSUME NEW s \in Sessions, Send(s) PROVE TypeInv'
  BY <1>14 DEF TypeOK, Send
<1>15. CASE UNCHANGED vars
  BY <1>15 DEF TypeOK, vars
<1> QED BY <1>1, <1>2, <1>3, <1>4, <1>5, <1>6, <1>7, <1>8, <1>9, <1>10, <1>11, <1>12,
           <1>13, <1>14, <1>15 DEF Next

(* Every variable keeps its type, and no buffer grows over its end. *)
THEOREM TypeCorrect == Spec => []TypeOK
<1>1. Init => TypeInv
  BY BuffersAssumption, LenProperties DEF Init, TypeInv, TypeOK
<1>2. TypeInv => TypeOK
  BY DEF TypeInv
<1> QED BY <1>1, <1>2, TypeStep, PTL DEF Spec

-----------------------------------------------------------------------------
(* What each step does to the references.  The two invariants need each other:
   a buffer that is reset has no chunks because the thread that resets it had
   the last reference. *)

BufferInv == TypeInv /\ BuffersConserved /\ ChunksIntact

LEMMA Intact ==
  ASSUME ChunksIntact, UNCHANGED bytes, \A c : c \in Held' => c \in Held
  PROVE  ChunksIntact'
BY DEF ChunksIntact

(* Popped from a stack without duplicates, a buffer is not in it any more. *)
LEMMA PopPool ==
  ASSUME BufferInv, NEW t \in Threads, pool # <<>>, Pop(t)
  PROVE  /\ Pooled(Head(pool)) /\ ~isUse[Head(pool)]
         /\ \A b \in Buffers : Pooled(b)' <=> Pooled(b) /\ b # Head(pool)
         /\ \A i, j \in DOMAIN pool' : pool'[i] = pool'[j] => i = j
<1> DEFINE h == Head(pool)
           l == Tail(pool)
<1>1. /\ h \in Buffers /\ l \in Seq(Buffers) /\ Len(l) = Len(pool) - 1
      /\ \A i \in 1 .. Len(l) : l[i] = pool[i + 1]
  BY HeadTailProperties DEF BufferInv, TypeInv, TypeOK
<1>2. h = pool[1]
  BY LenProperties, EmptySeq DEF BufferInv, TypeInv, TypeOK
<1>3. /\ Len(pool) \in Nat /\ Len(l) \in Nat
      /\ DOMAIN pool = 1 .. Len(pool) /\ DOMAIN l = 1 .. Len(l)
  BY <1>1, LenProperties DEF BufferInv, TypeInv, TypeOK
<1>4. pool' = l
  BY DEF Pop
<1>5. \A i, j \in 1 .. Len(pool) : pool[i] = pool[j] => i = j
  BY <1>3 DEF BufferInv, BuffersConserved
<1> HIDE DEF h, l
<1>6. 1 \in 1 .. Len(pool) /\ \A i \in 1 .. Len(l) : i + 1 \in 1 .. Len(pool)
  BY <1>1, <1>3
<1>7. Pooled(h)
  BY <1>2, <1>3, <1>6 DEF Pooled
<1>8. \A i, j \in DOMAIN l : l[i] = l[j] => i = j
  BY <1>1, <1>3, <1>5, <1>6
<1>9. ASSUME NEW b \in Buffers PROVE Pooled(b)' <=> Pooled(b) /\ b # h
  <2>1. ASSUME NEW i \in 1 .. Len(l), l[i] = b PROVE Pooled(b) /\ b # h
    <3>1. pool[i + 1] = b
      BY <1>1, <2>1
    <3>2. i + 1 # 1
      OBVIOUS
    <3>3. b # h
      BY <1>2, <1>5, <1>6, <3>1, <3>2
    <3> QED BY <1>3, <1>6, <3>1, <3>3 DEF Pooled
  <2>2. ASSUME NEW i \in 1 .. Len(pool), pool[i] = b, b # h
        PROVE  \E k \in 1 .. Len(l) : l[k] = b
    <3>1. i - 1 \in 1 .. Len(l) /\ (i - 1) + 1 = i
      BY <1>1, <1>2, <1>3, <2>2
    <3> QED BY <1>1, <2>2, <3>1
  <2> QED BY <1>3, <1>4, <2>1, <2>2 DEF Pooled
<1>10. ~isUse[h]
  BY <1>1, <1>7 DEF BufferInv, BuffersConserved
<1> QED BY <1>4, <1>7, <1>8, <1>9, <1>10 DEF h

(* A buffer pushed comes on top of the others. *)
LEMMA PushPool ==
  ASSUME BufferInv, NEW x \in Buffers, isUse[x], pool' = <<x>> \o pool
  PROVE  /\ \A b \in Buffers : Pooled(b)' <=> Pooled(b) \/ b = x
         /\ \A i, j \in DOMAIN pool' : pool'[i] = pool'[j] => i = j
<1> DEFINE q == <<x>> \o pool
<1>1. /\ q \in Seq(Buffers) /\ Len(q) = Len(pool) + 1 /\ q[1] = x
      /\ \A i \in 1 .. Len(pool) : q[i + 1] = pool[i]
  BY ConsFacts DEF BufferInv, TypeInv, TypeOK
<1>2. pool' = q
  OBVIOUS
<1> HIDE DEF q
<1>3. /\ Len(pool) \in Nat /\ DOMAIN pool = 1 .. Len(pool) /\ DOMAIN q = 1 .. Len(q)
  BY <1>1, LenProperties DEF BufferInv, TypeInv, TypeOK
<1>4. \A i \in 1 .. Len(pool) : pool[i] # x
  BY <1>3 DEF BufferInv, BuffersConserved, Pooled
<1>5. \A i, j \in 1 .. Len(pool) : pool[i] = pool[j] => i = j
  BY <1>3 DEF BufferInv, BuffersConserved
<1>6. \A i \in 1 .. Len(q) : i # 1 => i - 1 \in 1 .. Len(pool) /\ q[i] = pool[i - 1]
  <2> TAKE i \in 1 .. Len(q)
  <2> HAVE i # 1
  <2>1. i - 1 \in 1 .. Len(pool) /\ (i - 1) + 1 = i
    BY <1>1, <1>3
  <2> QED BY <1>1, <2>1
<1>7. \A i, j \in 1 .. Len(q) : q[i] = q[j] => i = j
  <2> TAKE i, j \in 1 .. Len(q)
  <2> HAVE q[i] = q[j]
  <2>1. CASE i = 1 /\ j = 1
    BY <2>1
  <2>2. CASE i = 1 /\ j # 1
    BY <1>1, <1>4, <1>6, <2>2
  <2>3. CASE i # 1 /\ j = 1
    BY <1>1, <1>4, <1>6, <2>3
  <2>4. CASE i # 1 /\ j # 1
    <3>1. i - 1 = j - 1
      BY <1>5, <1>6, <2>4
    <3> QED BY <3>1
  <2> QED BY <2>1, <2>2, <2>3, <2>4
<1>8. ASSUME NEW b \in Buffers PROVE Pooled(b)' <=> Pooled(b) \/ b = x
  <2>1. 1 \in 1 .. Len(q) /\ \A i \in 1 .. Len(pool) : i + 1 \in 1 .. Len(q)
    BY <1>1, <1>3
  <2>2. ASSUME NEW i \in 1 .. Len(q), q[i] = b PROVE Pooled(b) \/ b = x
    BY <1>1, <1>3, <1>6, <2>2 DEF Pooled
  <2>3. ASSUME NEW i \in 1 .. Len(pool), pool[i] = b PROVE \E k \in 1 .. Len(q) : q[k] = b
    BY <1>1, <2>1, <2>3
  <2> QED BY <1>1, <1>2, <1>3, <2>1, <2>2, <2>3 DEF Pooled
<1> QED BY <1>2, <1>3, <1>7, <1>8

(* A step that moves chunks about keeps everything. *)
LEMMA SameReferences ==
  ASSUME BufferInv, TypeInv', Held' = Held,
         UNCHANGED <<pool, isUse, freeCount, bytes, own, dying>>
  PROVE  BufferInv'
<1>1. \A b \in Buffers : (Referenced(b)' <=> Referenced(b)) /\ (Pooled(b)' <=> Pooled(b))
  BY DEF Referenced, Pooled
<1>2. ChunksIntact'
  BY Intact DEF BufferInv
<1> QED BY <1>1, <1>2 DEF BufferInv, BuffersConserved

(* A step of t in which references to x go: x is dying when none is left. *)
LEMMA DropKeeps ==
  ASSUME TypeInv, NEW t \in Threads, dying[t] = NoBuffer, Drop(t), NEW x,
         \A b \in Buffers : Referenced(b) => Referenced(b)' \/ b = x
  PROVE  /\ \A b \in Buffers : Referenced(b) => Referenced(b)' \/ dying'[t] = b
         /\ \A u \in Threads : u # t => dying'[u] = dying[u]
         /\ \A b \in Buffers : dying'[t] = b => Referenced(b) /\ ~Referenced(b)'
<1>1. CASE \A b \in Buffers : Referenced(b) => Referenced(b)'
  <2>1. dying' = dying
    BY <1>1 DEF Drop
  <2> QED BY <1>1, <2>1, BuffersAssumption
<1>2. CASE \E b \in Buffers : Referenced(b) /\ ~Referenced(b)'
  <2>1. PICK y \in Buffers : Referenced(y) /\ ~Referenced(y)' /\ dying' = [dying EXCEPT ![t] = y]
    BY <1>2 DEF Drop
  <2>2. y = x
    BY <2>1
  <2>3. dying'[t] = y /\ \A u \in Threads : u # t => dying'[u] = dying[u]
    BY <2>1 DEF TypeInv, TypeOK
  <2> QED BY <2>1, <2>2, <2>3
<1> QED BY <1>1, <1>2

(* The thread's buffer, or one of its chunks, goes; the pool does not change. *)
LEMMA OneLess ==
  ASSUME BufferInv, TypeInv', NEW t \in Threads, dying[t] = NoBuffer, Drop(t),
         NEW x, \A b \in Buffers : Referenced(b) => Referenced(b)' \/ b = x,
         \A b \in Buffers : Referenced(b)' => Referenced(b),
         \A c : c \in Held' => c \in Held,
         \A u \in Threads : own'[u] \in {own[u], NoBuffer},
         UNCHANGED <<pool, isUse, freeCount, bytes>>
  PROVE  BufferInv'
<1>1. /\ \A b \in Buffers : Referenced(b) => Referenced(b)' \/ dying'[t] = b
      /\ \A u \in Threads : u # t => dying'[u] = dying[u]
      /\ \A b \in Buffers : dying'[t] = b => Referenced(b) /\ ~Referenced(b)'
  BY DropKeeps DEF BufferInv
<1>2. \A b \in Buffers : Pooled(b)' <=> Pooled(b)
  BY DEF Pooled
<1>3. ASSUME NEW b \in Buffers
      PROVE  /\ isUse'[b] <=> ~Pooled(b)'
             /\ isUse'[b] <=> Referenced(b)' \/ \E u \in Threads : dying'[u] = b
             /\ ~isUse'[b] => bytes'[b] = <<>>
             /\ \A u, v \in Threads : own'[u] = b /\ own'[v] = b => u = v
             /\ \A u \in Threads : dying'[u] = b =>
                  ~Referenced(b)' /\ \A v \in Threads : dying'[v] = b => v = u
  <2>1. b # NoBuffer
    BY BuffersAssumption
  <2>2. ASSUME NEW u \in Threads, dying'[u] = b
        PROVE  ~Referenced(b)' /\ (\A v \in Threads : dying'[v] = b => v = u) /\ isUse[b]
    <3>1. CASE u = t
      BY <1>1, <2>1, <2>2, <3>1 DEF BufferInv, BuffersConserved
    <3>2. CASE u # t
      <4>1. dying[u] = b /\ ~Referenced(b)
        BY <1>1, <2>2, <3>2 DEF BufferInv, BuffersConserved
      <4> QED BY <1>1, <3>2, <4>1 DEF BufferInv, BuffersConserved
    <3> QED BY <3>1, <3>2
  <2>3. isUse[b] => Referenced(b)' \/ \E u \in Threads : dying'[u] = b
    <3>1. ASSUME NEW u \in Threads, dying[u] = b PROVE dying'[u] = b
      BY <1>1, <2>1, <3>1
    <3> QED BY <1>1, <3>1 DEF BufferInv, BuffersConserved
  <2>4. Referenced(b)' => isUse[b]
    BY DEF BufferInv, BuffersConserved
  <2> QED BY <1>2, <2>1, <2>2, <2>3, <2>4 DEF BufferInv, BuffersConserved
<1>4. /\ freeCount' = Len(pool')
      /\ \A i, j \in DOMAIN pool' : pool'[i] = pool'[j] => i = j
  BY DEF BufferInv, BuffersConserved
<1>5. ChunksIntact'
  BY Intact DEF BufferInv
<1> QED BY <1>3, <1>4, <1>5 DEF BufferInv, BuffersConserved

(* Pop gives t a buffer that nobody else has, and t may lose its old one. *)
LEMMA OneMore ==
  ASSUME BufferInv, TypeInv', NEW t \in Threads, dying[t] = NoBuffer,
         pool # <<>>, Pop(t), UNCHANGED <<bytes, chunks, drops, queue, send>>,
         Drop(t) \/ (own[t] = NoBuffer /\ UNCHANGED dying)
  PROVE  BufferInv'
<1> DEFINE h == Head(pool)
<1>1. /\ h \in Buffers /\ own' = [own EXCEPT ![t] = h] /\ h # NoBuffer
      /\ isUse' = [isUse EXCEPT ![h] = TRUE] /\ freeCount' = Len(pool')
  BY PopType, BuffersAssumption DEF Pop, BufferInv
<1>2. /\ Pooled(h) /\ ~isUse[h]
      /\ \A b \in Buffers : Pooled(b)' <=> Pooled(b) /\ b # h
      /\ \A i, j \in DOMAIN pool' : pool'[i] = pool'[j] => i = j
  BY PopPool
<1> HIDE DEF h
<1>3. /\ \A b \in Buffers : Referenced(b)' => Referenced(b) \/ b = h
      /\ \A b \in Buffers : Referenced(b) => Referenced(b)' \/ b = own[t]
      /\ \A b \in Buffers : b = h => Referenced(b)'
  <2>1. Held' = Held
    BY DEF Held
  <2>2. own'[t] = h /\ \A u \in Threads : u # t => own'[u] = own[u]
    BY <1>1 DEF BufferInv, TypeInv, TypeOK
  <2>3. ASSUME NEW b \in Buffers, Referenced(b)' PROVE Referenced(b) \/ b = h
    BY <2>1, <2>2, <2>3 DEF Referenced
  <2>4. ASSUME NEW b \in Buffers, Referenced(b) PROVE Referenced(b)' \/ b = own[t]
    BY <2>1, <2>2, <2>4 DEF Referenced
  <2>5. ASSUME NEW b \in Buffers, b = h PROVE Referenced(b)'
    BY <2>2, <2>5 DEF Referenced
  <2> QED BY <2>3, <2>4, <2>5
<1>4. /\ \A b \in Buffers : Referenced(b) => Referenced(b)' \/ dying'[t] = b
      /\ \A u \in Threads : u # t => dying'[u] = dying[u]
      /\ \A b \in Buffers : dying'[t] = b => Referenced(b) /\ ~Referenced(b)'
  <2>1. CASE Drop(t)
    BY <1>3, <2>1, DropKeeps DEF BufferInv
  <2>2. CASE own[t] = NoBuffer /\ UNCHANGED dying
    BY <1>3, <2>2, BuffersAssumption
  <2> QED BY <2>1, <2>2
<1>5. ~Referenced(h) /\ \A u \in Threads : dying[u] # h
  BY <1>1, <1>2 DEF BufferInv, BuffersConserved
<1>6. ASSUME NEW b \in Buffers
      PROVE  /\ isUse'[b] <=> ~Pooled(b)'
             /\ isUse'[b] <=> Referenced(b)' \/ \E u \in Threads : dying'[u] = b
             /\ ~isUse'[b] => bytes'[b] = <<>>
             /\ \A u, v \in Threads : own'[u] = b /\ own'[v] = b => u = v
             /\ \A u \in Threads : dying'[u] = b =>
                  ~Referenced(b)' /\ \A v \in Threads : dying'[v] = b => v = u
  <2>1. b # NoBuffer
    BY BuffersAssumption
  <2>2. ASSUME NEW u \in Threads, dying'[u] = b
        PROVE  /\ ~Referenced(b)' /\ \A v \in Threads : dying'[v] = b => v = u
               /\ isUse[b] /\ b # h
    <3>1. CASE u = t
      BY <1>4, <1>5, <2>1, <2>2, <3>1 DEF BufferInv, BuffersConserved
    <3>2. CASE u # t
      <4>1. dying[u] = b /\ ~Referenced(b) /\ isUse[b]
        BY <1>4, <2>2, <3>2 DEF BufferInv, BuffersConserved
      <4> QED BY <1>3, <1>4, <1>5, <3>2, <4>1 DEF BufferInv, BuffersConserved
    <3> QED BY <3>1, <3>2
  <2>3. isUse[b] => Referenced(b)' \/ \E u \in Threads : dying'[u] = b
    <3>1. ASSUME NEW u \in Threads, dying[u] = b PROVE dying'[u] = b
      BY <1>4, <2>1, <3>1
    <3> QED BY <1>4, <3>1 DEF BufferInv, BuffersConserved
  <2>4. Referenced(b)' => isUse[b] \/ b = h
    BY <1>3 DEF BufferInv, BuffersConserved
  <2>5. isUse'[b] <=> isUse[b] \/ b = h
    BY <1>1 DEF BufferInv, TypeInv, TypeOK
  <2>6. \A u, v \in Threads : own'[u] = b /\ own'[v] = b => u = v
    <3>1. own'[t] = h /\ \A u \in Threads : u # t => own'[u] = own[u]
      BY <1>1 DEF BufferInv, TypeInv, TypeOK
    <3>2. \A u \in Threads : own[u] # h
      BY <1>5 DEF Referenced
    <3> QED BY <3>1, <3>2 DEF BufferInv, BuffersConserved
  <2>7. isUse'[b] <=> ~Pooled(b)'
    BY <1>2, <2>5 DEF BufferInv, BuffersConserved
  <2>8. isUse'[b] <=> Referenced(b)' \/ \E u \in Threads : dying'[u] = b
    BY <1>3, <2>2, <2>3, <2>4, <2>5
  <2>9. ~isUse'[b] => bytes'[b] = <<>>
    BY <2>5 DEF BufferInv, BuffersConserved
  <2> QED BY <2>2, <2>6, <2>7, <2>8, <2>9
<1>7. ChunksIntact'
  <2>1. Held' = Held
    BY DEF Held
  <2> QED BY <2>1, Intact DEF BufferInv
<1> QED BY <1>1, <1>2, <1>6, <1>7 DEF BufferInv, BuffersConserved

LEMMA NotMadeKeeps ==
  ASSUME TypeInv, NEW t \in Threads, NotMade(t), UNCHANGED <<queue, send>>
  PROVE  Held' = Held
<1>1. \A u \in Threads : chunks'[u] \cup drops'[u] = chunks[u] \cup drops[u]
  BY DEF NotMade, TypeInv, TypeOK
<1> QED BY <1>1 DEF Held

LEMMA HeldIs ==
  ASSUME NEW c
  PROVE  /\ c \in Held <=> \/ \E u \in Threads : c \in chunks[u] \/ c \in drops[u]
                           \/ \E s \in Sessions : c \in queue[s] \/ c \in send[s]
         /\ c \in Held' <=> \/ \E u \in Threads : c \in chunks'[u] \/ c \in drops'[u]
                            \/ \E s \in Sessions : c \in queue'[s] \/ c \in send'[s]
<1>1. c \in Held <=> \/ \E u \in Threads : c \in chunks[u] \/ c \in drops[u]
                     \/ \E s \in Sessions : c \in queue[s] \/ c \in send[s]
  BY DEF Held
<1>2. c \in Held' <=> \/ \E u \in Threads : c \in chunks'[u] \/ c \in drops'[u]
                      \/ \E s \in Sessions : c \in queue'[s] \/ c \in send'[s]
  BY DEF Held
<1> QED BY <1>1, <1>2

LEMMA HeldType ==
  ASSUME TypeOK, NEW c \in Held
  PROVE  c \in Chunks
BY HeldIs DEF TypeOK

(* A thread without its buffer. *)
LEMMA LoseOwn ==
  ASSUME BufferInv, TypeInv', NEW t \in Threads, dying[t] = NoBuffer, Drop(t),
         Held' = Held, own' = [own EXCEPT ![t] = NoBuffer],
         UNCHANGED <<pool, isUse, freeCount, bytes>>
  PROVE  BufferInv'
<1>1. /\ own'[t] = NoBuffer
      /\ \A u \in Threads : u # t => own'[u] = own[u]
  BY DEF BufferInv, TypeInv, TypeOK
<1>2. \A b \in Buffers : Referenced(b) => Referenced(b)' \/ b = own[t]
  BY <1>1 DEF Referenced
<1>3. \A b \in Buffers : Referenced(b)' => Referenced(b)
  BY <1>1, BuffersAssumption DEF Referenced
<1>4. \A u \in Threads : own'[u] \in {own[u], NoBuffer}
  BY <1>1
<1>5. PICK x : x = own[t]
  OBVIOUS
<1> QED BY <1>2, <1>3, <1>4, <1>5, OneLess

LEMMA BufferInvariance == Spec => []BufferInv
<1>1. Init => BufferInv
  <2> SUFFICES ASSUME Init PROVE BufferInv
    OBVIOUS
  <2>1. TypeInv
    BY BuffersAssumption, LenProperties DEF Init, TypeInv, TypeOK
  <2>2. Held = {}
    BY DEF Init, Held
  <2>3. \A b \in Buffers : ~Referenced(b)
    BY <2>2, BuffersAssumption DEF Init, Referenced
  <2>4. \A b \in Buffers : Pooled(b)
    BY BuffersAssumption DEF Init, Pooled
  <2> QED BY <2>1, <2>2, <2>3, <2>4, BuffersAssumption DEF Init, BufferInv, BuffersConserved, ChunksIntact
<1>2. ASSUME BufferInv, [Next]_vars PROVE BufferInv'
  <2> USE <1>2
  <2>0. TypeInv /\ TypeInv'
    BY TypeStep DEF BufferInv
  <2>1. ASSUME NEW t \in Threads, NEW p \in Arguments, MakeSendPacket(t, p) PROVE BufferInv'
    <3>1. Held' = Held
      BY <2>1 DEF MakeSendPacket, Held
    <3> QED BY <2>0, <2>1, <3>1, SameReferences DEF MakeSendPacket
  <2>2. ASSUME NEW t \in Threads, FirstBuffer(t) PROVE BufferInv'
    <3>1. own[t] = NoBuffer
      BY <2>0, <2>2 DEF FirstBuffer, At, TypeInv, TypeOK
    <3> QED BY <2>0, <2>2, <3>1, OneMore DEF FirstBuffer, At
  <2>3. ASSUME NEW t \in Threads, NoFirstBuffer(t) PROVE BufferInv'
    <3>1. Held' = Held
      BY <2>0, <2>3, NotMadeKeeps DEF NoFirstBuffer
    <3> QED BY <2>0, <2>3, <3>1, SameReferences DEF NoFirstBuffer
  <2>4. ASSUME NEW t \in Threads, CopyBuffer(t) PROVE BufferInv'
    <3> DEFINE c == [buf |-> own[t], pos |-> Len(bytes[own[t]]),
                     size |-> HeaderSize + packet[t].size, content |-> packet[t].content]
    <3>1. /\ chunks' = [chunks EXCEPT ![t] = @ \cup {c}]
          /\ UNCHANGED <<pool, isUse, freeCount, own, drops, dying, queue, send>>
      BY <2>4 DEF CopyBuffer
    <3>2. own[t] \in Buffers /\ c.buf = own[t]
      BY <2>0, <2>4 DEF CopyBuffer, TypeInv, TypeOK
    <3> HIDE DEF c
    <3>3. \A d : d \in Held' <=> d \in Held \/ d = c
      <4>1. /\ chunks'[t] = chunks[t] \cup {c}
            /\ \A u \in Threads : u # t => chunks'[u] = chunks[u]
        BY <2>0, <3>1 DEF TypeInv, TypeOK
      <4>2. ASSUME NEW d PROVE d \in Held' <=> d \in Held \/ d = c
        BY <3>1, <4>1, HeldIs
      <4> QED BY <4>2
    <3>4. \A b \in Buffers : Referenced(b)' <=> Referenced(b)
      BY <3>1, <3>2, <3>3 DEF Referenced
    <3>5. \A b \in Buffers : Pooled(b)' <=> Pooled(b)
      BY <3>1 DEF Pooled
    <3>6. \A b \in Buffers : b # own[t] => bytes'[b] = bytes[b]
      BY <2>0, <2>4 DEF CopyBuffer, TypeInv, TypeOK
    <3>7. isUse[own[t]]
      BY <3>2 DEF BufferInv, BuffersConserved, Referenced
    <3>8. \A b \in Buffers : ~isUse'[b] => bytes'[b] = <<>>
      BY <3>1, <3>6, <3>7 DEF BufferInv, BuffersConserved
    <3>9. ChunksIntact'
      <4> DEFINE b == own[t]
                 n == HeaderSize + packet[t].size
                 x == packet[t].content
                 r == bytes[b] \o [i \in 1 .. n |-> x]
      <4>1. bytes[b] \in Seq(Packets) /\ b \in Buffers /\ n \in Nat /\ x \in Packets
        <5>1. packet[t] \in Arguments
          BY <2>0, <2>4 DEF CopyBuffer, TypeInv, TypeOK
        <5>2. packet[t].size \in Nat /\ x \in Packets
          BY <5>1, BuffersAssumption DEF Arguments
        <5>3. PICK z : z = packet[t].size
          OBVIOUS
        <5>4. z \in Nat /\ HeaderSize \in Nat
          BY <5>2, <5>3, BuffersAssumption
        <5>5. HeaderSize + z \in Nat
          BY <5>4
        <5>6. bytes[b] \in Seq(Packets) /\ b \in Buffers
          BY <2>0, <3>2 DEF TypeInv, TypeOK
        <5> QED BY <5>2, <5>3, <5>5, <5>6
      <4>3. bytes' = [bytes EXCEPT ![b] = r] /\ bytes'[b] = r
        BY <2>0, <2>4, <4>1 DEF CopyBuffer, TypeInv, TypeOK
      <4>4. c.pos = Len(bytes[b]) /\ c.size = n /\ c.content = x /\ c.buf = b
        BY DEF c
      <4>5. Len(bytes[b]) \in Nat
        <5> HIDE DEF b
        <5> QED BY <4>1, LenProperties
      <4> HIDE DEF b, n, x
      <4>2. /\ Len(r) = Len(bytes[b]) + n
            /\ \A i \in 1 .. Len(bytes[b]) : r[i] = bytes[b][i]
            /\ \A i \in 1 .. n : r[Len(bytes[b]) + i] = x
        BY <4>1, CopyFacts
      <4> HIDE DEF r
      <4>6. ASSUME NEW d \in Held, d.buf = b
            PROVE  /\ d.pos + d.size <= Len(r)
                   /\ \A i \in 1 .. d.size : r[d.pos + i] = d.content
        <5>1. d \in Chunks
          BY <2>0, HeldType DEF TypeInv
        <5>2. d.pos \in Nat /\ d.size \in Nat
          BY <5>1 DEF Chunks
        <5>3. /\ d.pos + d.size <= Len(bytes[b])
              /\ \A i \in 1 .. d.size : bytes[b][d.pos + i] = d.content
          BY <4>6 DEF BufferInv, ChunksIntact
        <5>4. \A i \in 1 .. d.size : d.pos + i \in 1 .. Len(bytes[b])
          BY <4>5, <5>2, <5>3
        <5>5. \A i \in 1 .. d.size : r[d.pos + i] = d.content
          BY <4>2, <5>3, <5>4
        <5>6. d.pos + d.size <= Len(r)
          BY <4>1, <4>2, <4>5, <5>2, <5>3
        <5> QED BY <5>5, <5>6
      <4>7. ASSUME NEW d \in Held, d.buf # b
            PROVE  /\ d.pos + d.size <= Len(bytes'[d.buf])
                   /\ \A i \in 1 .. d.size : bytes'[d.buf][d.pos + i] = d.content
        <5>1. d.buf \in Buffers
          BY <2>0, HeldType DEF TypeInv, Chunks
        <5>2. bytes'[d.buf] = bytes[d.buf]
          BY <2>0, <4>3, <4>7, <5>1 DEF TypeInv, TypeOK
        <5> QED BY <5>2 DEF BufferInv, ChunksIntact
      <4>8. /\ c.pos + c.size <= Len(r)
            /\ \A i \in 1 .. c.size : r[c.pos + i] = c.content
        <5>1. c.pos + c.size <= Len(r)
          BY <4>1, <4>2, <4>4, <4>5
        <5>2. \A i \in 1 .. n : r[c.pos + i] = x
          BY <4>2, <4>4
        <5> QED BY <4>4, <5>1, <5>2
      <4> QED BY <3>3, <4>3, <4>4, <4>6, <4>7, <4>8 DEF ChunksIntact
    <3> QED BY <2>0, <3>1, <3>4, <3>5, <3>8, <3>9 DEF BufferInv, BuffersConserved
  <2>5. ASSUME NEW t \in Threads, NextBuffer(t) PROVE BufferInv'
    <3>1. /\ dying[t] = NoBuffer /\ pool # <<>> /\ Pop(t) /\ Drop(t)
          /\ UNCHANGED <<bytes, chunks, drops, queue, send>>
      BY <2>5 DEF NextBuffer, At
    <3>2. Drop(t) \/ (own[t] = NoBuffer /\ UNCHANGED dying)
      BY <3>1
    <3> HIDE DEF BufferInv
    <3> QED BY <2>0, <3>1, <3>2, OneMore
  <2>6. ASSUME NEW t \in Threads, NoNextBuffer(t) PROVE BufferInv'
    <3>1. Held' = Held
      BY <2>0, <2>6, NotMadeKeeps DEF NoNextBuffer
    <3>2. own' = [own EXCEPT ![t] = NoBuffer]
      BY <2>6 DEF NoNextBuffer
    <3>3. dying[t] = NoBuffer /\ Drop(t) /\ UNCHANGED <<pool, isUse, freeCount, bytes>>
      BY <2>6 DEF NoNextBuffer, At
    <3> QED BY <2>0, <3>1, <3>2, <3>3, LoseOwn
  <2>7. ASSUME NEW t \in Threads, TooLarge(t) PROVE BufferInv'
    <3>1. Held' = Held
      BY <2>0, <2>7, NotMadeKeeps DEF TooLarge
    <3> QED BY <2>0, <2>7, <3>1, SameReferences DEF TooLarge
  <2>8. ASSUME NEW t \in Threads, NEW c \in chunks[t], Return(t, c) PROVE BufferInv'
    <3>1. Held' = Held
      <4>1. \A u \in Threads : chunks'[u] \cup drops'[u] = chunks[u] \cup drops[u]
        BY <2>0, <2>8 DEF Return, At, TypeInv, TypeOK
      <4> QED BY <2>8, <4>1 DEF Return, Held
    <3> QED BY <2>0, <2>8, <3>1, SameReferences DEF Return
  <2>9. ASSUME NEW t \in Threads, Delete(t) PROVE BufferInv'
    <3> DEFINE x == dying[t]
    <3>1. x \in Buffers /\ isUse[x] /\ ~Referenced(x) /\ x # NoBuffer
      BY <2>0, <2>9 DEF Delete, TypeInv, TypeOK, BufferInv, BuffersConserved
    <3>2. /\ pool' = <<x>> \o pool /\ freeCount' = freeCount + 1
          /\ isUse' = [isUse EXCEPT ![x] = FALSE] /\ bytes' = [bytes EXCEPT ![x] = <<>>]
          /\ dying' = [dying EXCEPT ![t] = NoBuffer]
          /\ UNCHANGED <<own, chunks, drops, queue, send>>
      BY <2>9, <3>1 DEF Delete, Push
    <3>3. \A u \in Threads : dying[u] = x => u = t
      BY <2>0, <3>1 DEF BufferInv, BuffersConserved
    <3> HIDE DEF x
    <3>4. PICK y \in Buffers : y = x
      BY <3>1
    <3>5. /\ \A b \in Buffers : Pooled(b)' <=> Pooled(b) \/ b = y
          /\ \A i, j \in DOMAIN pool' : pool'[i] = pool'[j] => i = j
      BY <3>1, <3>2, <3>4, PushPool
    <3>6. \A b \in Buffers : Referenced(b)' <=> Referenced(b)
      BY <3>2 DEF Referenced, Held
    <3>7. /\ dying'[t] = NoBuffer /\ \A u \in Threads : u # t => dying'[u] = dying[u]
      BY <2>0, <3>2 DEF TypeInv, TypeOK
    <3>8. ASSUME NEW b \in Buffers
          PROVE  /\ isUse'[b] <=> ~Pooled(b)'
                 /\ isUse'[b] <=> Referenced(b)' \/ \E u \in Threads : dying'[u] = b
                 /\ ~isUse'[b] => bytes'[b] = <<>>
                 /\ \A u, v \in Threads : own'[u] = b /\ own'[v] = b => u = v
                 /\ \A u \in Threads : dying'[u] = b =>
                      ~Referenced(b)' /\ \A v \in Threads : dying'[v] = b => v = u
      <4>0. b # NoBuffer
        BY BuffersAssumption
      <4>1. CASE b = x
        <5>1. ~isUse'[b] /\ bytes'[b] = <<>> /\ \A u \in Threads : dying'[u] # b
          BY <2>0, <3>2, <3>3, <3>7, <4>0, <4>1 DEF TypeInv, TypeOK
        <5>2. Pooled(b)' /\ ~Referenced(b)'
          BY <3>1, <3>4, <3>5, <3>6, <4>1
        <5> QED BY <3>2, <5>1, <5>2 DEF BufferInv, BuffersConserved
      <4>2. CASE b # x
        <5>1. isUse'[b] = isUse[b] /\ bytes'[b] = bytes[b]
          BY <2>0, <3>2, <4>2 DEF TypeInv, TypeOK
        <5>2. \A u \in Threads : dying'[u] = b <=> dying[u] = b
          BY <2>9, <3>7, <4>0, <4>2 DEF x
        <5>3. Pooled(b)' <=> Pooled(b)
          BY <3>4, <3>5, <4>2
        <5>4. /\ isUse[b] <=> ~Pooled(b)
              /\ isUse[b] <=> Referenced(b) \/ \E u \in Threads : dying[u] = b
              /\ ~isUse[b] => bytes[b] = <<>>
          BY DEF BufferInv, BuffersConserved
        <5>5. /\ \A u, v \in Threads : own[u] = b /\ own[v] = b => u = v
              /\ \A u \in Threads : dying[u] = b =>
                   ~Referenced(b) /\ \A v \in Threads : dying[v] = b => v = u
          BY DEF BufferInv, BuffersConserved
        <5>6. /\ isUse'[b] <=> ~Pooled(b)'
              /\ isUse'[b] <=> Referenced(b)' \/ \E u \in Threads : dying'[u] = b
              /\ ~isUse'[b] => bytes'[b] = <<>>
          BY <3>6, <5>1, <5>2, <5>3, <5>4
        <5>7. \A u, v \in Threads : own'[u] = b /\ own'[v] = b => u = v
          BY <3>2, <5>5
        <5>8. \A u \in Threads : dying'[u] = b =>
                ~Referenced(b)' /\ \A v \in Threads : dying'[v] = b => v = u
          BY <3>6, <5>2, <5>5
        <5> QED BY <5>6, <5>7, <5>8
      <4> QED BY <4>1, <4>2
    <3>9. ChunksIntact'
      <4>1. Held' = Held
        BY <3>2 DEF Held
      <4>2. ASSUME NEW c \in Held PROVE bytes'[c.buf] = bytes[c.buf]
        <5>1. c.buf \in Buffers
          BY <2>0, HeldType DEF TypeInv, Chunks
        <5>2. c.buf # x
          BY <3>1 DEF Referenced
        <5> QED BY <2>0, <3>2, <5>1, <5>2 DEF TypeInv, TypeOK
      <4> QED BY <4>1, <4>2 DEF BufferInv, ChunksIntact
    <3> QED BY <2>0, <3>5, <3>8, <3>9 DEF BufferInv, BuffersConserved, TypeInv
  <2>10. ASSUME NEW t \in Threads, Exit(t) PROVE BufferInv'
    <3>1. Held' = Held
      BY <2>10 DEF Exit, Held
    <3>2. own' = [own EXCEPT ![t] = NoBuffer]
      BY <2>10 DEF Exit
    <3>3. dying[t] = NoBuffer /\ Drop(t) /\ UNCHANGED <<pool, isUse, freeCount, bytes>>
      BY <2>10 DEF Exit, At
    <3> QED BY <2>0, <3>1, <3>2, <3>3, LoseOwn
  <2>11. ASSUME NEW t \in Threads, NEW s \in Sessions, NEW c \in chunks[t],
                InsertSendQueue(t, s, c) PROVE BufferInv'
    <3>1. Held' = Held
      <4>1. /\ queue'[s] = queue[s] \cup {c}
            /\ \A v \in Sessions : v # s => queue'[v] = queue[v]
            /\ chunks' = chunks /\ drops' = drops /\ send' = send
        BY <2>0, <2>11 DEF InsertSendQueue, TypeInv, TypeOK
      <4>2. ASSUME NEW d PROVE d \in Held' <=> d \in Held
        BY <4>1, HeldIs
      <4> QED BY <4>2
    <3> QED BY <2>0, <2>11, <3>1, SameReferences DEF InsertSendQueue
  <2>12. ASSUME NEW t \in Threads, NEW c \in drops[t], DropChunk(t, c) PROVE BufferInv'
    <3>1. /\ dying[t] = NoBuffer /\ Drop(t) /\ own' = own
          /\ chunks' = chunks /\ queue' = queue /\ send' = send
          /\ UNCHANGED <<pool, isUse, freeCount, bytes>>
      BY <2>12 DEF DropChunk
    <3>2. /\ drops'[t] = drops[t] \ {c}
          /\ \A u \in Threads : u # t => drops'[u] = drops[u]
      BY <2>0, <2>12 DEF DropChunk, TypeInv, TypeOK
    <3>3. ASSUME NEW d PROVE /\ d \in Held' => d \in Held
                             /\ d \in Held => d \in Held' \/ d = c
      BY <3>1, <3>2, HeldIs
    <3>4. \A b \in Buffers : Referenced(b) => Referenced(b)' \/ b = c.buf
      BY <3>1, <3>3 DEF Referenced
    <3>5. \A b \in Buffers : Referenced(b)' => Referenced(b)
      BY <3>1, <3>3 DEF Referenced
    <3>6. \A u \in Threads : own'[u] \in {own[u], NoBuffer}
      BY <3>1
    <3>7. PICK x : x = c.buf
      OBVIOUS
    <3>8. \A d : d \in Held' => d \in Held
      BY <3>3
    <3> QED BY <2>0, <3>1, <3>4, <3>5, <3>6, <3>7, <3>8, OneLess
  <2>13. ASSUME NEW t \in Threads, NEW s \in Sessions, Clear(t, s) PROVE BufferInv'
    <3>1. Held' = Held
      <4>1. /\ send'[s] = {} /\ \A v \in Sessions : v # s => send'[v] = send[v]
            /\ drops[t] = {} /\ drops'[t] = send[s]
            /\ \A u \in Threads : u # t => drops'[u] = drops[u]
            /\ chunks' = chunks /\ queue' = queue
        BY <2>0, <2>13 DEF Clear, At, TypeInv, TypeOK
      <4>2. ASSUME NEW d PROVE d \in Held' <=> d \in Held
        BY <4>1, HeldIs
      <4> QED BY <4>2
    <3> QED BY <2>0, <2>13, <3>1, SameReferences DEF Clear
  <2>14. ASSUME NEW s \in Sessions, Send(s) PROVE BufferInv'
    <3>1. Held' = Held
      BY <2>0, <2>14 DEF Send, Held, TypeInv, TypeOK
    <3> QED BY <2>0, <2>14, <3>1, SameReferences DEF Send
  <2>15. CASE UNCHANGED vars
    <3>1. Held' = Held
      BY <2>15 DEF vars, Held
    <3> QED BY <2>0, <2>15, <3>1, SameReferences DEF vars
  <2> QED BY <2>1, <2>2, <2>3, <2>4, <2>5, <2>6, <2>7, <2>8, <2>9, <2>10, <2>11, <2>12,
             <2>13, <2>14, <2>15 DEF Next
<1> QED BY <1>1, <1>2, PTL DEF Spec

(* Every buffer is in exactly one place. *)
THEOREM BuffersAreConserved == Spec => []BuffersConserved
<1>1. BufferInv => BuffersConserved
  BY DEF BufferInv
<1> QED BY <1>1, BufferInvariance, PTL

(* Whoever refers to a chunk finds in it what was written. *)
THEOREM ChunksStayIntact == Spec => []ChunksIntact
<1>1. BufferInv => ChunksIntact
  BY DEF BufferInv
<1> QED BY <1>1, BufferInvariance, PTL
=============================================================================
