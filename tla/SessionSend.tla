---------------------------- MODULE SessionSend ----------------------------
(***************************************************************************)
(* The send half of one SessionData object: m_SendQueue, m_SendFlag and    *)
(* the OVERLAPPED m_Send, shared by every thread that queues a chunk       *)
(* (IOCP workers, room threads) and by the worker that takes the           *)
(* completion of a WSASend.  One action per section under m_SendLock and   *)
(* per access to m_Send outside it; pc[t] says where thread t stands.      *)
(*                                                                         *)
(* Chunks are numbered in the order in which they are pushed.  The kernel  *)
(* (WSASend, GetQueuedCompletionStatus) is external: a WSASend succeeds or *)
(* fails, its completion reports some bytes sent, or an error; it may also *)
(* never complete, when the peer does not read.                            *)
(***************************************************************************)
EXTENDS Integers, Sequences

CONSTANTS
  Threads,     \* threads that may run a method of this session
  MaxChunks,   \* bound: chunks queued in one behaviour
  MaxReuse     \* bound: times the pooled object serves another connection

ASSUME BoundsAssumption == MaxChunks \in Nat /\ MaxReuse \in Nat

VARIABLES
  sendQueue,   \* m_SendQueue
  sendFlag,    \* m_SendFlag
  send,        \* m_Send: its chunks, and whether its m_Session is set
  posted,      \* the kernel owns m_Send: a WSASend awaits its completion
  pc,          \* where each thread stands in InsertSendQueue/Send/completion
  wire,        \* chunks the peer of the current connection received whole
  made,        \* chunks queued so far
  connStart,   \* value of made when the current connection began
  reuses,      \* times the object was recycled (for the bound)
  failed       \* a WSASend failed, and no push has raised the flag since

vars == <<sendQueue, sendFlag, send, posted, pc, wire, made, connStart,
          reuses, failed>>

(* SendObject::Clear(): no chunk, no session. *)
Cleared == [chunks |-> <<>>, held |-> FALSE]

(* The places where a thread owns the right to touch m_Send. *)
SendPCs == {"clear", "drain", "test", "post", "unflag", "sent", "broken",
            "complete"}

Sending(t) == pc[t] \in SendPCs

Goto(t, place) == pc' = [pc EXCEPT ![t] = place]

ConnVars == <<connStart, reuses>>

Init ==
  /\ sendQueue = <<>>
  /\ sendFlag = FALSE
  /\ send = Cleared
  /\ posted = FALSE
  /\ pc = [t \in Threads |-> "idle"]
  /\ wire = <<>>
  /\ made = 0
  /\ connStart = 0
  /\ reuses = 0
  /\ failed = FALSE

-----------------------------------------------------------------------------
(* Faulty variant: every push sends, whatever the flag says. *)
InsertAlwaysSends(t) ==
  /\ pc[t] = "idle"
  /\ made < MaxChunks
  /\ made' = made + 1
  /\ sendQueue' = Append(sendQueue, made + 1)
  /\ sendFlag' = TRUE
  /\ failed' = (failed /\ sendFlag)
  /\ Goto(t, "clear")
  /\ UNCHANGED <<send, posted, wire, ConnVars>>

(* InsertSendQueue: push under the lock; whoever raises the flag sends. *)
InsertSendQueue(t) ==
  /\ pc[t] = "idle"
  /\ made < MaxChunks
  /\ made' = made + 1
  /\ sendQueue' = Append(sendQueue, made + 1)
  /\ sendFlag' = TRUE
  /\ failed' = (failed /\ sendFlag)
  /\ Goto(t, IF sendFlag THEN "idle" ELSE "clear")
  /\ UNCHANGED <<send, posted, wire, ConnVars>>

(* Send, before its first lock: m_Send.Clear(). *)
SendClear(t) ==
  /\ pc[t] = "clear"
  /\ send' = Cleared
  /\ Goto(t, "drain")
  /\ UNCHANGED <<sendQueue, sendFlag, posted, wire, made, ConnVars, failed>>

(* Faulty variant: front() once too often, which yields no chunk. *)
SendDrainPastEnd(t) ==
  /\ pc[t] = "drain"
  /\ send' = [send EXCEPT !.chunks = Append(@ \o sendQueue, -1)]
  /\ sendQueue' = <<>>
  /\ Goto(t, "test")
  /\ UNCHANGED <<sendFlag, posted, wire, made, ConnVars, failed>>

(* Send, first locked section: the whole queue moves into m_Send. *)
SendDrain(t) ==
  /\ pc[t] = "drain"
  /\ send' = [send EXCEPT !.chunks = @ \o sendQueue]
  /\ sendQueue' = <<>>
  /\ Goto(t, "test")
  /\ UNCHANGED <<sendFlag, posted, wire, made, ConnVars, failed>>

(* Send, second locked section: nothing to send lowers the flag. *)
SendTest(t) ==
  /\ pc[t] = "test"
  /\ LET empty == send.chunks = <<>>
     IN  /\ sendFlag' = (sendFlag /\ ~empty)
         /\ Goto(t, IF empty THEN "idle" ELSE "post")
  /\ UNCHANGED <<sendQueue, send, posted, wire, made, ConnVars, failed>>

(* Send: m_Send takes its reference and WSASend hands it to the kernel. *)
SendPost(t) ==
  /\ pc[t] = "post"
  /\ send' = [send EXCEPT !.held = TRUE]
  /\ posted' = TRUE
  /\ Goto(t, "idle")
  /\ UNCHANGED <<sendQueue, sendFlag, wire, made, ConnVars, failed>>

(* Faulty variant: the chunks are queued again, behind newer ones. *)
SendPostRequeues(t) ==
  /\ pc[t] = "post"
  /\ sendQueue' = sendQueue \o send.chunks
  /\ send' = Cleared
  /\ failed' = TRUE
  /\ Goto(t, "unflag")
  /\ UNCHANGED <<sendFlag, posted, wire, made, ConnVars>>

(* Send: WSASend fails at the call; m_Send is cleared, chunks and all. *)
SendPostFails(t) ==
  /\ pc[t] = "post"
  /\ send' = Cleared
  /\ failed' = TRUE
  /\ Goto(t, "unflag")
  /\ UNCHANGED <<sendQueue, sendFlag, posted, wire, made, ConnVars>>

(* Send, locked section of the error path: the flag goes down. *)
SendUnflag(t) ==
  /\ pc[t] = "unflag"
  /\ sendFlag' = FALSE
  /\ Goto(t, "idle")
  /\ UNCHANGED <<sendQueue, send, posted, wire, made, ConnVars, failed>>

(* GetQueuedCompletionStatus hands the OVERLAPPED back to one worker, with
   success or with an error; m_Send is the kernel's no longer. *)
TakeCompletion(t, place) ==
  /\ pc[t] = "idle"
  /\ posted
  /\ posted' = FALSE
  /\ Goto(t, place)
  /\ UNCHANGED <<sendQueue, sendFlag, send, wire, made, ConnVars, failed>>

(* Faulty variants: m_Send is not cleared; CheckSendComplete is not called. *)
ExecuteUncleared(t) ==
  /\ pc[t] = "sent"
  /\ wire' = wire \o send.chunks
  /\ Goto(t, IF send.held THEN "complete" ELSE "idle")
  /\ UNCHANGED <<sendQueue, sendFlag, send, posted, made, ConnVars, failed>>

ExecuteStops(t) ==
  /\ pc[t] = "sent"
  /\ send' = Cleared
  /\ wire' = wire \o send.chunks
  /\ Goto(t, "idle")
  /\ UNCHANGED <<sendQueue, sendFlag, posted, made, ConnVars, failed>>

(* What the peer received of m_Send: the first chunks of it. *)
Deliver == \E m \in 0 .. Len(send.chunks) :
  wire' = wire \o SubSeq(send.chunks, 1, m)

(* SendObject::Execute after a completion with bytes: m_Send is cleared, and
   the session it held goes on to CheckSendComplete.  Any number of bytes will
   do: what a partial send left over is lost with m_Send. *)
Execute(t) ==
  /\ pc[t] = "sent"
  /\ send' = Cleared
  /\ Deliver
  /\ Goto(t, IF send.held THEN "complete" ELSE "idle")
  /\ UNCHANGED <<sendQueue, sendFlag, posted, made, ConnVars, failed>>

(* A failed or zero-byte completion: m_Send is cleared and a Job_Leave is
   pushed, but neither the queue nor the flag is touched.  The peer may have
   received some of the chunks. *)
ExecuteFailed(t) ==
  /\ pc[t] = "broken"
  /\ send' = Cleared
  /\ Deliver
  /\ failed' = TRUE
  /\ Goto(t, "idle")
  /\ UNCHANGED <<sendQueue, sendFlag, posted, made, ConnVars>>

(* Faulty variants: the flag goes down, or Send is called, without a look at
   the queue; the flag goes down although Send is called. *)
CompleteWithoutLook(t) ==
  /\ pc[t] = "complete"
  /\ sendFlag' = FALSE
  /\ Goto(t, "idle")
  /\ UNCHANGED <<sendQueue, send, posted, wire, made, ConnVars, failed>>

CompleteAlwaysSends(t) ==
  /\ pc[t] = "complete"
  /\ Goto(t, "clear")
  /\ UNCHANGED <<sendQueue, sendFlag, send, posted, wire, made, ConnVars,
                 failed>>

CompleteLowersFlag(t) ==
  /\ pc[t] = "complete"
  /\ sendFlag' = FALSE
  /\ Goto(t, IF sendQueue = <<>> THEN "idle" ELSE "clear")
  /\ UNCHANGED <<sendQueue, send, posted, wire, made, ConnVars, failed>>

(* CheckSendComplete: go on while there is something queued. *)
CheckSendComplete(t) ==
  /\ pc[t] = "complete"
  /\ LET empty == sendQueue = <<>>
     IN  /\ sendFlag' = (sendFlag /\ ~empty)
         /\ Goto(t, IF empty THEN "idle" ELSE "clear")
  /\ UNCHANGED <<sendQueue, send, posted, wire, made, ConnVars, failed>>

(* The last reference is gone (no thread inside, m_Send holds none): the
   session goes through Reset() into the pool and serves another peer. *)
Reset ==
  /\ \A t \in Threads : pc[t] = "idle"
  /\ ~send.held
  /\ reuses < MaxReuse
  /\ reuses' = reuses + 1
  /\ sendFlag' = FALSE
  /\ wire' = <<>>
  /\ connStart' = made
  /\ UNCHANGED <<sendQueue, send, posted, pc, made, failed>>

SendStep(t) ==
  \/ SendClear(t)
  \/ SendDrain(t)
  \/ SendTest(t)
  \/ SendPost(t)
  \/ SendPostFails(t)
  \/ SendUnflag(t)
  \/ Execute(t)
  \/ ExecuteFailed(t)
  \/ CheckSendComplete(t)

CompletionStep(t) == \E place \in {"sent", "broken"} : TakeCompletion(t, place)

Next ==
  \/ \E t \in Threads :
        InsertSendQueue(t) \/ SendStep(t) \/ CompletionStep(t)
  \/ Reset

Spec == Init /\ [][Next]_vars

(* A running thread goes on.  Nobody is obliged to queue a chunk, nor the
   kernel to complete a send: the peer need not read. *)
Fairness == \A t \in Threads : WF_vars(SendStep(t))

FairSpec == Spec /\ Fairness

-----------------------------------------------------------------------------
TypeOK ==
  /\ sendQueue \in Seq(Nat)
  /\ sendFlag \in BOOLEAN
  /\ send \in [chunks : Seq(Nat), held : BOOLEAN]
  /\ posted \in BOOLEAN
  /\ pc \in [Threads -> SendPCs \cup {"idle"}]
  /\ wire \in Seq(Nat)
  /\ made \in Nat
  /\ connStart \in Nat
  /\ reuses \in Nat
  /\ failed \in BOOLEAN

(* While the kernel owns m_Send, m_Send keeps the session alive and describes
   at least one chunk, so a completion always finds its session. *)
PostedIsHeld == posted => send.held /\ send.chunks # <<>>

(* m_Send is cleared and refilled outside m_SendLock.  That is sound only if
   it has one owner: one thread at a time is in that code, none while the kernel
   reads the OVERLAPPED (SessionData::Send, SendObject::Execute), and until the
   completion m_Send holds the session and its chunks. *)
OneSender ==
  /\ PostedIsHeld
  /\ \A t \in Threads : Sending(t) =>
       /\ ~posted
       /\ \A u \in Threads : Sending(u) => u = t

(* Send() is entered only with something queued: its empty branch cannot be
   taken although the lock is dropped between draining and testing. *)
NeverEmptySend ==
  \A t \in Threads :
    /\ pc[t] \in {"clear", "drain"} => sendQueue # <<>>
    /\ pc[t] \in {"test", "post"} => send.chunks # <<>>

(* A lowered flag means nobody is sending: the flag is the one token that
   InsertSendQueue, Send and CheckSendComplete pass to each other. *)
FlagIsToken == ~sendFlag => ~posted /\ \A t \in Threads : ~Sending(t)

(* A queued chunk always has somebody to send it, on every connection the
   object serves, unless a WSASend failed: after the error path of Send() it
   may wait with the flag down, until the next push raises it; after a failed
   completion with the flag up and nobody behind it, until the object serves
   another connection and a push there raises it. *)
SomeoneSends ==
  sendQueue # <<>> => failed \/ posted \/ \E t \in Threads : Sending(t)

(* Everything that left or will leave, in the order in which it leaves. *)
Line == wire \o send.chunks \o sendQueue

Rising(s) == \A i, j \in 1 .. Len(s) : i < j => s[i] < s[j]

(* The peer receives chunks in the order in which they were queued, each at
   most once, whatever threads queued them and whatever sends failed
   or were cut short. *)
InOrder == Rising(Line) /\ \A i \in 1 .. Len(Line) : Line[i] <= made

(* The outbox an observer of the session sees. *)
Outbox == INSTANCE FifoOutbox WITH pending <- send.chunks \o sendQueue

(* The locking and the flag implement that outbox. *)
ImplementsOutbox == Outbox!OutboxSpec

Elements(s) == {s[i] : i \in 1 .. Len(s)}

(* If no WSASend stays with the kernel for ever (a peer that does not read
   keeps it there, TestClient/RESULTS.md:526-528), a queued chunk is handed to
   a WSASend, unless one fails: no interleaving of the flag, the queue and a
   completion leaves it behind.  What the kernel then delivers of it is up to
   the kernel: a partial send is not repeated (README.md:482). *)
QueuedIsPosted ==
  []<>(~posted) =>
    \A c \in 1 .. MaxChunks :
      c \in Elements(sendQueue) ~>
        (posted /\ c \in Elements(send.chunks)) \/ failed

(* README.md:368 says of sends reaching an unrelated connection that they
   are fixed: a peer only receives chunks queued for its own connection. *)
OwnChunksOnly == \A i \in 1 .. Len(wire) : wire[i] > connStart
=============================================================================
