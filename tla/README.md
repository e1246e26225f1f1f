# TLA+ models of jhshinServer

jhshinServer is a Windows IOCP game server in C++: clients connect over TCP, enter one of five
rooms, chat and move. This directory holds TLA+ modules of its core logic, the TLC runs that check
them on small instances, and TLAPS proofs for every instance. Paths without a directory below are
files of `src/jhshin_Server/jhshin_Server/`.

## 1. The system

| Component | State | Operations | Talks to |
|---|---|---|---|
| `SessionData` send path | `m_SendQueue`, `m_SendFlag`, `m_Send` | `InsertSendQueue`, `Send`, `CheckSendComplete`, completions good and failed, `Reset` | called by room threads and workers; WSASend |
| `RecvBuffer`, `SessionData::Recv` | `m_buffer`, positions, `m_PacketHeader` | `DivideBuffer`, `SetReadPos`, `Clear`, `RecvStart` | worker that took the completion; `PacketHandler` |
| `PacketHandler` | table of handlers | `Dispatch` and five handlers | makes jobs for `RoomManager`; ECHO answers at once |
| `RoomManager`, `JobQueue` | `m_Stop`, per room a queue and its stop flag | `PushJobByRooms`, `PopAll`, `StartJob`, `Join`, `Release` | workers push, one thread per room pops |
| `Room` | `m_roomUser` by SOCKET, `m_seqIDs` | `Enter`, `Leave`, `BroadCast`, `Move`, the 100 ms tick | sends on members' sessions; `CloseSession` |
| `ListenManager`, `AcceptObject` | acceptors, listen socket, `m_Stop` | `Accept`, `Execute`, `Error`, `Shutdown` | pops sessions, hands them to the main IOCP |
| `SessionManager` | pool of sessions, queue of waiting acceptors | `PopSession`, `PushSession`, `InsertWait`, `ReWaiting`, `ClearWaitQueue` | called wherever the last `shared_ptr` to a session goes |
| `ServiceManager` | `m_UserSession` by SOCKET, pool of `SendBuffer`s | `AddIOCP`, `CloseSession`, `MakeSendPacket`, `Shutdown` | everybody |
| `IOCP` | worker threads, `m_Stop` | `Worker`, `Stop`, `Join` | dispatches completions to the objects above |
| Monitor, `SocketUtil`, singletons | - | printing, Winsock wrappers | read only |
| `TestClient/` | - | functional, load and movement tests | drives the server |

Threads: workers of the main IOCP, workers of the listen IOCP, one thread per room, the monitor and
`main`, which shuts everything down. A `SessionData` is pooled. Nobody frees it: it returns to the
pool when the last `shared_ptr` goes, and those pointers sit in `m_UserSession`, in a room's map, in
jobs, and in `m_Recv`, `m_Send` or an `AcceptObject` while the kernel owns that OVERLAPPED.

What is hard here, and what a component must guarantee:

- **Send path.** One OVERLAPPED per session, several threads that queue, a lock that is dropped
  between deciding and sending. One sender at a time, nothing stuck, nothing reordered.
- **Jobs.** The check of `m_Stop` and the push are apart. Order within a room, no job lost by the
  shutdown but the ones that came after it, the shutdown ends.
- **Session life.** `m_RoomID` and `m_Connected` are read by workers and written by room threads;
  two maps are keyed by a SOCKET value that the system reuses. Rooms list live sessions once, keys
  name their sessions, and every connection that ends gives its session back.
- **Accepting.** The pool and the wait queue have two locks. No session or acceptor is lost or given
  twice, no acceptor waits beside a free session.
- **Framing.** TCP cuts anywhere, sizes lie. Packets are handled whole, once, in order, and the
  buffer always has room.
- **Rooms.** Clients learn who is there, and where, from packets of limited size that may not be made
  at all. Ids are free once or used once, each client knows exactly the others, and time alone decides
  where a mover is, however ticks and requests fall.
- **Send buffers.** Packets of many sessions share the bytes of one buffer, which the last reference
  returns to the pool from any thread. No byte changes under a chunk, no buffer leaks.

Nothing is persisted: there is no crash recovery to model. The network is TCP: bytes are neither
lost nor reordered within a connection, which ends at any moment, cleanly or by a reset.

## 2. Modules

| Module | Models | Depends on |
|---|---|---|
| `FifoOutbox` | abstract: what a session's send side promises | - |
| `SessionSend` | send path of one session | instantiates `FifoOutbox` |
| `RoomJobs` | jobs, room threads, shutdown of rooms and workers | - |
| `SessionLife` | composition: workers, rooms, maps, sockets, pool | abstracts the three below it by their effect |
| `AcceptWait` | acceptors, session pool, wait queue | - |
| `RecvFrames` | receive buffer and packet loop | - |
| `RoomView` | abstract: what clients are told of the members of a room | - |
| `Room` | jobs and tick of one room, movement, the clients' views | instantiates `RoomView` |
| `SendBuffers` | `MakeSendPacket`, chunks, the buffer pool | - |
| `MC*` | values of constants for TLC | the module of that name |
| `SeqLemmas` | facts about sequences | - |
| `SessionSendProofs`, `RoomJobsProofs`, `SendBuffersProofs`, `RecvFramesProofs`, `RoomProofs` | theorems | their module, `SeqLemmas` |
| `SessionLifeProofs`, `AcceptWaitProofs` | theorems | their module |

`SessionLife` is where components meet: what `SessionSend` proves of the send side is there one state
per session ("pending", "pending with more behind it", ...), what `RoomJobs` shows of the queues is
there a FIFO queue of which a room takes one job at a time, and accepting is one step. `Room` composes
a room with the clients it talks to; the chunks between them are `SendBuffers` and `SessionSend`, and
that what arrives is whole, once and in order is what those two show. `Room` is one room alone: that other
rooms set and read `m_Connected` and `m_RoomID` of the same session is in `SessionLife`.

In every module an action is a stretch of code between two points at which another thread can come
in: a locked section, a read or write of a variable that other threads use, a system call. Names of
actions are those of functions, with the part of the function as a suffix. Definitions headed
"Faulty variant" are not part of any specification; they are the deliberate mistakes
(`PROJECT.json`, "mutants") against which each property is tested.

### SessionSend
`pc[t]` says where thread `t` stands inside `InsertSendQueue`/`Send`/the completion; `posted` is the
kernel's ownership of `m_Send`. Chunks are numbers in the order of the pushes. `SendPost` and
`SendPostFails` are the two outcomes of WSASend, `Execute` and `ExecuteFailed` the two of its
completion. The code takes any number of bytes above 0 for success (`IOCP.cpp:257`, `:277`) and clears
`m_Send`, so what a partial send left over is lost (README.md:482 lists this as open): `Deliver` gives the
peer any number of chunks from the front, after a success as after a failure. `Reset` happens when no thread is inside and nothing is pending, which is what the
`shared_ptr` in `m_Send` guarantees; the next connection starts with an empty `wire` and keeps
`m_SendQueue`, as `SessionData::Reset` does.

### RoomJobs
A worker's `Check` is the test in `PushJobByRooms`, `Push` the push; `hand` is what it carries between
them. `PopAll`, `Dispatch`, `EndRound` are one round of `Room::StartJob` (the wait of `PopAll` has a
timeout, so a round may find nothing). `main` runs `Join` room by room, then stops and joins the
workers, then `Release`.

### SessionLife
`open` is the system's view (which connection a SOCKET value names), `Held(s)` the existence of a
`shared_ptr`, `worker[w]` and `room[r]` where threads stand. Clients send any packet at any time and leave when
they like, also before the server first receives; `ReuseHandles` says whether SOCKET values come back.
`Enter` and `Leave` are cut at each write another thread can see: `Leave` lowers `m_Connected`
(`LeaveDisconnect`), unsets `m_RoomID` (`LeaveUnsetRoom`), sends (`LeaveTell`), erases its entry (`LeaveUnlist`)
and closes. `EnterRefuse` is a full room or a packet that cannot be made. ECHO is answered by the worker, MOVE
is a job without further effect here, and `Tick` is the snapshot, which may start a send at any time.
Two history variables sort out the clients: `client` is "rude" from the first packet (or end) that is not in
the order the test programs keep (one ENTER, its answer, then anything else), and `twins` are sessions
that shared a SOCKET while both were alive. A `Ghost` is a member, of a rude client, whose connection was closed.

### AcceptWait
Nested calls (`Clear` -> `PushSession` -> `ReWaiting` -> `Accept`) are places of `th[t]`; `then`
remembers the acceptor whose handler goes on afterwards. `AcceptSucceeds` and `AcceptFails` are the network's;
a completion that has happened is taken also after the listen socket is closed. An AcceptEx that the system
refuses leaves its acceptor "refused" for ever, because the code does not look at the result
(`ListenManager.cpp:109`). `late` counts each thread's calls of AcceptEx on the closed socket.

### RecvFrames
A byte is its packet and its offset in it, so that a size field read from the wrong place is seen to
be one, and may then have any of the values in `BodySizes`. `Receive(n)` is a completion of `n` bytes,
any cut. `Handle` and `Refuse` are one turn of `SessionData::Recv`.

### Room
A job or a tick is one step, since only the room's thread touches `m_roomUser` and `m_seqIDs`.
`Enter` succeeds; `EnterFull`, `EnterTaken` and `EnterNoPacket` are its other ends. `bad` is the set of
calls of `MakeSendPacket` within the job that find no buffer, counted from 1; `AddSpawnData`,
`AddMoveData` and `LastBatch` are the loops that fill packets, and `lost` are the entries nobody gets.
`ParseClient` is the test client's (`TestClient/MoveTest.cpp`), which lists SPAWN ids and positions;
`knows` and `at` are what it can conclude. Positions are integers on a line, one unit per unit of the
clock; the direction and the square root are left out. `EndTick` is a sum of floats in the code:
`limit.grain` is the spacing of floats of the size of the uptime (1 for a young server).
`gap`, `untold` and `unmade` are history variables: they record which client missed a packet that could not be
made, which member stopped without a snapshot, and how many LEAVEs could not be made; nothing depends on them.

### SendBuffers
`pc[t]` is the place in `MakeSendPacket`: "first" and "copy" are its two ways in, "again" the second
`CopyBuffer` on the fresh buffer. A chunk is a value (buffer, position, size); copying a `shared_ptr`
is putting it into another set. Counts of references are not kept: a step that leaves a buffer without
a holder starts its deleter (`Drop`), which runs later as a step of its own (`Delete`), so that between
them the buffer is neither referred to nor pooled.

## 3. Runs

| Run | Instance | Shows |
|---|---|---|
| `send` | 3 threads, 5 chunks, 3 connections | token discipline of `m_SendFlag` (`OneSender`, `FlagIsToken`, `NeverEmptySend`), `SomeoneSends`, `InOrder`, refinement of `FifoOutbox`, and `QueuedIsPosted` under fairness |
| `jobs` | 2 workers, 2 rooms, 3 jobs | `RoomFifo`, `DrainedBeforeExit`, `OneLatePerWorker`, `ReleasedAlone`; jobs are dispatched and the shutdown ends |
| `life` | 2 sessions, 2 SOCKETs that are reused, 2 workers, 2 rooms, any client, 2 packets | `KeysMatch`, `RoomIDMatches`, `ConnectedIsMember`; `MembersAreOpen` |
| `life_gone` | 1 session, 1 SOCKET, 2 connections, 2 workers, 2 rooms, any client, 3 packets | a session whose peer is gone is pooled |
| `accept` | 2 acceptors, 2 sessions, 3 threads (2 listeners), shutdown | `SessionsConserved`, `AcceptorsKept`, `NoLostWakeup`; waiting acceptors are served |
| `frames` | header 2, buffer 5, bodies 0, 1, 3, 4 bytes, 3 packets, 2 connections | whole packets, in order, once; nothing held back; always room to receive |
| `room` | 4 sessions on 3 SOCKETs, 3 ids, one entry per packet, 5 sets of bounds | `SeqIDsKept`, `OnCourse`, `StoppedIsKnown`, refinement of `RoomView`; movers arrive unless overtaken for ever |
| `buffers` | 2 threads, 2 buffers of two bytes, packets that fit or do not, 1 session | `ChunksIntact`, `BuffersConserved` |
| `send_reuse` | 3 threads, 3 chunks, 2 connections | `OwnChunksOnly` is violated |
| `life_ghost` | 1 session, 2 workers, 2 rooms | `NoGhosts` is violated |
| `life_two_rooms` | 1 session, 2 workers, 2 rooms | `OneRoom` is violated |
| `frames_reuse` | as `frames`, 2 packets | `FramesRightAlways` is violated |

**Bounds.** A chunk can be on the wire, in `m_Send` or queued; five chunks put one in each place, one
on its way and one lost, and the third thread takes a completion while the two others are inside
`InsertSendQueue` and `Send`; a third connection follows two that failed. Two workers and three jobs let both workers carry a job past the check
while the room stops. In `SessionLife` every hazard found so far needs at most two threads of each
kind and two packets of one client; two sessions are needed for a SOCKET value to pass from one to
the other. The server has five rooms (`jhshin_Server.cpp:46`); two are enough for two rooms to race for one
session or for its SOCKET, and the proofs are for any number. `GoneIsPooled` needs a third packet, so that both ENTERs of a client
that enters twice and a LEAVE are under way when it goes, and only one session: what sessions do to each other
through a shared SOCKET it exempts. In `AcceptWait` both sessions can be in use, so that both acceptors wait, and with two
listeners an acceptor can be on its way into the wait queue while two threads are inside `ReWaiting`.
(Fewer acceptors than threads, or more than sessions, hide the races of the insertion; safety was also
checked by hand with three of each.) In `RecvFrames` the sizes are the boundary values: none, one, exactly
the buffer, one too many. A header of two bytes can be cut in the middle; three packets let a
completion end inside the third after two whole ones.

In `room` the values of `Limits` are explored one after the other: membership with all four sessions, a
full room and two failing packets, the clock standing still; two movers with a failing packet; two
movers with the coarse clock of an old server; three members; one mover that changes its mind. Packets
of one entry make every second member a batch of its own. MOVEs are taken as long as the clock can
still run to the arrival, so that `MoversArrive` is not an effect of the bound. In `buffers` a buffer
holds two small packets, so that it can be full, shared, or left by its thread while a queue, `m_Send`
or another caller still refers to it; with two buffers and two threads the pool is exhausted by one
thread that changes buffers. A third size does not fit an empty buffer.

**Fairness.** Weak fairness of a thread's next step, for threads that are inside a call or have work:
the code has no unbounded waits but `GetQueuedCompletionStatus` and the timed wait of `PopAll`.
The end of a receive and a failed send are taken by some worker (`TakeEnd`, `TakeFailure`), for the port hands
them out. A good send completion is under no fairness: a peer that does not read keeps its WSASend
pending (TestClient/RESULTS.md:526-528). So `QueuedIsPosted` is about sends that do complete, one way or
another, and `GoneIsPooled` rests on `closesocket` failing what is pending. Clients, new connections, errors, ticks
and the beginning of a shutdown are under no fairness either: they may never happen. In `Room` the clock is fair
(time goes on) and so is looking at it when a tick is due: `StartJob` does so after every batch, a
batch is finite, and the wait of `PopAll` ends by itself after `MinMoveTick`.

**Deadlock.** `CHECK_DEADLOCK FALSE` everywhere: with the bound on inputs reached, a server that has
nothing to do is idle, and a shut-down server has ended. That nothing is stuck is stated by the
leads-to properties instead.

### Disagreements between the code and its documents

1. `send_reuse`: `SessionData::Reset` keeps `m_SendQueue`. What was queued behind a failed send goes
   to the next client of the pooled session (README.md:368 says that bug is fixed).
2. `life_ghost`: a client that leaves while its ENTER is still queued has `m_RoomID` -1; its socket is
   closed without a `Job_Leave`, then the room admits it and keeps it (README.md:368).
3. `life_two_rooms`: `Room::Enter` tests `m_Connected` and sets it later; two rooms can both admit a
   session (TestClient/RESULTS.md:532). With SOCKETs reused it gets worse: such a session stays in a room after
   its socket was closed, and when a new connection is given that SOCKET, a Leave of either erases by SOCKET
   (`Room.cpp:163`, `:191`) the entry of whichever is listed. `RoomIDMatches`, `ConnectedIsMember`,
   `MembersAreOpen` and `GoneIsPooled` exempt those two sessions (`twins`), and nobody else.
4. `frames_reuse`: `RecvBuffer::Initialize` does not reset the positions; leftovers of one connection
   are framed with the next one's bytes (README.md:135).

The passing runs state what does hold beside each of these: `SomeoneSends` and `InOrder` with failed and
partial sends; `MembersAreOpen` for every client that keeps the order of packets, in the company of others
that do not; `KeysMatch` without exception, `RoomIDMatches` and `ConnectedIsMember` for any client in any room;
`GoneIsPooled` for any client but the ghosts of disagreement 2; `FramesRight` for a buffer that starts
empty (`fresh`), as long as the packets fit.

Also, the comments at `RoomManager.cpp:57-58` and `:80-82` say that raising `m_Stop` first filters the
workers that are still busy. A worker between the check and the push is not filtered; what holds, and
is proved, is `OneLatePerWorker`. The double `closesocket` that TestClient/RESULTS.md:546 records as
an open hole is in `SessionLife` as well (`CloseUnrouted` after `LeaveClose`); the connections it hits are twins.

Seen while modelling, and stated as an exemption or a remark rather than by a run of its own:

- `AcceptObject::Execute` ignores a failing `RecvStart` (`IOCP.cpp:182`): a peer that resets before leaves a
  session and a socket that nobody gives back, which TestClient/RESULTS.md:490-505 takes for fixed. All runs of
  `SessionLife` have this (`Connect`, peer "early"); `GoneIsPooled` speaks of peers that go later.
- `Leave` takes the room number away (`Room.cpp:161`) before the entry (`:191`). In between, a second failed
  completion of the same connection finds -1 and closes the socket of a session that is still listed;
  `MembersAreOpen` therefore excepts the session that its room is removing.
- An acceptor whose AcceptEx the system refuses is lost while the server runs (`ListenManager.cpp:109`).
  `AcceptorsKept` says it is the only way.
- README.md:343 says that a packet larger than the buffer is dropped. What is dropped is the part of it that is
  held; its remaining bytes are read as a header. `FramesRight` and `StreamConserved` are about streams whose packets fit.
- Every completion with bytes counts as a complete send (`IOCP.cpp:257`): the rest of a partial one is lost.
- README.md:364 and TestClient/RESULTS.md:1104 say that the notice of an arrival is at most one tick late. It may
  not come at all: `Room::Move` calls `MovePosition`, and if that finds the user arrived and the request
  is for the same point, it returns (`Room.cpp:256-266`) with `m_IsMove` down and no snapshot made. Such
  members are `untold`; without that exemption `StoppedIsKnown` is violated.
- README.md:291 says that sending a SPAWN calls `MovePosition` first. `Room::Enter` does not
  (`Room.cpp:90-99`): a newcomer gets the position of the last tick. The next tick corrects it.
- `Room.cpp:274` adds to `nowTick` as a float: after `2^24` ms (4.7 hours) of uptime arrivals are rounded
  to 2 ms, after three days to 16 ms. `OnCourse` states the error this makes.
- The comment at `ServiceManager.cpp:193-196` says that workers die last so that completions can be taken.
  `m_iocp.Stop` is posted right after the sockets are closed, and what is still queued is not taken;
  sessions that keep chunks are destroyed after the pool of `SendBuffer`s (`jhshin_Server.cpp:60-64`).

## 4. Proofs

TLAPS checks these for every value of the constants, from the `ASSUME`s of the modules (bounds are
naturals, sets of threads, acceptors and sessions finite where a cardinality is taken). No theorem has an
assumption of its own.

**SessionSend** (`SessionSendProofs`). `TypeCorrect`; then `Token`, the inductive invariant: of the
sending threads and the posted send there is at most one, it has the flag raised, and what `m_Send`
and the queue hold is known at each place of `Send`. `OneSender`, `FlagIsToken`, `PostedIsHeld` and
`NeverEmptySend` follow from it; none of them is inductive alone, because that the taker of a
completion finds its chunks depends on what was true when they were posted (`PostedIsHeld`, which is part of
`OneSender`). `NeverEmptySend` is the
claim of TestClient/RESULTS.md:665-679 that the empty branch of `Send` is dead code.
`EmptyUnlessSending` says when `m_Send` may hold chunks, `Backed` strengthens `SomeoneSends` by the
raised flag. For `InOrder`, `LineInv` takes the order of `wire \o m_Send \o m_SendQueue` apart into the
order of each part and of each pair. `Refinement` shows `Spec => ImplementsOutbox` step by step:
draining is a stutter, a completion or a failure takes a prefix off what is pending and gives the peer a
prefix of that.

**RoomJobs** (`RoomJobsProofs`). `RoomFifo` is inductive given the types. `RoundInv` (what the last
`PopAll` returned agrees with the queue's stop flag and the thread's place) and `DrainInv` (after a
round that saw the stop only late jobs are in the queue) give `DrainedBeforeExit`; `JoinInv` (how far
main has come bounds who can still run) gives `ReleasedAlone`. For `OneLatePerWorker`, `LateInv` adds
the workers that still carry a job past the check to the late jobs: once `m_Stop` is up the sum is at
most the number of workers, since none passes the check again.

**SendBuffers** (`SendBuffersProofs`). `BufferInv` is the conjunction of the types, `BuffersConserved` and
`ChunksIntact`, and is inductive; neither of the last two is alone: that a fresh buffer has no chunks
needs conservation, and that a buffer given back is unreferred needs the places of chunks. Steps fall
into kinds, each with a lemma: those that change no reference (`SameReferences`), that take a buffer
(`OneMore`), that lose the thread's own (`LoseOwn`), and that lose a chunk; `CopyBuffer` appends behind
the chunks that are there.

**SessionLife** (`SessionLifeProofs`). `KeysMatch` for any clients and any reuse of SOCKET values. It is
inductive with `SocketInv`: whoever a worker or a room works with has a SOCKET, hence cannot be the
session a new connection takes. The rest is about the sessions that share no SOCKET. `Shared` says that a session
outside `twins` that somebody refers to is the only one with its SOCKET; it follows from what a step can
refer to afterwards (`RefsIn`, `RefsKept`: only what was referred to before, and what `Connect` takes), hence
that `HeldSet` grows in `Connect` only. `Entered` then says at each place of `Enter` and `Leave` which of the
room number, `m_Connected` and the entry in `m_roomUser` are up: a number implies the entry under the
session's own SOCKET (`Numbered`), the flag an entry that no room is removing (`Flagged`), a room thread that
is to give out the number has made its entry (`Admitted`), and a session whose entry a room is about to erase does
not bear that room's number (`Unset`).

**AcceptWait** (`AcceptWaitProofs`). `Placed` (no acceptor in two places), `Somewhere` (until the shutdown it
is in one) and `Alone` (an acceptor keeps its reference only while it uses it, a session in a thread's
hands is nobody else's) are one invariant: that a session is given once depends on where acceptors
are, and the reverse. `SessionsConserved` is part of `Alone`; `AcceptorsKept` counts what `Placed` and
`Somewhere` say, and `LateInv` that a thread which has called AcceptEx on the closed socket is at no place on the
way to another call; it gets to none either, since `m_Stop` is up by then (`SetsOut`). `NoLostWakeup` is inductive given the types: with a waiting acceptors, s free sessions, t
threads before their `PopSession` and p before their pop of the queue, a <= t + p or s <= t. A thread
outside `ReWaiting` never adds to a or s without entering it (`OutsideWakes`); one inside leaves with an
acceptor or a session, or because it saw the queue or the pool empty, and then one side is 0
(`InsideSteps`). `IsFiniteSet(Sessions)` is assumed for the count.

**RecvFrames** (`RecvFramesProofs`). What one turn of the loop leaves (`LoopStep`) gives the bound of the
buffer, `NothingHeldBack` and `RoomToReceive`. For `FramesRight` the invariant is `Framed`: there are
offsets, one per packet sent, such that the bytes in the buffer and on the way, counted from the last
packet handled, are those of the remaining packets at their offsets. Sending appends an offset, a
completion moves the border between buffer and way, and handling a packet moves the origin by one
offset; a header in the buffer is thus genuine, its packet fits, and `Clear` drops nothing
(`ReceiveKeeps`, `HandleTakes`). From these two follows `StreamConserved`: a completion and a turn of the loop
put the same bytes together in another way. That `FlattenSeq` of one part more appends that part
(`FlattenAppend`) is proved through the trace of its recursive function, as for the loops of `Room`.

**Room** (`RoomProofs`). `IdInv` states pointwise what `SeqIDsKept` counts (`seqIDs` has no repetition, members have
distinct ids and none of the free ones) and that the ids missing are the LEAVEs that could not be made
(`Enough`). Whatever moves a member keeps its id. For `OnCourse`, `AllOnCourse` says for any float spacing that the
distance left and the time left differ by one spacing at most (by nothing if it is 1). Setting out brings that error
(`FloatNear`, `EndTickNear`); each later share of the way, rounded down, keeps it (`ShareNear`), so that errors
do not add up over the ticks.

The clients' side rests on lemmas about what the loops of the code compute. `Received` (how a client reads
a run of packets), `Greeting` and `Snapshot` (how `Room::Enter` and the tick fill batches) are recursive
functions over the number of turns; each loop gets a trace, the function from the turn to the state of
the loop (`Recursion` in `SeqLemmas`), and a fact about every turn of a trace is proved without an
induction scheme, by the least turn at which it would fail (`UpTo`). Thus `ReceivedLists` and
`ReceivedAnswer` say what a client knows after a batch, `GreetingSays` and `SnapshotSays` that the batches tell each
member (mover) once or count it as lost. `EnterFacts`, `LeaveFacts`, `MoveFacts`, `TickFacts` put
both together into what a job does to members, entries and clients, and `RoomInv` (types, `IdInv`, members
and entries are the same sessions, nobody set out in the future) is kept by each. `TypeOK` is part of
it; `StoppedIsKnown` is inductive given `RoomInv`; `ViewRefined` maps every step to a step of `RoomView` or to a
stutter; and `RoomView` keeps its own promise, so `ClientsKnowMembers`: the room does.
`MaxRoomUserCount >= 1` is assumed (`RSDefine.h:29` sets 1000).

**Only model-checked.** Of the invariants of passing runs only `MembersAreOpen`. All liveness
(`QueuedIsPosted`, `JobsAreDispatched`, `ShutdownEnds`, `GoneIsPooled`, `WaitersAreServed`, `MoversArrive`): fairness
and ENABLED are beyond the prover.

## 5. Not modelled

- `ServiceManager::MonitorLoop` prints counters and `SocketUtil` wraps Winsock calls; the singleton template
  and the Visual Studio files have no state that the server's correctness depends on.
- The test programs (`TestClient/TestClient.cpp`, `LoadTest*.cpp`, the scenarios of `MoveTest.cpp`) drive and
  measure the server. Only how a client reads packets and when it sends them is modelled.
- The table of `PacketHandler` is filled once before any thread starts. Payloads, packet types and
  addresses are data.
- The end of the process after `ServiceManager::Shutdown` has joined its threads: completions left in the
  port and the release of the singletons. One thread is left, so there is nothing to interleave.
- Floats: positions are integers; their rounding is modelled for end ticks only. `NaN` and infinite
  destinations are refused like those outside the map (`Room.cpp:232-244`).
- Memory model: shared fields without a lock (`m_RoomID`, `m_Socket`) are read and written whole; on x64 an
  aligned `int` is. Sizes are naturals: `uint16` positions cannot wrap since none exceeds `PACKET_SIZE`.

