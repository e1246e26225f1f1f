---------------------------- MODULE SessionLife ----------------------------
(***************************************************************************)
(* The life of a session across the components that share it: the IOCP     *)
(* workers that take its completions, the room threads that admit and      *)
(* remove it, ServiceManager's m_UserSession and the rooms' m_roomUser,    *)
(* both keyed by SOCKET, and the operating system, which owns the sockets, *)
(* the pending I/O and the reuse of socket handles.                        *)
(*                                                                         *)
(* A session is alive while a shared_ptr to it exists: Held(s).  The last  *)
(* release runs Reset() and returns it to the pool; nobody can read it     *)
(* until it is popped, so its fields are set when it is (Connect).         *)
(* Job batching is RoomJobs' subject and the send queue SessionSend's:     *)
(* here a room takes one job at a time and a send is in flight or not.     *)
(* Accepting is one step; AcceptEx is not modelled here.                   *)
(***************************************************************************)
EXTENDS Integers, Sequences, FiniteSets

CONSTANTS
  Sessions,      \* the SessionData objects of the pool
  Handles,       \* the SOCKET values the operating system hands out
  Workers,       \* threads of the main IOCP
  Rooms,         \* room numbers, 0 .. m_RoomCount - 1
  ReuseHandles,  \* may the system hand out the SOCKET of a closed socket?
  MaxConns,      \* bound: connections accepted
  MaxMsgs        \* bound: packets sent by clients

CONSTANT None    \* no session, and no SOCKET

ASSUME LifeAssumption ==
  /\ ReuseHandles \in BOOLEAN
  /\ Rooms \subseteq Nat
  /\ None \notin Sessions \cup Handles
  /\ MaxConns \in Nat /\ MaxMsgs \in Nat

NoRoom == -1

VARIABLES
  sock,         \* m_Socket
  roomID,       \* m_RoomID
  connected,    \* m_Connected
  recvIO,       \* the WSARecv of m_Recv: none, pending, or aborted
  sendIO,       \* the WSASend of m_Send: none, pending, pending with more
                \* queued, aborted, or failed (the flag stays up: no more sends)
  open,         \* the session whose connection owns a socket handle, or None
  used,         \* handles handed out so far
  userSession,  \* ServiceManager::m_UserSession
  roomUser,     \* m_roomUser of each room
  jobQueue,     \* jobs of each room
  room,         \* what each room thread is doing
  worker,       \* what each worker is doing
  peer,         \* the client's end of the connection of a session
  conns, msgs,  \* counters for the bounds
  (* Histories: no action depends on them. *)
  client,       \* how far the client came in the order its packets should
                \* have: "new", "asked", "in"; "rude" once it broke it
  twins         \* sessions whose SOCKET was handed out to another one while
                \* a shared_ptr to the first was alive, and those others

osVars == <<open, used>>
ioVars == <<recvIO, sendIO>>
envVars == <<peer, client, twins, conns, msgs>>
vars == <<sock, roomID, connected, ioVars, osVars, userSession, roomUser,
          jobQueue, room, worker, envVars>>

IdleWorker == [at |-> "idle", s |-> None, kind |-> "Leave", index |-> NoRoom,
               then |-> "idle"]
IdleRoom   == [at |-> "idle", s |-> None, kind |-> "Leave"]

(* The session whose connection s's SOCKET names now. *)
Owner(s) == IF sock[s] \in Handles THEN open[sock[s]] ELSE None

(* Faulty variant: RoomUser refers to its session by weak_ptr. *)
HeldWeakly(s) ==
  \/ recvIO[s] # "none"
  \/ sendIO[s] \in {"pending", "more", "aborted"}
  \/ \E h \in Handles : userSession[h] = s
  \/ \E r \in Rooms : \/ room[r].s = s
                      \/ \E i \in 1 .. Len(jobQueue[r]) : jobQueue[r][i].s = s
  \/ \E w \in Workers : worker[w].s = s

(* A shared_ptr to s exists: in m_Recv or m_Send of an operation the kernel
   owns, in a map, in a job, or in a function that runs. *)
Held(s) ==
  \/ recvIO[s] # "none"
  \/ sendIO[s] \in {"pending", "more", "aborted"}
  \/ \E h \in Handles : userSession[h] = s
  \/ \E r \in Rooms : \/ \E h \in Handles : roomUser[r][h] = s
                      \/ room[r].s = s
                      \/ \E i \in 1 .. Len(jobQueue[r]) : jobQueue[r][i].s = s
  \/ \E w \in Workers : worker[w].s = s

Pooled(s) == ~Held(s)

(* The sessions that still bear the SOCKET h. *)
Holders(h) == {s \in Sessions : sock[s] = h /\ Held(s)}

Init ==
  /\ sock = [s \in Sessions |-> None]
  /\ roomID = [s \in Sessions |-> NoRoom]
  /\ connected = [s \in Sessions |-> FALSE]
  /\ recvIO = [s \in Sessions |-> "none"]
  /\ sendIO = [s \in Sessions |-> "none"]
  /\ open = [h \in Handles |-> None]
  /\ used = {}
  /\ userSession = [h \in Handles |-> None]
  /\ roomUser = [r \in Rooms |-> [h \in Handles |-> None]]
  /\ jobQueue = [r \in Rooms |-> <<>>]
  /\ room = [r \in Rooms |-> IdleRoom]
  /\ worker = [w \in Workers |-> IdleWorker]
  /\ peer = [s \in Sessions |-> "none"]
  /\ client = [s \in Sessions |-> "new"]
  /\ twins = {}
  /\ conns = 0
  /\ msgs = 0

-----------------------------------------------------------------------------
(* What the system does with a SOCKET. *)

(* A SOCKET that names an open connection whose peer has not reset it takes
   a WSARecv or WSASend; any other is refused at the call.  (An owner with
   another SOCKET by now left a connection that its peer reset early.) *)
Usable(s) ==
  /\ Owner(s) # None
  /\ sock[Owner(s)] = sock[s]
  /\ peer[Owner(s)] \notin {"rst", "early"}

(* closesocket(sock[s]): the connection that owns the handle ends and what
   is pending on it completes with an error; the handle is free again. *)
CloseSocketOf(s) ==
  /\ open' = [h \in Handles |-> IF h = sock[s] THEN None ELSE open[h]]
  /\ recvIO' = [t \in Sessions |->
       IF sock[t] = sock[s] /\ recvIO[t] = "pending" THEN "aborted"
       ELSE recvIO[t]]
  /\ sendIO' = [t \in Sessions |->
       IF sock[t] = sock[s] /\ sendIO[t] \in {"pending", "more"} THEN "aborted"
       ELSE sendIO[t]]

(* InsertSendQueue on every session of a set: the first chunk is sent, the
   next ones wait for the completion; a refused WSASend leaves no trace. *)
SendTo(S) ==
  sendIO' = [t \in Sessions |->
    CASE t \notin S \/ sendIO[t] \in {"aborted", "failed"} -> sendIO[t]
      [] t \in S /\ sendIO[t] = "none" ->
           IF Usable(t) THEN "pending" ELSE "none"
      [] t \in S /\ sendIO[t] \in {"pending", "more"} -> "more"]

EraseUserSession(s) ==
  userSession' = [h \in Handles |->
                    IF h = sock[s] THEN None ELSE userSession[h]]

-----------------------------------------------------------------------------
(* Clients and accepting. *)

(* A session leaves the pool for a new connection: MakeSocket, AcceptEx and,
   on its completion, AcceptObject::Execute, which enters it in m_UserSession
   (insert keeps an entry that is already there) and starts to receive.  The
   result of that RecvStart is ignored: a peer that reset "early" leaves a
   session that nobody works for, and no property promises its return. *)
Connect(s, h) ==
  /\ Pooled(s)
  /\ conns < MaxConns
  /\ open[h] = None
  /\ ReuseHandles \/ h \notin used
  /\ conns' = conns + 1
  /\ open' = [open EXCEPT ![h] = s]
  /\ used' = used \cup {h}
  /\ sock' = [sock EXCEPT ![s] = h]
  /\ roomID' = [roomID EXCEPT ![s] = NoRoom]
  /\ connected' = [connected EXCEPT ![s] = FALSE]
  /\ userSession' = [userSession EXCEPT ![h] = IF @ = None THEN s ELSE @]
  /\ sendIO' = [sendIO EXCEPT ![s] = "none"]
  /\ \E early \in BOOLEAN :
        /\ recvIO' = [recvIO EXCEPT ![s] = IF early THEN "none" ELSE "pending"]
        /\ peer' = [peer EXCEPT ![s] = IF early THEN "early" ELSE "up"]
  /\ client' = [client EXCEPT ![s] = "new"]
  /\ twins' = IF Holders(h) = {} THEN twins \ {s} ELSE twins \cup Holders(h) \cup {s}
  /\ UNCHANGED <<roomUser, jobQueue, room, worker, msgs>>

(* The peer closes its end, or resets the connection. *)
PeerLeaves(s, how) ==
  /\ peer[s] = "up"
  /\ peer' = [peer EXCEPT ![s] = how]
  /\ client' = [client EXCEPT ![s] = IF @ = "asked" THEN "rude" ELSE @]
  /\ UNCHANGED <<sock, roomID, connected, ioVars, osVars, userSession,
                 roomUser, jobQueue, room, worker, twins, conns, msgs>>

(* Packets, "Bad" for one that is refused (unknown type or wrong size). *)
PacketKinds == {"Enter", "Leave", "Chat", "Move", "Echo", "Bad"}

(* The kinds of jobs they make. *)
JobKinds == {"Enter", "Leave", "Chat", "Move"}

(* The stage of client c after a packet.  In order are one ENTER, its answer,
   then anything but ENTER, as TestClient has it; ECHO goes any time. *)
Stage(c, kind) ==
  CASE kind = "Echo" -> client[c]
    [] kind = "Enter" -> IF client[c] = "new" /\ peer[c] = "up" THEN "asked"
                         ELSE "rude"
    [] kind \notin {"Echo", "Enter"} -> IF client[c] = "in" THEN "in" ELSE "rude"

-----------------------------------------------------------------------------
(* IOCP::Worker. *)

Idle(w) == worker[w].at = "idle"

(* The worker makes a job of that kind for s and goes on to PushJobByRooms. *)
Route(w, s, kind, then) ==
  [at |-> "read", s |-> s, kind |-> kind, index |-> NoRoom, then |-> then]

(* The worker is in Recv's loop: another packet may be in the buffer. *)
Looping(s) == [IdleWorker EXCEPT !.at = "loop", !.s = s]

SetWorker(w, rec) == worker' = [worker EXCEPT ![w] = rec]

(* SessionData::Recv, one turn of its loop: the packet is in the data of a
   completion, or came along with the packet handled before it.  ENTER makes a
   job for a room picked at random, ECHO is answered by the worker itself, the
   others make a job for the session's room, read next.  A packet no handler
   accepts ends the session.  A packet to send may not be made (the pool of
   buffers is empty): then there is no answer. *)
HandlePacket(w, s, kind) ==
  /\ msgs < MaxMsgs
  /\ msgs' = msgs + 1
  /\ LET first == Idle(w) /\ recvIO[s] = "pending" /\ peer[Owner(s)] = "up"
         more  == worker[w].at = "loop" /\ worker[w].s = s
         c     == IF first THEN Owner(s) ELSE s
     IN  /\ first \/ more
         /\ client' = [client EXCEPT ![c] = Stage(c, kind)]
         /\ recvIO' = [recvIO EXCEPT ![s] = IF first THEN "none" ELSE @]
  /\ CASE kind = "Enter" ->
            \E r \in Rooms :
              SetWorker(w, [Route(w, s, kind, "loop") EXCEPT !.at = "deliver",
                                                             !.index = r])
       [] kind = "Echo" -> SetWorker(w, Looping(s))
       [] kind = "Bad" -> SetWorker(w, Route(w, s, "Leave", "idle"))
       [] kind \in {"Leave", "Chat", "Move"} -> SetWorker(w, Route(w, s, kind, "loop"))
  /\ \E made \in BOOLEAN : SendTo(IF kind = "Echo" /\ made THEN {s} ELSE {})
  /\ UNCHANGED <<sock, roomID, connected, osVars, userSession, roomUser,
                 jobQueue, room, peer, twins, conns>>

(* Faulty variant: the end of a connection makes no Job_Leave. *)
TakeEofQuietly(w, s) ==
  /\ Idle(w)
  /\ recvIO[s] = "pending"
  /\ peer[Owner(s)] = "fin"
  /\ recvIO' = [recvIO EXCEPT ![s] = "none"]
  /\ UNCHANGED <<sock, roomID, connected, sendIO, osVars, userSession,
                 roomUser, jobQueue, room, worker, envVars>>

(* A zero-byte completion: RecvObject::Execute pushes a Job_Leave. *)
TakeEof(w, s) ==
  /\ Idle(w)
  /\ recvIO[s] = "pending"
  /\ peer[Owner(s)] = "fin"
  /\ recvIO' = [recvIO EXCEPT ![s] = "none"]
  /\ SetWorker(w, Route(w, s, "Leave", "idle"))
  /\ UNCHANGED <<sock, roomID, connected, sendIO, osVars, userSession,
                 roomUser, jobQueue, room, envVars>>

(* A failed receive: the worker tries RecvStart again. *)
TakeRecvError(w, s) ==
  /\ Idle(w)
  /\ \/ recvIO[s] = "aborted"
     \/ recvIO[s] = "pending" /\ peer[Owner(s)] = "rst"
  /\ recvIO' = [recvIO EXCEPT ![s] = "none"]
  /\ SetWorker(w, [Route(w, s, "Leave", "idle") EXCEPT !.at = "rearm"])
  /\ UNCHANGED <<sock, roomID, connected, sendIO, osVars, userSession,
                 roomUser, jobQueue, room, envVars>>

(* A good send completion: CheckSendComplete sends what is queued. *)
TakeSendDone(w, s) ==
  /\ Idle(w)
  /\ sendIO[s] \in {"pending", "more"}
  /\ peer[Owner(s)] # "rst"
  /\ sendIO' = [sendIO EXCEPT ![s] = IF @ = "more" THEN "pending" ELSE "none"]
  /\ UNCHANGED <<sock, roomID, connected, recvIO, osVars, userSession,
                 roomUser, jobQueue, room, worker, envVars>>

(* A failed send: m_Send is cleared, the flag stays up, a Job_Leave is made. *)
TakeSendError(w, s) ==
  /\ Idle(w)
  /\ \/ sendIO[s] = "aborted"
     \/ sendIO[s] \in {"pending", "more"} /\ peer[Owner(s)] = "rst"
  /\ sendIO' = [sendIO EXCEPT ![s] = "failed"]
  /\ SetWorker(w, Route(w, s, "Leave", "idle"))
  /\ UNCHANGED <<sock, roomID, connected, recvIO, osVars, userSession,
                 roomUser, jobQueue, room, envVars>>

(* Faulty variant: rooms counted from one. *)
ReadRoomFromOne(w) ==
  /\ worker[w].at = "read"
  /\ worker' = [worker EXCEPT ![w].at = "deliver",
                              ![w].index = roomID[worker[w].s] + 1]
  /\ UNCHANGED <<sock, roomID, connected, ioVars, osVars, userSession,
                 roomUser, jobQueue, room, envVars>>

(* session->GetRoomID(), the argument of PushJobByRooms. *)
ReadRoom(w) ==
  /\ worker[w].at = "read"
  /\ worker' = [worker EXCEPT ![w].at = "deliver",
                              ![w].index = roomID[worker[w].s]]
  /\ UNCHANGED <<sock, roomID, connected, ioVars, osVars, userSession,
                 roomUser, jobQueue, room, envVars>>

(* The worker is done with its job: back to Recv's loop, or it forgets s. *)
Proceed(w) ==
  SetWorker(w, IF worker[w].then = "loop" THEN Looping(worker[w].s)
               ELSE IdleWorker)

(* PushJobByRooms, with a room: the job is queued. *)
PushJob(w) ==
  /\ worker[w].at = "deliver"
  /\ worker[w].index \in Rooms
  /\ jobQueue' = [jobQueue EXCEPT ![worker[w].index] =
                    Append(@, [kind |-> worker[w].kind, s |-> worker[w].s])]
  /\ Proceed(w)
  /\ UNCHANGED <<sock, roomID, connected, ioVars, osVars, userSession,
                 roomUser, room, envVars>>

(* PushJobByRooms, without one: CloseSession, whatever the job was. *)
CloseUnrouted(w) ==
  /\ worker[w].at = "deliver"
  /\ worker[w].index \notin Rooms
  /\ CloseSocketOf(worker[w].s)
  /\ SetWorker(w, [worker[w] EXCEPT !.at = "erase"])
  /\ UNCHANGED <<sock, roomID, connected, used, userSession, roomUser,
                 jobQueue, room, envVars>>

EraseUnrouted(w) ==
  /\ worker[w].at = "erase"
  /\ EraseUserSession(worker[w].s)
  /\ Proceed(w)
  /\ UNCHANGED <<sock, roomID, connected, ioVars, osVars, roomUser, jobQueue,
                 room, envVars>>

(* RecvStart: the next WSARecv, or a Job_Leave when it is refused (by the
   caller of Recv, or by the worker after a failed completion). *)
RecvStart(w) ==
  LET s == worker[w].s
  IN  /\ worker[w].at \in {"loop", "rearm"}
      /\ recvIO' = [recvIO EXCEPT ![s] = IF Usable(s) THEN "pending" ELSE "none"]
      /\ SetWorker(w, IF Usable(s) THEN IdleWorker
                      ELSE Route(w, s, "Leave", "idle"))
      /\ UNCHANGED <<sock, roomID, connected, sendIO, osVars, userSession,
                     roomUser, jobQueue, room, envVars>>

-----------------------------------------------------------------------------
(* A room thread. *)

At(r, place) == room[r].at = place

GotoRoom(r, place) == room' = [room EXCEPT ![r].at = place]

Finish(r) == room' = [room EXCEPT ![r] = IdleRoom]

Members(r) == {roomUser[r][h] : h \in Handles} \ {None}

(* The next job.  Enter, Leave and Move begin with a check of IsConnected,
   BroadCast with none. *)
TakeJob(r) ==
  /\ At(r, "idle")
  /\ jobQueue[r] # <<>>
  /\ jobQueue' = [jobQueue EXCEPT ![r] = Tail(@)]
  /\ room' = [room EXCEPT ![r] = [at |-> "check", s |-> Head(jobQueue[r]).s,
                                  kind |-> Head(jobQueue[r]).kind]]
  /\ UNCHANGED <<sock, roomID, connected, ioVars, osVars, userSession,
                 roomUser, worker, envVars>>

(* Room::BroadCast, if the packet could be made. *)
BroadCast(r) ==
  /\ At(r, "check")
  /\ room[r].kind = "Chat"
  /\ \E made \in BOOLEAN :
        SendTo(IF made THEN Members(r) \ {room[r].s} ELSE {})
  /\ Finish(r)
  /\ UNCHANGED <<sock, roomID, connected, recvIO, osVars, userSession,
                 roomUser, jobQueue, worker, envVars>>

(* Room::Move changes positions only, module Room's subject. *)
Move(r) ==
  /\ At(r, "check")
  /\ room[r].kind = "Move"
  /\ Finish(r)
  /\ UNCHANGED <<sock, roomID, connected, ioVars, osVars, userSession,
                 roomUser, jobQueue, worker, envVars>>

(* Room::MoveCheckUsers between two batches: if a member is moving, everybody
   is sent a snapshot. *)
Tick(r) ==
  /\ At(r, "idle")
  /\ Members(r) # {}
  /\ SendTo(Members(r))
  /\ UNCHANGED <<sock, roomID, connected, recvIO, osVars, userSession,
                 roomUser, jobQueue, room, worker, envVars>>

(* Room::Enter: a connected session is not admitted again. *)
EnterCheck(r) ==
  /\ At(r, "check")
  /\ room[r].kind = "Enter"
  /\ IF connected[room[r].s] THEN Finish(r) ELSE GotoRoom(r, "admit")
  /\ UNCHANGED <<sock, roomID, connected, ioVars, osVars, userSession,
                 roomUser, jobQueue, worker, envVars>>

(* Room::Enter: m_seqIDs is empty, and the answer is a refusal; or a packet
   could not be made, and there is no answer.  Nobody is admitted. *)
EnterRefuse(r) ==
  LET s == room[r].s
  IN  /\ At(r, "admit")
      /\ \E nak \in BOOLEAN :
            /\ SendTo(IF nak THEN {s} ELSE {})
            /\ client' = [client EXCEPT
                            ![s] = IF nak /\ @ = "asked" THEN "new" ELSE @]
      /\ Finish(r)
      /\ UNCHANGED <<sock, roomID, connected, recvIO, osVars, userSession,
                     roomUser, jobQueue, worker, peer, twins, conns, msgs>>

(* Room::Enter: m_roomUser.insert by SOCKET, then Connect().  A key that is
   taken admits nobody and answers nothing. *)
EnterInsert(r) ==
  LET s == room[r].s
      h == sock[s]
      free == roomUser[r][h] = None
  IN  /\ At(r, "admit")
      /\ roomUser' = [roomUser EXCEPT ![r][h] = IF free THEN s ELSE @]
      /\ connected' = [connected EXCEPT ![s] = @ \/ free]
      /\ IF free THEN GotoRoom(r, "announce") ELSE Finish(r)
      /\ UNCHANGED <<sock, roomID, ioVars, osVars, userSession, jobQueue,
                     worker, envVars>>

(* Room::Enter: SetRoomID. *)
EnterSetRoom(r) ==
  /\ At(r, "announce")
  /\ roomID' = [roomID EXCEPT ![room[r].s] = r]
  /\ GotoRoom(r, "greet")
  /\ UNCHANGED <<sock, connected, ioVars, osVars, userSession, roomUser,
                 jobQueue, worker, envVars>>

(* Room::Enter: the answer to the client, the spawns to everybody. *)
EnterGreet(r) ==
  LET s == room[r].s
  IN  /\ At(r, "greet")
      /\ SendTo(Members(r) \cup {s})
      /\ client' = [client EXCEPT ![s] = IF @ = "asked" THEN "in" ELSE @]
      /\ Finish(r)
      /\ UNCHANGED <<sock, roomID, connected, recvIO, osVars, userSession,
                     roomUser, jobQueue, worker, peer, twins, conns, msgs>>

(* Room::Leave: only a connected session leaves. *)
LeaveCheck(r) ==
  /\ At(r, "check")
  /\ room[r].kind = "Leave"
  /\ IF connected[room[r].s] THEN GotoRoom(r, "disconnect") ELSE Finish(r)
  /\ UNCHANGED <<sock, roomID, connected, ioVars, osVars, userSession,
                 roomUser, jobQueue, worker, envVars>>

(* Faulty variant: the socket is closed before the room is left. *)
LeaveClosesFirst(r) ==
  /\ At(r, "disconnect")
  /\ connected' = [connected EXCEPT ![room[r].s] = FALSE]
  /\ CloseSocketOf(room[r].s)
  /\ GotoRoom(r, "remove")
  /\ UNCHANGED <<sock, roomID, used, userSession, roomUser, jobQueue, worker,
                 envVars>>

(* Faulty variant: the flag stays up. *)
LeaveKeepsFlag(r) ==
  /\ At(r, "disconnect")
  /\ GotoRoom(r, "remove")
  /\ UNCHANGED <<sock, roomID, connected, ioVars, osVars, userSession, roomUser,
                 jobQueue, worker, envVars>>

(* Room::Leave: DisConnected, the first thing it does. *)
LeaveDisconnect(r) ==
  /\ At(r, "disconnect")
  /\ connected' = [connected EXCEPT ![room[r].s] = FALSE]
  /\ GotoRoom(r, "remove")
  /\ UNCHANGED <<sock, roomID, ioVars, osVars, userSession, roomUser,
                 jobQueue, worker, envVars>>

(* Faulty variant: the session keeps its room number. *)
LeaveKeepsRoom(r) ==
  /\ At(r, "remove")
  /\ GotoRoom(r, "tell")
  /\ UNCHANGED <<sock, roomID, connected, ioVars, osVars, userSession,
                 roomUser, jobQueue, worker, envVars>>

(* Room::Leave: SetRoomID( -1 ), while m_roomUser still lists the session. *)
LeaveUnsetRoom(r) ==
  /\ At(r, "remove")
  /\ roomID' = [roomID EXCEPT ![room[r].s] = NoRoom]
  /\ GotoRoom(r, "tell")
  /\ UNCHANGED <<sock, connected, ioVars, osVars, userSession, roomUser,
                 jobQueue, worker, envVars>>

(* Room::Leave: if the SOCKET is found in m_roomUser, and the packet could be
   made, the others are told. *)
LeaveTell(r) ==
  LET s == room[r].s
  IN  /\ At(r, "tell")
      /\ \E made \in BOOLEAN :
            SendTo(IF made /\ roomUser[r][sock[s]] # None THEN Members(r) \ {s}
                   ELSE {})
      /\ GotoRoom(r, "unlist")
      /\ UNCHANGED <<sock, roomID, connected, recvIO, osVars, userSession,
                     roomUser, jobQueue, worker, envVars>>

(* Room::Leave: m_roomUser.erase, by SOCKET. *)
LeaveUnlist(r) ==
  /\ At(r, "unlist")
  /\ roomUser' = [roomUser EXCEPT ![r][sock[room[r].s]] = None]
  /\ GotoRoom(r, "close")
  /\ UNCHANGED <<sock, roomID, connected, ioVars, osVars, userSession,
                 jobQueue, worker, envVars>>

(* Room::Leave: CloseSession in its two steps. *)
LeaveClose(r) ==
  /\ At(r, "close")
  /\ CloseSocketOf(room[r].s)
  /\ GotoRoom(r, "erase")
  /\ UNCHANGED <<sock, roomID, connected, used, userSession, roomUser,
                 jobQueue, worker, envVars>>

LeaveErase(r) ==
  /\ At(r, "erase")
  /\ EraseUserSession(room[r].s)
  /\ Finish(r)
  /\ UNCHANGED <<sock, roomID, connected, ioVars, osVars, roomUser, jobQueue,
                 worker, envVars>>

-----------------------------------------------------------------------------
TakeCompletion(w, s) ==
  \/ TakeEof(w, s)
  \/ TakeRecvError(w, s)
  \/ TakeSendDone(w, s)
  \/ TakeSendError(w, s)

WorkerStep(w) ==
  \/ ReadRoom(w)
  \/ PushJob(w)
  \/ CloseUnrouted(w)
  \/ EraseUnrouted(w)
  \/ RecvStart(w)

RoomStep(r) ==
  \/ TakeJob(r)
  \/ BroadCast(r)
  \/ Move(r)
  \/ EnterCheck(r)
  \/ EnterRefuse(r)
  \/ EnterInsert(r)
  \/ EnterSetRoom(r)
  \/ EnterGreet(r)
  \/ LeaveCheck(r)
  \/ LeaveDisconnect(r)
  \/ LeaveUnsetRoom(r)
  \/ LeaveTell(r)
  \/ LeaveUnlist(r)
  \/ LeaveClose(r)
  \/ LeaveErase(r)

Next ==
  \/ \E s \in Sessions, h \in Handles : Connect(s, h)
  \/ \E s \in Sessions, how \in {"fin", "rst"} : PeerLeaves(s, how)
  \/ \E w \in Workers, s \in Sessions :
        \/ \E kind \in PacketKinds : HandlePacket(w, s, kind)
        \/ TakeCompletion(w, s)
  \/ \E w \in Workers : WorkerStep(w)
  \/ \E r \in Rooms : RoomStep(r) \/ Tick(r)

Spec == Init /\ [][Next]_vars

(* A failed send is taken by some worker. *)
TakeFailure(s) == \E w \in Workers : TakeSendError(w, s)

(* The end of a receive is taken by some worker. *)
TakeEnd(s) == \E w \in Workers : TakeEof(w, s) \/ TakeRecvError(w, s)

(* Threads that can go on do, and what fails or ends is taken by some worker.
   Clients, new connections and ticks are under no obligation, and a send may
   stay with the kernel for ever: its peer need not read. *)
Fairness ==
  /\ \A w \in Workers : WF_vars(WorkerStep(w))
  /\ \A r \in Rooms : WF_vars(RoomStep(r))
  /\ \A s \in Sessions : WF_vars(TakeEnd(s)) /\ WF_vars(TakeFailure(s))

FairSpec == Spec /\ Fairness

-----------------------------------------------------------------------------
SessionOrNone == Sessions \cup {None}

TypeOK ==
  /\ sock \in [Sessions -> Handles \cup {None}]
  /\ roomID \in [Sessions -> Rooms \cup {NoRoom}]
  /\ connected \in [Sessions -> BOOLEAN]
  /\ recvIO \in [Sessions -> {"none", "pending", "aborted"}]
  /\ sendIO \in [Sessions -> {"none", "pending", "more", "aborted", "failed"}]
  /\ open \in [Handles -> SessionOrNone]
  /\ used \subseteq Handles
  /\ userSession \in [Handles -> SessionOrNone]
  /\ roomUser \in [Rooms -> [Handles -> SessionOrNone]]
  /\ jobQueue \in [Rooms -> Seq([kind : JobKinds, s : Sessions])]
  /\ room \in [Rooms ->
       [at : {"idle", "check", "admit", "announce", "greet", "disconnect",
              "remove", "tell", "unlist", "close", "erase"},
        s : SessionOrNone, kind : JobKinds]]
  /\ worker \in [Workers ->
       [at : {"idle", "read", "deliver", "erase", "loop", "rearm"},
        s : SessionOrNone, kind : JobKinds,
        index : Rooms \cup {NoRoom}, then : {"idle", "loop"}]]
  /\ peer \in [Sessions -> {"none", "up", "fin", "rst", "early"}]
  /\ client \in [Sessions -> {"new", "asked", "in", "rude"}]
  /\ twins \subseteq Sessions
  /\ conns \in 0 .. MaxConns
  /\ msgs \in 0 .. MaxMsgs

(* The thread of room r has taken the number of s away and is about to erase
   its entry. *)
Removing(r, s) == room[r].s = s /\ room[r].at \in {"tell", "unlist"}

(* A member of a room has an open connection, unless the room's thread is
   removing it, or another session was given its SOCKET. *)
OpenOrRemoving(s) ==
  \A r \in Rooms : s \in Members(r) =>
    Owner(s) = s \/ Removing(r, s) \/ s \in twins

(* Every way a connection ends passes through the room: the socket of a client
   that keeps the order of packets is not closed while a room lists it, however
   the completions of its receive and its send, the room's thread and the other
   clients interleave (IOCP.cpp, Room::Leave). *)
MembersAreOpen ==
  \A s \in Sessions : client[s] # "rude" => OpenOrRemoving(s)

(* README.md:368: every way a connection ends passes through the room,
   whatever the client sent before. *)
NoGhosts ==
  \A s \in Sessions : OpenOrRemoving(s)

(* TestClient/RESULTS.md:532: with m_Connected, Room::Enter refuses a second
   entry, so a session is a member of one room. *)
OneRoom ==
  \A p, q \in Rooms : p # q => Members(p) \cap Members(q) = {}

(* The entries of the maps keyed by SOCKET name the SOCKET of their session:
   a session is never recycled while a map still lists it. *)
KeysMatch ==
  \A h \in Handles :
    /\ userSession[h] # None => sock[userSession[h]] = h
    /\ \A r \in Rooms : roomUser[r][h] # None => sock[roomUser[r][h]] = h

(* A room number is given out only to a member of that room, whatever clients
   send and however many rooms there are: a job is not routed to a room that
   does not list its session.  Only a session whose SOCKET was given to another
   one may be unlisted, by the other's Leave, and keep the number
   (Room.cpp:163, :191 find and erase by SOCKET). *)
RoomIDMatches ==
  \A s \in Sessions : Held(s) /\ roomID[s] # NoRoom =>
    s \in Members(roomID[s]) \/ s \in twins

(* m_Connected, which guards against entering and leaving twice, is up only
   while some room lists the session and has not begun to remove it. *)
ConnectedIsMember ==
  \A s \in Sessions : Held(s) /\ connected[s] =>
    \/ \E r \in Rooms : s \in Members(r) /\ ~Removing(r, s)
    \/ s \in twins

(* What a client that broke the order may leave behind: a room lists it after
   its socket was closed, and nobody will remove it. *)
Ghost(s) ==
  /\ client[s] = "rude"
  /\ \E r \in Rooms : s \in Members(r) /\ Owner(s) # s

(* README.md:174-175 and TestClient/RESULTS.md, finding 2: a session whose peer
   goes returns to the pool, at whatever stage once its first WSARecv is posted:
   before its ENTER, while it is queued, with sends pending, while the room
   removes it.  It does not if it has become a ghost, or if another session was
   given its SOCKET, whose connection it may receive from. *)
GoneIsPooled ==
  \A s \in Sessions :
    peer[s] \in {"fin", "rst"} ~>
      (Pooled(s) \/ peer[s] \notin {"fin", "rst"} \/ Ghost(s) \/ s \in twins)
=============================================================================
