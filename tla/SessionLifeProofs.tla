-------------------------- MODULE SessionLifeProofs --------------------------
(***************************************************************************)
(* What the maps keyed by SOCKET promise, and how m_RoomID and m_Connected *)
(* agree with them, proved for any number of sessions, SOCKETs, workers    *)
(* and rooms, for any client, and whether or not the system reuses SOCKET  *)
(* values.                                                                 *)
(***************************************************************************)
EXTENDS SessionLife, SequenceTheorems, TLAPS

Jobs == [kind : JobKinds, s : Sessions]

RoomPlaces == {"idle", "check", "admit", "announce", "greet", "disconnect",
               "remove", "tell", "unlist", "close", "erase"}

RoomStates == [at : RoomPlaces, s : SessionOrNone, kind : JobKinds]

WorkerPlaces == {"idle", "read", "deliver", "erase", "loop", "rearm"}

WorkerStates == [at : WorkerPlaces, s : SessionOrNone, kind : JobKinds,
                 index : Rooms \cup {NoRoom}, then : {"idle", "loop"}]

(* The threads have their types and a thread that is busy has a session. *)
RoomsOK ==
  /\ room \in [Rooms -> RoomStates]
  /\ \A r \in Rooms : room[r].at # "idle" => room[r].s \in Sessions

WorkersOK ==
  /\ worker \in [Workers -> WorkerStates]
  /\ \A w \in Workers : worker[w].at # "idle" => worker[w].s \in Sessions

QueuesOK == jobQueue \in [Rooms -> Seq(Jobs)]

IOOK ==
  /\ recvIO \in [Sessions -> {"none", "pending", "aborted"}]
  /\ sendIO \in [Sessions -> {"none", "pending", "more", "aborted", "failed"}]

FieldsOK ==
  /\ sock \in [Sessions -> Handles \cup {None}]
  /\ roomID \in [Sessions -> Rooms \cup {NoRoom}]
  /\ connected \in [Sessions -> BOOLEAN]

MapsOK ==
  /\ open \in [Handles -> SessionOrNone]
  /\ used \subseteq Handles
  /\ userSession \in [Handles -> SessionOrNone]
  /\ roomUser \in [Rooms -> [Handles -> SessionOrNone]]

EnvOK ==
  /\ peer \in [Sessions -> {"none", "up", "fin", "rst", "early"}]
  /\ client \in [Sessions -> {"new", "asked", "in", "rude"}]
  /\ twins \subseteq Sessions
  /\ conns \in 0 .. MaxConns
  /\ msgs \in 0 .. MaxMsgs

TypeInv ==
  /\ FieldsOK
  /\ IOOK
  /\ MapsOK
  /\ QueuesOK
  /\ RoomsOK
  /\ WorkersOK
  /\ EnvOK

-----------------------------------------------------------------------------
LEMMA TypeInvIsTypeOK ==
  TypeInv => TypeOK
BY DEF TypeInv, TypeOK, FieldsOK, IOOK, MapsOK, QueuesOK, RoomsOK, WorkersOK,
       EnvOK, Jobs, JobKinds, RoomStates, RoomPlaces, WorkerStates, WorkerPlaces

LEMMA InitTypes ==
  ASSUME Init PROVE TypeInv
<1>1. IdleWorker \in WorkerStates /\ IdleWorker.at = "idle"
  BY DEF IdleWorker, WorkerStates, WorkerPlaces, JobKinds, SessionOrNone
<1>2. IdleRoom \in RoomStates /\ IdleRoom.at = "idle"
  BY DEF IdleRoom, RoomStates, RoomPlaces, JobKinds, SessionOrNone
<1>3. RoomsOK /\ WorkersOK
  BY <1>1, <1>2 DEF Init, RoomsOK, WorkersOK
<1>4. QueuesOK
  BY DEF Init, QueuesOK
<1>5. FieldsOK /\ IOOK /\ MapsOK
  BY DEF Init, FieldsOK, IOOK, MapsOK, SessionOrNone
<1>6. EnvOK
  BY LifeAssumption DEF Init, EnvOK
<1> QED BY <1>3, <1>4, <1>5, <1>6 DEF TypeInv

(* What one step does to the state of a thread. *)
LEMMA SetWorkerOK ==
  ASSUME WorkersOK, NEW w \in Workers, NEW rec \in WorkerStates,
         rec.at # "idle" => rec.s \in Sessions, SetWorker(w, rec)
  PROVE  WorkersOK'
BY DEF WorkersOK, SetWorker

LEMMA RouteOK ==
  ASSUME NEW w, NEW s \in Sessions, NEW kind \in JobKinds,
         NEW then \in {"idle", "loop"}
  PROVE  /\ Route(w, s, kind, then) \in WorkerStates
         /\ Route(w, s, kind, then).s = s
BY DEF Route, WorkerStates, WorkerPlaces, SessionOrNone

LEMMA LoopingOK ==
  ASSUME NEW s \in Sessions
  PROVE  Looping(s) \in WorkerStates /\ Looping(s).s = s /\ Looping(s).at = "loop"
BY DEF Looping, IdleWorker, WorkerStates, WorkerPlaces, JobKinds, SessionOrNone

LEMMA ProceedOK ==
  ASSUME WorkersOK, NEW w \in Workers, worker[w].at # "idle", Proceed(w)
  PROVE  WorkersOK'
<1>1. IdleWorker \in WorkerStates /\ IdleWorker.at = "idle"
  BY DEF IdleWorker, WorkerStates, WorkerPlaces, JobKinds, SessionOrNone
<1>2. worker[w].s \in Sessions
  BY DEF WorkersOK
<1>3. PICK rec : rec = Looping(worker[w].s)
  OBVIOUS
<1>4. rec \in WorkerStates /\ rec.s = worker[w].s
  BY <1>2, <1>3, LoopingOK
<1>5. SetWorker(w, rec) \/ SetWorker(w, IdleWorker)
  BY <1>3 DEF Proceed
<1> QED BY <1>1, <1>2, <1>4, <1>5, SetWorkerOK

LEMMA GotoRoomOK ==
  ASSUME RoomsOK, NEW r \in Rooms, NEW place \in RoomPlaces, ~At(r, "idle"),
         GotoRoom(r, place)
  PROVE  RoomsOK'
<1>1. /\ [room[r] EXCEPT !.at = place] \in RoomStates
      /\ [room[r] EXCEPT !.at = place].s = room[r].s
      /\ room[r].s \in Sessions
  BY DEF RoomsOK, RoomStates, At
<1>2. room' = [room EXCEPT ![r] = [room[r] EXCEPT !.at = place]]
  BY DEF GotoRoom
<1> QED BY <1>1, <1>2 DEF RoomsOK

LEMMA FinishOK ==
  ASSUME RoomsOK, NEW r \in Rooms, Finish(r)
  PROVE  RoomsOK'
<1>1. IdleRoom \in RoomStates /\ IdleRoom.at = "idle"
  BY DEF IdleRoom, RoomStates, RoomPlaces, JobKinds, SessionOrNone
<1> QED BY <1>1 DEF RoomsOK, Finish

LEMMA SendToOK ==
  ASSUME IOOK, NEW S, SendTo(S), recvIO' = recvIO
  PROVE  IOOK'
BY DEF IOOK, SendTo

LEMMA CloseOK ==
  ASSUME IOOK, MapsOK, NEW s, CloseSocketOf(s),
         UNCHANGED <<used, userSession, roomUser>>
  PROVE  IOOK' /\ MapsOK'
BY DEF IOOK, MapsOK, CloseSocketOf, SessionOrNone

-----------------------------------------------------------------------------
(* The steps of clients and workers. *)
LEMMA WorkerTypes ==
  ASSUME TypeInv, NEW w \in Workers,
         \/ \E s \in Sessions, kind \in PacketKinds : HandlePacket(w, s, kind)
         \/ \E s \in Sessions : TakeCompletion(w, s)
         \/ WorkerStep(w)
  PROVE  TypeInv'
<1> USE DEF TypeInv
<1>1. ASSUME NEW s \in Sessions, NEW kind \in PacketKinds, HandlePacket(w, s, kind)
      PROVE  TypeInv'
  <2>1. UNCHANGED <<sock, roomID, connected, osVars, userSession, roomUser,
                    jobQueue, room, peer, twins, conns>>
    BY <1>1 DEF HandlePacket
  <2>2. EnvOK'
    <3>1. msgs' = msgs + 1 /\ msgs < MaxMsgs
      BY <1>1 DEF HandlePacket
    <3>2. PICK c : client' = [client EXCEPT ![c] = Stage(c, kind)]
      BY <1>1 DEF HandlePacket
    <3>3. c \in Sessions => Stage(c, kind) \in {"new", "asked", "in", "rude"}
      BY DEF Stage, EnvOK
    <3>4. client' \in [Sessions -> {"new", "asked", "in", "rude"}]
      BY <3>2, <3>3 DEF EnvOK
    <3> QED BY <2>1, <3>1, <3>4, LifeAssumption DEF EnvOK
  <2>3. IOOK'
    <3>1. PICK S : SendTo(S)
      BY <1>1 DEF HandlePacket
    <3>2. \E v \in {"none", recvIO[s]} : recvIO' = [recvIO EXCEPT ![s] = v]
      BY <1>1, Zenon DEF HandlePacket
    <3> QED BY <3>1, <3>2 DEF IOOK, SendTo
  <2>4. WorkersOK'
    <3>1. CASE kind = "Enter"
      <4>1. PICK r \in Rooms :
              SetWorker(w, [Route(w, s, kind, "loop") EXCEPT !.at = "deliver",
                                                             !.index = r])
        BY <1>1, <3>1 DEF HandlePacket
      <4>2. kind \in JobKinds
        BY <3>1 DEF JobKinds
      <4> DEFINE rec == [Route(w, s, kind, "loop") EXCEPT !.at = "deliver",
                                                          !.index = r]
      <4>3. rec \in WorkerStates /\ rec.s = s
        BY <4>2 DEF Route, WorkerStates, WorkerPlaces, SessionOrNone
      <4> HIDE DEF rec
      <4> QED BY <4>1, <4>3, SetWorkerOK DEF rec
    <3>2. CASE kind = "Bad"
      <4>1. PICK rec : rec = Route(w, s, "Leave", "idle")
        OBVIOUS
      <4>2. "Leave" \in JobKinds
        BY DEF JobKinds
      <4>3. rec \in WorkerStates /\ rec.s = s
        BY <4>1, <4>2, RouteOK
      <4>4. SetWorker(w, rec)
        BY <1>1, <3>2, <4>1 DEF HandlePacket
      <4> QED BY <4>3, <4>4, SetWorkerOK
    <3>3. CASE kind \in {"Leave", "Chat", "Move"}
      <4>1. SetWorker(w, Route(w, s, kind, "loop"))
        BY <1>1, <3>3 DEF HandlePacket
      <4> QED BY <3>3, <4>1, RouteOK, SetWorkerOK DEF JobKinds
    <3>4. CASE kind = "Echo"
      <4>1. SetWorker(w, Looping(s))
        BY <1>1, <3>4 DEF HandlePacket
      <4> QED BY <4>1, LoopingOK, SetWorkerOK
    <3> QED BY <3>1, <3>2, <3>3, <3>4 DEF PacketKinds
  <2> QED BY <2>1, <2>2, <2>3, <2>4 DEF FieldsOK, MapsOK, QueuesOK, RoomsOK, osVars
<1>2. ASSUME NEW s \in Sessions, TakeCompletion(w, s)
      PROVE  TypeInv'
  <2>1. UNCHANGED <<sock, roomID, connected, osVars, userSession, roomUser,
                    jobQueue, room, envVars>>
    BY <1>2 DEF TakeCompletion, TakeEof, TakeRecvError, TakeSendDone, TakeSendError
  <2>2. IOOK'
    BY <1>2 DEF IOOK, TakeCompletion, TakeEof, TakeRecvError, TakeSendDone, TakeSendError
  <2> DEFINE rec == Route(w, s, "Leave", "idle")
             arm == [rec EXCEPT !.at = "rearm"]
  <2>3. rec \in WorkerStates /\ rec.s = s
    BY RouteOK DEF JobKinds
  <2>4. arm \in WorkerStates /\ arm.s = s
    BY <2>3 DEF WorkerStates, WorkerPlaces
  <2>5. SetWorker(w, rec) \/ SetWorker(w, arm) \/ worker' = worker
    BY <1>2 DEF TakeCompletion, TakeEof, TakeRecvError, TakeSendDone, TakeSendError
  <2> HIDE DEF rec, arm
  <2>6. WorkersOK'
    BY <2>3, <2>4, <2>5, SetWorkerOK DEF WorkersOK
  <2> QED BY <2>1, <2>2, <2>6 DEF FieldsOK, MapsOK, QueuesOK, RoomsOK, EnvOK, osVars, envVars
<1>3. CASE ReadRoom(w)
  <2> DEFINE rec == [worker[w] EXCEPT !.at = "deliver", !.index = roomID[worker[w].s]]
  <2>1. worker[w] \in WorkerStates /\ worker[w].s \in Sessions
    BY <1>3 DEF ReadRoom, WorkersOK
  <2>2. rec \in WorkerStates /\ rec.s = worker[w].s
    BY <2>1 DEF FieldsOK, WorkerStates, WorkerPlaces
  <2>3. SetWorker(w, rec)
    BY <1>3 DEF ReadRoom, SetWorker
  <2> HIDE DEF rec
  <2>4. WorkersOK'
    BY <2>1, <2>2, <2>3, SetWorkerOK
  <2> QED BY <1>3, <2>4 DEF ReadRoom, FieldsOK, IOOK, MapsOK, QueuesOK, RoomsOK,
             EnvOK, ioVars, osVars, envVars
<1>4. CASE PushJob(w)
  <2> DEFINE job == [kind |-> worker[w].kind, s |-> worker[w].s]
  <2>1. worker[w].at # "idle"
    BY <1>4 DEF PushJob
  <2>2. job \in Jobs
    BY <2>1 DEF WorkersOK, WorkerStates, Jobs
  <2>3. jobQueue' = [jobQueue EXCEPT ![worker[w].index] = Append(@, job)]
    BY <1>4 DEF PushJob
  <2> HIDE DEF job
  <2>4. QueuesOK'
    <3>1. worker[w].index \in Rooms
      BY <1>4 DEF PushJob
    <3>2. Append(jobQueue[worker[w].index], job) \in Seq(Jobs)
      BY <2>2, <3>1, AppendProperties DEF QueuesOK
    <3> QED BY <2>3, <3>1, <3>2 DEF QueuesOK
  <2>5. WorkersOK'
    BY <1>4, <2>1, ProceedOK DEF PushJob
  <2> QED BY <1>4, <2>4, <2>5 DEF PushJob, FieldsOK, IOOK, MapsOK, RoomsOK,
             EnvOK, ioVars, osVars, envVars
<1>5. CASE CloseUnrouted(w)
  <2>1. IOOK' /\ MapsOK'
    BY <1>5, CloseOK DEF CloseUnrouted
  <2> DEFINE rec == [worker[w] EXCEPT !.at = "erase"]
  <2>2. rec \in WorkerStates /\ rec.s = worker[w].s /\ worker[w].s \in Sessions
    BY <1>5 DEF CloseUnrouted, WorkersOK, WorkerStates, WorkerPlaces
  <2>3. SetWorker(w, rec)
    BY <1>5 DEF CloseUnrouted
  <2> HIDE DEF rec
  <2>4. WorkersOK'
    BY <2>2, <2>3, SetWorkerOK
  <2> QED BY <1>5, <2>1, <2>4 DEF CloseUnrouted, FieldsOK, QueuesOK, RoomsOK,
             EnvOK, envVars
<1>6. CASE EraseUnrouted(w)
  <2>1. MapsOK'
    BY <1>6 DEF EraseUnrouted, EraseUserSession, MapsOK, osVars, SessionOrNone
  <2>2. WorkersOK'
    BY <1>6, ProceedOK DEF EraseUnrouted
  <2> QED BY <1>6, <2>1, <2>2 DEF EraseUnrouted, FieldsOK, IOOK, QueuesOK,
             RoomsOK, EnvOK, ioVars, envVars
<1>7. CASE RecvStart(w)
  <2>1. worker[w].s \in Sessions
    BY <1>7 DEF RecvStart, WorkersOK
  <2>2. IOOK'
    BY <1>7 DEF RecvStart, IOOK
  <2>3. IdleWorker \in WorkerStates /\ IdleWorker.at = "idle"
    BY DEF IdleWorker, WorkerStates, WorkerPlaces, JobKinds, SessionOrNone
  <2>4. WorkersOK'
    BY <1>7, <2>1, <2>3, RouteOK, SetWorkerOK DEF RecvStart, JobKinds
  <2> QED BY <1>7, <2>2, <2>4 DEF RecvStart, FieldsOK, MapsOK, QueuesOK,
             RoomsOK, EnvOK, osVars, envVars
<1> QED BY <1>1, <1>2, <1>3, <1>4, <1>5, <1>6, <1>7 DEF WorkerStep

(* The steps of a room thread. *)
LEMMA RoomTypes ==
  ASSUME TypeInv, NEW r \in Rooms, RoomStep(r) \/ Tick(r)
  PROVE  TypeInv'
<1> USE DEF TypeInv
<1> DEFINE s == room[r].s
<1>s. ~At(r, "idle") => s \in Sessions
  BY DEF RoomsOK, At
<1>p. RoomPlaces = RoomPlaces \cup {"admit", "announce", "greet", "remove", "tell",
                                    "unlist", "close", "disconnect", "erase"}
  BY DEF RoomPlaces
<1>1. CASE TakeJob(r)
  <2> DEFINE job == Head(jobQueue[r])
             rec == [at |-> "check", s |-> job.s, kind |-> job.kind]
  <2>1. jobQueue[r] \in Seq(Jobs) /\ jobQueue[r] # <<>>
    BY <1>1 DEF TakeJob, QueuesOK
  <2>2. job \in Jobs /\ Tail(jobQueue[r]) \in Seq(Jobs)
    BY <2>1, HeadTailProperties
  <2>3. room' = [room EXCEPT ![r] = rec] /\ jobQueue' = [jobQueue EXCEPT ![r] = Tail(@)]
    BY <1>1 DEF TakeJob
  <2> HIDE DEF job
  <2>4. rec \in RoomStates /\ rec.s \in Sessions
    BY <2>2 DEF Jobs, RoomStates, RoomPlaces, SessionOrNone
  <2> HIDE DEF rec
  <2>5. RoomsOK'
    BY <2>3, <2>4 DEF RoomsOK
  <2>6. QueuesOK'
    BY <2>2, <2>3 DEF QueuesOK
  <2> QED BY <1>1, <2>5, <2>6 DEF TakeJob, FieldsOK, IOOK, MapsOK, WorkersOK, EnvOK,
             ioVars, osVars, envVars
<1>2. CASE BroadCast(r)
  BY <1>2, FinishOK, SendToOK DEF BroadCast, FieldsOK, MapsOK, QueuesOK, WorkersOK,
     EnvOK, osVars, envVars
<1>3. CASE EnterCheck(r) \/ LeaveCheck(r) \/ Move(r)
  <2>1. Finish(r) \/ GotoRoom(r, "admit") \/ GotoRoom(r, "disconnect")
    BY <1>3 DEF EnterCheck, LeaveCheck, Move
  <2>2. ~At(r, "idle")
    BY <1>3 DEF EnterCheck, LeaveCheck, Move, At
  <2>3. RoomsOK'
    BY <1>p, <2>1, <2>2, FinishOK, GotoRoomOK
  <2> QED BY <1>3, <2>3 DEF EnterCheck, LeaveCheck, Move, FieldsOK, IOOK, MapsOK,
             QueuesOK, WorkersOK, EnvOK, ioVars, osVars, envVars
<1>t. CASE Tick(r)
  BY <1>t, SendToOK DEF Tick, FieldsOK, MapsOK, QueuesOK, RoomsOK, WorkersOK,
     EnvOK, osVars, envVars
<1>f. CASE EnterRefuse(r)
  <2>1. EnvOK'
    BY <1>f DEF EnterRefuse, EnvOK
  <2>2. IOOK' /\ RoomsOK'
    BY <1>f, FinishOK, SendToOK DEF EnterRefuse
  <2> QED BY <1>f, <2>1, <2>2 DEF EnterRefuse, FieldsOK, MapsOK, QueuesOK,
             WorkersOK, osVars
<1>4. CASE EnterInsert(r)
  <2>1. ~At(r, "idle")
    BY <1>4 DEF EnterInsert, At
  <2>2. RoomsOK'
    BY <1>4, <1>p, <2>1, FinishOK, GotoRoomOK DEF EnterInsert
  <2>3. FieldsOK'
    <3>1. connected' = [connected EXCEPT ![s] = @ \/ roomUser[r][sock[s]] = None]
      BY <1>4 DEF EnterInsert
    <3>2. connected' \in [Sessions -> BOOLEAN]
      BY <3>1 DEF FieldsOK
    <3> QED BY <1>4, <3>2 DEF EnterInsert, FieldsOK
  <2>4. MapsOK'
    <3> DEFINE users == [h \in Handles |->
                           IF h = sock[s] /\ roomUser[r][h] = None THEN s
                           ELSE roomUser[r][h]]
    <3>1. roomUser' = [roomUser EXCEPT ![r][sock[room[r].s]] =
                         IF roomUser[r][sock[room[r].s]] = None THEN room[r].s ELSE @]
      BY <1>4, Zenon DEF EnterInsert
    <3>2. roomUser' = [roomUser EXCEPT ![r] = users]
      BY <3>1 DEF MapsOK
    <3>3. users \in [Handles -> SessionOrNone]
      BY <1>s, <2>1 DEF MapsOK, SessionOrNone
    <3> HIDE DEF users
    <3>4. roomUser' \in [Rooms -> [Handles -> SessionOrNone]]
      BY <3>2, <3>3 DEF MapsOK
    <3> QED BY <1>4, <3>4 DEF EnterInsert, MapsOK, osVars
  <2> QED BY <1>4, <2>2, <2>3, <2>4 DEF EnterInsert, IOOK, QueuesOK, WorkersOK,
             EnvOK, ioVars, envVars
<1>5. CASE EnterSetRoom(r)
  <2>1. RoomsOK'
    BY <1>5, <1>p, GotoRoomOK DEF EnterSetRoom, At
  <2> QED BY <1>5, <2>1 DEF EnterSetRoom, FieldsOK, IOOK, MapsOK, QueuesOK,
             WorkersOK, EnvOK, ioVars, osVars, envVars
<1>6. CASE EnterGreet(r)
  <2>1. EnvOK'
    BY <1>6 DEF EnterGreet, EnvOK
  <2>2. IOOK' /\ RoomsOK'
    BY <1>6, FinishOK, SendToOK DEF EnterGreet
  <2> QED BY <1>6, <2>1, <2>2 DEF EnterGreet, FieldsOK, MapsOK, QueuesOK,
             WorkersOK, osVars
<1>7. CASE LeaveDisconnect(r)
  <2>1. RoomsOK'
    BY <1>7, <1>p, GotoRoomOK DEF LeaveDisconnect, At
  <2> QED BY <1>7, <2>1 DEF LeaveDisconnect, FieldsOK, IOOK, MapsOK, QueuesOK,
             WorkersOK, EnvOK, ioVars, osVars, envVars
<1>8. CASE LeaveUnsetRoom(r) \/ LeaveTell(r) \/ LeaveUnlist(r)
  <2>1. RoomsOK'
    <3>1. \E place \in {"tell", "unlist", "close"} : GotoRoom(r, place)
      BY <1>8 DEF LeaveUnsetRoom, LeaveTell, LeaveUnlist
    <3>2. ~At(r, "idle")
      BY <1>8 DEF LeaveUnsetRoom, LeaveTell, LeaveUnlist, At
    <3> QED BY <1>p, <3>1, <3>2, GotoRoomOK
  <2>2. IOOK'
    <3>1. CASE LeaveTell(r)
      BY <3>1, SendToOK DEF LeaveTell
    <3>2. CASE LeaveUnsetRoom(r) \/ LeaveUnlist(r)
      BY <3>2 DEF LeaveUnsetRoom, LeaveUnlist, ioVars, IOOK
    <3> QED BY <1>8, <3>1, <3>2
  <2>3. MapsOK'
    BY <1>8 DEF LeaveUnsetRoom, LeaveTell, LeaveUnlist, MapsOK, osVars, SessionOrNone
  <2>4. FieldsOK'
    BY <1>8 DEF LeaveUnsetRoom, LeaveTell, LeaveUnlist, FieldsOK
  <2> QED BY <1>8, <2>1, <2>2, <2>3, <2>4 DEF LeaveUnsetRoom, LeaveTell,
             LeaveUnlist, QueuesOK, WorkersOK, EnvOK, envVars
<1>9. CASE LeaveClose(r)
  <2>1. RoomsOK'
    BY <1>9, <1>p, GotoRoomOK DEF LeaveClose, At
  <2>2. IOOK' /\ MapsOK'
    BY <1>9, CloseOK DEF LeaveClose
  <2> QED BY <1>9, <2>1, <2>2 DEF LeaveClose, FieldsOK, QueuesOK, WorkersOK,
             EnvOK, envVars
<1>10. CASE LeaveErase(r)
  <2>1. MapsOK'
    BY <1>10 DEF LeaveErase, EraseUserSession, MapsOK, osVars, SessionOrNone
  <2>2. RoomsOK'
    BY <1>10, FinishOK DEF LeaveErase
  <2> QED BY <1>10, <2>1, <2>2 DEF LeaveErase, FieldsOK, IOOK, QueuesOK, WorkersOK,
             EnvOK, ioVars, envVars
<1> QED BY <1>1, <1>2, <1>3, <1>t, <1>f, <1>4, <1>5, <1>6, <1>7, <1>8, <1>9, <1>10
        DEF RoomStep

(* The steps of clients that involve no thread. *)
LEMMA ClientTypes ==
  ASSUME TypeInv, NEW s \in Sessions,
         \/ \E h \in Handles : Connect(s, h)
         \/ \E how \in {"fin", "rst"} : PeerLeaves(s, how)
  PROVE  TypeInv'
<1> USE DEF TypeInv
<1>1. ASSUME NEW h \in Handles, Connect(s, h)
      PROVE  TypeInv'
  <2>1. FieldsOK'
    BY <1>1 DEF Connect, FieldsOK
  <2>2. IOOK' /\ peer' \in [Sessions -> {"none", "up", "fin", "rst", "early"}]
    <3>1. PICK early \in BOOLEAN :
            /\ recvIO' = [recvIO EXCEPT ![s] = IF early THEN "none" ELSE "pending"]
            /\ peer' = [peer EXCEPT ![s] = IF early THEN "early" ELSE "up"]
      BY <1>1 DEF Connect
    <3>2. sendIO' = [sendIO EXCEPT ![s] = "none"]
      BY <1>1 DEF Connect
    <3> QED BY <3>1, <3>2 DEF IOOK, EnvOK
  <2>3. MapsOK'
    BY <1>1 DEF Connect, MapsOK, SessionOrNone
  <2>4. EnvOK'
    <3>1. twins' \subseteq Sessions
      BY <1>1 DEF Connect, EnvOK, Holders
    <3> QED BY <1>1, <2>2, <3>1, LifeAssumption DEF Connect, EnvOK
  <2> QED BY <1>1, <2>1, <2>2, <2>3, <2>4 DEF Connect, QueuesOK, RoomsOK, WorkersOK
<1>2. ASSUME NEW how \in {"fin", "rst"}, PeerLeaves(s, how)
      PROVE  TypeInv'
  BY <1>2 DEF PeerLeaves, FieldsOK, IOOK, MapsOK, QueuesOK, RoomsOK, WorkersOK,
     EnvOK, ioVars, osVars
<1> QED BY <1>1, <1>2

LEMMA StutterTypes ==
  ASSUME TypeInv, UNCHANGED vars PROVE TypeInv'
BY DEF vars, ioVars, osVars, envVars, TypeInv, FieldsOK, IOOK, MapsOK, QueuesOK,
       RoomsOK, WorkersOK, EnvOK

LEMMA StepTypes ==
  ASSUME TypeInv, [Next]_vars PROVE TypeInv'
BY WorkerTypes, RoomTypes, ClientTypes, StutterTypes DEF Next

(* Every variable has its type, and no thread is at work without a session. *)
THEOREM TypeCorrect == Spec => []TypeOK
<1>1. Init => TypeInv
  BY InitTypes
<1>2. TypeInv /\ [Next]_vars => TypeInv'
  BY StepTypes
<1>3. TypeInv => TypeOK
  BY TypeInvIsTypeOK
<1> QED BY <1>1, <1>2, <1>3, PTL DEF Spec

-----------------------------------------------------------------------------
(* A step other than Connect leaves m_Socket alone and removes entries of the
   maps, or adds the one of the session that a room thread admits. *)
EntriesKept ==
  /\ sock' = sock
  /\ \A h \in Handles : userSession'[h] \in {userSession[h], None}
  /\ \A r \in Rooms, h \in Handles :
       \/ roomUser'[r][h] \in {roomUser[r][h], None}
       \/ At(r, "admit") /\ h = sock[room[r].s] /\ roomUser'[r][h] = room[r].s

LEMMA SameEntries ==
  ASSUME UNCHANGED <<sock, userSession, roomUser>>
  PROVE  EntriesKept
BY DEF EntriesKept

LEMMA WorkerEntries ==
  ASSUME TypeInv, NEW w \in Workers,
         \/ \E s \in Sessions, kind \in PacketKinds : HandlePacket(w, s, kind)
         \/ \E s \in Sessions : TakeCompletion(w, s)
         \/ WorkerStep(w)
  PROVE  EntriesKept
<1>1. CASE \E s \in Sessions, kind \in PacketKinds : HandlePacket(w, s, kind)
  BY <1>1, SameEntries DEF HandlePacket
<1>2. CASE \E s \in Sessions : TakeCompletion(w, s)
  BY <1>2, SameEntries DEF TakeCompletion, TakeEof, TakeRecvError, TakeSendDone,
     TakeSendError
<1>3. CASE ReadRoom(w) \/ PushJob(w) \/ CloseUnrouted(w) \/ RecvStart(w)
  BY <1>3, SameEntries DEF ReadRoom, PushJob, CloseUnrouted, RecvStart
<1>4. CASE EraseUnrouted(w)
  BY <1>4 DEF EraseUnrouted, EraseUserSession, EntriesKept, TypeInv, MapsOK
<1> QED BY <1>1, <1>2, <1>3, <1>4 DEF WorkerStep

LEMMA RoomEntries ==
  ASSUME TypeInv, NEW r \in Rooms, RoomStep(r) \/ Tick(r)
  PROVE  EntriesKept
<1>1. CASE \/ TakeJob(r) \/ BroadCast(r) \/ Move(r) \/ Tick(r) \/ EnterCheck(r)
           \/ EnterRefuse(r) \/ EnterSetRoom(r) \/ EnterGreet(r) \/ LeaveCheck(r)
           \/ LeaveDisconnect(r) \/ LeaveUnsetRoom(r) \/ LeaveTell(r) \/ LeaveClose(r)
  BY <1>1, SameEntries DEF TakeJob, BroadCast, Move, Tick, EnterCheck, EnterRefuse,
     EnterSetRoom, EnterGreet, LeaveCheck, LeaveDisconnect, LeaveUnsetRoom, LeaveTell,
     LeaveClose
<1>2. CASE EnterInsert(r)
  <2>1. roomUser' = [roomUser EXCEPT ![r][sock[room[r].s]] =
                       IF roomUser[r][sock[room[r].s]] = None THEN room[r].s ELSE @]
    BY <1>2, Zenon DEF EnterInsert
  <2>2. At(r, "admit") /\ UNCHANGED <<sock, userSession>>
    BY <1>2 DEF EnterInsert
  <2> QED BY <2>1, <2>2 DEF EntriesKept, TypeInv, MapsOK
<1>3. CASE LeaveUnlist(r)
  BY <1>3 DEF LeaveUnlist, EntriesKept, TypeInv, MapsOK
<1>4. CASE LeaveErase(r)
  BY <1>4 DEF LeaveErase, EraseUserSession, EntriesKept, TypeInv, MapsOK
<1> QED BY <1>1, <1>2, <1>3, <1>4 DEF RoomStep

LEMMA StepEntries ==
  ASSUME TypeInv, [Next]_vars
  PROVE  \/ EntriesKept
         \/ \E s \in Sessions, h \in Handles : Connect(s, h)
<1>1. CASE UNCHANGED vars
  BY <1>1, SameEntries DEF vars
<1>2. CASE \E s \in Sessions, how \in {"fin", "rst"} : PeerLeaves(s, how)
  BY <1>2, SameEntries DEF PeerLeaves
<1> QED BY <1>1, <1>2, WorkerEntries, RoomEntries DEF Next

LEMMA KeysStep ==
  ASSUME TypeInv, KeysMatch, [Next]_vars
  PROVE  KeysMatch'
<1>1. CASE EntriesKept
  BY <1>1 DEF EntriesKept, KeysMatch
<1>2. ASSUME NEW s \in Sessions, NEW h \in Handles, Connect(s, h)
      PROVE  KeysMatch'
  <2>1. /\ sock' = [sock EXCEPT ![s] = h] /\ roomUser' = roomUser
        /\ userSession' = [userSession EXCEPT ![h] = IF @ = None THEN s ELSE @]
    BY <1>2 DEF Connect
  <2>2. /\ \A g \in Handles : userSession[g] # s
        /\ \A r \in Rooms, g \in Handles : roomUser[r][g] # s
    BY <1>2 DEF Connect, Pooled, Held
  <2>3. \A g \in Handles :
          /\ userSession[g] \in SessionOrNone
          /\ \A r \in Rooms : roomUser[r][g] \in SessionOrNone
    BY DEF TypeInv, MapsOK
  <2>4. sock'[s] = h /\ \A t \in Sessions : t # s => sock'[t] = sock[t]
    BY <2>1 DEF TypeInv, FieldsOK
  <2>5. ASSUME NEW g \in Handles, userSession'[g] # None
        PROVE  sock'[userSession'[g]] = g
    <3>1. CASE g = h /\ userSession[h] = None
      BY <2>1, <2>4, <3>1 DEF TypeInv, MapsOK
    <3>2. CASE ~(g = h /\ userSession[h] = None)
      <4>1. userSession'[g] = userSession[g]
        BY <2>1, <3>2 DEF TypeInv, MapsOK
      <4> QED BY <2>2, <2>3, <2>4, <2>5, <4>1 DEF KeysMatch, SessionOrNone
    <3> QED BY <3>1, <3>2
  <2>6. ASSUME NEW g \in Handles, NEW r \in Rooms, roomUser'[r][g] # None
        PROVE  sock'[roomUser'[r][g]] = g
    BY <2>1, <2>2, <2>3, <2>4, <2>6 DEF KeysMatch, SessionOrNone
  <2> QED BY <2>5, <2>6 DEF KeysMatch
<1> QED BY <1>1, <1>2, StepEntries

LEMMA InitKeys ==
  ASSUME Init PROVE KeysMatch
BY DEF Init, KeysMatch

(* An entry of m_UserSession or m_roomUser names the SOCKET of its session: no
   session goes back to the pool, and out again with another SOCKET, while a
   map still lists it. *)
THEOREM KeysMatchAlways == Spec => []KeysMatch
<1>1. Init => TypeInv /\ KeysMatch
  BY InitTypes, InitKeys
<1>2. TypeInv /\ KeysMatch /\ [Next]_vars => (TypeInv /\ KeysMatch)'
  BY StepTypes, KeysStep
<1> QED BY <1>1, <1>2, PTL DEF Spec

-----------------------------------------------------------------------------
(* Whoever is referred to, by an operation of the kernel, a map, a job or a
   thread, is in the set X. *)
Busy == {"pending", "more", "aborted"}

RefsIn(X) ==
  /\ \A s \in Sessions : recvIO[s] # "none" \/ sendIO[s] \in Busy => s \in X
  /\ \A w \in Workers : worker[w].s \in X \cup {None}
  /\ \A r \in Rooms : room[r].s \in X \cup {None}
  /\ jobQueue \in [Rooms -> Seq([kind : JobKinds, s : X])]
  /\ \A h \in Handles : userSession[h] \in X \cup {None}
  /\ \A r \in Rooms, h \in Handles : roomUser[r][h] \in X \cup {None}

(* A thread that is busy has a session of X. *)
LEMMA BusyInX ==
  ASSUME TypeInv, NEW X, RefsIn(X)
  PROVE  /\ \A w \in Workers : worker[w].at # "idle" => worker[w].s \in X
         /\ \A r \in Rooms : room[r].at # "idle" => room[r].s \in X
BY LifeAssumption DEF RefsIn, TypeInv, WorkersOK, RoomsOK

LEMMA SendToRefs ==
  ASSUME TypeInv, NEW X, RefsIn(X), NEW S, S \subseteq X, SendTo(S)
  PROVE  \A s \in Sessions : sendIO'[s] \in Busy => s \in X
<1> TAKE s \in Sessions
<1>1. sendIO'[s] = sendIO[s] \/ sendIO[s] \in Busy \/ s \in S \/ sendIO'[s] = "none"
  BY DEF SendTo, Busy, TypeInv, IOOK
<1> QED BY <1>1 DEF RefsIn, Busy

LEMMA CloseRefs ==
  ASSUME TypeInv, NEW X, RefsIn(X), NEW t, CloseSocketOf(t)
  PROVE  \A s \in Sessions : recvIO'[s] # "none" \/ sendIO'[s] \in Busy => s \in X
<1> TAKE s \in Sessions
<1>1. recvIO'[s] # "none" => recvIO[s] # "none"
  BY DEF CloseSocketOf
<1>2. sendIO'[s] \in Busy => sendIO[s] \in Busy
  BY DEF CloseSocketOf, Busy
<1> QED BY <1>1, <1>2 DEF RefsIn

LEMMA RefsWorkerStep ==
  ASSUME TypeInv, NEW X, RefsIn(X), NEW w \in Workers,
         \/ \E s \in Sessions, kind \in PacketKinds : HandlePacket(w, s, kind)
         \/ \E s \in Sessions : TakeCompletion(w, s)
         \/ WorkerStep(w)
  PROVE  RefsIn(X)'
<1>1. room' = room /\ roomUser' = roomUser
  BY DEF HandlePacket, TakeCompletion, TakeEof, TakeRecvError, TakeSendDone,
     TakeSendError, WorkerStep, ReadRoom, PushJob, CloseUnrouted, EraseUnrouted,
     RecvStart
<1>2. /\ \A s \in Sessions : recvIO[s] # "none" \/ sendIO[s] \in Busy => s \in X
      /\ worker[w].at # "idle" => worker[w].s \in X
      /\ \A v \in Workers : worker[v].s \in X \cup {None}
      /\ jobQueue \in [Rooms -> Seq([kind : JobKinds, s : X])]
  BY BusyInX DEF RefsIn
<1>3. \A s \in Sessions : recvIO'[s] # "none" \/ sendIO'[s] \in Busy => s \in X
  <2>1. CASE \E s \in Sessions, kind \in PacketKinds : HandlePacket(w, s, kind)
    <3>1. PICK s \in Sessions, kind \in PacketKinds : HandlePacket(w, s, kind)
      BY <2>1
    <3>2. \E v \in {"none", recvIO[s]} : recvIO' = [recvIO EXCEPT ![s] = v]
      BY <3>1, Zenon DEF HandlePacket
    <3>3. \A z \in Sessions : recvIO'[z] # "none" => recvIO[z] # "none"
      BY <3>2 DEF TypeInv, IOOK
    <3>4. PICK S \in SUBSET {s} : SendTo(S)
      BY <3>1 DEF HandlePacket
    <3>5. s \in X
      BY <1>2, <3>1 DEF HandlePacket
    <3>6. \A z \in Sessions : sendIO'[z] \in Busy => z \in X
      BY <3>4, <3>5, SendToRefs
    <3> QED BY <1>2, <3>3, <3>6
  <2>2. CASE \E s \in Sessions : TakeCompletion(w, s)
    BY <1>2, <2>2 DEF TakeCompletion, TakeEof, TakeRecvError, TakeSendDone,
       TakeSendError, Busy, TypeInv, IOOK
  <2>3. CASE ReadRoom(w) \/ PushJob(w) \/ EraseUnrouted(w)
    BY <1>2, <2>3 DEF ReadRoom, PushJob, EraseUnrouted, ioVars
  <2>4. CASE CloseUnrouted(w)
    BY <2>4, CloseRefs DEF CloseUnrouted
  <2>5. CASE RecvStart(w)
    BY <1>2, <2>5 DEF RecvStart, TypeInv, IOOK
  <2> QED BY <2>1, <2>2, <2>3, <2>4, <2>5 DEF WorkerStep
<1>4. worker'[w].s \in X \cup {None}
  <2>1. ASSUME NEW s \in Sessions, NEW kind \in PacketKinds, HandlePacket(w, s, kind)
        PROVE  worker'[w].s \in X
    <3>1. s \in X
      BY <1>2, <2>1 DEF HandlePacket
    <3>2. \E rec \in [at : WorkerPlaces, s : {s}, kind : JobKinds,
                      index : Rooms \cup {NoRoom}, then : {"idle", "loop"}] :
            SetWorker(w, rec)
      <4>1. CASE kind = "Enter"
        BY <2>1, <4>1 DEF HandlePacket, Route, WorkerPlaces, JobKinds
      <4>2. CASE kind = "Bad"
        BY <2>1, <4>2 DEF HandlePacket, Route, WorkerPlaces, JobKinds
      <4>3. CASE kind \in {"Leave", "Chat", "Move"}
        <5>1. SetWorker(w, Route(w, s, kind, "loop"))
          BY <2>1, <4>3 DEF HandlePacket
        <5> QED BY <4>3, <5>1 DEF Route, WorkerPlaces, JobKinds
      <4>4. CASE kind = "Echo"
        <5>1. SetWorker(w, Looping(s))
          BY <2>1, <4>4 DEF HandlePacket
        <5> QED BY <5>1 DEF Looping, IdleWorker, WorkerPlaces, JobKinds
      <4> QED BY <4>1, <4>2, <4>3, <4>4 DEF PacketKinds
    <3>3. worker'[w].s = s
      BY <3>2 DEF SetWorker, TypeInv, WorkersOK
    <3> QED BY <3>1, <3>3
  <2>2. ASSUME NEW s \in Sessions, TakeCompletion(w, s)
        PROVE  worker'[w].s \in X \/ worker'[w] = worker[w]
    <3>1. s \in X
      BY <1>2, <2>2 DEF TakeCompletion, TakeEof, TakeRecvError, TakeSendDone,
         TakeSendError, Busy
    <3>2. worker'[w].s = s \/ worker'[w] = worker[w]
      BY <2>2 DEF TakeCompletion, TakeEof, TakeRecvError, TakeSendDone,
         TakeSendError, SetWorker, Route, TypeInv, WorkersOK
    <3> QED BY <3>1, <3>2
  <2>3. CASE WorkerStep(w)
    <3>1. worker[w].at # "idle"
      BY <2>3 DEF WorkerStep, ReadRoom, PushJob, CloseUnrouted, EraseUnrouted, RecvStart
    <3>2. worker'[w].s = None \/ worker'[w].s = worker[w].s
      <4>1. worker \in [Workers -> WorkerStates]
        BY DEF TypeInv, WorkersOK
      <4>2. CASE ReadRoom(w)
        BY <4>1, <4>2 DEF ReadRoom, SetWorker, WorkerStates
      <4>3. CASE PushJob(w)
        BY <4>1, <4>3 DEF PushJob, Proceed, SetWorker, Looping, IdleWorker, WorkerStates
      <4>4. CASE CloseUnrouted(w)
        BY <4>1, <4>4 DEF CloseUnrouted, SetWorker, WorkerStates
      <4>5. CASE EraseUnrouted(w)
        BY <4>1, <4>5 DEF EraseUnrouted, Proceed, SetWorker, Looping, IdleWorker,
                          WorkerStates
      <4>6. CASE RecvStart(w)
        BY <4>1, <4>6 DEF RecvStart, SetWorker, Route, IdleWorker, WorkerStates
      <4> QED BY <2>3, <4>2, <4>3, <4>4, <4>5, <4>6 DEF WorkerStep
    <3> QED BY <1>2, <3>2
  <2> QED BY <1>2, <2>1, <2>2, <2>3
<1>5. \A v \in Workers : v # w => worker'[v] = worker[v]
  <2>1. \E rec : worker' = [worker EXCEPT ![w] = rec]
    <3>1. CASE \E s \in Sessions, kind \in PacketKinds : HandlePacket(w, s, kind)
      <4>1. PICK s \in Sessions, kind \in PacketKinds : HandlePacket(w, s, kind)
        BY <3>1
      <4>2. CASE kind = "Enter"
        BY <4>1, <4>2 DEF HandlePacket, SetWorker
      <4>3. CASE kind = "Echo"
        BY <4>1, <4>3 DEF HandlePacket, SetWorker
      <4>4. CASE kind = "Bad"
        BY <4>1, <4>4 DEF HandlePacket, SetWorker
      <4>5. CASE kind \in {"Leave", "Chat", "Move"}
        BY <4>1, <4>5 DEF HandlePacket, SetWorker
      <4> QED BY <4>2, <4>3, <4>4, <4>5 DEF PacketKinds
    <3>2. CASE \E s \in Sessions : TakeCompletion(w, s)
      <4>1. PICK s \in Sessions : TakeCompletion(w, s)
        BY <3>2
      <4>2. CASE TakeEof(w, s) \/ TakeRecvError(w, s)
        BY <4>2 DEF TakeEof, TakeRecvError, SetWorker
      <4>3. CASE TakeSendDone(w, s)
        <5>1. worker' = worker
          BY <4>3 DEF TakeSendDone
        <5>2. worker = [worker EXCEPT ![w] = worker[w]]
          BY DEF TypeInv, WorkersOK
        <5> QED BY <5>1, <5>2
      <4>4. CASE TakeSendError(w, s)
        BY <4>4 DEF TakeSendError, SetWorker
      <4> QED BY <4>1, <4>2, <4>3, <4>4 DEF TakeCompletion
    <3>3. CASE WorkerStep(w)
      BY <3>3 DEF WorkerStep, ReadRoom, PushJob, CloseUnrouted, EraseUnrouted,
         RecvStart, Proceed, SetWorker
    <3> QED BY <3>1, <3>2, <3>3
  <2> QED BY <2>1 DEF TypeInv, WorkersOK
<1>6. jobQueue' \in [Rooms -> Seq([kind : JobKinds, s : X])]
  <2>1. CASE PushJob(w)
    <3> DEFINE job == [kind |-> worker[w].kind, s |-> worker[w].s]
    <3>1. worker[w].index \in Rooms /\ worker[w].at # "idle"
      BY <2>1 DEF PushJob
    <3>2. job \in [kind : JobKinds, s : X]
      BY <1>2, <3>1 DEF TypeInv, WorkersOK, WorkerStates
    <3>3. jobQueue' = [jobQueue EXCEPT ![worker[w].index] = Append(@, job)]
      BY <2>1 DEF PushJob
    <3> HIDE DEF job
    <3>4. Append(jobQueue[worker[w].index], job) \in Seq([kind : JobKinds, s : X])
      BY <1>2, <3>1, <3>2, AppendProperties
    <3> QED BY <1>2, <3>1, <3>3, <3>4
  <2>2. CASE jobQueue' = jobQueue
    BY <1>2, <2>2
  <2> QED BY <2>1, <2>2 DEF HandlePacket, TakeCompletion, TakeEof, TakeRecvError,
         TakeSendDone, TakeSendError, WorkerStep, ReadRoom, CloseUnrouted,
         EraseUnrouted, RecvStart
<1>7. \A h \in Handles : userSession'[h] \in {userSession[h], None}
  <2>1. CASE EraseUnrouted(w)
    BY <2>1 DEF EraseUnrouted, EraseUserSession
  <2>2. CASE ~EraseUnrouted(w)
    <3>1. userSession' = userSession
      BY <2>2 DEF HandlePacket, TakeCompletion, TakeEof, TakeRecvError, TakeSendDone,
         TakeSendError, WorkerStep, ReadRoom, PushJob, CloseUnrouted, RecvStart
    <3> QED BY <3>1
  <2> QED BY <2>1, <2>2
<1>8. /\ \A r \in Rooms : room'[r].s \in X \cup {None}
      /\ \A r \in Rooms, h \in Handles : roomUser'[r][h] \in X \cup {None}
      /\ \A h \in Handles : userSession'[h] \in X \cup {None}
  BY <1>1, <1>7 DEF RefsIn
<1>9. \A v \in Workers : worker'[v].s \in X \cup {None}
  BY <1>2, <1>4, <1>5
<1> QED BY <1>3, <1>6, <1>8, <1>9 DEF RefsIn

LEMMA RefsRoomStep ==
  ASSUME TypeInv, NEW X, RefsIn(X), NEW r \in Rooms, RoomStep(r) \/ Tick(r)
  PROVE  RefsIn(X)'
<1>1. worker' = worker
  BY DEF RoomStep, TakeJob, BroadCast, Move, Tick, EnterCheck, EnterRefuse, EnterInsert,
     EnterSetRoom, EnterGreet, LeaveCheck, LeaveDisconnect, LeaveUnsetRoom, LeaveTell,
     LeaveUnlist, LeaveClose, LeaveErase
<1>2. /\ \A s \in Sessions : recvIO[s] # "none" \/ sendIO[s] \in Busy => s \in X
      /\ \A q \in Rooms : room[q].s \in X \cup {None}
      /\ jobQueue \in [Rooms -> Seq([kind : JobKinds, s : X])]
      /\ \A q \in Rooms, h \in Handles : roomUser[q][h] \in X \cup {None}
      /\ room[r].at # "idle" => room[r].s \in X
  BY BusyInX DEF RefsIn
<1>3. \A s \in Sessions : recvIO'[s] # "none" \/ sendIO'[s] \in Busy => s \in X
  <2>1. CASE UNCHANGED ioVars
    BY <1>2, <2>1 DEF ioVars
  <2>2. CASE BroadCast(r) \/ Tick(r) \/ EnterRefuse(r) \/ EnterGreet(r) \/ LeaveTell(r)
    <3>1. Members(r) \subseteq X
      BY <1>2 DEF Members
    <3>2. EnterGreet(r) \/ EnterRefuse(r) => room[r].s \in X
      BY <1>2 DEF EnterGreet, EnterRefuse, At
    <3>3. recvIO' = recvIO
      BY <2>2 DEF BroadCast, Tick, EnterRefuse, EnterGreet, LeaveTell
    <3>4. PICK S : S \subseteq X /\ SendTo(S)
      <4>1. CASE BroadCast(r) \/ Tick(r) \/ LeaveTell(r)
        BY <3>1, <4>1 DEF BroadCast, Tick, LeaveTell
      <4>2. CASE EnterRefuse(r) \/ EnterGreet(r)
        BY <3>1, <3>2, <4>2 DEF EnterRefuse, EnterGreet
      <4> QED BY <2>2, <4>1, <4>2
    <3>5. \A s \in Sessions : sendIO'[s] \in Busy => s \in X
      BY <3>4, SendToRefs
    <3> QED BY <1>2, <3>3, <3>5
  <2>3. CASE LeaveClose(r)
    BY <2>3, CloseRefs DEF LeaveClose
  <2> QED BY <2>1, <2>2, <2>3 DEF RoomStep, TakeJob, Move, EnterCheck, EnterInsert,
         EnterSetRoom, LeaveCheck, LeaveDisconnect, LeaveUnsetRoom, LeaveUnlist, LeaveErase
<1>4. /\ \A q \in Rooms : room'[q].s \in X \cup {None}
      /\ jobQueue' \in [Rooms -> Seq([kind : JobKinds, s : X])]
  <2>1. CASE TakeJob(r)
    <3> DEFINE job == Head(jobQueue[r])
    <3>1. jobQueue[r] \in Seq([kind : JobKinds, s : X]) /\ jobQueue[r] # <<>>
      BY <1>2, <2>1 DEF TakeJob
    <3>2. /\ job \in [kind : JobKinds, s : X]
          /\ Tail(jobQueue[r]) \in Seq([kind : JobKinds, s : X])
      BY <3>1, HeadTailProperties
    <3>3. /\ room' = [room EXCEPT ![r] = [at |-> "check", s |-> job.s, kind |-> job.kind]]
          /\ jobQueue' = [jobQueue EXCEPT ![r] = Tail(@)]
      BY <2>1 DEF TakeJob
    <3> HIDE DEF job
    <3>4. job.s \in X
      BY <3>2
    <3>5. \A q \in Rooms : room'[q].s \in X \cup {None}
      BY <1>2, <3>3, <3>4 DEF TypeInv, RoomsOK
    <3>6. jobQueue' \in [Rooms -> Seq([kind : JobKinds, s : X])]
      BY <1>2, <3>2, <3>3
    <3> QED BY <3>5, <3>6
  <2>t. CASE Tick(r)
    BY <1>2, <2>t DEF Tick
  <2>2. CASE ~TakeJob(r) /\ ~Tick(r)
    <3>1. /\ jobQueue' = jobQueue
          /\ Finish(r) \/ \E place \in RoomPlaces : GotoRoom(r, place)
      BY <2>2 DEF RoomStep, BroadCast, Move, EnterCheck, EnterRefuse, EnterInsert,
         EnterSetRoom, EnterGreet, LeaveCheck, LeaveDisconnect, LeaveUnsetRoom,
         LeaveTell, LeaveUnlist, LeaveClose, LeaveErase, At, RoomPlaces
    <3>2. \A q \in Rooms : room'[q].s \in X \cup {None}
      <4>1. CASE Finish(r)
        BY <1>2, <4>1 DEF Finish, IdleRoom, TypeInv, RoomsOK
      <4>2. ASSUME NEW place \in RoomPlaces, GotoRoom(r, place)
            PROVE  \A q \in Rooms : room'[q].s = room[q].s /\ (q # r => room'[q] = room[q])
        BY <4>2 DEF GotoRoom, TypeInv, RoomsOK, RoomStates
      <4> QED BY <1>2, <3>1, <4>1, <4>2
    <3> QED BY <1>2, <3>1, <3>2
  <2> QED BY <2>1, <2>t, <2>2
<1>5. \A q \in Rooms, h \in Handles : roomUser'[q][h] \in X \cup {None}
  <2>1. CASE EnterInsert(r)
    <3>1. roomUser' = [roomUser EXCEPT ![r][sock[room[r].s]] =
                         IF roomUser[r][sock[room[r].s]] = None THEN room[r].s ELSE @]
      BY <2>1, Zenon DEF EnterInsert
    <3>2. room[r].s \in X
      BY <1>2, <2>1 DEF EnterInsert, At
    <3> QED BY <1>2, <3>1, <3>2 DEF TypeInv, MapsOK
  <2>2. CASE LeaveUnlist(r)
    BY <1>2, <2>2 DEF LeaveUnlist, TypeInv, MapsOK
  <2>3. CASE ~EnterInsert(r) /\ ~LeaveUnlist(r)
    <3>1. roomUser' = roomUser
      BY <2>3 DEF RoomStep, TakeJob, BroadCast, Move, Tick, EnterCheck, EnterRefuse,
         EnterSetRoom, EnterGreet, LeaveCheck, LeaveDisconnect, LeaveUnsetRoom,
         LeaveTell, LeaveClose, LeaveErase
    <3> QED BY <1>2, <3>1
  <2> QED BY <2>1, <2>2, <2>3
<1>6. \A h \in Handles : userSession'[h] \in {userSession[h], None}
  <2>1. CASE LeaveErase(r)
    BY <2>1 DEF LeaveErase, EraseUserSession
  <2>2. CASE ~LeaveErase(r)
    <3>1. userSession' = userSession
      BY <2>2 DEF RoomStep, TakeJob, BroadCast, Move, Tick, EnterCheck, EnterRefuse,
         EnterInsert, EnterSetRoom, EnterGreet, LeaveCheck, LeaveDisconnect,
         LeaveUnsetRoom, LeaveTell, LeaveUnlist, LeaveClose
    <3> QED BY <3>1
  <2> QED BY <2>1, <2>2
<1>7. \A h \in Handles : userSession'[h] \in X \cup {None}
  BY <1>6 DEF RefsIn
<1> QED BY <1>1, <1>3, <1>4, <1>5, <1>7 DEF RefsIn

(* No step but Connect refers to a session that was not referred to. *)
LEMMA RefsKept ==
  ASSUME TypeInv, NEW X, RefsIn(X), [Next]_vars,
         ~(\E s \in Sessions, h \in Handles : Connect(s, h))
  PROVE  RefsIn(X)'
<1>1. CASE \/ UNCHANGED vars
           \/ \E s \in Sessions, how \in {"fin", "rst"} : PeerLeaves(s, how)
  BY <1>1 DEF vars, ioVars, PeerLeaves, RefsIn
<1> QED BY <1>1, RefsWorkerStep, RefsRoomStep DEF Next

LEMMA RefsConnect ==
  ASSUME TypeInv, NEW X, RefsIn(X), NEW s \in Sessions, NEW h \in Handles, Connect(s, h)
  PROVE  RefsIn(X \cup {s})'
<1> DEFINE Y == X \cup {s}
<1>1. \A t \in Sessions : recvIO'[t] # "none" \/ sendIO'[t] \in Busy => t \in Y
  BY DEF Connect, RefsIn, TypeInv, IOOK
<1>2. \A q \in Rooms : jobQueue[q] \in Seq([kind : JobKinds, s : Y])
  <2> TAKE q \in Rooms
  <2> DEFINE J == [kind : JobKinds, s : X]
             K == [kind : JobKinds, s : Y]
  <2>1. J \subseteq K /\ jobQueue[q] \in Seq(J)
    BY DEF RefsIn
  <2> HIDE DEF J, K
  <2>2. jobQueue[q] \in Seq(K)
    BY <2>1, SeqDef
  <2> QED BY <2>2 DEF K
<1>3. jobQueue' = jobQueue /\ jobQueue \in [Rooms -> Seq([kind : JobKinds, s : Y])]
  BY <1>2 DEF Connect, RefsIn
<1>4. \A g \in Handles : userSession'[g] \in Y \cup {None}
  BY DEF Connect, RefsIn, TypeInv, MapsOK
<1> HIDE DEF Y
<1>5. X \subseteq Y
  BY DEF Y
<1>6. /\ \A w \in Workers : worker'[w].s \in Y \cup {None}
      /\ \A r \in Rooms : room'[r].s \in Y \cup {None}
      /\ \A r \in Rooms, g \in Handles : roomUser'[r][g] \in Y \cup {None}
  BY <1>5 DEF Connect, RefsIn
<1>7. RefsIn(Y)'
  BY <1>1, <1>3, <1>4, <1>6 DEF RefsIn
<1> QED BY <1>7 DEF Y

-----------------------------------------------------------------------------
(* Sessions that share a SOCKET. *)
HeldSet == {s \in Sessions : Held(s)}

LEMMA HeldRefs ==
  ASSUME TypeInv PROVE RefsIn(HeldSet)
<1>1. \A q \in Rooms : jobQueue[q] \in Seq([kind : JobKinds, s : HeldSet])
  <2> TAKE q \in Rooms
  <2>1. jobQueue[q] \in Seq(Jobs)
    BY DEF TypeInv, QueuesOK
  <2>2. \A i \in 1 .. Len(jobQueue[q]) : jobQueue[q][i] \in Jobs
    BY <2>1, ElementOfSeq
  <2>3. \A i \in 1 .. Len(jobQueue[q]) : jobQueue[q][i] \in [kind : JobKinds, s : HeldSet]
    BY <2>2 DEF Jobs, HeldSet, Held
  <2>4. Len(jobQueue[q]) \in Nat /\ jobQueue[q] = [i \in 1 .. Len(jobQueue[q]) |-> jobQueue[q][i]]
    BY <2>1
  <2>5. jobQueue[q] \in [1 .. Len(jobQueue[q]) -> [kind : JobKinds, s : HeldSet]]
    BY <2>3, <2>4
  <2> QED BY <2>4, <2>5, SeqDef
<1>2. jobQueue \in [Rooms -> Seq([kind : JobKinds, s : HeldSet])]
  BY <1>1 DEF TypeInv, QueuesOK
<1>3. \A s \in Sessions : recvIO[s] # "none" \/ sendIO[s] \in Busy => s \in HeldSet
  BY DEF HeldSet, Held, Busy
<1>4. \A w \in Workers : worker[w].s \in HeldSet \cup {None}
  BY DEF HeldSet, Held, TypeInv, WorkersOK, WorkerStates, SessionOrNone
<1>5. \A r \in Rooms : room[r].s \in HeldSet \cup {None}
  BY DEF HeldSet, Held, TypeInv, RoomsOK, RoomStates, SessionOrNone
<1>6. /\ \A h \in Handles : userSession[h] \in HeldSet \cup {None}
      /\ \A r \in Rooms, h \in Handles : roomUser[r][h] \in HeldSet \cup {None}
  BY DEF HeldSet, Held, TypeInv, MapsOK, SessionOrNone
<1> QED BY <1>2, <1>3, <1>4, <1>5, <1>6 DEF RefsIn

LEMMA RefsCover ==
  ASSUME NEW X, RefsIn(X)', NEW s \in Sessions, Held(s)'
  PROVE  s \in X
<1>1. ASSUME NEW r \in Rooms, NEW i \in 1 .. Len(jobQueue'[r]), jobQueue'[r][i].s = s
      PROVE  s \in X
  <2>1. jobQueue'[r] \in Seq([kind : JobKinds, s : X])
    BY DEF RefsIn
  <2>2. jobQueue'[r][i] \in [kind : JobKinds, s : X]
    BY <2>1, ElementOfSeq
  <2> QED BY <1>1, <2>2
<1>2. \/ recvIO'[s] # "none"
      \/ sendIO'[s] \in Busy
      \/ \E h \in Handles : userSession'[h] = s
      \/ \E r \in Rooms, h \in Handles : roomUser'[r][h] = s
      \/ \E r \in Rooms : room'[r].s = s
      \/ \E w \in Workers : worker'[w].s = s
      \/ \E r \in Rooms : \E i \in 1 .. Len(jobQueue'[r]) : jobQueue'[r][i].s = s
  BY DEF Held, Busy
<1> QED BY <1>1, <1>2, LifeAssumption DEF RefsIn

(* Only Connect takes a session from the pool. *)
LEMMA HeldKept ==
  ASSUME TypeInv, [Next]_vars, NEW s \in Sessions, Held(s)'
  PROVE  \/ Held(s)
         \/ \E h \in Handles : Connect(s, h)
<1>1. PICK X : X = HeldSet
  OBVIOUS
<1>2. RefsIn(X)
  BY <1>1, HeldRefs
<1>3. ASSUME NEW t \in Sessions, NEW h \in Handles, Connect(t, h)
      PROVE  s \in X \/ s = t
  <2>1. PICK Y : Y = X \cup {t}
    OBVIOUS
  <2>2. RefsIn(X \cup {t})'
    BY <1>2, <1>3, RefsConnect
  <2>3. RefsIn(Y)'
    BY <2>1, <2>2
  <2> QED BY <2>1, <2>3, RefsCover
<1>4. CASE ~(\E t \in Sessions, h \in Handles : Connect(t, h))
  BY <1>2, <1>4, RefsKept, RefsCover, <1>1 DEF HeldSet
<1> QED BY <1>1, <1>3, <1>4 DEF HeldSet

(* Two sessions in use with one SOCKET are twins. *)
Shared ==
  \A s, t \in Sessions :
    s # t /\ sock[s] = sock[t] /\ sock[s] \in Handles /\ Held(s) /\ Held(t) =>
      s \in twins /\ t \in twins

LEMMA InitShared ==
  ASSUME Init PROVE Shared
BY LifeAssumption DEF Init, Shared

(* Nothing but Connect touches m_Socket and twins. *)
LEMMA TwinsKept ==
  ASSUME [Next]_vars, ~(\E u \in Sessions, h \in Handles : Connect(u, h))
  PROVE  sock' = sock /\ twins' = twins
<1>1. CASE UNCHANGED vars
  BY <1>1 DEF vars, envVars
<1>2. ASSUME NEW s \in Sessions, NEW how, PeerLeaves(s, how)
      PROVE  sock' = sock /\ twins' = twins
  BY <1>2 DEF PeerLeaves
<1>3. ASSUME NEW w \in Workers, NEW s \in Sessions, NEW kind, HandlePacket(w, s, kind)
      PROVE  sock' = sock /\ twins' = twins
  BY <1>3 DEF HandlePacket
<1>4. ASSUME NEW w \in Workers, NEW s \in Sessions, TakeCompletion(w, s)
      PROVE  sock' = sock /\ twins' = twins
  BY <1>4 DEF TakeCompletion, TakeEof, TakeRecvError, TakeSendDone, TakeSendError, envVars
<1>5. ASSUME NEW w \in Workers, WorkerStep(w)
      PROVE  sock' = sock /\ twins' = twins
  BY <1>5 DEF WorkerStep, ReadRoom, PushJob, CloseUnrouted, EraseUnrouted, RecvStart, envVars
<1>6. ASSUME NEW r \in Rooms, RoomStep(r) \/ Tick(r)
      PROVE  sock' = sock /\ twins' = twins
  BY <1>6 DEF RoomStep, TakeJob, BroadCast, Move, Tick, EnterCheck, EnterRefuse,
     EnterInsert, EnterSetRoom, EnterGreet, LeaveCheck, LeaveDisconnect, LeaveUnsetRoom,
     LeaveTell, LeaveUnlist, LeaveClose, LeaveErase, envVars
<1> QED BY <1>1, <1>2, <1>3, <1>4, <1>5, <1>6 DEF Next

LEMMA SharedStep ==
  ASSUME TypeInv, Shared, [Next]_vars
  PROVE  Shared'
<1> SUFFICES ASSUME NEW s \in Sessions, NEW t \in Sessions, s # t,
                    sock'[s] = sock'[t], sock'[s] \in Handles, Held(s)', Held(t)'
             PROVE  s \in twins' /\ t \in twins'
  BY DEF Shared
<1>1. CASE ~(\E u \in Sessions, h \in Handles : Connect(u, h))
  <2>1. sock' = sock /\ twins' = twins
    BY <1>1, TwinsKept
  <2>2. Held(s) /\ Held(t)
    BY <1>1, HeldKept
  <2> QED BY <2>1, <2>2 DEF Shared
<1>2. ASSUME NEW u \in Sessions, NEW h \in Handles, Connect(u, h)
      PROVE  s \in twins' /\ t \in twins'
  <2>1. /\ sock' = [sock EXCEPT ![u] = h]
        /\ twins' = IF Holders(h) = {} THEN twins \ {u} ELSE twins \cup Holders(h) \cup {u}
    BY <1>2 DEF Connect
  <2>2. sock'[u] = h /\ \A z \in Sessions : z # u => sock'[z] = sock[z]
    BY <2>1 DEF TypeInv, FieldsOK
  <2>3. \A z \in Sessions : z # u /\ Held(z)' => Held(z)
    <3> TAKE z \in Sessions
    <3>1. \A g \in Handles : Connect(z, g) => z = u
      BY <1>2, <2>2 DEF Connect, TypeInv, FieldsOK, MapsOK
    <3> QED BY <3>1, HeldKept
  <2>4. \A z \in Sessions : z # u /\ Held(z) /\ sock[z] = h => z \in twins' /\ u \in twins'
    BY <2>1 DEF Holders
  <2>5. \A z \in Sessions : z # u /\ z \in twins => z \in twins'
    BY <2>1
  <2> QED BY <2>2, <2>3, <2>4, <2>5 DEF Shared
<1> QED BY <1>1, <1>2

(* Whoever is in use has a SOCKET. *)
Named == {s \in Sessions : sock[s] \in Handles}

Socketed == RefsIn(Named)

LEMMA InitSockets ==
  ASSUME Init PROVE Socketed
BY DEF Init, Socketed, RefsIn, Busy, IdleWorker, IdleRoom

LEMMA SocketStep ==
  ASSUME TypeInv, Socketed, [Next]_vars
  PROVE  Socketed'
<1>1. PICK X : X = Named
  OBVIOUS
<1>2. RefsIn(X)
  BY <1>1 DEF Socketed
<1>3. CASE ~(\E u \in Sessions, h \in Handles : Connect(u, h))
  <2>1. RefsIn(X)' /\ sock' = sock
    BY <1>2, <1>3, RefsKept, TwinsKept
  <2>2. X = Named'
    BY <1>1, <2>1 DEF Named
  <2> QED BY <2>1, <2>2 DEF Socketed
<1>4. ASSUME NEW u \in Sessions, NEW h \in Handles, Connect(u, h)
      PROVE  Socketed'
  <2>1. PICK Y : Y = X \cup {u}
    OBVIOUS
  <2>2. RefsIn(X \cup {u})'
    BY <1>2, <1>4, RefsConnect
  <2>3. RefsIn(Y)'
    BY <2>1, <2>2
  <2>4. Y = Named'
    BY <1>1, <1>4, <2>1 DEF Connect, Named, TypeInv, FieldsOK
  <2> QED BY <2>3, <2>4 DEF Socketed
<1> QED BY <1>3, <1>4

-----------------------------------------------------------------------------
(* Whose number, flag and place in the lists agree. *)
Listed(r, s) == sock[s] \in Handles /\ roomUser[r][sock[s]] = s

Leaving(r, s) == room[r].s = s /\ room[r].at \in {"remove", "tell", "unlist"}

(* Who has a room number or is connected is listed by a room, under its own
   SOCKET, unless it shares that SOCKET; so is the session that a room admits.
   One that is being taken off the list has no number of that room. *)
Numbered == \A s \in Sessions :
  roomID[s] # NoRoom => Listed(roomID[s], s) \/ s \in twins

Flagged == \A s \in Sessions :
  connected[s] => (\E r \in Rooms : Listed(r, s) /\ ~Leaving(r, s)) \/ s \in twins

Admitted == \A r \in Rooms :
  room[r].at = "announce" => Listed(r, room[r].s) \/ room[r].s \in twins

Unset == \A r \in Rooms :
  room[r].at \in {"tell", "unlist"} => roomID[room[r].s] # r

Entered == Numbered /\ Flagged /\ Admitted /\ Unset

Inv == TypeInv /\ Socketed /\ Shared /\ Entered

LEMMA InitEntered ==
  ASSUME Init PROVE Entered
BY DEF Init, Entered, Numbered, Flagged, Admitted, Unset, IdleRoom

LEMMA ListedHeld ==
  ASSUME NEW r \in Rooms, NEW s \in Sessions, Listed(r, s)
  PROVE  Held(s)
BY DEF Listed, Held

(* A room that goes on without touching lists, numbers or flags. *)
LEMMA QuietEntered ==
  ASSUME Entered, UNCHANGED <<sock, roomID, connected, roomUser, twins>>,
         \A r \in Rooms :
           \/ room'[r] = room[r]
           \/ room'[r].at \notin {"announce", "remove", "tell", "unlist"}
           \/ /\ room[r].at = "tell" /\ room'[r].at = "unlist"
              /\ room'[r].s = room[r].s
  PROVE  Entered'
<1>1. \A r, s : Listed(r, s)' <=> Listed(r, s)
  BY DEF Listed
<1>2. \A r \in Rooms, s \in Sessions : Leaving(r, s)' => Leaving(r, s)
  BY DEF Leaving
<1>3. Numbered' /\ Flagged'
  BY <1>1, <1>2 DEF Entered, Numbered, Flagged
<1>4. Admitted' /\ Unset'
  BY <1>1 DEF Entered, Admitted, Unset
<1> QED BY <1>3, <1>4 DEF Entered

LEMMA WorkerEntered ==
  ASSUME Entered, NEW w \in Workers,
         \/ \E s \in Sessions, kind \in PacketKinds : HandlePacket(w, s, kind)
         \/ \E s \in Sessions : TakeCompletion(w, s)
         \/ WorkerStep(w)
  PROVE  Entered'
<1>1. UNCHANGED <<sock, roomID, connected, roomUser, room, twins>>
  BY DEF HandlePacket, TakeCompletion, TakeEof, TakeRecvError, TakeSendDone,
     TakeSendError, WorkerStep, ReadRoom, PushJob, CloseUnrouted, EraseUnrouted,
     RecvStart, envVars
<1> QED BY <1>1, QuietEntered

LEMMA ConnectEntered ==
  ASSUME Inv, NEW s \in Sessions, NEW h \in Handles, Connect(s, h)
  PROVE  Entered'
<1>1. /\ sock' = [sock EXCEPT ![s] = h]
      /\ roomID' = [roomID EXCEPT ![s] = NoRoom]
      /\ connected' = [connected EXCEPT ![s] = FALSE]
      /\ twins' = IF Holders(h) = {} THEN twins \ {s} ELSE twins \cup Holders(h) \cup {s}
      /\ UNCHANGED <<roomUser, room>>
  BY DEF Connect
<1>2. \A r \in Rooms : room[r].s # s
  BY DEF Connect, Pooled, Held
<1>3. /\ roomID'[s] = NoRoom /\ ~connected'[s]
      /\ \A t \in Sessions : t # s => /\ sock'[t] = sock[t]
                                      /\ roomID'[t] = roomID[t]
                                      /\ connected'[t] = connected[t]
                                      /\ t \in twins => t \in twins'
  BY <1>1 DEF Inv, TypeInv, FieldsOK
<1>4. \A r, t : t \in Sessions /\ t # s /\ Listed(r, t) => Listed(r, t)'
  BY <1>1, <1>3 DEF Listed
<1>5. Numbered'
  BY <1>3, <1>4 DEF Inv, Entered, Numbered
<1>6. \A r, t : Leaving(r, t)' <=> Leaving(r, t)
  BY <1>1 DEF Leaving
<1>7. Flagged'
  BY <1>3, <1>4, <1>6 DEF Inv, Entered, Flagged
<1>8. \A r \in Rooms : room[r].at # "idle" => room[r].s \in Sessions /\ room[r].s # s
  BY <1>2 DEF Inv, TypeInv, RoomsOK
<1>9. \A r \in Rooms : room[r].at = "announce" =>
         Listed(r, room[r].s)' \/ room'[r].s \in twins'
  BY <1>1, <1>3, <1>4, <1>8 DEF Inv, Entered, Admitted
<1>10. Admitted'
  BY <1>1, <1>9 DEF Admitted, Listed
<1>11. Unset'
  BY <1>1, <1>3, <1>8 DEF Inv, Entered, Unset
<1> QED BY <1>5, <1>7, <1>10, <1>11 DEF Entered

(* What a room thread's step with its session leaves as it is. *)
LEMMA GotoEffect ==
  ASSUME TypeInv, NEW r \in Rooms, NEW place, GotoRoom(r, place)
  PROVE  /\ room'[r].s = room[r].s /\ room'[r].at = place
         /\ \A q \in Rooms : q # r => room'[q] = room[q]
BY DEF GotoRoom, TypeInv, RoomsOK, RoomStates

LEMMA FinishEffect ==
  ASSUME TypeInv, NEW r \in Rooms, Finish(r)
  PROVE  /\ room'[r].at = "idle"
         /\ \A q \in Rooms : q # r => room'[q] = room[q]
BY DEF Finish, IdleRoom, TypeInv, RoomsOK

LEMMA InsertEntered ==
  ASSUME Inv, NEW r \in Rooms, EnterInsert(r)
  PROVE  Entered'
<1>0. PICK s \in Sessions : s = room[r].s
  BY DEF EnterInsert, At, Inv, TypeInv, RoomsOK
<1>1. /\ roomUser' = [roomUser EXCEPT ![r][sock[room[r].s]] =
                        IF roomUser[r][sock[room[r].s]] = None THEN room[r].s ELSE @]
      /\ connected' = [connected EXCEPT ![s] = @ \/ roomUser[r][sock[s]] = None]
  BY <1>0, Zenon DEF EnterInsert
<1>2. /\ UNCHANGED <<sock, roomID, twins>>
      /\ IF roomUser[r][sock[s]] = None THEN GotoRoom(r, "announce") ELSE Finish(r)
  BY <1>0 DEF EnterInsert, envVars
<1>3. sock[s] \in Handles
  BY <1>0, LifeAssumption DEF Inv, Socketed, RefsIn, Named
<1>4. CASE roomUser[r][sock[s]] = None
  <2>1. /\ roomUser'[r][sock[s]] = s
        /\ \A q \in Rooms, h \in Handles : q # r \/ h # sock[s] =>
             roomUser'[q][h] = roomUser[q][h]
        /\ \A t \in Sessions : t # s => connected'[t] = connected[t]
    BY <1>0, <1>1, <1>2, <1>3, <1>4 DEF Inv, TypeInv, MapsOK, FieldsOK
  <2>2. /\ room'[r].s = s /\ room'[r].at = "announce"
        /\ \A q \in Rooms : q # r => room'[q] = room[q]
    BY <1>0, <1>2, <1>4, GotoEffect DEF Inv
  <2>3. \A q \in Rooms, t \in Sessions : Listed(q, t) => Listed(q, t)'
    BY <1>2, <1>4, <2>1, LifeAssumption DEF Listed
  <2>4. Listed(r, s)'
    BY <1>2, <1>3, <2>1 DEF Listed
  <2>5. \A q \in Rooms, t \in Sessions : Leaving(q, t)' => Leaving(q, t)
    BY <2>2 DEF Leaving
  <2>6. ~Leaving(r, s)'
    BY <2>2 DEF Leaving
  <2>7. Numbered'
    BY <1>2, <2>3 DEF Inv, Entered, Numbered, TypeInv, FieldsOK
  <2>8. Flagged'
    BY <1>2, <2>1, <2>3, <2>4, <2>5, <2>6 DEF Inv, Entered, Flagged
  <2>9. Admitted'
    BY <1>2, <2>2, <2>3, <2>4 DEF Inv, Entered, Admitted, TypeInv, RoomsOK, Listed
  <2>10. Unset'
    BY <1>2, <2>2 DEF Inv, Entered, Unset
  <2> QED BY <2>7, <2>8, <2>9, <2>10 DEF Entered
<1>5. CASE roomUser[r][sock[s]] # None
  <2>1. roomUser' = roomUser /\ connected' = connected
    BY <1>0, <1>1, <1>2, <1>3, <1>5 DEF Inv, TypeInv, MapsOK, FieldsOK
  <2>2. /\ room'[r].at = "idle"
        /\ \A q \in Rooms : q # r => room'[q] = room[q]
    BY <1>2, <1>5, FinishEffect DEF Inv
  <2> QED BY <1>2, <2>1, <2>2, QuietEntered DEF Inv
<1> QED BY <1>4, <1>5

LEMMA SetRoomEntered ==
  ASSUME Inv, NEW r \in Rooms, EnterSetRoom(r)
  PROVE  Entered'
<1> DEFINE s == room[r].s
<1>1. /\ s \in Sessions
      /\ Listed(r, s) \/ s \in twins
      /\ UNCHANGED <<sock, connected, roomUser, twins>>
      /\ roomID' = [roomID EXCEPT ![s] = r]
      /\ GotoRoom(r, "greet")
  BY DEF EnterSetRoom, At, Inv, Entered, Admitted, envVars, TypeInv, RoomsOK
<1>2. /\ room'[r].s = s /\ room'[r].at = "greet"
      /\ \A q \in Rooms : q # r => room'[q] = room[q]
  BY <1>1, GotoEffect DEF Inv
<1>3. \A t \in Sessions : roomID'[t] = IF t = s THEN r ELSE roomID[t]
  BY <1>1 DEF Inv, TypeInv, FieldsOK
<1>4. \A q, t : Listed(q, t)' <=> Listed(q, t)
  BY <1>1 DEF Listed
<1>5. \A q \in Rooms, t \in Sessions : Leaving(q, t)' => Leaving(q, t)
  BY <1>2 DEF Leaving
<1>6. Numbered'
  BY <1>1, <1>3, <1>4 DEF Inv, Entered, Numbered
<1>7. Flagged'
  BY <1>1, <1>4, <1>5 DEF Inv, Entered, Flagged
<1>8. Admitted'
  BY <1>1, <1>2, <1>4 DEF Inv, Entered, Admitted
<1>9. Unset'
  BY <1>2, <1>3 DEF Inv, Entered, Unset, TypeInv, RoomsOK
<1> QED BY <1>6, <1>7, <1>8, <1>9 DEF Entered

LEMMA DisconnectEntered ==
  ASSUME Inv, NEW r \in Rooms, LeaveDisconnect(r)
  PROVE  Entered'
<1> DEFINE s == room[r].s
<1>1. /\ s \in Sessions
      /\ UNCHANGED <<sock, roomID, roomUser, twins>>
      /\ connected' = [connected EXCEPT ![s] = FALSE]
      /\ GotoRoom(r, "remove")
  BY DEF LeaveDisconnect, At, envVars, Inv, TypeInv, RoomsOK
<1>2. /\ room'[r].s = s /\ room'[r].at = "remove"
      /\ \A q \in Rooms : q # r => room'[q] = room[q]
  BY <1>1, GotoEffect DEF Inv
<1>3. ~connected'[s] /\ \A t \in Sessions : t # s => connected'[t] = connected[t]
  BY <1>1 DEF Inv, TypeInv, FieldsOK
<1>4. \A q, t : Listed(q, t)' <=> Listed(q, t)
  BY <1>1 DEF Listed
<1>5. \A q \in Rooms, t \in Sessions : t # s /\ Leaving(q, t)' => Leaving(q, t)
  BY <1>2 DEF Leaving
<1>6. Numbered'
  BY <1>1, <1>4 DEF Inv, Entered, Numbered
<1>7. Flagged'
  BY <1>1, <1>3, <1>4, <1>5 DEF Inv, Entered, Flagged
<1>8. Admitted' /\ Unset'
  BY <1>1, <1>2, <1>4 DEF Inv, Entered, Admitted, Unset
<1> QED BY <1>6, <1>7, <1>8 DEF Entered

LEMMA UnsetEntered ==
  ASSUME Inv, NEW r \in Rooms, LeaveUnsetRoom(r)
  PROVE  Entered'
<1> DEFINE s == room[r].s
<1>1. /\ s \in Sessions
      /\ UNCHANGED <<sock, connected, roomUser, twins>>
      /\ roomID' = [roomID EXCEPT ![s] = NoRoom]
      /\ GotoRoom(r, "tell") /\ room[r].at = "remove"
  BY DEF LeaveUnsetRoom, At, envVars, Inv, TypeInv, RoomsOK
<1>2. /\ room'[r].s = s /\ room'[r].at = "tell"
      /\ \A q \in Rooms : q # r => room'[q] = room[q]
  BY <1>1, GotoEffect DEF Inv
<1>3. \A t \in Sessions : roomID'[t] = IF t = s THEN NoRoom ELSE roomID[t]
  BY <1>1 DEF Inv, TypeInv, FieldsOK
<1>4. \A q, t : Listed(q, t)' <=> Listed(q, t)
  BY <1>1 DEF Listed
<1>5. \A q \in Rooms, t \in Sessions : Leaving(q, t)' => Leaving(q, t)
  BY <1>1, <1>2 DEF Leaving
<1>6. Numbered'
  BY <1>1, <1>3, <1>4 DEF Inv, Entered, Numbered
<1>7. Flagged'
  BY <1>1, <1>4, <1>5 DEF Inv, Entered, Flagged
<1>8. Admitted'
  BY <1>1, <1>2, <1>4 DEF Inv, Entered, Admitted
<1>9. \A q \in Rooms : q # NoRoom
  BY LifeAssumption DEF NoRoom
<1>10. Unset'
  BY <1>1, <1>2, <1>3, <1>9 DEF Inv, Entered, Unset, TypeInv, RoomsOK
<1> QED BY <1>6, <1>7, <1>8, <1>10 DEF Entered

(* The one entry that goes is the session's own or that of a twin. *)
LEMMA UnlistEntered ==
  ASSUME Inv, NEW r \in Rooms, LeaveUnlist(r)
  PROVE  Entered'
<1> DEFINE s == room[r].s
<1>1. /\ s \in Sessions
      /\ UNCHANGED <<sock, roomID, connected, twins>>
      /\ roomUser' = [roomUser EXCEPT ![r][sock[s]] = None]
      /\ GotoRoom(r, "close") /\ room[r].at = "unlist"
  BY DEF LeaveUnlist, At, envVars, Inv, TypeInv, RoomsOK
<1>2. /\ room'[r].s = s /\ room'[r].at = "close"
      /\ \A q \in Rooms : q # r => room'[q] = room[q]
  BY <1>1, GotoEffect DEF Inv
<1>3. Held(s)
  BY <1>1 DEF Held
<1>4. \A q \in Rooms, h \in Handles : q # r \/ h # sock[s] => roomUser'[q][h] = roomUser[q][h]
  BY <1>1 DEF Inv, TypeInv, MapsOK
<1>5. ASSUME NEW q \in Rooms, NEW t \in Sessions, Listed(q, t)
      PROVE  Listed(q, t)' \/ t \in twins \/ (q = r /\ t = s)
  <2>1. Held(t) /\ sock[t] \in Handles
    BY <1>5, ListedHeld DEF Listed
  <2>2. CASE t # s /\ sock[t] = sock[s]
    BY <1>1, <1>3, <2>1, <2>2 DEF Inv, Shared
  <2>3. CASE q # r \/ sock[t] # sock[s]
    BY <1>1, <1>4, <1>5, <2>1, <2>3 DEF Listed
  <2> QED BY <2>2, <2>3
<1>6. \A q \in Rooms, t \in Sessions : Leaving(q, t)' => Leaving(q, t)
  BY <1>1, <1>2 DEF Leaving
<1>7. roomID[s] # r /\ Leaving(r, s)
  BY <1>1 DEF Inv, Entered, Unset, Leaving
<1>8. Numbered'
  BY <1>1, <1>5, <1>7 DEF Inv, Entered, Numbered, TypeInv, FieldsOK
<1>9. Flagged'
  BY <1>1, <1>5, <1>6, <1>7 DEF Inv, Entered, Flagged
<1>10. Admitted'
  <2> SUFFICES ASSUME NEW q \in Rooms, room'[q].at = "announce"
               PROVE  Listed(q, room[q].s)' \/ room'[q].s \in twins'
    BY <1>2 DEF Admitted, Listed
  <2>1. q # r /\ room'[q] = room[q] /\ room[q].s \in Sessions
    BY <1>2 DEF Inv, TypeInv, RoomsOK
  <2>2. PICK t \in Sessions : t = room[q].s
    BY <2>1
  <2>3. Listed(q, t) \/ t \in twins
    BY <2>1, <2>2 DEF Inv, Entered, Admitted
  <2>4. Listed(q, t)' \/ t \in twins
    BY <1>5, <2>1, <2>3
  <2> QED BY <1>1, <2>1, <2>2, <2>4 DEF Listed
<1>11. Unset'
  BY <1>1, <1>2 DEF Inv, Entered, Unset
<1> QED BY <1>8, <1>9, <1>10, <1>11 DEF Entered

LEMMA RoomEntered ==
  ASSUME Inv, NEW r \in Rooms, RoomStep(r) \/ Tick(r)
  PROVE  Entered'
<1>0. TypeInv /\ Entered
  BY DEF Inv
<1>1. CASE TakeJob(r)
  BY <1>0, <1>1, QuietEntered DEF TakeJob, TypeInv, RoomsOK, envVars
<1>2. CASE \/ BroadCast(r) \/ Move(r) \/ EnterCheck(r) \/ EnterRefuse(r) \/ EnterGreet(r)
           \/ LeaveCheck(r) \/ LeaveClose(r) \/ LeaveErase(r)
  <2>1. \/ Finish(r)
        \/ \E place \in {"admit", "disconnect", "close", "erase"} : GotoRoom(r, place)
    BY <1>2 DEF BroadCast, Move, EnterCheck, EnterRefuse, EnterGreet, LeaveCheck,
       LeaveClose, LeaveErase
  <2>2. /\ room'[r].at \notin {"announce", "remove", "tell", "unlist"}
        /\ \A q \in Rooms : q # r => room'[q] = room[q]
    BY <1>0, <2>1, GotoEffect, FinishEffect
  <2>3. UNCHANGED <<sock, roomID, connected, roomUser, twins>>
    BY <1>2 DEF BroadCast, Move, EnterCheck, EnterRefuse, EnterGreet, LeaveCheck,
       LeaveClose, LeaveErase, envVars
  <2> QED BY <1>0, <2>2, <2>3, QuietEntered
<1>3. CASE Tick(r)
  BY <1>0, <1>3, QuietEntered DEF Tick, envVars
<1>4. CASE LeaveTell(r)
  <2>1. /\ room'[r].s = room[r].s /\ room'[r].at = "unlist" /\ room[r].at = "tell"
        /\ \A q \in Rooms : q # r => room'[q] = room[q]
    BY <1>0, <1>4, GotoEffect DEF LeaveTell, At
  <2> QED BY <1>0, <1>4, <2>1, QuietEntered DEF LeaveTell, envVars
<1> QED BY <1>1, <1>2, <1>3, <1>4, InsertEntered, SetRoomEntered, DisconnectEntered,
       UnsetEntered, UnlistEntered DEF RoomStep

LEMMA EnteredStep ==
  ASSUME Inv, [Next]_vars
  PROVE  Entered'
<1>1. CASE \/ UNCHANGED vars
           \/ \E s \in Sessions, how \in {"fin", "rst"} : PeerLeaves(s, how)
  BY <1>1, QuietEntered DEF vars, envVars, PeerLeaves, Inv
<1> QED BY <1>1, WorkerEntered, RoomEntered, ConnectEntered DEF Next, Inv

LEMMA InvAlways ==
  Spec => []Inv
<1>1. Init => Inv
  BY InitTypes, InitSockets, InitShared, InitEntered DEF Inv
<1>2. Inv /\ [Next]_vars => Inv'
  BY StepTypes, SocketStep, SharedStep, EnteredStep DEF Inv
<1> QED BY <1>1, <1>2, PTL DEF Spec

LEMMA ListedIsMember ==
  ASSUME NEW r \in Rooms, NEW s \in Sessions, Listed(r, s)
  PROVE  s \in Members(r)
BY LifeAssumption DEF Listed, Members

(* A session has the number of a room only while that room lists it, whatever
   clients send, however many rooms there are and whichever SOCKETs are handed
   out again: a job is not routed to a room that does not know its session.
   The exception is a session whose SOCKET was given to another one, whose
   Leave finds and erases by SOCKET. *)
THEOREM RoomIDMatchesAlways == Spec => []RoomIDMatches
<1>1. Inv => RoomIDMatches
  BY ListedIsMember DEF Inv, Entered, Numbered, RoomIDMatches, TypeInv, FieldsOK
<1> QED BY <1>1, InvAlways, PTL

(* m_Connected is up only while some room lists the session and has not begun
   to remove it: no Enter is refused, and no Leave taken, by a flag left over. *)
THEOREM ConnectedIsMemberAlways == Spec => []ConnectedIsMember
<1>1. Inv => ConnectedIsMember
  BY ListedIsMember DEF Inv, Entered, Flagged, Leaving, Removing, ConnectedIsMember
<1> QED BY <1>1, InvAlways, PTL

=============================================================================
