-------------------------------- MODULE Room --------------------------------
(***************************************************************************)
(* One room: the jobs its thread dispatches (Enter, Leave, BroadCast,      *)
(* Move), the periodic tick of StartJob, the packets they make for the     *)
(* members, and what a client makes of the packets it gets.                *)
(*                                                                         *)
(* The thread owns all of m_roomUser and m_seqIDs, so a job is one step.   *)
(* Which jobs arrive in which order is RoomJobs' and SessionLife's         *)
(* subject: here any job may come for any session, members or not.  A      *)
(* session's chunks reach its client in order (FifoOutbox), so a client    *)
(* is given the packets of a job at once.  MakeSendPacket fails when the   *)
(* SendBuffer pool is exhausted, at any call, as often as its bound        *)
(* allows.                                                                 *)
(*                                                                         *)
(* Positions are points of a line, in the distance covered in one unit of  *)
(* the clock (MoveSpeed * 1000 is 1).                                      *)
(***************************************************************************)
EXTENDS Integers, Sequences, FiniteSets, SequencesExt

CONSTANTS
  Sessions,           \* SessionData objects
  SocketOf,           \* their SOCKETs; two may agree (see SessionLife)
  MaxRoomUserCount,   \* ids of a room
  MaxSendSpawnCount,  \* entries of a Server_Spawn
  MaxSendMoveCount,   \* entries of a Server_Move_Ack
  MinMoveTick,        \* clock units between two ticks
  MaxX,               \* positions are 0 .. m_MaxX - 1
  Limits,             \* the bounds, and the float spacings, considered: see
                      \* limit
  NoUser, Unknown     \* no RoomUser; a position a client was never told

ASSUME RoomAssumption ==
  /\ SocketOf \in [Sessions -> Nat]
  /\ MaxRoomUserCount \in Nat \ {0}
  /\ MaxSendSpawnCount \in Nat \ {0} /\ MaxSendMoveCount \in Nat \ {0}
  /\ MinMoveTick \in Nat \ {0} /\ MaxX \in Nat \ {0}
  /\ Limits \subseteq [grain : Nat \ {0}, clock : Nat, fails : Nat, joins : Nat,
                       moves : Nat]
  /\ Unknown \notin Int
  /\ IsFiniteSet(Sessions)
  /\ NoUser \notin [session : Sessions, seqID : Int, pos : Int, dest : Int,
                    isMove : BOOLEAN, start : Int, end : Int]

VARIABLES
  roomUser,  \* m_roomUser: SOCKET -> RoomUser, or NoUser
  seqIDs,    \* m_seqIDs
  connected, \* m_Connected and m_RoomID, which Enter and Leave set together
  clock,     \* GetTickCount64
  lastTick,  \* lastTick
  client,    \* what each client knows from its packets
  limit,     \* of this behaviour: the spacing of floats of the size of the
             \* clock, and the bounds on the clock, on packets that cannot be
             \* made, on members admitted and on MOVEs dispatched
  fails, joins, moves, \* counters for these bounds
  gap,       \* history: members that missed a membership packet
  untold,    \* history: members that stopped where no snapshot has said
  unmade     \* history: LEAVE packets that could not be made

told == <<client, gap>>
bounds == <<limit, joins, moves>>
vars == <<roomUser, seqIDs, connected, clock, lastTick, client, limit,
          fails, joins, moves, gap, untold, unmade>>

Keys      == {SocketOf[s] : s \in Sessions}
Ids       == 0 .. MaxRoomUserCount - 1
Positions == 0 .. MaxX - 1

(* The entries of m_roomUser, those of members other than s, and the keys of
   members in the order of the map. *)
Occupied  == {k \in Keys : roomUser[k] # NoUser}
Others(s) == {k \in Occupied : roomUser[k].session # s}
InMapOrder(K) == [n \in 1 .. Cardinality(K) |->
                    CHOOSE k \in K : Cardinality({j \in K : j <= k}) = n]
Members   == {roomUser[k].session : k \in Occupied}

-----------------------------------------------------------------------------
(* A client, as MoveTest.cpp keeps it. *)

NewClient == [entered |-> FALSE, seqID |-> 0, knows |-> {},
              at |-> [i \in Ids |-> Unknown]]

EnterAck(room, seqID) == [type |-> "ENTER", room |-> room, seqID |-> seqID]
Spawn(list)           == [type |-> "SPAWN", list |-> list]
LeaveNote(seqID)      == [type |-> "LEAVE", seqID |-> seqID]
MoveAck(list)         == [type |-> "MOVE", list |-> list]
Datum(u)              == [seqID |-> u.seqID, pos |-> u.pos]

IdsIn(list) == {list[j].seqID : j \in DOMAIN list}

(* The positions of a SPAWN or a MOVE replace the older ones. *)
Placed(at, list) ==
  [i \in Ids |-> IF \E j \in DOMAIN list : list[j].seqID = i
                 THEN (CHOOSE d \in ToSet(list) : d.seqID = i).pos
                 ELSE at[i]]

(* ParseClient: one whole packet.  BROADCAST and others change nothing.  (The
   test client counts LEAVEs; what it counts is here the set of ids.) *)
ParseClient(c, p) ==
  CASE p.type = "ENTER" ->
         [c EXCEPT !.entered = p.room >= 0, !.seqID = p.seqID]
    [] p.type = "SPAWN" ->
         [c EXCEPT !.knows = @ \cup IdsIn(p.list), !.at = Placed(@, p.list)]
    [] p.type = "LEAVE" ->
         [c EXCEPT !.knows = @ \ {p.seqID}, !.at[p.seqID] = Unknown]
    [] p.type = "MOVE"  -> [c EXCEPT !.at = Placed(@, p.list)]
    [] OTHER -> c

(* InsertSendQueue: packets go to the client of each session of K. *)
Received(c, packets) ==
  LET after[n \in 0 .. Len(packets)] ==
        IF n = 0 THEN c ELSE ParseClient(after[n - 1], packets[n])
  IN  after[Len(packets)]

SendTo(K, packets) ==
  [s \in Sessions |->
     IF \E k \in K : roomUser[k].session = s THEN Received(client[s], packets)
     ELSE client[s]]

-----------------------------------------------------------------------------
(* Packets of limited size.  `bad` holds the numbers of the calls of
   MakeSendPacket within a job that fail. *)

EmptyBatch(n) == [pack |-> <<>>, out |-> <<>>, tries |-> n, lost |-> {}]

(* Faulty variant: the entry that did not fit is forgotten. *)
AddSpawnDataForgets(b, d, bad) ==
  LET n == b.tries + 1
  IN  IF Len(b.pack) < MaxSendSpawnCount
      THEN [b EXCEPT !.pack = Append(@, d)]
      ELSE IF n \in bad
      THEN [b EXCEPT !.tries = n, !.lost = @ \cup {d}]
      ELSE [b EXCEPT !.pack = <<>>, !.out = Append(@, Spawn(b.pack)),
                     !.tries = n]

(* AddSpawnData in the loop of Enter.  A full packet is sent first; when it
   cannot be made it stays full, and this entry is given up. *)
AddSpawnData(b, d, bad) ==
  LET n == b.tries + 1
  IN  IF Len(b.pack) < MaxSendSpawnCount
      THEN [b EXCEPT !.pack = Append(@, d)]
      ELSE IF n \in bad
      THEN [b EXCEPT !.tries = n, !.lost = @ \cup {d}]
      ELSE [b EXCEPT !.pack = <<d>>, !.out = Append(@, Spawn(b.pack)),
                     !.tries = n]

(* Faulty variant: the entry that did not fit is forgotten. *)
AddMoveDataForgets(b, d, bad) ==
  LET n == b.tries + 1
  IN  IF Len(b.pack) < MaxSendMoveCount
      THEN [b EXCEPT !.pack = Append(@, d)]
      ELSE IF n \in bad
      THEN [b EXCEPT !.pack = <<>>, !.tries = n, !.lost = @ \cup ToSet(b.pack)]
      ELSE [b EXCEPT !.pack = <<>>, !.out = Append(@, MoveAck(b.pack)),
                     !.tries = n]

(* AddMoveData in MoveCheckUsers.  A full packet is sent and cleared, whether
   or not SendMoveData could make it. *)
AddMoveData(b, d, bad) ==
  LET n == b.tries + 1
  IN  IF Len(b.pack) < MaxSendMoveCount
      THEN [b EXCEPT !.pack = Append(@, d)]
      ELSE IF n \in bad
      THEN [b EXCEPT !.pack = <<d>>, !.tries = n, !.lost = @ \cup ToSet(b.pack)]
      ELSE [b EXCEPT !.pack = <<d>>, !.out = Append(@, MoveAck(b.pack)),
                     !.tries = n]

(* What is left in the packet after the loop. *)
LastBatch(b, packet, bad) ==
  LET n == b.tries + 1
  IN  IF b.pack = <<>> THEN b
      ELSE IF n \in bad
      THEN [b EXCEPT !.tries = n, !.lost = @ \cup ToSet(b.pack)]
      ELSE [b EXCEPT !.out = Append(@, packet), !.tries = n]

(* Room::Enter tells the newcomer of the members in K. *)
Greeting(K, bad) ==
  LET keys == InMapOrder(K)
      batch[n \in 0 .. Cardinality(K)] ==
        IF n = 0 THEN EmptyBatch(2)
        ELSE AddSpawnData(batch[n - 1], Datum(roomUser[keys[n]]), bad)
      b == batch[Cardinality(K)]
  IN  LastBatch(b, Spawn(b.pack), bad)

(* MoveCheckUsers tells everybody of the moving members in K. *)
Snapshot(users, K, bad) ==
  LET keys == InMapOrder(K)
      batch[n \in 0 .. Cardinality(K)] ==
        IF n = 0 THEN EmptyBatch(0)
        ELSE AddMoveData(batch[n - 1], Datum(users[keys[n]]), bad)
      b == batch[Cardinality(K)]
  IN  LastBatch(b, MoveAck(b.pack), bad)

(* What a MOVE may ask for, the edges of the map included: the handler takes any
   point. *)
MoveRequests == -1 .. MaxX

(* The calls of one job that fail: none once the bound is reached. *)
MaxTries == Cardinality(Sessions) + 2
Failures == UNION {kSubset(n, 1 .. MaxTries) : n \in 0 .. limit.fails - fails}
Count(bad, tries) == fails' = fails + Cardinality(bad \cap (1 .. tries))
-----------------------------------------------------------------------------
(* Movement. *)

(* RoomUser::Set on a fresh RoomUser: at the origin, at rest. *)
RoomUser(s, seqID) ==
  [session |-> s, seqID |-> seqID, pos |-> 0, dest |-> 0, isMove |-> FALSE,
   start |-> 0, end |-> 0]

Distance(x, y) == IF x < y THEN y - x ELSE x - y

(* x as a float: the nearest multiple of the spacing, the even one of two. *)
AsFloat(x) ==
  LET q == x \div limit.grain
      r == 2 * (x % limit.grain)
      down == r < limit.grain \/ (r = limit.grain /\ q % 2 = 0)
  IN  limit.grain * (IF down THEN q ELSE q + 1)

(* nowTick + ( dist / MoveSpeed ) * 1000 is a sum of floats. *)
EndTick(now, dist) == AsFloat(AsFloat(now) + dist)

(* The part a / b of the way d, towards zero. *)
PartOf(d, a, b) == IF d < 0 THEN -((-d * a) \div b) ELSE (d * a) \div b

(* Faulty variant: a user that arrives goes on moving. *)
MovePositionNeverStops(u, now) ==
  IF ~u.isMove THEN u
  ELSE IF u.end <= now THEN [u EXCEPT !.pos = u.dest, !.start = now]
  ELSE IF u.end <= u.start THEN [u EXCEPT !.isMove = FALSE]
  ELSE [u EXCEPT !.pos = @ + PartOf(u.dest - u.pos, now - u.start,
                                    u.end - u.start),
                 !.start = now]

(* MovePosition: where u is now.  Its tests of the end tick against the start
   tick come too late to matter: start never exceeds now. *)
MovePosition(u, now) ==
  IF ~u.isMove THEN u
  ELSE IF u.end <= now
  THEN [u EXCEPT !.pos = u.dest, !.start = now, !.isMove = FALSE]
  ELSE IF u.end <= u.start THEN [u EXCEPT !.isMove = FALSE]
  ELSE [u EXCEPT !.pos = @ + PartOf(u.dest - u.pos, now - u.start,
                                    u.end - u.start),
                 !.start = now]

(* Faulty variant: the way is measured from the last position computed. *)
MoveUserFromStale(u, x, now) ==
  LET dist == Distance(u.pos, x)
      v == MovePosition(u, now)
  IN  IF dist <= 0 THEN v
      ELSE [v EXCEPT !.isMove = TRUE, !.dest = x, !.start = now,
                     !.end = EndTick(now, dist)]

(* Room::Move on its RoomUser, after the checks. *)
MoveUser(u, x, now) ==
  LET v == MovePosition(u, now)
      dist == Distance(v.pos, x)
  IN  IF dist <= 0 THEN v
      ELSE [v EXCEPT !.isMove = TRUE, !.dest = x, !.start = now,
                     !.end = EndTick(now, dist)]

Init ==
  /\ roomUser = [k \in Keys |-> NoUser]
  /\ seqIDs = [i \in 1 .. MaxRoomUserCount |-> i - 1]
  /\ connected = [s \in Sessions |-> FALSE]
  /\ clock = 0
  /\ lastTick = 0
  /\ limit \in Limits
  /\ client = [s \in Sessions |-> NewClient]
  /\ fails = 0 /\ joins = 0 /\ moves = 0
  /\ gap = {}
  /\ untold = {}
  /\ unmade = 0

-----------------------------------------------------------------------------
(* Room::Enter, for a session that no room has.  With no id left the client
   is refused. *)
EnterFull(s) ==
  /\ ~connected[s]
  /\ seqIDs = <<>>
  /\ \E bad \in Failures :
        /\ client' = [client EXCEPT ![s] =
              IF 1 \in bad THEN @ ELSE ParseClient(@, EnterAck(-1, 0))]
        /\ Count(bad, 1)
  /\ UNCHANGED <<roomUser, seqIDs, connected, clock, lastTick, bounds, gap,
                 untold, unmade>>

(* Faulty variant: the id is not given back. *)
EnterNoPacketKeeps(s) ==
  /\ ~connected[s]
  /\ seqIDs # <<>>
  /\ \E bad \in Failures : bad \cap {1, 2} # {} /\ Count(bad, 2)
  /\ seqIDs' = Tail(seqIDs)
  /\ UNCHANGED <<roomUser, connected, clock, lastTick, bounds, told, untold, unmade>>

(* The answer or the spawn cannot be made: the id goes back. *)
EnterNoPacket(s) ==
  /\ ~connected[s]
  /\ seqIDs # <<>>
  /\ \E bad \in Failures : bad \cap {1, 2} # {} /\ Count(bad, 2)
  /\ seqIDs' = Append(Tail(seqIDs), Head(seqIDs))
  /\ UNCHANGED <<roomUser, connected, clock, lastTick, bounds, told, untold, unmade>>

(* m_roomUser has an entry under this SOCKET: the id goes back, unanswered. *)
EnterTaken(s) ==
  /\ ~connected[s]
  /\ seqIDs # <<>>
  /\ roomUser[SocketOf[s]] # NoUser
  /\ seqIDs' = Append(Tail(seqIDs), Head(seqIDs))
  /\ UNCHANGED <<roomUser, connected, clock, lastTick, bounds, told, fails,
                 untold, unmade>>

(* The session becomes a member, its client is answered and told of the
   members, one SPAWN tells the members of it. *)
Enter(s) ==
  LET key == SocketOf[s]
      u   == RoomUser(s, Head(seqIDs))
  IN  /\ ~connected[s]
      /\ seqIDs # <<>>
      /\ roomUser[key] = NoUser
      /\ \E bad \in Failures :
           LET greet == Greeting(Occupied, bad)
           IN  /\ bad \cap {1, 2} = {}
               /\ client' = [SendTo(Occupied, <<Spawn(<<Datum(u)>>)>>) EXCEPT
                    ![s] = Received(NewClient,
                                    <<EnterAck(0, u.seqID)>> \o greet.out)]
               /\ gap' = IF greet.lost = {} THEN gap ELSE gap \cup {s}
               /\ Count(bad, greet.tries)
      /\ roomUser' = [roomUser EXCEPT ![key] = u]
      /\ seqIDs' = Tail(seqIDs)
      /\ connected' = [connected EXCEPT ![s] = TRUE]
      /\ joins < limit.joins /\ joins' = joins + 1
      /\ UNCHANGED <<clock, lastTick, limit, moves, untold, unmade>>

(* Room::Leave, for a connected session: out of m_roomUser by its SOCKET, the
   others are told, the id goes back, and CloseSession ends the connection. *)
Leave(s) ==
  LET key == SocketOf[s]
      i   == roomUser[key].seqID
  IN  /\ connected[s]
      /\ connected' = [connected EXCEPT ![s] = FALSE]
      /\ untold' = untold \ {s}
      /\ IF roomUser[key] = NoUser
         THEN /\ client' = [client EXCEPT ![s] = NewClient]
              /\ UNCHANGED <<roomUser, seqIDs, gap, fails, unmade>>
         ELSE /\ roomUser' = [roomUser EXCEPT ![key] = NoUser]
              /\ \E bad \in Failures :
                   /\ Count(bad, 1)
                   /\ seqIDs' = IF 1 \in bad THEN seqIDs ELSE Append(seqIDs, i)
                   /\ unmade' = IF 1 \in bad THEN unmade + 1 ELSE unmade
                   /\ client' =
                        [SendTo(IF 1 \in bad THEN {} ELSE Others(s),
                                <<LeaveNote(i)>>) EXCEPT ![s] = NewClient]
                   /\ gap' = (IF 1 \in bad THEN gap \cup Members ELSE gap) \ {s}
      /\ UNCHANGED <<clock, lastTick, bounds>>

(* Room::BroadCast, member or not: to all the others. *)
BroadCast(s) ==
  /\ \E bad \in Failures :
       /\ Count(bad, 1)
       /\ client' = SendTo(IF 1 \in bad THEN {} ELSE Others(s),
                           <<[type |-> "BROADCAST"]>>)
  /\ UNCHANGED <<roomUser, seqIDs, connected, clock, lastTick, bounds, gap,
                 untold, unmade>>

(* Faulty variant: the edge of the map is taken for a point of it. *)
MoveToEdge(s, x) ==
  LET key == SocketOf[s]
      v   == MoveUser(roomUser[key], x, clock)
  IN  /\ EndTick(clock, MaxX - 1) + MinMoveTick - 1 <= limit.clock
      /\ connected[s]
      /\ 0 <= x /\ x <= MaxX
      /\ roomUser[key] # NoUser
      /\ roomUser' = [roomUser EXCEPT ![key] = v]
      /\ untold' = IF roomUser[key].isMove /\ ~v.isMove THEN untold \cup {s}
                   ELSE untold
      /\ moves < limit.moves /\ moves' = moves + 1
      /\ UNCHANGED <<seqIDs, connected, clock, lastTick, limit, joins, client,
                     fails, gap, unmade>>

(* Room::Move: a destination outside the map, or not finite, is not taken.  The
   bound on the clock leaves time to arrive. *)
Move(s, x) ==
  LET key == SocketOf[s]
      v   == MoveUser(roomUser[key], x, clock)
  IN  /\ EndTick(clock, MaxX - 1) + MinMoveTick - 1 <= limit.clock
      /\ connected[s]
      /\ 0 <= x /\ x < MaxX
      /\ roomUser[key] # NoUser
      /\ roomUser' = [roomUser EXCEPT ![key] = v]
      /\ untold' = IF roomUser[key].isMove /\ ~v.isMove THEN untold \cup {s}
                   ELSE untold
      /\ moves < limit.moves /\ moves' = moves + 1
      /\ UNCHANGED <<seqIDs, connected, clock, lastTick, limit, joins, client,
                     fails, gap, unmade>>

(* StartJob looks at the clock after every batch of jobs. *)
TickIsDue ==
  /\ lastTick + MinMoveTick <= clock
  /\ lastTick' = clock

(* Its tick: MoveCheckUsers, and SendMoveData in it. *)
Tick ==
  LET moving == {k \in Occupied : roomUser[k].isMove}
      users  == [k \in Keys |-> IF k \in moving
                                THEN MovePosition(roomUser[k], clock)
                                ELSE roomUser[k]]
  IN  /\ TickIsDue
      /\ roomUser' = users
      /\ \E bad \in Failures :
           LET snap == Snapshot(users, moving, bad)
               Unsaid(k) == Datum(users[k]) \in snap.lost
           IN  /\ client' = SendTo(Occupied, snap.out)
               /\ Count(bad, snap.tries)
               /\ untold' = (untold \ {users[k].session : k \in moving}) \cup
                             {users[k].session : k \in {m \in moving : Unsaid(m)}}
      /\ UNCHANGED <<seqIDs, connected, clock, bounds, gap, unmade>>

Elapse ==
  /\ clock < limit.clock
  /\ clock' = clock + 1
  /\ UNCHANGED <<roomUser, seqIDs, connected, lastTick, bounds, told, fails,
                 untold, unmade>>

Next ==
  \/ \E s \in Sessions :
       \/ EnterFull(s)
       \/ EnterNoPacket(s)
       \/ EnterTaken(s)
       \/ Enter(s)
       \/ Leave(s)
       \/ BroadCast(s)
       \/ \E x \in MoveRequests : Move(s, x)
  \/ Tick
  \/ Elapse

Spec == Init /\ [][Next]_vars

(* The room thread never stops to look at its clock (the wait of PopAll has a
   timeout), and time goes on.  Tick is the only step that TickIsDue allows,
   and possible whenever it is. *)
FairSpec == Spec /\ WF_lastTick(TickIsDue) /\ WF_clock(Elapse)

-----------------------------------------------------------------------------
Users == [session : Sessions, seqID : Ids, pos : Positions, dest : Positions,
          isMove : BOOLEAN, start : Nat, end : Nat]

Clients == [entered : BOOLEAN, seqID : Ids, knows : SUBSET Ids,
            at : [Ids -> Positions \cup {Unknown}]]

TypeOK ==
  /\ roomUser \in [Keys -> Users \cup {NoUser}]
  /\ seqIDs \in Seq(Ids)
  /\ connected \in [Sessions -> BOOLEAN]
  /\ clock \in 0 .. limit.clock /\ lastTick \in 0 .. clock
  /\ limit \in Limits
  /\ client \in [Sessions -> Clients]
  /\ fails \in 0 .. limit.fails
  /\ joins \in 0 .. limit.joins /\ moves \in 0 .. limit.moves
  /\ gap \subseteq Sessions /\ untold \subseteq Sessions
  /\ unmade \in Nat

(* A free id is free once and nobody has it, two members never share one, so
   newcomers and members are never taken for each other.  And one id is missing
   for every LEAVE that could not be made (Room.cpp:183), none for anything
   else: not for an ENTER whose packets could not be made (:142), nor for a
   SOCKET that is taken (:136). *)
Free == ToSet(seqIDs)
Used == {roomUser[k].seqID : k \in Occupied}

SeqIDsKept ==
  /\ Len(seqIDs) = Cardinality(Free)
  /\ Cardinality(Used) = Cardinality(Occupied)
  /\ Free \cap Used = {}
  /\ Len(seqIDs) + Cardinality(Occupied) = MaxRoomUserCount - unmade

(* README.md:289: ticks only tell where somebody is, time decides it.  So at
   every moment the distance left is the time left, whenever and however often
   ticks and requests have moved the position, up to the rounding of the end
   tick, and nobody is set out from the future. *)
OnCourse ==
  \A k \in Occupied :
    LET u == roomUser[k]
    IN  /\ u.session \in Sessions /\ SocketOf[u.session] = k
        /\ u.isMove =>
             /\ u.start <= clock
             /\ Distance(Distance(u.pos, u.dest), u.end - u.start) <=
                  IF limit.grain = 1 THEN 0 ELSE limit.grain

(* Where a member has stopped is known to every client that missed nothing,
   through the SPAWN it got when it entered or through the last snapshot; not
   so when that snapshot could not be made, or when the member stopped inside
   Room::Move, which makes none (Room.cpp:256-266). *)
StoppedIsKnown ==
  \A j, k \in Occupied :
    LET u == roomUser[k]
        c == roomUser[j].session
    IN  (j # k /\ ~u.isMove /\ c \notin gap /\ u.session \notin untold)
        => client[c].at[u.seqID] = u.pos

(* Membership as the clients see it. *)
View == INSTANCE RoomView WITH
  NoId <- -1,
  member <- [s \in Sessions |-> IF connected[s] THEN client[s].seqID ELSE -1],
  knows <- [s \in Sessions |-> client[s].knows],
  gap <- gap,
  retired <- Ids \ (Free \cup Used)

(* The room implements RoomView: a client that was told it is in knows the
   other members by their ids, exactly, unless packets failed. *)
ImplementsView == View!ViewSpec

(* TestClient/RESULTS.md:1068-1070: the tick once fell behind when a room was
   busy.  No move lasts for ever, however many jobs are dispatched between the
   ticks and however often others change their minds: again and again a member
   is at rest at its destination, unless MOVEs give it a new end tick again and
   again, or has left. *)
AtRest(k) == ~roomUser[k].isMove /\ roomUser[k].pos = roomUser[k].dest

Overtaken(k) == roomUser[k] # NoUser /\ roomUser'[k] # NoUser
                  /\ roomUser'[k].end # roomUser[k].end

MoversArrive ==
  \A k \in Keys : \/ []<>(roomUser[k] = NoUser \/ AtRest(k))
                  \/ []<><<Overtaken(k)>>_roomUser
=============================================================================
