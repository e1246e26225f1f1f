----------------------------- MODULE RoomProofs -----------------------------
(***************************************************************************)
(* A room, proved for any number of sessions, SOCKETs and ids, any bounds  *)
(* and any packets that cannot be made, in five parts.                     *)
(*   - Ids: an id is free once or has one member, and is missing only for  *)
(*     a LEAVE that nobody was told.                                       *)
(*   - Movement: the distance left is the time left, up to the rounding of *)
(*     the end tick, however coarse.                                       *)
(*   - Packets: what a client makes of a sequence of packets (Received),   *)
(*     and what the batches of Enter and of the tick carry (Greeting,      *)
(*     Snapshot), each by a trace of its loop.                             *)
(*   - What each job does to members, entries and clients (Entered, Left,  *)
(*     Moved, Ticked), and from it TypeOK and StoppedIsKnown.              *)
(*   - The room implements RoomView, and RoomView keeps its promise.       *)
(***************************************************************************)
EXTENDS Room, SeqLemmas, FiniteSetTheorems, TLAPS

(* Entries of m_roomUser, whatever a position or a tick may be. *)
Entries == [session : Sessions, seqID : Int, pos : Int, dest : Int,
            isMove : BOOLEAN, start : Int, end : Int]

Typed ==
  /\ roomUser \in [Keys -> Entries \cup {NoUser}]
  /\ seqIDs \in Seq(Ids)
  /\ clock \in Int
  /\ limit \in Limits
  /\ unmade \in Nat

Distinct ==
  /\ \A k \in Occupied : roomUser[k].seqID \in Ids
  /\ \A i, j \in 1 .. Len(seqIDs) : seqIDs[i] = seqIDs[j] => i = j
  /\ \A j, k \in Occupied : roomUser[j].seqID = roomUser[k].seqID => j = k
  /\ \A k \in Occupied : \A i \in 1 .. Len(seqIDs) : seqIDs[i] # roomUser[k].seqID

Enough == Len(seqIDs) + Cardinality(Occupied) = MaxRoomUserCount - unmade

IdInv == Typed /\ Distinct /\ Enough

-----------------------------------------------------------------------------
(* Sets of keys are finite. *)
LEMMA KeysFinite == IsFiniteSet(Keys)
<1>1. PICK f : f = [s \in Sessions |-> SocketOf[s]]
  OBVIOUS
<1>2. f \in Surjection(Sessions, Keys)
  BY <1>1 DEF Keys, Surjection
<1>3. IsFiniteSet(Sessions)
  BY RoomAssumption
<1> QED BY <1>2, <1>3, FS_Surjection

LEMMA OccupiedFinite ==
  /\ IsFiniteSet(Occupied) /\ Cardinality(Occupied) \in Nat
  /\ Occupied \subseteq Keys
<1>1. Occupied \in SUBSET Keys
  BY DEF Occupied
<1>2. IsFiniteSet(Occupied)
  BY <1>1, KeysFinite, FS_Subset
<1> QED BY <1>1, <1>2, FS_CardinalityType

-----------------------------------------------------------------------------
(* Moving changes neither the session of an entry nor its id. *)
LEMMA NotUser ==
  ASSUME NEW u \in Entries PROVE u # NoUser
BY RoomAssumption DEF Entries

LEMMA PartType ==
  ASSUME NEW d \in Int, NEW a \in Int, NEW b \in Nat \ {0}
  PROVE  PartOf(d, a, b) \in Int
<1>1. d * a \in Int /\ -d * a \in Int
  OBVIOUS
<1>2. (d * a) \div b \in Int /\ (-d * a) \div b \in Int
  BY <1>1
<1>3. -((-d * a) \div b) \in Int
  BY <1>2
<1> QED BY <1>2, <1>3 DEF PartOf

LEMMA MovePositionKeeps ==
  ASSUME NEW u \in Entries, NEW now \in Int
  PROVE  /\ MovePosition(u, now) \in Entries
         /\ MovePosition(u, now).seqID = u.seqID
         /\ MovePosition(u, now).session = u.session
<1>1. /\ u.pos \in Int /\ u.dest \in Int /\ u.start \in Int /\ u.end \in Int
      /\ u.isMove \in BOOLEAN
  BY DEF Entries
<1>2. CASE ~u.isMove
  BY <1>2 DEF MovePosition
<1>3. CASE u.isMove /\ u.end <= now
  <2>1. MovePosition(u, now) = [u EXCEPT !.pos = u.dest, !.start = now, !.isMove = FALSE]
    BY <1>3 DEF MovePosition
  <2> QED BY <1>1, <2>1 DEF Entries
<1>4. CASE u.isMove /\ ~(u.end <= now) /\ u.end <= u.start
  <2>1. MovePosition(u, now) = [u EXCEPT !.isMove = FALSE]
    BY <1>4 DEF MovePosition
  <2> QED BY <1>1, <2>1 DEF Entries
<1>5. CASE u.isMove /\ ~(u.end <= now) /\ ~(u.end <= u.start)
  <2>1. PICK q : q = PartOf(u.dest - u.pos, now - u.start, u.end - u.start)
    OBVIOUS
  <2>2. /\ u.dest - u.pos \in Int /\ now - u.start \in Int
        /\ u.end - u.start \in Nat \ {0}
    BY <1>1, <1>5
  <2>3. q \in Int
    BY <2>1, <2>2, PartType
  <2>4. MovePosition(u, now) = [u EXCEPT !.pos = u.pos + q, !.start = now]
    BY <1>5, <2>1 DEF MovePosition
  <2>5. PICK z : z = u.pos + q
    OBVIOUS
  <2>6. z \in Int
    BY <1>1, <2>3, <2>5
  <2>7. MovePosition(u, now) = [u EXCEPT !.pos = z, !.start = now]
    BY <2>4, <2>5
  <2> QED BY <2>6, <2>7 DEF Entries
<1> QED BY <1>1, <1>2, <1>3, <1>4, <1>5

LEMMA FloatType ==
  ASSUME Typed, NEW x \in Int PROVE AsFloat(x) \in Int
<1>1. limit.grain \in Nat \ {0}
  BY RoomAssumption DEF Typed
<1>2. x \div limit.grain \in Int
  BY <1>1
<1> DEFINE q == x \div limit.grain
           down == \/ 2 * (x % limit.grain) < limit.grain
                   \/ (2 * (x % limit.grain) = limit.grain /\ q % 2 = 0)
<1>3. AsFloat(x) = limit.grain * (IF down THEN q ELSE q + 1)
  BY DEF AsFloat
<1> HIDE DEF down
<1>4. limit.grain * q \in Int /\ limit.grain * (q + 1) \in Int
  BY <1>1, <1>2
<1> QED BY <1>3, <1>4

LEMMA MoveUserKeeps ==
  ASSUME Typed, NEW u \in Entries, NEW x \in Int, NEW now \in Int
  PROVE  /\ MoveUser(u, x, now) \in Entries
         /\ MoveUser(u, x, now).seqID = u.seqID
         /\ MoveUser(u, x, now).session = u.session
<1>1. PICK v : v = MovePosition(u, now)
  OBVIOUS
<1>2. v \in Entries /\ v.seqID = u.seqID /\ v.session = u.session
  BY <1>1, MovePositionKeeps
<1>3. PICK e : e = EndTick(now, Distance(v.pos, x))
  OBVIOUS
<1>4. e \in Int
  <2>1. Distance(v.pos, x) \in Int
    BY <1>2 DEF Distance, Entries
  <2>2. AsFloat(now) + Distance(v.pos, x) \in Int
    BY <2>1, FloatType
  <2> QED BY <1>3, <2>2, FloatType DEF EndTick
<1>5. MoveUser(u, x, now) \in
        {v, [v EXCEPT !.isMove = TRUE, !.dest = x, !.start = now, !.end = e]}
  BY <1>1, <1>3 DEF MoveUser
<1>6. PICK w : w = [v EXCEPT !.isMove = TRUE, !.dest = x, !.start = now, !.end = e]
  OBVIOUS
<1>7. w \in Entries /\ w.seqID = u.seqID /\ w.session = u.session
  BY <1>2, <1>4, <1>6 DEF Entries
<1> QED BY <1>2, <1>5, <1>6, <1>7

-----------------------------------------------------------------------------
(* Steps that leave the ids where they are. *)
LEMMA SameIds ==
  ASSUME IdInv, Typed', seqIDs' = seqIDs, Occupied' = Occupied,
         \A k \in Occupied : roomUser'[k].seqID = roomUser[k].seqID,
         unmade' = unmade
  PROVE  IdInv'
<1>1. Typed /\ Distinct /\ Enough
  BY DEF IdInv
<1>2. Distinct'
  BY <1>1 DEF Distinct
<1>3. Enough'
  BY <1>1 DEF Enough
<1> QED BY <1>2, <1>3 DEF IdInv

(* An id is taken off the front and given back. *)
LEMMA GivenBack ==
  ASSUME IdInv, seqIDs # <<>>, seqIDs' = Append(Tail(seqIDs), Head(seqIDs)),
         roomUser' = roomUser, limit' = limit, clock' = clock, unmade' = unmade
  PROVE  IdInv'
<1>1. Typed /\ Distinct /\ Enough
  BY DEF IdInv
<1>2. PICK t : t = Tail(seqIDs)
  OBVIOUS
<1>3. PICK h : h = Head(seqIDs)
  OBVIOUS
<1>4. /\ seqIDs \in Seq(Ids) /\ h \in Ids /\ t \in Seq(Ids)
      /\ Len(t) = Len(seqIDs) - 1
      /\ \A i \in 1 .. Len(t) : t[i] = seqIDs[i + 1]
      /\ h = seqIDs[1]
  BY <1>1, <1>2, <1>3, HeadTailProperties DEF Typed
<1>5. Len(seqIDs) \in Nat /\ Len(t) \in Nat
  BY <1>4, LenProperties
<1>6. /\ seqIDs' \in Seq(Ids) /\ Len(seqIDs') = Len(seqIDs)
      /\ \A i \in 1 .. Len(t) : seqIDs'[i] = seqIDs[i + 1]
      /\ seqIDs'[Len(seqIDs)] = seqIDs[1]
  BY <1>2, <1>3, <1>4, <1>5, AppendProperties
<1>7. PICK old : old = [i \in 1 .. Len(seqIDs) |-> IF i = Len(seqIDs) THEN 1 ELSE i + 1]
  OBVIOUS
<1>8. \A i \in 1 .. Len(seqIDs) :
        old[i] \in 1 .. Len(seqIDs) /\ seqIDs'[i] = seqIDs[old[i]]
  <2> TAKE i \in 1 .. Len(seqIDs)
  <2>1. CASE i = Len(seqIDs)
    <3>1. old[i] = 1 /\ 1 \in 1 .. Len(seqIDs)
      BY <1>5, <1>7, <2>1
    <3> QED BY <1>6, <2>1, <3>1
  <2>2. CASE i # Len(seqIDs)
    <3>1. i \in 1 .. Len(t) /\ i + 1 \in 1 .. Len(seqIDs)
      BY <1>4, <1>5, <2>2
    <3> QED BY <1>6, <1>7, <2>2, <3>1
  <2> QED BY <2>1, <2>2
<1>9. \A i, j \in 1 .. Len(seqIDs) : old[i] = old[j] => i = j
  BY <1>5, <1>7
<1>10. Occupied' = Occupied
  BY DEF Occupied
<1>11. Typed'
  BY <1>1, <1>6 DEF Typed
<1>12. Distinct'
  <2>1. \A i, j \in 1 .. Len(seqIDs) : seqIDs'[i] = seqIDs'[j] => i = j
    <3> TAKE i, j \in 1 .. Len(seqIDs)
    <3> HAVE seqIDs'[i] = seqIDs'[j]
    <3>1. seqIDs[old[i]] = seqIDs[old[j]] /\ old[i] \in 1 .. Len(seqIDs)
          /\ old[j] \in 1 .. Len(seqIDs)
      BY <1>8
    <3>2. old[i] = old[j]
      BY <1>1, <3>1 DEF Distinct
    <3> QED BY <1>9, <3>2
  <2>2. \A k \in Occupied : \A i \in 1 .. Len(seqIDs) : seqIDs'[i] # roomUser[k].seqID
    BY <1>1, <1>8 DEF Distinct
  <2>3. \A k \in Occupied : roomUser[k].seqID \in Ids
    BY <1>1 DEF Distinct
  <2>4. \A j, k \in Occupied : roomUser[j].seqID = roomUser[k].seqID => j = k
    BY <1>1 DEF Distinct
  <2>5. \A k \in Occupied' : roomUser'[k].seqID \in Ids
    BY <1>10, <2>3
  <2>6. \A j, k \in Occupied' : roomUser'[j].seqID = roomUser'[k].seqID => j = k
    BY <1>10, <2>4
  <2>7. \A i, j \in 1 .. Len(seqIDs') : seqIDs'[i] = seqIDs'[j] => i = j
    BY <1>6, <2>1
  <2>8. \A k \in Occupied' : \A i \in 1 .. Len(seqIDs') : seqIDs'[i] # roomUser'[k].seqID
    BY <1>6, <1>10, <2>2
  <2> QED BY <2>5, <2>6, <2>7, <2>8 DEF Distinct, Ids
<1>13. Enough'
  BY <1>1, <1>6, <1>10 DEF Enough
<1> QED BY <1>11, <1>12, <1>13 DEF IdInv

(* s becomes a member under the id at the front. *)
LEMMA EnterIds ==
  ASSUME IdInv, NEW s \in Sessions, Enter(s)
  PROVE  IdInv'
<1>1. Typed /\ Distinct /\ Enough
  BY DEF IdInv
<1>2. PICK key : key = SocketOf[s]
  OBVIOUS
<1>3. PICK h : h = Head(seqIDs)
  OBVIOUS
<1>4. PICK t : t = Tail(seqIDs)
  OBVIOUS
<1>5. PICK u : u = RoomUser(s, h)
  OBVIOUS
<1>6. /\ seqIDs # <<>> /\ roomUser[key] = NoUser
      /\ roomUser' = [roomUser EXCEPT ![key] = u]
      /\ seqIDs' = t /\ limit' = limit /\ clock' = clock
  BY <1>2, <1>3, <1>4, <1>5 DEF Enter
<1>7. unmade' = unmade
  BY DEF Enter
<1>8. /\ seqIDs \in Seq(Ids) /\ h \in Ids /\ t \in Seq(Ids)
      /\ Len(t) = Len(seqIDs) - 1
      /\ \A i \in 1 .. Len(t) : t[i] = seqIDs[i + 1]
      /\ h = seqIDs[1]
  BY <1>1, <1>3, <1>4, <1>6, HeadTailProperties DEF Typed
<1>9. Len(seqIDs) \in Nat /\ Len(t) \in Nat
  BY <1>8, LenProperties
<1>10. h \in Int /\ MaxRoomUserCount \in Nat
  BY <1>8, RoomAssumption DEF Ids
<1>11. u \in Entries /\ u.seqID = h
  BY <1>5, <1>10 DEF RoomUser, Entries
<1>12. key \in Keys /\ key \notin Occupied
  BY <1>2, <1>6 DEF Keys, Occupied
<1>13. /\ roomUser \in [Keys -> Entries \cup {NoUser}]
       /\ roomUser' \in [Keys -> Entries \cup {NoUser}]
       /\ roomUser'[key] = u
       /\ \A k \in Keys : k # key => roomUser'[k] = roomUser[k]
  BY <1>1, <1>6, <1>11, <1>12 DEF Typed
<1>14. Occupied' = Occupied \cup {key}
  <2>1. u # NoUser
    BY <1>11, NotUser
  <2>2. \A k \in Keys : roomUser'[k] # NoUser <=> k \in Occupied \cup {key}
    BY <1>13, <2>1 DEF Occupied
  <2> QED BY <1>12, <2>2 DEF Occupied
<1>15. Typed'
  BY <1>1, <1>6, <1>7, <1>8, <1>13 DEF Typed
<1>16. \A i \in 1 .. Len(t) : i + 1 \in 1 .. Len(seqIDs) /\ t[i] = seqIDs[i + 1]
  BY <1>8, <1>9
<1>17. 1 \in 1 .. Len(seqIDs)
  BY <1>8, <1>9
<1>18. \A k \in Occupied : roomUser'[k] = roomUser[k]
  BY <1>12, <1>13 DEF Occupied
<1>19. \A k \in Occupied' : roomUser'[k].seqID \in Ids
  BY <1>1, <1>8, <1>11, <1>13, <1>14, <1>18 DEF Distinct
<1>20. \A i, j \in 1 .. Len(t) : t[i] = t[j] => i = j
  <2> TAKE i, j \in 1 .. Len(t)
  <2> HAVE t[i] = t[j]
  <2>1. i + 1 = j + 1
    BY <1>1, <1>16 DEF Distinct
  <2> QED BY <1>9, <2>1
<1>21. \A k \in Occupied : roomUser[k].seqID # h
  BY <1>1, <1>8, <1>17 DEF Distinct
<1>22. \A j, k \in Occupied' : roomUser'[j].seqID = roomUser'[k].seqID => j = k
  BY <1>1, <1>11, <1>13, <1>14, <1>18, <1>21 DEF Distinct
<1>23. \A k \in Occupied' : \A i \in 1 .. Len(t) : t[i] # roomUser'[k].seqID
  <2> TAKE k \in Occupied'
  <2> TAKE i \in 1 .. Len(t)
  <2>1. CASE k = key
    <3>1. i + 1 # 1
      BY <1>9
    <3>2. t[i] # h
      BY <1>1, <1>8, <1>16, <1>17, <3>1 DEF Distinct
    <3> QED BY <1>11, <1>13, <2>1, <3>2
  <2>2. CASE k \in Occupied
    BY <1>1, <1>16, <1>18, <2>2 DEF Distinct
  <2> QED BY <1>14, <2>1, <2>2
<1>24. Distinct'
  BY <1>6, <1>19, <1>20, <1>22, <1>23 DEF Distinct, Ids
<1>25. Enough'
  <2>1. /\ IsFiniteSet(Occupied) /\ Cardinality(Occupied) \in Nat
    BY OccupiedFinite
  <2>2. Cardinality(Occupied \cup {key}) = Cardinality(Occupied) + 1
    BY <1>12, <2>1, FS_AddElement
  <2>3. Cardinality(Occupied)' = Cardinality(Occupied) + 1
    BY <1>14, <2>2
  <2>4. Len(seqIDs)' = Len(seqIDs) - 1
    BY <1>6, <1>8
  <2>5. unmade \in Nat
    BY <1>1 DEF Typed
  <2> QED BY <1>1, <1>7, <1>9, <1>10, <2>1, <2>3, <2>4, <2>5 DEF Enough
<1> QED BY <1>15, <1>24, <1>25 DEF IdInv

(* The entry under key is erased.  Its id goes to the back, or is given up with
   a LEAVE that could not be made. *)
LEMMA ErasedIds ==
  ASSUME IdInv, NEW key \in Keys, roomUser[key] # NoUser,
         NEW given, given \in BOOLEAN,
         roomUser' = [roomUser EXCEPT ![key] = NoUser],
         seqIDs' = IF given THEN Append(seqIDs, roomUser[key].seqID) ELSE seqIDs,
         limit' = limit, clock' = clock,
         unmade' = IF given THEN unmade ELSE unmade + 1
  PROVE  IdInv'
<1>1. Typed /\ Distinct /\ Enough
  BY DEF IdInv
<1>2. PICK i0 : i0 = roomUser[key].seqID
  OBVIOUS
<1>3. key \in Occupied
  BY DEF Occupied
<1>4. i0 \in Ids /\ seqIDs \in Seq(Ids) /\ Len(seqIDs) \in Nat
  BY <1>1, <1>2, <1>3, LenProperties DEF Distinct, Typed
<1>5. /\ roomUser' \in [Keys -> Entries \cup {NoUser}]
      /\ roomUser'[key] = NoUser
      /\ \A k \in Keys : k # key => roomUser'[k] = roomUser[k]
  BY <1>1 DEF Typed
<1>6. Occupied' = Occupied \ {key}
  <2>1. \A k \in Keys : roomUser'[k] # NoUser <=> k \in Occupied \ {key}
    BY <1>5 DEF Occupied
  <2> QED BY <2>1 DEF Occupied
<1>7. \A k \in Occupied' : k \in Occupied /\ roomUser'[k] = roomUser[k]
                           /\ roomUser[k].seqID # i0
  BY <1>1, <1>2, <1>3, <1>5, <1>6 DEF Distinct, Occupied
<1>8. /\ \A k \in Occupied' : roomUser'[k].seqID \in Ids
      /\ \A j, k \in Occupied' : roomUser'[j].seqID = roomUser'[k].seqID => j = k
  BY <1>1, <1>7 DEF Distinct
<1>9. /\ IsFiniteSet(Occupied) /\ Cardinality(Occupied) \in Nat
      /\ Cardinality(Occupied)' = Cardinality(Occupied) - 1
  BY <1>3, <1>6, OccupiedFinite, FS_RemoveElement
<1>10. MaxRoomUserCount \in Nat /\ unmade \in Nat
  BY <1>1, RoomAssumption DEF Typed
<1>11. CASE given
  <2>1. /\ seqIDs' \in Seq(Ids) /\ Len(seqIDs') = Len(seqIDs) + 1
        /\ \A i \in 1 .. Len(seqIDs) : seqIDs'[i] = seqIDs[i]
        /\ seqIDs'[Len(seqIDs) + 1] = i0
    BY <1>2, <1>4, <1>11, AppendProperties
  <2>2. \A i \in 1 .. Len(seqIDs') : i \in 1 .. Len(seqIDs) \/ i = Len(seqIDs) + 1
    BY <1>4, <2>1
  <2>3. \A i \in 1 .. Len(seqIDs) : seqIDs[i] # i0
    BY <1>1, <1>2, <1>3 DEF Distinct
  <2>4. \A i, j \in 1 .. Len(seqIDs') : seqIDs'[i] = seqIDs'[j] => i = j
    BY <1>1, <2>1, <2>2, <2>3 DEF Distinct
  <2>5. \A k \in Occupied' : \A i \in 1 .. Len(seqIDs') : seqIDs'[i] # roomUser'[k].seqID
    BY <1>1, <1>7, <2>1, <2>2 DEF Distinct
  <2>6. Distinct'
    BY <1>8, <2>4, <2>5 DEF Distinct, Ids
  <2>7. Enough'
    <3>1. unmade' = unmade
      BY <1>11
    <3> QED BY <1>1, <1>4, <1>9, <1>10, <2>1, <3>1 DEF Enough
  <2>8. Typed'
    BY <1>1, <1>5, <1>11, <2>1 DEF Typed
  <2> QED BY <2>6, <2>7, <2>8 DEF IdInv
<1>12. CASE ~given
  <2>1. seqIDs' = seqIDs
    BY <1>12
  <2>2. \A i, j \in 1 .. Len(seqIDs') : seqIDs'[i] = seqIDs'[j] => i = j
    BY <1>1, <2>1 DEF Distinct
  <2>3. \A k \in Occupied' : \A i \in 1 .. Len(seqIDs') : seqIDs'[i] # roomUser'[k].seqID
    BY <1>1, <1>7, <2>1 DEF Distinct
  <2>4. Distinct'
    BY <1>8, <2>2, <2>3 DEF Distinct, Ids
  <2>5. Enough'
    <3>1. unmade' = unmade + 1
      BY <1>12
    <3> QED BY <1>1, <1>4, <1>9, <1>10, <2>1, <3>1 DEF Enough
  <2>6. Typed'
    BY <1>1, <1>5, <1>10, <1>12, <2>1 DEF Typed
  <2> QED BY <2>4, <2>5, <2>6 DEF IdInv
<1> QED BY <1>11, <1>12

LEMMA LeaveIds ==
  ASSUME IdInv, NEW s \in Sessions, Leave(s)
  PROVE  IdInv'
<1>1. Typed /\ limit' = limit /\ clock' = clock
  BY DEF IdInv, Leave, bounds
<1>2. PICK key : key = SocketOf[s]
  OBVIOUS
<1>3. key \in Keys
  BY <1>2 DEF Keys
<1>4. CASE roomUser[key] = NoUser
  <2>1. UNCHANGED <<roomUser, seqIDs, unmade>>
    BY <1>2, <1>4 DEF Leave
  <2>2. Typed' /\ Occupied' = Occupied
    BY <1>1, <2>1 DEF Typed, Occupied
  <2> QED BY <2>1, <2>2, SameIds
<1>5. CASE roomUser[key] # NoUser
  <2>1. roomUser' = [roomUser EXCEPT ![key] = NoUser]
    BY <1>2, <1>5 DEF Leave
  <2>2. PICK given \in BOOLEAN :
           /\ seqIDs' = IF given THEN Append(seqIDs, roomUser[key].seqID) ELSE seqIDs
           /\ unmade' = IF given THEN unmade ELSE unmade + 1
    <3>1. PICK bad \in Failures :
             /\ seqIDs' = IF 1 \in bad THEN seqIDs
                          ELSE Append(seqIDs, roomUser[key].seqID)
             /\ unmade' = IF 1 \in bad THEN unmade + 1 ELSE unmade
      BY <1>2, <1>5 DEF Leave
    <3>2. CASE 1 \in bad
      BY <3>1, <3>2
    <3>3. CASE 1 \notin bad
      BY <3>1, <3>3
    <3> QED BY <3>2, <3>3
  <2> QED BY <1>1, <1>3, <1>5, <2>1, <2>2, ErasedIds
<1> QED BY <1>4, <1>5

LEMMA MoveIds ==
  ASSUME IdInv, NEW s \in Sessions, NEW x \in MoveRequests, Move(s, x)
  PROVE  IdInv'
<1>1. Typed
  BY DEF IdInv
<1>2. PICK key : key = SocketOf[s]
  OBVIOUS
<1>3. PICK v : v = MoveUser(roomUser[key], x, clock)
  OBVIOUS
<1>4. /\ roomUser[key] # NoUser
      /\ roomUser' = [roomUser EXCEPT ![key] = v]
      /\ UNCHANGED <<seqIDs, clock, limit, unmade>>
  BY <1>2, <1>3 DEF Move
<1>5. key \in Keys
  BY <1>2 DEF Keys
<1>6. roomUser \in [Keys -> Entries \cup {NoUser}] /\ clock \in Int
  BY <1>1 DEF Typed
<1>7. roomUser[key] \in Entries
  BY <1>4, <1>5, <1>6
<1>8. x \in Int
  BY RoomAssumption DEF MoveRequests
<1>9. v \in Entries /\ v.seqID = roomUser[key].seqID
  BY <1>1, <1>3, <1>6, <1>7, <1>8, MoveUserKeeps
<1>10. /\ roomUser' \in [Keys -> Entries \cup {NoUser}]
       /\ roomUser'[key] = v
       /\ \A k \in Keys : k # key => roomUser'[k] = roomUser[k]
  BY <1>4, <1>5, <1>6, <1>9
<1>11. Typed'
  BY <1>1, <1>4, <1>10 DEF Typed
<1>12. Occupied' = Occupied
  <2>1. v # NoUser
    BY <1>9, NotUser
  <2>2. \A k \in Keys : roomUser'[k] = NoUser <=> roomUser[k] = NoUser
    BY <1>4, <1>10, <2>1
  <2> QED BY <2>2 DEF Occupied
<1>13. \A k \in Occupied : roomUser'[k].seqID = roomUser[k].seqID
  BY <1>9, <1>10 DEF Occupied
<1> QED BY <1>4, <1>11, <1>12, <1>13, SameIds

LEMMA TickIds ==
  ASSUME IdInv, Tick
  PROVE  IdInv'
<1>1. Typed
  BY DEF IdInv
<1>2. PICK moving : moving = {k \in Occupied : roomUser[k].isMove}
  OBVIOUS
<1>3. PICK users : users = [k \in Keys |-> IF k \in moving
                                           THEN MovePosition(roomUser[k], clock)
                                           ELSE roomUser[k]]
  OBVIOUS
<1>4. roomUser' = users /\ UNCHANGED <<seqIDs, clock, limit, unmade>>
  BY <1>2, <1>3 DEF Tick, bounds
<1>5. roomUser \in [Keys -> Entries \cup {NoUser}] /\ clock \in Int
  BY <1>1 DEF Typed
<1>6. ASSUME NEW k \in Keys
      PROVE  /\ users[k] \in Entries \cup {NoUser}
             /\ users[k] = NoUser <=> roomUser[k] = NoUser
             /\ roomUser[k] # NoUser => users[k].seqID = roomUser[k].seqID
  <2>1. CASE k \in moving
    <3>1. roomUser[k] \in Entries
      BY <1>2, <1>5, <2>1 DEF Occupied
    <3>2. /\ users[k] \in Entries /\ users[k].seqID = roomUser[k].seqID
      BY <1>3, <1>5, <2>1, <3>1, MovePositionKeeps
    <3> QED BY <3>1, <3>2, NotUser
  <2>2. CASE k \notin moving
    BY <1>3, <1>5, <2>2
  <2> QED BY <2>1, <2>2
<1>7. users \in [Keys -> Entries \cup {NoUser}]
  BY <1>3, <1>6
<1>8. Typed'
  BY <1>1, <1>4, <1>7 DEF Typed
<1>9. Occupied' = Occupied
  BY <1>4, <1>6 DEF Occupied
<1>10. \A k \in Occupied : roomUser'[k].seqID = roomUser[k].seqID
  BY <1>4, <1>6 DEF Occupied
<1> QED BY <1>4, <1>8, <1>9, <1>10, SameIds

LEMMA OtherIds ==
  ASSUME IdInv, UNCHANGED <<roomUser, seqIDs, limit, unmade>>, clock' \in Int
  PROVE  IdInv'
<1>1. Typed' /\ Occupied' = Occupied
  BY DEF IdInv, Typed, Occupied
<1> QED BY <1>1, SameIds

LEMMA NextIds ==
  ASSUME IdInv, [Next]_vars
  PROVE  IdInv'
<1>1. clock \in Int
  BY DEF IdInv, Typed
<1>2. CASE UNCHANGED vars
  BY <1>1, <1>2, OtherIds DEF vars
<1>3. CASE Next
  <2>1. ASSUME NEW s \in Sessions, EnterFull(s) \/ BroadCast(s) PROVE IdInv'
    <3>1. UNCHANGED <<roomUser, seqIDs, limit, clock, unmade>>
      BY <2>1 DEF EnterFull, BroadCast, bounds
    <3> QED BY <1>1, <3>1, OtherIds
  <2>2. ASSUME NEW s \in Sessions, EnterNoPacket(s) \/ EnterTaken(s) PROVE IdInv'
    <3>1. /\ seqIDs # <<>> /\ seqIDs' = Append(Tail(seqIDs), Head(seqIDs))
          /\ UNCHANGED <<roomUser, limit, clock, unmade>>
      BY <2>2 DEF EnterNoPacket, EnterTaken, bounds
    <3> QED BY <3>1, GivenBack
  <2>3. ASSUME NEW s \in Sessions, Enter(s) PROVE IdInv'
    BY <2>3, EnterIds
  <2>4. ASSUME NEW s \in Sessions, Leave(s) PROVE IdInv'
    BY <2>4, LeaveIds
  <2>5. ASSUME NEW s \in Sessions, NEW x \in MoveRequests, Move(s, x) PROVE IdInv'
    BY <2>5, MoveIds
  <2>6. ASSUME Tick PROVE IdInv'
    BY <2>6, TickIds
  <2>7. ASSUME Elapse PROVE IdInv'
    <3>1. clock' \in Int /\ UNCHANGED <<roomUser, seqIDs, limit, unmade>>
      BY <1>1, <2>7 DEF Elapse, bounds
    <3> QED BY <3>1, OtherIds
  <2> QED BY <1>3, <2>1, <2>2, <2>3, <2>4, <2>5, <2>6, <2>7 DEF Next
<1> QED BY <1>2, <1>3

LEMMA InitIds ==
  ASSUME Init PROVE IdInv
<1>1. /\ roomUser = [k \in Keys |-> NoUser]
      /\ seqIDs = [i \in 1 .. MaxRoomUserCount |-> i - 1]
      /\ clock = 0 /\ limit \in Limits /\ unmade = 0
  BY DEF Init
<1>2. MaxRoomUserCount \in Nat
  BY RoomAssumption
<1>3. seqIDs \in [1 .. MaxRoomUserCount -> Ids]
  BY <1>1, <1>2 DEF Ids
<1>4. seqIDs \in Seq(Ids)
  BY <1>2, <1>3, SeqDef
<1>5. Len(seqIDs) = MaxRoomUserCount
  <2>1. DOMAIN seqIDs = 1 .. MaxRoomUserCount
    BY <1>3
  <2>2. Len(seqIDs) \in Nat /\ DOMAIN seqIDs = 1 .. Len(seqIDs)
    BY <1>4, LenProperties
  <2> QED BY <1>2, <2>1, <2>2
<1>6. Occupied = {}
  BY <1>1 DEF Occupied
<1>7. Typed
  BY <1>1, <1>4 DEF Typed
<1>8. Distinct
  BY <1>1, <1>2, <1>5, <1>6 DEF Distinct
<1>9. Enough
  <2>1. Cardinality(Occupied) = 0
    BY <1>6, FS_EmptySet
  <2> QED BY <1>1, <1>2, <1>5, <2>1 DEF Enough
<1> QED BY <1>7, <1>8, <1>9 DEF IdInv

-----------------------------------------------------------------------------
(* The cardinalities of SeqIDsKept. *)
LEMMA IdsKept ==
  ASSUME IdInv PROVE SeqIDsKept
<1>1. Typed /\ Distinct /\ Enough
  BY DEF IdInv
<1>2. Len(seqIDs) \in Nat /\ DOMAIN seqIDs = 1 .. Len(seqIDs)
      /\ seqIDs \in [1 .. Len(seqIDs) -> Ids]
  BY <1>1, LenProperties DEF Typed
<1>3. Free = {seqIDs[i] : i \in 1 .. Len(seqIDs)}
  BY <1>2 DEF Free, ToSet
<1>4. Len(seqIDs) = Cardinality(Free)
  <2>1. seqIDs \in Surjection(1 .. Len(seqIDs), Free)
    BY <1>2, <1>3 DEF Surjection
  <2>2. seqIDs \in Injection(1 .. Len(seqIDs), Free)
    BY <1>1, <2>1 DEF Distinct, Injection, Surjection, IsInjective
  <2>3. ExistsBijection(1 .. Len(seqIDs), Free)
    BY <2>1, <2>2 DEF ExistsBijection, Bijection
  <2> QED BY <1>2, <2>3, FS_CountingElements
<1>5. Cardinality(Used) = Cardinality(Occupied)
  <2>1. PICK f : f = [k \in Occupied |-> roomUser[k].seqID]
    OBVIOUS
  <2>2. f \in Surjection(Occupied, Used)
    BY <2>1 DEF Used, Surjection
  <2>3. f \in Injection(Occupied, Used)
    BY <1>1, <2>1, <2>2 DEF Distinct, Injection, Surjection, IsInjective
  <2> QED BY <2>2, <2>3, OccupiedFinite, FS_Surjection
<1>6. Free \cap Used = {}
  BY <1>1, <1>3 DEF Distinct, Used
<1> QED BY <1>1, <1>4, <1>5, <1>6 DEF SeqIDsKept, Enough

(* Room::Enter and Room::Leave, whatever else is dispatched between them and
   whichever packets cannot be made: no two members share an id, none of them
   has one that is free, and as many ids are missing as LEAVE packets could not
   be made. *)
THEOREM SeqIDsAreKept == Spec => []SeqIDsKept
<1>1. Init => IdInv
  BY InitIds
<1>2. IdInv /\ [Next]_vars => IdInv'
  BY NextIds
<1>3. IdInv => SeqIDsKept
  BY IdsKept
<1> QED BY <1>1, <1>2, <1>3, PTL DEF Spec

-----------------------------------------------------------------------------
(* What the rounding of an end tick may add or take away: nothing while floats
   hold the uptime exactly, and one spacing of them afterwards. *)
Slack == IF limit.grain = 1 THEN 0 ELSE limit.grain

(* The distance left of a mover is the time left, but for that. *)
Near(d, b) == -Slack <= d - b /\ d - b <= Slack

Course(u, k, now) ==
  /\ u.session \in Sessions /\ SocketOf[u.session] = k
  /\ u.isMove => u.start <= now /\ Near(Distance(u.pos, u.dest), u.end - u.start)

AllOnCourse == \A k \in Occupied : Course(roomUser[k], k, clock)

LEMMA SlackType == ASSUME Typed PROVE Slack \in Nat /\ limit.grain \in Nat \ {0}
BY RoomAssumption DEF Typed, Slack

(* A share of the way is covered in that share of the time, to within g. *)
LEMMA ShareNear ==
  ASSUME NEW d \in Nat, NEW b \in Nat \ {0}, NEW a \in Nat, a < b,
         NEW g \in Nat, -g <= d - b, d - b <= g
  PROVE  LET q == (d * a) \div b
         IN  /\ q \in Nat /\ q <= d
             /\ -g <= (d - q) - (b - a) /\ (d - q) - (b - a) <= g
<1>1. PICK q : q = (d * a) \div b
  OBVIOUS
<1>2. d * a \in Nat
  OBVIOUS
<1>3. q \in Nat /\ q * b <= d * a /\ d * a < (q + 1) * b
  BY <1>1, <1>2
<1>4. q <= d
  <2>1. d * a <= d * b
    OBVIOUS
  <2>2. CASE q >= d + 1
    <3>1. q * b >= (d + 1) * b
      BY <1>3, <2>2
    <3>2. (d + 1) * b = d * b + b
      OBVIOUS
    <3> QED BY <1>3, <2>1, <3>1, <3>2
  <2> QED BY <1>3, <2>2
<1>5. PICK c : c = b - a
  OBVIOUS
<1>6. c \in Nat \ {0} /\ a = b - c
  BY <1>5
<1>7. PICK m : m = d - q
  OBVIOUS
<1>8. m \in Int /\ q = d - m
  BY <1>3, <1>7
<1>9. PICK e : e = d - b
  OBVIOUS
<1>10. e \in Int /\ d = b + e /\ -g <= e /\ e <= g
  BY <1>9
<1>11. d * c <= m * b /\ m * b < d * c + b
  <2>1. d * a = d * b - d * c /\ q * b = d * b - m * b /\ (q + 1) * b = q * b + b
    BY <1>3, <1>6, <1>8
  <2> QED BY <1>3, <1>6, <1>8, <2>1
<1>12. d * c = b * c + e * c /\ -(g * c) <= e * c /\ e * c <= g * c
  BY <1>6, <1>10
<1>13. g * c <= g * b
  BY <1>6
<1>14. PICK n : n = m - c
  OBVIOUS
<1>15. n \in Int /\ m = c + n
  BY <1>6, <1>8, <1>14
<1>16. n * b <= g * b + b - 1 /\ -(g * b) <= n * b
  <2>1. m * b = b * c + n * b
    BY <1>6, <1>15
  <2> QED BY <1>6, <1>8, <1>10, <1>11, <1>12, <1>13, <1>15, <2>1
<1>17. n <= g
  <2>1. CASE n >= g + 1
    <3>1. n * b >= (g + 1) * b
      BY <1>15, <2>1
    <3>2. (g + 1) * b = g * b + b
      OBVIOUS
    <3> QED BY <1>15, <1>16, <3>1, <3>2
  <2> QED BY <1>15, <2>1
<1>18. -g <= n
  <2>1. CASE n <= -g - 1
    <3>1. n * b <= (-g - 1) * b
      BY <1>15, <2>1
    <3>2. (-g - 1) * b = -(g * b) - b
      OBVIOUS
    <3> QED BY <1>15, <1>16, <3>1, <3>2
  <2> QED BY <1>15, <2>1
<1> QED BY <1>1, <1>3, <1>4, <1>5, <1>7, <1>14, <1>17, <1>18

LEMMA DivMod ==
  ASSUME NEW x \in Int, NEW g \in Nat \ {0}
  PROVE  /\ x \div g \in Int /\ x % g \in Int
         /\ 0 <= x % g /\ x % g < g
         /\ x = g * (x \div g) + (x % g)
<1>1. x \div g \in Int /\ x % g \in 0 .. g - 1
  OBVIOUS
<1>2. x = g * (x \div g) + (x % g)
  OBVIOUS
<1> QED BY <1>1, <1>2

(* A float is off by half a spacing. *)
LEMMA FloatNear ==
  ASSUME Typed, NEW x \in Int
  PROVE  /\ AsFloat(x) \in Int
         /\ -limit.grain <= 2 * (AsFloat(x) - x) /\ 2 * (AsFloat(x) - x) <= limit.grain
<1>1. PICK g \in Nat \ {0} : g = limit.grain
  BY SlackType
<1>2. PICK q : q = x \div g
  OBVIOUS
<1>3. PICK m : m = x % g
  OBVIOUS
<1>4. q \in Int /\ m \in Int /\ 0 <= m /\ m < g /\ x = g * q + m
  BY <1>1, <1>2, <1>3, DivMod
<1>5. g * (q + 1) = g * q + g /\ g * q \in Int
  BY <1>1, <1>4
<1>6. \/ 2 * m <= g /\ AsFloat(x) = g * q
      \/ g <= 2 * m /\ AsFloat(x) = g * (q + 1)
  <2>1. CASE 2 * m < g \/ (2 * m = g /\ q % 2 = 0)
    BY <1>1, <1>2, <1>3, <1>4, <2>1 DEF AsFloat
  <2>2. CASE ~(2 * m < g \/ (2 * m = g /\ q % 2 = 0))
    BY <1>1, <1>2, <1>3, <1>4, <2>2 DEF AsFloat
  <2> QED BY <2>1, <2>2
<1>7. PICK f : f = g * q
  OBVIOUS
<1>8. /\ AsFloat(x) = f \/ AsFloat(x) = f + g
      /\ AsFloat(x) = f => 2 * m <= g \/ g = 0
      /\ AsFloat(x) = f + g => g <= 2 * m \/ g = 0
      /\ f \in Int /\ x = f + m
  BY <1>1, <1>4, <1>5, <1>6, <1>7
<1> QED BY <1>1, <1>4, <1>8

(* The end tick is off by one, or not at all. *)
LEMMA EndTickNear ==
  ASSUME Typed, NEW now \in Int, NEW dist \in Int
  PROVE  EndTick(now, dist) \in Int /\ Near(dist, EndTick(now, dist) - now)
<1>1. PICK x : x = AsFloat(now)
  OBVIOUS
<1>2. PICK y : y = AsFloat(x + dist)
  OBVIOUS
<1>3. PICK g \in Nat \ {0} : g = limit.grain
  BY SlackType
<1>4. x \in Int /\ -g <= 2 * (x - now) /\ 2 * (x - now) <= g
  BY <1>1, <1>3, FloatNear
<1>5. x + dist \in Int
  BY <1>4
<1>6. y \in Int /\ -g <= 2 * (y - (x + dist)) /\ 2 * (y - (x + dist)) <= g
  BY <1>2, <1>3, <1>5, FloatNear
<1>7. EndTick(now, dist) = y
  BY <1>1, <1>2 DEF EndTick
<1>8. CASE g = 1
  <2>1. x = now /\ y = now + dist
    BY <1>4, <1>6, <1>8
  <2> QED BY <1>3, <1>7, <1>8, <2>1 DEF Near, Slack
<1>9. CASE g # 1
  <2>1. -g <= dist - (y - now) /\ dist - (y - now) <= g
    BY <1>3, <1>4, <1>6
  <2> QED BY <1>3, <1>6, <1>7, <1>9, <2>1 DEF Near, Slack
<1> QED BY <1>8, <1>9

LEMMA MovePositionCourse ==
  ASSUME Typed, NEW u \in Entries, NEW now \in Int, NEW k, Course(u, k, now)
  PROVE  Course(MovePosition(u, now), k, now)
<1>1. /\ u.pos \in Int /\ u.dest \in Int /\ u.start \in Int /\ u.end \in Int
      /\ u.isMove \in BOOLEAN
  BY DEF Entries
<1>2. CASE ~u.isMove
  BY <1>2 DEF MovePosition
<1>3. CASE u.isMove /\ u.end <= now
  <2>1. MovePosition(u, now) = [u EXCEPT !.pos = u.dest, !.start = now, !.isMove = FALSE]
    BY <1>3 DEF MovePosition
  <2> QED BY <2>1 DEF Entries, Course
<1>4. CASE u.isMove /\ ~(u.end <= now) /\ u.end <= u.start
  <2>1. MovePosition(u, now) = [u EXCEPT !.isMove = FALSE]
    BY <1>4 DEF MovePosition
  <2> QED BY <2>1 DEF Entries, Course
<1>5. CASE u.isMove /\ ~(u.end <= now) /\ ~(u.end <= u.start)
  <2>1. PICK d : d = Distance(u.pos, u.dest)
    OBVIOUS
  <2>2. PICK a : a = now - u.start
    OBVIOUS
  <2>3. PICK b : b = u.end - u.start
    OBVIOUS
  <2>4. PICK g \in Nat : g = Slack
    BY SlackType
  <2>5. d \in Nat /\ a \in Nat /\ b \in Nat \ {0} /\ a < b
    BY <1>1, <1>5, <2>1, <2>2, <2>3 DEF Distance, Course
  <2>6. -g <= d - b /\ d - b <= g
    BY <1>5, <2>1, <2>3, <2>4 DEF Course, Near
  <2>7. PICK q : q = (d * a) \div b
    OBVIOUS
  <2>8. /\ q \in Nat /\ q <= d
        /\ -g <= (d - q) - (b - a) /\ (d - q) - (b - a) <= g
    BY <2>5, <2>6, <2>7, ShareNear
  <2>9. PICK z : z = u.pos + PartOf(u.dest - u.pos, a, b)
    OBVIOUS
  <2>10. z \in Int /\ Distance(z, u.dest) = d - q
    <3>1. CASE u.pos < u.dest
      <4>1. u.dest - u.pos = d /\ ~(d < 0)
        BY <1>1, <2>1, <3>1 DEF Distance
      <4>2. z = u.pos + q
        BY <2>7, <2>9, <4>1 DEF PartOf
      <4> QED BY <1>1, <2>5, <2>8, <4>1, <4>2 DEF Distance
    <3>2. CASE u.dest < u.pos
      <4>1. -(u.dest - u.pos) = d /\ u.dest - u.pos < 0 /\ u.dest = u.pos - d
        BY <1>1, <2>1, <3>2 DEF Distance
      <4>2. z = u.pos - q
        <5>1. PICK way : way = u.dest - u.pos
          OBVIOUS
        <5>2. way \in Int /\ way < 0 /\ -way = d
          BY <1>1, <4>1, <5>1
        <5>3. PartOf(way, a, b) = -((-way * a) \div b)
          BY <5>2 DEF PartOf
        <5>4. -way * a = d * a
          BY <2>5, <5>2
        <5>5. PartOf(way, a, b) = -q
          BY <2>7, <5>3, <5>4
        <5> QED BY <1>1, <2>8, <2>9, <5>1, <5>5
      <4> QED BY <1>1, <2>5, <2>8, <4>1, <4>2 DEF Distance
    <3>3. CASE u.pos = u.dest
      <4>1. d = 0 /\ u.dest - u.pos = 0 /\ q = 0
        BY <1>1, <2>1, <2>8, <3>3 DEF Distance
      <4>2. z = u.pos
        BY <1>1, <2>7, <2>9, <4>1 DEF PartOf
      <4> QED BY <1>1, <3>3, <4>1, <4>2 DEF Distance
    <3> QED BY <1>1, <3>1, <3>2, <3>3
  <2>11. MovePosition(u, now) = [u EXCEPT !.pos = z, !.start = now]
    BY <1>5, <2>2, <2>3, <2>9 DEF MovePosition
  <2>12. b - a = u.end - now
    BY <1>1, <2>2, <2>3
  <2>13. Near(Distance(z, u.dest), u.end - now)
    BY <2>4, <2>8, <2>10, <2>12 DEF Near
  <2>14. now <= now
    OBVIOUS
  <2> QED BY <2>11, <2>13, <2>14 DEF Entries, Course
<1> QED BY <1>1, <1>2, <1>3, <1>4, <1>5

LEMMA MoveUserCourse ==
  ASSUME Typed, NEW u \in Entries, NEW x \in Int, NEW now \in Int,
         NEW k, Course(u, k, now)
  PROVE  Course(MoveUser(u, x, now), k, now)
<1>1. PICK v : v = MovePosition(u, now)
  OBVIOUS
<1>2. v \in Entries /\ Course(v, k, now)
  BY <1>1, MovePositionKeeps, MovePositionCourse
<1>3. PICK dist : dist = Distance(v.pos, x)
  OBVIOUS
<1>4. dist \in Int
  BY <1>2, <1>3 DEF Distance, Entries
<1>5. PICK e : e = EndTick(now, dist)
  OBVIOUS
<1>6. e \in Int /\ Near(dist, e - now)
  BY <1>4, <1>5, EndTickNear
<1>7. PICK w : w = [v EXCEPT !.isMove = TRUE, !.dest = x, !.start = now, !.end = e]
  OBVIOUS
<1>8. MoveUser(u, x, now) \in {v, w}
  BY <1>1, <1>3, <1>5, <1>7 DEF MoveUser
<1>9. Course(w, k, now)
  <2>1. /\ w.session = v.session /\ w.start = now /\ w.end = e
        /\ w.pos = v.pos /\ w.dest = x
    BY <1>2, <1>7 DEF Entries
  <2>2. Near(Distance(w.pos, w.dest), w.end - w.start) /\ w.start <= now
    BY <1>3, <1>6, <2>1
  <2> QED BY <1>2, <2>1, <2>2 DEF Course
<1> QED BY <1>2, <1>8, <1>9

(* Steps after which every entry is an old one, at an older time. *)
LEMMA OldCourse ==
  ASSUME Typed, AllOnCourse, clock' \in Int, clock' >= clock, limit' = limit,
         \A k \in Occupied' : k \in Occupied /\ roomUser'[k] = roomUser[k]
  PROVE  AllOnCourse'
<1> SUFFICES ASSUME NEW k \in Occupied'
             PROVE  Course(roomUser'[k], k, clock')
  BY DEF AllOnCourse, Course, Near, Slack, Distance
<1>1. k \in Occupied /\ roomUser'[k] = roomUser[k] /\ Course(roomUser[k], k, clock)
  BY DEF AllOnCourse
<1>2. roomUser[k] \in Entries /\ clock \in Int
  BY <1>1 DEF Typed, Occupied
<1>3. roomUser[k].start \in Int
  BY <1>2 DEF Entries
<1> QED BY <1>1, <1>2, <1>3 DEF Course

LEMMA NextCourse ==
  ASSUME IdInv, AllOnCourse, [Next]_vars
  PROVE  AllOnCourse'
<1>1. Typed /\ clock \in Int /\ roomUser \in [Keys -> Entries \cup {NoUser}]
  BY DEF IdInv, Typed
<1>0. limit' = limit
  BY DEF Next, vars, bounds, EnterFull, EnterNoPacket, EnterTaken, Enter, Leave, BroadCast,
     Move, Tick, Elapse
<1>2. CASE UNCHANGED <<roomUser, clock>>
  BY <1>0, <1>1, <1>2, OldCourse DEF Occupied
<1>3. ASSUME NEW s \in Sessions, Enter(s) PROVE AllOnCourse'
  <2>1. PICK key : key = SocketOf[s]
    OBVIOUS
  <2>2. PICK u : u = RoomUser(s, Head(seqIDs))
    OBVIOUS
  <2>3. key \in Keys /\ roomUser' = [roomUser EXCEPT ![key] = u] /\ clock' = clock
    BY <1>3, <2>1, <2>2 DEF Enter, Keys
  <2>4. Course(u, key, clock)
    BY <2>1, <2>2 DEF RoomUser, Course
  <2>5. \A k \in Occupied' : Course(roomUser'[k], k, clock')
    BY <1>1, <2>3, <2>4 DEF AllOnCourse, Occupied
  <2> QED BY <1>0, <2>5 DEF AllOnCourse, Course, Near, Slack, Distance
<1>4. ASSUME NEW s \in Sessions, Leave(s) PROVE AllOnCourse'
  <2>1. PICK key : key = SocketOf[s]
    OBVIOUS
  <2>2. /\ roomUser' = roomUser \/ roomUser' = [roomUser EXCEPT ![key] = NoUser]
        /\ clock' = clock /\ key \in Keys
    BY <1>4, <2>1 DEF Leave, Keys
  <2>3. \A k \in Occupied' : k \in Occupied /\ roomUser'[k] = roomUser[k]
    BY <1>1, <2>2 DEF Occupied
  <2>4. clock' \in Int /\ clock' >= clock
    BY <1>1, <2>2
  <2> QED BY <1>0, <1>1, <2>3, <2>4, OldCourse
<1>5. ASSUME NEW s \in Sessions, NEW x \in MoveRequests, Move(s, x) PROVE AllOnCourse'
  <2>1. PICK key : key = SocketOf[s]
    OBVIOUS
  <2>2. PICK v : v = MoveUser(roomUser[key], x, clock)
    OBVIOUS
  <2>3. /\ roomUser[key] # NoUser /\ key \in Keys /\ clock' = clock
        /\ roomUser' = [roomUser EXCEPT ![key] = v]
    BY <1>5, <2>1, <2>2 DEF Move, Keys
  <2>4. roomUser[key] \in Entries /\ Course(roomUser[key], key, clock) /\ x \in Int
    BY <1>1, <2>3, RoomAssumption DEF AllOnCourse, Occupied, MoveRequests
  <2>5. Course(v, key, clock)
    BY <1>1, <2>2, <2>4, MoveUserCourse
  <2>6. \A k \in Occupied' : Course(roomUser'[k], k, clock')
    BY <1>1, <2>3, <2>5 DEF AllOnCourse, Occupied
  <2> QED BY <1>0, <2>6 DEF AllOnCourse, Course, Near, Slack, Distance
<1>6. ASSUME Tick PROVE AllOnCourse'
  <2>1. PICK moving : moving = {k \in Occupied : roomUser[k].isMove}
    OBVIOUS
  <2>2. /\ roomUser' = [k \in Keys |-> IF k \in moving
                                       THEN MovePosition(roomUser[k], clock)
                                       ELSE roomUser[k]]
        /\ clock' = clock
    BY <1>6, <2>1 DEF Tick
  <2>3. ASSUME NEW k \in Occupied'
        PROVE  Course(roomUser'[k], k, clock')
    <3>1. k \in Keys /\ roomUser'[k] # NoUser
      BY DEF Occupied
    <3>2. CASE k \in moving
      <4>1. roomUser[k] \in Entries /\ Course(roomUser[k], k, clock)
        BY <1>1, <2>1, <3>1, <3>2 DEF AllOnCourse, Occupied
      <4> QED BY <1>1, <2>2, <3>1, <3>2, <4>1, MovePositionCourse
    <3>3. CASE k \notin moving
      <4>1. roomUser'[k] = roomUser[k]
        BY <2>2, <3>1, <3>3
      <4> QED BY <2>2, <3>1, <4>1 DEF AllOnCourse, Occupied
    <3> QED BY <3>2, <3>3
  <2> QED BY <1>0, <2>3 DEF AllOnCourse, Course, Near, Slack, Distance
<1>7. ASSUME Elapse PROVE AllOnCourse'
  <2>1. clock' = clock + 1 /\ roomUser' = roomUser
    BY <1>7 DEF Elapse
  <2>2. clock' \in Int /\ clock' >= clock
    BY <1>1, <2>1
  <2>3. \A k \in Occupied' : k \in Occupied /\ roomUser'[k] = roomUser[k]
    BY <2>1 DEF Occupied
  <2> QED BY <1>0, <1>1, <2>2, <2>3, OldCourse
<1>8. ASSUME NEW s \in Sessions,
             EnterFull(s) \/ EnterNoPacket(s) \/ EnterTaken(s) \/ BroadCast(s)
      PROVE  AllOnCourse'
  BY <1>2, <1>8 DEF EnterFull, EnterNoPacket, EnterTaken, BroadCast
<1>9. CASE UNCHANGED vars
  BY <1>2, <1>9 DEF vars
<1> QED BY <1>3, <1>4, <1>5, <1>6, <1>7, <1>8, <1>9 DEF Next

(* README.md:289: whenever and however often ticks and requests have moved a
   position, the distance left is the time left; up to one spacing of floats
   once they do not hold the uptime any more. *)
THEOREM OnCourseAlways == Spec => []OnCourse
<1>1. Init => IdInv /\ AllOnCourse
  BY InitIds DEF Init, AllOnCourse, Occupied
<1>2. IdInv /\ AllOnCourse /\ [Next]_vars => (IdInv /\ AllOnCourse)'
  BY NextIds, NextCourse
<1>3. IdInv /\ AllOnCourse => OnCourse
  <2> SUFFICES ASSUME IdInv, AllOnCourse, NEW k \in Occupied
               PROVE  /\ roomUser[k].session \in Sessions
                      /\ SocketOf[roomUser[k].session] = k
                      /\ roomUser[k].isMove =>
                           /\ roomUser[k].start <= clock
                           /\ Distance(Distance(roomUser[k].pos, roomUser[k].dest),
                                       roomUser[k].end - roomUser[k].start) <= Slack
    BY DEF OnCourse, Slack
  <2>1. Course(roomUser[k], k, clock)
    BY DEF AllOnCourse
  <2>2. roomUser[k] \in Entries /\ Slack \in Nat
    BY SlackType DEF IdInv, Typed, Occupied
  <2>3. PICK e : e = roomUser[k].end - roomUser[k].start
    OBVIOUS
  <2>4. PICK d : d = Distance(roomUser[k].pos, roomUser[k].dest)
    OBVIOUS
  <2>5. e \in Int /\ d \in Int
    BY <2>2, <2>3, <2>4 DEF Entries, Distance
  <2>6. Near(d, e) => Distance(d, e) <= Slack
    BY <2>2, <2>5 DEF Near, Distance
  <2> QED BY <2>1, <2>3, <2>4, <2>6 DEF Course
<1> QED BY <1>1, <1>2, <1>3, PTL DEF Spec

-----------------------------------------------------------------------------
(* What a client is sent: the number of a room, and ids and positions of this
   one. *)
Data  == [seqID : Ids, pos : Positions]
Lists(type) == [type : {type}, list : Seq(Data)]

(* The client after each packet: what Received computes. *)
Parsed(f, packets) ==
  \A n \in 1 .. Len(packets) : f[n] = ParseClient(f[n - 1], packets[n])

Closed(V, packets) ==
  \A v \in V, n \in 1 .. Len(packets) : ParseClient(v, packets[n]) \in V

Trace(f, V, c, packets) ==
  /\ f \in [0 .. Len(packets) -> V]
  /\ f[0] = c
  /\ Parsed(f, packets)
  /\ Received(c, packets) = f[Len(packets)]

LEMMA ReceivedTrace ==
  ASSUME NEW V, NEW c \in V, NEW S, NEW packets \in Seq(S),
         Closed(V, packets)
  PROVE  \E f : Trace(f, V, c, packets)
<1>1. PICK N : N = Len(packets)
  OBVIOUS
<1>2. N \in Nat
  BY <1>1, LenProperties
<1>3. PICK step : step = [n \in 1 .. N |-> [v \in V |-> ParseClient(v, packets[n])]]
  OBVIOUS
<1>4. step \in [1 .. N -> [V -> V]]
  BY <1>1, <1>3 DEF Closed
<1>5. PICK f : f \in Solutions(N, V, c, step)
  BY <1>2, <1>4, Recursion
<1>15. /\ f \in [0 .. N -> V] /\ f[0] = c
       /\ \A n \in 1 .. N : f[n] = step[n][f[n - 1]]
  BY <1>5 DEF Solutions
<1> DEFINE Eq(g) == g = [n \in 0 .. N |-> IF n = 0 THEN c
                                          ELSE ParseClient(g[n - 1], packets[n])]
<1>6. \A n \in 1 .. N : step[n][f[n - 1]] = ParseClient(f[n - 1], packets[n])
  <2> TAKE n \in 1 .. N
  <2>1. n - 1 \in 0 .. N
    BY <1>2
  <2>2. f[n - 1] \in V
    BY <1>15, <2>1
  <2> QED BY <1>3, <2>2
<1>7. \E h : Eq(h)
  <2>1. PICK h : h = [n \in 0 .. N |-> IF n = 0 THEN c ELSE f[n]]
    OBVIOUS
  <2>2. \A n \in 0 .. N : n # 0 => n \in 1 .. N /\ n - 1 \in 0 .. N
    BY <1>2
  <2>3. h = f
    BY <1>15, <2>1
  <2>4. h = [n \in 0 .. N |-> IF n = 0 THEN c ELSE ParseClient(h[n - 1], packets[n])]
    BY <1>15, <1>6, <2>1, <2>2, <2>3
  <2> QED BY <2>4
<1>8. PICK g : g = CHOOSE h : Eq(h)
  OBVIOUS
<1>9. Eq(g)
  BY <1>7, <1>8
<1>10. Received(c, packets) = g[Len(packets)]
  BY <1>1, <1>8 DEF Received
<1>11. g[0] = c /\ \A n \in 1 .. N : g[n] = ParseClient(g[n - 1], packets[n])
  BY <1>2, <1>9
<1>12. g \in [0 .. N -> V]
  <2>1. PICK T : T = {n \in 0 .. N : g[n] \in V}
    OBVIOUS
  <2>2. 0 \in T
    BY <1>2, <1>11, <2>1
  <2>3. \A n \in 0 .. N - 1 : n \in T => n + 1 \in T
    <3> TAKE n \in 0 .. N - 1
    <3> HAVE n \in T
    <3>1. n + 1 \in 1 .. N /\ n + 1 \in 0 .. N /\ (n + 1) - 1 = n
      BY <1>2
    <3>2. g[n + 1] = ParseClient(g[n], packets[n + 1])
      BY <1>11, <3>1
    <3> QED BY <1>1, <2>1, <3>1, <3>2 DEF Closed
  <2>4. 0 .. N \subseteq T
    BY <1>2, <2>2, <2>3, UpTo
  <2> QED BY <1>9, <2>1, <2>4
<1> QED BY <1>1, <1>10, <1>11, <1>12 DEF Parsed, Trace

Packets == [type : {"ENTER"}, room : Int, seqID : Ids]
           \cup Lists("SPAWN") \cup Lists("MOVE")
           \cup [type : {"LEAVE"}, seqID : Ids] \cup {[type |-> "BROADCAST"]}

(* A list of positions: the last one that names an id says where it is. *)
LEMMA PlacedAt ==
  ASSUME NEW at \in [Ids -> Positions \cup {Unknown}], NEW list \in Seq(Data)
  PROVE  /\ Placed(at, list) \in [Ids -> Positions \cup {Unknown}]
         /\ \A i \in Ids :
              \/ \E d \in ToSet(list) : d.seqID = i /\ Placed(at, list)[i] = d.pos
              \/ /\ \A d \in ToSet(list) : d.seqID # i
                 /\ Placed(at, list)[i] = at[i]
<1>1. ToSet(list) \subseteq Data
  BY LenProperties DEF ToSet
<1>2. \A d : d \in ToSet(list) <=> \E j \in DOMAIN list : list[j] = d
  BY DEF ToSet
<1>3. PICK new : new = Placed(at, list)
  OBVIOUS
<1>4. new = [i \in Ids |-> IF \E j \in DOMAIN list : list[j].seqID = i
                           THEN (CHOOSE d \in ToSet(list) : d.seqID = i).pos
                           ELSE at[i]]
  BY <1>3 DEF Placed
<1>5. ASSUME NEW i \in Ids
      PROVE  /\ new[i] \in Positions \cup {Unknown}
             /\ \/ \E d \in ToSet(list) : d.seqID = i /\ new[i] = d.pos
                \/ /\ \A d \in ToSet(list) : d.seqID # i
                   /\ new[i] = at[i]
  <2>1. CASE \E j \in DOMAIN list : list[j].seqID = i
    <3>1. \E d \in ToSet(list) : d.seqID = i
      BY <1>2, <2>1
    <3>2. PICK e : e = CHOOSE d \in ToSet(list) : d.seqID = i
      OBVIOUS
    <3>3. e \in ToSet(list) /\ e.seqID = i
      BY <3>1, <3>2
    <3>4. new[i] = e.pos
      BY <1>4, <2>1, <3>2
    <3>5. e.pos \in Positions
      BY <1>1, <3>3 DEF Data
    <3> QED BY <3>3, <3>4, <3>5
  <2>2. CASE ~\E j \in DOMAIN list : list[j].seqID = i
    <3>1. \A d \in ToSet(list) : d.seqID # i
      BY <1>2, <2>2
    <3>2. new[i] = at[i]
      BY <1>4, <2>2
    <3> QED BY <3>1, <3>2
  <2> QED BY <2>1, <2>2
<1>6. new \in [Ids -> Positions \cup {Unknown}]
  BY <1>4, <1>5
<1> QED BY <1>3, <1>5, <1>6

(* c after the lists of data in D, of SPAWNs or of MOVEs. *)
Heard(type, c, after, D) ==
  /\ after.seqID = c.seqID
  /\ after.knows = IF type = "SPAWN" THEN c.knows \cup {d.seqID : d \in D}
                   ELSE c.knows
  /\ \A i \in Ids : \/ \E d \in D : d.seqID = i /\ after.at[i] = d.pos
                    \/ (\A d \in D : d.seqID # i) /\ after.at[i] = c.at[i]

LEMMA ParseList ==
  ASSUME NEW type \in {"SPAWN", "MOVE"}, NEW c \in Clients, NEW p \in Lists(type)
  PROVE  /\ ParseClient(c, p) \in Clients
         /\ Heard(type, c, ParseClient(c, p), ToSet(p.list))
<1>1. p.type = type /\ p.list \in Seq(Data)
  BY DEF Lists
<1>2. ToSet(p.list) \subseteq Data /\ IdsIn(p.list) = {d.seqID : d \in ToSet(p.list)}
  <2>1. p.list \in [1 .. Len(p.list) -> Data] /\ DOMAIN p.list = 1 .. Len(p.list)
    BY <1>1, LenProperties
  <2>2. ToSet(p.list) = {p.list[j] : j \in DOMAIN p.list}
    BY DEF ToSet
  <2> QED BY <2>1, <2>2 DEF IdsIn
<1>3. /\ c.at \in [Ids -> Positions \cup {Unknown}] /\ c.knows \subseteq Ids
      /\ c.seqID \in Ids /\ c.entered \in BOOLEAN
  BY DEF Clients
<1>4. PICK at : at = Placed(c.at, p.list)
  OBVIOUS
<1>5. /\ at \in [Ids -> Positions \cup {Unknown}]
      /\ \A i \in Ids :
              \/ \E d \in ToSet(p.list) : d.seqID = i /\ at[i] = d.pos
              \/ /\ \A d \in ToSet(p.list) : d.seqID # i
                 /\ at[i] = c.at[i]
  BY <1>1, <1>3, <1>4, PlacedAt
<1>6. CASE type = "SPAWN"
  <2>1. PICK knows : knows = c.knows \cup IdsIn(p.list)
    OBVIOUS
  <2>2. knows \subseteq Ids
    BY <1>2, <1>3, <2>1 DEF Data
  <2>3. ParseClient(c, p) = [c EXCEPT !.knows = knows, !.at = at]
    BY <1>1, <1>4, <1>6, <2>1 DEF ParseClient
  <2>4. PICK r : r = ParseClient(c, p)
    OBVIOUS
  <2>5. /\ r \in Clients /\ r.knows = knows /\ r.at = at /\ r.seqID = c.seqID
    BY <1>3, <1>5, <2>2, <2>3, <2>4 DEF Clients
  <2>6. Heard(type, c, r, ToSet(p.list))
    BY <1>2, <1>5, <1>6, <2>1, <2>5 DEF Heard
  <2> QED BY <2>4, <2>5, <2>6
<1>7. CASE type = "MOVE"
  <2>1. ParseClient(c, p) = [c EXCEPT !.at = at]
    BY <1>1, <1>4, <1>7 DEF ParseClient
  <2>2. PICK r : r = ParseClient(c, p)
    OBVIOUS
  <2>3. /\ r \in Clients /\ r.knows = c.knows /\ r.at = at /\ r.seqID = c.seqID
    BY <1>3, <1>5, <2>1, <2>2 DEF Clients
  <2>4. Heard(type, c, r, ToSet(p.list))
    BY <1>5, <1>7, <2>3 DEF Heard
  <2> QED BY <2>2, <2>3, <2>4
<1> QED BY <1>6, <1>7

LEMMA HeardMore ==
  ASSUME NEW type \in {"SPAWN", "MOVE"}, NEW c \in Clients, NEW d \in Clients,
         NEW e \in Clients, NEW D, NEW E, Heard(type, c, d, D), Heard(type, d, e, E)
  PROVE  Heard(type, c, e, D \cup E)
<1>1. e.seqID = c.seqID
  BY DEF Heard
<1>2. e.knows = IF type = "SPAWN" THEN c.knows \cup {x.seqID : x \in D \cup E}
                ELSE c.knows
  <2>1. CASE type = "SPAWN"
    <3>1. /\ e.knows = d.knows \cup {x.seqID : x \in E}
          /\ d.knows = c.knows \cup {x.seqID : x \in D}
      BY <2>1 DEF Heard
    <3>2. {x.seqID : x \in D \cup E} = {x.seqID : x \in D} \cup {x.seqID : x \in E}
      OBVIOUS
    <3> QED BY <2>1, <3>1, <3>2
  <2>2. CASE type # "SPAWN"
    BY <2>2 DEF Heard
  <2> QED BY <2>1, <2>2
<1>3. ASSUME NEW i \in Ids
      PROVE  \/ \E x \in D \cup E : x.seqID = i /\ e.at[i] = x.pos
             \/ (\A x \in D \cup E : x.seqID # i) /\ e.at[i] = c.at[i]
  <2>1. \/ \E x \in E : x.seqID = i /\ e.at[i] = x.pos
        \/ (\A x \in E : x.seqID # i) /\ e.at[i] = d.at[i]
    BY DEF Heard
  <2>2. \/ \E x \in D : x.seqID = i /\ d.at[i] = x.pos
        \/ (\A x \in D : x.seqID # i) /\ d.at[i] = c.at[i]
    BY DEF Heard
  <2> QED BY <2>1, <2>2
<1> QED BY <1>1, <1>2, <1>3 DEF Heard

(* What the packets of a batch tell. *)
Told(out) == UNION {ToSet(out[n].list) : n \in DOMAIN out}

LEMMA ListsParsed ==
  ASSUME NEW type \in {"SPAWN", "MOVE"}, NEW out \in Seq(Lists(type)),
         NEW f \in [0 .. Len(out) -> Clients], Parsed(f, out)
  PROVE  Heard(type, f[0], f[Len(out)], Told(out))
<1>1. PICK N : N = Len(out)
  OBVIOUS
<1>2. N \in Nat /\ out \in [1 .. N -> Lists(type)] /\ DOMAIN out = 1 .. N
  BY <1>1, LenProperties
<1> DEFINE Part(m) == UNION {ToSet(out[n].list) : n \in 1 .. m}
<1>3. PICK S : S = {m \in 0 .. N : Heard(type, f[0], f[m], Part(m))}
  OBVIOUS
<1>4. f[0] \in Clients /\ 0 \in 0 .. N
  BY <1>1, <1>2
<1>5. 0 \in S
  <2>1. Part(0) = {}
    OBVIOUS
  <2>2. Heard(type, f[0], f[0], {})
    BY DEF Heard
  <2> QED BY <1>3, <1>4, <2>1, <2>2
<1>6. \A m \in 0 .. N - 1 : m \in S => m + 1 \in S
  <2> TAKE m \in 0 .. N - 1
  <2> HAVE m \in S
  <2>1. m + 1 \in 1 .. N /\ m + 1 \in 0 .. N /\ (m + 1) - 1 = m /\ m \in 0 .. N
    BY <1>2
  <2>2. f[m] \in Clients /\ f[m + 1] \in Clients
    BY <1>1, <2>1
  <2>3. out[m + 1] \in Lists(type)
    BY <1>2, <2>1
  <2>4. f[m + 1] = ParseClient(f[m], out[m + 1])
    BY <1>1, <2>1 DEF Parsed
  <2>5. Heard(type, f[m], f[m + 1], ToSet(out[m + 1].list))
    BY <2>2, <2>3, <2>4, ParseList
  <2>6. Heard(type, f[0], f[m], Part(m))
    BY <1>3
  <2>7. Heard(type, f[0], f[m + 1], Part(m) \cup ToSet(out[m + 1].list))
    <3> HIDE DEF Part
    <3> QED BY <1>4, <2>2, <2>5, <2>6, HeardMore
  <2>8. Part(m + 1) = Part(m) \cup ToSet(out[m + 1].list)
    <3>1. \A n : n \in 1 .. m + 1 <=> n \in 1 .. m \/ n = m + 1
      BY <2>1
    <3> QED BY <3>1
  <2> QED BY <1>3, <2>1, <2>7, <2>8
<1>7. N \in S
  <2>1. 0 .. N \subseteq S
    BY <1>2, <1>5, <1>6, UpTo
  <2> QED BY <1>2, <2>1
<1>8. Part(N) = Told(out)
  BY <1>2 DEF Told
<1> QED BY <1>1, <1>3, <1>7, <1>8

LEMMA ParseOne ==
  ASSUME NEW c \in Clients, NEW p \in Packets
  PROVE  /\ ParseClient(c, p) \in Clients
         /\ p.type = "ENTER" =>
              /\ ParseClient(c, p).seqID = p.seqID
              /\ ParseClient(c, p).knows = c.knows
              /\ ParseClient(c, p).at = c.at
         /\ p.type = "LEAVE" =>
              /\ ParseClient(c, p).seqID = c.seqID
              /\ ParseClient(c, p).knows = c.knows \ {p.seqID}
              /\ \A i \in Ids : i # p.seqID => ParseClient(c, p).at[i] = c.at[i]
         /\ p.type = "BROADCAST" => ParseClient(c, p) = c
<1>1. /\ c.at \in [Ids -> Positions \cup {Unknown}] /\ c.knows \subseteq Ids
      /\ c.seqID \in Ids /\ c.entered \in BOOLEAN
  BY DEF Clients
<1>2. PICK r : r = ParseClient(c, p)
  OBVIOUS
<1>3. CASE p \in Lists("SPAWN") \cup Lists("MOVE")
  <2>1. PICK type \in {"SPAWN", "MOVE"} : p \in Lists(type)
    BY <1>3
  <2>2. p.type = type
    BY <2>1 DEF Lists
  <2> QED BY <2>1, <2>2, ParseList
<1>4. CASE p \in [type : {"ENTER"}, room : Int, seqID : Ids]
  <2>1. p.type = "ENTER" /\ p.seqID \in Ids /\ p.room \in Int
    BY <1>4
  <2>4. PICK b : b = (p.room >= 0)
    OBVIOUS
  <2>5. b \in BOOLEAN
    BY <2>1, <2>4
  <2>2. r = [c EXCEPT !.entered = b, !.seqID = p.seqID]
    BY <1>2, <2>1, <2>4 DEF ParseClient
  <2>3. r \in Clients /\ r.seqID = p.seqID /\ r.knows = c.knows /\ r.at = c.at
    BY <1>1, <2>1, <2>2, <2>5 DEF Clients
  <2> QED BY <1>2, <2>1, <2>3
<1>5. CASE p \in [type : {"LEAVE"}, seqID : Ids]
  <2>1. p.type = "LEAVE" /\ p.seqID \in Ids
    BY <1>5
  <2>2. PICK at : at = [c.at EXCEPT ![p.seqID] = Unknown]
    OBVIOUS
  <2>3. at \in [Ids -> Positions \cup {Unknown}]
        /\ \A i \in Ids : i # p.seqID => at[i] = c.at[i]
    BY <1>1, <2>2
  <2>4. r = [c EXCEPT !.knows = c.knows \ {p.seqID}, !.at = at]
    BY <1>2, <2>1, <2>2 DEF ParseClient
  <2>5. /\ r \in Clients /\ r.seqID = c.seqID /\ r.knows = c.knows \ {p.seqID}
        /\ r.at = at
    BY <1>1, <2>3, <2>4 DEF Clients
  <2> QED BY <1>2, <2>1, <2>3, <2>5
<1>6. CASE p \in {[type |-> "BROADCAST"]}
  <2>1. p.type = "BROADCAST"
    BY <1>6
  <2>2. r = c
    BY <1>2, <2>1 DEF ParseClient
  <2> QED BY <1>2, <2>1, <2>2
<1> QED BY <1>3, <1>4, <1>5, <1>6 DEF Packets

LEMMA ReceivedOne ==
  ASSUME NEW c \in Clients, NEW p \in Packets
  PROVE  Received(c, <<p>>) = ParseClient(c, p)
<1>1. PICK ps : ps = <<p>>
  OBVIOUS
<1>2. ps \in Seq(Packets) /\ Len(ps) = 1 /\ ps[1] = p
  BY <1>1
<1>3. Closed(Clients, ps)
  BY <1>2, ParseOne DEF Closed
<1>4. PICK f : Trace(f, Clients, c, ps)
  BY <1>2, <1>3, ReceivedTrace
<1>5. f[1] = ParseClient(f[0], ps[1])
  BY <1>2, <1>4 DEF Parsed, Trace
<1> QED BY <1>1, <1>2, <1>4, <1>5 DEF Trace

LEMMA ReceivedLists ==
  ASSUME NEW c \in Clients, NEW type \in {"SPAWN", "MOVE"},
         NEW out \in Seq(Lists(type))
  PROVE  /\ Received(c, out) \in Clients
         /\ Heard(type, c, Received(c, out), Told(out))
<1>1. \A n \in 1 .. Len(out) : out[n] \in Lists(type)
  BY ElementOfSeq
<1>2. Closed(Clients, out)
  BY <1>1, ParseList DEF Closed
<1>3. PICK f : Trace(f, Clients, c, out)
  BY <1>2, ReceivedTrace
<1>4. Len(out) \in 0 .. Len(out)
  BY LenProperties
<1>5. /\ f \in [0 .. Len(out) -> Clients] /\ f[0] = c /\ Parsed(f, out)
      /\ Received(c, out) = f[Len(out)]
  BY <1>3 DEF Trace
<1> QED BY <1>4, <1>5, ListsParsed

(* The answer first, then the lists: what a newcomer gets. *)
LEMMA ReceivedAnswer ==
  ASSUME NEW c \in Clients, NEW i \in Ids, NEW out \in Seq(Lists("SPAWN"))
  PROVE  /\ Received(c, <<EnterAck(0, i)>> \o out) \in Clients
         /\ Heard("SPAWN", [c EXCEPT !.entered = TRUE, !.seqID = i],
                  Received(c, <<EnterAck(0, i)>> \o out), Told(out))
<1>1. PICK p : p = EnterAck(0, i)
  OBVIOUS
<1>2. PICK one : one = <<p>>
  OBVIOUS
<1>3. PICK ps : ps = one \o out
  OBVIOUS
<1>4. p \in Packets /\ p.type = "ENTER" /\ p.seqID = i /\ p.room = 0
  BY <1>1 DEF EnterAck, Packets
<1>5. one \in Seq(Packets) /\ Len(one) = 1 /\ one[1] = p
  BY <1>2, <1>4
<1>6. out \in Seq(Packets)
  <2>1. Lists("SPAWN") \subseteq Packets
    BY DEF Packets
  <2> QED BY <2>1
<1>7. Len(out) \in Nat
  BY LenProperties
<1>8. /\ ps \in Seq(Packets) /\ Len(ps) = 1 + Len(out) /\ ps[1] = p
      /\ \A n \in 1 .. Len(out) : ps[n + 1] = out[n]
  <2>1. /\ ps \in Seq(Packets) /\ Len(ps) = Len(one) + Len(out)
        /\ \A n \in 1 .. Len(one) + Len(out) :
              ps[n] = IF n <= Len(one) THEN one[n] ELSE out[n - Len(one)]
    BY <1>3, <1>5, <1>6, ConcatProperties
  <2>2. ps[1] = p
    BY <1>5, <1>7, <2>1
  <2>3. \A n \in 1 .. Len(out) : /\ n + 1 \in 1 .. Len(one) + Len(out)
                                 /\ ~(n + 1 <= Len(one)) /\ (n + 1) - Len(one) = n
    BY <1>5, <1>7
  <2> QED BY <1>5, <2>1, <2>2, <2>3
<1>9. Closed(Clients, ps)
  <2>1. \A n \in 1 .. Len(ps) : ps[n] \in Packets
    BY <1>8, ElementOfSeq
  <2> QED BY <2>1, ParseOne DEF Closed
<1>10. PICK f : Trace(f, Clients, c, ps)
  BY <1>8, <1>9, ReceivedTrace
<1>t. /\ f \in [0 .. Len(ps) -> Clients] /\ f[0] = c /\ Parsed(f, ps)
      /\ Received(c, ps) = f[Len(ps)]
  BY <1>10 DEF Trace
<1>11. PICK g : g = [n \in 0 .. Len(out) |-> f[n + 1]]
  OBVIOUS
<1>12. g \in [0 .. Len(out) -> Clients]
  <2>1. \A n \in 0 .. Len(out) : n + 1 \in 0 .. Len(ps)
    BY <1>7, <1>8
  <2> QED BY <1>11, <1>t, <2>1
<1>13. Parsed(g, out)
  <2> SUFFICES ASSUME NEW n \in 1 .. Len(out)
               PROVE  g[n] = ParseClient(g[n - 1], out[n])
    BY DEF Parsed
  <2>1. /\ n \in 0 .. Len(out) /\ n - 1 \in 0 .. Len(out) /\ n + 1 \in 1 .. Len(ps)
        /\ (n - 1) + 1 = n /\ (n + 1) - 1 = n
    BY <1>7, <1>8
  <2>2. g[n] = f[n + 1] /\ g[n - 1] = f[n] /\ ps[n + 1] = out[n]
    BY <1>8, <1>11, <2>1
  <2>3. f[n + 1] = ParseClient(f[(n + 1) - 1], ps[n + 1])
    BY <1>t, <2>1 DEF Parsed
  <2> QED BY <2>1, <2>2, <2>3
<1>14. Heard("SPAWN", g[0], g[Len(out)], Told(out))
  BY <1>12, <1>13, ListsParsed
<1>15. g[0] = f[1] /\ g[Len(out)] = f[Len(ps)]
  <2>1. /\ 0 \in 0 .. Len(out) /\ Len(out) \in 0 .. Len(out) /\ 0 + 1 = 1
        /\ Len(out) + 1 = Len(ps)
    BY <1>7, <1>8
  <2> QED BY <1>11, <2>1
<1>16. f[1] = ParseClient(f[0], ps[1])
  <2>1. 1 \in 1 .. Len(ps) /\ 1 - 1 = 0
    BY <1>7, <1>8
  <2> QED BY <1>t, <2>1 DEF Parsed
<1>17. ParseClient(c, p) = [c EXCEPT !.entered = TRUE, !.seqID = i]
  <2>1. PICK b : b = (p.room >= 0)
    OBVIOUS
  <2>4. 0 >= 0
    OBVIOUS
  <2>2. b = TRUE
    BY <1>4, <2>1, <2>4
  <2>3. ParseClient(c, p) = [c EXCEPT !.entered = b, !.seqID = i]
    BY <1>4, <2>1 DEF ParseClient
  <2> QED BY <2>2, <2>3
<1>18. Len(ps) \in 0 .. Len(ps)
  BY <1>8, LenProperties
<1> QED BY <1>1, <1>2, <1>3, <1>8, <1>t, <1>14, <1>15, <1>16, <1>17, <1>18

-----------------------------------------------------------------------------
(* Batches: no entry of a loop is forgotten and none is both told and lost. *)
Batches(type) == [pack : Seq(Data), out : Seq(Lists(type)), tries : Nat,
                  lost : SUBSET Data]

Holds(b) == Told(b.out) \cup ToSet(b.pack) \cup b.lost

Apart(b) == /\ Told(b.out) \cap b.lost = {}
            /\ Told(b.out) \cap ToSet(b.pack) = {}
            /\ ToSet(b.pack) \cap b.lost = {}

(* b with the entry d is `after`. *)
Adds(type, b, d, after) ==
  /\ after \in Batches(type)
  /\ Holds(after) = Holds(b) \cup {d}
  /\ Apart(b) /\ d \notin Holds(b) => Apart(after)

LEMMA AppendSet ==
  ASSUME NEW S, NEW s \in Seq(S), NEW x \in S
  PROVE  ToSet(Append(s, x)) = ToSet(s) \cup {x}
<1>1. PICK t : t = Append(s, x)
  OBVIOUS
<1>2. Len(s) \in Nat /\ DOMAIN s = 1 .. Len(s)
  BY LenProperties
<1>3. /\ t \in Seq(S) /\ Len(t) = Len(s) + 1
      /\ \A i \in 1 .. Len(s) : t[i] = s[i]
      /\ t[Len(s) + 1] = x
  BY <1>1, AppendProperties
<1>4. DOMAIN t = 1 .. Len(s) + 1
  BY <1>3, LenProperties
<1>5. \A i : i \in DOMAIN t <=> i \in DOMAIN s \/ i = Len(s) + 1
  BY <1>2, <1>4
<1>6. \A i \in DOMAIN s : t[i] = s[i]
  BY <1>2, <1>3
<1>7. \A y : (\E i \in DOMAIN t : t[i] = y) <=> (\E i \in DOMAIN s : s[i] = y) \/ y = x
  BY <1>3, <1>5, <1>6
<1> QED BY <1>1, <1>7 DEF ToSet

LEMMA SmallSets ==
  ToSet(<<>>) = {} /\ \A x : ToSet(<<x>>) = {x}
<1>1. DOMAIN <<>> = {} /\ \A x : DOMAIN <<x>> = {1} /\ <<x>>[1] = x
  OBVIOUS
<1> QED BY <1>1 DEF ToSet

LEMMA ToldMore ==
  ASSUME NEW type, NEW out \in Seq(Lists(type)), NEW p \in Lists(type)
  PROVE  Told(Append(out, p)) = Told(out) \cup ToSet(p.list)
<1>1. ToSet(Append(out, p)) = ToSet(out) \cup {p}
  BY AppendSet
<1>2. \A o : Told(o) = UNION {ToSet(q.list) : q \in ToSet(o)}
  BY DEF Told, ToSet
<1> QED BY <1>1, <1>2

LEMMA AddSpawn ==
  ASSUME NEW b \in Batches("SPAWN"), NEW d \in Data, NEW bad
  PROVE  Adds("SPAWN", b, d, AddSpawnData(b, d, bad))
<1>1. PICK after : after = AddSpawnData(b, d, bad)
  OBVIOUS
<1>2. /\ b.pack \in Seq(Data) /\ b.out \in Seq(Lists("SPAWN")) /\ b.tries \in Nat
      /\ b.lost \subseteq Data /\ b.tries + 1 \in Nat
  BY DEF Batches
<1>3. PICK n : n = b.tries + 1
  OBVIOUS
<1>4. CASE Len(b.pack) < MaxSendSpawnCount
  <2>1. after = [b EXCEPT !.pack = Append(b.pack, d)]
    BY <1>1, <1>4 DEF AddSpawnData
  <2>2. PICK pack : pack = Append(b.pack, d)
    OBVIOUS
  <2>3. pack \in Seq(Data) /\ ToSet(pack) = ToSet(b.pack) \cup {d}
    BY <1>2, <2>2, AppendSet, AppendProperties
  <2>4. /\ after \in Batches("SPAWN") /\ after.pack = pack /\ after.out = b.out
        /\ after.lost = b.lost
    BY <1>2, <2>1, <2>2, <2>3 DEF Batches
  <2>5. Holds(after) = Holds(b) \cup {d}
    BY <2>3, <2>4 DEF Holds
  <2>6. Apart(b) /\ d \notin Holds(b) => Apart(after)
    BY <2>3, <2>4 DEF Holds, Apart
  <2> QED BY <1>1, <2>4, <2>5, <2>6 DEF Adds
<1>5. CASE ~(Len(b.pack) < MaxSendSpawnCount) /\ n \in bad
  <2>1. after = [b EXCEPT !.tries = n, !.lost = b.lost \cup {d}]
    BY <1>1, <1>3, <1>5 DEF AddSpawnData
  <2>2. PICK lost : lost = b.lost \cup {d}
    OBVIOUS
  <2>3. lost \subseteq Data
    BY <1>2, <2>2
  <2>4. /\ after \in Batches("SPAWN") /\ after.pack = b.pack /\ after.out = b.out
        /\ after.lost = lost
    BY <1>2, <1>3, <2>1, <2>2, <2>3 DEF Batches
  <2>5. Holds(after) = Holds(b) \cup {d}
    BY <2>2, <2>4 DEF Holds
  <2>6. Apart(b) /\ d \notin Holds(b) => Apart(after)
    BY <2>2, <2>4 DEF Holds, Apart
  <2> QED BY <1>1, <2>4, <2>5, <2>6 DEF Adds
<1>6. CASE ~(Len(b.pack) < MaxSendSpawnCount) /\ n \notin bad
  <2>1. after = [b EXCEPT !.pack = <<d>>, !.out = Append(b.out, Spawn(b.pack)),
                          !.tries = n]
    BY <1>1, <1>3, <1>6 DEF AddSpawnData
  <2>2. PICK p : p = Spawn(b.pack)
    OBVIOUS
  <2>3. p \in Lists("SPAWN") /\ p.list = b.pack
    BY <1>2, <2>2 DEF Spawn, Lists
  <2>4. PICK out : out = Append(b.out, p)
    OBVIOUS
  <2>5. out \in Seq(Lists("SPAWN")) /\ Told(out) = Told(b.out) \cup ToSet(b.pack)
    BY <1>2, <2>3, <2>4, ToldMore, AppendProperties
  <2>6. PICK one : one = <<d>>
    OBVIOUS
  <2>7. one \in Seq(Data) /\ ToSet(one) = {d}
    BY <2>6, SmallSets
  <2>8. after = [b EXCEPT !.pack = one, !.out = out, !.tries = n]
    BY <2>1, <2>2, <2>4, <2>6
  <2>9. /\ after \in Batches("SPAWN") /\ after.pack = one /\ after.out = out
        /\ after.lost = b.lost
    BY <1>2, <1>3, <2>5, <2>7, <2>8 DEF Batches
  <2>10. Holds(after) = Holds(b) \cup {d}
    BY <2>5, <2>7, <2>9 DEF Holds
  <2>11. Apart(b) /\ d \notin Holds(b) => Apart(after)
    BY <2>5, <2>7, <2>9 DEF Holds, Apart
  <2> QED BY <1>1, <2>9, <2>10, <2>11 DEF Adds
<1> QED BY <1>4, <1>5, <1>6

LEMMA AddMove ==
  ASSUME NEW b \in Batches("MOVE"), NEW d \in Data, NEW bad
  PROVE  Adds("MOVE", b, d, AddMoveData(b, d, bad))
<1>1. PICK after : after = AddMoveData(b, d, bad)
  OBVIOUS
<1>2. /\ b.pack \in Seq(Data) /\ b.out \in Seq(Lists("MOVE")) /\ b.tries \in Nat
      /\ b.lost \subseteq Data /\ b.tries + 1 \in Nat
  BY DEF Batches
<1>3. PICK n : n = b.tries + 1
  OBVIOUS
<1>4. CASE Len(b.pack) < MaxSendMoveCount
  <2>1. after = [b EXCEPT !.pack = Append(b.pack, d)]
    BY <1>1, <1>4 DEF AddMoveData
  <2>2. PICK pack : pack = Append(b.pack, d)
    OBVIOUS
  <2>3. pack \in Seq(Data) /\ ToSet(pack) = ToSet(b.pack) \cup {d}
    BY <1>2, <2>2, AppendSet, AppendProperties
  <2>4. /\ after \in Batches("MOVE") /\ after.pack = pack /\ after.out = b.out
        /\ after.lost = b.lost
    BY <1>2, <2>1, <2>2, <2>3 DEF Batches
  <2>5. Holds(after) = Holds(b) \cup {d}
    BY <2>3, <2>4 DEF Holds
  <2>6. Apart(b) /\ d \notin Holds(b) => Apart(after)
    BY <2>3, <2>4 DEF Holds, Apart
  <2> QED BY <1>1, <2>4, <2>5, <2>6 DEF Adds
<1>5. PICK one : one = <<d>>
  OBVIOUS
<1>6. one \in Seq(Data) /\ ToSet(one) = {d}
  BY <1>5, SmallSets
<1>7. CASE ~(Len(b.pack) < MaxSendMoveCount) /\ n \in bad
  <2>1. PICK lost : lost = b.lost \cup ToSet(b.pack)
    OBVIOUS
  <2>2. after = [b EXCEPT !.pack = one, !.tries = n, !.lost = lost]
    BY <1>1, <1>3, <1>5, <1>7, <2>1 DEF AddMoveData
  <2>3. lost \subseteq Data
    <3>1. ToSet(b.pack) \subseteq Data
      BY <1>2, LenProperties DEF ToSet
    <3> QED BY <1>2, <2>1, <3>1
  <2>4. /\ after \in Batches("MOVE") /\ after.pack = one /\ after.out = b.out
        /\ after.lost = lost
    BY <1>2, <1>3, <1>6, <2>2, <2>3 DEF Batches
  <2>5. Holds(after) = Holds(b) \cup {d}
    BY <1>6, <2>1, <2>4 DEF Holds
  <2>6. Apart(b) /\ d \notin Holds(b) => Apart(after)
    BY <1>6, <2>1, <2>4 DEF Holds, Apart
  <2> QED BY <1>1, <2>4, <2>5, <2>6 DEF Adds
<1>8. CASE ~(Len(b.pack) < MaxSendMoveCount) /\ n \notin bad
  <2>1. PICK p : p = MoveAck(b.pack)
    OBVIOUS
  <2>2. p \in Lists("MOVE") /\ p.list = b.pack
    BY <1>2, <2>1 DEF MoveAck, Lists
  <2>3. PICK out : out = Append(b.out, p)
    OBVIOUS
  <2>4. out \in Seq(Lists("MOVE")) /\ Told(out) = Told(b.out) \cup ToSet(b.pack)
    BY <1>2, <2>2, <2>3, ToldMore, AppendProperties
  <2>5. after = [b EXCEPT !.pack = one, !.out = out, !.tries = n]
    BY <1>1, <1>3, <1>5, <1>8, <2>1, <2>3 DEF AddMoveData
  <2>6. /\ after \in Batches("MOVE") /\ after.pack = one /\ after.out = out
        /\ after.lost = b.lost
    BY <1>2, <1>3, <1>6, <2>4, <2>5 DEF Batches
  <2>7. Holds(after) = Holds(b) \cup {d}
    BY <1>6, <2>4, <2>6 DEF Holds
  <2>8. Apart(b) /\ d \notin Holds(b) => Apart(after)
    BY <1>6, <2>4, <2>6 DEF Holds, Apart
  <2> QED BY <1>1, <2>6, <2>7, <2>8 DEF Adds
<1> QED BY <1>4, <1>7, <1>8

(* What the packets of a job say of the entries in D. *)
Says(type, b, D) ==
  /\ b.out \in Seq(Lists(type))
  /\ Told(b.out) \cup b.lost = D
  /\ Told(b.out) \cap b.lost = {}

LEMMA LastSays ==
  ASSUME NEW type, NEW b \in Batches(type), NEW bad, Apart(b)
  PROVE  Says(type, LastBatch(b, [type |-> type, list |-> b.pack], bad), Holds(b))
<1>1. PICK p : p = [type |-> type, list |-> b.pack]
  OBVIOUS
<1>2. PICK last : last = LastBatch(b, p, bad)
  OBVIOUS
<1>3. /\ b.pack \in Seq(Data) /\ b.out \in Seq(Lists(type)) /\ b.lost \subseteq Data
  BY DEF Batches
<1>4. p \in Lists(type) /\ p.list = b.pack
  BY <1>1, <1>3 DEF Lists
<1>5. CASE b.pack = <<>>
  <2>1. last = b /\ ToSet(b.pack) = {}
    BY <1>2, <1>5, SmallSets DEF LastBatch
  <2> QED BY <1>1, <1>2, <1>3, <2>1 DEF Says, Holds, Apart
<1>6. CASE b.pack # <<>> /\ b.tries + 1 \in bad
  <2>1. last = [b EXCEPT !.tries = b.tries + 1, !.lost = b.lost \cup ToSet(b.pack)]
    BY <1>2, <1>6 DEF LastBatch
  <2>2. last.out = b.out /\ last.lost = b.lost \cup ToSet(b.pack)
    BY <2>1 DEF Batches
  <2> QED BY <1>1, <1>2, <1>3, <2>2 DEF Says, Holds, Apart
<1>7. CASE b.pack # <<>> /\ b.tries + 1 \notin bad
  <2>1. PICK out : out = Append(b.out, p)
    OBVIOUS
  <2>2. out \in Seq(Lists(type)) /\ Told(out) = Told(b.out) \cup ToSet(b.pack)
    BY <1>3, <1>4, <2>1, ToldMore, AppendProperties
  <2>3. last = [b EXCEPT !.out = out, !.tries = b.tries + 1]
    BY <1>2, <1>7, <2>1 DEF LastBatch
  <2>4. last.out = out /\ last.lost = b.lost
    BY <2>3 DEF Batches
  <2> QED BY <1>1, <1>2, <2>2, <2>4 DEF Says, Holds, Apart
<1> QED BY <1>5, <1>6, <1>7

(* D in a line, every element once. *)
Line(d, N, D) ==
  /\ N \in Nat /\ d \in [1 .. N -> Data]
  /\ \A i, j \in 1 .. N : d[i] = d[j] => i = j
  /\ {d[n] : n \in 1 .. N} = D

(* The batches of a loop over N entries, b[0] .. b[N]. *)
Loop(type, b, N, d) ==
  /\ \E t \in Nat : b[0] = EmptyBatch(t)
  /\ \A n \in 1 .. N : b[n - 1] \in Batches(type) => Adds(type, b[n - 1], d[n], b[n])

LEMMA LoopHolds ==
  ASSUME NEW type, NEW N, NEW d, NEW D, Line(d, N, D), NEW b, Loop(type, b, N, d)
  PROVE  /\ b[N] \in Batches(type) /\ Apart(b[N])
         /\ Holds(b[N]) = D
<1>l. /\ N \in Nat /\ d \in [1 .. N -> Data]
      /\ \A i, j \in 1 .. N : d[i] = d[j] => i = j
      /\ {d[n] : n \in 1 .. N} = D
  BY DEF Line
<1>t. PICK t \in Nat : b[0] = EmptyBatch(t)
  BY DEF Loop
<1> DEFINE Part(m) == {d[n] : n \in 1 .. m}
<1>1. PICK S : S = {m \in 0 .. N : /\ b[m] \in Batches(type) /\ Apart(b[m])
                                   /\ Holds(b[m]) = Part(m)}
  OBVIOUS
<1>2. 0 \in S
  <2>1. PICK e : e = EmptyBatch(t)
    OBVIOUS
  <2>2. e.pack = <<>> /\ e.out = <<>> /\ e.tries = t /\ e.lost = {}
    BY <2>1 DEF EmptyBatch
  <2>3. e \in Batches(type)
    <3>1. <<>> \in Seq(Data) /\ <<>> \in Seq(Lists(type)) /\ {} \subseteq Data
      OBVIOUS
    <3>2. e = [pack |-> <<>>, out |-> <<>>, tries |-> t, lost |-> {}]
      BY <2>1 DEF EmptyBatch
    <3> QED BY <3>1, <3>2 DEF Batches
  <2>4. Told(<<>>) = {} /\ ToSet(<<>>) = {}
    <3>1. DOMAIN <<>> = {}
      OBVIOUS
    <3> QED BY <3>1, SmallSets DEF Told
  <2>5. Holds(e) = {} /\ Apart(e)
    BY <2>2, <2>4 DEF Holds, Apart
  <2>6. Part(0) = {} /\ 0 \in 0 .. N
    BY <1>l
  <2> QED BY <1>1, <1>t, <2>1, <2>3, <2>5, <2>6
<1>3. \A m \in 0 .. N - 1 : m \in S => m + 1 \in S
  <2> TAKE m \in 0 .. N - 1
  <2> HAVE m \in S
  <2>1. m + 1 \in 1 .. N /\ m + 1 \in 0 .. N /\ (m + 1) - 1 = m
    BY <1>l
  <2>2. b[m] \in Batches(type) /\ Apart(b[m]) /\ Holds(b[m]) = Part(m)
    BY <1>1
  <2>3. Adds(type, b[m], d[m + 1], b[m + 1])
    BY <2>1, <2>2 DEF Loop
  <2>4. d[m + 1] \notin Part(m)
    <3>1. \A n \in 1 .. m : n \in 1 .. N /\ n # m + 1
      BY <1>l
    <3> QED BY <1>l, <2>1, <3>1
  <2>5. Part(m + 1) = Part(m) \cup {d[m + 1]}
    <3>1. \A n : n \in 1 .. m + 1 <=> n \in 1 .. m \/ n = m + 1
      BY <1>l
    <3> QED BY <3>1
  <2>6. /\ b[m + 1] \in Batches(type) /\ Apart(b[m + 1])
        /\ Holds(b[m + 1]) = Part(m + 1)
    <3> HIDE DEF Part
    <3> QED BY <2>2, <2>3, <2>4, <2>5 DEF Adds
  <2> QED BY <1>1, <2>1, <2>6
<1>4. N \in S
  <2>1. 0 .. N \subseteq S
    BY <1>2, <1>3, <1>l, UpTo
  <2> QED BY <1>l, <2>1
<1> QED BY <1>1, <1>4, <1>l

(* The keys of a finite set, each once. *)
Ordered(keys, K) ==
  /\ keys \in [1 .. Cardinality(K) -> K]
  /\ \A i, j \in 1 .. Cardinality(K) : keys[i] = keys[j] => i = j
  /\ \A k \in K : \E i \in 1 .. Cardinality(K) : keys[i] = k

LEMMA MapOrder ==
  ASSUME NEW K, K \subseteq Nat, IsFiniteSet(K)
  PROVE  Ordered(InMapOrder(K), K)
<1>k. PICK keys : keys = InMapOrder(K)
  OBVIOUS
<1>1. PICK N : N = Cardinality(K)
  OBVIOUS
<1>2. N \in Nat
  BY <1>1, FS_CardinalityType
<1> DEFINE Below(k) == {j \in K : j <= k}
<1>3. PICK rank : rank = [k \in K |-> Cardinality(Below(k))]
  OBVIOUS
<1>4. ASSUME NEW k \in K
      PROVE  IsFiniteSet(Below(k)) /\ rank[k] \in 1 .. N
  <2>1. Below(k) \in SUBSET K
    OBVIOUS
  <2>2. IsFiniteSet(Below(k)) /\ Cardinality(Below(k)) <= N
    BY <1>1, <2>1, FS_Subset
  <2>3. k \in Below(k)
    OBVIOUS
  <2>4. Cardinality(Below(k)) \in Nat /\ Cardinality(Below(k)) # 0
    BY <2>2, <2>3, FS_CardinalityType, FS_EmptySet
  <2>5. rank[k] = Cardinality(Below(k))
    BY <1>3
  <2> HIDE DEF Below
  <2> QED BY <1>2, <2>2, <2>4, <2>5
<1>5. \A j, k \in K : rank[j] = rank[k] => j = k
  <2>1. ASSUME NEW j \in K, NEW k \in K, rank[j] = rank[k], j < k
        PROVE  FALSE
    <3>0. K \subseteq Int /\ j \in Int /\ k \in Int /\ k <= k /\ ~(k <= j)
      BY <2>1
    <3>a. \A i \in K : i <= j => i <= k
      BY <2>1, <3>0
    <3>1. Below(j) \in SUBSET Below(k) /\ k \in Below(k) /\ k \notin Below(j)
      BY <3>0, <3>a
    <3>2. Cardinality(Below(k)) = Cardinality(Below(j))
      BY <1>3, <2>1
    <3>3. Below(k) = Below(j)
      <4> HIDE DEF Below
      <4> QED BY <1>4, <3>1, <3>2, FS_Subset
    <3> QED BY <3>1, <3>3
  <2> SUFFICES ASSUME NEW j \in K, NEW k \in K, rank[j] = rank[k] PROVE j = k
    OBVIOUS
  <2>2. j < k \/ k < j \/ j = k
    OBVIOUS
  <2> QED BY <2>1, <2>2
<1>6. rank \in Injection(K, 1 .. N)
  BY <1>3, <1>4, <1>5 DEF Injection, IsInjective
<1>7. rank \in Surjection(K, 1 .. N)
  <2>1. IsFiniteSet(1 .. N) /\ Cardinality(1 .. N) = N
    BY <1>2, FS_Interval
  <2> QED BY <1>1, <1>6, <2>1, FS_Injection
<1>8. \A n \in 1 .. N : \E k \in K : rank[k] = n
  BY <1>7 DEF Surjection
<1>9. \A n \in 1 .. N : keys[n] = CHOOSE k \in K : Cardinality(Below(k)) = n
  BY <1>1, <1>k DEF InMapOrder
<1>10. \A n \in 1 .. N : keys[n] \in K /\ rank[keys[n]] = n
  <2> TAKE n \in 1 .. N
  <2>1. \E k \in K : Cardinality(Below(k)) = n
    BY <1>3, <1>8
  <2>2. keys[n] \in K /\ Cardinality(Below(keys[n])) = n
    <3> HIDE DEF Below
    <3> QED BY <1>9, <2>1
  <2> QED BY <1>3, <2>2
<1>11. keys \in [1 .. N -> K]
  <2>1. keys = [n \in 1 .. N |-> CHOOSE k \in K : Cardinality(Below(k)) = n]
    BY <1>1, <1>k DEF InMapOrder
  <2> HIDE DEF Below
  <2> QED BY <1>10, <2>1
<1>12. \A i, j \in 1 .. N : keys[i] = keys[j] => i = j
  <2> TAKE i, j \in 1 .. N
  <2>1. rank[keys[i]] = i /\ rank[keys[j]] = j
    BY <1>10
  <2> QED BY <2>1
<1>13. \A k \in K : \E i \in 1 .. N : keys[i] = k
  <2> TAKE k \in K
  <2>1. rank[k] \in 1 .. N
    BY <1>4
  <2>2. keys[rank[k]] \in K /\ rank[keys[rank[k]]] = rank[k]
    BY <1>10, <2>1
  <2>3. keys[rank[k]] = k
    BY <1>5, <2>2
  <2> QED BY <2>1, <2>3
<1> QED BY <1>1, <1>k, <1>11, <1>12, <1>13 DEF Ordered

(* K is a set of members, told apart by their ids. *)
Tellable(K, users) ==
  /\ K \subseteq Nat /\ IsFiniteSet(K)
  /\ \A k \in K : Datum(users[k]) \in Data
  /\ \A j, k \in K : users[j].seqID = users[k].seqID => j = k

(* The entries of K in the order of the loop. *)
DataOf(K, users) ==
  [n \in 1 .. Cardinality(K) |-> Datum(users[InMapOrder(K)[n]])]

LEMMA InOrder ==
  ASSUME NEW K, NEW users, Tellable(K, users)
  PROVE  Line(DataOf(K, users), Cardinality(K), {Datum(users[k]) : k \in K})
<1>k. PICK keys : keys = InMapOrder(K)
  OBVIOUS
<1>d. PICK d : d = DataOf(K, users)
  OBVIOUS
<1>e. d = [n \in 1 .. Cardinality(K) |-> Datum(users[keys[n]])]
  BY <1>d, <1>k DEF DataOf
<1>1. PICK N : N = Cardinality(K)
  OBVIOUS
<1>2. /\ K \subseteq Nat /\ IsFiniteSet(K)
      /\ \A k \in K : Datum(users[k]) \in Data
      /\ \A j, k \in K : users[j].seqID = users[k].seqID => j = k
  BY DEF Tellable
<1>3. N \in Nat
  BY <1>1, <1>2, FS_CardinalityType
<1>4. /\ keys \in [1 .. N -> K]
      /\ \A i, j \in 1 .. N : keys[i] = keys[j] => i = j
      /\ \A k \in K : \E i \in 1 .. N : keys[i] = k
  <2>1. Ordered(keys, K)
    BY <1>2, <1>k, MapOrder
  <2> QED BY <1>1, <2>1 DEF Ordered
<1>5. d \in [1 .. N -> Data]
  BY <1>e, <1>1, <1>2, <1>4
<1>6. \A i, j \in 1 .. N : d[i] = d[j] => i = j
  <2> TAKE i, j \in 1 .. N
  <2> HAVE d[i] = d[j]
  <2>1. Datum(users[keys[i]]) = Datum(users[keys[j]])
    BY <1>1, <1>e
  <2>2. users[keys[i]].seqID = users[keys[j]].seqID
    BY <2>1 DEF Datum
  <2>3. keys[i] \in K /\ keys[j] \in K
    BY <1>4
  <2> QED BY <1>2, <1>4, <2>2, <2>3
<1>7. {d[n] : n \in 1 .. N} = {Datum(users[k]) : k \in K}
  <2>1. \A n \in 1 .. N : keys[n] \in K /\ d[n] = Datum(users[keys[n]])
    BY <1>1, <1>4, <1>e
  <2>2. \A k \in K : \E n \in 1 .. N : d[n] = Datum(users[k])
    BY <1>4, <2>1
  <2> QED BY <2>1, <2>2
<1> QED BY <1>1, <1>3, <1>5, <1>6, <1>7, <1>d DEF Line

(* Every member is told of, or lost, and not both. *)
LEMMA GreetingSays ==
  ASSUME NEW K, Tellable(K, roomUser), NEW bad
  PROVE  Says("SPAWN", Greeting(K, bad), {Datum(roomUser[k]) : k \in K})
<1>1. PICK keys : keys = InMapOrder(K)
  OBVIOUS
<1>2. PICK N : N = Cardinality(K)
  OBVIOUS
<1>3. PICK d : d = [n \in 1 .. N |-> Datum(roomUser[keys[n]])]
  OBVIOUS
<1>a. PICK D : D = {Datum(roomUser[k]) : k \in K}
  OBVIOUS
<1>b. Line(d, N, D)
  <2>1. d = DataOf(K, roomUser)
    BY <1>1, <1>2, <1>3 DEF DataOf
  <2>2. Line(DataOf(K, roomUser), Cardinality(K), {Datum(roomUser[k]) : k \in K})
    BY InOrder
  <2> QED BY <1>2, <1>a, <2>1, <2>2
<1>4. N \in Nat /\ d \in [1 .. N -> Data]
  BY <1>b DEF Line
<1> DEFINE V == Batches("SPAWN")
           Eq(g) == g = [n \in 0 .. N |->
                           IF n = 0 THEN EmptyBatch(2)
                           ELSE AddSpawnData(g[n - 1], Datum(roomUser[keys[n]]), bad)]
<1>5. PICK step : step = [n \in 1 .. N |-> [v \in V |-> AddSpawnData(v, d[n], bad)]]
  OBVIOUS
<1>6. step \in [1 .. N -> [V -> V]]
  <2>1. \A n \in 1 .. N, v \in V : AddSpawnData(v, d[n], bad) \in V
    BY <1>4, AddSpawn DEF Adds
  <2> QED BY <1>5, <2>1
<1>7. PICK e : e = EmptyBatch(2)
  OBVIOUS
<1>8. e \in V
  <2>1. <<>> \in Seq(Data) /\ <<>> \in Seq(Lists("SPAWN")) /\ {} \subseteq Data
    OBVIOUS
  <2> QED BY <1>7, <2>1 DEF EmptyBatch, Batches
<1>9. PICK f : f \in Solutions(N, V, e, step)
  BY <1>4, <1>6, <1>8, Recursion
<1>10. /\ f \in [0 .. N -> V] /\ f[0] = e
       /\ \A n \in 1 .. N : f[n] = step[n][f[n - 1]]
  BY <1>9 DEF Solutions
<1>11. \A n \in 1 .. N : f[n] = AddSpawnData(f[n - 1], d[n], bad)
  <2> TAKE n \in 1 .. N
  <2>1. n - 1 \in 0 .. N
    BY <1>4
  <2>2. f[n - 1] \in V
    BY <1>10, <2>1
  <2> QED BY <1>5, <1>10, <2>2
<1>12. \E h : Eq(h)
  <2>1. PICK h : h = [n \in 0 .. N |-> IF n = 0 THEN e ELSE f[n]]
    OBVIOUS
  <2>2. \A n \in 0 .. N : n # 0 => n \in 1 .. N /\ n - 1 \in 0 .. N
    BY <1>4
  <2>3. h = f
    BY <1>10, <2>1
  <2>4. \A n \in 1 .. N : d[n] = Datum(roomUser[keys[n]])
    BY <1>3
  <2>5. Eq(h)
    BY <1>7, <1>10, <1>11, <2>1, <2>2, <2>3, <2>4
  <2> QED BY <2>5
<1>13. PICK batch : batch = CHOOSE h : Eq(h)
  OBVIOUS
<1>14. Eq(batch)
  BY <1>12, <1>13
<1>15. batch[0] = EmptyBatch(2)
       /\ \A n \in 1 .. N : batch[n] = AddSpawnData(batch[n - 1], d[n], bad)
  <2>1. 0 \in 0 .. N /\ \A n \in 1 .. N : n \in 0 .. N /\ n # 0
    BY <1>4
  <2>2. \A n \in 1 .. N : d[n] = Datum(roomUser[keys[n]])
    BY <1>3
  <2> QED BY <1>14, <2>1, <2>2
<1>16. Loop("SPAWN", batch, N, d)
  <2>1. 2 \in Nat
    OBVIOUS
  <2>2. \E t \in Nat : batch[0] = EmptyBatch(t)
    BY <1>15, <2>1
  <2> QED BY <1>4, <1>15, <2>2, AddSpawn DEF Loop
<1>17. PICK b : b = batch[N]
  OBVIOUS
<1>18. b \in V /\ Apart(b) /\ Holds(b) = D
  BY <1>b, <1>16, <1>17, LoopHolds
<1>19. Greeting(K, bad) = LastBatch(b, Spawn(b.pack), bad)
  BY <1>1, <1>2, <1>13, <1>17 DEF Greeting
<1>20. Spawn(b.pack) = [type |-> "SPAWN", list |-> b.pack]
  BY DEF Spawn
<1>21. Says("SPAWN", LastBatch(b, [type |-> "SPAWN", list |-> b.pack], bad), Holds(b))
  BY <1>18, LastSays
<1> QED BY <1>a, <1>18, <1>19, <1>20, <1>21

(* Every mover is told of, or lost, and not both. *)
LEMMA SnapshotSays ==
  ASSUME NEW users, NEW K, Tellable(K, users), NEW bad
  PROVE  Says("MOVE", Snapshot(users, K, bad), {Datum(users[k]) : k \in K})
<1>1. PICK keys : keys = InMapOrder(K)
  OBVIOUS
<1>2. PICK N : N = Cardinality(K)
  OBVIOUS
<1>3. PICK d : d = [n \in 1 .. N |-> Datum(users[keys[n]])]
  OBVIOUS
<1>a. PICK D : D = {Datum(users[k]) : k \in K}
  OBVIOUS
<1>b. Line(d, N, D)
  <2>1. d = DataOf(K, users)
    BY <1>1, <1>2, <1>3 DEF DataOf
  <2>2. Line(DataOf(K, users), Cardinality(K), {Datum(users[k]) : k \in K})
    BY InOrder
  <2> QED BY <1>2, <1>a, <2>1, <2>2
<1>4. N \in Nat /\ d \in [1 .. N -> Data]
  BY <1>b DEF Line
<1> DEFINE V == Batches("MOVE")
           Eq(g) == g = [n \in 0 .. N |->
                           IF n = 0 THEN EmptyBatch(0)
                           ELSE AddMoveData(g[n - 1], Datum(users[keys[n]]), bad)]
<1>5. PICK step : step = [n \in 1 .. N |-> [v \in V |-> AddMoveData(v, d[n], bad)]]
  OBVIOUS
<1>6. step \in [1 .. N -> [V -> V]]
  <2>1. \A n \in 1 .. N, v \in V : AddMoveData(v, d[n], bad) \in V
    BY <1>4, AddMove DEF Adds
  <2> QED BY <1>5, <2>1
<1>7. PICK e : e = EmptyBatch(0)
  OBVIOUS
<1>8. e \in V
  <2>1. <<>> \in Seq(Data) /\ <<>> \in Seq(Lists("MOVE")) /\ {} \subseteq Data
    OBVIOUS
  <2> QED BY <1>7, <2>1 DEF EmptyBatch, Batches
<1>9. PICK f : f \in Solutions(N, V, e, step)
  BY <1>4, <1>6, <1>8, Recursion
<1>10. /\ f \in [0 .. N -> V] /\ f[0] = e
       /\ \A n \in 1 .. N : f[n] = step[n][f[n - 1]]
  BY <1>9 DEF Solutions
<1>11. \A n \in 1 .. N : f[n] = AddMoveData(f[n - 1], d[n], bad)
  <2> TAKE n \in 1 .. N
  <2>1. n - 1 \in 0 .. N
    BY <1>4
  <2>2. f[n - 1] \in V
    BY <1>10, <2>1
  <2> QED BY <1>5, <1>10, <2>2
<1>12. \E h : Eq(h)
  <2>1. PICK h : h = [n \in 0 .. N |-> IF n = 0 THEN e ELSE f[n]]
    OBVIOUS
  <2>2. \A n \in 0 .. N : n # 0 => n \in 1 .. N /\ n - 1 \in 0 .. N
    BY <1>4
  <2>3. h = f
    BY <1>10, <2>1
  <2>4. \A n \in 1 .. N : d[n] = Datum(users[keys[n]])
    BY <1>3
  <2>5. Eq(h)
    BY <1>7, <1>10, <1>11, <2>1, <2>2, <2>3, <2>4
  <2> QED BY <2>5
<1>13. PICK batch : batch = CHOOSE h : Eq(h)
  OBVIOUS
<1>14. Eq(batch)
  BY <1>12, <1>13
<1>15. batch[0] = EmptyBatch(0)
       /\ \A n \in 1 .. N : batch[n] = AddMoveData(batch[n - 1], d[n], bad)
  <2>1. 0 \in 0 .. N /\ \A n \in 1 .. N : n \in 0 .. N /\ n # 0
    BY <1>4
  <2>2. \A n \in 1 .. N : d[n] = Datum(users[keys[n]])
    BY <1>3
  <2> QED BY <1>14, <2>1, <2>2
<1>16. Loop("MOVE", batch, N, d)
  <2>1. 0 \in Nat
    OBVIOUS
  <2>2. \E t \in Nat : batch[0] = EmptyBatch(t)
    BY <1>15, <2>1
  <2> QED BY <1>4, <1>15, <2>2, AddMove DEF Loop
<1>17. PICK b : b = batch[N]
  OBVIOUS
<1>18. b \in V /\ Apart(b) /\ Holds(b) = D
  BY <1>b, <1>16, <1>17, LoopHolds
<1>19. Snapshot(users, K, bad) = LastBatch(b, MoveAck(b.pack), bad)
  BY <1>1, <1>2, <1>13, <1>17 DEF Snapshot
<1>20. MoveAck(b.pack) = [type |-> "MOVE", list |-> b.pack]
  BY DEF MoveAck
<1>21. Says("MOVE", LastBatch(b, [type |-> "MOVE", list |-> b.pack], bad), Holds(b))
  BY <1>18, LastSays
<1> QED BY <1>a, <1>18, <1>19, <1>20, <1>21

-----------------------------------------------------------------------------
(* Members, entries and clients agree; nobody set out in the future. *)
Matched ==
  /\ \A s \in Sessions : connected[s] => /\ SocketOf[s] \in Occupied
                                         /\ roomUser[SocketOf[s]].session = s
                                         /\ roomUser[SocketOf[s]].seqID = client[s].seqID
  /\ \A k \in Occupied : /\ connected[roomUser[k].session]
                         /\ SocketOf[roomUser[k].session] = k
  /\ \A s \in Sessions : ~connected[s] => client[s].knows = {}

Timed == \A k \in Occupied : roomUser[k].start <= clock

RoomInv == TypeOK /\ IdInv /\ Matched /\ Timed

LEMMA OccupiedUsers ==
  ASSUME TypeOK, NEW k \in Occupied
  PROVE  /\ k \in Keys /\ k \in Nat /\ roomUser[k] \in Users
         /\ roomUser[k].session \in Sessions /\ roomUser[k].seqID \in Ids
         /\ roomUser[k].pos \in Positions
<1>1. k \in Keys /\ roomUser[k] # NoUser
  BY DEF Occupied
<1>2. roomUser[k] \in Users
  BY <1>1 DEF TypeOK
<1>3. k \in Nat
  BY <1>1, RoomAssumption DEF Keys
<1> QED BY <1>1, <1>2, <1>3 DEF Users

LEMMA UserEntry ==
  ASSUME NEW u \in Users
  PROVE  u \in Entries /\ u # NoUser
<1>1. /\ u = [session |-> u.session, seqID |-> u.seqID, pos |-> u.pos,
              dest |-> u.dest, isMove |-> u.isMove, start |-> u.start, end |-> u.end]
      /\ u.session \in Sessions /\ u.isMove \in BOOLEAN
      /\ u.seqID \in Ids /\ u.pos \in Positions /\ u.dest \in Positions
      /\ u.start \in Nat /\ u.end \in Nat
  BY DEF Users
<1>2. u.seqID \in Int /\ u.pos \in Int /\ u.dest \in Int
  BY <1>1, RoomAssumption DEF Ids, Positions
<1>3. u \in Entries
  BY <1>1, <1>2 DEF Entries
<1> QED BY <1>3, NotUser

(* Members are the sessions that are connected. *)
LEMMA MembersConnected ==
  ASSUME TypeOK, Matched, NEW t \in Sessions
  PROVE  connected[t] <=> \E k \in Occupied : roomUser[k].session = t
BY OccupiedUsers DEF Matched

LEMMA OthersConnected ==
  ASSUME TypeOK, Matched, NEW t \in Sessions, NEW s
  PROVE  (\E k \in Others(s) : roomUser[k].session = t) <=> connected[t] /\ t # s
BY MembersConnected DEF Others

(* At most the failures that the bound leaves are counted. *)
LEMMA CountBound ==
  ASSUME TypeOK, NEW bad \in Failures, NEW tries, Count(bad, tries)
  PROVE  fails' \in 0 .. limit.fails
<1>1. limit.fails \in Nat /\ fails \in 0 .. limit.fails
  BY RoomAssumption DEF TypeOK
<1>2. PICK n \in 0 .. limit.fails - fails : bad \in kSubset(n, 1 .. MaxTries)
  BY DEF Failures
<1>3. bad \in SUBSET (1 .. MaxTries) /\ Cardinality(bad) = n
  BY <1>2 DEF kSubset
<1>4. MaxTries \in Int
  <2>1. IsFiniteSet(Sessions)
    BY RoomAssumption
  <2>2. Cardinality(Sessions) \in Nat
    BY <2>1, FS_CardinalityType
  <2> QED BY <2>2 DEF MaxTries
<1>5. IsFiniteSet(1 .. MaxTries)
  BY <1>4, FS_Interval
<1>6. PICK B : B = bad \cap (1 .. tries)
  OBVIOUS
<1>7. IsFiniteSet(bad) /\ B \in SUBSET bad
  BY <1>3, <1>5, <1>6, FS_Subset
<1>8. IsFiniteSet(B) /\ Cardinality(B) <= n
  BY <1>3, <1>7, FS_Subset
<1>9. Cardinality(B) \in Nat
  BY <1>8, FS_CardinalityType
<1>10. fails' = fails + Cardinality(B)
  BY <1>6 DEF Count
<1> QED BY <1>1, <1>8, <1>9, <1>10

-----------------------------------------------------------------------------
(* A mover stays between its position and its destination, so on the map. *)
LEMMA ShareBound ==
  ASSUME NEW d \in Nat, NEW a \in Nat, NEW b \in Nat \ {0}, a <= b
  PROVE  (d * a) \div b \in 0 .. d
<1>1. PICK x : x = d * a
  OBVIOUS
<1>2. x \in Nat /\ x <= d * b
  BY <1>1
<1>3. PICK q : q = x \div b
  OBVIOUS
<1>4. q \in Int /\ b * q <= x /\ x < b * q + b
  BY <1>2, <1>3
<1>5. q >= 0
  <2> SUFFICES ASSUME q <= -1 PROVE FALSE
    BY <1>4
  <2>1. b * q <= b * (-1)
    BY <1>4
  <2> QED BY <1>2, <1>4, <2>1
<1>6. q <= d
  <2> SUFFICES ASSUME q >= d + 1 PROVE FALSE
    BY <1>4
  <2>1. b * q >= b * (d + 1)
    BY <1>4
  <2>2. b * (d + 1) = d * b + b
    OBVIOUS
  <2>3. PICK y : y = d * b
    OBVIOUS
  <2>4. PICK z : z = b * q
    OBVIOUS
  <2>5. y \in Int /\ z \in Int /\ x <= y /\ z <= x /\ z >= y + b
    BY <1>2, <1>4, <2>1, <2>2, <2>3, <2>4
  <2> QED BY <1>2, <2>5
<1> QED BY <1>1, <1>3, <1>4, <1>5, <1>6

LEMMA PartBetween ==
  ASSUME NEW d \in Int, NEW a \in Nat, NEW b \in Nat \ {0}, a <= b
  PROVE  /\ PartOf(d, a, b) \in Int
         /\ d >= 0 => 0 <= PartOf(d, a, b) /\ PartOf(d, a, b) <= d
         /\ d < 0 => d <= PartOf(d, a, b) /\ PartOf(d, a, b) <= 0
<1>1. CASE d >= 0
  <2>1. d \in Nat /\ ~(d < 0)
    BY <1>1
  <2>2. PartOf(d, a, b) = (d * a) \div b
    BY <2>1 DEF PartOf
  <2>3. (d * a) \div b \in 0 .. d
    BY <2>1, ShareBound
  <2> QED BY <2>1, <2>2, <2>3
<1>2. CASE d < 0
  <2>1. PICK e : e = -d
    OBVIOUS
  <2>2. e \in Nat
    BY <1>2, <2>1
  <2>3. PICK q : q = (e * a) \div b
    OBVIOUS
  <2>4. q \in 0 .. e
    BY <2>2, <2>3, ShareBound
  <2>5. PartOf(d, a, b) = -q
    BY <1>2, <2>1, <2>3 DEF PartOf
  <2> QED BY <1>2, <2>1, <2>4, <2>5
<1> QED BY <1>1, <1>2

LEMMA MovePositionTyped ==
  ASSUME NEW u \in Users, NEW now \in Nat, u.start <= now
  PROVE  MovePosition(u, now) \in Users /\ MovePosition(u, now).start <= now
<1>1. /\ u.session \in Sessions /\ u.isMove \in BOOLEAN
      /\ u.seqID \in Ids /\ u.pos \in Positions /\ u.dest \in Positions
      /\ u.start \in Nat /\ u.end \in Nat
  BY DEF Users
<1>2. PICK v : v = MovePosition(u, now)
  OBVIOUS
<1>3. CASE ~u.isMove
  BY <1>3 DEF MovePosition
<1>4. CASE u.isMove /\ u.end <= now
  <2>1. v = [u EXCEPT !.pos = u.dest, !.start = now, !.isMove = FALSE]
    BY <1>2, <1>4 DEF MovePosition
  <2>2. v \in Users /\ v.start = now
    BY <1>1, <2>1 DEF Users
  <2> QED BY <1>2, <2>2
<1>5. CASE u.isMove /\ ~(u.end <= now) /\ u.end <= u.start
  <2>1. v = [u EXCEPT !.isMove = FALSE]
    BY <1>2, <1>5 DEF MovePosition
  <2>2. v \in Users /\ v.start = u.start
    BY <1>1, <2>1 DEF Users
  <2> QED BY <1>2, <2>2
<1>6. CASE u.isMove /\ ~(u.end <= now) /\ ~(u.end <= u.start)
  <2>1. PICK d : d = u.dest - u.pos
    OBVIOUS
  <2>2. PICK a : a = now - u.start
    OBVIOUS
  <2>3. PICK b : b = u.end - u.start
    OBVIOUS
  <2>4. PICK p : p = u.pos
    OBVIOUS
  <2>5. PICK e : e = u.dest
    OBVIOUS
  <2>6. MaxX \in Nat /\ p \in Int /\ e \in Int /\ 0 <= p /\ p <= MaxX - 1
        /\ 0 <= e /\ e <= MaxX - 1
    BY <1>1, <2>4, <2>5, RoomAssumption DEF Positions
  <2>7. d = e - p /\ d \in Int /\ a \in Nat /\ b \in Nat \ {0} /\ a <= b
    BY <1>1, <1>6, <2>1, <2>2, <2>3, <2>4, <2>5, <2>6
  <2>8. PICK q : q = PartOf(d, a, b)
    OBVIOUS
  <2>9. q \in Int /\ (d >= 0 => 0 <= q /\ q <= d) /\ (d < 0 => d <= q /\ q <= 0)
    BY <2>7, <2>8, PartBetween
  <2>10. PICK z : z = p + q
    OBVIOUS
  <2>11. z \in Int /\ 0 <= z /\ z <= MaxX - 1
    BY <2>6, <2>7, <2>9, <2>10
  <2>12. z \in Positions
    BY <2>6, <2>11 DEF Positions
  <2>13. v = [u EXCEPT !.pos = z, !.start = now]
    BY <1>2, <1>6, <2>1, <2>2, <2>3, <2>4, <2>8, <2>10 DEF MovePosition
  <2>14. v \in Users /\ v.start = now
    BY <1>1, <2>12, <2>13 DEF Users
  <2> QED BY <1>2, <2>14
<1> QED BY <1>1, <1>3, <1>4, <1>5, <1>6

LEMMA FloatNatural ==
  ASSUME TypeOK, NEW x \in Nat PROVE AsFloat(x) \in Nat
<1>1. limit.grain \in Nat \ {0}
  BY RoomAssumption DEF TypeOK
<1>2. PICK g : g = limit.grain
  OBVIOUS
<1>3. PICK q : q = x \div g
  OBVIOUS
<1>4. q \in Nat
  BY <1>1, <1>2, <1>3
<1> DEFINE down == \/ 2 * (x % g) < g
                   \/ (2 * (x % g) = g /\ q % 2 = 0)
<1>5. AsFloat(x) = g * (IF down THEN q ELSE q + 1)
  BY <1>2, <1>3 DEF AsFloat
<1> HIDE DEF down
<1>6. g * q \in Nat /\ g * (q + 1) \in Nat
  BY <1>1, <1>2, <1>4
<1> QED BY <1>5, <1>6

LEMMA MoveUserTyped ==
  ASSUME TypeOK, NEW u \in Users, NEW x \in Positions, u.start <= clock
  PROVE  /\ MoveUser(u, x, clock) \in Users
         /\ MoveUser(u, x, clock).start <= clock
<1>1. clock \in Nat
  BY RoomAssumption DEF TypeOK
<1>2. PICK now : now = clock
  OBVIOUS
<1>3. PICK v : v = MovePosition(u, now)
  OBVIOUS
<1>4. v \in Users /\ v.start <= now
  BY <1>1, <1>2, <1>3, MovePositionTyped
<1>5. PICK dist : dist = Distance(v.pos, x)
  OBVIOUS
<1>6. dist \in Nat
  <2>1. v.pos \in Int /\ x \in Int
    BY <1>4, RoomAssumption DEF Users, Positions
  <2> QED BY <1>5, <2>1 DEF Distance
<1>7. PICK e : e = EndTick(now, dist)
  OBVIOUS
<1>8. e \in Nat
  <2>1. PICK f : f = AsFloat(now)
    OBVIOUS
  <2>2. f \in Nat
    BY <1>1, <1>2, <2>1, FloatNatural
  <2>3. f + dist \in Nat
    BY <1>6, <2>2
  <2> QED BY <1>7, <2>1, <2>3, FloatNatural DEF EndTick
<1>9. PICK w : w = [v EXCEPT !.isMove = TRUE, !.dest = x, !.start = now, !.end = e]
  OBVIOUS
<1>10. w \in Users /\ w.start = now
  BY <1>1, <1>2, <1>4, <1>8, <1>9 DEF Users
<1>11. MoveUser(u, x, now) \in {v, w}
  BY <1>3, <1>5, <1>7, <1>9 DEF MoveUser
<1>12. w.start <= now
  BY <1>1, <1>2, <1>10
<1> QED BY <1>2, <1>4, <1>10, <1>11, <1>12

-----------------------------------------------------------------------------
(* What each step does to the clients. *)
LEMMA Sent ==
  ASSUME TypeOK, NEW K, NEW packets
  PROVE  /\ SendTo(K, packets) = [t \in Sessions |-> SendTo(K, packets)[t]]
         /\ \A t \in Sessions :
              SendTo(K, packets)[t] = IF \E k \in K : roomUser[k].session = t
                                      THEN Received(client[t], packets)
                                      ELSE client[t]
BY DEF SendTo

LEMMA NewcomerType ==
  NewClient \in Clients
<1>1. 0 \in Ids
  BY RoomAssumption DEF Ids
<1>2. [i \in Ids |-> Unknown] \in [Ids -> Positions \cup {Unknown}]
  OBVIOUS
<1> QED BY <1>1, <1>2 DEF NewClient, Clients

(* Members can be told apart. *)
LEMMA OccupiedTellable ==
  ASSUME TypeOK, IdInv, NEW K, K \subseteq Occupied
  PROVE  Tellable(K, roomUser)
<1>1. K \subseteq Nat /\ IsFiniteSet(K)
  <2>1. K \in SUBSET Occupied
    OBVIOUS
  <2> QED BY <2>1, OccupiedFinite, OccupiedUsers, FS_Subset
<1>2. \A k \in K : Datum(roomUser[k]) \in Data
  <2> TAKE k \in K
  <2>1. roomUser[k].seqID \in Ids /\ roomUser[k].pos \in Positions
    BY OccupiedUsers
  <2> QED BY <2>1 DEF Datum, Data
<1>3. \A j, k \in K : roomUser[j].seqID = roomUser[k].seqID => j = k
  BY DEF IdInv, Distinct
<1> QED BY <1>1, <1>2, <1>3 DEF Tellable

(* Room::Enter for s under the id i, with the packets of greet. *)
Entered(s, i, greet) ==
  /\ i \in Ids
  /\ SocketOf[s] \in Keys \ Occupied
  /\ ~connected[s]
  /\ roomUser' = [roomUser EXCEPT ![SocketOf[s]] = RoomUser(s, i)]
  /\ Occupied' = Occupied \cup {SocketOf[s]}
  /\ \A k \in Occupied : roomUser[k].seqID # i
  /\ Says("SPAWN", greet, {Datum(roomUser[k]) : k \in Occupied})
  /\ client' \in [Sessions -> Clients]
  /\ Heard("SPAWN", [NewClient EXCEPT !.entered = TRUE, !.seqID = i], client'[s],
           Told(greet.out))
  /\ \A t \in Sessions \ {s} :
       /\ connected[t] => Heard("SPAWN", client[t], client'[t],
                                {[seqID |-> i, pos |-> 0]})
       /\ ~connected[t] => client'[t] = client[t]
  /\ gap' = IF greet.lost = {} THEN gap ELSE gap \cup {s}

LEMMA EnterFacts ==
  ASSUME RoomInv, NEW s \in Sessions, Enter(s)
  PROVE  \E greet : Entered(s, Head(seqIDs), greet)
<1>1. TypeOK /\ IdInv /\ Matched /\ Typed /\ Distinct
  BY DEF RoomInv, IdInv
<1>2. PICK key : key = SocketOf[s]
  OBVIOUS
<1>3. PICK i : i = Head(seqIDs)
  OBVIOUS
<1>4. PICK u : u = RoomUser(s, i)
  OBVIOUS
<1>5. PICK bad \in Failures :
         /\ client' = [SendTo(Occupied, <<Spawn(<<Datum(u)>>)>>) EXCEPT
              ![s] = Received(NewClient, <<EnterAck(0, u.seqID)>>
                                         \o Greeting(Occupied, bad).out)]
         /\ gap' = IF Greeting(Occupied, bad).lost = {} THEN gap ELSE gap \cup {s}
  BY <1>3, <1>4 DEF Enter
<1>6. /\ ~connected[s] /\ seqIDs # <<>> /\ roomUser[key] = NoUser
      /\ roomUser' = [roomUser EXCEPT ![key] = u]
  BY <1>2, <1>3, <1>4 DEF Enter
<1>7. PICK greet : greet = Greeting(Occupied, bad)
  OBVIOUS
<1>8. Says("SPAWN", greet, {Datum(roomUser[k]) : k \in Occupied})
  BY <1>1, <1>7, OccupiedTellable, GreetingSays
<1>9. i \in Ids /\ i = seqIDs[1] /\ 1 \in 1 .. Len(seqIDs)
  <2>1. seqIDs \in Seq(Ids) /\ Len(seqIDs) \in Nat /\ Len(seqIDs) # 0
    BY <1>1, <1>6, LenProperties, EmptySeq DEF Typed
  <2> QED BY <1>3, <1>6, <2>1, HeadTailProperties
<1>10. \A k \in Occupied : roomUser[k].seqID # i
  BY <1>1, <1>9 DEF Distinct
<1>11. u.seqID = i /\ u.pos = 0 /\ Datum(u) = [seqID |-> i, pos |-> 0]
  BY <1>4 DEF RoomUser, Datum
<1>12. key \in Keys \ Occupied
  BY <1>2, <1>6 DEF Keys, Occupied
<1>13. Occupied' = Occupied \cup {key}
  <2>1. u # NoUser
    <3>1. u \in Entries
      <4>1. i \in Int
        BY <1>9, RoomAssumption DEF Ids
      <4> QED BY <1>4, <4>1 DEF RoomUser, Entries
    <3> QED BY <3>1, NotUser
  <2>2. \A k \in Keys : roomUser'[k] # NoUser <=> k \in Occupied \cup {key}
    BY <1>1, <1>6, <1>12, <2>1 DEF Occupied, TypeOK
  <2> QED BY <1>12, <2>2 DEF Occupied
<1>14. PICK d : d = [seqID |-> i, pos |-> 0]
  OBVIOUS
<1>15. d \in Data
  <2>1. 0 \in Positions
    BY RoomAssumption DEF Positions
  <2> QED BY <1>9, <1>14, <2>1 DEF Data
<1>16. PICK one : one = <<d>>
  OBVIOUS
<1>17. PICK p : p = Spawn(one)
  OBVIOUS
<1>18. p \in Lists("SPAWN") /\ p \in Packets /\ ToSet(p.list) = {d}
  <2>1. one \in Seq(Data) /\ ToSet(one) = {d}
    BY <1>15, <1>16, SmallSets
  <2>2. p \in Lists("SPAWN") /\ p.list = one
    BY <1>17, <2>1 DEF Spawn, Lists
  <2> QED BY <2>1, <2>2 DEF Packets
<1>19. PICK ps : ps = <<p>>
  OBVIOUS
<1>20. client' = [SendTo(Occupied, ps) EXCEPT
                    ![s] = Received(NewClient, <<EnterAck(0, i)>> \o greet.out)]
  BY <1>5, <1>7, <1>11, <1>14, <1>16, <1>17, <1>19
<1>21. \A c \in Clients : /\ Received(c, ps) \in Clients
                          /\ Heard("SPAWN", c, Received(c, ps), {d})
  <2> TAKE c \in Clients
  <2>1. Received(c, ps) = ParseClient(c, p)
    BY <1>18, <1>19, ReceivedOne
  <2> QED BY <1>18, <2>1, ParseList
<1>22. /\ Received(NewClient, <<EnterAck(0, i)>> \o greet.out) \in Clients
       /\ Heard("SPAWN", [NewClient EXCEPT !.entered = TRUE, !.seqID = i],
                Received(NewClient, <<EnterAck(0, i)>> \o greet.out), Told(greet.out))
  <2>1. greet.out \in Seq(Lists("SPAWN"))
    BY <1>8 DEF Says
  <2> QED BY <1>9, <2>1, NewcomerType, ReceivedAnswer
<1>23. PICK first : first = Received(NewClient, <<EnterAck(0, i)>> \o greet.out)
  OBVIOUS
<1>24. PICK sent : sent = SendTo(Occupied, ps)
  OBVIOUS
<1>25. client \in [Sessions -> Clients]
  BY <1>1 DEF TypeOK
<1>26. /\ sent = [t \in Sessions |-> sent[t]]
       /\ \A t \in Sessions : sent[t] = IF connected[t] THEN Received(client[t], ps)
                                        ELSE client[t]
  BY <1>1, <1>24, Sent, MembersConnected
<1>27. sent \in [Sessions -> Clients]
  BY <1>21, <1>25, <1>26
<1>28. client' = [sent EXCEPT ![s] = first]
  BY <1>20, <1>23, <1>24
<1>29. client' \in [Sessions -> Clients]
  BY <1>22, <1>23, <1>27, <1>28
<1>30. client'[s] = first
  BY <1>27, <1>28
<1>31. \A t \in Sessions \ {s} :
         /\ connected[t] => Heard("SPAWN", client[t], client'[t], {d})
         /\ ~connected[t] => client'[t] = client[t]
  <2> TAKE t \in Sessions \ {s}
  <2>1. client'[t] = sent[t] /\ client[t] \in Clients
    BY <1>25, <1>27, <1>28
  <2> QED BY <1>21, <1>26, <2>1
<1>32. Entered(s, i, greet)
  BY <1>2, <1>4, <1>5, <1>6, <1>7, <1>8, <1>9, <1>10, <1>12, <1>13, <1>14, <1>22,
     <1>23, <1>29, <1>30, <1>31 DEF Entered
<1> QED BY <1>3, <1>32

(* Room::Leave of s, whose id the others are told, or not. *)
Left(s, i, heard) ==
  /\ connected[s]
  /\ SocketOf[s] \in Occupied /\ roomUser[SocketOf[s]].session = s
  /\ i = roomUser[SocketOf[s]].seqID /\ i \in Ids
  /\ client[s].seqID = i
  /\ roomUser' = [roomUser EXCEPT ![SocketOf[s]] = NoUser]
  /\ Occupied' = Occupied \ {SocketOf[s]}
  /\ seqIDs' = IF heard THEN Append(seqIDs, i) ELSE seqIDs
  /\ client' \in [Sessions -> Clients]
  /\ client'[s] = NewClient
  /\ \A t \in Sessions \ {s} :
       IF heard /\ connected[t]
       THEN /\ client'[t].seqID = client[t].seqID
            /\ client'[t].knows = client[t].knows \ {i}
            /\ \A j \in Ids : j # i => client'[t].at[j] = client[t].at[j]
       ELSE client'[t] = client[t]
  /\ gap' = (IF heard THEN gap ELSE gap \cup Members) \ {s}

LEMMA LeaveFacts ==
  ASSUME RoomInv, NEW s \in Sessions, Leave(s)
  PROVE  \E heard \in BOOLEAN : Left(s, roomUser[SocketOf[s]].seqID, heard)
<1>1. TypeOK /\ IdInv /\ Matched
  BY DEF RoomInv
<1>2. PICK key : key = SocketOf[s]
  OBVIOUS
<1>3. PICK i : i = roomUser[key].seqID
  OBVIOUS
<1>4. connected[s]
  BY DEF Leave
<1>5. /\ key \in Occupied /\ roomUser[key].session = s
      /\ client[s].seqID = i
  BY <1>1, <1>2, <1>3, <1>4 DEF Matched
<1>6. roomUser[key] # NoUser /\ key \in Keys /\ i \in Ids
  BY <1>1, <1>3, <1>5, OccupiedUsers DEF Occupied
<1>7. roomUser' = [roomUser EXCEPT ![key] = NoUser]
  BY <1>2, <1>6 DEF Leave
<1>8. PICK bad \in Failures :
        /\ seqIDs' = IF 1 \in bad THEN seqIDs ELSE Append(seqIDs, i)
        /\ client' = [SendTo(IF 1 \in bad THEN {} ELSE Others(s), <<LeaveNote(i)>>)
                        EXCEPT ![s] = NewClient]
        /\ gap' = (IF 1 \in bad THEN gap \cup Members ELSE gap) \ {s}
  BY <1>2, <1>3, <1>6 DEF Leave
<1>9. Occupied' = Occupied \ {key}
  <2>1. \A k \in Keys : roomUser'[k] # NoUser <=> k \in Occupied \ {key}
    BY <1>1, <1>6, <1>7 DEF Occupied, TypeOK
  <2> QED BY <2>1 DEF Occupied
<1>10. PICK p : p = LeaveNote(i)
  OBVIOUS
<1>11. p \in Packets /\ p.type = "LEAVE" /\ p.seqID = i
  BY <1>6, <1>10 DEF LeaveNote, Packets
<1>12. PICK ps : ps = <<p>>
  OBVIOUS
<1>13. \A c \in Clients : /\ Received(c, ps) \in Clients
                          /\ Received(c, ps).seqID = c.seqID
                          /\ Received(c, ps).knows = c.knows \ {i}
                          /\ \A j \in Ids : j # i => Received(c, ps).at[j] = c.at[j]
  <2> TAKE c \in Clients
  <2>1. Received(c, ps) = ParseClient(c, p)
    BY <1>11, <1>12, ReceivedOne
  <2> QED BY <1>11, <2>1, ParseOne
<1>14. client \in [Sessions -> Clients]
  BY <1>1 DEF TypeOK
<1>15. CASE 1 \in bad
  <2>1. PICK sent : sent = SendTo({}, ps)
    OBVIOUS
  <2>2. sent = client
    BY <1>14, <2>1 DEF SendTo
  <2>3. client' = [client EXCEPT ![s] = NewClient]
    BY <1>8, <1>10, <1>12, <1>15, <2>1, <2>2
  <2>4. /\ client' \in [Sessions -> Clients] /\ client'[s] = NewClient
        /\ \A t \in Sessions \ {s} : client'[t] = client[t]
    BY <1>14, <2>3, NewcomerType
  <2>5. seqIDs' = seqIDs /\ gap' = (gap \cup Members) \ {s}
    BY <1>8, <1>15
  <2>6. Left(s, i, FALSE)
    BY <1>2, <1>3, <1>4, <1>5, <1>6, <1>7, <1>9, <2>4, <2>5 DEF Left
  <2> QED BY <1>2, <1>3, <2>6
<1>16. CASE 1 \notin bad
  <2>1. PICK sent : sent = SendTo(Others(s), ps)
    OBVIOUS
  <2>2. /\ sent = [t \in Sessions |-> sent[t]]
        /\ \A t \in Sessions : sent[t] = IF connected[t] /\ t # s
                                         THEN Received(client[t], ps) ELSE client[t]
    BY <1>1, <2>1, Sent, OthersConnected
  <2>3. sent \in [Sessions -> Clients]
    BY <1>13, <1>14, <2>2
  <2>4. client' = [sent EXCEPT ![s] = NewClient]
    BY <1>8, <1>10, <1>12, <1>16, <2>1
  <2>5. client' \in [Sessions -> Clients] /\ client'[s] = NewClient
    BY <2>3, <2>4, NewcomerType
  <2>6. \A t \in Sessions \ {s} :
          IF TRUE /\ connected[t]
          THEN /\ client'[t].seqID = client[t].seqID
               /\ client'[t].knows = client[t].knows \ {i}
               /\ \A j \in Ids : j # i => client'[t].at[j] = client[t].at[j]
          ELSE client'[t] = client[t]
    <3> TAKE t \in Sessions \ {s}
    <3>1. client'[t] = sent[t] /\ client[t] \in Clients
      BY <1>14, <2>3, <2>4
    <3> QED BY <1>13, <2>2, <3>1
  <2>7. seqIDs' = Append(seqIDs, i) /\ gap' = gap \ {s}
    BY <1>8, <1>16
  <2>8. Left(s, i, TRUE)
    BY <1>2, <1>3, <1>4, <1>5, <1>6, <1>7, <1>9, <2>5, <2>6, <2>7 DEF Left
  <2> QED BY <1>2, <1>3, <2>8
<1> QED BY <1>15, <1>16

(* Room::Move of s, whose entry becomes v. *)
Moved(s, v) ==
  /\ connected[s]
  /\ SocketOf[s] \in Occupied /\ roomUser[SocketOf[s]].session = s
  /\ v \in Users /\ v.start <= clock
  /\ v.session = s /\ v.seqID = roomUser[SocketOf[s]].seqID
  /\ ~v.isMove /\ ~roomUser[SocketOf[s]].isMove => v = roomUser[SocketOf[s]]
  /\ roomUser' = [roomUser EXCEPT ![SocketOf[s]] = v]
  /\ Occupied' = Occupied
  /\ untold' = IF roomUser[SocketOf[s]].isMove /\ ~v.isMove THEN untold \cup {s}
               ELSE untold

LEMMA MoveFacts ==
  ASSUME RoomInv, NEW s \in Sessions, NEW x \in MoveRequests, Move(s, x)
  PROVE  \E v : Moved(s, v)
<1>1. TypeOK /\ IdInv /\ Matched /\ Timed
  BY DEF RoomInv
<1>2. PICK key : key = SocketOf[s]
  OBVIOUS
<1>3. connected[s] /\ 0 <= x /\ x < MaxX /\ x \in Int /\ MaxX \in Nat
  BY RoomAssumption DEF Move, MoveRequests
<1>4. key \in Occupied /\ roomUser[key].session = s
  BY <1>1, <1>2, <1>3 DEF Matched
<1>5. PICK u : u = roomUser[key]
  OBVIOUS
<1>6. u \in Users /\ u \in Entries /\ u.start <= clock /\ key \in Keys
  BY <1>1, <1>4, <1>5, OccupiedUsers, UserEntry DEF Timed
<1>7. x \in Positions
  BY <1>3 DEF Positions
<1>8. PICK v : v = MoveUser(u, x, clock)
  OBVIOUS
<1>9. v \in Users /\ v.start <= clock
  BY <1>1, <1>6, <1>7, <1>8, MoveUserTyped
<1>10. v.session = u.session /\ v.seqID = u.seqID
  <2>1. Typed /\ clock \in Int
    BY <1>1 DEF IdInv, Typed
  <2> QED BY <1>3, <1>6, <1>8, <2>1, MoveUserKeeps
<1>11. /\ roomUser' = [roomUser EXCEPT ![key] = v]
       /\ untold' = IF u.isMove /\ ~v.isMove THEN untold \cup {s} ELSE untold
  BY <1>2, <1>5, <1>8 DEF Move
<1>12. Occupied' = Occupied
  <2>1. v # NoUser
    BY <1>9, UserEntry
  <2>2. \A k \in Keys : roomUser'[k] # NoUser <=> k \in Occupied
    BY <1>1, <1>4, <1>6, <1>11, <2>1 DEF Occupied, TypeOK
  <2> QED BY <2>2 DEF Occupied
<1>13. ~v.isMove /\ ~u.isMove => v = u
  <2> SUFFICES ASSUME ~v.isMove, ~u.isMove PROVE v = u
    OBVIOUS
  <2>1. MovePosition(u, clock) = u
    BY DEF MovePosition
  <2>2. PICK dist : dist = Distance(u.pos, x)
    OBVIOUS
  <2>3. PICK e : e = EndTick(clock, dist)
    OBVIOUS
  <2>4. v = IF dist <= 0 THEN u
            ELSE [u EXCEPT !.isMove = TRUE, !.dest = x, !.start = clock, !.end = e]
    BY <1>8, <2>1, <2>2, <2>3 DEF MoveUser
  <2>5. [u EXCEPT !.isMove = TRUE, !.dest = x, !.start = clock, !.end = e].isMove
    BY <1>6 DEF Users
  <2> QED BY <2>4, <2>5
<1> QED BY <1>2, <1>3, <1>4, <1>5, <1>6, <1>9, <1>10, <1>11, <1>12, <1>13 DEF Moved

(* The tick that moves `moving` to `users` and says so in snap. *)
Ticked(users, moving, snap) ==
  /\ moving = {k \in Occupied : roomUser[k].isMove}
  /\ roomUser' = users /\ users \in [Keys -> Users \cup {NoUser}]
  /\ Occupied' = Occupied
  /\ \A k \in Keys \ moving : users[k] = roomUser[k]
  /\ \A k \in moving : /\ users[k].session = roomUser[k].session
                       /\ users[k].seqID = roomUser[k].seqID
                       /\ users[k].start <= clock
  /\ Says("MOVE", snap, {Datum(users[k]) : k \in moving})
  /\ client' \in [Sessions -> Clients]
  /\ \A t \in Sessions :
       IF connected[t] THEN Heard("MOVE", client[t], client'[t], Told(snap.out))
       ELSE client'[t] = client[t]
  /\ untold' = (untold \ {users[k].session : k \in moving}) \cup
                 {users[k].session : k \in {m \in moving : Datum(users[m]) \in snap.lost}}

LEMMA TickFacts ==
  ASSUME RoomInv, Tick
  PROVE  \E users, moving, snap : Ticked(users, moving, snap)
<1>1. TypeOK /\ IdInv /\ Matched /\ Timed /\ clock \in Nat
  BY RoomAssumption DEF RoomInv, TypeOK
<1> DEFINE mv == {k \in Occupied : roomUser[k].isMove}
           us == [k \in Keys |-> IF k \in mv THEN MovePosition(roomUser[k], clock)
                                 ELSE roomUser[k]]
<1>a. PICK bad \in Failures :
        /\ client' = SendTo(Occupied, Snapshot(us, mv, bad).out)
        /\ untold' = (untold \ {us[k].session : k \in mv}) \cup
             {us[k].session :
                k \in {m \in mv : Datum(us[m]) \in Snapshot(us, mv, bad).lost}}
  BY DEF Tick
<1>b. roomUser' = us
  BY DEF Tick
<1> HIDE DEF us
<1>2. PICK moving : moving = mv
  OBVIOUS
<1>c. us = [k \in Keys |-> IF k \in moving THEN MovePosition(roomUser[k], clock)
                           ELSE roomUser[k]]
  BY <1>2 DEF us
<1> HIDE DEF mv
<1>d. PICK users : users = us
  OBVIOUS
<1>3. users = [k \in Keys |-> IF k \in moving THEN MovePosition(roomUser[k], clock)
                              ELSE roomUser[k]]
  BY <1>c, <1>d
<1>4. /\ client' = SendTo(Occupied, Snapshot(users, moving, bad).out)
      /\ untold' = (untold \ {users[k].session : k \in moving}) \cup
             {users[k].session :
                k \in {m \in moving : Datum(users[m]) \in Snapshot(users, moving, bad).lost}}
  BY <1>2, <1>a, <1>d
<1>e. moving = {k \in Occupied : roomUser[k].isMove}
  BY <1>2 DEF mv
<1>5. roomUser' = users
  BY <1>b, <1>d
<1>6. PICK snap : snap = Snapshot(users, moving, bad)
  OBVIOUS
<1>7. moving \subseteq Occupied /\ Occupied \subseteq Keys
  BY <1>e DEF Occupied
<1>8. \A k \in moving : /\ users[k] \in Users
                        /\ users[k].session = roomUser[k].session
                        /\ users[k].seqID = roomUser[k].seqID
                        /\ users[k].start <= clock
  <2> TAKE k \in moving
  <2>1. roomUser[k] \in Users /\ roomUser[k] \in Entries /\ roomUser[k].start <= clock
    BY <1>1, <1>7, OccupiedUsers, UserEntry DEF Timed
  <2>2. users[k] = MovePosition(roomUser[k], clock)
    BY <1>3, <1>7
  <2>3. clock \in Int
    BY <1>1
  <2> QED BY <1>1, <2>1, <2>2, <2>3, MovePositionTyped, MovePositionKeeps
<1>9. \A k \in Keys \ moving : users[k] = roomUser[k]
  BY <1>3
<1>10. users \in [Keys -> Users \cup {NoUser}]
  <2>1. \A k \in Keys : users[k] \in Users \cup {NoUser}
    BY <1>1, <1>8, <1>9 DEF TypeOK
  <2> QED BY <1>3, <2>1
<1>11. Occupied' = Occupied
  <2>1. \A k \in Keys : users[k] # NoUser <=> roomUser[k] # NoUser
    BY <1>7, <1>8, <1>9, UserEntry DEF Occupied
  <2> QED BY <1>5, <2>1 DEF Occupied
<1>12. Says("MOVE", snap, {Datum(users[k]) : k \in moving})
  <2>1. Tellable(moving, users)
    <3>1. Tellable(moving, roomUser)
      BY <1>1, <1>7, OccupiedTellable
    <3>2. \A k \in moving : Datum(users[k]) \in Data
      <4> TAKE k \in moving
      <4>1. users[k].seqID \in Ids /\ users[k].pos \in Positions
        BY <1>8 DEF Users
      <4> QED BY <4>1 DEF Datum, Data
    <3> QED BY <1>8, <3>1, <3>2 DEF Tellable
  <2> QED BY <1>6, <2>1, SnapshotSays
<1>13. \A c \in Clients : /\ Received(c, snap.out) \in Clients
                          /\ Heard("MOVE", c, Received(c, snap.out), Told(snap.out))
  <2>1. snap.out \in Seq(Lists("MOVE"))
    BY <1>12 DEF Says
  <2> QED BY <2>1, ReceivedLists
<1>14. client \in [Sessions -> Clients]
  BY <1>1 DEF TypeOK
<1>15. PICK sent : sent = SendTo(Occupied, snap.out)
  OBVIOUS
<1>16. /\ sent = [t \in Sessions |-> sent[t]]
       /\ \A t \in Sessions : sent[t] = IF connected[t] THEN Received(client[t], snap.out)
                                        ELSE client[t]
  BY <1>1, <1>15, Sent, MembersConnected
<1>17. client' = sent
  BY <1>4, <1>6, <1>15
<1>18. sent \in [Sessions -> Clients]
  BY <1>13, <1>14, <1>16
<1>19. \A t \in Sessions :
         IF connected[t] THEN Heard("MOVE", client[t], client'[t], Told(snap.out))
         ELSE client'[t] = client[t]
  BY <1>13, <1>14, <1>16, <1>17
<1>20. untold' = (untold \ {users[k].session : k \in moving}) \cup
                 {users[k].session : k \in {m \in moving : Datum(users[m]) \in snap.lost}}
  BY <1>4, <1>6
<1>21. Ticked(users, moving, snap)
  BY <1>e, <1>5, <1>8, <1>9, <1>10, <1>11, <1>12, <1>17, <1>18, <1>19, <1>20 DEF Ticked
<1> QED BY <1>21

LEMMA ChatFacts ==
  ASSUME RoomInv, NEW s \in Sessions, BroadCast(s)
  PROVE  client' = client
<1>1. TypeOK
  BY DEF RoomInv
<1>2. PICK K : client' = SendTo(K, <<[type |-> "BROADCAST"]>>)
  BY DEF BroadCast
<1>3. PICK p : p = [type |-> "BROADCAST"]
  OBVIOUS
<1>4. p \in Packets /\ p.type = "BROADCAST"
  BY <1>3 DEF Packets
<1>5. \A c \in Clients : Received(c, <<p>>) = c
  BY <1>4, ReceivedOne, ParseOne
<1>6. client \in [Sessions -> Clients]
  BY <1>1 DEF TypeOK
<1>7. client' = [t \in Sessions |-> client[t]]
  BY <1>2, <1>3, <1>5, <1>6 DEF SendTo
<1> QED BY <1>6, <1>7

-----------------------------------------------------------------------------
(* The invariant, action by action. *)
LEMMA EnterRoom ==
  ASSUME RoomInv, NEW s \in Sessions, Enter(s)
  PROVE  TypeOK' /\ Matched' /\ Timed'
<1>1. TypeOK /\ IdInv /\ Matched /\ Timed
  BY DEF RoomInv
<1>2. PICK greet : Entered(s, Head(seqIDs), greet)
  BY EnterFacts
<1>3. PICK i : i = Head(seqIDs)
  OBVIOUS
<1>4. PICK key : key = SocketOf[s]
  OBVIOUS
<1>5. PICK u : u = RoomUser(s, i)
  OBVIOUS
<1>6. /\ i \in Ids /\ key \in Keys /\ key \notin Occupied /\ ~connected[s]
      /\ roomUser' = [roomUser EXCEPT ![key] = u]
      /\ Occupied' = Occupied \cup {key}
      /\ client' \in [Sessions -> Clients]
      /\ gap' \subseteq gap \cup {s}
  BY <1>2, <1>3, <1>4, <1>5 DEF Entered
<1>7. u \in Users /\ u.session = s /\ u.seqID = i /\ u.start = 0
  <2>1. 0 \in Positions
    BY RoomAssumption DEF Positions
  <2> QED BY <1>5, <1>6, <2>1 DEF RoomUser, Users
<1>8. /\ connected' = [connected EXCEPT ![s] = TRUE]
      /\ UNCHANGED <<clock, lastTick, limit, moves, untold>>
      /\ joins < limit.joins /\ joins' = joins + 1
  BY DEF Enter
<1>9. fails' \in 0 .. limit.fails
  <2>1. PICK bad \in Failures : Count(bad, Greeting(Occupied, bad).tries)
    BY DEF Enter
  <2> QED BY <1>1, <2>1, CountBound
<1>10. seqIDs' \in Seq(Ids) /\ unmade' \in Nat
  <2>1. IdInv'
    BY <1>1, EnterIds
  <2> QED BY <2>1, <1>8 DEF IdInv, Typed, Ids
<1>11. /\ roomUser' \in [Keys -> Users \cup {NoUser}] /\ roomUser'[key] = u
       /\ \A k \in Occupied : roomUser'[k] = roomUser[k] /\ k # key
  BY <1>1, <1>6, <1>7 DEF TypeOK, Occupied
<1>12. /\ connected' \in [Sessions -> BOOLEAN] /\ connected'[s]
       /\ \A t \in Sessions : t # s => connected'[t] = connected[t]
  BY <1>1, <1>8 DEF TypeOK
<1>13. joins' \in 0 .. limit.joins
  BY <1>1, <1>8, RoomAssumption DEF TypeOK
<1>14. TypeOK'
  BY <1>1, <1>6, <1>8, <1>9, <1>10, <1>11, <1>12, <1>13 DEF TypeOK, Keys, Users,
     Clients, Ids, Positions
<1>15. client'[s].seqID = i
  <2>1. Heard("SPAWN", [NewClient EXCEPT !.entered = TRUE, !.seqID = i], client'[s],
              Told(greet.out))
    BY <1>2, <1>3 DEF Entered
  <2>2. [NewClient EXCEPT !.entered = TRUE, !.seqID = i].seqID = i
    BY DEF NewClient
  <2> QED BY <2>1, <2>2 DEF Heard
<1>16. \A t \in Sessions \ {s} : /\ client'[t].seqID = client[t].seqID
                                 /\ ~connected[t] => client'[t] = client[t]
  BY <1>2, <1>3 DEF Entered, Heard
<1>17. \A t \in Sessions : connected'[t] => /\ SocketOf[t] \in Occupied'
                                            /\ roomUser'[SocketOf[t]].session = t
                                            /\ roomUser'[SocketOf[t]].seqID = client'[t].seqID
  <2> SUFFICES ASSUME NEW t \in Sessions, connected'[t]
               PROVE  /\ SocketOf[t] \in Occupied'
                      /\ roomUser'[SocketOf[t]].session = t
                      /\ roomUser'[SocketOf[t]].seqID = client'[t].seqID
    OBVIOUS
  <2>1. CASE t = s
    BY <1>4, <1>6, <1>7, <1>11, <1>15, <2>1
  <2>2. CASE t # s
    BY <1>1, <1>6, <1>11, <1>12, <1>16, <2>2 DEF Matched
  <2> QED BY <2>1, <2>2
<1>18. \A k \in Occupied' : /\ connected'[roomUser'[k].session]
                            /\ SocketOf[roomUser'[k].session] = k
  <2> SUFFICES ASSUME NEW k \in Occupied'
               PROVE  /\ connected'[roomUser'[k].session]
                      /\ SocketOf[roomUser'[k].session] = k
    OBVIOUS
  <2>1. CASE k = key
    BY <1>4, <1>7, <1>11, <1>12, <2>1
  <2>2. CASE k \in Occupied
    <3>1. roomUser'[k].session \in Sessions
      BY <1>1, <1>11, <2>2, OccupiedUsers
    <3> QED BY <1>1, <1>6, <1>11, <1>12, <2>2, <3>1 DEF Matched
  <2> QED BY <1>6, <2>1, <2>2
<1>19. \A t \in Sessions : ~connected'[t] => client'[t].knows = {}
  BY <1>1, <1>12, <1>16 DEF Matched
<1>20. Matched'
  BY <1>17, <1>18, <1>19 DEF Matched
<1>21. Timed'
  <2>1. clock \in Nat
    BY <1>1, RoomAssumption DEF TypeOK
  <2>2. \A k \in Occupied' : roomUser'[k].start <= clock'
    BY <1>1, <1>6, <1>7, <1>8, <1>11, <2>1 DEF Timed
  <2> QED BY <2>2 DEF Timed
<1> QED BY <1>14, <1>20, <1>21

LEMMA LeaveRoom ==
  ASSUME RoomInv, NEW s \in Sessions, Leave(s)
  PROVE  TypeOK' /\ Matched' /\ Timed'
<1>1. TypeOK /\ IdInv /\ Matched /\ Timed
  BY DEF RoomInv
<1>2. PICK heard \in BOOLEAN : Left(s, roomUser[SocketOf[s]].seqID, heard)
  BY LeaveFacts
<1>3. PICK key : key = SocketOf[s]
  OBVIOUS
<1>4. /\ key \in Occupied /\ key \in Keys /\ roomUser[key].session = s /\ connected[s]
      /\ roomUser' = [roomUser EXCEPT ![key] = NoUser]
      /\ Occupied' = Occupied \ {key}
      /\ client' \in [Sessions -> Clients] /\ client'[s] = NewClient
      /\ gap' \subseteq gap \cup Members
  BY <1>2, <1>3 DEF Left, Occupied
<1>5. /\ connected' = [connected EXCEPT ![s] = FALSE]
      /\ untold' = untold \ {s}
      /\ UNCHANGED <<clock, lastTick, limit, joins, moves>>
  BY DEF Leave, bounds
<1>6. fails' \in 0 .. limit.fails
  <2>1. PICK bad \in Failures : Count(bad, 1)
    BY <1>3, <1>4 DEF Leave, Occupied
  <2> QED BY <1>1, <2>1, CountBound
<1>7. seqIDs' \in Seq(Ids) /\ unmade' \in Nat
  <2>1. IdInv'
    BY <1>1, LeaveIds
  <2> QED BY <2>1 DEF IdInv, Typed, Ids
<1>8. /\ roomUser' \in [Keys -> Users \cup {NoUser}]
      /\ \A k \in Occupied' : k \in Occupied /\ k # key /\ roomUser'[k] = roomUser[k]
  BY <1>1, <1>4 DEF TypeOK, Occupied
<1>9. /\ connected' \in [Sessions -> BOOLEAN] /\ ~connected'[s]
      /\ \A t \in Sessions : t # s => connected'[t] = connected[t]
  BY <1>1, <1>5 DEF TypeOK
<1>10. Members \subseteq Sessions
  BY <1>1, OccupiedUsers DEF Members
<1>11. TypeOK'
  BY <1>1, <1>4, <1>5, <1>6, <1>7, <1>8, <1>9, <1>10 DEF TypeOK, Keys, Users,
     Clients, Ids, Positions
<1>12. \A t \in Sessions \ {s} : /\ client'[t].seqID = client[t].seqID
                                 /\ ~connected[t] => client'[t] = client[t]
  BY <1>2 DEF Left
<1>13. \A t \in Sessions : connected'[t] => /\ SocketOf[t] \in Occupied'
                                            /\ roomUser'[SocketOf[t]].session = t
                                            /\ roomUser'[SocketOf[t]].seqID = client'[t].seqID
  <2> SUFFICES ASSUME NEW t \in Sessions, connected'[t]
               PROVE  /\ SocketOf[t] \in Occupied'
                      /\ roomUser'[SocketOf[t]].session = t
                      /\ roomUser'[SocketOf[t]].seqID = client'[t].seqID
    OBVIOUS
  <2>1. t # s /\ connected[t]
    BY <1>9
  <2>2. SocketOf[t] \in Occupied /\ roomUser[SocketOf[t]].session = t
        /\ roomUser[SocketOf[t]].seqID = client[t].seqID
    BY <1>1, <2>1 DEF Matched
  <2>3. SocketOf[t] # key
    BY <1>4, <2>1, <2>2
  <2> QED BY <1>4, <1>8, <1>12, <2>1, <2>2, <2>3
<1>14. \A k \in Occupied' : /\ connected'[roomUser'[k].session]
                            /\ SocketOf[roomUser'[k].session] = k
  <2> SUFFICES ASSUME NEW k \in Occupied'
               PROVE  /\ connected'[roomUser'[k].session]
                      /\ SocketOf[roomUser'[k].session] = k
    OBVIOUS
  <2>1. k \in Occupied /\ k # key /\ roomUser'[k] = roomUser[k]
    BY <1>8
  <2>2. roomUser[k].session \in Sessions /\ connected[roomUser[k].session]
        /\ SocketOf[roomUser[k].session] = k
    BY <1>1, <2>1, OccupiedUsers DEF Matched
  <2> QED BY <1>3, <1>9, <2>1, <2>2
<1>15. \A t \in Sessions : ~connected'[t] => client'[t].knows = {}
  <2>1. NewClient.knows = {}
    BY DEF NewClient
  <2> QED BY <1>1, <1>4, <1>9, <1>12, <2>1 DEF Matched
<1>16. Matched'
  BY <1>13, <1>14, <1>15 DEF Matched
<1>17. Timed'
  BY <1>1, <1>5, <1>8 DEF Timed
<1> QED BY <1>11, <1>16, <1>17

LEMMA MoveRoom ==
  ASSUME RoomInv, NEW s \in Sessions, NEW x \in MoveRequests, Move(s, x)
  PROVE  TypeOK' /\ Matched' /\ Timed'
<1>1. TypeOK /\ IdInv /\ Matched /\ Timed
  BY DEF RoomInv
<1>2. PICK v : Moved(s, v)
  BY MoveFacts
<1>3. PICK key : key = SocketOf[s]
  OBVIOUS
<1>4. /\ key \in Occupied /\ key \in Keys /\ roomUser[key].session = s
      /\ v \in Users /\ v.start <= clock
      /\ v.session = s /\ v.seqID = roomUser[key].seqID
      /\ roomUser' = [roomUser EXCEPT ![key] = v] /\ Occupied' = Occupied
      /\ untold' \subseteq untold \cup {s}
  BY <1>2, <1>3 DEF Moved, Occupied
<1>5. /\ UNCHANGED <<seqIDs, connected, clock, lastTick, limit, joins, client, fails, gap,
                    unmade>>
      /\ moves < limit.moves /\ moves' = moves + 1
  BY DEF Move
<1>6. /\ roomUser' \in [Keys -> Users \cup {NoUser}]
      /\ \A k \in Occupied : /\ roomUser'[k].session = roomUser[k].session
                             /\ roomUser'[k].seqID = roomUser[k].seqID
                             /\ roomUser'[k] = v \/ roomUser'[k] = roomUser[k]
  BY <1>1, <1>4 DEF TypeOK, Occupied
<1>7. moves' \in 0 .. limit.moves
  BY <1>1, <1>5, RoomAssumption DEF TypeOK
<1>8. TypeOK'
  BY <1>1, <1>4, <1>5, <1>6, <1>7 DEF TypeOK, Keys, Users, Clients, Ids, Positions
<1>9. Matched'
  BY <1>1, <1>4, <1>5, <1>6 DEF Matched
<1>10. Timed'
  BY <1>1, <1>4, <1>5, <1>6 DEF Timed
<1> QED BY <1>8, <1>9, <1>10

LEMMA TickRoom ==
  ASSUME RoomInv, Tick
  PROVE  TypeOK' /\ Matched' /\ Timed'
<1>1. TypeOK /\ IdInv /\ Matched /\ Timed
  BY DEF RoomInv
<1>2. PICK users, moving, snap : Ticked(users, moving, snap)
  BY TickFacts
<1>3. /\ roomUser' \in [Keys -> Users \cup {NoUser}] /\ Occupied' = Occupied
      /\ client' \in [Sessions -> Clients]
      /\ moving \subseteq Occupied /\ Occupied \subseteq Keys
  BY <1>2 DEF Ticked, Occupied
<1>4. \A k \in Occupied : /\ roomUser'[k].session = roomUser[k].session
                          /\ roomUser'[k].seqID = roomUser[k].seqID
                          /\ roomUser'[k].start <= clock
  <2> TAKE k \in Occupied
  <2>1. CASE k \in moving
    BY <1>2, <2>1 DEF Ticked
  <2>2. CASE k \notin moving
    <3>1. roomUser'[k] = roomUser[k]
      BY <1>2, <1>3, <2>2 DEF Ticked
    <3> QED BY <1>1, <3>1 DEF Timed
  <2> QED BY <2>1, <2>2
<1>5. \A t \in Sessions : /\ client'[t].seqID = client[t].seqID
                          /\ client'[t].knows = client[t].knows
  BY <1>2 DEF Ticked, Heard
<1>6. /\ UNCHANGED <<seqIDs, connected, clock, limit, joins, moves, gap, unmade>>
      /\ lastTick' = clock
  BY DEF Tick, TickIsDue, bounds
<1>7. fails' \in 0 .. limit.fails
  <2>1. \E bad \in Failures : \E tries : Count(bad, tries)
    BY DEF Tick
  <2> QED BY <1>1, <2>1, CountBound
<1>8. untold' \subseteq Sessions
  <2>1. \A k \in moving : users[k].session \in Sessions
    BY <1>1, <1>2, <1>3, OccupiedUsers DEF Ticked
  <2> QED BY <1>1, <1>2, <2>1 DEF TypeOK, Ticked
<1>9. lastTick' \in 0 .. clock'
  BY <1>1, <1>6, RoomAssumption DEF TypeOK
<1>10. TypeOK'
  BY <1>1, <1>3, <1>6, <1>7, <1>8, <1>9 DEF TypeOK, Keys, Users, Clients, Ids, Positions
<1>11. Matched'
  BY <1>1, <1>3, <1>4, <1>5, <1>6 DEF Matched
<1>12. Timed'
  BY <1>3, <1>4, <1>6 DEF Timed
<1> QED BY <1>10, <1>11, <1>12

LEMMA OtherRoom ==
  ASSUME RoomInv,
         \/ UNCHANGED vars
         \/ Elapse
         \/ \E s \in Sessions : EnterFull(s) \/ EnterNoPacket(s) \/ EnterTaken(s)
                                \/ BroadCast(s)
  PROVE  TypeOK' /\ Matched' /\ Timed'
<1>1. TypeOK /\ IdInv /\ Matched /\ Timed
  BY DEF RoomInv
<1>2. UNCHANGED <<roomUser, connected, limit, joins, moves, gap, untold, unmade>>
  BY DEF vars, Elapse, EnterFull, EnterNoPacket, EnterTaken, BroadCast, bounds, told
<1>3. seqIDs' \in Seq(Ids)
  <2>1. [Next]_vars
    BY DEF Next
  <2>2. IdInv'
    BY <1>1, <2>1, NextIds
  <2> QED BY <2>2 DEF IdInv, Typed, Ids
<1>4. fails' \in 0 .. limit.fails
  <2>1. CASE UNCHANGED fails
    BY <1>1, <2>1 DEF TypeOK
  <2>2. CASE \E bad \in Failures : \E tries : Count(bad, tries)
    BY <1>1, <2>2, CountBound
  <2> QED BY <2>1, <2>2 DEF vars, Elapse, EnterFull, EnterNoPacket, EnterTaken,
             BroadCast
<1>5. clock' \in 0 .. limit.clock /\ lastTick' \in 0 .. clock' /\ clock' >= clock
  <2>1. limit.clock \in Nat /\ clock \in 0 .. limit.clock /\ lastTick \in 0 .. clock
    BY <1>1, RoomAssumption DEF TypeOK
  <2>2. CASE UNCHANGED <<clock, lastTick>>
    BY <2>1, <2>2
  <2>3. CASE Elapse
    BY <2>1, <2>3 DEF Elapse
  <2> QED BY <2>2, <2>3 DEF vars, EnterFull, EnterNoPacket, EnterTaken, BroadCast
<1>6. /\ client' \in [Sessions -> Clients]
      /\ \A t \in Sessions : /\ connected[t] => client'[t] = client[t]
                             /\ client'[t].knows = client[t].knows
  <2>1. client \in [Sessions -> Clients]
    BY <1>1 DEF TypeOK
  <2>2. CASE client' = client
    BY <2>1, <2>2
  <2>3. ASSUME NEW s \in Sessions, EnterFull(s)
        PROVE  /\ client' \in [Sessions -> Clients]
               /\ \A t \in Sessions : /\ connected[t] => client'[t] = client[t]
                                      /\ client'[t].knows = client[t].knows
    <3>1. PICK p : p = EnterAck(-1, 0)
      OBVIOUS
    <3>2. p \in Packets /\ p.type = "ENTER"
      <4>1. 0 \in Ids /\ -1 \in Int
        BY RoomAssumption DEF Ids
      <4> QED BY <3>1, <4>1 DEF EnterAck, Packets
    <3>3. PICK c : c = ParseClient(client[s], p)
      OBVIOUS
    <3>4. c \in Clients /\ c.knows = client[s].knows
      BY <2>1, <3>2, <3>3, ParseOne
    <3>5. ~connected[s] /\ (client' = client \/ client' = [client EXCEPT ![s] = c])
      BY <2>1, <2>3, <3>1, <3>3 DEF EnterFull
    <3> QED BY <2>1, <3>4, <3>5
  <2>4. ASSUME NEW s \in Sessions, BroadCast(s) PROVE client' = client
    BY <2>4, ChatFacts
  <2> QED BY <2>2, <2>3, <2>4 DEF vars, Elapse, EnterNoPacket, EnterTaken, told
<1>7. TypeOK'
  BY <1>1, <1>2, <1>3, <1>4, <1>5, <1>6 DEF TypeOK, Keys, Users, Clients, Ids, Positions
<1>8. Occupied' = Occupied
  BY <1>2 DEF Occupied
<1>9. Matched'
  BY <1>1, <1>2, <1>6, <1>8 DEF Matched
<1>10. Timed'
  <2>1. \A k \in Occupied : roomUser[k].start \in Nat
    BY <1>1, OccupiedUsers DEF Users
  <2>2. clock \in Nat /\ clock' \in Nat
    BY <1>1, <1>2, <1>5, RoomAssumption DEF TypeOK
  <2>3. \A k \in Occupied : roomUser[k].start <= clock'
    BY <1>1, <1>5, <2>1, <2>2 DEF Timed
  <2> QED BY <1>2, <1>8, <2>3 DEF Timed
<1> QED BY <1>7, <1>9, <1>10

LEMMA InitRoom ==
  ASSUME Init PROVE RoomInv
<1>1. IdInv
  BY InitIds
<1>2. /\ roomUser = [k \in Keys |-> NoUser] /\ connected = [s \in Sessions |-> FALSE]
      /\ clock = 0 /\ lastTick = 0 /\ limit \in Limits
      /\ client = [s \in Sessions |-> NewClient]
      /\ fails = 0 /\ joins = 0 /\ moves = 0 /\ gap = {} /\ untold = {} /\ unmade = 0
  BY DEF Init
<1>3. Occupied = {}
  BY <1>2 DEF Occupied
<1>4. /\ limit.clock \in Nat /\ limit.fails \in Nat /\ limit.joins \in Nat
      /\ limit.moves \in Nat
  BY <1>2, RoomAssumption
<1>5. seqIDs \in Seq(Ids)
  BY <1>1 DEF IdInv, Typed
<1>6. client \in [Sessions -> Clients]
  BY <1>2, NewcomerType
<1>7. TypeOK
  BY <1>2, <1>4, <1>5, <1>6 DEF TypeOK
<1>8. Matched
  BY <1>2, <1>3 DEF Matched, NewClient
<1>9. Timed
  BY <1>3 DEF Timed
<1> QED BY <1>1, <1>7, <1>8, <1>9 DEF RoomInv

LEMMA NextRoom ==
  ASSUME RoomInv, [Next]_vars
  PROVE  RoomInv'
<1>1. IdInv'
  BY NextIds DEF RoomInv
<1>2. ASSUME NEW s \in Sessions, Enter(s) PROVE TypeOK' /\ Matched' /\ Timed'
  BY <1>2, EnterRoom
<1>3. ASSUME NEW s \in Sessions, Leave(s) PROVE TypeOK' /\ Matched' /\ Timed'
  BY <1>3, LeaveRoom
<1>4. ASSUME NEW s \in Sessions, NEW x \in MoveRequests, Move(s, x)
      PROVE  TypeOK' /\ Matched' /\ Timed'
  BY <1>4, MoveRoom
<1>5. ASSUME Tick PROVE TypeOK' /\ Matched' /\ Timed'
  BY <1>5, TickRoom
<1>6. ASSUME \/ UNCHANGED vars
             \/ Elapse
             \/ \E s \in Sessions : EnterFull(s) \/ EnterNoPacket(s) \/ EnterTaken(s)
                                    \/ BroadCast(s)
      PROVE  TypeOK' /\ Matched' /\ Timed'
  BY <1>6, OtherRoom
<1>7. TypeOK' /\ Matched' /\ Timed'
  BY <1>2, <1>3, <1>4, <1>5, <1>6 DEF Next
<1> QED BY <1>1, <1>7 DEF RoomInv

(* The state of a room, of the clients and of the bounds: whatever is
   dispatched, positions stay on the map, ids in the room, and every packet a
   client parses is about ids and positions of the room. *)
THEOREM RoomTypeCorrect == Spec => []TypeOK
<1>1. Init => RoomInv
  BY InitRoom
<1>2. RoomInv /\ [Next]_vars => RoomInv'
  BY NextRoom
<1>3. RoomInv => TypeOK
  BY DEF RoomInv
<1> QED BY <1>1, <1>2, <1>3, PTL DEF Spec

-----------------------------------------------------------------------------
(* Where a member has stopped, to a client that missed nothing. *)
Known(j, k) ==
  (j # k /\ ~roomUser[k].isMove /\ roomUser[j].session \notin gap
     /\ roomUser[k].session \notin untold)
  => client[roomUser[j].session].at[roomUser[k].seqID] = roomUser[k].pos

LEMMA KnownAll ==
  StoppedIsKnown <=> \A j, k \in Occupied : Known(j, k)
BY DEF StoppedIsKnown, Known

(* Two members have two sessions and two ids. *)
LEMMA TwoMembers ==
  ASSUME RoomInv, NEW j \in Occupied, NEW k \in Occupied, j # k
  PROVE  /\ roomUser[j].session \in Sessions /\ connected[roomUser[j].session]
         /\ SocketOf[roomUser[j].session] = j
         /\ roomUser[j].session # roomUser[k].session
         /\ roomUser[j].seqID # roomUser[k].seqID /\ roomUser[k].seqID \in Ids
<1>1. TypeOK /\ IdInv /\ Matched /\ Distinct
  BY DEF RoomInv, IdInv
<1>2. /\ SocketOf[roomUser[j].session] = j /\ SocketOf[roomUser[k].session] = k
      /\ connected[roomUser[j].session]
  BY <1>1 DEF Matched
<1>3. roomUser[j].seqID # roomUser[k].seqID
  BY <1>1 DEF Distinct
<1> QED BY <1>1, <1>2, <1>3, OccupiedUsers

LEMMA EnterKnown ==
  ASSUME RoomInv, StoppedIsKnown, NEW s \in Sessions, Enter(s)
  PROVE  StoppedIsKnown'
<1>1. TypeOK /\ Matched /\ roomUser \in [Keys -> Users \cup {NoUser}]
  BY DEF RoomInv, TypeOK
<1>2. PICK greet : Entered(s, Head(seqIDs), greet)
  BY EnterFacts
<1>3. PICK i : i = Head(seqIDs)
  OBVIOUS
<1>4. PICK key : key = SocketOf[s]
  OBVIOUS
<1>5. PICK u : u = RoomUser(s, i)
  OBVIOUS
<1>6. u.session = s /\ u.seqID = i /\ u.pos = 0
  BY <1>5 DEF RoomUser
<1>7. /\ i \in Ids /\ key \in Keys /\ key \notin Occupied /\ ~connected[s]
      /\ roomUser' = [roomUser EXCEPT ![key] = u]
      /\ Occupied' = Occupied \cup {key}
      /\ \A k \in Occupied : roomUser[k].seqID # i
      /\ Says("SPAWN", greet, {Datum(roomUser[k]) : k \in Occupied})
      /\ Heard("SPAWN", [NewClient EXCEPT !.entered = TRUE, !.seqID = i], client'[s],
               Told(greet.out))
      /\ \A t \in Sessions \ {s} :
           connected[t] => Heard("SPAWN", client[t], client'[t], {[seqID |-> i, pos |-> 0]})
      /\ gap' = IF greet.lost = {} THEN gap ELSE gap \cup {s}
  BY <1>2, <1>3, <1>4, <1>5 DEF Entered
<1>8. untold' = untold
  BY DEF Enter
<1>9. /\ roomUser'[key] = u
      /\ \A k \in Occupied : roomUser'[k] = roomUser[k] /\ k # key
  BY <1>1, <1>7 DEF Occupied
<1>10. ASSUME NEW j \in Occupied, NEW k \in Occupied, j # k,
              ~roomUser'[k].isMove, roomUser'[j].session \notin gap',
              roomUser'[k].session \notin untold'
       PROVE  client'[roomUser'[j].session].at[roomUser'[k].seqID] = roomUser'[k].pos
  <2>1. PICK c : c = roomUser[j].session
    OBVIOUS
  <2>2. /\ c \in Sessions /\ connected[c] /\ c # s /\ roomUser[k].seqID \in Ids
        /\ roomUser[k].seqID # i
    BY <1>7, <1>10, <2>1, TwoMembers
  <2>3. c \notin gap
    BY <1>7, <1>9, <1>10, <2>1
  <2>4. client[c].at[roomUser[k].seqID] = roomUser[k].pos
    BY <1>8, <1>9, <1>10, <2>1, <2>3, KnownAll DEF Known
  <2>5. Heard("SPAWN", client[c], client'[c], {[seqID |-> i, pos |-> 0]})
    BY <1>7, <2>2
  <2>6. client'[c].at[roomUser[k].seqID] = client[c].at[roomUser[k].seqID]
    BY <2>2, <2>5 DEF Heard
  <2> QED BY <1>9, <2>1, <2>4, <2>6
<1>11. ASSUME NEW k \in Occupied, roomUser'[key].session \notin gap'
       PROVE  client'[roomUser'[key].session].at[roomUser'[k].seqID] = roomUser'[k].pos
  <2>1. greet.lost = {}
    BY <1>6, <1>7, <1>9, <1>11
  <2>2. Told(greet.out) = {Datum(roomUser[m]) : m \in Occupied}
    BY <1>7, <2>1 DEF Says
  <2>3. \A d \in Told(greet.out) : d.seqID = roomUser[k].seqID => d.pos = roomUser[k].pos
    <3> SUFFICES ASSUME NEW d \in Told(greet.out), d.seqID = roomUser[k].seqID
                 PROVE  d.pos = roomUser[k].pos
      OBVIOUS
    <3>1. PICK m \in Occupied : d = Datum(roomUser[m])
      BY <2>2
    <3>2. d.seqID = roomUser[m].seqID /\ d.pos = roomUser[m].pos
      BY <3>1 DEF Datum
    <3>3. m # k => roomUser[m].seqID # roomUser[k].seqID
      BY TwoMembers
    <3> QED BY <3>2, <3>3
  <2>4. Datum(roomUser[k]) \in Told(greet.out) /\ Datum(roomUser[k]).seqID = roomUser[k].seqID
    BY <2>2 DEF Datum
  <2>5. roomUser[k].seqID \in Ids
    BY <1>1, OccupiedUsers
  <2>6. client'[s].at[roomUser[k].seqID] = roomUser[k].pos
    BY <1>7, <2>3, <2>4, <2>5 DEF Heard
  <2> QED BY <1>6, <1>9, <2>6
<1>12. ASSUME NEW j \in Occupied
       PROVE  client'[roomUser'[j].session].at[roomUser'[key].seqID] = roomUser'[key].pos
  <2>1. PICK c : c = roomUser[j].session
    OBVIOUS
  <2>2. c \in Sessions /\ connected[c] /\ c # s
    BY <1>1, <1>7, <2>1, OccupiedUsers DEF Matched
  <2>3. PICK d : d = [seqID |-> i, pos |-> 0]
    OBVIOUS
  <2>4. Heard("SPAWN", client[c], client'[c], {d})
    BY <1>7, <2>2, <2>3
  <2>5. d.seqID = i /\ d.pos = 0
    BY <2>3
  <2>6. client'[c].at[i] = 0
    BY <1>7, <2>4, <2>5 DEF Heard
  <2> QED BY <1>6, <1>9, <2>1, <2>6
<1>13. \A j, k \in Occupied' : Known(j, k)'
  <2> SUFFICES ASSUME NEW j \in Occupied', NEW k \in Occupied' PROVE Known(j, k)'
    OBVIOUS
  <2>1. CASE j \in Occupied /\ k \in Occupied
    BY <1>10, <2>1 DEF Known
  <2>2. CASE j = key /\ k \in Occupied
    BY <1>11, <2>2 DEF Known
  <2>3. CASE j \in Occupied /\ k = key
    BY <1>12, <2>3 DEF Known
  <2>4. CASE j = key /\ k = key
    BY <2>4 DEF Known
  <2> QED BY <1>7, <2>1, <2>2, <2>3, <2>4
<1> QED BY <1>13 DEF StoppedIsKnown, Known

LEMMA LeaveKnown ==
  ASSUME RoomInv, StoppedIsKnown, NEW s \in Sessions, Leave(s)
  PROVE  StoppedIsKnown'
<1>1. TypeOK /\ Matched /\ roomUser \in [Keys -> Users \cup {NoUser}]
  BY DEF RoomInv, TypeOK
<1>2. PICK heard \in BOOLEAN : Left(s, roomUser[SocketOf[s]].seqID, heard)
  BY LeaveFacts
<1>3. PICK key : key = SocketOf[s]
  OBVIOUS
<1>4. PICK i : i = roomUser[key].seqID
  OBVIOUS
<1>5. /\ key \in Occupied /\ key \in Keys /\ roomUser[key].session = s
      /\ roomUser' = [roomUser EXCEPT ![key] = NoUser]
      /\ Occupied' = Occupied \ {key}
      /\ \A t \in Sessions \ {s} :
           IF heard /\ connected[t]
           THEN /\ client'[t].seqID = client[t].seqID
                /\ client'[t].knows = client[t].knows \ {i}
                /\ \A j \in Ids : j # i => client'[t].at[j] = client[t].at[j]
           ELSE client'[t] = client[t]
      /\ gap' = (IF heard THEN gap ELSE gap \cup Members) \ {s}
  BY <1>2, <1>3, <1>4 DEF Left, Occupied
<1>6. untold' = untold \ {s}
  BY DEF Leave
<1>7. ASSUME NEW j \in Occupied', NEW k \in Occupied', j # k,
             ~roomUser'[k].isMove, roomUser'[j].session \notin gap',
             roomUser'[k].session \notin untold'
      PROVE  client'[roomUser'[j].session].at[roomUser'[k].seqID] = roomUser'[k].pos
  <2>1. /\ j \in Occupied /\ k \in Occupied /\ j # key /\ k # key
        /\ roomUser'[j] = roomUser[j] /\ roomUser'[k] = roomUser[k]
    BY <1>1, <1>5 DEF Occupied
  <2>2. PICK c : c = roomUser[j].session
    OBVIOUS
  <2>3. /\ c \in Sessions /\ connected[c] /\ c # s /\ roomUser[k].seqID \in Ids
        /\ roomUser[k].seqID # i /\ roomUser[k].session # s
    BY <1>4, <1>5, <1>7, <2>1, <2>2, TwoMembers
  <2>4. c \in Members
    BY <2>1, <2>2 DEF Members
  <2>5. heard /\ c \notin gap /\ roomUser[k].session \notin untold
    BY <1>5, <1>6, <1>7, <2>1, <2>2, <2>3, <2>4
  <2>6. client[c].at[roomUser[k].seqID] = roomUser[k].pos
    BY <1>7, <2>1, <2>2, <2>5, KnownAll DEF Known
  <2>7. client'[c].at[roomUser[k].seqID] = client[c].at[roomUser[k].seqID]
    BY <1>5, <2>3, <2>5
  <2> QED BY <2>1, <2>2, <2>6, <2>7
<1>8. \A j, k \in Occupied' : Known(j, k)'
  BY <1>7 DEF Known
<1> QED BY <1>8 DEF StoppedIsKnown, Known

LEMMA MoveKnown ==
  ASSUME RoomInv, StoppedIsKnown, NEW s \in Sessions, NEW x \in MoveRequests, Move(s, x)
  PROVE  StoppedIsKnown'
<1>1. TypeOK /\ Matched /\ roomUser \in [Keys -> Users \cup {NoUser}]
  BY DEF RoomInv, TypeOK
<1>2. PICK v : Moved(s, v)
  BY MoveFacts
<1>3. PICK key : key = SocketOf[s]
  OBVIOUS
<1>4. /\ key \in Occupied /\ key \in Keys /\ roomUser[key].session = s
      /\ v.session = s /\ v.seqID = roomUser[key].seqID
      /\ ~v.isMove /\ ~roomUser[key].isMove => v = roomUser[key]
      /\ roomUser' = [roomUser EXCEPT ![key] = v] /\ Occupied' = Occupied
      /\ untold' = IF roomUser[key].isMove /\ ~v.isMove THEN untold \cup {s} ELSE untold
  BY <1>2, <1>3 DEF Moved, Occupied
<1>5. client' = client /\ gap' = gap
  BY DEF Move
<1>6. roomUser'[key] = v /\ \A k \in Occupied : k # key => roomUser'[k] = roomUser[k]
  BY <1>1, <1>4 DEF Occupied
<1>7. ASSUME NEW j \in Occupied, NEW k \in Occupied, j # k,
             ~roomUser'[k].isMove, roomUser'[j].session \notin gap',
             roomUser'[k].session \notin untold'
      PROVE  client'[roomUser'[j].session].at[roomUser'[k].seqID] = roomUser'[k].pos
  <2>1. roomUser'[j].session = roomUser[j].session
    BY <1>4, <1>6
  <2>2. roomUser'[k] = roomUser[k]
    BY <1>4, <1>6, <1>7
  <2>3. roomUser[k].session \notin untold
    BY <1>4, <1>7, <2>2
  <2>4. Known(j, k)
    BY KnownAll
  <2> QED BY <1>5, <1>7, <2>1, <2>2, <2>3, <2>4 DEF Known
<1>8. \A j, k \in Occupied' : Known(j, k)'
  BY <1>4, <1>7 DEF Known
<1> QED BY <1>8 DEF StoppedIsKnown, Known

LEMMA TickKnown ==
  ASSUME RoomInv, StoppedIsKnown, Tick
  PROVE  StoppedIsKnown'
<1>1. TypeOK /\ Matched
  BY DEF RoomInv
<1>2. PICK users, moving, snap : Ticked(users, moving, snap)
  BY TickFacts
<1>3. /\ roomUser' = users /\ Occupied' = Occupied
      /\ moving = {k \in Occupied : roomUser[k].isMove}
      /\ Says("MOVE", snap, {Datum(users[k]) : k \in moving})
      /\ \A t \in Sessions :
           connected[t] => Heard("MOVE", client[t], client'[t], Told(snap.out))
      /\ untold' = (untold \ {users[k].session : k \in moving}) \cup
            {users[k].session : k \in {m \in moving : Datum(users[m]) \in snap.lost}}
  BY <1>2 DEF Ticked
<1>4. gap' = gap
  BY DEF Tick
<1>5. \A k \in Occupied : /\ users[k].session = roomUser[k].session
                          /\ users[k].seqID = roomUser[k].seqID
                          /\ k \notin moving => users[k] = roomUser[k]
  BY <1>2 DEF Ticked, Occupied
<1>6. ASSUME NEW j \in Occupied, NEW k \in Occupied, j # k,
             ~users[k].isMove, users[j].session \notin gap',
             users[k].session \notin untold'
      PROVE  client'[users[j].session].at[users[k].seqID] = users[k].pos
  <2>1. PICK c : c = roomUser[j].session
    OBVIOUS
  <2>2. PICK i : i = roomUser[k].seqID
    OBVIOUS
  <2>3. c \in Sessions /\ connected[c] /\ i \in Ids
    BY <1>6, <2>1, <2>2, TwoMembers
  <2>4. Heard("MOVE", client[c], client'[c], Told(snap.out))
    BY <1>3, <2>3
  <2>5. \A d \in Told(snap.out) : \E m \in moving : d = Datum(users[m])
    BY <1>3 DEF Says
  <2>6. \A d \in Told(snap.out) : d.seqID = i => k \in moving /\ d.pos = users[k].pos
    <3> SUFFICES ASSUME NEW d \in Told(snap.out), d.seqID = i
                 PROVE  k \in moving /\ d.pos = users[k].pos
      OBVIOUS
    <3>1. PICK m \in moving : d = Datum(users[m])
      BY <2>5
    <3>2. d.seqID = users[m].seqID /\ d.pos = users[m].pos /\ m \in Occupied
      BY <1>3, <3>1 DEF Datum
    <3>a. m # k => roomUser[m].seqID # roomUser[k].seqID
      BY <3>2, TwoMembers
    <3>3. m = k
      BY <1>5, <2>2, <3>2, <3>a
    <3> QED BY <3>2, <3>3
  <2>7. CASE k \in moving
    <3>1. Datum(users[k]) \notin snap.lost
      BY <1>3, <1>6, <2>7
    <3>2. Datum(users[k]) \in Told(snap.out) /\ Datum(users[k]).seqID = i
      BY <1>3, <1>5, <2>2, <2>7, <3>1 DEF Says, Datum
    <3>3. client'[c].at[i] = users[k].pos
      BY <2>3, <2>4, <2>6, <3>2 DEF Heard
    <3> QED BY <1>5, <2>1, <2>2, <3>3
  <2>8. CASE k \notin moving
    <3>1. users[k] = roomUser[k]
      BY <1>5, <2>8
    <3>2. client'[c].at[i] = client[c].at[i]
      BY <2>3, <2>4, <2>6, <2>8 DEF Heard
    <3>3. roomUser[k].session \notin {users[m].session : m \in moving}
      <4> SUFFICES ASSUME NEW m \in moving, users[m].session = roomUser[k].session
                   PROVE  FALSE
        OBVIOUS
      <4>1. m \in Occupied /\ roomUser[m].session = roomUser[k].session
        BY <1>3, <1>5
      <4>2. m # k
        BY <2>8
      <4> QED BY <4>1, <4>2, TwoMembers
    <3>4. roomUser[k].session \notin untold
      BY <1>3, <1>6, <3>1, <3>3
    <3>5. Known(j, k)
      BY KnownAll
    <3>6. client[c].at[i] = roomUser[k].pos
      BY <1>4, <1>5, <1>6, <2>1, <2>2, <3>1, <3>4, <3>5 DEF Known
    <3> QED BY <1>5, <2>1, <2>2, <3>1, <3>2, <3>6
  <2> QED BY <2>7, <2>8
<1>7. \A j, k \in Occupied' : Known(j, k)'
  BY <1>3, <1>6 DEF Known
<1> QED BY <1>7 DEF StoppedIsKnown, Known

LEMMA OtherKnown ==
  ASSUME RoomInv, StoppedIsKnown,
         \/ UNCHANGED vars
         \/ Elapse
         \/ \E s \in Sessions : EnterFull(s) \/ EnterNoPacket(s) \/ EnterTaken(s)
                                \/ BroadCast(s)
  PROVE  StoppedIsKnown'
<1>1. TypeOK /\ Matched /\ client \in [Sessions -> Clients]
  BY DEF RoomInv, TypeOK
<1>2. UNCHANGED <<roomUser, gap, untold>>
  BY DEF vars, Elapse, EnterFull, EnterNoPacket, EnterTaken, BroadCast, told
<1>3. Occupied' = Occupied
  BY <1>2 DEF Occupied
<1>4. \A t \in Sessions : connected[t] => client'[t] = client[t]
  <2>1. ASSUME NEW s \in Sessions, EnterFull(s)
        PROVE  \A t \in Sessions : connected[t] => client'[t] = client[t]
    <3>1. ~connected[s]
      BY <2>1 DEF EnterFull
    <3>2. PICK c : client' = [client EXCEPT ![s] = c]
      BY <2>1 DEF EnterFull
    <3> QED BY <1>1, <3>1, <3>2
  <2>2. ASSUME NEW s \in Sessions, BroadCast(s) PROVE client' = client
    BY <2>2, ChatFacts
  <2> QED BY <2>1, <2>2 DEF vars, Elapse, EnterNoPacket, EnterTaken, told
<1>5. \A j \in Occupied : roomUser[j].session \in Sessions /\ connected[roomUser[j].session]
  BY <1>1, OccupiedUsers DEF Matched
<1>6. \A j, k \in Occupied : Known(j, k)
  BY KnownAll
<1>7. \A j, k \in Occupied' : Known(j, k)'
  BY <1>2, <1>3, <1>4, <1>5, <1>6 DEF Known
<1> QED BY <1>7 DEF StoppedIsKnown, Known

LEMMA NextKnown ==
  ASSUME RoomInv, StoppedIsKnown, [Next]_vars
  PROVE  StoppedIsKnown'
<1>1. ASSUME NEW s \in Sessions, Enter(s) PROVE StoppedIsKnown'
  BY <1>1, EnterKnown
<1>2. ASSUME NEW s \in Sessions, Leave(s) PROVE StoppedIsKnown'
  BY <1>2, LeaveKnown
<1>3. ASSUME NEW s \in Sessions, NEW x \in MoveRequests, Move(s, x) PROVE StoppedIsKnown'
  BY <1>3, MoveKnown
<1>4. ASSUME Tick PROVE StoppedIsKnown'
  BY <1>4, TickKnown
<1>5. ASSUME \/ UNCHANGED vars
             \/ Elapse
             \/ \E s \in Sessions : EnterFull(s) \/ EnterNoPacket(s) \/ EnterTaken(s)
                                    \/ BroadCast(s)
      PROVE  StoppedIsKnown'
  BY <1>5, OtherKnown
<1> QED BY <1>1, <1>2, <1>3, <1>4, <1>5 DEF Next

(* Room::MoveCheckUsers and the SPAWNs of Room::Enter, however full the packets
   and whichever of them cannot be made: a client that missed nothing knows
   where every member has stopped, unless that snapshot was lost or the member
   stopped inside Room::Move (Room.cpp:256-266). *)
THEOREM StoppedIsKnownAlways == Spec => []StoppedIsKnown
<1>1. Init => RoomInv /\ StoppedIsKnown
  <2> SUFFICES ASSUME Init PROVE RoomInv /\ StoppedIsKnown
    OBVIOUS
  <2>1. Occupied = {}
    BY DEF Init, Occupied
  <2> QED BY <2>1, InitRoom DEF StoppedIsKnown
<1>2. RoomInv /\ StoppedIsKnown /\ [Next]_vars => (RoomInv /\ StoppedIsKnown)'
  BY NextRoom, NextKnown
<1> QED BY <1>1, <1>2, PTL DEF Spec

-----------------------------------------------------------------------------
(* The room as RoomView sees it. *)
MemberIds == [s \in Sessions |-> IF connected[s] THEN client[s].seqID ELSE -1]
KnownIds  == [s \in Sessions |-> client[s].knows]
Retired   == Ids \ (Free \cup Used)

LEMMA ViewMembers ==
  ASSUME TypeOK
  PROVE  View!Members = {t \in Sessions : connected[t]}
<1>1. \A t \in Sessions : client[t].seqID # -1
  <2> TAKE t \in Sessions
  <2>1. client[t].seqID \in Ids
    BY DEF TypeOK, Clients
  <2> QED BY <2>1, RoomAssumption DEF Ids
<1> QED BY <1>1 DEF View!Members

LEMMA ViewTaken ==
  ASSUME RoomInv
  PROVE  View!Taken = Used
<1>1. TypeOK /\ Matched
  BY DEF RoomInv
<1>2. View!Members = {t \in Sessions : connected[t]}
  BY <1>1, ViewMembers
<1>3. \A i : i \in View!Taken <=> \E t \in Sessions : connected[t] /\ i = client[t].seqID
  BY <1>2 DEF View!Taken
<1>4. \A k \in Occupied : /\ roomUser[k].session \in Sessions
                          /\ connected[roomUser[k].session]
                          /\ SocketOf[roomUser[k].session] = k
  BY <1>1, OccupiedUsers DEF Matched
<1>5. \A t \in Sessions : connected[t] =>
         SocketOf[t] \in Occupied /\ roomUser[SocketOf[t]].seqID = client[t].seqID
  BY <1>1 DEF Matched
<1>6. ASSUME NEW i, i \in View!Taken PROVE i \in Used
  BY <1>3, <1>5, <1>6 DEF Used
<1>7. ASSUME NEW i, i \in Used PROVE i \in View!Taken
  <2>1. PICK k \in Occupied : i = roomUser[k].seqID
    BY <1>7 DEF Used
  <2>2. client[roomUser[k].session].seqID = i
    BY <1>4, <1>5, <2>1
  <2> QED BY <1>3, <1>4, <2>2
<1> QED BY <1>6, <1>7

LEMMA FreeHead ==
  ASSUME NEW S, NEW s \in Seq(S), s # <<>>
  PROVE  ToSet(s) = {Head(s)} \cup ToSet(Tail(s))
<1>1. PICK t : t = Tail(s)
  OBVIOUS
<1>2. /\ t \in Seq(S) /\ Len(t) = Len(s) - 1 /\ Head(s) = s[1]
      /\ \A i \in 1 .. Len(t) : t[i] = s[i + 1]
  BY <1>1, HeadTailProperties
<1>3. Len(s) \in Nat /\ Len(s) # 0 /\ DOMAIN s = 1 .. Len(s) /\ DOMAIN t = 1 .. Len(t)
  BY <1>2, LenProperties, EmptySeq
<1>4. ASSUME NEW x, x \in ToSet(s) PROVE x = s[1] \/ x \in ToSet(t)
  <2>1. PICK i \in 1 .. Len(s) : x = s[i]
    BY <1>3, <1>4 DEF ToSet
  <2>2. CASE i # 1
    <3>1. PICK j : j = i - 1
      OBVIOUS
    <3>2. j \in 1 .. Len(t) /\ j + 1 = i
      BY <1>2, <1>3, <2>2, <3>1
    <3>3. x = t[j]
      BY <1>2, <2>1, <3>2
    <3> QED BY <1>3, <3>2, <3>3 DEF ToSet
  <2> QED BY <2>1, <2>2
<1>5. ASSUME NEW x, x \in ToSet(t) PROVE x \in ToSet(s)
  <2>1. PICK i \in 1 .. Len(t) : x = t[i]
    BY <1>3, <1>5 DEF ToSet
  <2>2. i + 1 \in 1 .. Len(s) /\ x = s[i + 1]
    BY <1>2, <1>3, <2>1
  <2> QED BY <1>3, <2>2 DEF ToSet
<1>6. s[1] \in ToSet(s)
  BY <1>3 DEF ToSet
<1> QED BY <1>1, <1>2, <1>4, <1>5, <1>6

(* Ids of entries that stay, of one that comes and of one that goes. *)
LEMMA EnterView ==
  ASSUME RoomInv, NEW s \in Sessions, Enter(s)
  PROVE  \E i \in Ids : View!Join(s, i)
<1>1. TypeOK /\ IdInv /\ Matched /\ Typed /\ Distinct
  BY DEF RoomInv, IdInv
<1>2. PICK greet : Entered(s, Head(seqIDs), greet)
  BY EnterFacts
<1>3. PICK i : i = Head(seqIDs)
  OBVIOUS
<1>4. PICK key : key = SocketOf[s]
  OBVIOUS
<1>5. PICK u : u = RoomUser(s, i)
  OBVIOUS
<1>6. u.session = s /\ u.seqID = i
  BY <1>5 DEF RoomUser
<1>7. /\ i \in Ids /\ key \in Keys /\ key \notin Occupied /\ ~connected[s]
      /\ roomUser' = [roomUser EXCEPT ![key] = u]
      /\ Occupied' = Occupied \cup {key}
      /\ \A k \in Occupied : roomUser[k].seqID # i
      /\ Says("SPAWN", greet, {Datum(roomUser[k]) : k \in Occupied})
      /\ Heard("SPAWN", [NewClient EXCEPT !.entered = TRUE, !.seqID = i], client'[s],
               Told(greet.out))
      /\ \A t \in Sessions \ {s} :
           /\ connected[t] => Heard("SPAWN", client[t], client'[t],
                                    {[seqID |-> i, pos |-> 0]})
           /\ ~connected[t] => client'[t] = client[t]
      /\ gap' = IF greet.lost = {} THEN gap ELSE gap \cup {s}
      /\ client' \in [Sessions -> Clients]
  BY <1>2, <1>3, <1>4, <1>5 DEF Entered
<1>8. seqIDs # <<>> /\ seqIDs' = Tail(seqIDs)
      /\ connected' = [connected EXCEPT ![s] = TRUE]
  BY DEF Enter
<1>9. View!Members = {t \in Sessions : connected[t]} /\ View!Taken = Used
  BY <1>1, ViewMembers, ViewTaken
<1>10. seqIDs \in Seq(Ids) /\ Free = {i} \cup ToSet(seqIDs')
  <2>1. seqIDs \in Seq(Ids)
    BY <1>1 DEF Typed
  <2> QED BY <1>3, <1>8, <2>1, FreeHead DEF Free
<1>11. i \notin Used
  BY <1>7 DEF Used
<1>12. i \notin Used \cup Retired
  BY <1>10, <1>11 DEF Retired
<1>13. Free' \cup Used' = Free \cup Used
  <2>1. Used' = Used \cup {i}
    <3>1. \A k \in Occupied : roomUser'[k] = roomUser[k] /\ k # key
      BY <1>1, <1>7 DEF TypeOK, Occupied
    <3>2. roomUser'[key] = u
      BY <1>1, <1>7 DEF TypeOK
    <3> QED BY <1>6, <1>7, <3>1, <3>2 DEF Used
  <2>2. Free' = ToSet(seqIDs')
    BY DEF Free
  <2> QED BY <1>10, <2>1, <2>2
<1>14. Retired' = Retired
  <2>1. Ids' = Ids
    BY DEF Ids
  <2> QED BY <1>13, <2>1 DEF Retired
<1>15. client'[s].seqID = i /\ client'[s].knows = {d.seqID : d \in Told(greet.out)}
  <2>1. PICK c : c = [NewClient EXCEPT !.entered = TRUE, !.seqID = i]
    OBVIOUS
  <2>2. c.seqID = i /\ c.knows = {}
    BY <2>1 DEF NewClient
  <2> QED BY <1>7, <2>1, <2>2 DEF Heard
<1>16. MemberIds' = [MemberIds EXCEPT ![s] = i]
  <2>1. \A t \in Sessions : connected'[t] = IF t = s THEN TRUE ELSE connected[t]
    BY <1>1, <1>8 DEF TypeOK
  <2>2. \A t \in Sessions \ {s} : client'[t].seqID = client[t].seqID
    BY <1>7 DEF Heard
  <2>3. \A t \in Sessions : MemberIds'[t] = IF t = s THEN i ELSE MemberIds[t]
    BY <1>15, <2>1, <2>2 DEF MemberIds
  <2> QED BY <2>3 DEF MemberIds
<1>17. PICK known : known = {d.seqID : d \in Told(greet.out)}
  OBVIOUS
<1>18. /\ known \subseteq Used
       /\ greet.lost = {} <=> known = Used
  <2>1. Told(greet.out) \cup greet.lost = {Datum(roomUser[k]) : k \in Occupied}
        /\ Told(greet.out) \cap greet.lost = {}
    BY <1>7 DEF Says
  <2>2. \A k : Datum(roomUser[k]).seqID = roomUser[k].seqID
    BY DEF Datum
  <2>3. known \subseteq Used
    BY <1>17, <2>1, <2>2 DEF Used
  <2>4. ASSUME greet.lost = {} PROVE Used \subseteq known
    BY <1>17, <2>1, <2>2, <2>4 DEF Used
  <2>5. ASSUME known = Used, NEW e \in greet.lost PROVE FALSE
    <3>1. PICK k \in Occupied : e = Datum(roomUser[k])
      BY <2>1
    <3>2. roomUser[k].seqID \in known
      BY <2>5 DEF Used
    <3>3. PICK d \in Told(greet.out) : d.seqID = roomUser[k].seqID
      BY <1>17, <3>2
    <3>4. PICK m \in Occupied : d = Datum(roomUser[m])
      BY <2>1
    <3>5. roomUser[m].seqID = roomUser[k].seqID
      BY <2>2, <3>3, <3>4
    <3>6. m = k
      BY <1>1, <3>5 DEF Distinct
    <3> QED BY <2>1, <3>1, <3>3, <3>4, <3>6
  <2> QED BY <2>3, <2>4, <2>5
<1>19. KnownIds' = [t \in Sessions |-> CASE t = s -> known
                                         [] t \in View!Members -> KnownIds[t] \cup {i}
                                         [] OTHER -> KnownIds[t]]
  <2>1. \A t \in Sessions \ {s} :
           client'[t].knows = IF connected[t] THEN client[t].knows \cup {i}
                              ELSE client[t].knows
    <3> TAKE t \in Sessions \ {s}
    <3>1. PICK d : d = [seqID |-> i, pos |-> 0]
      OBVIOUS
    <3>2. {x.seqID : x \in {d}} = {i}
      BY <3>1
    <3>3. connected[t] => client'[t].knows = client[t].knows \cup {x.seqID : x \in {d}}
      BY <1>7, <3>1 DEF Heard
    <3> QED BY <1>7, <3>2, <3>3
  <2>2. \A t \in Sessions : client'[t].knows = CASE t = s -> known
                                          [] t \in View!Members -> client[t].knows \cup {i}
                                          [] OTHER -> client[t].knows
    <3> TAKE t \in Sessions
    <3>1. t \in View!Members <=> connected[t]
      BY <1>9
    <3>2. CASE t = s
      <4>1. client'[t].knows = known /\ t \notin View!Members
        BY <1>7, <1>15, <1>17, <3>1, <3>2
      <4> QED BY <3>2, <4>1
    <3>3. CASE t # s /\ connected[t]
      <4>1. client'[t].knows = client[t].knows \cup {i}
        BY <2>1, <3>3
      <4> QED BY <3>1, <3>3, <4>1
    <3>4. CASE t # s /\ ~connected[t]
      <4>1. client'[t].knows = client[t].knows
        BY <2>1, <3>4
      <4> QED BY <3>1, <3>4, <4>1
    <3> QED BY <3>2, <3>3, <3>4
  <2> QED BY <2>2 DEF KnownIds
<1>20. gap' = IF known = View!Taken THEN gap ELSE gap \cup {s}
  BY <1>7, <1>9, <1>18
<1>21. s \notin View!Members /\ i \notin View!Taken \cup Retired
       /\ known \in SUBSET View!Taken
  BY <1>7, <1>9, <1>12, <1>18
<1>22. View!Join(s, i)
  BY <1>14, <1>16, <1>19, <1>20, <1>21 DEF View!Join, MemberIds, KnownIds, Retired
<1> QED BY <1>7, <1>22

LEMMA LeaveView ==
  ASSUME RoomInv, NEW s \in Sessions, Leave(s)
  PROVE  View!Part(s) \/ View!PartUntold(s)
<1>1. TypeOK /\ IdInv /\ Matched /\ Typed /\ Distinct
  BY DEF RoomInv, IdInv
<1>2. PICK i : i = roomUser[SocketOf[s]].seqID
  OBVIOUS
<1>3. PICK heard \in BOOLEAN : Left(s, i, heard)
  BY <1>2, LeaveFacts
<1>4. PICK key : key = SocketOf[s]
  OBVIOUS
<1>5. /\ connected[s] /\ key \in Occupied /\ i \in Ids /\ roomUser[key].seqID = i
      /\ client[s].seqID = i
      /\ roomUser' = [roomUser EXCEPT ![key] = NoUser]
      /\ Occupied' = Occupied \ {key}
      /\ seqIDs' = IF heard THEN Append(seqIDs, i) ELSE seqIDs
      /\ client'[s] = NewClient
      /\ \A t \in Sessions \ {s} :
           IF heard /\ connected[t]
           THEN /\ client'[t].seqID = client[t].seqID
                /\ client'[t].knows = client[t].knows \ {i}
           ELSE client'[t] = client[t]
      /\ gap' = (IF heard THEN gap ELSE gap \cup Members) \ {s}
  BY <1>2, <1>3, <1>4 DEF Left
<1>6. connected' = [connected EXCEPT ![s] = FALSE]
  BY DEF Leave
<1>7. View!Members = {t \in Sessions : connected[t]}
  BY <1>1, ViewMembers
<1>8. s \in View!Members
  BY <1>5, <1>7
<1>9. Members = View!Members
  <2>1. \A k \in Occupied : roomUser[k].session \in Sessions /\ connected[roomUser[k].session]
    BY <1>1, OccupiedUsers DEF Matched
  <2>2. \A t \in Sessions : connected[t] =>
           SocketOf[t] \in Occupied /\ roomUser[SocketOf[t]].session = t
    BY <1>1 DEF Matched
  <2>3. ASSUME NEW t \in View!Members PROVE t \in Members
    BY <1>7, <2>2 DEF Members
  <2> QED BY <1>7, <2>1, <2>3 DEF Members
<1>10. MemberIds' = [MemberIds EXCEPT ![s] = -1]
  <2>1. \A t \in Sessions : connected'[t] = IF t = s THEN FALSE ELSE connected[t]
    BY <1>1, <1>6 DEF TypeOK
  <2>2. \A t \in Sessions \ {s} : client'[t].seqID = client[t].seqID
    BY <1>5
  <2>3. \A t \in Sessions : MemberIds'[t] = IF t = s THEN -1 ELSE MemberIds[t]
    BY <2>1, <2>2 DEF MemberIds
  <2> QED BY <2>3 DEF MemberIds
<1>11. MemberIds[s] = i
  BY <1>5 DEF MemberIds
<1>12. client'[s].knows = {}
  BY <1>5 DEF NewClient
<1>13. \A t \in Sessions : ~connected[t] => client[t].knows = {}
  BY <1>1 DEF Matched
<1>14. Used' = Used \ {i}
  <2>1. \A k \in Occupied \ {key} : roomUser'[k] = roomUser[k]
    BY <1>1, <1>5 DEF TypeOK, Occupied
  <2>2. \A k \in Occupied \ {key} : roomUser[k].seqID # i
    BY <1>1, <1>5 DEF Distinct
  <2>3. ASSUME NEW x \in Used \ {i} PROVE x \in Used'
    <3>1. PICK k \in Occupied : x = roomUser[k].seqID
      BY <2>3 DEF Used
    <3>2. k # key
      BY <1>5, <2>3, <3>1
    <3> QED BY <1>5, <2>1, <3>1, <3>2 DEF Used
  <2>4. ASSUME NEW x \in Used' PROVE x \in Used \ {i}
    <3>1. PICK k \in Occupied \ {key} : x = roomUser'[k].seqID
      BY <1>5, <2>4 DEF Used
    <3> QED BY <2>1, <2>2, <3>1 DEF Used
  <2> QED BY <2>3, <2>4
<1>15. i \notin Free
  <2>1. seqIDs \in Seq(Ids)
    BY <1>1 DEF Typed
  <2>2. \A j \in 1 .. Len(seqIDs) : seqIDs[j] # i
    BY <1>1, <1>5 DEF Distinct
  <2> QED BY <2>1, <2>2, LenProperties DEF Free, ToSet
<1>16. i \in Used /\ Ids' = Ids
  BY <1>5 DEF Used, Ids
<1>17. CASE heard
  <2>1. Free' = Free \cup {i}
    <3>1. seqIDs \in Seq(Ids) /\ seqIDs' = Append(seqIDs, i)
      BY <1>1, <1>5, <1>17 DEF Typed
    <3>2. ToSet(Append(seqIDs, i)) = ToSet(seqIDs) \cup {i}
      BY <1>5, <3>1, AppendSet
    <3> QED BY <3>1, <3>2 DEF Free
  <2>2. Retired' = Retired
    BY <1>14, <1>16, <2>1 DEF Retired
  <2>3. \A t \in Sessions \ {s} : client'[t].knows = client[t].knows \ {i}
    BY <1>5, <1>13, <1>17
  <2>4. KnownIds' = [t \in Sessions |-> IF t = s THEN {}
                                        ELSE KnownIds[t] \ {MemberIds[s]}]
    BY <1>11, <1>12, <2>3 DEF KnownIds
  <2>5. gap' = gap \ {s}
    BY <1>5, <1>17
  <2> QED BY <1>8, <1>10, <2>2, <2>4, <2>5 DEF View!Part, MemberIds, KnownIds, Retired
<1>18. CASE ~heard
  <2>1. Free' = Free
    BY <1>5, <1>18 DEF Free
  <2>2. Retired' = Retired \cup {MemberIds[s]}
    BY <1>5, <1>11, <1>14, <1>15, <1>16, <2>1 DEF Retired
  <2>3. \A t \in Sessions \ {s} : client'[t].knows = client[t].knows
    BY <1>5, <1>18
  <2>4. KnownIds' = [KnownIds EXCEPT ![s] = {}]
    BY <1>12, <2>3 DEF KnownIds
  <2>5. gap' = (gap \cup View!Members) \ {s}
    BY <1>5, <1>9, <1>18
  <2> QED BY <1>8, <1>10, <2>2, <2>4, <2>5
          DEF View!PartUntold, MemberIds, KnownIds, Retired
<1> QED BY <1>17, <1>18

(* What is taken out in front and given back behind is still there. *)
LEMMA SameFree ==
  ASSUME NEW S, NEW s \in Seq(S), s # <<>>
  PROVE  ToSet(Append(Tail(s), Head(s))) = ToSet(s)
<1>1. Tail(s) \in Seq(S) /\ Head(s) \in S
  BY HeadTailProperties
<1>2. ToSet(Append(Tail(s), Head(s))) = ToSet(Tail(s)) \cup {Head(s)}
  <2>1. \A t \in Seq(S) : \A x \in S : ToSet(Append(t, x)) = ToSet(t) \cup {x}
    BY AppendSet
  <2> QED BY <1>1, <2>1
<1>3. ToSet(s) = {Head(s)} \cup ToSet(Tail(s))
  BY FreeHead
<1> QED BY <1>2, <1>3

(* Steps that no client takes for an entry or an exit. *)
LEMMA ViewStutters ==
  ASSUME RoomInv, connected' = connected, gap' = gap, Free' = Free,
         Used' = Used,
         \A t \in Sessions : /\ connected[t] => client'[t].seqID = client[t].seqID
                             /\ client'[t].knows = client[t].knows
  PROVE  UNCHANGED View!viewVars
<1>1. MemberIds' = MemberIds
  BY DEF MemberIds
<1>2. KnownIds' = KnownIds
  BY DEF KnownIds
<1>3. Retired' = Retired
  <2>1. Ids' = Ids
    BY DEF Ids
  <2> QED BY <2>1 DEF Retired
<1> QED BY <1>1, <1>2, <1>3 DEF View!viewVars, MemberIds, KnownIds, Retired

LEMMA NextView ==
  ASSUME RoomInv, [Next]_vars
  PROVE  View!ViewNext \/ UNCHANGED View!viewVars
<1>1. TypeOK /\ IdInv /\ Matched
  BY DEF RoomInv
<1>2. Free' = Free \/ seqIDs' # seqIDs
  BY DEF Free
<1>3. Used' = Used \/ roomUser' # roomUser
  BY DEF Used, Occupied
<1>4. ASSUME NEW s \in Sessions, EnterFull(s) PROVE UNCHANGED View!viewVars
  <2>1. /\ connected' = connected /\ gap' = gap /\ Free' = Free /\ Used' = Used
        /\ ~connected[s]
    BY <1>2, <1>3, <1>4 DEF EnterFull
  <2>2. PICK bad \in Failures :
          client' = [client EXCEPT ![s] =
              IF 1 \in bad THEN @ ELSE ParseClient(@, EnterAck(-1, 0))]
    BY <1>4 DEF EnterFull
  <2>3. client \in [Sessions -> Clients] /\ client[s] \in Clients
    BY <1>1 DEF TypeOK
  <2>4. PICK p : p = EnterAck(-1, 0)
    OBVIOUS
  <2>5. ParseClient(client[s], p).knows = client[s].knows
    <3>1. p.type = "ENTER"
      BY <2>4 DEF EnterAck
    <3>2. PICK b : b = (p.room >= 0)
      OBVIOUS
    <3>3. ParseClient(client[s], p) = [client[s] EXCEPT !.entered = b, !.seqID = p.seqID]
      BY <3>1, <3>2 DEF ParseClient
    <3> QED BY <2>3, <3>3 DEF Clients
  <2>6. \A t \in Sessions : /\ connected[t] => client'[t].seqID = client[t].seqID
                            /\ client'[t].knows = client[t].knows
    BY <2>1, <2>2, <2>3, <2>4, <2>5
  <2> QED BY <2>1, <2>6, ViewStutters
<1>5. ASSUME NEW s \in Sessions, EnterNoPacket(s) PROVE UNCHANGED View!viewVars
  <2>1. /\ connected' = connected /\ gap' = gap /\ Used' = Used /\ client' = client
        /\ seqIDs # <<>> /\ seqIDs' = Append(Tail(seqIDs), Head(seqIDs))
    BY <1>3, <1>5 DEF EnterNoPacket, told
  <2>2. Free' = Free
    <3>1. ToSet(Append(Tail(seqIDs), Head(seqIDs))) = ToSet(seqIDs)
      BY <1>1, <2>1, SameFree DEF TypeOK
    <3> QED BY <2>1, <3>1 DEF Free
  <2> QED BY <2>1, <2>2, ViewStutters
<1>6. ASSUME NEW s \in Sessions, EnterTaken(s) PROVE UNCHANGED View!viewVars
  <2>1. /\ connected' = connected /\ gap' = gap /\ Used' = Used /\ client' = client
        /\ seqIDs # <<>> /\ seqIDs' = Append(Tail(seqIDs), Head(seqIDs))
    BY <1>3, <1>6 DEF EnterTaken, told
  <2>2. Free' = Free
    <3>1. ToSet(Append(Tail(seqIDs), Head(seqIDs))) = ToSet(seqIDs)
      BY <1>1, <2>1, SameFree DEF TypeOK
    <3> QED BY <2>1, <3>1 DEF Free
  <2> QED BY <2>1, <2>2, ViewStutters
<1>7. ASSUME NEW s \in Sessions, Enter(s) PROVE View!ViewNext
  BY <1>7, EnterView DEF View!ViewNext
<1>8. ASSUME NEW s \in Sessions, Leave(s) PROVE View!ViewNext
  BY <1>8, LeaveView DEF View!ViewNext
<1>9. ASSUME NEW s \in Sessions, BroadCast(s) PROVE UNCHANGED View!viewVars
  <2>1. /\ connected' = connected /\ gap' = gap /\ Free' = Free /\ Used' = Used
    BY <1>2, <1>3, <1>9 DEF BroadCast
  <2>2. client' = client
    BY <1>9, ChatFacts
  <2> QED BY <2>1, <2>2, ViewStutters
<1>10. ASSUME NEW s \in Sessions, NEW x \in MoveRequests, Move(s, x)
       PROVE  UNCHANGED View!viewVars
  <2>1. /\ connected' = connected /\ gap' = gap /\ Free' = Free /\ client' = client
    BY <1>2, <1>10 DEF Move
  <2>2. PICK v : Moved(s, v)
    BY <1>10, MoveFacts
  <2>3. /\ Occupied' = Occupied
        /\ \A k \in Occupied : roomUser'[k].seqID = roomUser[k].seqID
    BY <1>1, <2>2 DEF Moved, TypeOK, Occupied
  <2>4. Used' = Used
    BY <2>3 DEF Used
  <2> QED BY <2>1, <2>4, ViewStutters
<1>11. ASSUME Tick PROVE UNCHANGED View!viewVars
  <2>1. /\ connected' = connected /\ gap' = gap /\ Free' = Free
    BY <1>2, <1>11 DEF Tick
  <2>2. PICK users, moving, snap : Ticked(users, moving, snap)
    BY <1>11, TickFacts
  <2>3. /\ Occupied' = Occupied /\ Occupied \subseteq Keys
        /\ \A k \in Occupied : users[k].seqID = roomUser[k].seqID
        /\ roomUser' = users
    <3>1. Occupied \subseteq Keys
      BY DEF Occupied
    <3>2. /\ Occupied' = Occupied /\ roomUser' = users
          /\ \A k \in Keys \ moving : users[k] = roomUser[k]
          /\ \A k \in moving : users[k].seqID = roomUser[k].seqID
      BY <2>2 DEF Ticked
    <3> QED BY <3>1, <3>2
  <2>4. Used' = Used
    BY <2>3 DEF Used
  <2>5. \A t \in Sessions : /\ connected[t] => client'[t].seqID = client[t].seqID
                            /\ client'[t].knows = client[t].knows
    <3>1. \A t \in Sessions :
            IF connected[t] THEN Heard("MOVE", client[t], client'[t], Told(snap.out))
            ELSE client'[t] = client[t]
      BY <2>2 DEF Ticked
    <3>2. \A c, d, D : Heard("MOVE", c, d, D) => d.seqID = c.seqID /\ d.knows = c.knows
      BY DEF Heard
    <3> QED BY <3>1, <3>2
  <2> QED BY <2>1, <2>4, <2>5, ViewStutters
<1>12. ASSUME Elapse \/ UNCHANGED vars PROVE UNCHANGED View!viewVars
  <2>1. /\ connected' = connected /\ gap' = gap /\ Free' = Free /\ Used' = Used
        /\ client' = client
    BY <1>2, <1>3, <1>12 DEF Elapse, vars, told
  <2> QED BY <2>1, ViewStutters
<1> QED
  BY <1>4, <1>5, <1>6, <1>7, <1>8, <1>9, <1>10, <1>11, <1>12 DEF Next

(* The clients see a room as RoomView says: a job that enters or leaves shows as
   the entry or the exit it is, told or marked as untold, and every other step
   shows as none. *)
THEOREM ViewRefined == Spec => ImplementsView
<1>1. Init => RoomInv
  BY InitRoom
<1>2. RoomInv /\ [Next]_vars => RoomInv'
  BY NextRoom
<1>3. Init => View!ViewInit
  <2> SUFFICES ASSUME Init PROVE View!ViewInit
    OBVIOUS
  <2>1. MemberIds = [s \in Sessions |-> -1] /\ KnownIds = [s \in Sessions |-> {}]
    BY DEF Init, MemberIds, KnownIds, NewClient
  <2>2. gap = {}
    BY DEF Init
  <2>3. Retired = {}
    <3>1. seqIDs = [i \in 1 .. MaxRoomUserCount |-> i - 1] /\ MaxRoomUserCount \in Nat
      BY RoomAssumption DEF Init
    <3>2. ASSUME NEW x \in Ids PROVE x \in Free
      <4>1. x + 1 \in 1 .. MaxRoomUserCount
        BY <3>1, <3>2 DEF Ids
      <4>2. PICK n : n = x + 1
        OBVIOUS
      <4>3. seqIDs[n] = x /\ n \in DOMAIN seqIDs
        BY <3>1, <4>1, <4>2 DEF Ids
      <4> QED BY <4>3 DEF Free, ToSet
    <3> QED BY <3>2 DEF Retired
  <2> QED BY <2>1, <2>2, <2>3 DEF View!ViewInit, MemberIds, KnownIds, Retired
<1>4. RoomInv /\ [Next]_vars => [View!ViewNext]_(View!viewVars)
  BY NextView
<1> QED BY <1>1, <1>2, <1>3, <1>4, PTL DEF Spec, ImplementsView, View!ViewSpec

(* RoomView!ViewRight, of functions. *)
Ins(m) == {t \in Sessions : m[t] # -1}
IdsOf(m) == {m[t] : t \in Ins(m)}
Right(m, known, miss) ==
  /\ \A t, u \in Ins(m) : m[t] = m[u] => t = u
  /\ \A t \in Ins(m) \ miss : known[t] = IdsOf(m) \ {m[t]}

LEMMA JoinRight ==
  ASSUME NEW m \in [Sessions -> Int], NEW known, NEW miss, Right(m, known, miss),
         NEW s \in Sessions, s \notin Ins(m), NEW i \in Ids, i \notin IdsOf(m),
         NEW new, NEW known2, NEW miss2,
         \A t \in Ins(m) : known2[t] = known[t] \cup {i},
         known2[s] = new,
         miss2 = IF new = IdsOf(m) THEN miss ELSE miss \cup {s}
  PROVE  Right([m EXCEPT ![s] = i], known2, miss2)
<1>1. PICK n : n = [m EXCEPT ![s] = i]
  OBVIOUS
<1>2. i # -1
  BY RoomAssumption DEF Ids
<1>3. n[s] = i /\ \A t \in Sessions \ {s} : n[t] = m[t]
  BY <1>1
<1>4. Ins(n) = Ins(m) \cup {s}
  BY <1>2, <1>3 DEF Ins
<1>5. IdsOf(n) = IdsOf(m) \cup {i}
  <2>1. Ins(m) \subseteq Sessions \ {s}
    BY DEF Ins
  <2> QED BY <1>3, <1>4, <2>1 DEF IdsOf
<1>6. \A t \in Ins(m) : n[t] = m[t] /\ m[t] # i /\ t \in Sessions
  <2>1. \A t \in Ins(m) : t \in Sessions \ {s} /\ m[t] \in IdsOf(m)
    BY DEF IdsOf, Ins
  <2> QED BY <1>3, <2>1
<1>7. \A t, u \in Ins(n) : n[t] = n[u] => t = u
  BY <1>3, <1>4, <1>6 DEF Right
<1>8. ASSUME NEW t \in Ins(n) \ miss2 PROVE known2[t] = IdsOf(n) \ {n[t]}
  <2>1. CASE t = s
    <3>1. new = IdsOf(m)
      BY <1>8, <2>1
    <3>2. IdsOf(n) \ {i} = IdsOf(m)
      BY <1>5
    <3> QED BY <1>3, <2>1, <3>1, <3>2
  <2>2. CASE t # s
    <3>1. t \in Ins(m) \ miss
      BY <1>4, <1>8, <2>2
    <3>2. known[t] = IdsOf(m) \ {m[t]} /\ known2[t] = known[t] \cup {i}
      BY <3>1 DEF Right
    <3>3. n[t] = m[t] /\ m[t] # i
      BY <1>6, <3>1
    <3> QED BY <1>5, <3>2, <3>3
  <2> QED BY <2>1, <2>2
<1> QED BY <1>1, <1>7, <1>8 DEF Right

LEMMA PartRight ==
  ASSUME NEW m \in [Sessions -> Int], NEW known, NEW miss, Right(m, known, miss),
         NEW s \in Ins(m), NEW known2, NEW miss2,
         \/ Ins(m) \ {s} \subseteq miss2
         \/ /\ \A t \in Ins(m) \ {s} : known2[t] = known[t] \ {m[s]}
            /\ miss2 = miss \ {s}
  PROVE  Right([m EXCEPT ![s] = -1], known2, miss2)
<1>1. PICK n : n = [m EXCEPT ![s] = -1]
  OBVIOUS
<1>2. s \in Sessions
  BY DEF Ins
<1>3. n[s] = -1 /\ \A t \in Sessions \ {s} : n[t] = m[t]
  BY <1>1, <1>2
<1>4. Ins(n) = Ins(m) \ {s}
  BY <1>2, <1>3 DEF Ins
<1>5. \A t \in Ins(n) : n[t] = m[t]
  BY <1>3, <1>4 DEF Ins
<1>6. \A t, u \in Ins(n) : n[t] = n[u] => t = u
  BY <1>4, <1>5 DEF Right
<1>7. IdsOf(n) = IdsOf(m) \ {m[s]}
  <2>1. \A t \in Ins(n) : m[t] # m[s] /\ t \in Ins(m)
    BY <1>4 DEF Right
  <2>2. \A t \in Ins(m) : t \in Ins(n) \/ m[t] = m[s]
    BY <1>4
  <2>3. ASSUME NEW x \in IdsOf(n) PROVE x \in IdsOf(m) \ {m[s]}
    BY <1>5, <2>1, <2>3 DEF IdsOf
  <2>4. ASSUME NEW x \in IdsOf(m) \ {m[s]} PROVE x \in IdsOf(n)
    BY <1>5, <2>2, <2>4 DEF IdsOf
  <2> QED BY <2>3, <2>4
<1>8. ASSUME NEW t \in Ins(n) \ miss2 PROVE known2[t] = IdsOf(n) \ {n[t]}
  <2>1. t \in Ins(m) /\ t # s /\ t \notin miss2
    BY <1>4, <1>8
  <2>2. known2[t] = known[t] \ {m[s]} /\ t \notin miss
    BY <2>1
  <2>3. known[t] = IdsOf(m) \ {m[t]}
    BY <2>1, <2>2 DEF Right
  <2>4. n[t] = m[t]
    BY <1>5, <1>8
  <2> QED BY <1>7, <2>2, <2>3, <2>4
<1> QED BY <1>1, <1>6, <1>8 DEF Right

LEMMA RightOf == View!ViewRight <=> Right(MemberIds, KnownIds, gap)
  BY DEF View!ViewRight, View!Taken, View!Members, Right, IdsOf, Ins, MemberIds,
         KnownIds

LEMMA RightNext ==
  ASSUME RoomInv, View!ViewRight, [Next]_vars
  PROVE  View!ViewRight'
<1>1. PICK m : m = MemberIds
  OBVIOUS
<1>2. PICK known : known = KnownIds
  OBVIOUS
<1>3. m \in [Sessions -> Int]
  <2>1. \A s \in Sessions : client[s].seqID \in Int
    BY DEF RoomInv, TypeOK, Clients, Ids
  <2> QED BY <1>1, <2>1 DEF MemberIds
<1>4. Right(m, known, gap)
  BY <1>1, <1>2, RightOf
<1>5. View!Members = Ins(m) /\ View!Taken = IdsOf(m)
  BY <1>1 DEF View!Taken, View!Members, IdsOf, Ins, MemberIds
<1>6. SUFFICES Right(MemberIds', KnownIds', gap')
  BY DEF View!ViewRight, View!Taken, View!Members, Right, IdsOf, Ins, MemberIds,
         KnownIds
<1>7. ASSUME NEW s \in Sessions, NEW i \in Ids, View!Join(s, i)
      PROVE  Right(MemberIds', KnownIds', gap')
  <2>1. s \notin Ins(m) /\ i \notin IdsOf(m)
    BY <1>5, <1>7 DEF View!Join
  <2>2. MemberIds' = [MemberIds EXCEPT ![s] = i]
    BY <1>7 DEF View!Join, MemberIds
  <2>3. PICK new \in SUBSET View!Taken :
          /\ KnownIds' = [t \in Sessions |-> CASE t = s -> new
                                              [] t \in View!Members -> KnownIds[t] \cup {i}
                                              [] OTHER -> KnownIds[t]]
          /\ gap' = IF new = View!Taken THEN gap ELSE gap \cup {s}
    BY <1>7 DEF View!Join, KnownIds
  <2>4. PICK known2 : known2 = KnownIds'
    OBVIOUS
  <2>5. PICK miss2 : miss2 = gap'
    OBVIOUS
  <2>6. \A t \in Ins(m) : t \in Sessions /\ t # s
    BY <2>1 DEF Ins
  <2>7. \A t \in Ins(m) : known2[t] = known[t] \cup {i}
    BY <1>2, <1>5, <2>3, <2>4, <2>6
  <2>8. known2[s] = new
    BY <1>5, <2>1, <2>3, <2>4
  <2>9. miss2 = IF new = IdsOf(m) THEN gap ELSE gap \cup {s}
    BY <1>5, <2>3, <2>5
  <2>10. Right([m EXCEPT ![s] = i], known2, miss2)
    BY <1>3, <1>4, <2>1, <2>7, <2>8, <2>9, JoinRight
  <2> QED BY <1>1, <2>2, <2>4, <2>5, <2>10
<1>8. ASSUME NEW s \in Sessions, View!Part(s) \/ View!PartUntold(s)
      PROVE  Right(MemberIds', KnownIds', gap')
  <2>1. s \in Ins(m)
    BY <1>5, <1>8 DEF View!Part, View!PartUntold
  <2>2. MemberIds' = [MemberIds EXCEPT ![s] = -1]
    BY <1>8 DEF View!Part, View!PartUntold, MemberIds
  <2>3. \/ gap' = (gap \cup View!Members) \ {s}
        \/ /\ KnownIds' = [t \in Sessions |-> IF t = s THEN {}
                                              ELSE KnownIds[t] \ {MemberIds[s]}]
           /\ gap' = gap \ {s}
    BY <1>8 DEF View!Part, View!PartUntold, KnownIds, MemberIds
  <2>4. PICK known2 : known2 = KnownIds'
    OBVIOUS
  <2>5. PICK miss2 : miss2 = gap'
    OBVIOUS
  <2>6. \/ Ins(m) \ {s} \subseteq miss2
        \/ /\ \A t \in Ins(m) \ {s} : known2[t] = known[t] \ {m[s]}
           /\ miss2 = gap \ {s}
    <3>1. Ins(m) \subseteq Sessions
      BY DEF Ins
    <3> QED BY <1>1, <1>2, <1>5, <2>3, <2>4, <2>5, <3>1
  <2>7. Right([m EXCEPT ![s] = -1], known2, miss2)
    BY <1>3, <1>4, <2>1, <2>6, PartRight
  <2> QED BY <1>1, <2>2, <2>4, <2>5, <2>7
<1>9. ASSUME UNCHANGED View!viewVars PROVE Right(MemberIds', KnownIds', gap')
  <2>1. MemberIds' = MemberIds /\ KnownIds' = KnownIds /\ gap' = gap
    BY <1>9 DEF View!viewVars, MemberIds, KnownIds
  <2> QED BY <1>1, <1>2, <1>4, <2>1
<1>10. View!ViewNext \/ UNCHANGED View!viewVars
  BY NextView
<1> QED BY <1>7, <1>8, <1>9, <1>10 DEF View!ViewNext

(* A client that missed no packet knows exactly the other members of its room,
   and no two members go by the same id. *)
THEOREM ClientsKnowMembers == Spec => []View!ViewRight
<1>1. Init => RoomInv
  BY InitRoom
<1>2. RoomInv /\ [Next]_vars => RoomInv'
  BY NextRoom
<1>3. Init => View!ViewRight
  <2>1. Init => View!Members = {}
    BY DEF Init, View!Members
  <2> QED BY <2>1 DEF View!ViewRight
<1>4. RoomInv /\ View!ViewRight /\ [Next]_vars => View!ViewRight'
  BY RightNext
<1> QED BY <1>1, <1>2, <1>3, <1>4, PTL DEF Spec
=============================================================================
