--------------------------- MODULE RoomJobsProofs ---------------------------
(***************************************************************************)
(* What RoomJobs promises, proved for any finite set of workers and any    *)
(* number of rooms and jobs: each room dispatches its jobs in order, a     *)
(* room drains what reached it before its stop, at most one job per worker *)
(* is late, and RoomManager is deleted when nobody is inside it.           *)
(***************************************************************************)
EXTENDS RoomJobs, SeqLemmas, FiniteSetTheorems

(* A room between two rounds holds no jobs, and a room thread that ends has
   seen the stop of its queue, which comes after m_Stop. *)
RoundInv ==
  /\ main # "up" => stopping
  /\ \A r \in Rooms :
       /\ roomPc[r] # "run" => batch[r] = <<>>
       /\ roomPc[r] = "gone" => lastRound[r]
       /\ lastRound[r] => queueStop[r]
       /\ queueStop[r] => stopping

(* Once a round saw the stop, only late jobs join the queue. *)
DrainInv ==
  \A r \in Rooms : lastRound[r] /\ roomPc[r] # "wait" =>
    \A i \in 1 .. Len(jobQueue[r]) : jobQueue[r][i] \in late

(* How far main got with joining. *)
JoinInv ==
  /\ main = "join" => \A r \in Rooms : r < next => roomPc[r] = "gone"
  /\ main \in {"joinWorkers", "released"} =>
       \A r \in Rooms : roomPc[r] = "gone"
  /\ main = "released" => \A w \in Workers : workerPc[w] = "gone"
  /\ \A w \in Workers : workerPc[w] = "gone" => hand[w] = EmptyHand

Busy == {w \in Workers : hand[w] # EmptyHand}

(* Each worker that still carries a job may yet make it late, and no worker
   gets a second one once m_Stop is up. *)
LateInv ==
  /\ IsFiniteSet(late)
  /\ ~stopping => late = {}
  /\ stopping => Cardinality(late) + Cardinality(Busy) <= Cardinality(Workers)

-----------------------------------------------------------------------------
USE DEF roomVars, mainVars, workVars

LEMMA HandFacts ==
  ASSUME TypeOK, NEW w \in Workers
  PROVE  /\ hand[w].job # NoJob <=> hand[w] # EmptyHand
         /\ hand[w].job # NoJob => hand[w].job \in Jobs /\ hand[w].room \in Rooms
<1>1. hand[w] \in [job : Jobs, room : Rooms] \cup {EmptyHand}
  BY DEF TypeOK, Hands
<1>2. CASE hand[w] = EmptyHand
  BY <1>2 DEF EmptyHand, NoJob
<1>3. CASE hand[w] \in [job : Jobs, room : Rooms]
  BY <1>3, RoomsAssumption DEF EmptyHand, NoJob, Jobs, Rooms
<1> QED BY <1>1, <1>2, <1>3

(* Every variable keeps its type. *)
THEOREM TypeCorrect == Spec => []TypeOK
<1> <<>> \in Seq(Jobs)
  BY EmptySeq
<1>1. Init => TypeOK
  <2> SUFFICES ASSUME Init PROVE TypeOK
    OBVIOUS
  <2>1. 0 \in 0 .. RoomCount /\ 0 \in 0 .. MaxJobs
    BY RoomsAssumption
  <2>2. hand \in [Workers -> Hands]
    BY DEF Init, Hands
  <2>3. /\ jobQueue \in [Rooms -> Seq(Jobs)] /\ batch \in [Rooms -> Seq(Jobs)]
        /\ pushed \in [Rooms -> Seq(Jobs)] /\ done \in [Rooms -> Seq(Jobs)]
    BY DEF Init
  <2> QED BY <2>1, <2>2, <2>3 DEF Init, TypeOK
<1>2. TypeOK /\ [Next]_vars => TypeOK'
  <2> SUFFICES ASSUME TypeOK, [Next]_vars PROVE TypeOK'
    OBVIOUS
  <2>1. ASSUME NEW w \in Workers, NEW i \in Rooms \cup {-1}, Check(w, i)
        PROVE  TypeOK'
    <3>1. made + 1 \in Jobs /\ made' \in 0 .. MaxJobs
      BY <2>1, RoomsAssumption DEF Check, TypeOK, Jobs
    <3>2. refused' \subseteq Jobs
      BY <2>1, <3>1 DEF Check, TypeOK
    <3>3. hand' \in [Workers -> Hands]
      <4>1. CASE stopping \/ i \notin Rooms
        BY <2>1, <4>1 DEF Check, TypeOK
      <4>2. CASE ~(stopping \/ i \notin Rooms)
        <5>1. [job |-> made + 1, room |-> i] \in Hands
          BY <3>1, <4>2 DEF Hands
        <5> QED BY <2>1, <4>2, <5>1 DEF Check, TypeOK
      <4> QED BY <4>1, <4>2
    <3> QED BY <2>1, <3>1, <3>2, <3>3 DEF Check, TypeOK
  <2>2. ASSUME NEW w \in Workers, Push(w) PROVE TypeOK'
    <3>1. hand[w].job \in Jobs /\ hand[w].room \in Rooms
      BY <2>2, HandFacts DEF Push
    <3>2. /\ Append(jobQueue[hand[w].room], hand[w].job) \in Seq(Jobs)
          /\ Append(pushed[hand[w].room], hand[w].job) \in Seq(Jobs)
      BY <3>1, AppendNotEmpty DEF TypeOK
    <3>3. EmptyHand \in Hands
      BY DEF Hands
    <3> QED BY <2>2, <3>1, <3>2, <3>3 DEF Push, TypeOK
  <2>3. ASSUME NEW w \in Workers, WorkerExit(w) PROVE TypeOK'
    BY <2>3 DEF WorkerExit, TypeOK
  <2>4. ASSUME NEW r \in Rooms, PopAll(r) PROVE TypeOK'
    BY <2>4 DEF PopAll, TypeOK
  <2>5. ASSUME NEW r \in Rooms, Dispatch(r) PROVE TypeOK'
    <3>1. batch[r] \in Seq(Jobs) /\ done[r] \in Seq(Jobs)
      BY DEF TypeOK
    <3>2. /\ Append(done[r], Head(batch[r])) \in Seq(Jobs)
          /\ Tail(batch[r]) \in Seq(Jobs)
      BY <2>5, <3>1, MoveHead DEF Dispatch
    <3> QED BY <2>5, <3>2 DEF Dispatch, TypeOK
  <2>6. ASSUME NEW r \in Rooms, EndRound(r) PROVE TypeOK'
    BY <2>6 DEF EndRound, TypeOK
  <2>7. CASE MainShutdown
    <3> USE RoomsAssumption DEF TypeOK, Rooms
    <3>1. CASE JoinBegins BY <3>1 DEF JoinBegins
    <3>2. CASE StopRoom BY <3>2 DEF StopRoom
    <3>3. CASE StopsDone BY <3>3 DEF StopsDone
    <3>4. CASE JoinRoom BY <3>4 DEF JoinRoom
    <3>5. CASE StopWorkers BY <3>5 DEF StopWorkers
    <3>6. CASE Release BY <3>6 DEF Release
    <3> QED BY <2>7, <3>1, <3>2, <3>3, <3>4, <3>5, <3>6 DEF MainShutdown
  <2>8. CASE UNCHANGED vars
    BY <2>8 DEF vars, TypeOK
  <2> QED BY <2>1, <2>2, <2>3, <2>4, <2>5, <2>6, <2>7, <2>8
             DEF Next, RoomStep
<1> QED BY <1>1, <1>2, PTL DEF Spec

-----------------------------------------------------------------------------
(* Order. *)

(* The jobs of a room are dispatched in the order in which they were pushed,
   none skipped and none twice. *)
THEOREM RoomFifoAlways == Spec => []RoomFifo
<1> DEFINE Line(r) == done[r] \o batch[r] \o jobQueue[r]
           Idle == \A r \in Rooms : roomPc[r] # "run" => batch[r] = <<>>
<1>0. <<>> \in Seq(Jobs)
  BY EmptySeq
<1>1. Init => RoomFifo /\ Idle
  BY <1>0, ConcatEmptySeq DEF Init, RoomFifo
<1>2. TypeOK /\ RoomFifo /\ Idle /\ [Next]_vars => RoomFifo' /\ Idle'
  <2> SUFFICES ASSUME TypeOK, RoomFifo, Idle, [Next]_vars
               PROVE  RoomFifo' /\ Idle'
    OBVIOUS
  <2>0. \A r \in Rooms : /\ done[r] \in Seq(Jobs) /\ batch[r] \in Seq(Jobs)
                         /\ jobQueue[r] \in Seq(Jobs)
                         /\ done[r] \o batch[r] \in Seq(Jobs)
    BY ConcatProperties DEF TypeOK
  <2>1. ASSUME NEW w \in Workers, NEW i \in Rooms \cup {-1}, Check(w, i)
        PROVE  RoomFifo' /\ Idle'
    BY <2>1 DEF Check, RoomFifo
  <2>2. ASSUME NEW w \in Workers, Push(w) PROVE RoomFifo' /\ Idle'
    <3> DEFINE j == hand[w].job
               p == hand[w].room
    <3>1. j \in Jobs /\ p \in Rooms
      BY <2>2, HandFacts DEF Push
    <3>2. /\ jobQueue' = [jobQueue EXCEPT ![p] = Append(@, j)]
          /\ pushed' = [pushed EXCEPT ![p] = Append(@, j)]
          /\ UNCHANGED <<done, batch, roomPc>>
      BY <2>2 DEF Push
    <3> HIDE DEF j, p
    <3>3. (done[p] \o batch[p]) \o Append(jobQueue[p], j)
            = Append((done[p] \o batch[p]) \o jobQueue[p], j)
      <4>1. \A s, t \in Seq(Jobs), x \in Jobs :
              s \o Append(t, x) = Append(s \o t, x)
        BY AppendBehind
      <4> QED BY <2>0, <3>1, <4>1, Zenon
    <3>4. ASSUME NEW r \in Rooms
          PROVE  pushed'[r] = done'[r] \o batch'[r] \o jobQueue'[r]
      <4>1. CASE r = p
        <5>1. pushed'[r] = Append(pushed[p], j)
          BY <3>1, <3>2, <4>1 DEF TypeOK
        <5>2. jobQueue'[r] = Append(jobQueue[p], j)
          BY <3>1, <3>2, <4>1 DEF TypeOK
        <5>3. pushed[p] = (done[p] \o batch[p]) \o jobQueue[p]
          BY <3>1 DEF RoomFifo
        <5> QED BY <5>1, <5>2, <5>3, <3>2, <3>3, <4>1
      <4>2. CASE r # p
        BY <3>2, <4>2 DEF TypeOK, RoomFifo
      <4> QED BY <4>1, <4>2
    <3> QED BY <3>2, <3>4 DEF RoomFifo
  <2>3. ASSUME NEW w \in Workers, WorkerExit(w) PROVE RoomFifo' /\ Idle'
    BY <2>3 DEF WorkerExit, RoomFifo
  <2>4. ASSUME NEW p \in Rooms, PopAll(p) PROVE RoomFifo' /\ Idle'
    <3>1. batch[p] = <<>>
      BY <2>4 DEF PopAll
    <3>2. (done[p] \o jobQueue[p]) \o <<>> = (done[p] \o batch[p]) \o jobQueue[p]
      BY <2>0, <3>1, ConcatEmptySeq, ConcatProperties
    <3>3. ASSUME NEW r \in Rooms
          PROVE  pushed'[r] = done'[r] \o batch'[r] \o jobQueue'[r]
      <4>1. CASE r = p
        <5>1. batch'[r] = jobQueue[p] /\ jobQueue'[r] = <<>>
              /\ done'[r] = done[p] /\ pushed'[r] = pushed[p]
          BY <2>4, <4>1 DEF PopAll, TypeOK
        <5> QED BY <5>1, <3>2 DEF RoomFifo
      <4>2. CASE r # p
        BY <2>4, <4>2 DEF PopAll, TypeOK, RoomFifo
      <4> QED BY <4>1, <4>2
    <3> QED BY <2>4, <3>3 DEF PopAll, TypeOK, RoomFifo
  <2>5. ASSUME NEW p \in Rooms, Dispatch(p) PROVE RoomFifo' /\ Idle'
    <3>1. Append(done[p], Head(batch[p])) \o Tail(batch[p]) = done[p] \o batch[p]
      <4>1. done[p] \in Seq(Jobs) /\ batch[p] \in Seq(Jobs) /\ batch[p] # <<>>
        BY <2>0, <2>5 DEF Dispatch
      <4> QED BY <4>1, MoveHead
    <3>2. ASSUME NEW r \in Rooms
          PROVE  pushed'[r] = done'[r] \o batch'[r] \o jobQueue'[r]
      <4>1. CASE r = p
        <5>1. /\ done'[r] = Append(done[p], Head(batch[p]))
              /\ batch'[r] = Tail(batch[p])
              /\ jobQueue'[r] = jobQueue[p] /\ pushed'[r] = pushed[p]
          BY <2>5, <4>1 DEF Dispatch, TypeOK
        <5>2. pushed[p] = (done[p] \o batch[p]) \o jobQueue[p]
          BY DEF RoomFifo
        <5> QED BY <5>1, <5>2, <3>1
      <4>2. CASE r # p
        BY <2>5, <4>2 DEF Dispatch, TypeOK, RoomFifo
      <4> QED BY <4>1, <4>2
    <3> QED BY <2>5, <3>2 DEF Dispatch, TypeOK, RoomFifo
  <2>6. ASSUME NEW r \in Rooms, EndRound(r) PROVE RoomFifo' /\ Idle'
    BY <2>6 DEF EndRound, TypeOK, RoomFifo
  <2>7. CASE MainShutdown
    BY <2>7 DEF MainShutdown, JoinBegins, StopRoom, StopsDone, JoinRoom,
                StopWorkers, Release, RoomFifo
  <2>8. CASE UNCHANGED vars
    BY <2>8 DEF vars, RoomFifo
  <2> QED BY <2>1, <2>2, <2>3, <2>4, <2>5, <2>6, <2>7, <2>8
             DEF Next, RoomStep
<1> QED BY <1>1, <1>2, TypeCorrect, PTL DEF Spec

-----------------------------------------------------------------------------
(* The stop. *)

LEMMA RoundStep == TypeOK /\ RoundInv /\ [Next]_vars => RoundInv'
<1> SUFFICES ASSUME TypeOK, RoundInv, [Next]_vars PROVE RoundInv'
  OBVIOUS
<1> USE DEF TypeOK, RoundInv
<1>1. ASSUME NEW w \in Workers, NEW i \in Rooms \cup {-1}, Check(w, i)
      PROVE  RoundInv'
  BY <1>1 DEF Check
<1>2. ASSUME NEW w \in Workers, Push(w) PROVE RoundInv'
  BY <1>2 DEF Push
<1>3. ASSUME NEW w \in Workers, WorkerExit(w) PROVE RoundInv'
  BY <1>3 DEF WorkerExit
<1>4. ASSUME NEW r \in Rooms, PopAll(r) PROVE RoundInv'
  BY <1>4 DEF PopAll
<1>5. ASSUME NEW r \in Rooms, Dispatch(r) PROVE RoundInv'
  BY <1>5 DEF Dispatch
<1>6. ASSUME NEW r \in Rooms, EndRound(r) PROVE RoundInv'
  BY <1>6 DEF EndRound
<1>7. CASE MainShutdown
  <2>1. CASE JoinBegins BY <2>1 DEF JoinBegins
  <2>2. CASE StopRoom
    <3>1. stopping
      BY <2>2 DEF StopRoom
    <3> QED BY <2>2, <3>1 DEF StopRoom
  <2>3. CASE StopsDone \/ JoinRoom \/ StopWorkers \/ Release
    BY <2>3 DEF StopsDone, JoinRoom, StopWorkers, Release
  <2> QED BY <1>7, <2>1, <2>2, <2>3 DEF MainShutdown
<1>8. CASE UNCHANGED vars
  BY <1>8 DEF vars
<1> QED BY <1>1, <1>2, <1>3, <1>4, <1>5, <1>6, <1>7, <1>8 DEF Next, RoomStep

LEMMA DrainStep == TypeOK /\ RoundInv /\ DrainInv /\ [Next]_vars => DrainInv'
<1> SUFFICES ASSUME TypeOK, RoundInv, DrainInv, [Next]_vars PROVE DrainInv'
  OBVIOUS
<1> USE DEF DrainInv
<1>1. ASSUME NEW w \in Workers, NEW i \in Rooms \cup {-1}, Check(w, i)
      PROVE  DrainInv'
  BY <1>1 DEF Check
<1>2. ASSUME NEW w \in Workers, Push(w) PROVE DrainInv'
  <2> DEFINE j == hand[w].job
             p == hand[w].room
  <2>1. j \in Jobs /\ p \in Rooms
    BY <1>2, HandFacts DEF Push
  <2>2. /\ jobQueue' = [jobQueue EXCEPT ![p] = Append(@, j)]
        /\ late' = late \cup {i \in {j} : queueStop[p]}
        /\ UNCHANGED <<lastRound, roomPc>>
    BY <1>2 DEF Push
  <2> HIDE DEF j, p
  <2>3. SUFFICES ASSUME NEW r \in Rooms, lastRound[r], roomPc[r] # "wait",
                        NEW i \in 1 .. Len(jobQueue'[r])
                 PROVE  jobQueue'[r][i] \in late'
    BY <2>2
  <2>4. CASE r # p
    BY <2>2, <2>3, <2>4 DEF TypeOK
  <2>5. CASE r = p
    <3>1. j \in late'
      BY <2>2, <2>3, <2>5 DEF RoundInv
    <3>2. jobQueue'[r] = Append(jobQueue[p], j) /\ jobQueue[p] \in Seq(Jobs)
      BY <2>1, <2>2, <2>5 DEF TypeOK
    <3>3. /\ Len(jobQueue'[r]) = Len(jobQueue[p]) + 1
          /\ \A k \in 1 .. Len(jobQueue[p]) :
                jobQueue'[r][k] = jobQueue[p][k]
          /\ jobQueue'[r][Len(jobQueue[p]) + 1] = j
      BY <2>1, <3>2, AppendProperties
    <3>4. Len(jobQueue[p]) \in Nat
      BY <3>2, LenProperties
    <3>5. CASE i = Len(jobQueue[p]) + 1
      BY <3>1, <3>3, <3>5
    <3>6. CASE i \in 1 .. Len(jobQueue[p])
      BY <2>2, <2>3, <2>5, <3>3, <3>6
    <3> QED BY <2>3, <3>3, <3>4, <3>5, <3>6
  <2> QED BY <2>4, <2>5
<1>3. ASSUME NEW w \in Workers, WorkerExit(w) PROVE DrainInv'
  BY <1>3 DEF WorkerExit
<1>4. ASSUME NEW p \in Rooms, PopAll(p) PROVE DrainInv'
  <2>1. jobQueue'[p] = <<>> /\ \A r \in Rooms \ {p} :
          /\ jobQueue'[r] = jobQueue[r] /\ lastRound'[r] = lastRound[r]
          /\ roomPc'[r] = roomPc[r] /\ late' = late
    BY <1>4 DEF PopAll, TypeOK
  <2>2. 1 .. Len(jobQueue'[p]) = {}
    BY <2>1
  <2> QED BY <2>1, <2>2
<1>5. ASSUME NEW r \in Rooms, Dispatch(r) PROVE DrainInv'
  BY <1>5 DEF Dispatch
<1>6. ASSUME NEW r \in Rooms, EndRound(r) PROVE DrainInv'
  BY <1>6 DEF EndRound, TypeOK
<1>7. CASE MainShutdown
  BY <1>7 DEF MainShutdown, JoinBegins, StopRoom, StopsDone, JoinRoom,
              StopWorkers, Release
<1>8. CASE UNCHANGED vars
  BY <1>8 DEF vars
<1> QED BY <1>1, <1>2, <1>3, <1>4, <1>5, <1>6, <1>7, <1>8 DEF Next, RoomStep

LEMMA StopInit == Init => RoundInv /\ DrainInv
BY DEF Init, RoundInv, DrainInv

LEMMA StopAlways == Spec => []RoundInv /\ []DrainInv
BY StopInit, RoundStep, DrainStep, TypeCorrect, PTL DEF Spec

(* A room's thread does not end before it dispatched everything pushed
   before its queue was stopped. *)
THEOREM DrainedBeforeExitAlways == Spec => []DrainedBeforeExit
<1>1. RoundInv /\ DrainInv => DrainedBeforeExit
  BY DEF RoundInv, DrainInv, DrainedBeforeExit, Elements
<1> QED BY <1>1, StopAlways, PTL

LEMMA JoinStep == TypeOK /\ JoinInv /\ [Next]_vars => JoinInv'
<1> SUFFICES ASSUME TypeOK, JoinInv, [Next]_vars PROVE JoinInv'
  OBVIOUS
<1> USE DEF JoinInv
<1>1. ASSUME NEW w \in Workers, NEW i \in Rooms \cup {-1}, Check(w, i)
      PROVE  JoinInv'
  BY <1>1 DEF Check, TypeOK
<1>2. ASSUME NEW w \in Workers, Push(w) PROVE JoinInv'
  BY <1>2 DEF Push, TypeOK
<1>3. ASSUME NEW w \in Workers, WorkerExit(w) PROVE JoinInv'
  BY <1>3 DEF WorkerExit, TypeOK
<1>4. ASSUME NEW r \in Rooms, PopAll(r) PROVE JoinInv'
  BY <1>4 DEF PopAll, TypeOK
<1>5. ASSUME NEW r \in Rooms, Dispatch(r) PROVE JoinInv'
  BY <1>5 DEF Dispatch
<1>6. ASSUME NEW r \in Rooms, EndRound(r) PROVE JoinInv'
  BY <1>6 DEF EndRound, TypeOK
<1>7. CASE MainShutdown
  <2> USE RoomsAssumption DEF TypeOK, Rooms
  <2>1. CASE JoinBegins BY <2>1 DEF JoinBegins
  <2>2. CASE StopRoom BY <2>2 DEF StopRoom
  <2>3. CASE StopsDone BY <2>3 DEF StopsDone
  <2>4. CASE JoinRoom BY <2>4 DEF JoinRoom
  <2>5. CASE StopWorkers BY <2>5 DEF StopWorkers
  <2>6. CASE Release BY <2>6 DEF Release
  <2> QED BY <1>7, <2>1, <2>2, <2>3, <2>4, <2>5, <2>6 DEF MainShutdown
<1>8. CASE UNCHANGED vars
  BY <1>8 DEF vars
<1> QED BY <1>1, <1>2, <1>3, <1>4, <1>5, <1>6, <1>7, <1>8 DEF Next, RoomStep

(* RoomManager is deleted only when every room thread and worker is gone. *)
THEOREM ReleasedAloneAlways == Spec => []ReleasedAlone
<1>1. Init => JoinInv
  BY DEF Init, JoinInv
<1>2. JoinInv => ReleasedAlone
  BY DEF JoinInv, ReleasedAlone
<1> QED BY <1>1, <1>2, JoinStep, TypeCorrect, PTL DEF Spec

-----------------------------------------------------------------------------
(* How many jobs can be late. *)

LEMMA BusyFacts ==
  /\ IsFiniteSet(Busy) /\ Cardinality(Busy) \in Nat
  /\ Cardinality(Busy) <= Cardinality(Workers)
  /\ Cardinality(Workers) \in Nat
<1>1. Busy \in SUBSET Workers
  BY DEF Busy
<1> QED BY <1>1, WorkersAssumption, FS_Subset, FS_CardinalityType

LEMMA LateStep == TypeOK /\ RoundInv /\ LateInv /\ [Next]_vars => LateInv'
<1> SUFFICES ASSUME TypeOK, RoundInv, LateInv, [Next]_vars PROVE LateInv'
  OBVIOUS
<1>0. ASSUME UNCHANGED <<stopping, hand, late>> PROVE LateInv'
  BY <1>0 DEF LateInv, Busy
<1>1. ASSUME NEW w \in Workers, NEW i \in Rooms \cup {-1}, Check(w, i)
      PROVE  LateInv'
  <2>1. UNCHANGED <<stopping, late>>
    BY <1>1 DEF Check
  <2>2. CASE stopping
    <3>1. hand' = hand
      BY <1>1, <2>2 DEF Check, TypeOK
    <3> QED BY <1>0, <2>1, <3>1
  <2>3. CASE ~stopping
    BY <2>1, <2>3 DEF LateInv
  <2> QED BY <2>2, <2>3
<1>2. ASSUME NEW w \in Workers, Push(w) PROVE LateInv'
  <2> DEFINE j == hand[w].job
             p == hand[w].room
  <2>1. j \in Jobs /\ p \in Rooms /\ hand[w] # EmptyHand
    BY <1>2, HandFacts DEF Push
  <2>2. /\ late' = late \cup {k \in {j} : queueStop[p]}
        /\ hand' = [hand EXCEPT ![w] = EmptyHand] /\ stopping' = stopping
    BY <1>2 DEF Push
  <2> HIDE DEF j, p
  <2>3. Busy' = Busy \ {w} /\ w \in Busy
    BY <2>1, <2>2 DEF Busy, TypeOK
  <2>4. Cardinality(Busy') = Cardinality(Busy) - 1 /\ Cardinality(Busy) \in Nat
    BY <2>3, BusyFacts, FS_RemoveElement
  <2>5. CASE ~queueStop[p]
    <3>1. late' = late
      BY <2>2, <2>5
    <3>2. Cardinality(late) \in Nat /\ Cardinality(Workers) \in Nat
      BY FS_CardinalityType, BusyFacts DEF LateInv
    <3>3. ~stopping => late' = {}
      BY <3>1 DEF LateInv
    <3>4. stopping =>
            Cardinality(late') + Cardinality(Busy') <= Cardinality(Workers)
      BY <2>4, <3>1, <3>2 DEF LateInv
    <3> QED BY <2>2, <3>1, <3>3, <3>4 DEF LateInv
  <2>6. CASE queueStop[p]
    <3>1. late' = late \cup {j} /\ stopping
      BY <2>1, <2>2, <2>6 DEF RoundInv
    <3>2. /\ IsFiniteSet(late') /\ Cardinality(late) \in Nat
          /\ Cardinality(late') <= Cardinality(late) + 1
          /\ Cardinality(late') \in Nat
      <4>1. IsFiniteSet(late) /\ Cardinality(late) \in Nat
        BY FS_CardinalityType DEF LateInv
      <4>2. /\ IsFiniteSet(late \cup {j})
            /\ Cardinality(late \cup {j}) =
                 IF j \in late THEN Cardinality(late) ELSE Cardinality(late) + 1
        BY <4>1, FS_AddElement
      <4> QED BY <3>1, <4>1, <4>2
    <3>3. Cardinality(Workers) \in Nat
      BY BusyFacts
    <3>4. Cardinality(late') + Cardinality(Busy') <= Cardinality(Workers)
      BY <2>4, <3>1, <3>2, <3>3 DEF LateInv
    <3> QED BY <2>2, <3>1, <3>2, <3>4 DEF LateInv
  <2> QED BY <2>5, <2>6
<1>3. ASSUME NEW w \in Workers, WorkerExit(w) PROVE LateInv'
  BY <1>0, <1>3 DEF WorkerExit
<1>4. ASSUME NEW r \in Rooms, RoomStep(r) PROVE LateInv'
  BY <1>0, <1>4 DEF RoomStep, PopAll, Dispatch, EndRound
<1>5. CASE MainShutdown
  <2>1. CASE JoinBegins
    <3>1. stopping' /\ UNCHANGED <<hand, late>>
      BY <2>1 DEF JoinBegins
    <3>2. Busy' = Busy
      BY <3>1 DEF Busy
    <3>3. CASE stopping
      BY <3>1, <3>2, <3>3 DEF LateInv
    <3>4. CASE ~stopping
      <4>1. late = {} /\ Cardinality(late) = 0
        BY <3>4, FS_EmptySet DEF LateInv
      <4> QED BY <3>1, <3>2, <4>1, BusyFacts DEF LateInv
    <3> QED BY <3>3, <3>4
  <2>2. CASE StopRoom \/ StopsDone \/ JoinRoom \/ StopWorkers \/ Release
    BY <1>0, <2>2 DEF StopRoom, StopsDone, JoinRoom, StopWorkers, Release
  <2> QED BY <1>5, <2>1, <2>2 DEF MainShutdown
<1>6. CASE UNCHANGED vars
  BY <1>0, <1>6 DEF vars
<1> QED BY <1>1, <1>2, <1>3, <1>4, <1>5, <1>6 DEF Next

(* However the stop interleaves with the workers, at most one job for each
   worker slips past PushJobByRooms into a stopped queue. *)
THEOREM OneLateAlways == Spec => []OneLatePerWorker
<1>1. Init => LateInv
  BY FS_EmptySet DEF Init, LateInv
<1>2. LateInv => OneLatePerWorker
  <2> SUFFICES ASSUME LateInv PROVE Cardinality(late) <= Cardinality(Workers)
    BY DEF OneLatePerWorker
  <2>1. CASE stopping
    BY <2>1, BusyFacts, FS_CardinalityType DEF LateInv
  <2>2. CASE ~stopping
    BY <2>2, BusyFacts, FS_EmptySet DEF LateInv
  <2> QED BY <2>1, <2>2
<1> QED BY <1>1, <1>2, LateStep, StopAlways, TypeCorrect, PTL DEF Spec
=============================================================================
