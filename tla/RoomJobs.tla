------------------------------ MODULE RoomJobs ------------------------------
(***************************************************************************)
(* How work reaches the rooms and how the rooms are stopped.  IOCP workers *)
(* push jobs through RoomManager::PushJobByRooms; every room has a         *)
(* JobQueue and one thread, which takes the whole queue and dispatches it; *)
(* main stops the rooms (RoomManager::Join), then the workers              *)
(* (ServiceManager::Shutdown), then deletes RoomManager.                   *)
(*                                                                         *)
(* Jobs are numbered.  What a job does to its room is not modelled here;   *)
(* the wait in PopAll has a timeout, so the room thread may always go on.  *)
(***************************************************************************)
EXTENDS Integers, Sequences, FiniteSets

CONSTANTS
  Workers,     \* threads of the main IOCP, which handle packets
  RoomCount,   \* RoomManager::m_RoomCount
  MaxJobs      \* bound: jobs handed to PushJobByRooms

ASSUME RoomsAssumption == RoomCount \in Nat /\ MaxJobs \in Nat
ASSUME WorkersAssumption == IsFiniteSet(Workers)

Rooms == 0 .. RoomCount - 1
Jobs  == 1 .. MaxJobs
NoJob == 0

VARIABLES
  stopping,    \* RoomManager::m_Stop
  jobQueue,    \* JobQueue::m_JobQueue of each room
  queueStop,   \* JobQueue::m_Stop of each room
  batch,       \* the local queue of Room::StartJob
  lastRound,   \* what PopAll returned to the round in progress
  roomPc,      \* where each room thread stands
  hand,        \* the job and room a worker carries past the check, or none
  workerPc,    \* "loop" or, once the worker has left IOCP::Worker, "gone"
  iocpStop,    \* IOCP::m_Stop
  main, next,  \* where main stands in its shutdown, and at which room
  made,        \* jobs made so far
  pushed,      \* for each room the jobs pushed, in order
  done,        \* for each room the jobs dispatched, in order
  refused,     \* jobs dropped by the check, their session closed
  late         \* jobs pushed after the room's queue was stopped

roomVars == <<batch, lastRound, roomPc, done>>
mainVars == <<stopping, queueStop, iocpStop, main, next>>
workVars == <<hand, workerPc, made, refused>>
vars == <<roomVars, mainVars, workVars, jobQueue, pushed, late>>

EmptyHand == [job |-> NoJob, room |-> -1]

Init ==
  /\ stopping = FALSE
  /\ jobQueue = [r \in Rooms |-> <<>>]
  /\ queueStop = [r \in Rooms |-> FALSE]
  /\ batch = [r \in Rooms |-> <<>>]
  /\ lastRound = [r \in Rooms |-> FALSE]
  /\ roomPc = [r \in Rooms |-> "wait"]
  /\ hand = [w \in Workers |-> EmptyHand]
  /\ workerPc = [w \in Workers |-> "loop"]
  /\ iocpStop = FALSE
  /\ main = "up"
  /\ next = 0
  /\ made = 0
  /\ pushed = [r \in Rooms |-> <<>>]
  /\ done = [r \in Rooms |-> <<>>]
  /\ refused = {}
  /\ late = {}

-----------------------------------------------------------------------------
(* Faulty variants: the check forgets m_Stop, or the range of the index. *)
CheckRangeOnly(w, index) ==
  /\ workerPc[w] = "loop"
  /\ hand[w] = EmptyHand
  /\ made < MaxJobs
  /\ made' = made + 1
  /\ LET refuse == index \notin Rooms
     IN  /\ hand' = [hand EXCEPT ![w] =
                       IF refuse THEN @ ELSE [job |-> made + 1, room |-> index]]
         /\ refused' = refused \cup {j \in {made + 1} : refuse}
  /\ UNCHANGED <<roomVars, mainVars, workerPc, jobQueue, pushed, late>>

CheckStopOnly(w, index) ==
  /\ workerPc[w] = "loop"
  /\ hand[w] = EmptyHand
  /\ made < MaxJobs
  /\ made' = made + 1
  /\ hand' = [hand EXCEPT ![w] =
                IF stopping THEN @ ELSE [job |-> made + 1, room |-> index]]
  /\ refused' = refused \cup {j \in {made + 1} : stopping}
  /\ UNCHANGED <<roomVars, mainVars, workerPc, jobQueue, pushed, late>>

(* A worker makes a job and enters PushJobByRooms with the session's room
   number: out of range or stopping closes the session and drops the job. *)
Check(w, index) ==
  /\ workerPc[w] = "loop"
  /\ hand[w] = EmptyHand
  /\ made < MaxJobs
  /\ made' = made + 1
  /\ LET refuse == stopping \/ index \notin Rooms
     IN  /\ hand' = [hand EXCEPT ![w] =
                       IF refuse THEN @ ELSE [job |-> made + 1, room |-> index]]
         /\ refused' = refused \cup {j \in {made + 1} : refuse}
  /\ UNCHANGED <<roomVars, mainVars, workerPc, jobQueue, pushed, late>>

(* JobQueue::Push: under the lock of the queue, at any later moment. *)
Push(w) ==
  LET j == hand[w].job
      r == hand[w].room
  IN  /\ j # NoJob
      /\ jobQueue' = [jobQueue EXCEPT ![r] = Append(@, j)]
      /\ pushed' = [pushed EXCEPT ![r] = Append(@, j)]
      /\ late' = late \cup {i \in {j} : queueStop[r]}
      /\ hand' = [hand EXCEPT ![w] = EmptyHand]
      /\ UNCHANGED <<roomVars, mainVars, workerPc, made, refused>>

(* IOCP::Worker leaves its loop once it sees m_Stop between two completions. *)
WorkerExit(w) ==
  /\ workerPc[w] = "loop"
  /\ hand[w] = EmptyHand
  /\ iocpStop
  /\ workerPc' = [workerPc EXCEPT ![w] = "gone"]
  /\ UNCHANGED <<roomVars, mainVars, hand, made, refused, jobQueue, pushed,
                 late>>

(* Faulty variants: the queue is copied and not swapped; a stopped queue is
   not drained. *)
PopAllCopies(r) ==
  /\ roomPc[r] = "wait"
  /\ batch' = [batch EXCEPT ![r] = jobQueue[r]]
  /\ lastRound' = [lastRound EXCEPT ![r] = queueStop[r]]
  /\ roomPc' = [roomPc EXCEPT ![r] = "run"]
  /\ UNCHANGED <<done, mainVars, workVars, jobQueue, pushed, late>>

PopAllUnlessStopped(r) ==
  /\ roomPc[r] = "wait"
  /\ batch' = [batch EXCEPT ![r] = IF queueStop[r] THEN <<>> ELSE jobQueue[r]]
  /\ jobQueue' = [jobQueue EXCEPT ![r] = IF queueStop[r] THEN @ ELSE <<>>]
  /\ lastRound' = [lastRound EXCEPT ![r] = queueStop[r]]
  /\ roomPc' = [roomPc EXCEPT ![r] = "run"]
  /\ UNCHANGED <<done, mainVars, workVars, pushed, late>>

(* JobQueue::PopAll, woken by a push, by Stop or by the timeout: takes the
   whole queue and reports m_Stop, both under the lock. *)
PopAll(r) ==
  /\ roomPc[r] = "wait"
  /\ batch' = [batch EXCEPT ![r] = jobQueue[r]]
  /\ jobQueue' = [jobQueue EXCEPT ![r] = <<>>]
  /\ lastRound' = [lastRound EXCEPT ![r] = queueStop[r]]
  /\ roomPc' = [roomPc EXCEPT ![r] = "run"]
  /\ UNCHANGED <<done, mainVars, workVars, pushed, late>>

(* Faulty variant: one job is dispatched and the rest of the batch is lost. *)
DispatchFirstOnly(r) ==
  /\ roomPc[r] = "run"
  /\ batch[r] # <<>>
  /\ done' = [done EXCEPT ![r] = Append(@, Head(batch[r]))]
  /\ batch' = [batch EXCEPT ![r] = <<>>]
  /\ UNCHANGED <<lastRound, roomPc, mainVars, workVars, jobQueue, pushed, late>>

(* Room::StartJob dispatches the jobs it took, oldest first. *)
Dispatch(r) ==
  /\ roomPc[r] = "run"
  /\ batch[r] # <<>>
  /\ done' = [done EXCEPT ![r] = Append(@, Head(batch[r]))]
  /\ batch' = [batch EXCEPT ![r] = Tail(@)]
  /\ UNCHANGED <<lastRound, roomPc, mainVars, workVars, jobQueue, pushed, late>>

(* The end of a round (after the movement tick): Work goes on or returns. *)
EndRound(r) ==
  /\ roomPc[r] = "run"
  /\ batch[r] = <<>>
  /\ roomPc' = [roomPc EXCEPT ![r] = IF lastRound[r] THEN "gone" ELSE "wait"]
  /\ UNCHANGED <<batch, lastRound, done, mainVars, workVars, jobQueue, pushed,
                 late>>

(* RoomManager::Join raises m_Stop first; only its first caller goes on. *)
JoinBegins ==
  /\ main = "up"
  /\ stopping' = TRUE
  /\ main' = "stop"
  /\ next' = 0
  /\ UNCHANGED <<queueStop, iocpStop, roomVars, workVars, jobQueue, pushed,
                 late>>

(* ... then stops the queue of every room ... *)
StopRoom ==
  /\ main = "stop"
  /\ next \in Rooms
  /\ queueStop' = [queueStop EXCEPT ![next] = TRUE]
  /\ next' = next + 1
  /\ UNCHANGED <<stopping, iocpStop, main, roomVars, workVars, jobQueue,
                 pushed, late>>

(* Faulty variant: the last room is not stopped. *)
StopsDoneEarly ==
  /\ main = "stop"
  /\ next = RoomCount - 1
  /\ main' = "join"
  /\ next' = 0
  /\ UNCHANGED <<stopping, queueStop, iocpStop, roomVars, workVars, jobQueue,
                 pushed, late>>

(* ... until every one is stopped ... *)
StopsDone ==
  /\ main = "stop"
  /\ next = RoomCount
  /\ main' = "join"
  /\ next' = 0
  /\ UNCHANGED <<stopping, queueStop, iocpStop, roomVars, workVars, jobQueue,
                 pushed, late>>

(* ... then waits for the thread of every room. *)
JoinRoom ==
  /\ main = "join"
  /\ next \in Rooms
  /\ roomPc[next] = "gone"
  /\ next' = next + 1
  /\ UNCHANGED <<stopping, queueStop, iocpStop, main, roomVars, workVars,
                 jobQueue, pushed, late>>

(* Shutdown goes on: it stops the IOCP and waits for its workers. *)
StopWorkers ==
  /\ main = "join"
  /\ next = RoomCount
  /\ iocpStop' = TRUE
  /\ main' = "joinWorkers"
  /\ UNCHANGED <<stopping, queueStop, next, roomVars, workVars, jobQueue,
                 pushed, late>>

(* Faulty variant: RoomManager is deleted while workers run. *)
ReleaseEarly ==
  /\ main = "joinWorkers"
  /\ main' = "released"
  /\ UNCHANGED <<stopping, queueStop, iocpStop, next, roomVars, workVars,
                 jobQueue, pushed, late>>

(* main calls RoomManager::Release: its Join finds m_Stop raised and returns
   at once, and the object is deleted with its rooms. *)
Release ==
  /\ main = "joinWorkers"
  /\ \A w \in Workers : workerPc[w] = "gone"
  /\ main' = "released"
  /\ UNCHANGED <<stopping, queueStop, iocpStop, next, roomVars, workVars,
                 jobQueue, pushed, late>>

RoomStep(r) == PopAll(r) \/ Dispatch(r) \/ EndRound(r)

MainShutdown ==
  JoinBegins \/ StopRoom \/ StopsDone \/ JoinRoom \/ StopWorkers \/ Release

Next ==
  \/ \E w \in Workers :
        \/ \E index \in Rooms \cup {-1} : Check(w, index)
        \/ Push(w)
        \/ WorkerExit(w)
  \/ \E r \in Rooms : RoomStep(r)
  \/ MainShutdown

Spec == Init /\ [][Next]_vars

(* Every thread goes on when it can; main need not begin to shut down, and
   nobody is obliged to make a job. *)
Fairness ==
  /\ \A w \in Workers : WF_vars(Push(w)) /\ WF_vars(WorkerExit(w))
  /\ \A r \in Rooms : WF_vars(RoomStep(r))
  /\ WF_vars(main # "up" /\ MainShutdown)

FairSpec == Spec /\ Fairness

-----------------------------------------------------------------------------
Hands == [job : Jobs, room : Rooms] \cup {EmptyHand}

TypeOK ==
  /\ stopping \in BOOLEAN
  /\ jobQueue \in [Rooms -> Seq(Jobs)]
  /\ queueStop \in [Rooms -> BOOLEAN]
  /\ batch \in [Rooms -> Seq(Jobs)]
  /\ lastRound \in [Rooms -> BOOLEAN]
  /\ roomPc \in [Rooms -> {"wait", "run", "gone"}]
  /\ hand \in [Workers -> Hands]
  /\ workerPc \in [Workers -> {"loop", "gone"}]
  /\ iocpStop \in BOOLEAN
  /\ main \in {"up", "stop", "join", "joinWorkers", "released"}
  /\ next \in 0 .. RoomCount
  /\ made \in 0 .. MaxJobs
  /\ pushed \in [Rooms -> Seq(Jobs)]
  /\ done \in [Rooms -> Seq(Jobs)]
  /\ refused \subseteq Jobs
  /\ late \subseteq Jobs

(* README.md:271: the jobs of one room are dispatched in the order in which
   they were pushed, none skipped and none twice, however rounds, pushes and
   the stop of the room interleave. *)
RoomFifo == \A r \in Rooms : pushed[r] = done[r] \o batch[r] \o jobQueue[r]

Elements(s) == {s[i] : i \in 1 .. Len(s)}

(* What was pushed before Stop() reached a queue is dispatched before the
   room's thread ends: only a push that came after it can be left over. *)
DrainedBeforeExit ==
  \A r \in Rooms : roomPc[r] = "gone" =>
    batch[r] = <<>> /\ Elements(jobQueue[r]) \subseteq late

(* The check of PushJobByRooms lets each worker be late at most once, so the
   jobs left over, and the sessions they hold, are at most one per worker. *)
OneLatePerWorker == Cardinality(late) <= Cardinality(Workers)

(* RoomManager is deleted when nobody can still be inside it. *)
ReleasedAlone ==
  main = "released" =>
    /\ \A r \in Rooms : roomPc[r] = "gone"
    /\ \A w \in Workers : workerPc[w] = "gone" /\ hand[w] = EmptyHand

(* A job taken by a room is dispatched, and one that is waiting is taken
   unless it came after the stop of its queue. *)
JobsAreDispatched ==
  \A r \in Rooms : \A j \in Jobs :
    j \in Elements(jobQueue[r]) ~> (j \in Elements(done[r]) \/ j \in late)

(* Once begun, the shutdown ends: no thread waits for another for ever. *)
ShutdownEnds == main = "stop" ~> main = "released"
=============================================================================
