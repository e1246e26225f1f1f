----------------------------- MODULE AcceptWait -----------------------------
(***************************************************************************)
(* The session pool, the acceptors and the queue in which acceptors wait   *)
(* for a session: ListenManager::Accept/Error/Shutdown, SessionManager's   *)
(* PopSession, PushSession, InsertWait, ReWaiting and ClearWaitQueue.      *)
(*                                                                         *)
(* An acceptor is an AcceptObject: armed (its AcceptEx is pending),        *)
(* accepted or failed (a completion nobody has taken), waiting, or in the  *)
(* hands of a thread; or lost, when its AcceptEx was refused.  Sessions in *)
(* use by a connection are `live'; any thread that drops the last          *)
(* reference to a session runs PushSession and ReWaiting.  These are       *)
(* nested calls; th[t].then is the acceptor to which the call of Error()   *)
(* around them returns.  Nothing here needs a bound.                       *)
(***************************************************************************)
EXTENDS Naturals, Sequences, FiniteSets

CONSTANTS
  Acceptors,   \* the AcceptObjects of ListenManager::m_AcceptObjects
  Sessions,    \* the SessionData objects of the pool
  Threads,     \* threads that may drop a session
  Listeners    \* those of them that serve the IOCP of the listen socket

CONSTANT None  \* no session, no acceptor

ASSUME AcceptAssumption ==
  /\ Listeners \subseteq Threads
  /\ None \notin Sessions \cup Acceptors
  /\ IsFiniteSet(Acceptors) /\ IsFiniteSet(Sessions) /\ IsFiniteSet(Threads)

VARIABLES
  free,        \* sessions in m_SessionPools
  live,        \* sessions referenced by m_UserSession, rooms, jobs or I/O
  holds,       \* m_Session of each acceptor
  acceptEx,    \* each acceptor's AcceptEx: none, armed, accepted, failed, refused
  waitQueue,   \* m_WaitQueue
  th,          \* where each thread stands
  main,        \* how far ServiceManager::Shutdown has come
  late         \* calls of AcceptEx by each thread on the closed socket (history)

poolVars == <<free, live, holds>>
vars == <<poolVars, acceptEx, waitQueue, th, main, late>>

stop      == main # "up"                  \* ListenManager::m_Stop
listening == main \in {"up", "flagged"}   \* the listen socket is open
iocpStop  == main = "stopped"             \* IOCP::m_Stop of the listen IOCP

(* A thread: its place, the acceptor and the session in its local variables,
   and the acceptor that Error() goes on with afterwards. *)
Idle == [at |-> "idle", obj |-> None, keep |-> None, then |-> None]

At(t, place) == th[t].at = place

Set(t, rec) == th' = [th EXCEPT ![t] = rec]

Goto(t, place) == th' = [th EXCEPT ![t].at = place]

(* The calls nested in Error() are over, or there were none. *)
Finish(t) ==
  Set(t, IF th[t].then = None THEN Idle
         ELSE [Idle EXCEPT !.at = "error", !.obj = th[t].then])

(* Somebody has session s, besides acceptor o, thread t and the users of a
   live session. *)
Elsewhere(s, o, t) ==
  \/ \E p \in Acceptors \ {o} : holds[p] = s
  \/ \E u \in Threads \ {t} : th[u].keep = s

(* Thread t drops session s: the last reference pushes it into the pool. *)
Dropped(s, last, then) ==
  IF last THEN [at |-> "push", obj |-> None, keep |-> s, then |-> then]
  ELSE IF then = None THEN Idle
  ELSE [Idle EXCEPT !.at = "error", !.obj = then]

(* ListenManager::Accept( int ) has run: one acceptor after the other takes a
   session and is armed, and those left over wait. *)
Init ==
  /\ live = {}
  /\ \E given \in [Acceptors -> Sessions \cup {None}] :
       /\ \A o, p \in Acceptors : o # p /\ given[o] # None => given[o] # given[p]
       /\ free = Sessions \ {given[o] : o \in Acceptors}
       /\ (\E o \in Acceptors : given[o] = None) => free = {}
       /\ holds = given
       /\ acceptEx = [o \in Acceptors |-> IF given[o] = None THEN "none"
                                                             ELSE "armed"]
       /\ LET rest == {o \in Acceptors : given[o] = None}
          IN  waitQueue \in [1 .. Cardinality(rest) -> rest]
       /\ \A o \in Acceptors :
            given[o] = None => \E i \in DOMAIN waitQueue : waitQueue[i] = o
  /\ th = [t \in Threads |-> Idle]
  /\ main = "up"
  /\ late = [t \in Threads |-> 0]

-----------------------------------------------------------------------------
(* Completions, taken by a listener. *)

Ready(t) == t \in Listeners /\ At(t, "idle")

(* AcceptObject::Execute: a client connected, and the session goes to work,
   also when the listen socket has been closed since. *)
Execute(t, o) ==
  /\ Ready(t)
  /\ acceptEx[o] = "accepted"
  /\ live' = live \cup {holds[o]}
  /\ acceptEx' = [acceptEx EXCEPT ![o] = "none"]
  /\ Set(t, [Idle EXCEPT !.at = "clear", !.obj = o])
  /\ UNCHANGED <<free, holds, waitQueue, main, late>>

(* Execute, its end: Clear lets go of the session, which may have been closed
   in the meantime, and the acceptor is to be armed again. *)
ExecuteClear(t) ==
  LET o == th[t].obj
      s == holds[o]
  IN  /\ At(t, "clear")
      /\ holds' = [holds EXCEPT ![o] = None]
      /\ Set(t, Dropped(s, s \notin live /\ ~Elsewhere(s, o, t), o))
      /\ UNCHANGED <<free, live, acceptEx, waitQueue, main, late>>

(* Error(): the acceptor lets go of its session, which may return to the pool
   by way of PushSession, before Error() goes on. *)
Error(t, o) ==
  /\ Ready(t)
  /\ acceptEx[o] = "failed"
  /\ acceptEx' = [acceptEx EXCEPT ![o] = "none"]
  /\ holds' = [holds EXCEPT ![o] = None]
  /\ Set(t, Dropped(holds[o], ~Elsewhere(holds[o], o, t), o))
  /\ UNCHANGED <<free, live, waitQueue, main, late>>

(* Error(), its second half, and the last call of Execute: arm again unless
   shutting down. *)
ErrorRearms(t) ==
  /\ At(t, "error")
  /\ IF stop THEN Set(t, Idle) ELSE Goto(t, "accept")
  /\ UNCHANGED <<poolVars, acceptEx, waitQueue, main, late>>

-----------------------------------------------------------------------------
(* ListenManager::Accept( AcceptObject*, bool ). *)

(* Its test of m_Stop.  The caller holds no session and lets the acceptor be. *)
AcceptChecks(t) ==
  /\ At(t, "accept")
  /\ IF stop THEN Set(t, Idle) ELSE Goto(t, "pop")
  /\ UNCHANGED <<poolVars, acceptEx, waitQueue, main, late>>

(* Faulty variants: the session stays in the pool; an empty pool goes
   unnoticed. *)
AcceptPeeks(t) ==
  /\ At(t, "pop")
  /\ \/ free = {} /\ Goto(t, "insert") /\ UNCHANGED holds
     \/ \E s \in free :
          /\ holds' = [holds EXCEPT ![th[t].obj] = s]
          /\ Set(t, [th[t] EXCEPT !.at = "arm", !.keep = s])
  /\ UNCHANGED <<free, live, acceptEx, waitQueue, main, late>>

AcceptUnchecked(t) ==
  /\ At(t, "pop")
  /\ \E s \in IF free = {} THEN {None} ELSE free :
       /\ free' = free \ {s}
       /\ holds' = [holds EXCEPT ![th[t].obj] = s]
       /\ Set(t, [th[t] EXCEPT !.at = "arm", !.keep = s])
  /\ UNCHANGED <<live, acceptEx, waitQueue, main, late>>

(* PopSession: a session for the acceptor, if the pool has one. *)
AcceptPops(t) ==
  /\ At(t, "pop")
  /\ \/ /\ free = {}
        /\ Goto(t, "insert")
        /\ UNCHANGED <<free, holds>>
     \/ \E s \in free :
          /\ free' = free \ {s}
          /\ holds' = [holds EXCEPT ![th[t].obj] = s]
          /\ Set(t, [th[t] EXCEPT !.at = "arm", !.keep = s])
  /\ UNCHANGED <<live, acceptEx, waitQueue, main, late>>

(* AcceptEx, whose result nobody looks at: on an open listen socket it is
   pending, or the system refuses it (no socket was made for the session);
   on a closed one it is refused.  A refusal has no completion. *)
Arm(t) ==
  /\ At(t, "arm")
  /\ \E result \in {"refused"} \cup {x \in {"armed"} : listening} :
        acceptEx' = [acceptEx EXCEPT ![th[t].obj] = result]
  /\ Set(t, [th[t] EXCEPT !.at = "drop", !.obj = None])
  /\ late' = [late EXCEPT ![t] = IF listening THEN @ ELSE @ + 1]
  /\ UNCHANGED <<poolVars, waitQueue, main>>

(* Accept returns: its session variable, and ReWaiting's, go out of scope. *)
Drop(t) ==
  /\ At(t, "drop")
  /\ LET s == th[t].keep
     IN  Set(t, Dropped(s, s \notin live /\ ~Elsewhere(s, None, t), th[t].then))
  /\ UNCHANGED <<poolVars, acceptEx, waitQueue, main, late>>

(* Faulty variants: no second look after the insertion; the acceptor is given
   up when there is no session. *)
InsertOnly(t) ==
  /\ At(t, "insert")
  /\ waitQueue' = Append(waitQueue, th[t].obj)
  /\ Finish(t)
  /\ UNCHANGED <<poolVars, acceptEx, main, late>>

InsertNothing(t) ==
  /\ At(t, "insert")
  /\ Finish(t)
  /\ UNCHANGED <<poolVars, acceptEx, waitQueue, main, late>>

(* InsertWait: the acceptor joins the queue; then ReWaiting looks again. *)
InsertWait(t) ==
  /\ At(t, "insert")
  /\ waitQueue' = Append(waitQueue, th[t].obj)
  /\ Set(t, [th[t] EXCEPT !.at = "rewait", !.obj = None])
  /\ UNCHANGED <<poolVars, acceptEx, main, late>>

-----------------------------------------------------------------------------
(* SessionManager. *)

(* The last reference to a session in use goes away in thread t. *)
Release(t, s) ==
  /\ At(t, "idle")
  /\ s \in live
  /\ live' = live \ {s}
  /\ Set(t, Dropped(s, ~Elsewhere(s, None, t), None))
  /\ UNCHANGED <<free, holds, acceptEx, waitQueue, main, late>>

(* Faulty variant: PushSession does not call ReWaiting. *)
PushOnly(t) ==
  /\ At(t, "push")
  /\ free' = free \cup {th[t].keep}
  /\ Finish(t)
  /\ UNCHANGED <<live, holds, acceptEx, waitQueue, main, late>>

(* PushSession: Reset, into the pool, then ReWaiting. *)
PushSession(t) ==
  /\ At(t, "push")
  /\ free' = free \cup {th[t].keep}
  /\ Set(t, [th[t] EXCEPT !.at = "rewait", !.keep = None])
  /\ UNCHANGED <<live, holds, acceptEx, waitQueue, main, late>>

(* ReWaiting: nothing is armed again during a shutdown. *)
ReWaiting(t) ==
  /\ At(t, "rewait")
  /\ IF stop THEN Finish(t) ELSE Goto(t, "look")
  /\ UNCHANGED <<poolVars, acceptEx, waitQueue, main, late>>

(* ReWaiting, first locked section: is there somebody waiting? *)
Look(t) ==
  /\ At(t, "look")
  /\ IF waitQueue = <<>> THEN Finish(t) ELSE Goto(t, "take")
  /\ UNCHANGED <<poolVars, acceptEx, waitQueue, main, late>>

(* ReWaiting: PopSession. *)
Take(t) ==
  /\ At(t, "take")
  /\ \/ free = {} /\ Finish(t) /\ UNCHANGED free
     \/ \E s \in free :
          /\ free' = free \ {s}
          /\ Set(t, [th[t] EXCEPT !.at = "pick", !.keep = s])
  /\ UNCHANGED <<live, holds, acceptEx, waitQueue, main, late>>

(* Faulty variant: the session is not put back when nobody waits. *)
PickForgets(t) ==
  /\ At(t, "pick")
  /\ IF waitQueue = <<>>
     THEN Finish(t) /\ UNCHANGED waitQueue
     ELSE /\ waitQueue' = Tail(waitQueue)
          /\ Set(t, [th[t] EXCEPT !.at = "give", !.obj = Head(waitQueue)])
  /\ UNCHANGED <<poolVars, acceptEx, main, late>>

(* ReWaiting, second locked section: the one who waits longest, or nobody any
   more, in which case the session is dropped again. *)
Pick(t) ==
  /\ At(t, "pick")
  /\ IF waitQueue = <<>>
     THEN Goto(t, "drop") /\ UNCHANGED waitQueue
     ELSE /\ waitQueue' = Tail(waitQueue)
          /\ Set(t, [th[t] EXCEPT !.at = "give", !.obj = Head(waitQueue)])
  /\ UNCHANGED <<poolVars, acceptEx, main, late>>

(* SetSession, and Accept( acceptObject, false ) with its test of m_Stop. *)
Give(t) ==
  /\ At(t, "give")
  /\ IF stop
     THEN Set(t, [th[t] EXCEPT !.at = "drop", !.obj = None]) /\ UNCHANGED holds
     ELSE /\ holds' = [holds EXCEPT ![th[t].obj] = th[t].keep]
          /\ Goto(t, "arm")
  /\ UNCHANGED <<free, live, acceptEx, waitQueue, main, late>>

-----------------------------------------------------------------------------
(* The network and the shutdown. *)

(* A client connects. *)
AcceptSucceeds(o) ==
  /\ acceptEx[o] = "armed"
  /\ acceptEx' = [acceptEx EXCEPT ![o] = "accepted"]
  /\ UNCHANGED <<poolVars, waitQueue, th, main, late>>

(* An AcceptEx completes with an error (the client reset in time). *)
AcceptFails(o) ==
  /\ acceptEx[o] = "armed"
  /\ acceptEx' = [acceptEx EXCEPT ![o] = "failed"]
  /\ UNCHANGED <<poolVars, waitQueue, th, main, late>>

(* ListenManager::Shutdown raises m_Stop first ... *)
RaiseStop ==
  /\ main = "up"
  /\ main' = "flagged"
  /\ UNCHANGED <<poolVars, acceptEx, waitQueue, th, late>>

(* ... then closes the listen socket: what is still armed completes with an
   error. *)
CloseListen ==
  /\ main = "flagged"
  /\ main' = "closed"
  /\ acceptEx' = [o \in Acceptors |->
                    IF acceptEx[o] = "armed" THEN "failed" ELSE acceptEx[o]]
  /\ UNCHANGED <<poolVars, waitQueue, th, late>>

ClearWaitQueue ==
  /\ main = "closed"
  /\ main' = "cleared"
  /\ waitQueue' = <<>>
  /\ UNCHANGED <<poolVars, acceptEx, th, late>>

(* The rooms and the sessions in use are closed; then the IOCP is stopped. *)
StopListeners ==
  /\ main = "cleared"
  /\ main' = "stopped"
  /\ UNCHANGED <<poolVars, acceptEx, waitQueue, th, late>>

(* A listener that sees IOCP::m_Stop takes no completion any more. *)
ListenerExits(t) ==
  /\ Ready(t)
  /\ iocpStop
  /\ Goto(t, "gone")
  /\ UNCHANGED <<poolVars, acceptEx, waitQueue, main, late>>

-----------------------------------------------------------------------------
(* A call that a thread is in goes on. *)
Step(t) ==
  \/ ExecuteClear(t)
  \/ ErrorRearms(t)
  \/ AcceptChecks(t)
  \/ AcceptPops(t)
  \/ Arm(t)
  \/ Drop(t)
  \/ InsertWait(t)
  \/ PushSession(t)
  \/ ReWaiting(t)
  \/ Look(t)
  \/ Take(t)
  \/ Pick(t)
  \/ Give(t)

ShutdownStep == RaiseStop \/ CloseListen \/ ClearWaitQueue \/ StopListeners

Next ==
  \/ \E t \in Threads :
       \/ Step(t)
       \/ \E o \in Acceptors : Execute(t, o) \/ Error(t, o)
       \/ \E s \in Sessions : Release(t, s)
       \/ ListenerExits(t)
  \/ \E o \in Acceptors : AcceptSucceeds(o) \/ AcceptFails(o)
  \/ ShutdownStep

Spec == Init /\ [][Next]_vars

(* A thread inside a call goes on; nothing else is obliged to happen. *)
FairSpec == Spec /\ \A t \in Threads : WF_vars(Step(t))

-----------------------------------------------------------------------------
Places == {"idle", "clear", "error", "accept", "pop", "arm", "drop", "insert", "push",
           "rewait", "look", "take", "pick", "give", "gone"}

TypeOK ==
  /\ free \subseteq Sessions
  /\ live \subseteq Sessions
  /\ holds \in [Acceptors -> Sessions \cup {None}]
  /\ acceptEx \in [Acceptors -> {"none", "armed", "accepted", "failed", "refused"}]
  /\ waitQueue \in Seq(Acceptors)
  /\ th \in [Threads -> [at : Places, obj : Acceptors \cup {None},
                        keep : Sessions \cup {None},
                        then : Acceptors \cup {None}]]
  /\ main \in {"up", "flagged", "closed", "cleared", "stopped"}
  /\ late \in [Threads -> Nat]

(* Somebody has a reference to session s. *)
Held(s) ==
  \/ s \in live
  \/ \E o \in Acceptors : holds[o] = s
  \/ \E t \in Threads : th[t].keep = s

(* A session is in the pool exactly when nobody has it: none is recycled under
   a user and none is lost, and no two acceptors are given the same one. *)
SessionsConserved ==
  /\ \A s \in Sessions : s \in free <=> ~Held(s)
  /\ \A o, p \in Acceptors : holds[o] # None /\ holds[o] = holds[p] => o = p

(* In how many places acceptor o is found: with a thread, in the queue, or with
   an AcceptEx that has or will have a completion.  A refused one has none. *)
Spots(o) ==
  Cardinality({t \in Threads : th[t].obj = o})
    + Cardinality({t \in Threads : th[t].then = o})
    + Cardinality({i \in 1 .. Len(waitQueue) : waitQueue[i] = o})
    + (IF acceptEx[o] \in {"armed", "accepted", "failed"} THEN 1 ELSE 0)

(* m_Stop is raised before the listen socket is closed: a thread that tested it
   in time may call AcceptEx on the closed socket, but only once, however many
   completions the closing leaves for it to serve. *)
OneLateArm == \A t \in Threads : late[t] <= 1

(* README.md:327: an exhausted pool gives up no AcceptEx.  No acceptor is in
   two places (no OVERLAPPED is posted twice), and until the shutdown each is
   in one, unless the system refused its AcceptEx: the call whose result
   Accept() ignores is the only way to lose an acceptor.  Then OneLateArm. *)
AcceptorsKept ==
  /\ \A o \in Acceptors :
       /\ Spots(o) <= 1
       /\ acceptEx[o] = "refused" => Spots(o) = 0
       /\ ~stop => Spots(o) = 1 \/ acceptEx[o] = "refused"
  /\ OneLateArm

(* No wakeup is lost between the two locks: either every waiting acceptor or
   every free session has a thread of its own inside ReWaiting that is about
   to take it. *)
NoLostWakeup ==
  LET takers  == {t \in Threads : th[t].at \in {"rewait", "look", "take"}}
      pickers == {t \in Threads : th[t].at = "pick"}
  IN  ~stop => \/ Len(waitQueue) <= Cardinality(takers \cup pickers)
               \/ Cardinality(free) <= Cardinality(takers)

(* An acceptor does not wait for ever while there are free sessions. *)
WaitersAreServed ==
  waitQueue # <<>> /\ free # {} ~> waitQueue = <<>> \/ free = {} \/ stop
=============================================================================
