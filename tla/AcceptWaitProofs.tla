-------------------------- MODULE AcceptWaitProofs --------------------------
(***************************************************************************)
(* Who has which session and which acceptor, proved for any number of      *)
(* them, of threads and of listeners, up to and through the shutdown; and  *)
(* that ReWaiting loses no wakeup.                                         *)
(***************************************************************************)
EXTENDS AcceptWait, SequenceTheorems, FiniteSetTheorems, TLAPS

(* The places at which a thread has an acceptor in its hands, a session in a
   local variable, and a call of Error() around it. *)
ObjPlaces  == {"clear", "error", "accept", "pop", "insert", "arm", "give"}
KeepPlaces == {"arm", "drop", "push", "pick", "give"}
ThenPlaces == {"arm", "drop", "push", "rewait", "look", "take", "pick", "give"}

ThreadStates == [at : Places, obj : Acceptors \cup {None},
                 keep : Sessions \cup {None}, then : Acceptors \cup {None}]

ThreadOK(rec) ==
  /\ rec \in ThreadStates
  /\ rec.at \in ObjPlaces <=> rec.obj # None
  /\ rec.at \in KeepPlaces <=> rec.keep # None
  /\ rec.then # None => rec.at \in ThenPlaces

(* The types, thread by thread, and that an acceptor whose AcceptEx is pending
   or whose completion is being served has a session. *)
TypeInv ==
  /\ free \subseteq Sessions /\ live \subseteq Sessions
  /\ holds \in [Acceptors -> Sessions \cup {None}]
  /\ acceptEx \in [Acceptors -> {"none", "armed", "accepted", "failed", "refused"}]
  /\ waitQueue \in Seq(Acceptors)
  /\ th \in [Threads -> ThreadStates]
  /\ \A t \in Threads : ThreadOK(th[t])
  /\ main \in {"up", "flagged", "closed", "cleared", "stopped"}
  /\ \A o \in Acceptors : acceptEx[o] \in {"armed", "accepted", "failed"} => holds[o] # None
  /\ \A t \in Threads : th[t].at \in {"arm", "clear"} => holds[th[t].obj] # None

-----------------------------------------------------------------------------
(* The acceptors a thread is responsible for. *)
Has(t) == {th[t].obj, th[t].then} \ {None}

Queued(o) == \E i \in 1 .. Len(waitQueue) : waitQueue[i] = o

(* No acceptor is in two places. *)
Placed ==
  /\ \A t \in Threads : th[t].obj # None => th[t].obj # th[t].then
  /\ \A t, u \in Threads : t # u => Has(t) \cap Has(u) = {}
  /\ \A t \in Threads : \A o \in Has(t) : acceptEx[o] = "none" /\ ~Queued(o)
  /\ \A i \in 1 .. Len(waitQueue) : acceptEx[waitQueue[i]] = "none"
  /\ \A i, j \in 1 .. Len(waitQueue) : i # j => waitQueue[i] # waitQueue[j]

(* Until the shutdown it is in one. *)
Somewhere ==
  ~stop => \A o \in Acceptors :
             \/ \E t \in Threads : o \in Has(t)
             \/ Queued(o)
             \/ acceptEx[o] # "none"

(* The session of an acceptor waits for a client, or is about to, or is at work
   and Execute has not let go of it yet. *)
Uses(o) ==
  \/ acceptEx[o] # "none" /\ holds[o] \notin live
  \/ \E t \in Threads : /\ th[t].obj = o
                        /\ \/ th[t].at = "clear"
                           \/ th[t].at = "arm" /\ holds[o] \notin live

(* An acceptor has a session only from its arming to the end of Execute or
   Error, and a session that a thread pushes, or took from the pool for a
   waiting acceptor, is nobody else's. *)
Alone ==
  /\ \A o \in Acceptors : holds[o] # None => Uses(o)
  /\ \A t \in Threads : th[t].at \in {"push", "pick", "give"} =>
       /\ th[t].keep \notin live
       /\ \A o \in Acceptors : holds[o] # th[t].keep
       /\ \A u \in Threads : u # t => th[u].keep # th[t].keep
  /\ SessionsConserved

Inv == TypeInv /\ Placed /\ Somewhere /\ Alone

-----------------------------------------------------------------------------
(* The records that the steps build. *)
LEMMA IdleOK == ThreadOK(Idle)
BY DEF ThreadOK, ThreadStates, Idle, Places, ObjPlaces, KeepPlaces, ThenPlaces

LEMMA ErrorRecOK ==
  ASSUME NEW o \in Acceptors
  PROVE  LET rec == [Idle EXCEPT !.at = "error", !.obj = o]
         IN  ThreadOK(rec) /\ rec.at = "error" /\ rec.obj = o /\ rec.then = None
             /\ rec.keep = None
BY AcceptAssumption
   DEF ThreadOK, ThreadStates, Idle, Places, ObjPlaces, KeepPlaces, ThenPlaces

LEMMA DroppedOK ==
  ASSUME NEW s \in Sessions, NEW last \in BOOLEAN,
         NEW then \in Acceptors \cup {None}
  PROVE  LET rec == Dropped(s, last, then)
         IN  /\ ThreadOK(rec)
             /\ rec.keep = IF last THEN s ELSE None
             /\ rec.at = IF last THEN "push"
                         ELSE IF then = None THEN "idle" ELSE "error"
             /\ rec.obj = IF last THEN None ELSE then
             /\ rec.then = IF last THEN then ELSE None
BY AcceptAssumption
   DEF ThreadOK, ThreadStates, Dropped, Idle, Places, ObjPlaces, KeepPlaces, ThenPlaces

LEMMA InitTypes ==
  ASSUME Init PROVE TypeInv
<1>1. PICK given \in [Acceptors -> Sessions \cup {None}] :
        /\ free = Sessions \ {given[o] : o \in Acceptors}
        /\ holds = given
        /\ acceptEx = [o \in Acceptors |-> IF given[o] = None THEN "none"
                                                              ELSE "armed"]
        /\ waitQueue \in [1 .. Cardinality({o \in Acceptors : given[o] = None})
                            -> {o \in Acceptors : given[o] = None}]
  BY DEF Init
<1>2. waitQueue \in Seq(Acceptors)
  <2> DEFINE rest == {o \in Acceptors : given[o] = None}
  <2>1. rest \subseteq Acceptors /\ IsFiniteSet(rest)
    BY AcceptAssumption, FS_Subset
  <2>2. Cardinality(rest) \in Nat
    BY <2>1, FS_CardinalityType
  <2>3. waitQueue \in [1 .. Cardinality(rest) -> rest]
    BY <1>1
  <2> HIDE DEF rest
  <2>4. waitQueue \in [1 .. Cardinality(rest) -> Acceptors]
    BY <2>1, <2>3
  <2> QED BY <2>2, <2>4, SeqDef
<1>3. th = [t \in Threads |-> Idle] /\ live = {} /\ main = "up"
  BY DEF Init
<1>4. ThreadOK(Idle) /\ Idle \in ThreadStates /\ Idle.at = "idle"
  BY IdleOK DEF ThreadOK, Idle
<1> QED BY <1>1, <1>2, <1>3, <1>4 DEF TypeInv

-----------------------------------------------------------------------------
(* A thread moves on. *)
LEMMA SetOK ==
  ASSUME TypeInv, NEW t \in Threads, NEW rec, ThreadOK(rec), Set(t, rec)
  PROVE  /\ th' \in [Threads -> ThreadStates]
         /\ \A u \in Threads : ThreadOK(th'[u])
         /\ th'[t] = rec /\ \A u \in Threads : u # t => th'[u] = th[u]
BY DEF TypeInv, Set, ThreadOK

(* Every step of a thread inside a call: where it goes and what it has then. *)
Moves(t, p, o, s, then) ==
  /\ ThreadOK(th'[t])
  /\ th'[t].at = p /\ th'[t].obj = o /\ th'[t].keep = s /\ th'[t].then = then
  /\ th' \in [Threads -> ThreadStates]
  /\ \A u \in Threads : ThreadOK(th'[u])
  /\ \A u \in Threads : u # t => th'[u] = th[u]

LEMMA MovesOK ==
  ASSUME TypeInv, NEW t \in Threads, NEW p \in Places,
         NEW o \in Acceptors \cup {None}, NEW s \in Sessions \cup {None},
         p \in ObjPlaces <=> o # None, p \in KeepPlaces <=> s # None,
         th[t].then # None => p \in ThenPlaces,
         Set(t, [th[t] EXCEPT !.at = p, !.obj = o, !.keep = s])
  PROVE  Moves(t, p, o, s, th[t].then)
<1> DEFINE rec == [th[t] EXCEPT !.at = p, !.obj = o, !.keep = s]
<1>1. ThreadOK(rec) /\ rec.at = p /\ rec.obj = o /\ rec.keep = s /\ rec.then = th[t].then
  BY DEF TypeInv, ThreadOK, ThreadStates
<1>2. Set(t, rec)
  OBVIOUS
<1> HIDE DEF rec
<1> QED BY <1>1, <1>2, SetOK DEF Moves

LEMMA Fields ==
  ASSUME TypeInv, NEW t \in Threads
  PROVE  /\ th[t] = [at |-> th[t].at, obj |-> th[t].obj, keep |-> th[t].keep,
                     then |-> th[t].then]
         /\ th[t].at \in Places /\ th[t].obj \in Acceptors \cup {None}
         /\ th[t].keep \in Sessions \cup {None}
         /\ th[t].then \in Acceptors \cup {None}
         /\ th[t].at \in ObjPlaces <=> th[t].obj # None
         /\ th[t].at \in KeepPlaces <=> th[t].keep # None
         /\ th[t].then # None => th[t].at \in ThenPlaces
BY DEF TypeInv, ThreadStates, ThreadOK

LEMMA GotoMoves ==
  ASSUME TypeInv, NEW t \in Threads, NEW p \in Places,
         p \in ObjPlaces <=> th[t].at \in ObjPlaces,
         p \in KeepPlaces <=> th[t].at \in KeepPlaces,
         th[t].then # None => p \in ThenPlaces,
         Goto(t, p)
  PROVE  Moves(t, p, th[t].obj, th[t].keep, th[t].then)
<1>1. [th[t] EXCEPT !.at = p] = [th[t] EXCEPT !.at = p, !.obj = th[t].obj, !.keep = th[t].keep]
  BY Fields
<1>2. Set(t, [th[t] EXCEPT !.at = p, !.obj = th[t].obj, !.keep = th[t].keep])
  BY <1>1 DEF Goto, Set
<1> QED BY <1>2, Fields, MovesOK

LEMMA IdleMoves ==
  ASSUME TypeInv, NEW t \in Threads, Set(t, Idle)
  PROVE  Moves(t, "idle", None, None, None)
BY IdleOK, SetOK DEF Moves, Idle

LEMMA FinishMoves ==
  ASSUME TypeInv, NEW t \in Threads, Finish(t)
  PROVE  Moves(t, IF th[t].then = None THEN "idle" ELSE "error", th[t].then, None, None)
<1>1. CASE th[t].then = None
  BY <1>1, IdleMoves DEF Finish
<1>2. CASE th[t].then # None
  <2> DEFINE rec == [Idle EXCEPT !.at = "error", !.obj = th[t].then]
  <2>1. ThreadOK(rec) /\ rec.at = "error" /\ rec.obj = th[t].then /\ rec.then = None
        /\ rec.keep = None
    BY <1>2, ErrorRecOK, Fields
  <2>2. Set(t, rec)
    BY <1>2 DEF Finish
  <2> HIDE DEF rec
  <2> QED BY <1>2, <2>1, <2>2, SetOK DEF Moves
<1> QED BY <1>1, <1>2

LEMMA DroppedMoves ==
  ASSUME TypeInv, NEW t \in Threads, NEW s \in Sessions, NEW last \in BOOLEAN,
         NEW then \in Acceptors \cup {None}, Set(t, Dropped(s, last, then))
  PROVE  IF last THEN Moves(t, "push", None, s, then)
         ELSE Moves(t, IF then = None THEN "idle" ELSE "error", then, None, None)
<1> DEFINE rec == Dropped(s, last, then)
<1>1. /\ ThreadOK(rec)
      /\ rec.keep = IF last THEN s ELSE None
      /\ rec.at = IF last THEN "push"
                  ELSE IF then = None THEN "idle" ELSE "error"
      /\ rec.obj = IF last THEN None ELSE then
      /\ rec.then = IF last THEN then ELSE None
  BY DroppedOK
<1>2. Set(t, rec)
  OBVIOUS
<1> HIDE DEF rec
<1> QED BY <1>1, <1>2, SetOK DEF Moves

-----------------------------------------------------------------------------
(* Where each step goes. *)
LEMMA ReadyFacts ==
  ASSUME TypeInv, NEW t \in Threads, Ready(t) \/ At(t, "idle")
  PROVE  th[t].at = "idle" /\ th[t].obj = None /\ th[t].keep = None /\ th[t].then = None
BY Fields DEF Ready, At, ObjPlaces, KeepPlaces, ThenPlaces

LEMMA ExecuteMoves ==
  ASSUME TypeInv, NEW t \in Threads, NEW o \in Acceptors, Execute(t, o)
  PROVE  Moves(t, "clear", o, None, None)
<1> DEFINE rec == [Idle EXCEPT !.at = "clear", !.obj = o]
<1>1. ThreadOK(rec) /\ rec.at = "clear" /\ rec.obj = o /\ rec.keep = None /\ rec.then = None
  BY AcceptAssumption
     DEF ThreadOK, ThreadStates, Idle, Places, ObjPlaces, KeepPlaces, ThenPlaces
<1>2. Set(t, rec)
  BY DEF Execute
<1> HIDE DEF rec
<1> QED BY <1>1, <1>2, SetOK DEF Moves

LEMMA ExecuteClearMoves ==
  ASSUME TypeInv, NEW t \in Threads, ExecuteClear(t)
  PROVE  LET o == th[t].obj
             s == holds[o]
             last == s \notin live /\ ~Elsewhere(s, o, t)
         IN  /\ o \in Acceptors /\ s \in Sessions /\ th[t].at = "clear"
             /\ th[t].keep = None /\ th[t].then = None
             /\ IF last THEN Moves(t, "push", None, s, o)
                ELSE Moves(t, "error", o, None, None)
<1> DEFINE o == th[t].obj
           s == holds[o]
           last == s \notin live /\ ~Elsewhere(s, o, t)
<1>1. th[t].at = "clear"
  BY DEF ExecuteClear, At
<1>2. o \in Acceptors /\ s \in Sessions /\ th[t].keep = None /\ th[t].then = None
  BY <1>1, Fields DEF TypeInv, ObjPlaces, KeepPlaces, ThenPlaces
<1>3. Set(t, Dropped(s, last, o)) /\ last \in BOOLEAN
  BY DEF ExecuteClear, Elsewhere
<1> HIDE DEF last, s
<1>4. IF last THEN Moves(t, "push", None, s, o)
      ELSE Moves(t, IF o = None THEN "idle" ELSE "error", o, None, None)
  BY <1>2, <1>3, DroppedMoves
<1> QED BY <1>1, <1>2, <1>4, AcceptAssumption DEF last, s

LEMMA ErrorMoves ==
  ASSUME TypeInv, NEW t \in Threads, NEW o \in Acceptors, Error(t, o)
  PROVE  LET s == holds[o]
         IN  /\ s \in Sessions
             /\ IF ~Elsewhere(s, o, t) THEN Moves(t, "push", None, s, o)
                ELSE Moves(t, "error", o, None, None)
<1> DEFINE s == holds[o]
           last == ~Elsewhere(s, o, t)
<1>1. s \in Sessions
  BY DEF Error, TypeInv
<1>2. Set(t, Dropped(s, last, o)) /\ last \in BOOLEAN
  BY DEF Error, Elsewhere
<1> HIDE DEF last, s
<1>3. IF last THEN Moves(t, "push", None, s, o)
      ELSE Moves(t, IF o = None THEN "idle" ELSE "error", o, None, None)
  BY <1>1, <1>2, DroppedMoves
<1> QED BY <1>1, <1>3, AcceptAssumption DEF last, s

LEMMA DropMoves ==
  ASSUME TypeInv, NEW t \in Threads, Drop(t)
  PROVE  LET s == th[t].keep
             o == th[t].then
         IN  /\ s \in Sessions /\ th[t].at = "drop" /\ th[t].obj = None
             /\ IF s \notin live /\ ~Elsewhere(s, None, t)
                THEN Moves(t, "push", None, s, o)
                ELSE Moves(t, IF o = None THEN "idle" ELSE "error", o, None, None)
<1> DEFINE s == th[t].keep
           last == s \notin live /\ ~Elsewhere(s, None, t)
<1>1. th[t].at = "drop"
  BY DEF Drop, At
<1>2. s \in Sessions /\ th[t].obj = None
  BY <1>1, Fields DEF ObjPlaces, KeepPlaces
<1>3. Set(t, Dropped(s, last, th[t].then)) /\ last \in BOOLEAN
  BY DEF Drop, Elsewhere
<1>4. th[t].then \in Acceptors \cup {None}
  BY Fields
<1> HIDE DEF last, s
<1>5. IF last THEN Moves(t, "push", None, s, th[t].then)
      ELSE Moves(t, IF th[t].then = None THEN "idle" ELSE "error", th[t].then, None, None)
  BY <1>2, <1>3, <1>4, DroppedMoves
<1> QED BY <1>1, <1>2, <1>5 DEF last, s

LEMMA ReleaseMoves ==
  ASSUME TypeInv, NEW t \in Threads, NEW s \in Sessions, Release(t, s)
  PROVE  IF ~Elsewhere(s, None, t) THEN Moves(t, "push", None, s, None)
         ELSE Moves(t, "idle", None, None, None)
<1> DEFINE last == ~Elsewhere(s, None, t)
<1>1. Set(t, Dropped(s, last, None)) /\ last \in BOOLEAN
  BY DEF Release, Elsewhere
<1> HIDE DEF last
<1>2. IF last THEN Moves(t, "push", None, s, None)
      ELSE Moves(t, IF None = None THEN "idle" ELSE "error", None, None, None)
  BY <1>1, DroppedMoves
<1> QED BY <1>2 DEF last

LEMMA RearmMoves ==
  ASSUME TypeInv, NEW t \in Threads, ErrorRearms(t) \/ AcceptChecks(t)
  PROVE  /\ th[t].keep = None /\ th[t].then = None /\ th[t].at \in {"error", "accept"}
         /\ \/ stop /\ Moves(t, "idle", None, None, None)
            \/ \E p \in {"accept", "pop"} : Moves(t, p, th[t].obj, None, None)
<1>1. th[t].at \in {"error", "accept"} /\ th[t].keep = None /\ th[t].then = None
  BY Fields DEF ErrorRearms, AcceptChecks, At, KeepPlaces, ThenPlaces
<1>2. CASE stop
  BY <1>1, <1>2, IdleMoves DEF ErrorRearms, AcceptChecks
<1>3. CASE ~stop
  <2>1. PICK p \in {"accept", "pop"} : Goto(t, p)
    BY <1>3 DEF ErrorRearms, AcceptChecks
  <2>2. Moves(t, p, th[t].obj, th[t].keep, th[t].then)
    BY <1>1, <2>1, GotoMoves DEF Places, ObjPlaces, KeepPlaces
  <2> QED BY <1>1, <2>2
<1> QED BY <1>1, <1>2, <1>3

LEMMA AcceptPopsMoves ==
  ASSUME TypeInv, NEW t \in Threads, AcceptPops(t)
  PROVE  /\ th[t].at = "pop" /\ th[t].keep = None /\ th[t].obj \in Acceptors
         /\ th[t].then = None
         /\ \/ Moves(t, "insert", th[t].obj, None, None) /\ UNCHANGED <<free, holds>>
            \/ \E s \in free : /\ Moves(t, "arm", th[t].obj, s, None)
                               /\ free' = free \ {s}
                               /\ holds' = [holds EXCEPT ![th[t].obj] = s]
<1>1. /\ th[t].at = "pop" /\ th[t].keep = None /\ th[t].then = None
      /\ th[t].obj \in Acceptors
  BY Fields DEF AcceptPops, At, KeepPlaces, ThenPlaces, ObjPlaces
<1>2. CASE Goto(t, "insert") /\ UNCHANGED <<free, holds>>
  <2>1. Moves(t, "insert", th[t].obj, th[t].keep, th[t].then)
    BY <1>1, <1>2, GotoMoves DEF Places, ObjPlaces, KeepPlaces
  <2> QED BY <1>1, <1>2, <2>1
<1>3. ASSUME NEW s \in free, Set(t, [th[t] EXCEPT !.at = "arm", !.keep = s]),
             free' = free \ {s}, holds' = [holds EXCEPT ![th[t].obj] = s]
      PROVE  \E r \in free : /\ Moves(t, "arm", th[t].obj, r, None)
                             /\ free' = free \ {r}
                             /\ holds' = [holds EXCEPT ![th[t].obj] = r]
  <2>1. [th[t] EXCEPT !.at = "arm", !.keep = s]
          = [th[t] EXCEPT !.at = "arm", !.obj = th[t].obj, !.keep = s]
    BY Fields
  <2>2. s \in Sessions /\ s # None
    BY AcceptAssumption DEF TypeInv
  <2>3. Set(t, [th[t] EXCEPT !.at = "arm", !.obj = th[t].obj, !.keep = s])
    BY <1>3, <2>1
  <2>4. "arm" \in Places /\ "arm" \in ObjPlaces /\ "arm" \in KeepPlaces
    BY DEF Places, ObjPlaces, KeepPlaces
  <2>5. th[t].obj # None /\ th[t].obj \in Acceptors \cup {None}
        /\ s \in Sessions \cup {None} /\ th[t].then = None
    BY <1>1, <2>2, AcceptAssumption
  <2>6. Moves(t, "arm", th[t].obj, s, th[t].then)
    BY <2>2, <2>3, <2>4, <2>5, MovesOK
  <2> QED BY <1>1, <1>3, <2>6
<1> QED BY <1>1, <1>2, <1>3 DEF AcceptPops

(* The acceptor is let go, the session is dropped. *)
LEMMA DropRecMoves ==
  ASSUME TypeInv, NEW t \in Threads, th[t].keep \in Sessions,
         Set(t, [th[t] EXCEPT !.at = "drop", !.obj = None, !.keep = th[t].keep])
  PROVE  Moves(t, "drop", None, th[t].keep, th[t].then)
<1>1. /\ "drop" \in Places /\ "drop" \notin ObjPlaces /\ "drop" \in KeepPlaces
      /\ "drop" \in ThenPlaces
  BY DEF Places, ObjPlaces, KeepPlaces, ThenPlaces
<1>2. None \in Acceptors \cup {None} /\ th[t].keep \in Sessions \cup {None}
      /\ th[t].keep # None
  BY AcceptAssumption
<1> QED BY <1>1, <1>2, MovesOK

(* The thread goes on to ReWaiting with nothing in its hands. *)
LEMMA RewaitRecMoves ==
  ASSUME TypeInv, NEW t \in Threads,
         Set(t, [th[t] EXCEPT !.at = "rewait", !.obj = None, !.keep = None])
  PROVE  Moves(t, "rewait", None, None, th[t].then)
<1>1. /\ "rewait" \in Places /\ "rewait" \notin ObjPlaces /\ "rewait" \notin KeepPlaces
      /\ "rewait" \in ThenPlaces
  BY DEF Places, ObjPlaces, KeepPlaces, ThenPlaces
<1>2. None \in Acceptors \cup {None} /\ None \in Sessions \cup {None}
  OBVIOUS
<1> QED BY <1>1, <1>2, MovesOK

LEMMA ArmMoves ==
  ASSUME TypeInv, NEW t \in Threads, Arm(t)
  PROVE  /\ th[t].at = "arm" /\ th[t].keep \in Sessions /\ th[t].obj \in Acceptors
         /\ Moves(t, "drop", None, th[t].keep, th[t].then)
<1>1. th[t].at = "arm" /\ th[t].keep \in Sessions /\ th[t].obj \in Acceptors
  BY Fields DEF Arm, At, KeepPlaces, ObjPlaces
<1>2. [th[t] EXCEPT !.at = "drop", !.obj = None]
        = [th[t] EXCEPT !.at = "drop", !.obj = None, !.keep = th[t].keep]
  BY Fields
<1>3. Set(t, [th[t] EXCEPT !.at = "drop", !.obj = None, !.keep = th[t].keep])
  BY <1>2 DEF Arm
<1>4. Moves(t, "drop", None, th[t].keep, th[t].then)
  BY <1>1, <1>3, DropRecMoves
<1> QED BY <1>1, <1>4

LEMMA InsertMoves ==
  ASSUME TypeInv, NEW t \in Threads, InsertWait(t)
  PROVE  /\ th[t].at = "insert" /\ th[t].keep = None /\ th[t].then = None
         /\ th[t].obj \in Acceptors
         /\ Moves(t, "rewait", None, None, None)
<1>1. /\ th[t].at = "insert" /\ th[t].keep = None /\ th[t].obj \in Acceptors
      /\ th[t].then = None
  BY Fields DEF InsertWait, At, KeepPlaces, ObjPlaces, ThenPlaces
<1>2. [th[t] EXCEPT !.at = "rewait", !.obj = None]
        = [th[t] EXCEPT !.at = "rewait", !.obj = None, !.keep = None]
  BY <1>1, Fields
<1>3. Set(t, [th[t] EXCEPT !.at = "rewait", !.obj = None, !.keep = None])
  BY <1>2 DEF InsertWait
<1>4. Moves(t, "rewait", None, None, th[t].then)
  BY <1>3, RewaitRecMoves
<1> QED BY <1>1, <1>4

LEMMA PushMoves ==
  ASSUME TypeInv, NEW t \in Threads, PushSession(t)
  PROVE  /\ th[t].at = "push" /\ th[t].keep \in Sessions /\ th[t].obj = None
         /\ Moves(t, "rewait", None, None, th[t].then)
<1>1. th[t].at = "push" /\ th[t].keep \in Sessions /\ th[t].obj = None
  BY Fields DEF PushSession, At, KeepPlaces, ObjPlaces
<1>2. [th[t] EXCEPT !.at = "rewait", !.keep = None]
        = [th[t] EXCEPT !.at = "rewait", !.obj = None, !.keep = None]
  BY <1>1, Fields
<1>3. Set(t, [th[t] EXCEPT !.at = "rewait", !.obj = None, !.keep = None])
  BY <1>2 DEF PushSession
<1>4. Moves(t, "rewait", None, None, th[t].then)
  BY <1>3, RewaitRecMoves
<1> QED BY <1>1, <1>4

(* ReWaiting and its locked sections; a thread that is done goes on to the
   acceptor of the call around. *)
LEMMA RewaitMoves ==
  ASSUME TypeInv, NEW t \in Threads, ReWaiting(t) \/ Look(t)
  PROVE  /\ th[t].obj = None /\ th[t].keep = None /\ th[t].at \in {"rewait", "look"}
         /\ \/ \E p \in {"look", "take"} : Moves(t, p, None, None, th[t].then)
            \/ Moves(t, IF th[t].then = None THEN "idle" ELSE "error", th[t].then, None, None)
<1>1. th[t].at \in {"rewait", "look"} /\ th[t].obj = None /\ th[t].keep = None
  BY Fields DEF ReWaiting, Look, At, KeepPlaces, ObjPlaces
<1>2. CASE Finish(t)
  BY <1>1, <1>2, FinishMoves
<1>3. ASSUME NEW p \in {"look", "take"}, Goto(t, p)
      PROVE  Moves(t, p, None, None, th[t].then)
  <2>1. Moves(t, p, th[t].obj, th[t].keep, th[t].then)
    BY <1>1, <1>3, GotoMoves DEF Places, ObjPlaces, KeepPlaces, ThenPlaces
  <2> QED BY <1>1, <2>1
<1> QED BY <1>1, <1>2, <1>3 DEF ReWaiting, Look

LEMMA TakeMoves ==
  ASSUME TypeInv, NEW t \in Threads, Take(t)
  PROVE  /\ th[t].at = "take" /\ th[t].obj = None /\ th[t].keep = None
         /\ \/ /\ free' = free
               /\ Moves(t, IF th[t].then = None THEN "idle" ELSE "error",
                        th[t].then, None, None)
            \/ \E s \in free : free' = free \ {s} /\ Moves(t, "pick", None, s, th[t].then)
<1>1. th[t].at = "take" /\ th[t].obj = None /\ th[t].keep = None
  BY Fields DEF Take, At, KeepPlaces, ObjPlaces
<1>2. CASE Finish(t) /\ UNCHANGED free
  BY <1>1, <1>2, FinishMoves
<1>3. ASSUME NEW s \in free, Set(t, [th[t] EXCEPT !.at = "pick", !.keep = s])
      PROVE  Moves(t, "pick", None, s, th[t].then)
  <2>1. [th[t] EXCEPT !.at = "pick", !.keep = s]
          = [th[t] EXCEPT !.at = "pick", !.obj = None, !.keep = s]
    BY <1>1, Fields
  <2>2. s \in Sessions /\ s # None
    BY AcceptAssumption DEF TypeInv
  <2>3. Set(t, [th[t] EXCEPT !.at = "pick", !.obj = None, !.keep = s])
    BY <1>3, <2>1
  <2> QED BY <1>1, <2>2, <2>3, MovesOK DEF Places, ObjPlaces, KeepPlaces, ThenPlaces
<1> QED BY <1>1, <1>2, <1>3 DEF Take

LEMMA PickMoves ==
  ASSUME TypeInv, NEW t \in Threads, Pick(t)
  PROVE  /\ th[t].at = "pick" /\ th[t].obj = None /\ th[t].keep \in Sessions
         /\ \/ waitQueue' = waitQueue /\ Moves(t, "drop", None, th[t].keep, th[t].then)
            \/ /\ waitQueue # <<>> /\ waitQueue' = Tail(waitQueue)
               /\ Head(waitQueue) \in Acceptors
               /\ Moves(t, "give", Head(waitQueue), th[t].keep, th[t].then)
<1>1. th[t].at = "pick" /\ th[t].obj = None /\ th[t].keep \in Sessions
  BY Fields DEF Pick, At, KeepPlaces, ObjPlaces
<1>2. CASE waitQueue = <<>>
  <2>1. Moves(t, "drop", th[t].obj, th[t].keep, th[t].then)
    BY <1>1, <1>2, GotoMoves DEF Pick, Places, ObjPlaces, KeepPlaces, ThenPlaces
  <2> QED BY <1>1, <1>2, <2>1 DEF Pick
<1>3. CASE waitQueue # <<>>
  <2>1. Head(waitQueue) \in Acceptors
    BY <1>3, HeadTailProperties DEF TypeInv
  <2> DEFINE o == Head(waitQueue)
  <2>2. waitQueue' = Tail(waitQueue) /\ Set(t, [th[t] EXCEPT !.at = "give", !.obj = o])
    BY <1>3 DEF Pick
  <2> HIDE DEF o
  <2>3. [th[t] EXCEPT !.at = "give", !.obj = o]
          = [th[t] EXCEPT !.at = "give", !.obj = o, !.keep = th[t].keep]
    BY <1>1, Fields
  <2>4. o \in Acceptors /\ o # None /\ th[t].keep # None
    BY <1>1, <2>1, AcceptAssumption DEF o
  <2>5. Set(t, [th[t] EXCEPT !.at = "give", !.obj = o, !.keep = th[t].keep])
    BY <2>2, <2>3
  <2>6. Moves(t, "give", o, th[t].keep, th[t].then)
    <3>1. /\ "give" \in Places /\ "give" \in ObjPlaces /\ "give" \in KeepPlaces
          /\ "give" \in ThenPlaces
      BY DEF Places, ObjPlaces, KeepPlaces, ThenPlaces
    <3>2. o \in Acceptors \cup {None} /\ th[t].keep \in Sessions \cup {None}
      BY <1>1, <2>4
    <3> QED BY <2>4, <2>5, <3>1, <3>2, MovesOK
  <2> QED BY <1>1, <1>3, <2>1, <2>2, <2>6 DEF o
<1> QED BY <1>2, <1>3

LEMMA GiveMoves ==
  ASSUME TypeInv, NEW t \in Threads, Give(t)
  PROVE  /\ th[t].at = "give" /\ th[t].obj \in Acceptors /\ th[t].keep \in Sessions
         /\ \/ stop /\ holds' = holds /\ Moves(t, "drop", None, th[t].keep, th[t].then)
            \/ /\ holds' = [holds EXCEPT ![th[t].obj] = th[t].keep]
               /\ Moves(t, "arm", th[t].obj, th[t].keep, th[t].then)
<1>1. th[t].at = "give" /\ th[t].obj \in Acceptors /\ th[t].keep \in Sessions
  BY Fields DEF Give, At, KeepPlaces, ObjPlaces
<1>2. CASE stop
  <2>1. [th[t] EXCEPT !.at = "drop", !.obj = None]
          = [th[t] EXCEPT !.at = "drop", !.obj = None, !.keep = th[t].keep]
    BY Fields
  <2>2. Set(t, [th[t] EXCEPT !.at = "drop", !.obj = None, !.keep = th[t].keep])
    BY <1>2, <2>1 DEF Give
  <2>3. Moves(t, "drop", None, th[t].keep, th[t].then)
    BY <1>1, <2>2, DropRecMoves
  <2> QED BY <1>1, <1>2, <2>3 DEF Give
<1>3. CASE ~stop
  <2>1. Moves(t, "arm", th[t].obj, th[t].keep, th[t].then)
    BY <1>1, <1>3, GotoMoves DEF Give, Places, ObjPlaces, KeepPlaces, ThenPlaces
  <2> QED BY <1>1, <1>3, <2>1 DEF Give
<1> QED BY <1>2, <1>3

-----------------------------------------------------------------------------
(* A thread that keeps its acceptors, or gives them up after the stop. *)
LEMMA SameTracks ==
  ASSUME Placed, Somewhere, NEW t \in Threads, NEW p, NEW o, NEW s, NEW then,
         Moves(t, p, o, s, then), {o, then} \ {None} \subseteq Has(t),
         stop \/ Has(t) \subseteq {o, then}, o # None => o # then,
         UNCHANGED <<acceptEx, waitQueue, main>>
  PROVE  Placed' /\ Somewhere'
<1>1. /\ Has(t)' = {o, then} \ {None}
      /\ \A u \in Threads : u # t => Has(u)' = Has(u)
  BY DEF Moves, Has
<1>2. \A q : Queued(q)' <=> Queued(q)
  BY DEF Queued
<1>3. Placed'
  <2>1. \A u \in Threads : th'[u].obj # None => th'[u].obj # th'[u].then
    BY DEF Placed, Moves
  <2>2. \A u, v \in Threads : u # v => Has(u)' \cap Has(v)' = {}
    BY <1>1 DEF Placed
  <2>3. \A u \in Threads : \A q \in Has(u)' : acceptEx[q] = "none" /\ ~Queued(q)
    BY <1>1 DEF Placed
  <2> QED BY <1>2, <2>1, <2>2, <2>3 DEF Placed
<1>4. Somewhere'
  <2>1. stop' <=> stop
    BY DEF stop
  <2> QED BY <1>1, <1>2, <2>1 DEF Somewhere, Has
<1> QED BY <1>3, <1>4

(* What one thread does to the sessions, said field by field. *)
LEMMA MovedFields ==
  ASSUME NEW t \in Threads, NEW p, NEW o, NEW s, NEW then, Moves(t, p, o, s, then)
  PROVE  /\ th'[t].at = p /\ th'[t].obj = o /\ th'[t].keep = s
         /\ \A u \in Threads : u # t => th'[u] = th[u]
BY DEF Moves

LEMMA MovedTypes ==
  ASSUME TypeInv, NEW t \in Threads, NEW p, NEW o, NEW s, NEW then,
         Moves(t, p, o, s, then), p \notin {"arm", "clear"},
         UNCHANGED <<holds, acceptEx, waitQueue, main>>,
         free' \subseteq Sessions, live' \subseteq Sessions
  PROVE  TypeInv'
BY DEF TypeInv, Moves

(* The threads whose only change is where they are, none of them with a session
   of its own before or after. *)
LEMMA QuietAlone ==
  ASSUME Alone, NEW t \in Threads, NEW p, NEW o, NEW then,
         th[t].keep = None, Moves(t, p, o, None, then),
         th[t].at \notin {"arm", "clear"}, p \notin {"push", "pick", "give"},
         UNCHANGED <<free, live, holds, acceptEx>>
  PROVE  Alone'
<1>1. \A u \in Threads : th'[u].keep = th[u].keep
  BY DEF Moves
<1>2. \A s \in Sessions : Held(s)' <=> Held(s)
  BY <1>1 DEF Held
<1>3. \A q \in Acceptors : Uses(q) => Uses(q)'
  BY DEF Moves, Uses
<1> QED BY <1>1, <1>2, <1>3 DEF Alone, SessionsConserved, Moves

LEMMA RearmStep ==
  ASSUME Inv, NEW t \in Threads, ErrorRearms(t) \/ AcceptChecks(t)
  PROVE  Inv'
<1> USE DEF Inv
<1>1. /\ th[t].keep = None /\ th[t].then = None /\ th[t].at \in {"error", "accept"}
      /\ UNCHANGED <<poolVars, acceptEx, waitQueue, main>>
  BY RearmMoves DEF ErrorRearms, AcceptChecks
<1>2. PICK p, o : /\ p \in {"idle", "accept", "pop"} /\ Moves(t, p, o, None, None)
                  /\ o = th[t].obj \/ (stop /\ o = None)
  BY RearmMoves
<1>3. TypeInv'
  BY <1>1, <1>2, MovedTypes DEF poolVars, TypeInv
<1>4. Placed' /\ Somewhere'
  BY <1>1, <1>2, SameTracks DEF Has
<1>5. Alone'
  BY <1>1, <1>2, QuietAlone DEF poolVars
<1> QED BY <1>3, <1>4, <1>5

LEMMA RewaitStep ==
  ASSUME Inv, NEW t \in Threads, ReWaiting(t) \/ Look(t)
  PROVE  Inv'
<1> USE DEF Inv
<1>1. /\ th[t].obj = None /\ th[t].keep = None /\ th[t].at \in {"rewait", "look"}
      /\ UNCHANGED <<poolVars, acceptEx, waitQueue, main>>
  BY RewaitMoves DEF ReWaiting, Look
<1>2. PICK p, o, then :
        /\ p \in {"look", "take", "idle", "error"} /\ Moves(t, p, o, None, then)
        /\ \/ o = None /\ then = th[t].then
           \/ o = th[t].then /\ then = None
  BY RewaitMoves
<1>3. TypeInv'
  BY <1>1, <1>2, MovedTypes DEF poolVars, TypeInv
<1>4. Placed' /\ Somewhere'
  BY <1>1, <1>2, SameTracks DEF Has
<1>5. Alone'
  BY <1>1, <1>2, QuietAlone DEF poolVars
<1> QED BY <1>3, <1>4, <1>5

LEMMA ExitStep ==
  ASSUME Inv, NEW t \in Threads, ListenerExits(t)
  PROVE  Inv'
<1> USE DEF Inv
<1>1. /\ th[t].at = "idle" /\ th[t].obj = None /\ th[t].keep = None /\ th[t].then = None
      /\ UNCHANGED <<poolVars, acceptEx, waitQueue, main>>
  BY ReadyFacts DEF ListenerExits
<1>2. Moves(t, "gone", None, None, None)
  <2>1. Moves(t, "gone", th[t].obj, th[t].keep, th[t].then)
    BY <1>1, GotoMoves DEF ListenerExits, Places, ObjPlaces, KeepPlaces
  <2> QED BY <1>1, <2>1
<1>3. TypeInv'
  <2>1. free' \subseteq Sessions /\ live' \subseteq Sessions
    BY <1>1 DEF poolVars, TypeInv
  <2>2. "gone" \notin {"arm", "clear"} /\ UNCHANGED <<holds, acceptEx, waitQueue, main>>
    BY <1>1 DEF poolVars
  <2> QED BY <1>2, <2>1, <2>2, MovedTypes
<1>4. Placed' /\ Somewhere'
  BY <1>1, <1>2, SameTracks DEF Has
<1>5. Alone'
  BY <1>1, <1>2, QuietAlone DEF poolVars
<1> QED BY <1>3, <1>4, <1>5

(* A session that its thread lets go of: nobody else has it when it is to be
   pushed, and somebody has when it is not. *)
LetsGo(t, s, last, p, o, k, then) ==
  /\ Moves(t, p, o, k, then) /\ k = IF last THEN s ELSE None
  /\ p \notin {"pick", "give"} /\ (p = "push" => last)
  /\ th[t].keep \in {s, None} /\ s \notin free
  /\ free' = free /\ live' \in {live, live \ {s}}
  /\ holds' \in [Acceptors -> Sessions \cup {None}]
  /\ \A q \in Acceptors :
       holds'[q] = holds[q] \/ (holds[q] = s /\ holds'[q] = None)
  /\ \A q \in Acceptors : holds'[q] # None =>
       \/ acceptEx'[q] # "none" /\ holds'[q] \notin live
       \/ \E u \in Threads : /\ u # t /\ th[u].obj = q
                             /\ \/ th[u].at = "clear"
                                \/ th[u].at = "arm" /\ holds'[q] \notin live
  /\ last <=> /\ s \notin live'
              /\ \A q \in Acceptors : holds'[q] # s
              /\ \A u \in Threads : u # t => th[u].keep # s

LEMMA DroppedAlone ==
  ASSUME Alone, TypeInv, NEW t \in Threads, NEW s \in Sessions, NEW last \in BOOLEAN,
         NEW p, NEW o, NEW k, NEW then, LetsGo(t, s, last, p, o, k, then)
  PROVE  Alone'
<1> USE DEF LetsGo
<1>1. /\ th'[t].at = p /\ th'[t].obj = o /\ th'[t].keep = k
      /\ \A u \in Threads : u # t => th'[u] = th[u]
  BY MovedFields
<1>2. s # None
  BY AcceptAssumption
<1>3. Held(s)'
  BY <1>1 DEF Held
<1>4. \A r \in Sessions : r # s => (Held(r)' <=> Held(r))
  BY <1>1, <1>2, AcceptAssumption DEF Held
<1>5. SessionsConserved'
  BY <1>3, <1>4 DEF Alone, SessionsConserved
<1>6. \A u \in Threads : th'[u].at \in {"push", "pick", "give"} =>
        /\ th'[u].keep \notin live'
        /\ \A q \in Acceptors : holds'[q] # th'[u].keep
        /\ \A v \in Threads : v # u => th'[v].keep # th'[u].keep
  <2> TAKE u \in Threads
  <2>1. CASE u = t
    BY <1>1, <2>1
  <2>2. CASE u # t
    <3>1. th[u].at \in {"push", "pick", "give"} => th[u].keep # None
      BY Fields DEF KeepPlaces
    <3> QED BY <1>1, <1>2, <2>2, <3>1 DEF Alone
  <2> QED BY <2>1, <2>2
<1>7. \A q \in Acceptors : holds'[q] # None => Uses(q)'
  BY <1>1 DEF Uses
<1> QED BY <1>5, <1>6, <1>7 DEF Alone

LEMMA DropStep ==
  ASSUME Inv, NEW t \in Threads, Drop(t)
  PROVE  Inv'
<1> USE DEF Inv
<1>s. PICK s \in Sessions : th[t].keep = s
  BY DropMoves
<1> DEFINE last == s \notin live /\ ~Elsewhere(s, None, t)
<1>1. /\ s \in Sessions /\ th[t].at = "drop" /\ th[t].obj = None
      /\ UNCHANGED <<free, live, holds, acceptEx, waitQueue, main>>
  BY <1>s, DropMoves DEF Drop, poolVars
<1>2. PICK p, o, k, then :
        /\ p \in {"push", "idle", "error"} /\ (p = "push" => last)
        /\ Moves(t, p, o, k, then) /\ k = IF last THEN s ELSE None
        /\ \/ o = None /\ then = th[t].then
           \/ o = th[t].then /\ then = None
  BY <1>s, DropMoves
<1>3. last <=> /\ s \notin live'
               /\ \A q \in Acceptors : holds'[q] # s
               /\ \A u \in Threads : u # t => th[u].keep # s
  <2>1. Acceptors \ {None} = Acceptors
    BY AcceptAssumption
  <2> QED BY <1>1, <2>1 DEF Elsewhere
<1>4. s \notin free /\ last \in BOOLEAN
  BY <1>s, <1>1 DEF Alone, SessionsConserved, Held
<1> HIDE DEF last
<1>5. TypeInv'
  BY <1>1, <1>2, MovedTypes DEF TypeInv
<1>6. Placed' /\ Somewhere'
  BY <1>1, <1>2, SameTracks DEF Has
<1>7. \A q \in Acceptors : holds'[q] # None =>
        \/ acceptEx'[q] # "none" /\ holds'[q] \notin live
        \/ \E u \in Threads : /\ u # t /\ th[u].obj = q
                              /\ \/ th[u].at = "clear"
                                 \/ th[u].at = "arm" /\ holds'[q] \notin live
  BY <1>1 DEF Alone, Uses
<1>8. /\ free' = free /\ live' \in {live, live \ {s}} /\ th[t].keep \in {s, None}
      /\ holds' \in [Acceptors -> Sessions \cup {None}] /\ th[t].keep = s
      /\ \A q \in Acceptors : holds'[q] = holds[q]
  BY <1>s, <1>1 DEF TypeInv
<1>9. Alone'
  <2>1. Alone /\ TypeInv /\ t \in Threads /\ s \in Sessions /\ last \in BOOLEAN
    BY <1>4
  <2>2. Moves(t, p, o, k, then) /\ k = IF last THEN s ELSE None
    BY <1>2
  <2>3. p \notin {"pick", "give"} /\ (p = "push" => last)
    BY <1>2
  <2>4. th[t].keep \in {s, None} /\ s \notin free
    BY <1>4, <1>s
  <2>5. free' = free /\ live' \in {live, live \ {s}} /\ holds' \in [Acceptors -> Sessions \cup {None}]
    BY <1>8
  <2>6. \A q \in Acceptors : holds'[q] = holds[q] \/ (holds[q] = s /\ holds'[q] = None)
    BY <1>8
  <2> HIDE DEF Inv
  <2>7. LetsGo(t, s, last, p, o, k, then)
    BY <2>1, <2>2, <2>3, <2>4, <2>5, <2>6, <1>3, <1>7 DEF LetsGo
  <2> QED BY <2>1, <2>7, DroppedAlone
<1> QED BY <1>5, <1>6, <1>9

LEMMA ReleaseStep ==
  ASSUME Inv, NEW t \in Threads, NEW s \in Sessions, Release(t, s)
  PROVE  Inv'
<1> USE DEF Inv
<1> DEFINE last == ~Elsewhere(s, None, t)
<1>1. /\ th[t].at = "idle" /\ th[t].obj = None /\ th[t].keep = None /\ th[t].then = None
      /\ s \in live /\ live' = live \ {s}
      /\ UNCHANGED <<free, holds, acceptEx, waitQueue, main>>
  BY ReadyFacts DEF Release
<1>2. PICK p, k : /\ p \in {"push", "idle"} /\ (p = "push" => last)
                  /\ Moves(t, p, None, k, None) /\ k = IF last THEN s ELSE None
  BY ReleaseMoves
<1>3. last <=> /\ s \notin live'
               /\ \A q \in Acceptors : holds'[q] # s
               /\ \A u \in Threads : u # t => th[u].keep # s
  <2>1. Acceptors \ {None} = Acceptors
    BY AcceptAssumption
  <2> QED BY <1>1, <2>1 DEF Elsewhere
<1>4. s \notin free /\ last \in BOOLEAN
  BY <1>1 DEF Alone, SessionsConserved, Held
<1> HIDE DEF last
<1>5. TypeInv'
  BY <1>1, <1>2, MovedTypes DEF TypeInv
<1>6. Placed' /\ Somewhere'
  BY <1>1, <1>2, SameTracks DEF Has
<1>7. \A q \in Acceptors : holds'[q] # None =>
        \/ acceptEx'[q] # "none" /\ holds'[q] \notin live
        \/ \E u \in Threads : /\ u # t /\ th[u].obj = q
                              /\ \/ th[u].at = "clear"
                                 \/ th[u].at = "arm" /\ holds'[q] \notin live
  BY <1>1 DEF Alone, Uses
<1>8. /\ free' = free /\ live' \in {live, live \ {s}} /\ th[t].keep \in {s, None}
      /\ holds' \in [Acceptors -> Sessions \cup {None}]
      /\ \A q \in Acceptors : holds'[q] = holds[q]
  BY <1>1 DEF TypeInv
<1>9. Moves(t, p, None, k, None) /\ p \notin {"pick", "give"} /\ (p = "push" => last)
      /\ k = IF last THEN s ELSE None
  BY <1>2
<1>10. \A q \in Acceptors :
         holds'[q] = holds[q] \/ (holds[q] = s /\ holds'[q] = None)
  BY <1>8
<1>11. Alone /\ TypeInv
  OBVIOUS
<1>12. Alone'
  <2>1. LetsGo(t, s, last, p, None, k, None)
    BY <1>3, <1>4, <1>7, <1>8, <1>9, <1>10 DEF LetsGo
  <2> QED BY <1>4, <1>11, <2>1, DroppedAlone
<1> QED BY <1>5, <1>6, <1>12

(* Who has acceptor o is the only one that may look at its session. *)
LEMMA OnlyOne ==
  ASSUME Placed, NEW t \in Threads, NEW o \in Acceptors, o \in Has(t)
  PROVE  /\ acceptEx[o] = "none"
         /\ \A u \in Threads : u # t => th[u].obj # o
BY AcceptAssumption DEF Placed, Has

LEMMA ExecuteClearStep ==
  ASSUME Inv, NEW t \in Threads, ExecuteClear(t)
  PROVE  Inv'
<1> USE DEF Inv
<1> DEFINE o == th[t].obj
           s == holds[o]
           last == s \notin live /\ ~Elsewhere(s, o, t)
<1>1. /\ o \in Acceptors /\ s \in Sessions /\ th[t].at = "clear"
      /\ th[t].keep = None /\ th[t].then = None
      /\ holds' = [holds EXCEPT ![o] = None]
      /\ UNCHANGED <<free, live, acceptEx, waitQueue, main>>
  BY ExecuteClearMoves DEF ExecuteClear
<1>2. PICK p, oo, k, then :
        /\ p \in {"push", "error"} /\ (p = "push" => last)
        /\ Moves(t, p, oo, k, then) /\ k = IF last THEN s ELSE None
        /\ \/ oo = None /\ then = o
           \/ oo = o /\ then = None
  BY ExecuteClearMoves
<1>o. o # None /\ s # None
  BY <1>1, AcceptAssumption
<1>h. /\ holds'[o] = None /\ \A q \in Acceptors : q # o => holds'[q] = holds[q]
      /\ holds' \in [Acceptors -> Sessions \cup {None}]
  BY <1>1 DEF TypeInv
<1>3. last <=> /\ s \notin live'
               /\ \A q \in Acceptors : holds'[q] # s
               /\ \A u \in Threads : u # t => th[u].keep # s
  BY <1>1, <1>o, <1>h DEF Elsewhere
<1>4. s \notin free /\ last \in BOOLEAN
  BY <1>1 DEF Alone, SessionsConserved, Held
<1>e. acceptEx[o] = "none" /\ \A u \in Threads : u # t => th[u].obj # o
  BY <1>1, <1>o, OnlyOne DEF Has
<1> HIDE DEF last
<1>5. TypeInv'
  BY <1>1, <1>2, <1>h, <1>e DEF TypeInv, Moves
<1>6. Placed' /\ Somewhere'
  BY <1>1, <1>2, <1>o, SameTracks DEF Has
<1>x. s = holds[o]
  OBVIOUS
<1> HIDE DEF s
<1>7. \A q \in Acceptors : holds'[q] # None =>
        \/ acceptEx'[q] # "none" /\ holds'[q] \notin live
        \/ \E u \in Threads : /\ u # t /\ th[u].obj = q
                              /\ \/ th[u].at = "clear"
                                 \/ th[u].at = "arm" /\ holds'[q] \notin live
  BY <1>1, <1>h DEF Alone, Uses
<1>8. \A q \in Acceptors : holds'[q] = holds[q] \/ (holds[q] = s /\ holds'[q] = None)
  BY <1>h, <1>x
<1>9. Alone'
  <2>1. LetsGo(t, s, last, p, oo, k, then)
    BY <1>1, <1>2, <1>3, <1>4, <1>7, <1>8, <1>h DEF LetsGo
  <2>2. Alone /\ TypeInv /\ s \in Sessions /\ last \in BOOLEAN
    BY <1>1, <1>4
  <2> QED BY <2>1, <2>2, DroppedAlone
<1> QED BY <1>5, <1>6, <1>9

(* A listener takes the acceptor whose AcceptEx completed. *)
LEMMA TakeTracks ==
  ASSUME TypeInv, Placed, Somewhere, NEW t \in Threads, NEW q \in Acceptors,
         NEW p, NEW o, NEW s, NEW then,
         Has(t) = {}, Moves(t, p, o, s, then), {o, then} = {q, None},
         acceptEx[q] # "none", acceptEx' = [acceptEx EXCEPT ![q] = "none"],
         UNCHANGED <<waitQueue, main>>
  PROVE  Placed' /\ Somewhere'
<1>1. /\ Has(t)' = {q}
      /\ \A u \in Threads : u # t => Has(u)' = Has(u) /\ q \notin Has(u)
      /\ \A u \in Threads : th'[u].obj # None => th'[u].obj # th'[u].then
  <2>1. q # None
    BY AcceptAssumption
  <2>2. Has(t)' = {q}
    BY <2>1 DEF Moves, Has
  <2>3. \A u \in Threads : u # t => Has(u)' = Has(u)
    BY DEF Moves, Has
  <2>4. \A u \in Threads : q \notin Has(u)
    BY DEF Placed
  <2>5. \A u \in Threads : u # t =>
          (th'[u].obj # None => th'[u].obj # th'[u].then)
    BY DEF Moves, Placed
  <2>6. th'[t].obj = o /\ th'[t].then = then
    BY DEF Moves
  <2>7. th'[t].obj # None => th'[t].obj # th'[t].then
    BY <2>1, <2>6
  <2> QED BY <2>2, <2>3, <2>4, <2>5, <2>7
<1>2. \A r : Queued(r)' <=> Queued(r)
  BY DEF Queued
<1>3. /\ acceptEx'[q] = "none" /\ \A r \in Acceptors : r # q => acceptEx'[r] = acceptEx[r]
      /\ ~Queued(q)
  BY DEF TypeInv, Placed, Queued
<1>4. Placed'
  <2>1. \A u, v \in Threads : u # v => Has(u)' \cap Has(v)' = {}
    BY <1>1 DEF Placed
  <2>2. \A u \in Threads : Has(u) \subseteq Acceptors
    BY Fields DEF Has
  <2>3. \A u \in Threads : \A r \in Has(u)' : acceptEx'[r] = "none" /\ ~Queued(r)
    BY <1>1, <1>3, <2>2 DEF Placed
  <2>4. \A i \in 1 .. Len(waitQueue) : waitQueue[i] \in Acceptors
    BY ElementOfSeq DEF TypeInv
  <2>5. \A i \in 1 .. Len(waitQueue) : acceptEx'[waitQueue[i]] = "none"
    BY <1>3, <2>4 DEF Placed
  <2> QED BY <1>1, <1>2, <2>1, <2>3, <2>5 DEF Placed
<1>5. Somewhere'
  <2>1. stop' <=> stop
    BY DEF stop
  <2>2. \A r \in Acceptors : r \in Has(t)' \/ acceptEx'[r] = acceptEx[r]
    BY <1>1, <1>3
  <2>3. \A u \in Threads : Has(u) \subseteq Has(u)'
    BY <1>1
  <2> QED BY <1>2, <2>1, <2>2, <2>3 DEF Somewhere
<1> QED BY <1>4, <1>5

LEMMA ErrorStep ==
  ASSUME Inv, NEW t \in Threads, NEW o \in Acceptors, Error(t, o)
  PROVE  Inv'
<1> USE DEF Inv
<1> DEFINE s == holds[o]
           last == ~Elsewhere(s, o, t)
<1>1. /\ s \in Sessions /\ th[t].at = "idle"
      /\ th[t].obj = None /\ th[t].keep = None /\ th[t].then = None
      /\ acceptEx[o] = "failed" /\ acceptEx' = [acceptEx EXCEPT ![o] = "none"]
      /\ holds' = [holds EXCEPT ![o] = None]
      /\ UNCHANGED <<free, live, waitQueue, main>>
  BY ErrorMoves, ReadyFacts DEF Error
<1>2. PICK p, oo, k, then :
        /\ p \in {"push", "error"} /\ (p = "push" => last)
        /\ Moves(t, p, oo, k, then) /\ k = IF last THEN s ELSE None
        /\ \/ oo = None /\ then = o
           \/ oo = o /\ then = None
  BY ErrorMoves
<1>o. o # None /\ s # None
  BY <1>1, AcceptAssumption
<1>h. /\ holds'[o] = None /\ \A q \in Acceptors : q # o => holds'[q] = holds[q]
      /\ holds' \in [Acceptors -> Sessions \cup {None}]
      /\ acceptEx'[o] = "none"
      /\ \A q \in Acceptors : q # o => acceptEx'[q] = acceptEx[q]
  BY <1>1 DEF TypeInv
<1>e. \A u \in Threads : o \notin Has(u)
  BY <1>1 DEF Placed
<1>3. last <=> /\ s \notin live'
               /\ \A q \in Acceptors : holds'[q] # s
               /\ \A u \in Threads : u # t => th[u].keep # s
  <2>1. s \notin live
    BY <1>1, <1>o, <1>e, AcceptAssumption DEF Alone, Uses, Has
  <2> QED BY <1>1, <1>o, <1>h, <2>1 DEF Elsewhere
<1>4. s \notin free /\ last \in BOOLEAN
  BY <1>1 DEF Alone, SessionsConserved, Held
<1> HIDE DEF last
<1>5. TypeInv'
  <2>1. \A u \in Threads : u # t => th[u].obj # o
    BY <1>o, <1>e DEF Has
  <2> QED BY <1>1, <1>2, <1>h, <2>1 DEF TypeInv, Moves
<1>6. Placed' /\ Somewhere'
  <2>1. Has(t) = {} /\ {oo, then} = {o, None} /\ acceptEx[o] # "none"
    BY <1>1, <1>2 DEF Has
  <2>2. TypeInv /\ Placed /\ Somewhere /\ Moves(t, p, oo, k, then)
    BY <1>2
  <2> QED BY <1>1, <2>1, <2>2, TakeTracks
<1>x. s = holds[o]
  OBVIOUS
<1> HIDE DEF s
<1>7. \A q \in Acceptors : holds'[q] # None =>
        \/ acceptEx'[q] # "none" /\ holds'[q] \notin live
        \/ \E u \in Threads : /\ u # t /\ th[u].obj = q
                              /\ \/ th[u].at = "clear"
                                 \/ th[u].at = "arm" /\ holds'[q] \notin live
  BY <1>1, <1>h DEF Alone, Uses
<1>8. \A q \in Acceptors : holds'[q] = holds[q] \/ (holds[q] = s /\ holds'[q] = None)
  BY <1>h, <1>x
<1>9. Alone'
  <2>1. LetsGo(t, s, last, p, oo, k, then)
    BY <1>1, <1>2, <1>3, <1>4, <1>7, <1>8, <1>h DEF LetsGo
  <2>2. Alone /\ TypeInv /\ s \in Sessions /\ last \in BOOLEAN
    BY <1>1, <1>4
  <2> QED BY <2>1, <2>2, DroppedAlone
<1> QED BY <1>5, <1>6, <1>9

LEMMA ExecuteStep ==
  ASSUME Inv, NEW t \in Threads, NEW o \in Acceptors, Execute(t, o)
  PROVE  Inv'
<1> USE DEF Inv
<1>1. /\ th[t].at = "idle" /\ th[t].obj = None /\ th[t].keep = None /\ th[t].then = None
      /\ Moves(t, "clear", o, None, None)
      /\ acceptEx[o] = "accepted" /\ acceptEx' = [acceptEx EXCEPT ![o] = "none"]
      /\ live' = live \cup {holds[o]}
      /\ UNCHANGED <<free, holds, waitQueue, main>>
  BY ReadyFacts, ExecuteMoves DEF Execute
<1>2. /\ holds[o] \in Sessions /\ holds[o] # None /\ o # None
      /\ acceptEx'[o] = "none"
      /\ \A q \in Acceptors : q # o => acceptEx'[q] = acceptEx[q]
  BY <1>1, AcceptAssumption DEF TypeInv
<1>3. TypeInv'
  BY <1>1, <1>2 DEF TypeInv, Moves
<1>4. Placed' /\ Somewhere'
  BY <1>1, TakeTracks DEF Has
<1>5. /\ th'[t].at = "clear" /\ th'[t].obj = o /\ th'[t].keep = None
      /\ \A u \in Threads : u # t => th'[u] = th[u]
      /\ \A u \in Threads : th'[u].keep = th[u].keep
  BY <1>1 DEF Moves
<1>6. \A q \in Acceptors : holds'[q] # None => Uses(q)'
  <2> SUFFICES ASSUME NEW q \in Acceptors, holds[q] # None, q # o
               PROVE  Uses(q)'
    BY <1>1, <1>5 DEF Uses
  <2>1. holds[q] # holds[o]
    BY <1>2 DEF Alone, SessionsConserved
  <2>2. CASE acceptEx[q] # "none" /\ holds[q] \notin live
    BY <1>1, <1>2, <2>1, <2>2 DEF Uses
  <2>3. ASSUME NEW u \in Threads, th[u].obj = q,
               th[u].at = "clear" \/ (th[u].at = "arm" /\ holds[q] \notin live)
        PROVE  Uses(q)'
    <3>1. u # t
      BY <1>1, <2>3
    <3> QED BY <1>1, <1>5, <2>1, <2>3, <3>1 DEF Uses
  <2> QED BY <2>2, <2>3 DEF Alone, Uses
<1>7. \A s \in Sessions : Held(s)' <=> Held(s)
  BY <1>1, <1>5 DEF Held
<1>8. Alone'
  BY <1>1, <1>5, <1>6, <1>7 DEF Alone, SessionsConserved
<1> QED BY <1>3, <1>4, <1>8

(* An acceptor in the hands of a thread that is not at work with it has no
   session. *)
LEMMA EmptyHanded ==
  ASSUME Placed, Alone, NEW t \in Threads, th[t].obj \in Acceptors,
         th[t].at \notin {"arm", "clear"}
  PROVE  holds[th[t].obj] = None
<1>1. th[t].obj \in Has(t)
  BY AcceptAssumption DEF Has
<1> QED BY <1>1, OnlyOne DEF Alone, Uses

LEMMA AcceptPopsStep ==
  ASSUME Inv, NEW t \in Threads, AcceptPops(t)
  PROVE  Inv'
<1> USE DEF Inv
<1>1. /\ th[t].at = "pop" /\ th[t].keep = None /\ th[t].obj \in Acceptors
      /\ th[t].then = None
      /\ UNCHANGED <<live, acceptEx, waitQueue, main>>
  BY AcceptPopsMoves DEF AcceptPops
<1>2. CASE Moves(t, "insert", th[t].obj, None, None) /\ UNCHANGED <<free, holds>>
  <2>1. TypeInv'
    <3>1. free' \subseteq Sessions /\ live' \subseteq Sessions
      BY <1>1, <1>2 DEF TypeInv
    <3>2. "insert" \notin {"arm", "clear"}
      OBVIOUS
    <3> QED BY <1>1, <1>2, <3>1, <3>2, MovedTypes
  <2>2. Placed' /\ Somewhere'
    BY <1>1, <1>2, SameTracks DEF Has
  <2>3. Alone'
    BY <1>1, <1>2, QuietAlone
  <2> QED BY <2>1, <2>2, <2>3
<1>3. ASSUME NEW s \in free, Moves(t, "arm", th[t].obj, s, None), free' = free \ {s},
             holds' = [holds EXCEPT ![th[t].obj] = s]
      PROVE  Inv'
  <2> DEFINE o == th[t].obj
  <2>1. /\ s \in Sessions /\ s # None /\ ~Held(s) /\ holds[o] = None
    BY <1>1, EmptyHanded, AcceptAssumption DEF TypeInv, Alone, SessionsConserved
  <2>2. /\ holds'[o] = s /\ \A q \in Acceptors : q # o => holds'[q] = holds[q]
        /\ holds' \in [Acceptors -> Sessions \cup {None}]
    BY <1>1, <1>3, <2>1 DEF TypeInv
  <2>3. /\ th'[t].at = "arm" /\ th'[t].obj = o /\ th'[t].keep = s
        /\ \A u \in Threads : u # t => th'[u] = th[u]
    BY <1>3 DEF Moves
  <2>4. TypeInv'
    BY <1>1, <1>3, <2>1, <2>2, <2>3 DEF TypeInv, Moves
  <2>5. Placed' /\ Somewhere'
    BY <1>1, <1>3, SameTracks DEF Has
  <2> HIDE DEF o
  <2>6. Held(s)' /\ \A r \in Sessions : r # s => (Held(r)' <=> Held(r))
    BY <1>1, <2>1, <2>2, <2>3, AcceptAssumption DEF Held
  <2>7. s \notin live /\ \A q \in Acceptors : holds[q] # s
    BY <2>1 DEF Held
  <2>8. \A q \in Acceptors : holds'[q] # None => Uses(q)'
    <3> TAKE q \in Acceptors
    <3>1. CASE q = o
      BY <1>1, <2>2, <2>3, <2>7, <3>1 DEF Uses
    <3>2. CASE q # o
      BY <1>1, <2>2, <2>3, <3>2 DEF Uses, Alone
    <3> QED BY <3>1, <3>2
  <2>9. SessionsConserved'
    <3>1. \A r \in Sessions : r \in free' <=> ~Held(r)'
      BY <1>3, <2>6 DEF Alone, SessionsConserved
    <3>2. \A q, r \in Acceptors : holds'[q] # None /\ holds'[q] = holds'[r] => q = r
      BY <2>2, <2>7 DEF Alone, SessionsConserved
    <3> QED BY <3>1, <3>2 DEF SessionsConserved
  <2>10. \A u \in Threads : th'[u].at \in {"push", "pick", "give"} =>
           /\ th'[u].keep \notin live'
           /\ \A q \in Acceptors : holds'[q] # th'[u].keep
           /\ \A v \in Threads : v # u => th'[v].keep # th'[u].keep
    <3> SUFFICES ASSUME NEW u \in Threads, u # t, th[u].at \in {"push", "pick", "give"}
                 PROVE  /\ th[u].keep \notin live
                        /\ \A q \in Acceptors : holds'[q] # th[u].keep
                        /\ \A v \in Threads : v # u => th'[v].keep # th[u].keep
      BY <1>1, <2>3
    <3>1. th[u].keep # s
      BY <2>1 DEF Held
    <3> QED BY <2>2, <2>3, <3>1 DEF Alone
  <2>11. Alone'
    BY <2>8, <2>9, <2>10 DEF Alone
  <2> QED BY <2>4, <2>5, <2>11
<1> QED BY <1>2, <1>3, AcceptPopsMoves

LEMMA ArmStep ==
  ASSUME Inv, NEW t \in Threads, Arm(t)
  PROVE  Inv'
<1> USE DEF Inv
<1> DEFINE o == th[t].obj
<1>1. /\ th[t].at = "arm" /\ th[t].keep \in Sessions /\ o \in Acceptors /\ o # None
      /\ Moves(t, "drop", None, th[t].keep, th[t].then)
      /\ UNCHANGED <<free, live, holds, waitQueue, main>>
  BY ArmMoves, AcceptAssumption DEF Arm, poolVars
<1>2. PICK result \in {"armed", "refused"} : acceptEx' = [acceptEx EXCEPT ![o] = result]
  BY DEF Arm
<1>3. /\ acceptEx'[o] = result
      /\ \A q \in Acceptors : q # o => acceptEx'[q] = acceptEx[q]
      /\ acceptEx' \in [Acceptors -> {"none", "armed", "accepted", "failed", "refused"}]
  BY <1>1, <1>2 DEF TypeInv
<1>4. /\ acceptEx[o] = "none" /\ ~Queued(o) /\ o # th[t].then
      /\ \A u \in Threads : u # t => o \notin Has(u) /\ th[u].obj # o
  BY <1>1 DEF Placed, Has
<1>5. /\ th'[t].at = "drop" /\ th'[t].obj = None /\ th'[t].keep = th[t].keep
      /\ th'[t].then = th[t].then
      /\ \A u \in Threads : u # t => th'[u] = th[u]
      /\ \A u \in Threads : th'[u].keep = th[u].keep
  BY <1>1 DEF Moves
<1>6. TypeInv'
  BY <1>1, <1>3, <1>5 DEF TypeInv, Moves
<1> HIDE DEF o
<1>7. /\ Has(t)' = Has(t) \ {o}
      /\ \A u \in Threads : u # t => Has(u)' = Has(u)
      /\ \A r : Queued(r)' <=> Queued(r)
  BY <1>1, <1>4, <1>5 DEF Has, Queued, o
<1>8. Placed'
  <2>1. \A u \in Threads : th'[u].obj # None => th'[u].obj # th'[u].then
    BY <1>5 DEF Placed
  <2>2. \A u, v \in Threads : u # v => Has(u)' \cap Has(v)' = {}
    BY <1>7 DEF Placed
  <2>3. \A u \in Threads : Has(u) \subseteq Acceptors
    BY Fields DEF Has
  <2>4. \A u \in Threads : \A r \in Has(u)' : acceptEx'[r] = "none" /\ ~Queued(r)'
    BY <1>3, <1>4, <1>7, <2>3 DEF Placed
  <2>5. \A i \in 1 .. Len(waitQueue) : waitQueue[i] \in Acceptors /\ waitQueue[i] # o
    BY <1>4, ElementOfSeq DEF TypeInv, Queued
  <2>6. \A i \in 1 .. Len(waitQueue) : acceptEx'[waitQueue[i]] = "none"
    BY <1>3, <2>5 DEF Placed
  <2> QED BY <1>1, <2>1, <2>2, <2>4, <2>6 DEF Placed
<1>9. Somewhere'
  <2>1. stop' <=> stop
    BY <1>1 DEF stop
  <2> QED BY <1>2, <1>3, <1>7, <2>1 DEF Somewhere
<1>10. \A q \in Acceptors : holds'[q] # None => Uses(q)'
  <2> TAKE q \in Acceptors
  <2>1. CASE q = o
    <3>1. holds[o] # None => holds[o] \notin live
      BY <1>1, <1>4 DEF Alone, Uses
    <3> QED BY <1>1, <1>2, <1>3, <2>1, <3>1 DEF Uses
  <2>2. CASE q # o
    <3>1. \A u \in Threads : th[u].obj = q => u # t
      BY <2>2 DEF o
    <3> QED BY <1>1, <1>3, <1>5, <2>2, <3>1 DEF Uses, Alone
  <2> QED BY <2>1, <2>2
<1>11. \A s \in Sessions : Held(s)' <=> Held(s)
  BY <1>1, <1>5 DEF Held
<1>12. Alone'
  BY <1>1, <1>5, <1>10, <1>11 DEF Alone, SessionsConserved
<1> QED BY <1>6, <1>8, <1>9, <1>12

LEMMA InsertStep ==
  ASSUME Inv, NEW t \in Threads, InsertWait(t)
  PROVE  Inv'
<1> USE DEF Inv
<1>o. PICK o \in Acceptors : th[t].obj = o
  BY InsertMoves
<1> DEFINE n == Len(waitQueue)
<1>1. /\ th[t].at = "insert" /\ th[t].keep = None /\ th[t].then = None
      /\ o \in Acceptors /\ o # None
      /\ Moves(t, "rewait", None, None, None)
      /\ waitQueue' = Append(waitQueue, o)
      /\ UNCHANGED <<free, live, holds, acceptEx, main>>
  BY <1>o, InsertMoves, AcceptAssumption DEF InsertWait, poolVars
<1>2. /\ acceptEx[o] = "none" /\ ~Queued(o)
      /\ \A u \in Threads : u # t => o \notin Has(u)
  BY <1>o, <1>1 DEF Placed, Has
<1>3. /\ waitQueue' \in Seq(Acceptors) /\ Len(waitQueue') = n + 1 /\ n \in Nat
      /\ \A i \in 1 .. n : waitQueue'[i] = waitQueue[i]
      /\ waitQueue'[n + 1] = o
  BY <1>1, AppendProperties, LenProperties DEF TypeInv
<1>4. TypeInv'
  BY <1>1, <1>3 DEF TypeInv, Moves
<1> HIDE DEF n
<1>5. \A r : Queued(r)' <=> Queued(r) \/ r = o
  <2> TAKE r
  <2>1. Queued(r)' => Queued(r) \/ r = o
    <3> SUFFICES ASSUME NEW i \in 1 .. n + 1, waitQueue'[i] = r PROVE Queued(r) \/ r = o
      BY <1>3 DEF Queued
    <3>1. i \in 1 .. n \/ i = n + 1
      BY <1>3
    <3> QED BY <1>3, <3>1 DEF Queued, n
  <2>2. Queued(r) => Queued(r)'
    BY <1>3 DEF Queued, n
  <2>3. Queued(o)'
    <3>1. n + 1 \in 1 .. n + 1
      BY <1>3
    <3> QED BY <1>3, <3>1 DEF Queued
  <2> QED BY <2>1, <2>2, <2>3
<1>6. /\ Has(t)' = {} /\ Has(t) = {o}
      /\ \A u \in Threads : u # t => Has(u)' = Has(u)
      /\ \A u \in Threads : th'[u].obj # None => th'[u].obj # th'[u].then
  BY <1>o, <1>1 DEF Has, Moves, Placed
<1>7. Placed'
  <2>1. \A u, v \in Threads : u # v => Has(u)' \cap Has(v)' = {}
    BY <1>6 DEF Placed
  <2>2. \A u \in Threads : \A r \in Has(u)' : acceptEx'[r] = "none" /\ ~Queued(r)'
    BY <1>1, <1>2, <1>5, <1>6 DEF Placed
  <2>3. \A i \in 1 .. n + 1 : acceptEx'[waitQueue'[i]] = "none"
    <3> TAKE i \in 1 .. n + 1
    <3>1. i \in 1 .. n \/ i = n + 1
      BY <1>3
    <3> QED BY <1>1, <1>2, <1>3, <3>1 DEF Placed, n
  <2>4. \A i, j \in 1 .. n + 1 : i # j => waitQueue'[i] # waitQueue'[j]
    <3> TAKE i, j \in 1 .. n + 1
    <3>1. (i \in 1 .. n \/ i = n + 1) /\ (j \in 1 .. n \/ j = n + 1)
      BY <1>3
    <3>2. \A k \in 1 .. n : waitQueue[k] # o
      BY <1>2 DEF Queued, n
    <3> QED BY <1>3, <3>1, <3>2 DEF Placed, n
  <2> QED BY <1>3, <1>6, <2>1, <2>2, <2>3, <2>4 DEF Placed
<1>8. Somewhere'
  <2>1. stop' <=> stop
    BY <1>1 DEF stop
  <2> QED BY <1>1, <1>5, <1>6, <2>1 DEF Somewhere
<1>9. Alone'
  BY <1>1, QuietAlone
<1> QED BY <1>4, <1>7, <1>8, <1>9

LEMMA PushStep ==
  ASSUME Inv, NEW t \in Threads, PushSession(t)
  PROVE  Inv'
<1> USE DEF Inv
<1>1. /\ th[t].at = "push" /\ th[t].keep \in Sessions /\ th[t].obj = None
      /\ Moves(t, "rewait", None, None, th[t].then)
      /\ free' = free \cup {th[t].keep}
      /\ UNCHANGED <<live, holds, acceptEx, waitQueue, main>>
  BY PushMoves DEF PushSession
<1>2. PICK s \in Sessions : th[t].keep = s /\ s # None
  BY <1>1, AcceptAssumption
<1>3. /\ th'[t].at = "rewait" /\ th'[t].keep = None
      /\ \A u \in Threads : u # t => th'[u] = th[u]
  BY <1>1 DEF Moves
<1>4. TypeInv'
  <2>1. free' \subseteq Sessions /\ live' \subseteq Sessions
    BY <1>1 DEF TypeInv
  <2>2. "rewait" \notin {"arm", "clear"}
    OBVIOUS
  <2> QED BY <1>1, <2>1, <2>2, MovedTypes
<1>5. Placed' /\ Somewhere'
  BY <1>1, SameTracks DEF Has
<1>6. /\ s \notin live /\ \A q \in Acceptors : holds[q] # s
      /\ \A u \in Threads : u # t => th[u].keep # s
  BY <1>1, <1>2 DEF Alone
<1>7. ~Held(s)' /\ \A r \in Sessions : r # s => (Held(r)' <=> Held(r))
  BY <1>1, <1>2, <1>3, <1>6, AcceptAssumption DEF Held
<1>8. SessionsConserved'
  BY <1>1, <1>2, <1>7 DEF Alone, SessionsConserved
<1>9. \A q \in Acceptors : Uses(q) => Uses(q)'
  BY <1>1, <1>3 DEF Uses
<1>10. Alone'
  <2>1. \A u \in Threads : th[u].at \in {"push", "pick", "give"} => th[u].keep # None
    BY Fields DEF KeepPlaces
  <2>2. \A u \in Threads : th'[u].at \in {"push", "pick", "give"} =>
          /\ th'[u].keep \notin live'
          /\ \A q \in Acceptors : holds'[q] # th'[u].keep
          /\ \A v \in Threads : v # u => th'[v].keep # th'[u].keep
    <3> SUFFICES ASSUME NEW u \in Threads, u # t, th[u].at \in {"push", "pick", "give"}
                 PROVE  /\ th[u].keep \notin live
                        /\ \A q \in Acceptors : holds[q] # th[u].keep
                        /\ \A v \in Threads : v # u => th'[v].keep # th[u].keep
      BY <1>1, <1>3
    <3> QED BY <1>3, <2>1 DEF Alone
  <2>3. \A q \in Acceptors : holds'[q] # None => Uses(q)'
    BY <1>1, <1>9 DEF Alone
  <2> QED BY <1>8, <2>2, <2>3 DEF Alone
<1> QED BY <1>4, <1>5, <1>10

LEMMA TakeStep ==
  ASSUME Inv, NEW t \in Threads, Take(t)
  PROVE  Inv'
<1> USE DEF Inv
<1>1. /\ th[t].at = "take" /\ th[t].obj = None /\ th[t].keep = None
      /\ UNCHANGED <<live, holds, acceptEx, waitQueue, main>>
  BY TakeMoves DEF Take
<1>2. ASSUME NEW p \in {"idle", "error"}, Moves(t, p, th[t].then, None, None), free' = free
      PROVE  Inv'
  <2>1. TypeInv'
    BY <1>1, <1>2, MovedTypes DEF TypeInv
  <2>2. Placed' /\ Somewhere'
    BY <1>1, <1>2, SameTracks DEF Has
  <2>3. Alone'
    BY <1>1, <1>2, QuietAlone
  <2> QED BY <2>1, <2>2, <2>3
<1>3. ASSUME NEW s \in free, free' = free \ {s}, Moves(t, "pick", None, s, th[t].then)
      PROVE  Inv'
  <2>1. /\ th'[t].at = "pick" /\ th'[t].keep = s
        /\ \A u \in Threads : u # t => th'[u] = th[u]
    BY <1>3 DEF Moves
  <2>2. s \in Sessions /\ s # None /\ ~Held(s)
    BY AcceptAssumption DEF TypeInv, Alone, SessionsConserved
  <2>3. TypeInv'
    <3>1. free' \subseteq Sessions /\ live' \subseteq Sessions
      BY <1>1, <1>3 DEF TypeInv
    <3>2. "pick" \notin {"arm", "clear"}
      OBVIOUS
    <3> QED BY <1>1, <1>3, <3>1, <3>2, MovedTypes
  <2>4. Placed' /\ Somewhere'
    BY <1>1, <1>3, SameTracks DEF Has
  <2>5. /\ s \notin live /\ \A q \in Acceptors : holds[q] # s
        /\ \A u \in Threads : th[u].keep # s
    BY <2>2 DEF Held
  <2>6. Held(s)' /\ \A r \in Sessions : r # s => (Held(r)' <=> Held(r))
    BY <1>1, <2>1, <2>2, AcceptAssumption DEF Held
  <2>7. SessionsConserved'
    BY <1>1, <1>3, <2>6 DEF Alone, SessionsConserved
  <2>8. \A q \in Acceptors : Uses(q) => Uses(q)'
    BY <1>1, <2>1 DEF Uses
  <2>9. Alone'
    BY <1>1, <2>1, <2>5, <2>7, <2>8 DEF Alone
  <2> QED BY <2>3, <2>4, <2>9
<1> QED BY <1>2, <1>3, TakeMoves

(* The sessions are where they were; the thread has the one it had. *)
LEMMA SameKeepAlone ==
  ASSUME Alone, NEW t \in Threads, NEW p, NEW o, NEW then,
         Moves(t, p, o, th[t].keep, then),
         th[t].at \notin {"arm", "clear"},
         p \in {"push", "pick", "give"} => th[t].at \in {"push", "pick", "give"},
         UNCHANGED <<free, live, holds, acceptEx>>
  PROVE  Alone'
<1>1. /\ \A u \in Threads : th'[u].keep = th[u].keep
      /\ th'[t].at = p /\ \A u \in Threads : u # t => th'[u] = th[u]
  BY DEF Moves
<1>2. \A s \in Sessions : Held(s)' <=> Held(s)
  BY <1>1 DEF Held
<1>3. \A q \in Acceptors : Uses(q) => Uses(q)'
  BY <1>1 DEF Uses
<1>4. \A u \in Threads : th'[u].at \in {"push", "pick", "give"} =>
                           th[u].at \in {"push", "pick", "give"}
  BY <1>1
<1> QED BY <1>1, <1>2, <1>3, <1>4 DEF Alone, SessionsConserved

LEMMA PickStep ==
  ASSUME Inv, NEW t \in Threads, Pick(t)
  PROVE  Inv'
<1> USE DEF Inv
<1>1. /\ th[t].at = "pick" /\ th[t].obj = None /\ th[t].keep \in Sessions
      /\ UNCHANGED <<free, live, holds, acceptEx, main>>
  BY PickMoves DEF Pick, poolVars
<1>2. CASE waitQueue' = waitQueue /\ Moves(t, "drop", None, th[t].keep, th[t].then)
  <2>1. TypeInv'
    <3>1. free' \subseteq Sessions /\ live' \subseteq Sessions
      BY <1>1 DEF TypeInv
    <3>2. "drop" \notin {"arm", "clear"}
      OBVIOUS
    <3> QED BY <1>1, <1>2, <3>1, <3>2, MovedTypes
  <2>2. Placed' /\ Somewhere'
    BY <1>1, <1>2, SameTracks DEF Has
  <2>3. Alone'
    BY <1>1, <1>2, SameKeepAlone
  <2> QED BY <2>1, <2>2, <2>3
<1>3. CASE /\ waitQueue # <<>> /\ waitQueue' = Tail(waitQueue)
           /\ Head(waitQueue) \in Acceptors
           /\ Moves(t, "give", Head(waitQueue), th[t].keep, th[t].then)
  <2>1. PICK o \in Acceptors : Head(waitQueue) = o
    BY <1>3
  <2> DEFINE n == Len(waitQueue)
  <2>2. /\ waitQueue' \in Seq(Acceptors) /\ n \in Nat /\ n > 0 /\ Len(waitQueue') = n - 1
        /\ waitQueue[1] = o
        /\ \A i \in 1 .. n - 1 : waitQueue'[i] = waitQueue[i + 1]
    BY <1>3, <2>1, HeadTailProperties, EmptySeq, LenProperties DEF TypeInv
  <2>3. /\ th'[t].at = "give" /\ th'[t].obj = o /\ th'[t].then = th[t].then
        /\ \A u \in Threads : u # t => th'[u] = th[u]
    BY <1>3, <2>1 DEF Moves
  <2>4. TypeInv'
    BY <1>1, <1>3, <2>2, <2>3 DEF TypeInv, Moves
  <2> HIDE DEF n
  <2>5. \A i \in 1 .. n - 1 : i + 1 \in 1 .. n /\ i + 1 # 1
    BY <2>2
  <2>6. Queued(o) /\ acceptEx[o] = "none"
    <3>1. 1 \in 1 .. n
      BY <2>2
    <3> QED BY <2>2, <3>1 DEF Queued, Placed, n
  <2>7. ~Queued(o)'
    <3> SUFFICES ASSUME NEW i \in 1 .. n - 1, waitQueue'[i] = o PROVE FALSE
      BY <2>2 DEF Queued
    <3>1. waitQueue[i + 1] = waitQueue[1] /\ i + 1 \in 1 .. n /\ i + 1 # 1 /\ 1 \in 1 .. n
      BY <2>2, <2>5
    <3> QED BY <3>1 DEF Placed, n
  <2>8. \A r : Queued(r)' => Queued(r)
    BY <2>2, <2>5 DEF Queued, n
  <2>9. \A r : Queued(r) /\ r # o => Queued(r)'
    <3> SUFFICES ASSUME NEW r, NEW i \in 1 .. n, waitQueue[i] = r, r # o
                 PROVE  Queued(r)'
      BY DEF Queued, n
    <3>1. i - 1 \in 1 .. n - 1 /\ (i - 1) + 1 = i
      BY <2>2
    <3>2. waitQueue'[i - 1] = r
      BY <2>2, <3>1
    <3> QED BY <2>2, <3>1, <3>2 DEF Queued
  <2>10. /\ Has(t)' = Has(t) \cup {o} /\ o # None
         /\ \A u \in Threads : o \notin Has(u)
         /\ \A u \in Threads : u # t => Has(u)' = Has(u)
    BY <1>1, <2>3, <2>6, AcceptAssumption DEF Has, Placed
  <2>11. Placed'
    <3>1. \A u \in Threads : th'[u].obj # None => th'[u].obj # th'[u].then
      BY <2>3, <2>10 DEF Placed, Has
    <3>2. \A u, v \in Threads : u # v => Has(u)' \cap Has(v)' = {}
      BY <2>10 DEF Placed
    <3>3. \A u \in Threads : \A r \in Has(u)' : acceptEx[r] = "none" /\ ~Queued(r)'
      BY <2>6, <2>7, <2>8, <2>10 DEF Placed
    <3>4. \A i \in 1 .. n - 1 : acceptEx[waitQueue'[i]] = "none"
      BY <2>2, <2>5 DEF Placed, n
    <3>5. \A i, j \in 1 .. n - 1 : i # j => waitQueue'[i] # waitQueue'[j]
      <4> TAKE i, j \in 1 .. n - 1
      <4>1. i + 1 \in 1 .. n /\ j + 1 \in 1 .. n /\ (i # j => i + 1 # j + 1)
        BY <2>2
      <4> QED BY <2>2, <4>1 DEF Placed, n
    <3> QED BY <1>1, <2>2, <3>1, <3>2, <3>3, <3>4, <3>5 DEF Placed
  <2>12. Somewhere'
    <3>1. stop' <=> stop
      BY <1>1 DEF stop
    <3> QED BY <1>1, <2>9, <2>10, <3>1 DEF Somewhere
  <2>13. Alone'
    BY <1>1, <1>3, SameKeepAlone
  <2> QED BY <2>4, <2>11, <2>12, <2>13
<1> QED BY <1>2, <1>3, PickMoves

LEMMA GiveStep ==
  ASSUME Inv, NEW t \in Threads, Give(t)
  PROVE  Inv'
<1> USE DEF Inv
<1>1. /\ th[t].at = "give" /\ th[t].obj \in Acceptors /\ th[t].keep \in Sessions
      /\ UNCHANGED <<free, live, acceptEx, waitQueue, main>>
  BY GiveMoves DEF Give
<1>2. CASE stop /\ holds' = holds /\ Moves(t, "drop", None, th[t].keep, th[t].then)
  <2>1. TypeInv'
    <3>1. free' \subseteq Sessions /\ live' \subseteq Sessions
      BY <1>1 DEF TypeInv
    <3>2. "drop" \notin {"arm", "clear"}
      OBVIOUS
    <3> QED BY <1>1, <1>2, <3>1, <3>2, MovedTypes
  <2>2. Placed' /\ Somewhere'
    BY <1>1, <1>2, SameTracks DEF Has
  <2>3. Alone'
    BY <1>1, <1>2, SameKeepAlone
  <2> QED BY <2>1, <2>2, <2>3
<1>3. CASE /\ holds' = [holds EXCEPT ![th[t].obj] = th[t].keep]
           /\ Moves(t, "arm", th[t].obj, th[t].keep, th[t].then)
  <2>1. PICK o \in Acceptors, s \in Sessions : th[t].obj = o /\ th[t].keep = s
    BY <1>1
  <2>2. s # None /\ o # None /\ holds[o] = None /\ o # th[t].then
    BY <1>1, <2>1, EmptyHanded, AcceptAssumption DEF Placed
  <2>3. /\ holds'[o] = s /\ \A q \in Acceptors : q # o => holds'[q] = holds[q]
        /\ holds' \in [Acceptors -> Sessions \cup {None}]
    BY <1>3, <2>1 DEF TypeInv
  <2>4. /\ th'[t].at = "arm" /\ th'[t].obj = o /\ th'[t].keep = s
        /\ \A u \in Threads : u # t => th'[u] = th[u]
        /\ \A u \in Threads : th'[u].keep = th[u].keep
    BY <1>3, <2>1 DEF Moves
  <2>5. TypeInv'
    BY <1>1, <1>3, <2>2, <2>3, <2>4 DEF TypeInv, Moves
  <2>6. Placed' /\ Somewhere'
    BY <1>1, <1>3, <2>1, <2>2, SameTracks DEF Has
  <2>7. /\ s \notin live /\ \A q \in Acceptors : holds[q] # s
        /\ \A u \in Threads : u # t => th[u].keep # s
    BY <1>1, <2>1 DEF Alone
  <2>8. \A r \in Sessions : Held(r)' <=> Held(r)
    BY <1>1, <2>1, <2>2, <2>3, <2>4, AcceptAssumption DEF Held
  <2>9. \A q \in Acceptors : holds'[q] # None => Uses(q)'
    <3> TAKE q \in Acceptors
    <3>1. CASE q = o
      BY <1>1, <2>3, <2>4, <2>7, <3>1 DEF Uses
    <3>2. CASE q # o
      BY <1>1, <2>1, <2>3, <2>4, <3>2 DEF Uses, Alone
    <3> QED BY <3>1, <3>2
  <2>10. SessionsConserved'
    <3>1. \A r \in Sessions : r \in free' <=> ~Held(r)'
      BY <1>1, <2>8 DEF Alone, SessionsConserved
    <3>2. \A q, r \in Acceptors : holds'[q] # None /\ holds'[q] = holds'[r] => q = r
      BY <2>3, <2>7 DEF Alone, SessionsConserved
    <3> QED BY <3>1, <3>2 DEF SessionsConserved
  <2>11. \A u \in Threads : th'[u].at \in {"push", "pick", "give"} =>
           /\ th'[u].keep \notin live'
           /\ \A q \in Acceptors : holds'[q] # th'[u].keep
           /\ \A v \in Threads : v # u => th'[v].keep # th'[u].keep
    <3> SUFFICES ASSUME NEW u \in Threads, u # t, th[u].at \in {"push", "pick", "give"}
                 PROVE  /\ th[u].keep \notin live
                        /\ \A q \in Acceptors : holds'[q] # th[u].keep
                        /\ \A v \in Threads : v # u => th[v].keep # th[u].keep
      BY <1>1, <2>4
    <3> QED BY <2>3, <2>7 DEF Alone
  <2>12. Alone'
    BY <2>9, <2>10, <2>11 DEF Alone
  <2> QED BY <2>5, <2>6, <2>12
<1> QED BY <1>2, <1>3, GiveMoves

(* The network and the shutdown move no session and no thread. *)
LEMMA OuterStep ==
  ASSUME Inv, \/ \E o \in Acceptors : AcceptSucceeds(o) \/ AcceptFails(o)
              \/ ShutdownStep
              \/ UNCHANGED vars
  PROVE  Inv'
<1> USE DEF Inv
<1>1. UNCHANGED <<free, live, holds, th>>
  BY DEF AcceptSucceeds, AcceptFails, ShutdownStep, RaiseStop, CloseListen, ClearWaitQueue,
     StopListeners, vars, poolVars
<1>2. /\ acceptEx' \in [Acceptors -> {"none", "armed", "accepted", "failed", "refused"}]
      /\ \A q \in Acceptors :
           \/ acceptEx'[q] = acceptEx[q]
           \/ acceptEx[q] = "armed" /\ acceptEx'[q] \in {"accepted", "failed"}
  BY DEF AcceptSucceeds, AcceptFails, ShutdownStep, RaiseStop, CloseListen, ClearWaitQueue,
     StopListeners, vars, TypeInv
<1>3. waitQueue' = waitQueue \/ (stop /\ waitQueue' = <<>>)
  BY DEF AcceptSucceeds, AcceptFails, ShutdownStep, RaiseStop, CloseListen, ClearWaitQueue,
     StopListeners, vars, stop
<1>4. main' \in {"up", "flagged", "closed", "cleared", "stopped"} /\ (stop => stop')
  BY DEF AcceptSucceeds, AcceptFails, ShutdownStep, RaiseStop, CloseListen, ClearWaitQueue,
     StopListeners, vars, TypeInv, stop
<1>5. TypeInv'
  <2>1. waitQueue' \in Seq(Acceptors)
    BY <1>3, EmptySeq DEF TypeInv
  <2>2. \A o \in Acceptors : acceptEx'[o] \in {"armed", "accepted", "failed"} => holds'[o] # None
    BY <1>1, <1>2 DEF TypeInv
  <2>3. \A t \in Threads : th'[t].at \in {"arm", "clear"} => holds'[th'[t].obj] # None
    BY <1>1 DEF TypeInv
  <2>4. th' \in [Threads -> ThreadStates] /\ \A t \in Threads : ThreadOK(th'[t])
    BY <1>1 DEF TypeInv
  <2> QED BY <1>1, <1>2, <1>4, <2>1, <2>2, <2>3, <2>4 DEF TypeInv
<1>6. \A u \in Threads : Has(u)' = Has(u) /\ Has(u) \subseteq Acceptors
  BY <1>1, Fields DEF Has
<1>7. Placed'
  <2>1. CASE waitQueue' = waitQueue
    <3>1. \A i \in 1 .. Len(waitQueue) : waitQueue[i] \in Acceptors
      BY ElementOfSeq DEF TypeInv
    <3>2. \A r : Queued(r)' <=> Queued(r)
      BY <2>1 DEF Queued
    <3>3. \A u \in Threads : \A r \in Has(u)' : acceptEx'[r] = "none" /\ ~Queued(r)'
      BY <1>2, <1>6, <3>2 DEF Placed
    <3>4. \A i \in 1 .. Len(waitQueue) : acceptEx'[waitQueue[i]] = "none"
      BY <1>2, <3>1 DEF Placed
    <3> QED BY <1>1, <1>6, <2>1, <3>3, <3>4 DEF Placed
  <2>2. CASE waitQueue' = <<>>
    <3>1. Len(waitQueue') = 0
      BY <2>2, EmptySeq
    <3>2. \A u \in Threads : \A r \in Has(u)' : acceptEx'[r] = "none" /\ ~Queued(r)'
      BY <1>2, <1>6, <3>1 DEF Placed, Queued
    <3> QED BY <1>1, <1>6, <3>1, <3>2 DEF Placed
  <2> QED BY <1>3, <2>1, <2>2
<1>8. Somewhere'
  <2>1. CASE stop
    BY <1>4, <2>1 DEF Somewhere
  <2>2. CASE ~stop
    <3>1. \A r : Queued(r)' <=> Queued(r)
      BY <1>3, <2>2 DEF Queued
    <3> QED BY <1>2, <1>6, <2>2, <3>1 DEF Somewhere
  <2> QED BY <2>1, <2>2
<1>9. Alone'
  <2>1. \A s \in Sessions : Held(s)' <=> Held(s)
    BY <1>1 DEF Held
  <2>2. \A q \in Acceptors : Uses(q) => Uses(q)'
    BY <1>1, <1>2 DEF Uses
  <2> QED BY <1>1, <2>1, <2>2 DEF Alone, SessionsConserved
<1> QED BY <1>5, <1>7, <1>8, <1>9

-----------------------------------------------------------------------------
LEMMA StepInv ==
  ASSUME Inv, [Next]_vars PROVE Inv'
BY RearmStep, RewaitStep, ExitStep, DropStep, ReleaseStep, ExecuteClearStep, ErrorStep,
   ExecuteStep, AcceptPopsStep, ArmStep, InsertStep, PushStep, TakeStep, PickStep,
   GiveStep, OuterStep DEF Next, Step

(* At the start an acceptor is armed with a session of its own or waits. *)
LEMMA InitInv ==
  ASSUME Init PROVE Inv
<1>1. TypeInv
  BY InitTypes
<1> DEFINE rest == {o \in Acceptors : holds[o] = None}
<1>2. /\ \A o, p \in Acceptors : o # p /\ holds[o] # None => holds[o] # holds[p]
      /\ free = Sessions \ {holds[o] : o \in Acceptors}
      /\ holds \in [Acceptors -> Sessions \cup {None}]
      /\ acceptEx = [o \in Acceptors |-> IF holds[o] = None THEN "none" ELSE "armed"]
      /\ waitQueue \in [1 .. Cardinality(rest) -> rest]
      /\ \A o \in Acceptors :
           holds[o] = None => \E i \in DOMAIN waitQueue : waitQueue[i] = o
      /\ live = {} /\ th = [t \in Threads |-> Idle] /\ main = "up"
  BY DEF Init
<1>3. /\ \A t \in Threads : Has(t) = {} /\ th[t].obj = None /\ th[t].keep = None
      /\ \A t \in Threads : th[t].at = "idle"
  BY <1>2 DEF Has, Idle
<1>4. /\ rest \subseteq Acceptors /\ Cardinality(rest) \in Nat
      /\ Len(waitQueue) = Cardinality(rest)
      /\ waitQueue \in Surjection(1 .. Cardinality(rest), rest)
      /\ waitQueue \in Injection(1 .. Cardinality(rest), rest)
  <2>1. rest \subseteq Acceptors /\ IsFiniteSet(rest)
    BY AcceptAssumption, FS_Subset
  <2>2. Cardinality(rest) \in Nat
    BY <2>1, FS_CardinalityType
  <2>3. /\ waitQueue \in [1 .. Cardinality(rest) -> rest]
        /\ \A o \in rest : \E i \in 1 .. Cardinality(rest) : waitQueue[i] = o
    BY <1>2
  <2> HIDE DEF rest
  <2>4. waitQueue \in Surjection(1 .. Cardinality(rest), rest)
    BY <2>3 DEF Surjection
  <2>5. /\ IsFiniteSet(1 .. Cardinality(rest))
        /\ Cardinality(1 .. Cardinality(rest)) = Cardinality(rest)
    <3>1. 1 \in Int /\ Cardinality(rest) \in Int
      BY <2>2
    <3>2. /\ IsFiniteSet(1 .. Cardinality(rest))
          /\ Cardinality(1 .. Cardinality(rest)) =
               IF 1 > Cardinality(rest) THEN 0 ELSE Cardinality(rest) - 1 + 1
      BY <3>1, FS_Interval
    <3> QED BY <2>2, <3>2
  <2>6. waitQueue \in Injection(1 .. Cardinality(rest), rest)
    BY <2>4, <2>5, FS_SurjSameCardinalityImpliesInj
  <2>7. Len(waitQueue) = Cardinality(rest)
    <3>1. waitQueue \in Seq(Acceptors) /\ DOMAIN waitQueue = 1 .. Cardinality(rest)
      BY <1>1, <2>3 DEF TypeInv
    <3>2. Len(waitQueue) \in Nat /\ DOMAIN waitQueue = 1 .. Len(waitQueue)
      BY <3>1, LenProperties
    <3> QED BY <2>2, <3>1, <3>2
  <2> QED BY <2>1, <2>2, <2>4, <2>6, <2>7
<1>5. Placed
  <2>1. \A i \in 1 .. Len(waitQueue) : waitQueue[i] \in rest
    BY <1>2, <1>4
  <2>2. \A i \in 1 .. Len(waitQueue) : acceptEx[waitQueue[i]] = "none"
    BY <1>2, <2>1
  <2>3. \A i, j \in 1 .. Len(waitQueue) : i # j => waitQueue[i] # waitQueue[j]
    BY <1>4 DEF Injection, IsInjective
  <2> QED BY <1>3, <2>2, <2>3 DEF Placed
<1>6. Somewhere
  <2>1. \A o \in Acceptors : holds[o] = None => Queued(o)
    BY <1>2, <1>4 DEF Queued
  <2> QED BY <1>2, <2>1, AcceptAssumption DEF Somewhere
<1>7. Alone
  <2>1. \A o \in Acceptors : holds[o] # None => Uses(o)
    BY <1>2 DEF Uses
  <2>2. \A s \in Sessions : s \in free <=> ~Held(s)
    BY <1>2, <1>3, AcceptAssumption DEF Held
  <2> QED BY <1>2, <1>3, <2>1, <2>2 DEF Alone, SessionsConserved
<1> QED BY <1>1, <1>5, <1>6, <1>7 DEF Inv

LEMMA InvAlways == Spec => []Inv
<1>1. Init => Inv
  BY InitInv
<1>2. Inv /\ [Next]_vars => Inv'
  BY StepInv
<1> QED BY <1>1, <1>2, PTL DEF Spec

(* The calls of AcceptEx on the closed socket: none before it is closed, and a
   thread has one more before it only when it passed its test of m_Stop. *)
LateInv ==
  /\ late \in [Threads -> Nat]
  /\ listening => \A t \in Threads : late[t] = 0
  /\ \A t \in Threads : /\ late[t] <= 1
                        /\ th[t].at \in {"pop", "arm"} => late[t] = 0

(* Only a thread that sees m_Stop down sets out for AcceptEx. *)
LEMMA SetsOut ==
  ASSUME TypeInv, NEW t \in Threads, ~Arm(t),
         \/ Step(t) \/ ListenerExits(t)
         \/ \E o \in Acceptors : Execute(t, o) \/ Error(t, o)
         \/ \E s \in Sessions : Release(t, s)
  PROVE  /\ main' = main /\ late' = late
         /\ \A u \in Threads : u # t => th'[u] = th[u]
         /\ th'[t].at \in {"pop", "arm"} => th[t].at \in {"pop", "arm"} \/ ~stop
<1>1. CASE \/ ExecuteClear(t) \/ Drop(t) \/ InsertWait(t) \/ PushSession(t)
           \/ Take(t) \/ Pick(t)
  <2>1. main' = main /\ late' = late
    BY <1>1 DEF ExecuteClear, Drop, InsertWait, PushSession, Take, Pick
  <2>2. \E p \in Places \ {"pop", "arm"} : \E o, s, then : Moves(t, p, o, s, then)
    BY <1>1, ExecuteClearMoves, DropMoves, InsertMoves, PushMoves, TakeMoves,
       PickMoves DEF Places
  <2> QED BY <2>1, <2>2 DEF Moves
<1>2. CASE ErrorRearms(t) \/ AcceptChecks(t) \/ Give(t)
  <2>1. main' = main /\ late' = late
    BY <1>2 DEF ErrorRearms, AcceptChecks, Give
  <2>2. \E p, o, s, then : Moves(t, p, o, s, then)
    BY <1>2, RearmMoves, GiveMoves
  <2>3. stop => th'[t].at \notin {"pop", "arm"}
    <3>1. CASE ErrorRearms(t) \/ AcceptChecks(t)
      BY <3>1 DEF ErrorRearms, AcceptChecks, Set, Idle, TypeInv
    <3>2. CASE Give(t)
      <4>1. stop => Set(t, [th[t] EXCEPT !.at = "drop", !.obj = None])
        BY <3>2 DEF Give
      <4>2. th[t] \in ThreadStates /\ th \in [Threads -> ThreadStates]
        BY DEF TypeInv
      <4>3. [th[t] EXCEPT !.at = "drop", !.obj = None].at = "drop"
        BY <4>2 DEF ThreadStates
      <4> QED BY <4>1, <4>2, <4>3 DEF Set
    <3> QED BY <1>2, <3>1, <3>2
  <2> QED BY <2>1, <2>2, <2>3 DEF Moves
<1>3. CASE AcceptPops(t)
  <2>1. th[t].at = "pop" /\ \E p, o, s, then : Moves(t, p, o, s, then)
    BY <1>3, AcceptPopsMoves
  <2> QED BY <1>3, <2>1 DEF AcceptPops, Moves
<1>4. CASE ReWaiting(t) \/ Look(t)
  <2>1. \E p \in {"look", "take", "idle", "error"} : \E o, then : Moves(t, p, o, None, then)
    BY <1>4, RewaitMoves
  <2> QED BY <1>4, <2>1 DEF ReWaiting, Look, Moves
<1>5. CASE ListenerExits(t)
  <2>1. th[t].at = "idle"
    BY <1>5, ReadyFacts DEF ListenerExits
  <2>2. Moves(t, "gone", th[t].obj, th[t].keep, th[t].then)
    <3>1. th[t].obj = None /\ th[t].keep = None /\ th[t].then = None
      BY <1>5, ReadyFacts DEF ListenerExits
    <3> QED BY <1>5, <2>1, <3>1, GotoMoves
            DEF ListenerExits, Places, ObjPlaces, KeepPlaces, ThenPlaces
  <2> QED BY <1>5, <2>2 DEF ListenerExits, Moves
<1>6. ASSUME NEW o \in Acceptors, Execute(t, o) \/ Error(t, o)
      PROVE  /\ main' = main /\ late' = late
             /\ \A u \in Threads : u # t => th'[u] = th[u]
             /\ th'[t].at \notin {"pop", "arm"}
  <2>1. \E p \in {"clear", "push", "error"} : \E q, s, then : Moves(t, p, q, s, then)
    BY <1>6, ExecuteMoves, ErrorMoves
  <2> QED BY <1>6, <2>1 DEF Execute, Error, Moves
<1>7. ASSUME NEW s \in Sessions, Release(t, s)
      PROVE  /\ main' = main /\ late' = late
             /\ \A u \in Threads : u # t => th'[u] = th[u]
             /\ th'[t].at \notin {"pop", "arm"}
  <2>1. \E p \in {"push", "idle"} : \E q, k, then : Moves(t, p, q, k, then)
    BY <1>7, ReleaseMoves
  <2> QED BY <1>7, <2>1 DEF Release, Moves
<1> QED BY <1>1, <1>2, <1>3, <1>4, <1>5, <1>6, <1>7 DEF Step

LEMMA LateStep ==
  ASSUME TypeInv, LateInv, [Next]_vars PROVE LateInv'
<1>1. ASSUME NEW t \in Threads, Arm(t) PROVE LateInv'
  <2>1. /\ th[t].at = "arm" /\ th'[t].at = "drop" /\ main' = main
        /\ \A u \in Threads : u # t => th'[u] = th[u]
    BY <1>1, ArmMoves DEF Arm, Moves
  <2>2. late' = [late EXCEPT ![t] = IF listening THEN @ ELSE @ + 1]
    BY <1>1 DEF Arm
  <2>3. late[t] = 0 /\ (listening' <=> listening)
    BY <2>1 DEF LateInv, listening
  <2> QED BY <2>1, <2>2, <2>3 DEF LateInv
<1>2. ASSUME NEW t \in Threads, ~Arm(t),
             \/ Step(t) \/ ListenerExits(t)
             \/ \E o \in Acceptors : Execute(t, o) \/ Error(t, o)
             \/ \E s \in Sessions : Release(t, s)
      PROVE  LateInv'
  <2>1. /\ main' = main /\ late' = late
        /\ \A u \in Threads : u # t => th'[u] = th[u]
        /\ th'[t].at \in {"pop", "arm"} => th[t].at \in {"pop", "arm"} \/ ~stop
    BY <1>2, SetsOut
  <2>2. (listening' <=> listening) /\ (~stop => listening)
    BY <2>1 DEF listening, stop
  <2> QED BY <2>1, <2>2 DEF LateInv
<1>3. ASSUME \/ \E o \in Acceptors : AcceptSucceeds(o) \/ AcceptFails(o)
             \/ ShutdownStep \/ UNCHANGED vars
      PROVE  LateInv'
  <2>1. th' = th /\ late' = late /\ (listening' => listening)
    BY <1>3 DEF AcceptSucceeds, AcceptFails, ShutdownStep, RaiseStop, CloseListen,
                ClearWaitQueue, StopListeners, vars, listening
  <2> QED BY <2>1 DEF LateInv
<1> QED BY <1>1, <1>2, <1>3 DEF Next, Step

LEMMA LateAlways == Spec => []LateInv
<1>1. Init => LateInv
  BY DEF Init, LateInv, Idle
<1>2. Inv /\ LateInv /\ [Next]_vars => LateInv'
  BY LateStep DEF Inv
<1> QED BY <1>1, <1>2, InvAlways, PTL DEF Spec

(* Every variable has its type. *)
THEOREM TypeCorrect == Spec => []TypeOK
<1>1. Inv /\ LateInv => TypeOK
  BY DEF Inv, LateInv, TypeInv, TypeOK, ThreadStates
<1> QED BY <1>1, InvAlways, LateAlways, PTL

(* A session is in the pool exactly when nobody has it, and no two acceptors
   have the same one: PopSession, PushSession and the shared pointers between
   them lose no session and recycle none that is in use. *)
THEOREM SessionsConservedAlways == Spec => []SessionsConserved
<1>1. Inv => SessionsConserved
  BY DEF Inv, Alone
<1> QED BY <1>1, InvAlways, PTL

LEMMA AtMostOne ==
  ASSUME NEW S, \A x, y \in S : x = y
  PROVE  Cardinality(S) = IF S = {} THEN 0 ELSE 1
<1>1. CASE S = {}
  BY <1>1, FS_EmptySet
<1>2. CASE S # {}
  <2>1. PICK x \in S : S = {x}
    BY <1>2
  <2> QED BY <1>2, <2>1, FS_Singleton
<1> QED BY <1>1, <1>2

LEMMA InvKeeps ==
  ASSUME Inv, LateInv PROVE AcceptorsKept
<1> USE DEF Inv
<1> SUFFICES ASSUME NEW o \in Acceptors
             PROVE  /\ Spots(o) <= 1
                    /\ acceptEx[o] = "refused" => Spots(o) = 0
                    /\ ~stop => Spots(o) = 1 \/ acceptEx[o] = "refused"
  BY DEF AcceptorsKept, OneLateArm, LateInv
<1> DEFINE A == {t \in Threads : th[t].obj = o}
           B == {t \in Threads : th[t].then = o}
           C == {i \in 1 .. Len(waitQueue) : waitQueue[i] = o}
<1>1. /\ \A t \in A \cup B : o \in Has(t)
      /\ \A t \in Threads : o \in Has(t) => t \in A \cup B
  BY AcceptAssumption DEF Has
<1>2. \A x, y \in A \cup B : x = y
  BY <1>1 DEF Placed
<1>3. \A x : ~(x \in A /\ x \in B)
  BY AcceptAssumption DEF Placed
<1>4. \A x, y \in C : x = y
  BY DEF Placed
<1>5. C # {} <=> Queued(o)
  BY DEF Queued
<1>6. /\ A \cup B # {} => C = {} /\ acceptEx[o] = "none"
      /\ C # {} => acceptEx[o] = "none"
  BY <1>1, <1>5 DEF Placed, Queued
<1>7. ~stop => A \cup B # {} \/ C # {} \/ acceptEx[o] # "none"
  BY <1>1, <1>5 DEF Somewhere
<1>8. /\ Spots(o) = Cardinality(A) + Cardinality(B) + Cardinality(C)
                      + (IF acceptEx[o] \in {"armed", "accepted", "failed"} THEN 1 ELSE 0)
      /\ acceptEx[o] \in {"none", "armed", "accepted", "failed", "refused"}
  BY DEF Spots, TypeInv
<1> HIDE DEF A, B, C
<1>9. /\ Cardinality(A) = IF A = {} THEN 0 ELSE 1
      /\ Cardinality(B) = IF B = {} THEN 0 ELSE 1
      /\ Cardinality(C) = IF C = {} THEN 0 ELSE 1
  BY <1>2, <1>4, AtMostOne
<1>10. A = {} \/ B = {}
  BY <1>2, <1>3
<1> QED BY <1>6, <1>7, <1>8, <1>9, <1>10

(* An exhausted pool gives up no AcceptEx: no acceptor is ever in two places,
   until the shutdown each is in one unless the system refused its AcceptEx,
   and after it no thread goes on calling AcceptEx on the closed socket. *)
THEOREM AcceptorsKeptAlways == Spec => []AcceptorsKept
<1>1. Inv /\ LateInv => AcceptorsKept
  BY InvKeeps
<1> QED BY <1>1, InvAlways, LateAlways, PTL

-----------------------------------------------------------------------------
(* Wakeups. *)

(* The threads at the places P, and at those of ReWaiting before its PopSession. *)
Inside(P) == {u \in Threads : th[u].at \in P}
Takers    == {"rewait", "look", "take"}
Wakers    == Takers \cup {"pick"}

LEMMA Recount ==
  ASSUME NEW t \in Threads, \A u \in Threads : u # t => th'[u] = th[u], NEW P
  PROVE  /\ Cardinality(Inside(P)) \in Nat /\ Cardinality(Inside(P)') \in Nat
         /\ th[t].at \in P => Cardinality(Inside(P)) > 0
         /\ Cardinality(Inside(P)') =
              CASE th[t].at \in P /\ th'[t].at \notin P -> Cardinality(Inside(P)) - 1
                [] th[t].at \notin P /\ th'[t].at \in P -> Cardinality(Inside(P)) + 1
                [] OTHER -> Cardinality(Inside(P))
<1>1. PICK S : S = Inside(P)
  OBVIOUS
<1>2. PICK R : R = Inside(P)'
  OBVIOUS
<1>3. IsFiniteSet(S) /\ Cardinality(S) \in Nat /\ IsFiniteSet(R) /\ Cardinality(R) \in Nat
  <2>1. S \subseteq Threads /\ R \subseteq Threads
    BY <1>1, <1>2 DEF Inside
  <2> QED BY <2>1, AcceptAssumption, FS_Subset, FS_CardinalityType
<1>4. t \in S <=> th[t].at \in P
  BY <1>1 DEF Inside
<1>5. t \in R <=> th'[t].at \in P
  BY <1>2 DEF Inside
<1>6. S \ {t} = R \ {t}
  BY <1>1, <1>2 DEF Inside
<1>7. CASE t \in S /\ t \notin R
  <2>1. R = S \ {t}
    BY <1>6, <1>7
  <2>2. Cardinality(R) = Cardinality(S) - 1
    BY <1>3, <1>7, <2>1, FS_RemoveElement
  <2> QED BY <1>1, <1>2, <1>3, <1>4, <1>5, <1>7, <2>2
<1>8. CASE t \notin S /\ t \in R
  <2>1. R = S \cup {t}
    BY <1>6, <1>8
  <2>2. Cardinality(R) = Cardinality(S) + 1
    BY <1>3, <1>8, <2>1, FS_AddElement
  <2> QED BY <1>1, <1>2, <1>3, <1>4, <1>5, <1>8, <2>2
<1>9. CASE t \in S <=> t \in R
  <2>1. R = S
    BY <1>6, <1>9
  <2>2. t \in S => Cardinality(S) # 0
    BY <1>3, FS_EmptySet
  <2> QED BY <1>1, <1>2, <1>3, <1>4, <1>5, <1>9, <2>1, <2>2
<1> QED BY <1>7, <1>8, <1>9

LEMMA FreeCount ==
  ASSUME TypeInv PROVE IsFiniteSet(free) /\ Cardinality(free) \in Nat
BY AcceptAssumption, FS_Subset, FS_CardinalityType DEF TypeInv

(* NoLostWakeup in numbers. *)
Enough(waiting, sessions, takers, wakers) ==
  waiting <= wakers \/ sessions <= takers

LEMMA WakeupNumbers ==
  /\ NoLostWakeup <=> (~stop => Enough(Len(waitQueue), Cardinality(free),
                                       Cardinality(Inside(Takers)),
                                       Cardinality(Inside(Wakers))))
  /\ NoLostWakeup' <=> (~stop' => Enough(Len(waitQueue'), Cardinality(free'),
                                         Cardinality(Inside(Takers)'),
                                         Cardinality(Inside(Wakers)')))
<1>1. {t \in Threads : th[t].at \in {"rewait", "look", "take"}} = Inside(Takers)
      /\ {t \in Threads : th'[t].at \in {"rewait", "look", "take"}} = Inside(Takers)'
  BY DEF Inside, Takers
<1>2. {t \in Threads : th[t].at \in {"rewait", "look", "take"}}
        \cup {t \in Threads : th[t].at = "pick"} = Inside(Wakers)
      /\ {t \in Threads : th'[t].at \in {"rewait", "look", "take"}}
        \cup {t \in Threads : th'[t].at = "pick"} = Inside(Wakers)'
  BY DEF Inside, Wakers, Takers
<1> QED BY <1>1, <1>2 DEF NoLostWakeup, Enough

(* Outside ReWaiting: the pool and the queue do not grow. *)
LEMMA OutsideWakes ==
  ASSUME TypeInv, NoLostWakeup, NEW t \in Threads,
         th[t].at \notin Wakers, th'[t].at \notin Wakers,
         \A u \in Threads : u # t => th'[u] = th[u],
         main' = main, waitQueue' = waitQueue, free' \subseteq free
  PROVE  NoLostWakeup'
<1>1. th[t].at \notin Takers /\ th'[t].at \notin Takers
  BY DEF Wakers
<1>2. /\ Cardinality(Inside(Takers)') = Cardinality(Inside(Takers))
      /\ Cardinality(Inside(Takers)) \in Nat
  BY <1>1, Recount
<1>3. Cardinality(Inside(Wakers)') = Cardinality(Inside(Wakers))
  BY Recount
<1>4. /\ Cardinality(free) \in Nat /\ Cardinality(free') \in Nat
      /\ Cardinality(free') <= Cardinality(free)
  BY FreeCount, FS_Subset, FS_CardinalityType
<1>5. stop' = stop
  BY DEF stop
<1>6. PICK f, g, k : f = Cardinality(free) /\ g = Cardinality(free')
                     /\ k = Cardinality(Inside(Takers))
  OBVIOUS
<1>7. f <= k => g <= k
  BY <1>2, <1>4, <1>6
<1> QED BY <1>2, <1>3, <1>5, <1>6, <1>7, WakeupNumbers DEF Enough

LEMMA OutsideSteps ==
  ASSUME TypeInv, NoLostWakeup, NEW t \in Threads,
         \/ ExecuteClear(t) \/ ErrorRearms(t) \/ AcceptChecks(t) \/ AcceptPops(t)
         \/ Arm(t) \/ Drop(t) \/ Give(t) \/ ListenerExits(t)
         \/ \E o \in Acceptors : Execute(t, o) \/ Error(t, o)
         \/ \E s \in Sessions : Release(t, s)
  PROVE  NoLostWakeup'
<1> DEFINE Out == {"idle", "clear", "error", "accept", "pop", "arm", "drop", "insert",
                   "push", "give", "gone"}
<1>1. /\ main' = main /\ waitQueue' = waitQueue /\ free' \subseteq free
      /\ th[t].at \in Out
  <2>1. main' = main /\ waitQueue' = waitQueue
    BY DEF ExecuteClear, ErrorRearms, AcceptChecks, AcceptPops, Arm, Drop, Give,
           ListenerExits, Execute, Error, Release
  <2>2. free' \subseteq free
    BY DEF ExecuteClear, ErrorRearms, AcceptChecks, AcceptPops, Arm, Drop, Give,
           ListenerExits, Execute, Error, Release, poolVars
  <2>3. th[t].at \in Out
    BY DEF ExecuteClear, ErrorRearms, AcceptChecks, AcceptPops, Arm, Drop, Give,
           ListenerExits, Execute, Error, Release, Ready, At
  <2> QED BY <2>1, <2>2, <2>3
<1>2. \E p \in Out : \E o, s, then : Moves(t, p, o, s, then)
  <2>1. CASE ExecuteClear(t)
    BY <2>1, ExecuteClearMoves
  <2>2. CASE ErrorRearms(t) \/ AcceptChecks(t)
    BY <2>2, RearmMoves
  <2>3. CASE AcceptPops(t)
    BY <2>3, AcceptPopsMoves
  <2>4. CASE Arm(t)
    BY <2>4, ArmMoves
  <2>5. CASE Drop(t)
    BY <2>5, DropMoves
  <2>6. CASE Give(t)
    BY <2>6, GiveMoves
  <2>7. CASE ListenerExits(t)
    <3>1. th[t].at = "idle" /\ th[t].obj = None /\ th[t].keep = None /\ th[t].then = None
      BY <2>7, ReadyFacts DEF ListenerExits
    <3>2. Moves(t, "gone", th[t].obj, th[t].keep, th[t].then)
      BY <2>7, <3>1, GotoMoves DEF ListenerExits, Places, ObjPlaces, KeepPlaces, ThenPlaces
    <3> QED BY <3>2
  <2>8. ASSUME NEW o \in Acceptors, Execute(t, o) \/ Error(t, o)
        PROVE  \E p \in Out : \E q, s, then : Moves(t, p, q, s, then)
    BY <2>8, ExecuteMoves, ErrorMoves
  <2>9. ASSUME NEW s \in Sessions, Release(t, s)
        PROVE  \E p \in Out : \E q, r, then : Moves(t, p, q, r, then)
    BY <2>9, ReleaseMoves
  <2> QED BY <2>1, <2>2, <2>3, <2>4, <2>5, <2>6, <2>7, <2>8, <2>9
<1>3. th'[t].at \in Out /\ \A u \in Threads : u # t => th'[u] = th[u]
  BY <1>2 DEF Moves
<1>4. \A p \in Out : p \notin Wakers
  BY DEF Wakers, Takers
<1> HIDE DEF Out
<1> QED BY <1>1, <1>3, <1>4, OutsideWakes

(* Inside: whoever leaves has seen an empty queue or an empty pool, or takes
   along an acceptor or a session. *)
LEMMA InsideSteps ==
  ASSUME TypeInv, NoLostWakeup, NEW t \in Threads,
         \/ InsertWait(t) \/ PushSession(t) \/ ReWaiting(t) \/ Look(t) \/ Take(t)
         \/ Pick(t)
  PROVE  NoLostWakeup'
<1>1. SUFFICES ASSUME ~stop, ~stop'
               PROVE  Enough(Len(waitQueue'), Cardinality(free'),
                             Cardinality(Inside(Takers)'),
                             Cardinality(Inside(Wakers)'))
  <2>1. stop' = stop
    BY DEF InsertWait, PushSession, ReWaiting, Look, Take, Pick, stop
  <2> QED BY <2>1, WakeupNumbers
<1>2. PICK n, m, f, g : /\ n = Len(waitQueue) /\ m = Len(waitQueue')
                        /\ f = Cardinality(free) /\ g = Cardinality(free')
  OBVIOUS
<1>3. PICK k, l, w, x : /\ k = Cardinality(Inside(Takers)) /\ l = Cardinality(Inside(Takers)')
                        /\ w = Cardinality(Inside(Wakers)) /\ x = Cardinality(Inside(Wakers)')
  OBVIOUS
<1>4. /\ waitQueue \in Seq(Acceptors) /\ n \in Nat
      /\ IsFiniteSet(free) /\ f \in Nat
      /\ waitQueue = <<>> <=> n = 0
      /\ free = {} <=> f = 0
  <2>1. waitQueue \in Seq(Acceptors)
    BY DEF TypeInv
  <2>2. waitQueue = <<>> <=> n = 0
    BY <1>2, <2>1, EmptySeq
  <2> QED BY <1>2, <2>1, <2>2, LenProperties, FreeCount, FS_EmptySet
<1>5. n <= w \/ f <= k
  BY <1>1, <1>2, <1>3, WakeupNumbers DEF Enough
<1>6. SUFFICES m <= x \/ g <= l
  BY <1>2, <1>3 DEF Enough
<1>7. ASSUME NEW p, NEW o, NEW s, NEW then, Moves(t, p, o, s, then)
      PROVE  /\ k \in Nat /\ l \in Nat /\ w \in Nat /\ x \in Nat
             /\ th[t].at \in Takers => k > 0
             /\ th[t].at \in Wakers => w > 0
             /\ l = CASE th[t].at \in Takers /\ p \notin Takers -> k - 1
                      [] th[t].at \notin Takers /\ p \in Takers -> k + 1
                      [] OTHER -> k
             /\ x = CASE th[t].at \in Wakers /\ p \notin Wakers -> w - 1
                      [] th[t].at \notin Wakers /\ p \in Wakers -> w + 1
                      [] OTHER -> w
  <2>1. th'[t].at = p /\ \A u \in Threads : u # t => th'[u] = th[u]
    BY <1>7 DEF Moves
  <2> QED BY <1>3, <2>1, Recount
<1>8. CASE InsertWait(t)
  <2>1. th[t].at = "insert" /\ th[t].obj \in Acceptors /\ Moves(t, "rewait", None, None, None)
    BY <1>8, InsertMoves
  <2>2. free' = free /\ waitQueue' = Append(waitQueue, th[t].obj)
    BY <1>8 DEF InsertWait, poolVars
  <2>3. m = n + 1 /\ g = f
    BY <1>2, <1>4, <2>1, <2>2, AppendProperties
  <2>4. k \in Nat /\ w \in Nat /\ l = k + 1 /\ x = w + 1
    BY <1>7, <2>1 DEF Takers, Wakers
  <2> QED BY <1>4, <1>5, <2>3, <2>4
<1>9. CASE PushSession(t)
  <2>1. th[t].at = "push" /\ th[t].keep \in Sessions
        /\ Moves(t, "rewait", None, None, th[t].then)
    BY <1>9, PushMoves
  <2>2. free' = free \cup {th[t].keep} /\ waitQueue' = waitQueue
    BY <1>9 DEF PushSession
  <2>3. m = n /\ g \in Nat /\ g <= f + 1
    <3>1. Cardinality(free \cup {th[t].keep}) =
            IF th[t].keep \in free THEN Cardinality(free) ELSE Cardinality(free) + 1
      BY <1>4, FS_AddElement
    <3> QED BY <1>2, <1>4, <2>2, <3>1
  <2>4. k \in Nat /\ w \in Nat /\ l = k + 1 /\ x = w + 1
    BY <1>7, <2>1 DEF Takers, Wakers
  <2> QED BY <1>4, <1>5, <2>3, <2>4
<1>10. CASE ReWaiting(t) \/ (Look(t) /\ waitQueue # <<>>)
  <2>1. PICK p \in {"look", "take"} : Goto(t, p)
    BY <1>1, <1>10 DEF ReWaiting, Look
  <2>2. th[t].at \in {"rewait", "look"}
    BY <1>10 DEF ReWaiting, Look, At
  <2>3. Moves(t, p, th[t].obj, th[t].keep, th[t].then)
    BY <2>1, <2>2, GotoMoves DEF Places, ObjPlaces, KeepPlaces, ThenPlaces
  <2>4. l = k /\ x = w
    BY <1>7, <2>2, <2>3 DEF Takers, Wakers
  <2>5. free' = free /\ waitQueue' = waitQueue
    BY <1>10 DEF ReWaiting, Look, poolVars
  <2> QED BY <1>2, <1>5, <2>4, <2>5
<1>11. CASE Look(t) /\ waitQueue = <<>>
  <2>1. m = 0
    BY <1>2, <1>4, <1>11 DEF Look
  <2>2. Finish(t)
    BY <1>11 DEF Look
  <2>3. x \in Nat
    BY <1>7, <2>2, FinishMoves
  <2> QED BY <2>1, <2>3
<1>12. CASE Take(t) /\ free = {}
  <2>1. Finish(t) /\ free' = free
    BY <1>12 DEF Take
  <2>2. l \in Nat
    BY <1>7, <2>1, FinishMoves
  <2>3. g = 0
    BY <1>2, <1>4, <1>12, <2>1
  <2> QED BY <2>2, <2>3
<1>13. CASE Take(t) /\ free # {}
  <2>1. th[t].at = "take" /\ waitQueue' = waitQueue
    BY <1>13, TakeMoves DEF Take
  <2>2. PICK s \in free : free' = free \ {s} /\ Moves(t, "pick", None, s, th[t].then)
    <3>1. \E s \in free : free' = free \ {s}
      BY <1>13 DEF Take
    <3>2. free' # free
      BY <3>1
    <3> QED BY <1>13, <3>2, TakeMoves
  <2>3. m = n /\ g = f - 1
    BY <1>2, <1>4, <2>1, <2>2, FS_RemoveElement
  <2>4. k \in Nat /\ l = k - 1 /\ x = w
    BY <1>7, <2>1, <2>2 DEF Takers, Wakers
  <2> QED BY <1>4, <1>5, <2>3, <2>4
<1>14. CASE Pick(t) /\ waitQueue = <<>>
  <2>1. m = 0
    BY <1>2, <1>4, <1>14 DEF Pick
  <2>2. x \in Nat
    BY <1>7, <1>14, PickMoves
  <2> QED BY <2>1, <2>2
<1>15. CASE Pick(t) /\ waitQueue # <<>>
  <2>1. waitQueue' = Tail(waitQueue) /\ free' = free
    BY <1>15 DEF Pick, poolVars
  <2>2. m = n - 1 /\ g = f
    BY <1>2, <1>4, <1>15, <2>1, HeadTailProperties
  <2>3. th[t].at = "pick"
        /\ \E p \in {"drop", "give"} : \E o, s, then : Moves(t, p, o, s, then)
    BY <1>15, PickMoves
  <2>4. k \in Nat /\ w \in Nat /\ l = k /\ x = w - 1
    BY <1>7, <2>3 DEF Takers, Wakers
  <2> QED BY <1>4, <1>5, <2>2, <2>4
<1> QED BY <1>8, <1>9, <1>10, <1>11, <1>12, <1>13, <1>14, <1>15

(* No wakeup is lost between the locks of ReWaiting: until the shutdown every
   waiting acceptor or every free session has a thread of its own that is about
   to take it. *)
THEOREM NoLostWakeupAlways == Spec => []NoLostWakeup
<1>1. Init => NoLostWakeup
  <2> SUFFICES ASSUME Init PROVE NoLostWakeup
    OBVIOUS
  <2>1. TypeInv
    BY InitTypes
  <2>2. PICK t : t = Cardinality(Inside(Takers))
    OBVIOUS
  <2>3. PICK w : w = Cardinality(Inside(Wakers))
    OBVIOUS
  <2>4. t \in Nat /\ w \in Nat
    <3>1. Inside(Takers) \subseteq Threads /\ Inside(Wakers) \subseteq Threads
      BY DEF Inside
    <3> QED BY <2>2, <2>3, <3>1, AcceptAssumption, FS_Subset, FS_CardinalityType
  <2>5. free = {} \/ waitQueue = <<>>
    <3>1. PICK given \in [Acceptors -> Sessions \cup {None}] :
            /\ (\E o \in Acceptors : given[o] = None) => free = {}
            /\ waitQueue \in [1 .. Cardinality({o \in Acceptors : given[o] = None})
                                -> {o \in Acceptors : given[o] = None}]
      BY DEF Init
    <3>2. CASE \E o \in Acceptors : given[o] = None
      BY <3>1, <3>2
    <3>3. CASE ~\E o \in Acceptors : given[o] = None
      <4>1. {o \in Acceptors : given[o] = None} = {}
        BY <3>3
      <4>2. waitQueue \in [1 .. 0 -> {}]
        BY <3>1, <4>1, FS_EmptySet
      <4>3. waitQueue \in Seq(Acceptors) /\ DOMAIN waitQueue = 1 .. 0
        BY <2>1, <4>2 DEF TypeInv
      <4>4. Len(waitQueue) = 0
        BY <4>3, LenProperties
      <4> QED BY <4>3, <4>4, EmptySeq
    <3> QED BY <3>2, <3>3
  <2>6. Cardinality(free) = 0 \/ Len(waitQueue) = 0
    BY <2>5, FS_EmptySet, EmptySeq
  <2>7. Enough(Len(waitQueue), Cardinality(free), t, w)
    BY <2>4, <2>6 DEF Enough
  <2> QED BY <2>2, <2>3, <2>7, WakeupNumbers
<1>2. Inv /\ NoLostWakeup /\ [Next]_vars => NoLostWakeup'
  <2> SUFFICES ASSUME Inv, NoLostWakeup, [Next]_vars PROVE NoLostWakeup'
    OBVIOUS
  <2>1. TypeInv
    BY DEF Inv
  <2>2. ASSUME (\E o \in Acceptors : AcceptSucceeds(o) \/ AcceptFails(o)) \/ ShutdownStep \/ UNCHANGED vars
        PROVE  NoLostWakeup'
    <3>1. /\ th' = th /\ free' = free /\ (stop => stop')
          /\ stop' \/ waitQueue' = waitQueue
      BY <2>2 DEF AcceptSucceeds, AcceptFails, ShutdownStep, RaiseStop, CloseListen, ClearWaitQueue,
                  StopListeners, vars, poolVars, stop
    <3> QED BY <3>1 DEF NoLostWakeup
  <2> QED BY <2>1, <2>2, OutsideSteps, InsideSteps DEF Next, Step
<1> QED BY <1>1, <1>2, InvAlways, PTL DEF Spec
=============================================================================
