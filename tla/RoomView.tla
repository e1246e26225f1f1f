------------------------------ MODULE RoomView ------------------------------
(***************************************************************************)
(* What a room promises to its clients about who is in it, with no         *)
(* packets, batches, maps or positions: a client that enters is told of    *)
(* the members, the members are told of it, and of those who go.  When     *)
(* packets cannot be made a client may miss members, and then it is marked *)
(* (gap); the id of a member whose going could not be told is never given  *)
(* out again, so that nobody takes a newcomer for it.                      *)
(***************************************************************************)
EXTENDS FiniteSets

CONSTANTS Sessions, Ids, NoId

VARIABLES
  member,  \* the id of each member, NoId for a session that is none
  knows,   \* ids that a client takes for the other members
  gap,     \* members that were not told of everything
  retired  \* ids that are never given out again

viewVars == <<member, knows, gap, retired>>

Members == {t \in Sessions : member[t] # NoId}
Taken   == {member[t] : t \in Members}

ViewInit ==
  /\ member = [t \in Sessions |-> NoId]
  /\ knows = [t \in Sessions |-> {}]
  /\ gap = {}
  /\ retired = {}

(* s enters as i, the members hear of it, and it is told of those in `known`. *)
Join(s, i) ==
  /\ s \notin Members
  /\ i \notin Taken \cup retired
  /\ member' = [member EXCEPT ![s] = i]
  /\ \E known \in SUBSET Taken :
       /\ knows' = [t \in Sessions |->
                      CASE t = s -> known
                        [] t \in Members -> knows[t] \cup {i}
                        [] OTHER -> knows[t]]
       /\ gap' = IF known = Taken THEN gap ELSE gap \cup {s}
  /\ UNCHANGED retired

(* s goes, and the others are told. *)
Part(s) ==
  /\ s \in Members
  /\ member' = [member EXCEPT ![s] = NoId]
  /\ knows' = [t \in Sessions |->
                 IF t = s THEN {} ELSE knows[t] \ {member[s]}]
  /\ gap' = gap \ {s}
  /\ UNCHANGED retired

(* s goes, and nobody can be told. *)
PartUntold(s) ==
  /\ s \in Members
  /\ member' = [member EXCEPT ![s] = NoId]
  /\ knows' = [knows EXCEPT ![s] = {}]
  /\ gap' = (gap \cup Members) \ {s}
  /\ retired' = retired \cup {member[s]}

ViewNext ==
  \E s \in Sessions :
    \/ \E i \in Ids : Join(s, i)
    \/ Part(s)
    \/ PartUntold(s)

ViewSpec == ViewInit /\ [][ViewNext]_viewVars

(* The promise: ids tell members apart, and a client that missed nothing
   knows exactly the other members. *)
ViewRight ==
  /\ \A t, u \in Members : member[t] = member[u] => t = u
  /\ \A t \in Members \ gap : knows[t] = Taken \ {member[t]}
=============================================================================
