----------------------------- MODULE MCRoomJobs -----------------------------
EXTENDS RoomJobs

CONSTANTS w1, w2

(* Two workers may both have passed the test of m_Stop when it is raised, and
   may push to one room or to two. *)
TwoWorkers == {w1, w2}
=============================================================================
