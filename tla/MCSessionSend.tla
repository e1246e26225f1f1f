--------------------------- MODULE MCSessionSend ---------------------------
EXTENDS SessionSend

CONSTANTS t1, t2, t3

(* One thread that posts, one that takes its completion, and one that queues
   chunks meanwhile; with two, the completion is never taken while both others
   stand inside InsertSendQueue and Send. *)
ThreeThreads == {t1, t2, t3}
=============================================================================
