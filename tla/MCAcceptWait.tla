---------------------------- MODULE MCAcceptWait ----------------------------
EXTENDS AcceptWait

CONSTANTS l1, l2, t1

(* Two threads of the listen IOCP and another one that drops sessions: all
   three may be inside ReWaiting at once, two with an acceptor in hand. *)
SomeThreads == {l1, l2, t1}
SomeListeners == {l1, l2}
=============================================================================
