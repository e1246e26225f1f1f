------------------------------- MODULE MCRoom -------------------------------
EXTENDS Room

CONSTANTS s1, s2, s3, s4

(* s4 has come back on the SOCKET that s3 once had. *)
MCSocketOf == (s1 :> 1) @@ (s2 :> 2) @@ (s3 :> 3) @@ (s4 :> 3)

Limit(g, c, f, j, m) ==
  [grain |-> g, clock |-> c, fails |-> f, joins |-> j, moves |-> m]

(* Membership at a standstill; two movers, early and late in the uptime of the
   server; three members of which one moves. *)
MCLimits == {Limit(1, 0, 2, 5, 0), Limit(1, 4, 1, 2, 2), Limit(2, 5, 0, 2, 2),
             Limit(1, 4, 0, 3, 1), Limit(1, 7, 0, 1, 3)}
=============================================================================
