---------------------------- MODULE MCSendBuffers ----------------------------
EXTENDS SendBuffers, TLC

CONSTANTS t1, t2, b1, b2, p1, p2, s1

MCFirstPool == <<b1, b2>>

(* Contents are never looked at, threads differ in nothing, and buffers in
   nothing after Init: states that differ by such names have the same future. *)
MCSymmetry == Permutations({p1, p2}) \cup Permutations({t1, t2})
              \cup Permutations({b1, b2})
=============================================================================
