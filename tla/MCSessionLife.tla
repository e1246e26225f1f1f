--------------------------- MODULE MCSessionLife ---------------------------
EXTENDS SessionLife, TLC

(* Sessions, handles and workers are each interchangeable; used only by runs
   without liveness. *)
LifeSymmetry ==
  Permutations(Sessions) \cup Permutations(Handles) \cup Permutations(Workers)
=============================================================================
