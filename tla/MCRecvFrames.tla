---------------------------- MODULE MCRecvFrames ----------------------------
EXTENDS RecvFrames

(* Bodies of none, of one byte, of the whole buffer, and one byte too many. *)
SomeSizes == {0, 1, BufferSize - HeaderSize, BufferSize - HeaderSize + 1}
=============================================================================
