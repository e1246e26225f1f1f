----------------------------- MODULE FifoOutbox -----------------------------
(***************************************************************************)
(* What the send half of a session promises to whoever queues chunks on    *)
(* it, with no threads, flags or locks: chunks wait in one line, leave it  *)
(* only from the front, and reach the peer in the order in which they were *)
(* queued.  A send that fails, or is carried out in part, may lose chunks, *)
(* but only a run of them at the front of the line; nothing is reordered   *)
(* or sent twice.                                                          *)
(***************************************************************************)
EXTENDS Naturals, Sequences

VARIABLES
  pending,   \* chunks accepted and not yet handed over or lost, oldest first
  wire,      \* chunks the peer of the current connection received whole
  made       \* number of chunks queued so far; chunk k is the k-th one

outboxVars == <<pending, wire, made>>

OutboxInit ==
  /\ pending = <<>>
  /\ wire = <<>>
  /\ made = 0

(* The next chunk joins the end of the line. *)
Accept ==
  /\ made' = made + 1
  /\ pending' = Append(pending, made + 1)
  /\ UNCHANGED wire

(* The first n chunks leave the line; the peer gets the first m of them. *)
Flush(m, n) ==
  /\ m <= n
  /\ wire' = wire \o SubSeq(pending, 1, m)
  /\ pending' = SubSeq(pending, n + 1, Len(pending))
  /\ UNCHANGED made

(* The session object starts to serve another connection. *)
Reconnect ==
  /\ wire' = <<>>
  /\ UNCHANGED <<pending, made>>

OutboxNext ==
  \/ Accept
  \/ \E n \in 0 .. Len(pending) : \E m \in 0 .. n : Flush(m, n)
  \/ Reconnect

OutboxSpec == OutboxInit /\ [][OutboxNext]_outboxVars
=============================================================================
