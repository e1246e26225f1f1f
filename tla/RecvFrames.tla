----------------------------- MODULE RecvFrames -----------------------------
(***************************************************************************)
(* The receive half of one SessionData object: RecvBuffer, the loop of     *)
(* SessionData::Recv that cuts the TCP stream into packets, and what the   *)
(* buffer carries into the next connection when the object is pooled.      *)
(*                                                                         *)
(* A packet is HeaderSize bytes of header and a body.  A byte is a record  *)
(* of the packet it belongs to and its offset there, so that a header read *)
(* at a wrong place is recognised: its size may then be anything.  One     *)
(* thread at a time is in this code (a WSARecv is posted at its end).      *)
(*                                                                         *)
(* m_readPos is 0 whenever no method of RecvBuffer runs (SetReadPos ends   *)
(* in Clear, which moves the rest to the front), so that `data' stands for *)
(* m_buffer[0 .. m_writePos - 1].                                          *)
(***************************************************************************)
EXTENDS Naturals, Sequences, SequencesExt

CONSTANTS
  HeaderSize,   \* PacketID_SIZE
  BufferSize,   \* PACKET_SIZE
  BodySizes,    \* values of the _size field that are looked at
  MaxPackets,   \* bound: packets sent, over all connections
  MaxConns      \* bound: connections the object serves

ASSUME FramesAssumption ==
  /\ HeaderSize \in Nat \ {0} /\ BufferSize \in Nat /\ BufferSize > HeaderSize
  /\ BodySizes \subseteq Nat
  /\ MaxPackets \in Nat /\ MaxConns \in Nat \ {0}

VARIABLES
  data,      \* what m_buffer holds
  header,    \* m_PacketHeader._size
  pc,        \* a WSARecv is pending, a packet is to be handled, or the end
  stream,    \* bytes the client sent that were not received yet
  sent,      \* packets the client sent on this connection
  handled,   \* byte strings given to PacketHandler::Dispatch as packets
  fresh,     \* the buffer was empty when the connection began
  made,      \* packets sent so far
  conns      \* connections so far

vars == <<data, header, pc, stream, sent, handled, fresh, made, conns>>

Bytes(p) == [k \in 1 .. HeaderSize + p.size |-> [p |-> p, k |-> k]]

Init ==
  /\ data = <<>>
  /\ header = 0
  /\ pc = "recv"
  /\ stream = <<>>
  /\ sent = <<>>
  /\ handled = <<>>
  /\ fresh = TRUE
  /\ made = 0
  /\ conns = 1

-----------------------------------------------------------------------------
(* RecvBuffer. *)

(* The first HeaderSize bytes of d are the header of a packet. *)
Genuine(d) == \A k \in 1 .. HeaderSize : d[k] = [p |-> d[1].p, k |-> k]

(* Values of the _size field at the front of d. *)
SizeFields(d) == IF Genuine(d) THEN {d[1].p.size} ELSE BodySizes

(* Faulty variants: the data is always dropped; an over-long size field stays
   behind when its data is given up. *)
ClearAlways(d, size) == data' = <<>> /\ header' = 0

ClearDataOnly(d, size) ==
  /\ data' = IF size <= BufferSize - HeaderSize THEN d ELSE <<>>
  /\ header' = size

(* Clear: a packet that cannot fit is given up with all the data there is;
   otherwise the rest has been moved to the front, and a buffer without any
   is reset. *)
Clear(d, size) ==
  LET keep == size <= BufferSize - HeaderSize /\ d # <<>>
  IN  /\ data' = IF keep THEN d ELSE <<>>
      /\ header' = IF keep THEN size ELSE 0

(* Faulty variant: an over-long packet is kept. *)
DivideKeeps(d, size) ==
  LET whole == Len(d) >= HeaderSize /\ size <= Len(d) - HeaderSize
  IN  /\ pc' = IF whole THEN "handle" ELSE "recv"
      /\ data' = d
      /\ header' = size

(* DivideBuffer, the bytes received being in d: is there a whole packet? *)
DivideBuffer(d, size) ==
  LET whole == Len(d) >= HeaderSize /\ size <= Len(d) - HeaderSize
  IN  /\ pc' = IF whole THEN "handle" ELSE "recv"
      /\ IF whole THEN data' = d /\ header' = size ELSE Clear(d, size)

(* DivideBuffer with the header that it reads first, if one is there. *)
ReadAndDivide(d, size) ==
  IF Len(d) >= HeaderSize THEN \E s \in SizeFields(d) : DivideBuffer(d, s)
                          ELSE DivideBuffer(d, size)

-----------------------------------------------------------------------------
(* The client sends a packet; good says whether its handler accepts it. *)
Send(size, good) ==
  /\ pc # "closed"
  /\ made < MaxPackets
  /\ made' = made + 1
  /\ LET p == [id |-> made + 1, size |-> size, good |-> good]
     IN  /\ sent' = Append(sent, p)
         /\ stream' = stream \o Bytes(p)
  /\ UNCHANGED <<data, header, pc, handled, fresh, conns>>

(* The room that RecvStart offers to WSARecv: GetWriteBufferSize(). *)
WriteBufferSize == BufferSize - Len(data)

(* A WSARecv completes with n bytes, and Recv begins its loop. *)
Receive(n) ==
  /\ pc = "recv"
  /\ n <= Len(stream)
  /\ n <= WriteBufferSize
  /\ stream' = SubSeq(stream, n + 1, Len(stream))
  /\ ReadAndDivide(data \o SubSeq(stream, 1, n), header)
  /\ UNCHANGED <<sent, handled, fresh, made, conns>>

(* Faulty variants: one packet is handled per completion; what follows the
   first packet of a completion is dropped. *)
HandleOne ==
  LET n == HeaderSize + header
  IN  /\ pc = "handle"
      /\ Genuine(data) => data[1].p.good
      /\ handled' = Append(handled, SubSeq(data, 1, n))
      /\ data' = SubSeq(data, n + 1, Len(data))
      /\ header' = 0
      /\ pc' = "recv"
      /\ UNCHANGED <<stream, sent, fresh, made, conns>>

HandleDropsRest ==
  /\ pc = "handle"
  /\ Genuine(data) => data[1].p.good
  /\ handled' = Append(handled, SubSeq(data, 1, HeaderSize + header))
  /\ ReadAndDivide(<<>>, 0)
  /\ UNCHANGED <<stream, sent, fresh, made, conns>>

(* PacketHandler::Dispatch accepts the packet; SetReadPos consumes it, and the
   loop goes on. *)
Handle ==
  LET n == HeaderSize + header
      rest == SubSeq(data, n + 1, Len(data))
  IN  /\ pc = "handle"
      /\ Genuine(data) => data[1].p.good
      /\ handled' = Append(handled, SubSeq(data, 1, n))
      /\ ReadAndDivide(rest, IF rest = <<>> THEN 0 ELSE header)
      /\ UNCHANGED <<stream, sent, fresh, made, conns>>

(* ... or refuses it: Recv returns false and the session is left. *)
Refuse ==
  /\ pc = "handle"
  /\ Genuine(data) => ~data[1].p.good
  /\ pc' = "closed"
  /\ UNCHANGED <<data, header, stream, sent, handled, fresh, made, conns>>

(* The connection ends while a WSARecv is pending. *)
PeerLeaves ==
  /\ pc = "recv"
  /\ pc' = "closed"
  /\ UNCHANGED <<data, header, stream, sent, handled, fresh, made, conns>>

(* SessionData::Reset, then another connection: RecvObject::Initialize only
   resizes m_buffer, to the size it has. *)
Reuse ==
  /\ pc = "closed"
  /\ conns < MaxConns
  /\ conns' = conns + 1
  /\ pc' = "recv"
  /\ stream' = <<>>
  /\ sent' = <<>>
  /\ handled' = <<>>
  /\ fresh' = (data = <<>>)
  /\ UNCHANGED <<data, header, made>>

Next ==
  \/ \E size \in BodySizes, good \in BOOLEAN : Send(size, good)
  \/ \E n \in 1 .. Len(stream) : Receive(n)
  \/ Handle
  \/ Refuse
  \/ PeerLeaves
  \/ Reuse

Spec == Init /\ [][Next]_vars

-----------------------------------------------------------------------------
Packets == [id : Nat, size : BodySizes, good : BOOLEAN]

TypeOK ==
  /\ data \in Seq([p : Packets, k : Nat])
  /\ Len(data) <= BufferSize
  /\ header \in {0} \cup {s \in BodySizes : s <= BufferSize - HeaderSize}
  /\ pc \in {"recv", "handle", "closed"}
  /\ stream \in Seq([p : Packets, k : Nat])
  /\ sent \in Seq(Packets)
  /\ handled \in Seq(Seq([p : Packets, k : Nat]))
  /\ fresh \in BOOLEAN
  /\ made \in 0 .. MaxPackets
  /\ conns \in 1 .. MaxConns

(* No packet of this connection is longer than the buffer. *)
AllFit == \A i \in 1 .. Len(sent) : sent[i].size <= BufferSize - HeaderSize

(* README.md:135, with the buffer empty at the start and no over-long packet:
   what is handled are the packets sent, whole, in order, each once, however
   the stream is cut into completions. *)
HandledAreSent(clean) ==
  clean =>
    /\ Len(handled) <= Len(sent)
    /\ \A i \in 1 .. Len(handled) : handled[i] = Bytes(sent[i])

FramesRight == HandledAreSent(fresh /\ AllFit)

(* No byte is lost, duplicated or reordered between the client and the
   handlers. *)
StreamConserved ==
  fresh /\ AllFit =>
    FlattenSeq(handled) \o data \o stream =
      FlattenSeq([i \in 1 .. Len(sent) |-> Bytes(sent[i])])

(* Nothing waits for bytes it does not need: when the server goes back to
   receiving, a packet that has arrived whole has been handled.  (On a session
   that was closed at a refused packet the condition on `fresh' matters: that
   packet is still in the buffer, see FramesRightAlways.) *)
NothingHeldBack ==
  fresh /\ pc = "recv" /\ Len(data) >= HeaderSize /\ Genuine(data) =>
    Len(data) < HeaderSize + data[1].p.size

(* README.md, section 3-1: no size field, however wrong, fills the buffer for
   good.  A full buffer would post a WSARecv of no bytes, whose completion
   reads as the end of the connection; a session closed at a refused packet
   that filled the buffer is pooled, and starts again, in that state. *)
RoomToReceive == fresh /\ pc = "recv" => WriteBufferSize > 0

(* README.md:135 without those conditions on the buffer: it holds for every
   connection, also of a session that served another one before. *)
FramesRightAlways == HandledAreSent(AllFit)
=============================================================================
