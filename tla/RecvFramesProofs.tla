-------------------------- MODULE RecvFramesProofs --------------------------
(***************************************************************************)
(* The loop of SessionData::Recv on a TCP stream, proved for any sizes of  *)
(* header, buffer and packets and any cutting of the stream: what is       *)
(* handled are the packets sent, no byte is lost, nothing is held back and *)
(* the buffer never fills up for good.                                     *)
(***************************************************************************)
EXTENDS RecvFrames, SeqLemmas

StreamByte == [p : Packets, k : Nat]

FitSizes == {0} \cup {s \in BodySizes : s <= BufferSize - HeaderSize}

TypeInv ==
  /\ data \in Seq(StreamByte)
  /\ Len(data) <= BufferSize
  /\ header \in FitSizes
  /\ pc \in {"recv", "handle", "closed"}
  /\ stream \in Seq(StreamByte)
  /\ sent \in Seq(Packets)
  /\ handled \in Seq(Seq(StreamByte))
  /\ fresh \in BOOLEAN
  /\ made \in 0 .. MaxPackets
  /\ conns \in 1 .. MaxConns
  /\ pc = "handle" => HeaderSize + header <= Len(data)

-----------------------------------------------------------------------------
(* A sequence cut in two. *)
LEMMA Cut ==
  ASSUME NEW S, NEW s \in Seq(S), NEW n \in Nat, n <= Len(s)
  PROVE  /\ SubSeq(s, 1, n) \in Seq(S) /\ Len(SubSeq(s, 1, n)) = n
         /\ \A i \in 1 .. n : SubSeq(s, 1, n)[i] = s[i]
         /\ SubSeq(s, n + 1, Len(s)) \in Seq(S)
         /\ Len(SubSeq(s, n + 1, Len(s))) = Len(s) - n
         /\ \A i \in 1 .. Len(s) - n : SubSeq(s, n + 1, Len(s))[i] = s[n + i]
<1>1. Len(s) \in Nat /\ \A i \in 1 .. Len(s) : s[i] \in S
  BY LenProperties, ElementOfSeq
<1>2. \A i \in 1 .. n : s[i] \in S
  BY <1>1
<1>3. /\ SubSeq(s, 1, n) \in Seq(S)
      /\ Len(SubSeq(s, 1, n)) = IF 1 <= n THEN n - 1 + 1 ELSE 0
      /\ \A i \in 1 .. n - 1 + 1 : SubSeq(s, 1, n)[i] = s[1 + i - 1]
  BY <1>2, SubSeqProperties
<1>4. \A i \in n + 1 .. Len(s) : s[i] \in S
  BY <1>1
<1>5. /\ SubSeq(s, n + 1, Len(s)) \in Seq(S)
      /\ Len(SubSeq(s, n + 1, Len(s))) =
           IF n + 1 <= Len(s) THEN Len(s) - (n + 1) + 1 ELSE 0
      /\ \A i \in 1 .. Len(s) - (n + 1) + 1 :
           SubSeq(s, n + 1, Len(s))[i] = s[(n + 1) + i - 1]
  <2>1. n + 1 \in Int /\ Len(s) \in Int
    BY <1>1
  <2> QED BY <1>4, <2>1, SubSeqProperties
<1>6. \A i \in 1 .. Len(s) - n : SubSeq(s, n + 1, Len(s))[i] = s[n + i]
  <2> TAKE i \in 1 .. Len(s) - n
  <2>1. i \in 1 .. Len(s) - (n + 1) + 1 /\ (n + 1) + i - 1 = n + i
    BY <1>1
  <2> QED BY <1>5, <2>1
<1>7. \A i \in 1 .. n : SubSeq(s, 1, n)[i] = s[i]
  <2> TAKE i \in 1 .. n
  <2>1. i \in 1 .. n - 1 + 1 /\ 1 + i - 1 = i
    OBVIOUS
  <2> QED BY <1>3, <2>1
<1> QED BY <1>1, <1>3, <1>5, <1>6, <1>7

LEMMA CutBytes ==
  ASSUME NEW d \in Seq(StreamByte), NEW n \in Nat, n <= Len(d)
  PROVE  /\ SubSeq(d, 1, n) \in Seq(StreamByte) /\ Len(SubSeq(d, 1, n)) = n
         /\ \A i \in 1 .. n : SubSeq(d, 1, n)[i] = d[i]
         /\ Len(SubSeq(d, n + 1, Len(d))) = Len(d) - n
         /\ \A i \in 1 .. Len(d) - n : SubSeq(d, n + 1, Len(d))[i] = d[n + i]
BY Cut

LEMMA FitIsNat ==
  ASSUME NEW x \in FitSizes PROVE x \in Nat
<1>1. CASE x = 0
  BY <1>1
<1>2. CASE x \in BodySizes
  BY <1>2, FramesAssumption
<1> QED BY <1>1, <1>2 DEF FitSizes

LEMMA BytesFacts ==
  ASSUME NEW p \in Packets
  PROVE  /\ Bytes(p) \in Seq(StreamByte) /\ Len(Bytes(p)) = HeaderSize + p.size
         /\ p.size \in Nat
         /\ \A k \in 1 .. HeaderSize + p.size : Bytes(p)[k] = [p |-> p, k |-> k]
<1>1. p.size \in Nat /\ HeaderSize + p.size \in Nat
  <2>1. p.size \in BodySizes
    BY DEF Packets
  <2>2. p.size \in Nat /\ HeaderSize \in Nat
    BY <2>1, FramesAssumption
  <2> QED BY <2>2
<1>2. \A k \in 1 .. HeaderSize + p.size : [p |-> p, k |-> k] \in StreamByte
  BY <1>1 DEF StreamByte
<1>3. Bytes(p) \in [1 .. HeaderSize + p.size -> StreamByte]
  BY <1>2 DEF Bytes
<1>4. Bytes(p) \in Seq(StreamByte)
  BY <1>1, <1>3, SeqDef
<1>5. Len(Bytes(p)) = HeaderSize + p.size
  <2>1. DOMAIN Bytes(p) = 1 .. HeaderSize + p.size
    BY DEF Bytes
  <2>2. Len(Bytes(p)) \in Nat /\ DOMAIN Bytes(p) = 1 .. Len(Bytes(p))
    BY <1>4, LenProperties
  <2> QED BY <1>1, <2>1, <2>2
<1> QED BY <1>1, <1>4, <1>5 DEF Bytes

LEMMA InitTypes ==
  ASSUME Init PROVE TypeInv
<1>1. data = <<>> /\ stream = <<>> /\ sent = <<>> /\ handled = <<>> /\ header = 0
      /\ pc = "recv" /\ fresh = TRUE /\ made = 0 /\ conns = 1
  BY DEF Init
<1>2. /\ data \in Seq(StreamByte) /\ stream \in Seq(StreamByte)
      /\ sent \in Seq(Packets) /\ handled \in Seq(Seq(StreamByte))
      /\ Len(data) = 0
  BY <1>1, EmptySeq
<1>3. /\ Len(data) <= BufferSize /\ header \in FitSizes
      /\ made \in 0 .. MaxPackets /\ conns \in 1 .. MaxConns
  BY <1>1, <1>2, FramesAssumption DEF FitSizes
<1> QED BY <1>1, <1>2, <1>3 DEF TypeInv

(* What DivideBuffer leaves, its header being the one that it reads, or the old
   one when the data is shorter than a header. *)
Divided(d, size) ==
  /\ data' \in {d, <<>>}
  /\ header' \in FitSizes
  /\ pc' \in {"recv", "handle"}
  /\ pc' = "handle" => data' = d /\ HeaderSize + header' <= Len(d) /\ header' = size
  /\ pc' = "recv" => data' = <<>> \/ (data' = d /\ size <= BufferSize - HeaderSize
                                       /\ Len(d) < HeaderSize + size)
  /\ data' # d => size > BufferSize - HeaderSize

LEMMA DivideFacts ==
  ASSUME NEW d \in Seq(StreamByte), Len(d) <= BufferSize,
         NEW size \in BodySizes \cup {0},
         DivideBuffer(d, size)
  PROVE  Divided(d, size)
<1>1. size \in Nat /\ Len(d) \in Nat /\ HeaderSize \in Nat /\ BufferSize \in Nat
  BY FramesAssumption, LenProperties
<1>2. CASE Len(d) >= HeaderSize /\ size <= Len(d) - HeaderSize
  <2>1. data' = d /\ header' = size /\ pc' = "handle"
    BY <1>2 DEF DivideBuffer
  <2> QED BY <1>1, <1>2, <2>1, FramesAssumption DEF Divided, FitSizes
<1>3. CASE ~(Len(d) >= HeaderSize /\ size <= Len(d) - HeaderSize)
  <2>1. pc' = "recv" /\ Clear(d, size)
    BY <1>3 DEF DivideBuffer
  <2>2. CASE size <= BufferSize - HeaderSize /\ d # <<>>
    BY <1>1, <1>3, <2>1, <2>2, FramesAssumption DEF Divided, FitSizes, Clear
  <2>3. CASE ~(size <= BufferSize - HeaderSize /\ d # <<>>)
    <3>1. data' = <<>> /\ header' = 0
      BY <2>1, <2>3 DEF Clear
    <3>2. data' # d => size > BufferSize - HeaderSize
      BY <1>1, <2>3, <3>1
    <3> QED BY <2>1, <3>1, <3>2 DEF Divided, FitSizes
  <2> QED BY <2>2, <2>3
<1> QED BY <1>2, <1>3

(* The header the loop goes by: read from the data, if a header is there. *)
LEMMA ReadFacts ==
  ASSUME NEW d \in Seq(StreamByte), Len(d) <= BufferSize, NEW old \in FitSizes,
         ReadAndDivide(d, old)
  PROVE  \E size \in BodySizes \cup {0} :
           /\ Divided(d, size)
           /\ Len(d) >= HeaderSize /\ Genuine(d) => size = d[1].p.size
           /\ Len(d) < HeaderSize => size = old
<1>1. Len(d) \in Nat /\ HeaderSize \in Nat \ {0}
  BY FramesAssumption, LenProperties
<1>2. CASE Len(d) >= HeaderSize
  <2>1. PICK s \in SizeFields(d) : DivideBuffer(d, s)
    BY <1>2 DEF ReadAndDivide
  <2>2. s \in BodySizes
    <3>1. d[1] \in StreamByte
      BY <1>1, <1>2, ElementOfSeq
    <3> QED BY <2>1, <3>1 DEF SizeFields, StreamByte, Packets
  <2>3. Divided(d, s)
    BY <2>1, <2>2, DivideFacts
  <2> QED BY <1>1, <1>2, <2>1, <2>2, <2>3 DEF SizeFields
<1>3. CASE Len(d) < HeaderSize
  <2>1. DivideBuffer(d, old) /\ old \in BodySizes \cup {0}
    BY <1>1, <1>3 DEF ReadAndDivide, FitSizes
  <2> QED BY <1>1, <1>3, <2>1, DivideFacts
<1> QED BY <1>1, <1>2, <1>3
(* What the loop needs of the data it is at, whoever left it there. *)
Waiting ==
  /\ NothingHeldBack
  /\ RoomToReceive
  /\ pc = "handle" /\ Genuine(data) => header = data[1].p.size

(* After the loop has looked at d, types and Waiting hold. *)
LEMMA LoopStep ==
  ASSUME NEW d \in Seq(StreamByte), Len(d) <= BufferSize, NEW old \in FitSizes,
         ReadAndDivide(d, old)
  PROVE  /\ data' \in Seq(StreamByte) /\ Len(data') <= BufferSize
         /\ header' \in FitSizes
         /\ pc' \in {"recv", "handle"}
         /\ pc' = "handle" => HeaderSize + header' <= Len(data')
         /\ Waiting'
<1>1. PICK size \in BodySizes \cup {0} :
         /\ Divided(d, size)
         /\ Len(d) >= HeaderSize /\ Genuine(d) => size = d[1].p.size
         /\ Len(d) < HeaderSize => size = old
  BY ReadFacts
<1>2. /\ Len(d) \in Nat /\ HeaderSize \in Nat \ {0} /\ BufferSize \in Nat
      /\ BufferSize > HeaderSize /\ size \in Nat
      /\ <<>> \in Seq(StreamByte) /\ Len(<<>>) = 0
  BY FramesAssumption, LenProperties, EmptySeq
<1>3. header' \in Nat /\ header' \in FitSizes /\ pc' \in {"recv", "handle"}
  <2>1. header' \in FitSizes /\ pc' \in {"recv", "handle"}
    BY <1>1 DEF Divided
  <2>2. header' \in Nat
    BY <2>1, FitIsNat
  <2> QED BY <2>1, <2>2
<1>4. CASE pc' = "handle"
  <2>1. data' = d /\ HeaderSize + header' <= Len(d) /\ header' = size
    BY <1>1, <1>4 DEF Divided
  <2>2. Genuine(data)' => header' = data'[1].p.size
    BY <1>1, <1>2, <1>3, <2>1 DEF Genuine
  <2> QED BY <1>3, <1>4, <2>1, <2>2 DEF Waiting, NothingHeldBack, RoomToReceive
<1>5. CASE pc' = "recv"
  <2>1. CASE data' = <<>>
    BY <1>2, <1>3, <1>5, <2>1
    DEF Waiting, NothingHeldBack, RoomToReceive, WriteBufferSize
  <2>2. CASE /\ data' = d /\ size <= BufferSize - HeaderSize
             /\ Len(d) < HeaderSize + size
    <3>1. Len(data)' < BufferSize
      BY <1>2, <2>2
    <3>2. Len(data)' >= HeaderSize /\ Genuine(data)' =>
            Len(data)' < HeaderSize + data'[1].p.size
      BY <1>1, <1>2, <2>2 DEF Genuine
    <3> QED BY <1>2, <1>3, <1>5, <2>2, <3>1, <3>2
            DEF Waiting, NothingHeldBack, RoomToReceive, WriteBufferSize
  <2> QED BY <1>1, <1>5, <2>1, <2>2 DEF Divided
<1> QED BY <1>3, <1>4, <1>5

Inv == TypeInv /\ Waiting

LEMMA InitWaiting ==
  ASSUME Init PROVE Waiting
<1>1. data = <<>> /\ pc = "recv" /\ Len(data) = 0
  BY EmptySeq DEF Init
<1> QED BY <1>1, FramesAssumption
        DEF Waiting, NothingHeldBack, RoomToReceive, WriteBufferSize

(* A step that touches neither the buffer nor where the loop is. *)
LEMMA Untouched ==
  ASSUME Waiting, UNCHANGED <<data, header, pc, fresh>> PROVE Waiting'
BY DEF Waiting, NothingHeldBack, RoomToReceive, WriteBufferSize, Genuine

LEMMA SendInv ==
  ASSUME Inv, NEW size \in BodySizes, NEW good \in BOOLEAN, Send(size, good)
  PROVE  Inv'
<1> DEFINE p == [id |-> made + 1, size |-> size, good |-> good]
<1>1. TypeInv /\ Waiting
  BY DEF Inv
<1>2. /\ made < MaxPackets /\ made' = made + 1
      /\ sent' = Append(sent, p) /\ stream' = stream \o Bytes(p)
      /\ UNCHANGED <<data, header, pc, handled, fresh, conns>>
  BY DEF Send
<1>3. made \in Nat /\ made' \in 0 .. MaxPackets
  BY <1>1, <1>2, FramesAssumption DEF TypeInv
<1>4. p \in Packets
  BY <1>3 DEF Packets
<1>5. Bytes(p) \in Seq(StreamByte)
  BY <1>4, BytesFacts
<1>6. stream' \in Seq(StreamByte)
  BY <1>1, <1>2, <1>5, ConcatProperties DEF TypeInv
<1>7. sent' \in Seq(Packets)
  BY <1>1, <1>2, <1>4, AppendProperties DEF TypeInv
<1>8. TypeInv'
  BY <1>1, <1>2, <1>3, <1>6, <1>7 DEF TypeInv
<1>9. Waiting'
  BY <1>1, <1>2, Untouched
<1> QED BY <1>8, <1>9 DEF Inv

(* What a completion of n bytes puts before the loop. *)
LEMMA ReceiveData ==
  ASSUME TypeInv, NEW n \in 1 .. Len(stream), Receive(n)
  PROVE  /\ n <= Len(stream) /\ n \in Nat
         /\ data \o SubSeq(stream, 1, n) \in Seq(StreamByte)
         /\ Len(data \o SubSeq(stream, 1, n)) = Len(data) + n
         /\ Len(data) + n <= BufferSize
         /\ stream' \in Seq(StreamByte)
<1>1. /\ data \in Seq(StreamByte) /\ stream \in Seq(StreamByte)
      /\ Len(data) \in Nat /\ Len(stream) \in Nat /\ BufferSize \in Nat
  BY LenProperties, FramesAssumption DEF TypeInv
<1>2. n \in Nat /\ n <= Len(stream) /\ n <= BufferSize - Len(data)
      /\ stream' = SubSeq(stream, n + 1, Len(stream))
  BY <1>1 DEF Receive, WriteBufferSize
<1>3. /\ SubSeq(stream, 1, n) \in Seq(StreamByte) /\ Len(SubSeq(stream, 1, n)) = n
      /\ SubSeq(stream, n + 1, Len(stream)) \in Seq(StreamByte)
  BY <1>1, <1>2, Cut
<1>4. /\ data \o SubSeq(stream, 1, n) \in Seq(StreamByte)
      /\ Len(data \o SubSeq(stream, 1, n)) = Len(data) + Len(SubSeq(stream, 1, n))
  BY <1>1, <1>3, ConcatProperties
<1> QED BY <1>1, <1>2, <1>3, <1>4

LEMMA ReceiveInv ==
  ASSUME Inv, NEW n \in 1 .. Len(stream), Receive(n)
  PROVE  Inv'
<1> DEFINE d == data \o SubSeq(stream, 1, n)
<1>1. TypeInv /\ Waiting
  BY DEF Inv
<1>2. /\ d \in Seq(StreamByte) /\ Len(d) <= BufferSize
      /\ stream' \in Seq(StreamByte)
  BY <1>1, ReceiveData
<1>3. ReadAndDivide(d, header) /\ UNCHANGED <<sent, handled, fresh, made, conns>>
  BY DEF Receive
<1>4. header \in FitSizes
  BY <1>1 DEF TypeInv
<1>5. /\ data' \in Seq(StreamByte) /\ Len(data') <= BufferSize
      /\ header' \in FitSizes
      /\ pc' \in {"recv", "handle"}
      /\ pc' = "handle" => HeaderSize + header' <= Len(data')
      /\ Waiting'
  <2> HIDE DEF d
  <2> QED BY <1>2, <1>3, <1>4, LoopStep
<1>6. TypeInv'
  BY <1>1, <1>2, <1>3, <1>5 DEF TypeInv
<1> QED BY <1>5, <1>6 DEF Inv

(* The packet at the front of the buffer is cut off it. *)
LEMMA HandleData ==
  ASSUME TypeInv, pc = "handle", NEW n, n = HeaderSize + header
  PROVE  /\ n \in Nat /\ n <= Len(data)
         /\ SubSeq(data, 1, n) \in Seq(StreamByte)
         /\ SubSeq(data, n + 1, Len(data)) \in Seq(StreamByte)
         /\ Len(SubSeq(data, n + 1, Len(data))) = Len(data) - n
         /\ Len(data) \in Nat /\ Len(data) <= BufferSize
<1>1. /\ data \in Seq(StreamByte) /\ Len(data) \in Nat /\ Len(data) <= BufferSize
      /\ header \in Nat /\ HeaderSize \in Nat /\ HeaderSize + header <= Len(data)
  BY LenProperties, FramesAssumption DEF TypeInv, FitSizes
<1>2. n \in Nat /\ n <= Len(data)
  BY <1>1
<1> QED BY <1>1, <1>2, Cut

LEMMA HandleInv ==
  ASSUME Inv, Handle
  PROVE  Inv'
<1>1. PICK n : n = HeaderSize + header
  OBVIOUS
<1>2. PICK rest : rest = SubSeq(data, n + 1, Len(data))
  OBVIOUS
<1>3. PICK old : old = IF rest = <<>> THEN 0 ELSE header
  OBVIOUS
<1>4. TypeInv /\ Waiting
  BY DEF Inv
<1>5. /\ pc = "handle"
      /\ handled' = Append(handled, SubSeq(data, 1, n))
      /\ ReadAndDivide(rest, old)
      /\ UNCHANGED <<stream, sent, fresh, made, conns>>
  BY <1>1, <1>2, <1>3 DEF Handle
<1>6. /\ SubSeq(data, 1, n) \in Seq(StreamByte)
      /\ rest \in Seq(StreamByte) /\ Len(rest) <= BufferSize
  <2>1. /\ n \in Nat /\ n <= Len(data)
        /\ SubSeq(data, 1, n) \in Seq(StreamByte)
        /\ SubSeq(data, n + 1, Len(data)) \in Seq(StreamByte)
        /\ Len(SubSeq(data, n + 1, Len(data))) = Len(data) - n
        /\ Len(data) \in Nat /\ Len(data) <= BufferSize
    BY <1>1, <1>4, <1>5, HandleData
  <2> QED BY <1>2, <2>1, FramesAssumption
<1>7. old \in FitSizes
  BY <1>3, <1>4 DEF TypeInv, FitSizes
<1>8. /\ data' \in Seq(StreamByte) /\ Len(data') <= BufferSize
      /\ header' \in FitSizes
      /\ pc' \in {"recv", "handle"}
      /\ pc' = "handle" => HeaderSize + header' <= Len(data')
      /\ Waiting'
  BY <1>5, <1>6, <1>7, LoopStep
<1>9. handled' \in Seq(Seq(StreamByte))
  <2>1. handled \in Seq(Seq(StreamByte))
    BY <1>4 DEF TypeInv
  <2> QED BY <1>5, <1>6, <2>1, AppendProperties
<1>10. TypeInv'
  BY <1>4, <1>5, <1>8, <1>9 DEF TypeInv
<1> QED BY <1>8, <1>10 DEF Inv

LEMMA CloseInv ==
  ASSUME Inv, Refuse \/ PeerLeaves
  PROVE  Inv'
<1>1. /\ pc' = "closed"
      /\ UNCHANGED <<data, header, stream, sent, handled, fresh, made, conns>>
  BY DEF Refuse, PeerLeaves
<1>2. TypeInv'
  BY <1>1 DEF Inv, TypeInv
<1>3. Waiting'
  BY <1>1 DEF Waiting, NothingHeldBack, RoomToReceive
<1> QED BY <1>2, <1>3 DEF Inv

LEMMA ReuseInv ==
  ASSUME Inv, Reuse
  PROVE  Inv'
<1>1. /\ conns < MaxConns /\ conns' = conns + 1 /\ pc' = "recv"
      /\ stream' = <<>> /\ sent' = <<>> /\ handled' = <<>>
      /\ fresh' = (data = <<>>)
      /\ UNCHANGED <<data, header, made>>
  BY DEF Reuse
<1>2. /\ stream' \in Seq(StreamByte) /\ sent' \in Seq(Packets)
      /\ handled' \in Seq(Seq(StreamByte))
  BY <1>1, EmptySeq
<1>3. conns' \in 1 .. MaxConns
  BY <1>1, FramesAssumption DEF Inv, TypeInv
<1>4. TypeInv'
  BY <1>1, <1>2, <1>3 DEF Inv, TypeInv
<1>5. fresh' => Len(data)' = 0
  BY <1>1, EmptySeq
<1>6. Waiting'
  BY <1>1, <1>5, FramesAssumption
  DEF Waiting, NothingHeldBack, RoomToReceive, WriteBufferSize
<1> QED BY <1>4, <1>6 DEF Inv

LEMMA NextInv ==
  ASSUME Inv, [Next]_vars
  PROVE  Inv'
<1>1. CASE UNCHANGED vars
  <2>1. TypeInv'
    BY <1>1 DEF Inv, TypeInv, vars
  <2>2. Waiting'
    BY <1>1, Untouched DEF Inv, vars
  <2> QED BY <2>1, <2>2 DEF Inv
<1>2. CASE Next
  <2>1. ASSUME NEW size \in BodySizes, NEW good \in BOOLEAN, Send(size, good)
        PROVE  Inv'
    BY <2>1, SendInv
  <2>2. ASSUME NEW n \in 1 .. Len(stream), Receive(n) PROVE Inv'
    BY <2>2, ReceiveInv
  <2>3. ASSUME Handle PROVE Inv'
    BY <2>3, HandleInv
  <2>4. ASSUME Refuse \/ PeerLeaves PROVE Inv'
    BY <2>4, CloseInv
  <2>5. ASSUME Reuse PROVE Inv'
    BY <2>5, ReuseInv
  <2> QED BY <1>2, <2>1, <2>2, <2>3, <2>4, <2>5 DEF Next
<1> QED BY <1>1, <1>2

LEMMA InvAlways == Spec => []Inv
<1>1. Init => Inv
  BY InitTypes, InitWaiting DEF Inv
<1>2. Inv /\ [Next]_vars => Inv'
  BY NextInv
<1> QED BY <1>1, <1>2, PTL DEF Spec

(* The buffer of a session and the header it last read keep their bounds:
   m_buffer never holds more than PACKET_SIZE bytes, however the client's bytes
   are cut and whatever its size fields say. *)
THEOREM TypeCorrect == Spec => []TypeOK
<1>1. Inv => TypeOK
  BY DEF Inv, TypeInv, TypeOK, StreamByte, FitSizes
<1> QED BY <1>1, InvAlways, PTL

(* SessionData::Recv goes back to WSARecv only when the packet at the front of
   the buffer has not arrived whole. *)
THEOREM NothingHeldBackAlways == Spec => []NothingHeldBack
<1>1. Inv => NothingHeldBack
  BY DEF Inv, Waiting
<1> QED BY <1>1, InvAlways, PTL

(* WSARecv is always posted with room for a byte, unless the session served
   another client before and was left with data. *)
THEOREM RoomToReceiveAlways == Spec => []RoomToReceive
<1>1. Inv => RoomToReceive
  BY DEF Inv, Waiting
<1> QED BY <1>1, InvAlways, PTL

-----------------------------------------------------------------------------
(* What is handled is what was sent.  Byte j of what was not handled yet. *)
At(d, s, j) == IF j <= Len(d) THEN d[j] ELSE s[j - Len(d)]

(* Packet i of se ends at byte off[i] of the connection.  h packets are
   handled, and the bytes in the buffer (d) and on the way (s) are those of the
   others, in order. *)
Framing(d, s, se, h, off) ==
  /\ h \in 0 .. Len(se)
  /\ off \in [Nat -> Nat]
  /\ \A i \in 1 .. Len(se) : off[i] = off[i - 1] + HeaderSize + se[i].size
  /\ \A i, j \in 0 .. Len(se) : i <= j => off[i] <= off[j]
  /\ Len(d) + Len(s) = off[Len(se)] - off[h]
  /\ \A i \in h + 1 .. Len(se) : \A k \in 1 .. HeaderSize + se[i].size :
       At(d, s, (off[i - 1] - off[h]) + k) = [p |-> se[i], k |-> k]

HandledRight == \A i \in 1 .. Len(handled) : handled[i] = Bytes(sent[i])

Framed ==
  fresh /\ AllFit =>
    /\ HandledRight
    /\ \E off \in [Nat -> Nat] : Framing(data, stream, sent, Len(handled), off)

(* With bytes in the buffer a packet is still to be handled, and the bytes are
   its first ones. *)
LEMMA FrontPacket ==
  ASSUME NEW d \in Seq(StreamByte), NEW s \in Seq(StreamByte),
         NEW se \in Seq(Packets), NEW h, NEW off,
         Framing(d, s, se, h, off), Len(d) > 0
  PROVE  /\ h \in Nat /\ h + 1 \in 1 .. Len(se)
         /\ se[h + 1] \in Packets /\ se[h + 1].size \in Nat
         /\ \A k \in 1 .. HeaderSize + se[h + 1].size :
              k <= Len(d) => d[k] = [p |-> se[h + 1], k |-> k]
<1>1. /\ Len(d) \in Nat /\ Len(s) \in Nat /\ Len(se) \in Nat /\ HeaderSize \in Nat
  BY LenProperties, FramesAssumption
<1>2. /\ h \in 0 .. Len(se) /\ off \in [Nat -> Nat]
      /\ Len(d) + Len(s) = off[Len(se)] - off[h]
      /\ \A i \in h + 1 .. Len(se) : \A k \in 1 .. HeaderSize + se[i].size :
           At(d, s, (off[i - 1] - off[h]) + k) = [p |-> se[i], k |-> k]
  BY DEF Framing
<1>3. h \in Nat /\ off[h] \in Nat /\ off[Len(se)] \in Nat
  BY <1>1, <1>2
<1>4. h # Len(se)
  BY <1>1, <1>2, <1>3
<1>5. h + 1 \in 1 .. Len(se)
  BY <1>1, <1>2, <1>3, <1>4
<1>6. se[h + 1] \in Packets
  BY <1>5, ElementOfSeq
<1>7. se[h + 1].size \in Nat
  BY <1>6, BytesFacts
<1>8. ASSUME NEW k \in 1 .. HeaderSize + se[h + 1].size, k <= Len(d)
      PROVE  d[k] = [p |-> se[h + 1], k |-> k]
  <2>1. h + 1 \in h + 1 .. Len(se) /\ (h + 1) - 1 = h
    BY <1>1, <1>3, <1>5
  <2>2. At(d, s, (off[(h + 1) - 1] - off[h]) + k) = [p |-> se[h + 1], k |-> k]
    BY <1>2, <2>1
  <2>3. (off[(h + 1) - 1] - off[h]) + k = k
    BY <1>1, <1>3, <1>7, <2>1
  <2> QED BY <1>8, <2>2, <2>3 DEF At
<1> QED BY <1>3, <1>5, <1>6, <1>7, <1>8

(* A header in the buffer is then the one of that packet. *)
LEMMA FrontHeader ==
  ASSUME NEW d \in Seq(StreamByte), NEW s \in Seq(StreamByte),
         NEW se \in Seq(Packets), NEW h, NEW off,
         Framing(d, s, se, h, off), Len(d) >= HeaderSize
  PROVE  Genuine(d) /\ d[1].p = se[h + 1] /\ h + 1 \in 1 .. Len(se)
<1>1. Len(d) \in Nat /\ HeaderSize \in Nat \ {0} /\ Len(d) > 0
  BY LenProperties, FramesAssumption
<1>2. /\ h + 1 \in 1 .. Len(se) /\ se[h + 1].size \in Nat
      /\ \A k \in 1 .. HeaderSize + se[h + 1].size :
           k <= Len(d) => d[k] = [p |-> se[h + 1], k |-> k]
  BY <1>1, FrontPacket
<1>3. \A k \in 1 .. HeaderSize : k \in 1 .. HeaderSize + se[h + 1].size /\ k <= Len(d)
  BY <1>1, <1>2
<1>4. \A k \in 1 .. HeaderSize : d[k] = [p |-> se[h + 1], k |-> k]
  BY <1>2, <1>3
<1>5. d[1] = [p |-> se[h + 1], k |-> 1]
  BY <1>1, <1>4
<1> QED BY <1>2, <1>4, <1>5 DEF Genuine

(* The client sends another packet. *)
LEMMA SendFraming ==
  ASSUME NEW d \in Seq(StreamByte), NEW s \in Seq(StreamByte),
         NEW se \in Seq(Packets), NEW h, NEW off, NEW p \in Packets,
         Framing(d, s, se, h, off)
  PROVE  \E o \in [Nat -> Nat] : Framing(d, s \o Bytes(p), Append(se, p), h, o)
<1>1. /\ Len(d) \in Nat /\ Len(s) \in Nat /\ Len(se) \in Nat /\ HeaderSize \in Nat
      /\ p.size \in Nat
  BY LenProperties, FramesAssumption, BytesFacts
<1>2. PICK m : m = Len(se) + 1
  OBVIOUS
<1>3. PICK o : o = [off EXCEPT ![m] = off[Len(se)] + HeaderSize + p.size]
  OBVIOUS
<1>h. h \in 0 .. Len(se)
  BY DEF Framing
<1>o. off \in [Nat -> Nat]
  BY DEF Framing
<1>r. \A i \in 1 .. Len(se) : off[i] = off[i - 1] + HeaderSize + se[i].size
  BY DEF Framing
<1>m. \A i, j \in 0 .. Len(se) : i <= j => off[i] <= off[j]
  BY DEF Framing
<1>l. Len(d) + Len(s) = off[Len(se)] - off[h]
  BY DEF Framing
<1>b. \A i \in h + 1 .. Len(se) : \A k \in 1 .. HeaderSize + se[i].size :
        At(d, s, (off[i - 1] - off[h]) + k) = [p |-> se[i], k |-> k]
  BY DEF Framing
<1>5. /\ m \in Nat /\ h \in Nat
      /\ off[Len(se)] \in Nat /\ off[Len(se)] + HeaderSize + p.size \in Nat
  <2>1. m \in Nat /\ h \in Nat
    BY <1>1, <1>2, <1>h
  <2>2. off[Len(se)] \in Nat
    BY <1>1, <1>o
  <2> QED BY <1>1, <2>1, <2>2
<1>6. /\ o \in [Nat -> Nat] /\ o[m] = off[Len(se)] + HeaderSize + p.size
      /\ \A i \in 0 .. Len(se) : o[i] = off[i]
  <2>1. m \in Nat /\ off[Len(se)] + HeaderSize + p.size \in Nat
    BY <1>5
  <2>2. o \in [Nat -> Nat] /\ o[m] = off[Len(se)] + HeaderSize + p.size
    BY <1>3, <1>o, <2>1
  <2>3. \A i \in 0 .. Len(se) : i \in Nat /\ i # m
    BY <1>1, <1>2
  <2> QED BY <1>3, <1>o, <2>2, <2>3
<1>7. /\ Len(Append(se, p)) = m /\ Append(se, p)[m] = p
      /\ \A i \in 1 .. Len(se) : Append(se, p)[i] = se[i]
  BY <1>2, AppendProperties
<1>8. /\ Bytes(p) \in Seq(StreamByte) /\ Len(Bytes(p)) = HeaderSize + p.size
      /\ \A k \in 1 .. HeaderSize + p.size : Bytes(p)[k] = [p |-> p, k |-> k]
  BY BytesFacts
<1>9. /\ Len(s \o Bytes(p)) = Len(s) + (HeaderSize + p.size)
      /\ \A i \in 1 .. Len(s) + (HeaderSize + p.size) :
           (s \o Bytes(p))[i] = IF i <= Len(s) THEN s[i] ELSE Bytes(p)[i - Len(s)]
  BY <1>8, ConcatProperties
<1>10. h \in 0 .. m
  BY <1>1, <1>2, <1>h, <1>5
<1>11. \A i \in 1 .. m : o[i] = o[i - 1] + HeaderSize + Append(se, p)[i].size
  <2> TAKE i \in 1 .. m
  <2>1. CASE i = m
    <3>1. i - 1 = Len(se) /\ Len(se) \in 0 .. Len(se)
      BY <1>1, <1>2, <2>1
    <3> QED BY <1>6, <1>7, <2>1, <3>1
  <2>2. CASE i # m
    <3>1. i \in 1 .. Len(se) /\ i \in 0 .. Len(se) /\ i - 1 \in 0 .. Len(se)
      BY <1>1, <1>2, <2>2
    <3> QED BY <1>r, <1>6, <1>7, <3>1
  <2> QED BY <2>1, <2>2
<1>12. \A i, j \in 0 .. m : i <= j => o[i] <= o[j]
  <2> TAKE i, j \in 0 .. m
  <2> HAVE i <= j
  <2>1. i \in Nat /\ j \in Nat /\ o[i] \in Nat /\ o[j] \in Nat
    <3>1. i \in Nat /\ j \in Nat
      BY <1>5
    <3> QED BY <1>6, <3>1
  <2>2. CASE j # m
    <3>1. i \in 0 .. Len(se) /\ j \in 0 .. Len(se)
      BY <1>1, <1>2, <2>1, <2>2
    <3> QED BY <1>m, <1>6, <3>1
  <2>3. CASE j = m /\ i # m
    <3>1. i \in 0 .. Len(se) /\ Len(se) \in 0 .. Len(se) /\ i <= Len(se)
      BY <1>1, <1>2, <2>1, <2>3
    <3>2. o[i] <= off[Len(se)]
      BY <1>m, <1>6, <3>1
    <3>3. o[j] = off[Len(se)] + HeaderSize + p.size
      BY <1>6, <2>3
    <3> QED BY <1>1, <1>5, <2>1, <3>2, <3>3
  <2>4. CASE j = m /\ i = m
    BY <2>1, <2>4
  <2> QED BY <2>2, <2>3, <2>4
<1>13. Len(d) + Len(s \o Bytes(p)) = o[m] - o[h]
  <2>1. o[h] = off[h] /\ off[h] \in Nat
    BY <1>h, <1>o, <1>5, <1>6
  <2>2. o[m] = off[Len(se)] + (HeaderSize + p.size)
    <3>1. o[m] = off[Len(se)] + (HeaderSize + p.size)
      <4>1. PICK e : e = off[Len(se)]
        OBVIOUS
      <4>2. PICK z : z = p.size
        OBVIOUS
      <4>3. e \in Nat /\ z \in Nat /\ o[m] = e + HeaderSize + z
        BY <1>1, <1>5, <1>6, <4>1, <4>2
      <4>4. o[m] = e + (HeaderSize + z)
        BY <1>1, <4>3
      <4> QED BY <4>1, <4>2, <4>4
    <3> QED BY <1>1, <1>5, <3>1
  <2>3. Len(d) + Len(s) + (HeaderSize + p.size) = o[m] - o[h]
    <3>1. PICK c : c = off[h]
      OBVIOUS
    <3>2. PICK e : e = off[Len(se)]
      OBVIOUS
    <3>3. PICK w : w = HeaderSize + p.size
      OBVIOUS
    <3>4. PICK l : l = Len(d) + Len(s)
      OBVIOUS
    <3>5. l = e - c /\ o[m] = e + w /\ o[h] = c
      BY <1>l, <2>1, <2>2, <3>1, <3>2, <3>3, <3>4
    <3>6. c \in Nat /\ e \in Nat /\ w \in Nat
      BY <1>1, <1>5, <2>1, <3>1, <3>2, <3>3
    <3>7. l + w = (e + w) - c
      BY <3>5, <3>6
    <3> QED BY <3>3, <3>4, <3>5, <3>7
  <2> QED BY <1>1, <1>9, <2>3
<1>14. ASSUME NEW i \in h + 1 .. m, NEW k \in 1 .. HeaderSize + Append(se, p)[i].size
       PROVE  At(d, s \o Bytes(p), (o[i - 1] - o[h]) + k) = [p |-> Append(se, p)[i], k |-> k]
  <2>1. o[h] = off[h] /\ off[h] \in Nat
    BY <1>h, <1>o, <1>5, <1>6
  <2>2. CASE i = m
    <3>1. i - 1 = Len(se) /\ Len(se) \in 0 .. Len(se) /\ k \in 1 .. HeaderSize + p.size
      BY <1>1, <1>2, <1>7, <2>2
    <3>2. (o[i - 1] - o[h]) + k = Len(d) + (Len(s) + k)
      <4>1. o[i - 1] = off[Len(se)]
        BY <1>6, <3>1
      <4>2. o[i - 1] - o[h] = Len(d) + Len(s)
        BY <1>l, <2>1, <4>1
      <4> QED BY <1>1, <3>1, <4>2
    <3>3. At(d, s \o Bytes(p), Len(d) + (Len(s) + k)) = (s \o Bytes(p))[Len(s) + k]
      <4>1. ~(Len(d) + (Len(s) + k) <= Len(d))
        BY <1>1, <3>1
      <4>2. (Len(d) + (Len(s) + k)) - Len(d) = Len(s) + k
        BY <1>1, <3>1
      <4> QED BY <4>1, <4>2 DEF At
    <3>4. (s \o Bytes(p))[Len(s) + k] = Bytes(p)[k]
      <4>1. /\ Len(s) + k \in 1 .. Len(s) + (HeaderSize + p.size)
            /\ ~(Len(s) + k <= Len(s)) /\ (Len(s) + k) - Len(s) = k
        BY <1>1, <3>1
      <4> QED BY <1>9, <4>1
    <3> QED BY <1>7, <1>8, <2>2, <3>1, <3>2, <3>3, <3>4
  <2>3. CASE i # m
    <3>1. i \in h + 1 .. Len(se) /\ i \in 1 .. Len(se) /\ i - 1 \in 0 .. Len(se)
          /\ i \in 0 .. Len(se)
      <4>1. PICK l : l = Len(se)
        OBVIOUS
      <4>2. l \in Nat /\ m = l + 1 /\ h \in Nat /\ i \in h + 1 .. m
        BY <1>1, <1>2, <1>h, <4>1
      <4>3. i \in h + 1 .. l /\ i \in 1 .. l /\ i - 1 \in 0 .. l /\ i \in 0 .. l
        BY <2>3, <4>2
      <4> QED BY <4>1, <4>3
    <3>2. Append(se, p)[i] = se[i] /\ k \in 1 .. HeaderSize + se[i].size
      BY <1>7, <3>1
    <3>3. PICK j : j = (off[i - 1] - off[h]) + k
      OBVIOUS
    <3>4. At(d, s, j) = [p |-> se[i], k |-> k]
      BY <1>b, <3>1, <3>2, <3>3
    <3>5. (o[i - 1] - o[h]) + k = j
      BY <1>6, <2>1, <3>1, <3>3
    <3>6. j \in Nat /\ 1 <= j /\ j <= Len(d) + Len(s)
      <4>1. off[h] <= off[i - 1] /\ off[i] <= off[Len(se)]
            /\ off[i] = off[i - 1] + HeaderSize + se[i].size
        <5>1. i \in 0 .. Len(se) /\ Len(se) \in 0 .. Len(se) /\ i <= Len(se)
              /\ h \in 0 .. Len(se) /\ i - 1 \in 0 .. Len(se) /\ h <= i - 1
          BY <1>1, <1>5, <1>h, <3>1
        <5>2. off[h] <= off[i - 1] /\ off[i] <= off[Len(se)]
          BY <1>m, <5>1
        <5>3. off[i] = off[i - 1] + HeaderSize + se[i].size
          BY <1>r, <3>1
        <5> QED BY <5>2, <5>3
      <4>2. se[i].size \in Nat
        BY <3>1, ElementOfSeq, BytesFacts
      <4>3. off[i - 1] \in Nat /\ off[i] \in Nat
        <5>1. i \in Nat /\ i - 1 \in Nat
          BY <1>1, <3>1
        <5> QED BY <1>o, <5>1
      <4>4. PICK a : a = off[i - 1]
        OBVIOUS
      <4>5. PICK c : c = off[h]
        OBVIOUS
      <4>6. PICK e : e = off[Len(se)]
        OBVIOUS
      <4>7. PICK z : z = se[i].size
        OBVIOUS
      <4>8. a \in Nat /\ c \in Nat /\ e \in Nat /\ z \in Nat /\ k \in 1 .. HeaderSize + z
        BY <1>5, <2>1, <3>2, <4>2, <4>3, <4>4, <4>5, <4>6, <4>7
      <4>9. c <= a /\ a + HeaderSize + z <= e /\ Len(d) + Len(s) = e - c /\ j = (a - c) + k
        BY <1>l, <3>3, <4>1, <4>4, <4>5, <4>6, <4>7
      <4> QED BY <1>1, <4>8, <4>9
    <3>7. At(d, s \o Bytes(p), j) = At(d, s, j)
      <4>1. CASE j <= Len(d)
        BY <4>1 DEF At
      <4>2. CASE ~(j <= Len(d))
        <5>1. /\ j - Len(d) \in 1 .. Len(s) + (HeaderSize + p.size)
              /\ j - Len(d) <= Len(s)
          BY <1>1, <3>6, <4>2
        <5>2. (s \o Bytes(p))[j - Len(d)] = s[j - Len(d)]
          BY <1>9, <5>1
        <5> QED BY <4>2, <5>2 DEF At
      <4> QED BY <4>1, <4>2
    <3> QED BY <3>2, <3>4, <3>5, <3>7
  <2> QED BY <2>2, <2>3
<1>15. Framing(d, s \o Bytes(p), Append(se, p), h, o)
  BY <1>6, <1>7, <1>10, <1>11, <1>12, <1>13, <1>14 DEF Framing
<1> QED BY <1>6, <1>15

(* A completion moves bytes from the way into the buffer. *)
LEMMA MoveFraming ==
  ASSUME NEW d \in Seq(StreamByte), NEW s \in Seq(StreamByte),
         NEW se \in Seq(Packets), NEW h, NEW off,
         Framing(d, s, se, h, off), NEW n \in Nat, n <= Len(s)
  PROVE  Framing(d \o SubSeq(s, 1, n), SubSeq(s, n + 1, Len(s)), se, h, off)
<1>1. Len(d) \in Nat /\ Len(s) \in Nat /\ Len(se) \in Nat /\ HeaderSize \in Nat
  BY LenProperties, FramesAssumption
<1>2. PICK d2 : d2 = d \o SubSeq(s, 1, n)
  OBVIOUS
<1>3. PICK s2 : s2 = SubSeq(s, n + 1, Len(s))
  OBVIOUS
<1>4. /\ SubSeq(s, 1, n) \in Seq(StreamByte) /\ Len(SubSeq(s, 1, n)) = n
      /\ \A i \in 1 .. n : SubSeq(s, 1, n)[i] = s[i]
      /\ Len(s2) = Len(s) - n
      /\ \A i \in 1 .. Len(s) - n : s2[i] = s[n + i]
  BY <1>3, Cut
<1>5. /\ Len(d2) = Len(d) + n
      /\ \A i \in 1 .. Len(d) + n :
           d2[i] = IF i <= Len(d) THEN d[i] ELSE SubSeq(s, 1, n)[i - Len(d)]
  BY <1>2, <1>4, ConcatProperties
<1>h. h \in 0 .. Len(se)
  BY DEF Framing
<1>o. off \in [Nat -> Nat]
  BY DEF Framing
<1>r. \A i \in 1 .. Len(se) : off[i] = off[i - 1] + HeaderSize + se[i].size
  BY DEF Framing
<1>m. \A i, j \in 0 .. Len(se) : i <= j => off[i] <= off[j]
  BY DEF Framing
<1>l. Len(d) + Len(s) = off[Len(se)] - off[h]
  BY DEF Framing
<1>b. \A i \in h + 1 .. Len(se) : \A k \in 1 .. HeaderSize + se[i].size :
        At(d, s, (off[i - 1] - off[h]) + k) = [p |-> se[i], k |-> k]
  BY DEF Framing
<1>7. ASSUME NEW j \in 1 .. Len(d) + Len(s) PROVE At(d2, s2, j) = At(d, s, j)
  <2>1. CASE j <= Len(d)
    <3>1. j \in 1 .. Len(d) + n /\ j <= Len(d2)
      BY <1>1, <1>5, <2>1
    <3> QED BY <1>5, <2>1, <3>1 DEF At
  <2>2. CASE ~(j <= Len(d)) /\ j <= Len(d) + n
    <3>1. j \in 1 .. Len(d) + n /\ j - Len(d) \in 1 .. n /\ j <= Len(d2)
      BY <1>1, <1>5, <2>2
    <3>2. d2[j] = s[j - Len(d)]
      BY <1>4, <1>5, <2>2, <3>1
    <3> QED BY <2>2, <3>1, <3>2 DEF At
  <2>3. CASE ~(j <= Len(d) + n)
    <3>1. /\ ~(j <= Len(d2)) /\ ~(j <= Len(d))
          /\ j - Len(d2) \in 1 .. Len(s) - n /\ n + (j - Len(d2)) = j - Len(d)
      BY <1>1, <1>5, <2>3
    <3>2. s2[j - Len(d2)] = s[j - Len(d)]
      BY <1>4, <3>1
    <3> QED BY <3>1, <3>2 DEF At
  <2> QED BY <2>1, <2>2, <2>3
<1>8. ASSUME NEW i \in h + 1 .. Len(se), NEW k \in 1 .. HeaderSize + se[i].size
      PROVE  At(d2, s2, (off[i - 1] - off[h]) + k) = [p |-> se[i], k |-> k]
  <2>1. h \in Nat /\ i \in 1 .. Len(se) /\ i - 1 \in 0 .. Len(se) /\ i \in 0 .. Len(se)
    BY <1>1, <1>h
  <2>2. /\ off[h] <= off[i - 1] /\ off[i] <= off[Len(se)]
        /\ off[i] = off[i - 1] + HeaderSize + se[i].size
    <3>1. Len(se) \in 0 .. Len(se) /\ i <= Len(se)
          /\ h \in 0 .. Len(se) /\ h <= i - 1
      BY <1>1, <1>h, <2>1
    <3>2. off[h] <= off[i - 1] /\ off[i] <= off[Len(se)]
      BY <1>m, <2>1, <3>1
    <3>3. off[i] = off[i - 1] + HeaderSize + se[i].size
      BY <1>r, <2>1
    <3> QED BY <3>2, <3>3
  <2>3. se[i].size \in Nat
    BY <2>1, ElementOfSeq, BytesFacts
  <2>4. off[h] \in Nat /\ off[i - 1] \in Nat /\ off[i] \in Nat /\ off[Len(se)] \in Nat
    <3>1. i \in Nat /\ i - 1 \in Nat
      BY <1>1, <2>1
    <3> QED BY <1>1, <1>o, <2>1, <3>1
  <2>5. (off[i - 1] - off[h]) + k \in 1 .. Len(d) + Len(s)
    <3>1. PICK a : a = off[i - 1]
      OBVIOUS
    <3>2. PICK c : c = off[h]
      OBVIOUS
    <3>3. PICK e : e = off[Len(se)]
      OBVIOUS
    <3>4. PICK z : z = se[i].size
      OBVIOUS
    <3>5. a \in Nat /\ c \in Nat /\ e \in Nat /\ z \in Nat /\ k \in 1 .. HeaderSize + z
      BY <2>3, <2>4, <3>1, <3>2, <3>3, <3>4
    <3>6. c <= a /\ a + HeaderSize + z <= e /\ Len(d) + Len(s) = e - c
      BY <1>l, <2>2, <3>1, <3>2, <3>3, <3>4
    <3>7. (a - c) + k \in 1 .. Len(d) + Len(s)
      BY <1>1, <3>5, <3>6
    <3> QED BY <3>1, <3>2, <3>7
  <2> QED BY <1>b, <1>7, <2>5
<1>9. Len(d2) + Len(s2) = off[Len(se)] - off[h]
  BY <1>1, <1>4, <1>5, <1>l
<1> QED BY <1>2, <1>3, <1>h, <1>o, <1>r, <1>m, <1>8, <1>9 DEF Framing

(* The loop takes a whole packet off the front of the buffer. *)
LEMMA TakeFraming ==
  ASSUME NEW d \in Seq(StreamByte), NEW s \in Seq(StreamByte),
         NEW se \in Seq(Packets), NEW h, NEW off,
         Framing(d, s, se, h, off), h + 1 \in 1 .. Len(se),
         NEW n \in Nat, n = HeaderSize + se[h + 1].size, n <= Len(d)
  PROVE  /\ SubSeq(d, 1, n) = Bytes(se[h + 1])
         /\ Framing(SubSeq(d, n + 1, Len(d)), s, se, h + 1, off)
<1>1. Len(d) \in Nat /\ Len(s) \in Nat /\ Len(se) \in Nat /\ HeaderSize \in Nat \ {0}
  BY LenProperties, FramesAssumption
<1>2. PICK d2 : d2 = SubSeq(d, n + 1, Len(d))
  OBVIOUS
<1>3. /\ SubSeq(d, 1, n) \in Seq(StreamByte) /\ Len(SubSeq(d, 1, n)) = n
      /\ \A i \in 1 .. n : SubSeq(d, 1, n)[i] = d[i]
      /\ Len(d2) = Len(d) - n
      /\ \A i \in 1 .. Len(d) - n : d2[i] = d[n + i]
  <2>1. n \in Nat /\ n <= Len(d) /\ d \in Seq(StreamByte)
    OBVIOUS
  <2>2. /\ SubSeq(d, 1, n) \in Seq(StreamByte) /\ Len(SubSeq(d, 1, n)) = n
        /\ \A i \in 1 .. n : SubSeq(d, 1, n)[i] = d[i]
    BY <2>1, CutBytes
  <2>3. Len(SubSeq(d, n + 1, Len(d))) = Len(d) - n
    BY <2>1, CutBytes
  <2>4. \A i \in 1 .. Len(d) - n : SubSeq(d, n + 1, Len(d))[i] = d[n + i]
    BY <2>1, CutBytes
  <2> QED BY <1>2, <2>2, <2>3, <2>4
<1>h. h \in 0 .. Len(se)
  BY DEF Framing
<1>o. off \in [Nat -> Nat]
  BY DEF Framing
<1>r. \A i \in 1 .. Len(se) : off[i] = off[i - 1] + HeaderSize + se[i].size
  BY DEF Framing
<1>m. \A i, j \in 0 .. Len(se) : i <= j => off[i] <= off[j]
  BY DEF Framing
<1>l. Len(d) + Len(s) = off[Len(se)] - off[h]
  BY DEF Framing
<1>b. \A i \in h + 1 .. Len(se) : \A k \in 1 .. HeaderSize + se[i].size :
        At(d, s, (off[i - 1] - off[h]) + k) = [p |-> se[i], k |-> k]
  BY DEF Framing
<1>5. /\ h \in Nat /\ (h + 1) - 1 = h /\ h + 1 \in Nat
      /\ se[h + 1] \in Packets /\ se[h + 1].size \in Nat
  BY <1>1, <1>h, ElementOfSeq, BytesFacts
<1>6. off[h] \in Nat /\ off[h + 1] \in Nat /\ off[h + 1] = off[h] + n
  <2>1. off[h] \in Nat /\ off[h + 1] \in Nat
    BY <1>o, <1>5
  <2>2. off[h + 1] = off[h] + HeaderSize + se[h + 1].size
    BY <1>r, <1>5
  <2> QED BY <1>1, <1>5, <2>1, <2>2
<1>7. SubSeq(d, 1, n) = Bytes(se[h + 1])
  <2>1. /\ Bytes(se[h + 1]) \in Seq(StreamByte) /\ Len(Bytes(se[h + 1])) = n
        /\ \A k \in 1 .. n : Bytes(se[h + 1])[k] = [p |-> se[h + 1], k |-> k]
    BY <1>5, BytesFacts
  <2>2. \A k \in 1 .. n : k <= Len(d) => d[k] = [p |-> se[h + 1], k |-> k]
    <3>1. Len(d) > 0
      <4>1. PICK x : x = n
        OBVIOUS
      <4>2. PICK z : z = se[h + 1].size
        OBVIOUS
      <4>3. z \in Nat /\ x = HeaderSize + z /\ x <= Len(d)
        BY <1>5, <4>1, <4>2
      <4> QED BY <1>1, <4>3
    <3> QED BY <3>1, FrontPacket
  <2>3. \A k \in 1 .. n : SubSeq(d, 1, n)[k] = Bytes(se[h + 1])[k]
    <3> TAKE k \in 1 .. n
    <3>1. k <= Len(d)
      BY <1>1
    <3> QED BY <1>3, <2>1, <2>2, <3>1
  <2>4. Len(SubSeq(d, 1, n)) = n /\ SubSeq(d, 1, n) \in Seq(StreamByte)
    BY <1>3
  <2>5. \A k \in 1 .. Len(SubSeq(d, 1, n)) : SubSeq(d, 1, n)[k] = Bytes(se[h + 1])[k]
    BY <2>3, <2>4
  <2> QED BY <2>1, <2>4, <2>5, SeqEqual
<1>8. ASSUME NEW i \in (h + 1) + 1 .. Len(se), NEW k \in 1 .. HeaderSize + se[i].size
      PROVE  At(d2, s, (off[i - 1] - off[h + 1]) + k) = [p |-> se[i], k |-> k]
  <2>1. i \in h + 1 .. Len(se) /\ i - 1 \in 0 .. Len(se) /\ h + 1 \in 0 .. Len(se)
        /\ h + 1 <= i - 1 /\ i \in 1 .. Len(se) /\ i - 1 \in Nat
    <3>1. PICK l : l = Len(se)
      OBVIOUS
    <3>2. l \in Nat /\ h \in Nat /\ i \in (h + 1) + 1 .. l
      BY <1>1, <1>5, <3>1
    <3>3. i \in h + 1 .. l /\ i - 1 \in 0 .. l /\ h + 1 \in 0 .. l
          /\ h + 1 <= i - 1 /\ i \in 1 .. l /\ i - 1 \in Nat
      BY <3>2
    <3> QED BY <3>1, <3>3
  <2>2. off[h + 1] <= off[i - 1] /\ off[i - 1] \in Nat
    <3>1. off[h + 1] <= off[i - 1]
      BY <1>m, <2>1
    <3>2. off[i - 1] \in Nat
      BY <1>o, <2>1
    <3> QED BY <3>1, <3>2
  <2>3. PICK j : j = (off[i - 1] - off[h + 1]) + k
    OBVIOUS
  <2>4. j \in Nat /\ j >= 1 /\ (off[i - 1] - off[h]) + k = j + n
    <3>1. se[i].size \in Nat
      BY <2>1, ElementOfSeq, BytesFacts
    <3>2. PICK a : a = off[i - 1]
      OBVIOUS
    <3>3. PICK c : c = off[h]
      OBVIOUS
    <3>4. PICK e : e = off[h + 1]
      OBVIOUS
    <3>5. a \in Nat /\ c \in Nat /\ e \in Nat /\ e <= a /\ e = c + n /\ j = (a - e) + k
      BY <1>6, <2>2, <2>3, <3>2, <3>3, <3>4
    <3>6. k \in Nat /\ k >= 1
      BY <1>1, <3>1
    <3>7. j \in Nat /\ j >= 1 /\ (a - c) + k = j + n
      <4>1. PICK x : x = n
        OBVIOUS
      <4>2. PICK b : b = a - e
        OBVIOUS
      <4>3. b \in Nat /\ x \in Nat /\ e = c + x /\ c \in Nat /\ a \in Nat /\ b = a - e
        <5>1. n \in Nat
          OBVIOUS
        <5>2. x \in Nat
          BY <4>1, <5>1
        <5>3. a \in Nat /\ c \in Nat /\ e \in Nat /\ e <= a
          BY <3>5
        <5>4. b \in Nat
          BY <4>2, <5>3
        <5>5. e = c + n
          BY <3>5
        <5>6. e = c + x
          BY <4>1, <5>5
        <5> QED BY <4>2, <5>2, <5>3, <5>4, <5>6
      <4>4. a - c = b + x
        BY <4>3
      <4>5. b + k \in Nat /\ b + k >= 1 /\ (b + x) + k = (b + k) + x
        BY <3>6, <4>3
      <4> QED BY <3>5, <4>1, <4>2, <4>4, <4>5
    <3> QED BY <3>2, <3>3, <3>7
  <2>5. At(d, s, j + n) = [p |-> se[i], k |-> k]
    BY <1>b, <2>1, <2>4
  <2>6. At(d2, s, j) = At(d, s, j + n)
    <3>1. CASE j <= Len(d2)
      <4>1. j \in 1 .. Len(d) - n /\ n + j = j + n /\ j + n <= Len(d)
        <5>1. PICK l : l = Len(d)
          OBVIOUS
        <5>2. PICK x : x = n
          OBVIOUS
        <5>3. j <= l - x
          BY <1>3, <3>1, <5>1, <5>2
        <5>4. l \in Nat /\ j \in Nat /\ j >= 1
          BY <1>1, <2>4, <5>1
        <5>5. x \in Nat
          BY <5>2
        <5>6. j \in 1 .. l - x /\ x + j = j + x /\ j + x <= l
          BY <5>3, <5>4, <5>5
        <5> QED BY <5>1, <5>2, <5>6
      <4> QED BY <1>3, <3>1, <4>1 DEF At
    <3>2. CASE ~(j <= Len(d2))
      <4>1. ~(j + n <= Len(d)) /\ (j + n) - Len(d) = j - Len(d2)
        <5>1. PICK l : l = Len(d)
          OBVIOUS
        <5>2. PICK m : m = Len(d2)
          OBVIOUS
        <5>3. PICK x : x = n
          OBVIOUS
        <5>4. m = l - x /\ ~(j <= m)
          BY <1>3, <3>2, <5>1, <5>2, <5>3
        <5>5. l \in Nat /\ j \in Nat
          BY <1>1, <2>4, <5>1
        <5>6. x \in Nat
          BY <5>3
        <5>7. ~(j + x <= l) /\ (j + x) - l = j - m
          BY <5>4, <5>5, <5>6
        <5> QED BY <5>1, <5>2, <5>3, <5>7
      <4> QED BY <3>2, <4>1 DEF At
    <3> QED BY <3>1, <3>2
  <2> QED BY <2>3, <2>5, <2>6
<1>9. Len(d2) + Len(s) = off[Len(se)] - off[h + 1]
  <2>1. off[Len(se)] \in Nat
    BY <1>1, <1>o
  <2>2. Len(d2) = Len(d) - n
    BY <1>3
  <2>3. PICK e : e = off[h + 1]
    OBVIOUS
  <2>4. PICK c : c = off[h]
    OBVIOUS
  <2>5. PICK z : z = off[Len(se)]
    OBVIOUS
  <2>6. e = c + n /\ Len(d) + Len(s) = z - c /\ e \in Nat /\ c \in Nat /\ z \in Nat
    BY <1>l, <1>6, <2>1, <2>3, <2>4, <2>5
  <2>7. Len(d2) + Len(s) = z - e
    BY <1>1, <2>2, <2>6
  <2> QED BY <2>3, <2>5, <2>7
<1>10. h + 1 \in 0 .. Len(se)
  BY <1>1, <1>5
<1> QED BY <1>2, <1>o, <1>r, <1>m, <1>7, <1>8, <1>9, <1>10 DEF Framing

-----------------------------------------------------------------------------
(* The loop drops no data of a client whose packets fit. *)
LEMMA LoopKeeps ==
  ASSUME NEW d \in Seq(StreamByte), Len(d) <= BufferSize, NEW old \in FitSizes,
         ReadAndDivide(d, old),
         Len(d) >= HeaderSize =>
           Genuine(d) /\ d[1].p.size <= BufferSize - HeaderSize
  PROVE  data' = d
<1>1. PICK size \in BodySizes \cup {0} :
         /\ Divided(d, size)
         /\ Len(d) >= HeaderSize /\ Genuine(d) => size = d[1].p.size
         /\ Len(d) < HeaderSize => size = old
  BY ReadFacts
<1>2. Len(d) \in Nat /\ HeaderSize \in Nat /\ BufferSize \in Nat
      /\ BufferSize > HeaderSize
  BY FramesAssumption, LenProperties
<1>3. size \in Nat
  BY <1>1, FramesAssumption
<1>4. old <= BufferSize - HeaderSize
  BY <1>2 DEF FitSizes
<1>5. size <= BufferSize - HeaderSize
  BY <1>1, <1>2, <1>4
<1> QED BY <1>1, <1>2, <1>3, <1>5 DEF Divided

(* What Framing says of a buffer with a header in it. *)
LEMMA FramedHeader ==
  ASSUME TypeInv, AllFit, NEW d \in Seq(StreamByte), NEW s \in Seq(StreamByte),
         NEW h, NEW off, Framing(d, s, sent, h, off), Len(d) >= HeaderSize
  PROVE  /\ Genuine(d) /\ d[1].p.size <= BufferSize - HeaderSize
         /\ h + 1 \in 1 .. Len(sent) /\ d[1].p = sent[h + 1]
<1>1. sent \in Seq(Packets)
  BY DEF TypeInv
<1>2. Genuine(d) /\ d[1].p = sent[h + 1] /\ h + 1 \in 1 .. Len(sent)
  BY <1>1, FrontHeader
<1> QED BY <1>2 DEF AllFit

LEMMA SendFramed ==
  ASSUME Inv, Framed, NEW size \in BodySizes, NEW good \in BOOLEAN, Send(size, good)
  PROVE  Framed'
<1> SUFFICES ASSUME fresh', AllFit'
             PROVE  /\ HandledRight'
                    /\ \E off \in [Nat -> Nat] :
                         Framing(data, stream, sent, Len(handled), off)'
  BY DEF Framed
<1>1. PICK p : p = [id |-> made + 1, size |-> size, good |-> good]
  OBVIOUS
<1>2. /\ sent' = Append(sent, p) /\ stream' = stream \o Bytes(p)
      /\ UNCHANGED <<data, header, pc, handled, fresh, conns>>
  BY <1>1 DEF Send
<1>3. /\ data \in Seq(StreamByte) /\ stream \in Seq(StreamByte)
      /\ sent \in Seq(Packets) /\ made \in Nat
  BY FramesAssumption DEF Inv, TypeInv
<1>4. p \in Packets
  BY <1>1, <1>3 DEF Packets
<1>5. /\ Len(sent) \in Nat /\ Len(sent') = Len(sent) + 1
      /\ \A i \in 1 .. Len(sent) : sent'[i] = sent[i]
  BY <1>2, <1>3, <1>4, AppendProperties, LenProperties
<1>6. AllFit
  <2>1. \A i \in 1 .. Len(sent) : i \in 1 .. Len(sent')
    BY <1>5
  <2> QED BY <1>5, <2>1 DEF AllFit
<1>7. HandledRight /\ \E off \in [Nat -> Nat] :
        Framing(data, stream, sent, Len(handled), off)
  BY <1>2, <1>6 DEF Framed
<1>8. PICK off \in [Nat -> Nat] : Framing(data, stream, sent, Len(handled), off)
  BY <1>7
<1>9. PICK o \in [Nat -> Nat] :
        Framing(data, stream \o Bytes(p), Append(sent, p), Len(handled), o)
  BY <1>3, <1>4, <1>8, SendFraming
<1>10. Framing(data, stream, sent, Len(handled), o)'
  BY <1>2, <1>9 DEF Framing, At
<1>11. HandledRight'
  <2>1. Len(handled) \in 0 .. Len(sent)
    BY <1>8 DEF Framing
  <2>2. \A i \in 1 .. Len(handled) : i \in 1 .. Len(sent)
    BY <1>5, <2>1
  <2>3. handled' = handled /\ HandledRight
    BY <1>2, <1>7
  <2>4. \A i \in 1 .. Len(handled) : handled[i] = Bytes(sent[i])
    BY <2>3 DEF HandledRight
  <2>5. \A i \in 1 .. Len(handled) : handled[i] = Bytes(sent'[i])
    BY <1>5, <2>2, <2>4
  <2> QED BY <2>3, <2>5 DEF HandledRight, Bytes
<1> QED BY <1>10, <1>11

(* A completion only moves bytes from the way into the buffer. *)
LEMMA ReceiveKeeps ==
  ASSUME Inv, Framed, fresh', AllFit', NEW n \in 1 .. Len(stream), Receive(n)
  PROVE  /\ data' = data \o SubSeq(stream, 1, n)
         /\ stream' = SubSeq(stream, n + 1, Len(stream))
         /\ HandledRight
         /\ \E off \in [Nat -> Nat] :
              Framing(data', stream', sent, Len(handled), off)
<1>1. PICK d : d = data \o SubSeq(stream, 1, n)
  OBVIOUS
<1>2. PICK s : s = SubSeq(stream, n + 1, Len(stream))
  OBVIOUS
<1>3. TypeInv /\ header \in FitSizes /\ data \in Seq(StreamByte)
      /\ stream \in Seq(StreamByte) /\ sent \in Seq(Packets)
  BY DEF Inv, TypeInv
<1>4. /\ n <= Len(stream) /\ n \in Nat
      /\ d \in Seq(StreamByte) /\ Len(d) = Len(data) + n
      /\ Len(data) + n <= BufferSize /\ stream' \in Seq(StreamByte)
  BY <1>1, <1>3, ReceiveData
<1>5. /\ ReadAndDivide(d, header) /\ stream' = s
      /\ UNCHANGED <<sent, handled, fresh, made, conns>>
  BY <1>1, <1>2 DEF Receive
<1>6. AllFit
  BY <1>5 DEF AllFit
<1>7. HandledRight /\ \E off \in [Nat -> Nat] :
        Framing(data, stream, sent, Len(handled), off)
  BY <1>5, <1>6 DEF Framed
<1>8. PICK off \in [Nat -> Nat] : Framing(data, stream, sent, Len(handled), off)
  BY <1>7
<1>9. Framing(d, s, sent, Len(handled), off)
  BY <1>1, <1>2, <1>3, <1>4, <1>8, MoveFraming
<1>10. Len(d) >= HeaderSize => Genuine(d) /\ d[1].p.size <= BufferSize - HeaderSize
  <2>1. s \in Seq(StreamByte)
    BY <1>4, <1>5
  <2> QED BY <1>3, <1>4, <1>6, <1>9, <2>1, FramedHeader
<1>11. data' = d
  <2>1. Len(d) <= BufferSize
    BY <1>4
  <2> QED BY <1>3, <1>4, <1>5, <1>10, <2>1, LoopKeeps
<1> QED BY <1>1, <1>2, <1>5, <1>7, <1>9, <1>11

LEMMA ReceiveFramed ==
  ASSUME Inv, Framed, NEW n \in 1 .. Len(stream), Receive(n)
  PROVE  Framed'
<1> SUFFICES ASSUME fresh', AllFit'
             PROVE  /\ HandledRight'
                    /\ \E off \in [Nat -> Nat] :
                         Framing(data, stream, sent, Len(handled), off)'
  BY DEF Framed
<1>1. UNCHANGED <<sent, handled, fresh, made, conns>>
  BY DEF Receive
<1>2. HandledRight /\ \E off \in [Nat -> Nat] :
        Framing(data', stream', sent, Len(handled), off)
  BY ReceiveKeeps
<1>3. PICK off \in [Nat -> Nat] : Framing(data', stream', sent, Len(handled), off)
  BY <1>2
<1>4. Framing(data, stream, sent, Len(handled), off)'
  BY <1>1, <1>3 DEF Framing, At
<1>5. HandledRight'
  BY <1>1, <1>2 DEF HandledRight, Bytes
<1> QED BY <1>4, <1>5

(* The loop takes the packet at the front, whole, and nothing else. *)
LEMMA HandleTakes ==
  ASSUME Inv, Framed, fresh', AllFit', Handle
  PROVE  \E n \in Nat : \E off \in [Nat -> Nat] :
           /\ n <= Len(data)
           /\ handled' = Append(handled, SubSeq(data, 1, n))
           /\ data' = SubSeq(data, n + 1, Len(data))
           /\ HandledRight
           /\ Len(handled) + 1 \in 1 .. Len(sent)
           /\ SubSeq(data, 1, n) = Bytes(sent[Len(handled) + 1])
           /\ Framing(data', stream, sent, Len(handled) + 1, off)
<1>1. PICK n : n = HeaderSize + header
  OBVIOUS
<1>2. PICK rest : rest = SubSeq(data, n + 1, Len(data))
  OBVIOUS
<1>3. PICK old : old = IF rest = <<>> THEN 0 ELSE header
  OBVIOUS
<1>4. PICK h : h = Len(handled)
  OBVIOUS
<1>5. /\ TypeInv /\ header \in FitSizes /\ data \in Seq(StreamByte)
      /\ stream \in Seq(StreamByte) /\ sent \in Seq(Packets)
      /\ handled \in Seq(Seq(StreamByte))
  BY DEF Inv, TypeInv
<1>6. /\ pc = "handle"
      /\ handled' = Append(handled, SubSeq(data, 1, n))
      /\ ReadAndDivide(rest, old)
      /\ UNCHANGED <<stream, sent, fresh, made, conns>>
  BY <1>1, <1>2, <1>3 DEF Handle
<1>7. /\ n \in Nat /\ n <= Len(data)
      /\ SubSeq(data, 1, n) \in Seq(StreamByte)
      /\ rest \in Seq(StreamByte) /\ Len(rest) = Len(data) - n
      /\ Len(data) \in Nat /\ Len(data) <= BufferSize
  BY <1>1, <1>2, <1>5, <1>6, HandleData
<1>8. AllFit
  BY <1>6 DEF AllFit
<1>9. HandledRight /\ \E off \in [Nat -> Nat] :
        Framing(data, stream, sent, Len(handled), off)
  BY <1>6, <1>8 DEF Framed
<1>10. PICK off \in [Nat -> Nat] : Framing(data, stream, sent, h, off)
  BY <1>4, <1>9
<1>11. Len(data) >= HeaderSize
  <2>1. header \in Nat
    BY <1>5, FitIsNat
  <2> QED BY <1>1, <1>7, <2>1, FramesAssumption
<1>12. Genuine(data) /\ h + 1 \in 1 .. Len(sent) /\ data[1].p = sent[h + 1]
  BY <1>5, <1>8, <1>10, <1>11, FramedHeader
<1>13. header = sent[h + 1].size
  BY <1>6, <1>12 DEF Inv, Waiting
<1>14. /\ SubSeq(data, 1, n) = Bytes(sent[h + 1])
       /\ Framing(rest, stream, sent, h + 1, off)
  <2>1. n = HeaderSize + sent[h + 1].size
    BY <1>1, <1>13
  <2>2. \A m \in Nat : m = HeaderSize + sent[h + 1].size /\ m <= Len(data) =>
          /\ SubSeq(data, 1, m) = Bytes(sent[h + 1])
          /\ Framing(SubSeq(data, m + 1, Len(data)), stream, sent, h + 1, off)
    BY <1>5, <1>10, <1>12, TakeFraming
  <2> QED BY <1>2, <1>7, <2>1, <2>2
<1>15. Len(rest) >= HeaderSize =>
         Genuine(rest) /\ rest[1].p.size <= BufferSize - HeaderSize
  BY <1>5, <1>7, <1>8, <1>14, FramedHeader
<1>16. data' = rest
  <2>1. Len(rest) <= BufferSize
    BY <1>7, FramesAssumption
  <2>2. old \in FitSizes
    BY <1>3, <1>5 DEF FitSizes
  <2> QED BY <1>6, <1>7, <1>15, <2>1, <2>2, LoopKeeps
<1>17. data' = SubSeq(data, n + 1, Len(data))
  BY <1>2, <1>16
<1>18. Framing(data', stream, sent, Len(handled) + 1, off)
  BY <1>4, <1>14, <1>16
<1>19. Len(handled) + 1 \in 1 .. Len(sent) /\ SubSeq(data, 1, n) = Bytes(sent[Len(handled) + 1])
  BY <1>4, <1>12, <1>14
<1> QED BY <1>6, <1>7, <1>9, <1>17, <1>18, <1>19

LEMMA HandleFramed ==
  ASSUME Inv, Framed, Handle
  PROVE  Framed'
<1> SUFFICES ASSUME fresh', AllFit'
             PROVE  /\ HandledRight'
                    /\ \E off \in [Nat -> Nat] :
                         Framing(data, stream, sent, Len(handled), off)'
  BY DEF Framed
<1>1. PICK h : h = Len(handled)
  OBVIOUS
<1>2. /\ data \in Seq(StreamByte) /\ handled \in Seq(Seq(StreamByte))
  BY DEF Inv, TypeInv
<1>3. UNCHANGED <<stream, sent, fresh, made, conns>>
  BY DEF Handle
<1>4. PICK n \in Nat, off \in [Nat -> Nat] :
        /\ n <= Len(data)
        /\ handled' = Append(handled, SubSeq(data, 1, n))
        /\ HandledRight
        /\ SubSeq(data, 1, n) = Bytes(sent[h + 1])
        /\ Framing(data', stream, sent, h + 1, off)
  BY <1>1, HandleTakes
<1>5. /\ Len(handled') = h + 1 /\ h \in Nat
       /\ handled'[h + 1] = SubSeq(data, 1, n)
       /\ \A i \in 1 .. h : handled'[i] = handled[i]
  <2>1. Len(handled) \in Nat
    BY <1>2, LenProperties
  <2>2. SubSeq(data, 1, n) \in Seq(StreamByte)
    BY <1>2, <1>4, Cut
  <2>3. /\ Len(handled') = Len(handled) + 1
        /\ handled'[Len(handled) + 1] = SubSeq(data, 1, n)
        /\ \A i \in 1 .. Len(handled) : handled'[i] = handled[i]
    <3>1. PICK b : b = SubSeq(data, 1, n)
      OBVIOUS
    <3>2. b \in Seq(StreamByte) /\ handled \in Seq(Seq(StreamByte))
      BY <1>2, <2>2, <3>1
    <3>3. /\ Len(Append(handled, b)) = Len(handled) + 1
          /\ Append(handled, b)[Len(handled) + 1] = b
          /\ \A i \in 1 .. Len(handled) : Append(handled, b)[i] = handled[i]
      BY <3>2, AppendProperties
    <3> QED BY <1>4, <3>1, <3>3
  <2> QED BY <1>1, <2>1, <2>3
<1>6. Framing(data, stream, sent, Len(handled), off)'
  <2>1. Framing(data', stream', sent', Len(handled'), off)
    BY <1>3, <1>4, <1>5
  <2> QED BY <2>1 DEF Framing, At
<1>7. HandledRight'
  <2>1. \A i \in 1 .. h : handled[i] = Bytes(sent[i])
    BY <1>1, <1>4 DEF HandledRight
  <2>2. \A i \in 1 .. h + 1 : handled'[i] = Bytes(sent[i])
    <3> TAKE i \in 1 .. h + 1
    <3>1. CASE i = h + 1
      BY <1>4, <1>5, <3>1
    <3>2. CASE i # h + 1
      <4>1. h \in Nat
        BY <1>5
      <4>2. i \in 1 .. h
        BY <3>2, <4>1
      <4> QED BY <1>5, <2>1, <4>2
    <3> QED BY <3>1, <3>2
  <2>3. \A i \in 1 .. Len(handled') : handled'[i] = Bytes(sent'[i])
    BY <1>3, <1>5, <2>2
  <2> QED BY <2>3 DEF HandledRight, Bytes
<1> QED BY <1>6, <1>7

(* A new connection of a session whose buffer was empty. *)
LEMMA ReuseFramed ==
  ASSUME Inv, Reuse
  PROVE  Framed'
<1> SUFFICES ASSUME fresh'
             PROVE  /\ HandledRight'
                    /\ \E off \in [Nat -> Nat] :
                         Framing(data, stream, sent, Len(handled), off)'
  BY DEF Framed
<1>1. /\ data' = <<>> /\ stream' = <<>> /\ sent' = <<>> /\ handled' = <<>>
  BY DEF Reuse
<1>2. Len(data') = 0 /\ Len(stream') = 0 /\ Len(sent') = 0 /\ Len(handled') = 0
  BY <1>1, EmptySeq
<1>3. HandledRight'
  BY <1>2 DEF HandledRight
<1>4. PICK off : off = [i \in Nat |-> 0]
  OBVIOUS
<1>5. off \in [Nat -> Nat] /\ \A i \in Nat : off[i] = 0
  BY <1>4
<1>6. Framing(data, stream, sent, Len(handled), off)'
  BY <1>2, <1>5 DEF Framing
<1> QED BY <1>3, <1>5, <1>6

LEMMA InitFramed ==
  ASSUME Init PROVE Framed
<1>1. /\ data = <<>> /\ stream = <<>> /\ sent = <<>> /\ handled = <<>>
  BY DEF Init
<1>2. Len(data) = 0 /\ Len(stream) = 0 /\ Len(sent) = 0 /\ Len(handled) = 0
  BY <1>1, EmptySeq
<1>3. HandledRight
  BY <1>2 DEF HandledRight
<1>4. PICK off : off = [i \in Nat |-> 0]
  OBVIOUS
<1>5. off \in [Nat -> Nat] /\ \A i \in Nat : off[i] = 0
  BY <1>4
<1>6. Framing(data, stream, sent, Len(handled), off)
  BY <1>2, <1>5 DEF Framing
<1> QED BY <1>3, <1>5, <1>6 DEF Framed

LEMMA SameFramed ==
  ASSUME Framed, UNCHANGED <<data, stream, sent, handled, fresh>>
  PROVE  Framed'
<1>1. AllFit' => AllFit
  BY DEF AllFit
<1>2. HandledRight => HandledRight'
  BY DEF HandledRight, Bytes
<1>3. ASSUME NEW off \in [Nat -> Nat], Framing(data, stream, sent, Len(handled), off)
      PROVE  Framing(data, stream, sent, Len(handled), off)'
  BY <1>3 DEF Framing, At
<1> QED BY <1>1, <1>2, <1>3 DEF Framed

LEMMA NextFramed ==
  ASSUME Inv, Framed, [Next]_vars
  PROVE  Framed'
<1>1. CASE UNCHANGED vars
  BY <1>1, SameFramed DEF vars
<1>2. CASE Next
  <2>1. ASSUME NEW size \in BodySizes, NEW good \in BOOLEAN, Send(size, good)
        PROVE  Framed'
    BY <2>1, SendFramed
  <2>2. ASSUME NEW n \in 1 .. Len(stream), Receive(n) PROVE Framed'
    BY <2>2, ReceiveFramed
  <2>3. ASSUME Handle PROVE Framed'
    BY <2>3, HandleFramed
  <2>4. ASSUME Refuse \/ PeerLeaves PROVE Framed'
    BY <2>4, SameFramed DEF Refuse, PeerLeaves
  <2>5. ASSUME Reuse PROVE Framed'
    BY <2>5, ReuseFramed
  <2> QED BY <1>2, <2>1, <2>2, <2>3, <2>4, <2>5 DEF Next
<1> QED BY <1>1, <1>2

(* README.md:135 for every size of packet and of completion: whatever way TCP
   cuts the stream, PacketHandler::Dispatch gets the packets the client sent,
   whole, in order and each once, when they all fit into m_buffer and the
   connection began with an empty one. *)
THEOREM FramesAreRight == Spec => []FramesRight
<1>1. Init => Framed
  BY InitFramed
<1>2. Inv /\ Framed /\ [Next]_vars => Framed'
  BY NextFramed
<1>3. Inv /\ Framed => FramesRight
  <2> SUFFICES ASSUME Inv, Framed, fresh, AllFit
               PROVE  /\ Len(handled) <= Len(sent)
                      /\ \A i \in 1 .. Len(handled) : handled[i] = Bytes(sent[i])
    BY DEF FramesRight, HandledAreSent
  <2>1. HandledRight /\ Len(handled) \in 0 .. Len(sent)
    BY DEF Framed, Framing
  <2>2. Len(sent) \in Nat
    BY LenProperties DEF Inv, TypeInv
  <2> QED BY <2>1, <2>2 DEF HandledRight
<1> QED BY <1>1, <1>2, <1>3, InvAlways, PTL DEF Spec

-----------------------------------------------------------------------------
(* What FlattenSeq computes: the parts put together one after the other. *)
Flattening(f, B, s) ==
  /\ f \in [0 .. Len(s) -> Seq(B)]
  /\ f[0] = <<>>
  /\ \A i \in 1 .. Len(s) : f[i] = f[i - 1] \o s[i]
  /\ FlattenSeq(s) = f[Len(s)]

LEMMA Flattened ==
  ASSUME NEW B, NEW s \in Seq(Seq(B))
  PROVE  \E f : Flattening(f, B, s)
<1>1. PICK N : N = Len(s)
  OBVIOUS
<1>2. N \in Nat /\ \A i \in 1 .. N : s[i] \in Seq(B)
  BY <1>1, LenProperties, ElementOfSeq
<1>3. PICK step : step = [n \in 1 .. N |-> [v \in Seq(B) |-> v \o s[n]]]
  OBVIOUS
<1>4. step \in [1 .. N -> [Seq(B) -> Seq(B)]]
  <2>1. \A n \in 1 .. N, v \in Seq(B) : v \o s[n] \in Seq(B)
    BY <1>2, ConcatProperties
  <2> QED BY <1>3, <2>1
<1>5. <<>> \in Seq(B)
  BY EmptySeq
<1>6. PICK f : f \in Solutions(N, Seq(B), <<>>, step)
  BY <1>2, <1>4, <1>5, Recursion
<1>7. /\ f \in [0 .. N -> Seq(B)] /\ f[0] = <<>>
      /\ \A i \in 1 .. N : f[i] = step[i][f[i - 1]]
  BY <1>6 DEF Solutions
<1>8. \A i \in 1 .. N : f[i] = f[i - 1] \o s[i]
  <2> TAKE i \in 1 .. N
  <2>1. i - 1 \in 0 .. N
    BY <1>2
  <2>2. f[i - 1] \in Seq(B)
    BY <1>7, <2>1
  <2>3. step[i][f[i - 1]] = f[i - 1] \o s[i]
    BY <1>3, <2>2
  <2> QED BY <1>7, <2>3
<1>9. FlattenSeq(s) = f[N]
  <2>1. CASE N = 0
    <3>1. s = <<>>
      BY <1>1, <2>1, EmptySeq
    <3> QED BY <1>1, <1>7, <2>1, <3>1 DEF FlattenSeq
  <2>2. CASE N # 0
    <3> DEFINE Eq(g) == g = [i \in 1 .. N |-> IF i = 1 THEN s[i] ELSE g[i - 1] \o s[i]]
    <3>1. \E h : Eq(h)
      <4>1. PICK h : h = [i \in 1 .. N |-> f[i]]
        OBVIOUS
      <4>2. f[1] = s[1]
        <5>1. 1 \in 1 .. N /\ 1 - 1 = 0
          BY <1>2, <2>2
        <5>2. s[1] \in Seq(B) /\ f[1] = <<>> \o s[1]
          BY <1>2, <1>7, <1>8, <5>1
        <5> QED BY <5>2, ConcatEmptySeq
      <4>3. ASSUME NEW i \in 1 .. N
            PROVE  f[i] = IF i = 1 THEN s[i] ELSE h[i - 1] \o s[i]
        <5>1. CASE i = 1
          BY <4>2, <5>1
        <5>2. CASE i # 1
          <6>1. i - 1 \in 1 .. N
            BY <1>2, <5>2
          <6>2. h[i - 1] = f[i - 1]
            BY <4>1, <6>1
          <6> QED BY <1>8, <5>2, <6>2
        <5> QED BY <5>1, <5>2
      <4>4. h = [i \in 1 .. N |-> IF i = 1 THEN s[i] ELSE h[i - 1] \o s[i]]
        BY <4>1, <4>3, Zenon
      <4> QED BY <4>4
    <3>2. PICK g : g = CHOOSE h : Eq(h)
      OBVIOUS
    <3>3. Eq(g)
      BY <3>1, <3>2
    <3>4. FlattenSeq(s) = g[N]
      BY <1>1, <2>2, <3>2 DEF FlattenSeq
    <3>5. \A i \in 1 .. N : g[i] = IF i = 1 THEN s[i] ELSE g[i - 1] \o s[i]
      BY <3>3
    <3>6. PICK S : S = {i \in 0 .. N : i = 0 \/ g[i] = f[i]}
      OBVIOUS
    <3>7. 0 \in S
      BY <1>2, <3>6
    <3>8. \A i \in 0 .. N - 1 : i \in S => i + 1 \in S
      <4> TAKE i \in 0 .. N - 1
      <4> HAVE i \in S
      <4>1. PICK j : j = i + 1
        OBVIOUS
      <4>2. j \in 1 .. N /\ j \in 0 .. N /\ j - 1 = i
        BY <1>2, <4>1
      <4>3. f[j] = f[i] \o s[j] /\ g[j] = IF j = 1 THEN s[j] ELSE g[i] \o s[j]
        BY <1>8, <3>5, <4>2
      <4>4. CASE i = 0
        <5>1. j = 1 /\ s[j] \in Seq(B) /\ f[i] = <<>>
          BY <1>2, <1>7, <4>1, <4>2, <4>4
        <5>2. f[j] = s[j]
          BY <4>3, <5>1, ConcatEmptySeq
        <5>3. g[j] = f[j]
          BY <4>3, <5>1, <5>2
        <5> QED BY <3>6, <4>1, <4>2, <5>3
      <4>5. CASE i # 0
        <5>1. j # 1 /\ g[i] = f[i]
          BY <3>6, <4>1, <4>5
        <5>2. g[j] = f[j]
          BY <4>3, <5>1
        <5> QED BY <3>6, <4>1, <4>2, <5>2
      <4> QED BY <4>4, <4>5
    <3>9. 0 .. N \subseteq S
      BY <1>2, <3>7, <3>8, UpTo
    <3>10. N \in S
      BY <1>2, <3>9
    <3> QED BY <2>2, <3>4, <3>6, <3>10
  <2> QED BY <2>1, <2>2
<1> QED BY <1>1, <1>7, <1>8, <1>9 DEF Flattening

(* One part more. *)
LEMMA FlattenAppend ==
  ASSUME NEW B, NEW s \in Seq(Seq(B)), NEW x \in Seq(B)
  PROVE  /\ FlattenSeq(s) \in Seq(B)
         /\ FlattenSeq(Append(s, x)) = FlattenSeq(s) \o x
<1>1. PICK t : t = Append(s, x)
  OBVIOUS
<1>2. PICK N : N = Len(s)
  OBVIOUS
<1>3. /\ N \in Nat /\ t \in Seq(Seq(B)) /\ Len(t) = N + 1 /\ t[N + 1] = x
      /\ \A i \in 1 .. N : t[i] = s[i]
  BY <1>1, <1>2, LenProperties, AppendProperties
<1>4. PICK f : Flattening(f, B, s)
  BY Flattened
<1>5. PICK g : Flattening(g, B, t)
  BY <1>3, Flattened
<1>6. /\ f \in [0 .. N -> Seq(B)] /\ f[0] = <<>>
      /\ \A i \in 1 .. N : f[i] = f[i - 1] \o s[i]
      /\ FlattenSeq(s) = f[N]
  BY <1>2, <1>4 DEF Flattening
<1>7. /\ g[0] = <<>>
      /\ \A i \in 1 .. N + 1 : g[i] = g[i - 1] \o t[i]
      /\ FlattenSeq(t) = g[N + 1]
  BY <1>3, <1>5 DEF Flattening
<1>8. PICK S : S = {i \in 0 .. N : g[i] = f[i]}
  OBVIOUS
<1>9. 0 \in S
  BY <1>3, <1>6, <1>7, <1>8
<1>10. \A i \in 0 .. N - 1 : i \in S => i + 1 \in S
  <2> TAKE i \in 0 .. N - 1
  <2> HAVE i \in S
  <2>1. PICK j : j = i + 1
    OBVIOUS
  <2>2. j \in 1 .. N /\ j \in 1 .. N + 1 /\ j \in 0 .. N /\ j - 1 = i
    BY <1>3, <2>1
  <2>3. f[j] = f[i] \o s[j] /\ g[j] = g[i] \o t[j] /\ t[j] = s[j] /\ g[i] = f[i]
    BY <1>3, <1>6, <1>7, <1>8, <2>2
  <2> QED BY <1>8, <2>1, <2>2, <2>3
<1>11. 0 .. N \subseteq S
  BY <1>3, <1>9, <1>10, UpTo
<1>12. g[N] = f[N] /\ f[N] \in Seq(B)
  BY <1>3, <1>6, <1>8, <1>11
<1>13. N + 1 \in 1 .. N + 1 /\ (N + 1) - 1 = N
  BY <1>3
<1>14. g[N + 1] = g[N] \o x
  BY <1>3, <1>7, <1>13
<1> QED BY <1>1, <1>6, <1>7, <1>12, <1>14

LEMMA FlattenNothing == FlattenSeq(<<>>) = <<>>
<1>1. Len(<<>>) = 0
  BY EmptySeq
<1> QED BY <1>1 DEF FlattenSeq

-----------------------------------------------------------------------------
(* Every byte is somewhere. *)
PacketBytes(se) == [i \in 1 .. Len(se) |-> Bytes(se[i])]

LEMMA PacketBytesAppend ==
  ASSUME NEW se \in Seq(Packets), NEW p \in Packets
  PROVE  /\ PacketBytes(se) \in Seq(Seq(StreamByte))
         /\ Bytes(p) \in Seq(StreamByte)
         /\ PacketBytes(Append(se, p)) = Append(PacketBytes(se), Bytes(p))
<1>1. \A q \in Packets : Bytes(q) \in Seq(StreamByte)
  BY BytesFacts
<1>2. \A s \in Seq(Packets) :
        /\ PacketBytes(s) \in Seq(Seq(StreamByte)) /\ Len(PacketBytes(s)) = Len(s)
        /\ \A i \in 1 .. Len(s) : PacketBytes(s)[i] = Bytes(s[i])
  <2> TAKE s \in Seq(Packets)
  <2>1. Len(s) \in Nat /\ \A i \in 1 .. Len(s) : s[i] \in Packets
    BY LenProperties, ElementOfSeq
  <2>2. PacketBytes(s) \in [1 .. Len(s) -> Seq(StreamByte)]
    BY <1>1, <2>1 DEF PacketBytes
  <2>3. PacketBytes(s) \in Seq(Seq(StreamByte))
    BY <2>1, <2>2, SeqDef
  <2>4. Len(PacketBytes(s)) = Len(s)
    <3>1. /\ Len(PacketBytes(s)) \in Nat
          /\ DOMAIN PacketBytes(s) = 1 .. Len(PacketBytes(s))
      BY <2>3, LenProperties
    <3>2. DOMAIN PacketBytes(s) = 1 .. Len(s)
      BY <2>2
    <3> QED BY <2>1, <3>1, <3>2
  <2> QED BY <2>3, <2>4 DEF PacketBytes
<1>3. PICK t : t = Append(se, p)
  OBVIOUS
<1>4. PICK b : b = Append(PacketBytes(se), Bytes(p))
  OBVIOUS
<1>5. /\ t \in Seq(Packets) /\ Len(t) = Len(se) + 1 /\ t[Len(se) + 1] = p
      /\ Len(se) \in Nat /\ \A i \in 1 .. Len(se) : t[i] = se[i]
  BY <1>3, AppendProperties, LenProperties
<1>6. /\ b \in Seq(Seq(StreamByte)) /\ Len(b) = Len(se) + 1
      /\ b[Len(se) + 1] = Bytes(p)
      /\ \A i \in 1 .. Len(se) : b[i] = PacketBytes(se)[i]
  BY <1>1, <1>2, <1>4, AppendProperties
<1>7. \A i \in 1 .. Len(se) + 1 : PacketBytes(t)[i] = b[i]
  <2> TAKE i \in 1 .. Len(se) + 1
  <2>1. CASE i = Len(se) + 1
    BY <1>2, <1>5, <1>6, <2>1
  <2>2. CASE i # Len(se) + 1
    <3>1. i \in 1 .. Len(se)
      BY <1>5, <2>2
    <3> QED BY <1>2, <1>5, <1>6, <3>1
  <2> QED BY <2>1, <2>2
<1>8. PacketBytes(t) = b
  BY <1>2, <1>5, <1>6, <1>7, SeqEqual
<1> QED BY <1>1, <1>2, <1>3, <1>4, <1>8

(* The bytes handled, held and under way. *)
Account(ha, d, s) == FlattenSeq(ha) \o d \o s

LEMMA Flat ==
  ASSUME NEW B, NEW s \in Seq(Seq(B))
  PROVE  FlattenSeq(s) \in Seq(B)
<1>1. <<>> \in Seq(B)
  BY EmptySeq
<1> QED BY <1>1, FlattenAppend

LEMMA CutWhole ==
  ASSUME NEW B, NEW s \in Seq(B), NEW n \in Nat, n <= Len(s)
  PROVE  SubSeq(s, 1, n) \o SubSeq(s, n + 1, Len(s)) = s
<1>1. PICK x : x = SubSeq(s, 1, n)
  OBVIOUS
<1>2. PICK y : y = SubSeq(s, n + 1, Len(s))
  OBVIOUS
<1>3. /\ x \in Seq(B) /\ Len(x) = n /\ \A i \in 1 .. n : x[i] = s[i]
      /\ y \in Seq(B) /\ Len(y) = Len(s) - n
      /\ \A i \in 1 .. Len(s) - n : y[i] = s[n + i]
  BY <1>1, <1>2, Cut
<1>4. Len(s) \in Nat
  BY LenProperties
<1>5. PICK z : z = x \o y
  OBVIOUS
<1>6. /\ z \in Seq(B) /\ Len(z) = Len(x) + Len(y)
      /\ \A i \in 1 .. Len(x) + Len(y) :
           z[i] = IF i <= Len(x) THEN x[i] ELSE y[i - Len(x)]
  BY <1>3, <1>5, ConcatProperties
<1>7. Len(x) + Len(y) = Len(s)
  BY <1>3, <1>4
<1>8. \A i \in 1 .. Len(s) : z[i] = s[i]
  <2> TAKE i \in 1 .. Len(s)
  <2>1. CASE i <= n
    BY <1>3, <1>4, <1>6, <1>7, <2>1
  <2>2. CASE ~(i <= n)
    <3>1. i - n \in 1 .. Len(s) - n /\ n + (i - n) = i
      BY <1>4, <2>2
    <3>2. z[i] = y[i - n]
      BY <1>3, <1>6, <1>7, <2>2
    <3> QED BY <1>3, <3>1, <3>2
  <2> QED BY <2>1, <2>2
<1>9. z = s
  BY <1>6, <1>7, <1>8, SeqEqual
<1> QED BY <1>1, <1>2, <1>5, <1>9

(* More bytes under way, bytes from there to the buffer, a packet out of it.
   (The parts are strings: with each fact of that in view the provers try too
   many ways to put them together.) *)
Strings(B, a, b, c, d) ==
  a \in Seq(B) /\ b \in Seq(B) /\ c \in Seq(B) /\ d \in Seq(B)

LEMMA AccountSend ==
  ASSUME NEW B, NEW a, NEW d, NEW s, NEW x, Strings(B, a, d, s, x)
  PROVE  a \o d \o (s \o x) = (a \o d \o s) \o x
<1>1. PICK c : c = a \o d
  OBVIOUS
<1>2. c \in Seq(B)
  BY <1>1, ConcatProperties DEF Strings
<1>3. s \in Seq(B) /\ x \in Seq(B)
  BY DEF Strings
<1>4. (c \o s) \o x = c \o (s \o x)
  BY <1>2, <1>3, ConcatAssociative
<1> QED BY <1>1, <1>4

LEMMA AccountReceive ==
  ASSUME NEW B, NEW a, NEW d, NEW x, NEW y, Strings(B, a, d, x, y)
  PROVE  a \o (d \o x) \o y = a \o d \o (x \o y)
<1>1. PICK c : c = a \o d
  OBVIOUS
<1>2. c \in Seq(B)
  BY <1>1, ConcatProperties DEF Strings
<1>3. a \in Seq(B) /\ d \in Seq(B) /\ x \in Seq(B)
  BY DEF Strings
<1>4. x \in Seq(B) /\ y \in Seq(B)
  BY DEF Strings
<1>5. (a \o d) \o x = a \o (d \o x)
  BY <1>3, ConcatAssociative
<1>6. (c \o x) \o y = c \o (x \o y)
  BY <1>2, <1>4, ConcatAssociative
<1> QED BY <1>1, <1>5, <1>6

LEMMA AccountHandle ==
  ASSUME NEW B, NEW a, NEW x, NEW y, NEW s, Strings(B, a, x, y, s)
  PROVE  (a \o x) \o y \o s = a \o (x \o y) \o s
<1>1. a \in Seq(B) /\ x \in Seq(B) /\ y \in Seq(B)
  BY DEF Strings
<1>2. (a \o x) \o y = a \o (x \o y)
  BY <1>1, ConcatAssociative
<1> QED BY <1>2

Conserved ==
  fresh /\ AllFit => Account(handled, data, stream) = FlattenSeq(PacketBytes(sent))

LEMMA SendConserved ==
  ASSUME Inv, Conserved, NEW size \in BodySizes, NEW good \in BOOLEAN, Send(size, good)
  PROVE  Conserved'
<1> SUFFICES ASSUME fresh', AllFit'
             PROVE  (Account(handled, data, stream) = FlattenSeq(PacketBytes(sent)))'
  BY DEF Conserved
<1>1. PICK p : p = [id |-> made + 1, size |-> size, good |-> good]
  OBVIOUS
<1>2. /\ sent' = Append(sent, p) /\ stream' = stream \o Bytes(p)
      /\ UNCHANGED <<data, header, pc, handled, fresh, conns>>
  BY <1>1 DEF Send
<1>3. /\ data \in Seq(StreamByte) /\ stream \in Seq(StreamByte)
      /\ handled \in Seq(Seq(StreamByte))
      /\ sent \in Seq(Packets) /\ made \in Nat
  BY FramesAssumption DEF Inv, TypeInv
<1>4. p \in Packets
  BY <1>1, <1>3 DEF Packets
<1>5. AllFit
  <2>1. /\ Len(sent) \in Nat /\ Len(sent') = Len(sent) + 1
        /\ \A i \in 1 .. Len(sent) : sent'[i] = sent[i]
    BY <1>2, <1>3, <1>4, AppendProperties, LenProperties
  <2>2. \A i \in 1 .. Len(sent) : i \in 1 .. Len(sent')
    BY <2>1
  <2> QED BY <2>1, <2>2 DEF AllFit
<1>6. Account(handled, data, stream) = FlattenSeq(PacketBytes(sent))
  BY <1>2, <1>5 DEF Conserved
<1>7. /\ PacketBytes(sent) \in Seq(Seq(StreamByte)) /\ Bytes(p) \in Seq(StreamByte)
      /\ PacketBytes(Append(sent, p)) = Append(PacketBytes(sent), Bytes(p))
  BY <1>3, <1>4, PacketBytesAppend
<1>8. FlattenSeq(PacketBytes(Append(sent, p)))
        = FlattenSeq(PacketBytes(sent)) \o Bytes(p)
  BY <1>7, FlattenAppend
<1>9. Account(handled, data, stream \o Bytes(p))
        = Account(handled, data, stream) \o Bytes(p)
  <2>1. PICK a : a = FlattenSeq(handled)
    OBVIOUS
  <2>2. a \in Seq(StreamByte)
    BY <1>3, <2>1, Flat
  <2>3. PICK b : b = Bytes(p)
    OBVIOUS
  <2>4. a \o data \o (stream \o b) = (a \o data \o stream) \o b
    <3>1. Strings(StreamByte, a, data, stream, b)
      BY <1>3, <1>7, <2>2, <2>3 DEF Strings
    <3> QED BY <3>1, AccountSend
  <2> QED BY <2>1, <2>3, <2>4 DEF Account
<1>10. Account(handled, data, stream \o Bytes(p))
         = FlattenSeq(PacketBytes(Append(sent, p)))
  BY <1>6, <1>8, <1>9
<1> QED BY <1>2, <1>10 DEF Account, PacketBytes, Bytes

LEMMA SameConserved ==
  ASSUME Conserved, UNCHANGED <<sent, fresh>>,
         fresh' /\ AllFit' => Account(handled', data', stream') = Account(handled, data, stream)
  PROVE  Conserved'
<1>1. AllFit' => AllFit
  BY DEF AllFit
<1>2. fresh' /\ AllFit' =>
        Account(handled', data', stream') = FlattenSeq(PacketBytes(sent))
  BY <1>1 DEF Conserved
<1> QED BY <1>2 DEF Conserved, Account, PacketBytes, Bytes

LEMMA ReceiveConserved ==
  ASSUME Inv, Framed, Conserved, NEW n \in 1 .. Len(stream), Receive(n)
  PROVE  Conserved'
<1>1. UNCHANGED <<sent, handled, fresh>>
  BY DEF Receive
<1>2. /\ data \in Seq(StreamByte) /\ stream \in Seq(StreamByte)
      /\ handled \in Seq(Seq(StreamByte)) /\ n \in Nat /\ n <= Len(stream)
  BY ReceiveData DEF Inv, TypeInv
<1>3. ASSUME fresh', AllFit'
      PROVE  Account(handled', data', stream') = Account(handled, data, stream)
  <2>1. /\ data' = data \o SubSeq(stream, 1, n)
        /\ stream' = SubSeq(stream, n + 1, Len(stream))
    BY <1>3, ReceiveKeeps
  <2>2. PICK x : x = SubSeq(stream, 1, n)
    OBVIOUS
  <2>3. PICK y : y = SubSeq(stream, n + 1, Len(stream))
    OBVIOUS
  <2>4. PICK a : a = FlattenSeq(handled)
    OBVIOUS
  <2>5. /\ x \in Seq(StreamByte) /\ y \in Seq(StreamByte) /\ x \o y = stream
        /\ a \in Seq(StreamByte)
    BY <1>2, <2>2, <2>3, <2>4, Cut, CutWhole, Flat
  <2>6. a \o (data \o x) \o y = a \o data \o (x \o y)
    <3>1. Strings(StreamByte, a, data, x, y)
      BY <1>2, <2>5 DEF Strings
    <3> QED BY <3>1, AccountReceive
  <2> QED BY <1>1, <2>1, <2>2, <2>3, <2>4, <2>5, <2>6 DEF Account
<1> QED BY <1>1, <1>3, SameConserved

LEMMA HandleConserved ==
  ASSUME Inv, Framed, Conserved, Handle
  PROVE  Conserved'
<1>1. UNCHANGED <<stream, sent, fresh>>
  BY DEF Handle
<1>2. /\ data \in Seq(StreamByte) /\ stream \in Seq(StreamByte)
      /\ handled \in Seq(Seq(StreamByte))
  BY DEF Inv, TypeInv
<1>3. ASSUME fresh', AllFit'
      PROVE  Account(handled', data', stream') = Account(handled, data, stream)
  <2>1. PICK n \in Nat :
          /\ n <= Len(data)
          /\ handled' = Append(handled, SubSeq(data, 1, n))
          /\ data' = SubSeq(data, n + 1, Len(data))
    BY <1>3, HandleTakes
  <2>2. PICK x : x = SubSeq(data, 1, n)
    OBVIOUS
  <2>3. PICK y : y = SubSeq(data, n + 1, Len(data))
    OBVIOUS
  <2>4. PICK a : a = FlattenSeq(handled)
    OBVIOUS
  <2>5. /\ x \in Seq(StreamByte) /\ y \in Seq(StreamByte) /\ x \o y = data
        /\ a \in Seq(StreamByte)
    BY <1>2, <2>1, <2>2, <2>3, <2>4, Cut, CutWhole, Flat
  <2>6. FlattenSeq(Append(handled, x)) = a \o x
    BY <1>2, <2>4, <2>5, FlattenAppend
  <2>7. (a \o x) \o y \o stream = a \o (x \o y) \o stream
    <3>1. Strings(StreamByte, a, x, y, stream)
      BY <1>2, <2>5 DEF Strings
    <3> QED BY <3>1, AccountHandle
  <2> QED BY <1>1, <2>1, <2>2, <2>3, <2>4, <2>5, <2>6, <2>7 DEF Account
<1> QED BY <1>1, <1>3, SameConserved

LEMMA NothingConserved ==
  Account(<<>>, <<>>, <<>>) = FlattenSeq(PacketBytes(<<>>))
<1>1. <<>> \in Seq({}) /\ Len(<<>>) = 0
  BY EmptySeq
<1>2. PacketBytes(<<>>) = <<>>
  <2>1. PICK b : b = PacketBytes(<<>>)
    OBVIOUS
  <2>2. b = [i \in 1 .. 0 |-> Bytes(<<>>[i])]
    BY <1>1, <2>1 DEF PacketBytes
  <2>3. 1 .. 0 = {}
    OBVIOUS
  <2>4. b \in [1 .. 0 -> {}]
    BY <2>2, <2>3
  <2>5. b \in Seq({})
    BY <2>4, SeqDef
  <2>6. Len(b) = 0
    BY <2>2, <2>3, <2>5, LenProperties
  <2> QED BY <2>1, <2>5, <2>6, EmptySeq
<1>3. FlattenSeq(<<>>) \o <<>> \o <<>> = <<>>
  BY <1>1, FlattenNothing, ConcatEmptySeq
<1> QED BY <1>2, <1>3, FlattenNothing DEF Account

LEMMA NextConserved ==
  ASSUME Inv, Framed, Conserved, [Next]_vars
  PROVE  Conserved'
<1>1. ASSUME UNCHANGED <<data, stream, sent, handled, fresh>> PROVE Conserved'
  BY <1>1, SameConserved
<1>2. CASE UNCHANGED vars
  BY <1>1, <1>2 DEF vars
<1>3. CASE Next
  <2>1. ASSUME NEW size \in BodySizes, NEW good \in BOOLEAN, Send(size, good)
        PROVE  Conserved'
    BY <2>1, SendConserved
  <2>2. ASSUME NEW n \in 1 .. Len(stream), Receive(n) PROVE Conserved'
    BY <2>2, ReceiveConserved
  <2>3. ASSUME Handle PROVE Conserved'
    BY <2>3, HandleConserved
  <2>4. ASSUME Refuse \/ PeerLeaves PROVE Conserved'
    BY <1>1, <2>4 DEF Refuse, PeerLeaves
  <2>5. ASSUME Reuse PROVE Conserved'
    <3>1. /\ fresh' => data' = <<>>
          /\ stream' = <<>> /\ sent' = <<>> /\ handled' = <<>>
      BY <2>5 DEF Reuse
    <3>2. fresh' => Account(handled', data', stream') = FlattenSeq(PacketBytes(sent'))
      BY <3>1, NothingConserved
    <3> QED BY <3>2 DEF Conserved, Account, PacketBytes, Bytes
  <2> QED BY <1>3, <2>1, <2>2, <2>3, <2>4, <2>5 DEF Next
<1> QED BY <1>2, <1>3

(* SessionData::Recv and RecvBuffer neither lose a byte nor make one: as long as
   every packet fits into m_buffer and the connection began with an empty one,
   the bytes handled, held in m_buffer and still under way are those sent, in
   order. *)
THEOREM StreamIsConserved == Spec => []StreamConserved
<1>1. Init => Conserved
  BY NothingConserved DEF Init, Conserved
<1>2. Init => Framed
  BY InitFramed
<1>3. Inv /\ Framed /\ Conserved /\ [Next]_vars => Framed' /\ Conserved'
  BY NextFramed, NextConserved
<1>4. Conserved => StreamConserved
  BY DEF Conserved, StreamConserved, Account, PacketBytes
<1> QED BY <1>1, <1>2, <1>3, <1>4, InvAlways, PTL DEF Spec
=============================================================================
