------------------------- MODULE SessionSendProofs -------------------------
(***************************************************************************)
(* What SessionSend promises, proved for any set of threads and any        *)
(* bounds: one thread at a time in the send path, no empty send, chunks    *)
(* leave in the order in which they were queued, and the whole implements  *)
(* FifoOutbox.                                                             *)
(***************************************************************************)
EXTENDS SessionSend, SeqLemmas

(* The token discipline in inductive form: at most one of a posted send and
   a sending thread exists, it owns the raised flag, and what m_Send holds
   is known at each place of the send path. *)
Token ==
  /\ \A t, u \in Threads : Sending(t) /\ Sending(u) => t = u
  /\ posted => \A t \in Threads : ~Sending(t)
  /\ posted => sendFlag /\ send.held /\ send.chunks # <<>>
  /\ \A t \in Threads :
       /\ Sending(t) => sendFlag
       /\ pc[t] \in {"clear", "drain"} => sendQueue # <<>>
       /\ pc[t] \in {"test", "post"} => send.chunks # <<>>
       /\ pc[t] \in {"sent", "broken"} => send.held /\ send.chunks # <<>>

(* m_Send is empty unless a send is being prepared, posted or taken back. *)
EmptyUnlessSending ==
  send.chunks # <<>> =>
    posted \/ \E t \in Threads : pc[t] \in {"test", "post", "sent", "broken"}

(* A raised flag, too, has somebody behind it unless a WSASend failed; whoever
   raises it is that somebody. *)
Backed ==
  /\ SomeoneSends
  /\ sendFlag => failed \/ posted \/ \E t \in Threads : Sending(t)
  /\ \A t \in Threads : pc[t] = "unflag" => failed

(* Every element of s is below every element of t. *)
Before(s, t) == \A i \in 1 .. Len(s), j \in 1 .. Len(t) : s[i] < t[j]

Bounded(s, n) == \A i \in 1 .. Len(s) : s[i] <= n

(* InOrder, taken apart. *)
LineInv ==
  /\ Rising(wire) /\ Rising(send.chunks) /\ Rising(sendQueue)
  /\ Before(wire, send.chunks)
  /\ Before(wire, sendQueue)
  /\ Before(send.chunks, sendQueue)
  /\ Bounded(wire, made) /\ Bounded(send.chunks, made)
  /\ Bounded(sendQueue, made)

-----------------------------------------------------------------------------
(* Sequences. *)

LEMMA RisingConcat ==
  ASSUME NEW s \in Seq(Nat), NEW t \in Seq(Nat),
         Rising(s), Rising(t), Before(s, t)
  PROVE  Rising(s \o t)
<1> DEFINE c == s \o t
<1>1. /\ Len(c) = Len(s) + Len(t)
      /\ \A i \in 1 .. Len(s) + Len(t) :
            c[i] = IF i <= Len(s) THEN s[i] ELSE t[i - Len(s)]
  BY ConcatProperties
<1>2. Len(s) \in Nat /\ Len(t) \in Nat
  BY LenProperties
<1>3. SUFFICES ASSUME NEW i \in 1 .. Len(c), NEW j \in 1 .. Len(c), i < j
               PROVE  c[i] < c[j]
  BY DEF Rising
<1> HIDE DEF c
<1>4. CASE j <= Len(s)
  BY <1>1, <1>2, <1>3, <1>4 DEF Rising
<1>5. CASE i <= Len(s) /\ j > Len(s)
  <2>1. i \in 1 .. Len(s) /\ j - Len(s) \in 1 .. Len(t)
    BY <1>1, <1>2, <1>5
  <2>2. c[i] = s[i] /\ c[j] = t[j - Len(s)]
    BY <1>1, <1>2, <1>5
  <2> QED BY <2>1, <2>2 DEF Before
<1>6. CASE i > Len(s)
  <2>1. /\ i - Len(s) \in 1 .. Len(t)
        /\ j - Len(s) \in 1 .. Len(t)
        /\ i - Len(s) < j - Len(s)
    BY <1>1, <1>2, <1>3, <1>6
  <2>2. c[i] = t[i - Len(s)] /\ c[j] = t[j - Len(s)]
    BY <1>1, <1>2, <1>3, <1>6
  <2> QED BY <2>1, <2>2 DEF Rising
<1> QED BY <1>1, <1>2, <1>4, <1>5, <1>6

LEMMA BeforeConcat ==
  ASSUME NEW s \in Seq(Nat), NEW t \in Seq(Nat), NEW u \in Seq(Nat)
  PROVE  /\ Before(s, u) /\ Before(t, u) => Before(s \o t, u)
         /\ Before(u, s) /\ Before(u, t) => Before(u, s \o t)
<1>1. /\ Len(s \o t) = Len(s) + Len(t)
      /\ \A i \in 1 .. Len(s) + Len(t) :
            (s \o t)[i] = IF i <= Len(s) THEN s[i] ELSE t[i - Len(s)]
  BY ConcatProperties
<1>2. Len(s) \in Nat /\ Len(t) \in Nat
  BY LenProperties
<1>3. \A i \in 1 .. Len(s \o t) :
         \/ i \in 1 .. Len(s) /\ (s \o t)[i] = s[i]
         \/ i - Len(s) \in 1 .. Len(t) /\ (s \o t)[i] = t[i - Len(s)]
  BY <1>1, <1>2
<1> QED BY <1>3 DEF Before

LEMMA BoundedConcat ==
  ASSUME NEW s \in Seq(Nat), NEW t \in Seq(Nat), NEW n \in Nat,
         Bounded(s, n), Bounded(t, n)
  PROVE  Bounded(s \o t, n)
<1>1. /\ Len(s \o t) = Len(s) + Len(t)
      /\ \A i \in 1 .. Len(s) + Len(t) :
            (s \o t)[i] = IF i <= Len(s) THEN s[i] ELSE t[i - Len(s)]
  BY ConcatProperties
<1>2. Len(s) \in Nat /\ Len(t) \in Nat
  BY LenProperties
<1> QED BY <1>1, <1>2 DEF Bounded

(* A prefix of a chunk list inherits everything LineInv says of the list. *)
LEMMA PrefixOf ==
  ASSUME NEW s \in Seq(Nat), NEW m \in 0 .. Len(s)
  PROVE  /\ SubSeq(s, 1, m) \in Seq(Nat)
         /\ Len(SubSeq(s, 1, m)) = m
         /\ \A i \in 1 .. m : SubSeq(s, 1, m)[i] = s[i]
<1>1. Len(s) \in Nat /\ \A i \in 1 .. Len(s) : s[i] \in Nat
  BY LenProperties
<1>2. \A i \in 1 .. m : s[i] \in Nat
  BY <1>1
<1>3. /\ SubSeq(s, 1, m) \in Seq(Nat)
      /\ Len(SubSeq(s, 1, m)) = IF 1 <= m THEN m - 1 + 1 ELSE 0
      /\ \A i \in 1 .. m - 1 + 1 : SubSeq(s, 1, m)[i] = s[1 + i - 1]
  <2> m \in Int
    BY <1>1
  <2> QED BY <1>2, SubSeqProperties
<1> QED BY <1>1, <1>3

(* What is left when s, at the front of s \o t, is taken away. *)
LEMMA FrontAndRest ==
  ASSUME NEW s \in Seq(Nat), NEW t \in Seq(Nat), NEW m \in 0 .. Len(s)
  PROVE  /\ SubSeq(s \o t, 1, m) = SubSeq(s, 1, m)
         /\ SubSeq(s \o t, Len(s) + 1, Len(s \o t)) = t
         /\ Len(s) \in 0 .. Len(s \o t)
<1> DEFINE c == s \o t
<1>1. /\ c \in Seq(Nat)
      /\ Len(c) = Len(s) + Len(t)
      /\ \A i \in 1 .. Len(s) + Len(t) :
            c[i] = IF i <= Len(s) THEN s[i] ELSE t[i - Len(s)]
  BY ConcatProperties
<1>2. Len(s) \in Nat /\ Len(t) \in Nat /\ m \in Nat /\ m <= Len(s)
  BY LenProperties
<1> HIDE DEF c
<1>3. SubSeq(c, 1, m) = SubSeq(s, 1, m)
  <2>1. m \in 0 .. Len(c)
    BY <1>1, <1>2
  <2>2. /\ SubSeq(c, 1, m) \in Seq(Nat)
        /\ Len(SubSeq(c, 1, m)) = m
        /\ \A i \in 1 .. m : SubSeq(c, 1, m)[i] = c[i]
    BY <1>1, <2>1, PrefixOf
  <2>3. /\ SubSeq(s, 1, m) \in Seq(Nat)
        /\ Len(SubSeq(s, 1, m)) = m
        /\ \A i \in 1 .. m : SubSeq(s, 1, m)[i] = s[i]
    BY PrefixOf
  <2>4. \A i \in 1 .. m : c[i] = s[i]
    BY <1>1, <1>2
  <2> QED BY <2>2, <2>3, <2>4, SeqEqual
<1>4. SubSeq(c, Len(s) + 1, Len(c)) = t
  <2> DEFINE r == SubSeq(c, Len(s) + 1, Len(c))
  <2>1. \A i \in Len(s) + 1 .. Len(c) : c[i] \in Nat
    <3>1. \A i \in 1 .. Len(c) : c[i] \in Nat
      BY <1>1, ElementOfSeq
    <3>2. \A i \in Len(s) + 1 .. Len(c) : i \in 1 .. Len(c)
      BY <1>1, <1>2
    <3> QED BY <3>1, <3>2
  <2>2. Len(s) + 1 \in Int /\ Len(c) \in Int
    BY <1>1, <1>2
  <2>3. /\ r \in Seq(Nat)
        /\ Len(r) = IF Len(s) + 1 <= Len(c) THEN Len(c) - (Len(s) + 1) + 1
                    ELSE 0
        /\ \A i \in 1 .. Len(c) - (Len(s) + 1) + 1 :
              r[i] = c[Len(s) + 1 + i - 1]
    BY <2>1, <2>2, SubSeqProperties
  <2> HIDE DEF r
  <2>4. Len(r) = Len(t)
    BY <2>3, <1>1, <1>2
  <2>5. \A i \in 1 .. Len(r) : r[i] = t[i]
    <3> TAKE i \in 1 .. Len(r)
    <3>0. i \in 1 .. Len(t)
      BY <2>4
    <3>1. r[i] = c[Len(s) + i]
      <4>1. i \in 1 .. Len(c) - (Len(s) + 1) + 1
        BY <3>0, <1>1, <1>2
      <4>2. Len(s) + 1 + i - 1 = Len(s) + i
        BY <3>0, <1>2
      <4> QED BY <2>3, <4>1, <4>2
    <3>2. Len(s) + i \in 1 .. Len(s) + Len(t) /\ ~(Len(s) + i <= Len(s))
      BY <3>0, <1>2
    <3>3. PICK j : j = Len(s) + i
      OBVIOUS
    <3>4. c[j] = IF j <= Len(s) THEN s[j] ELSE t[j - Len(s)]
      BY <3>2, <3>3, <1>1
    <3>5. j - Len(s) = i
      BY <3>0, <3>3, <1>2
    <3> QED BY <3>1, <3>2, <3>3, <3>4, <3>5
  <2>6. r = t
    BY <2>3, <2>4, <2>5, SeqEqual
  <2> QED BY <2>6 DEF r
<1> QED BY <1>1, <1>2, <1>3, <1>4 DEF c

-----------------------------------------------------------------------------
(* Types, and the token discipline. *)

LEMMA DeliverOK ==
  ASSUME TypeOK, Deliver PROVE wire' \in Seq(Nat)
<1>1. PICK m \in 0 .. Len(send.chunks) : wire' = wire \o SubSeq(send.chunks, 1, m)
  BY DEF Deliver
<1>2. SubSeq(send.chunks, 1, m) \in Seq(Nat)
  BY PrefixOf DEF TypeOK
<1> QED BY <1>1, <1>2, ConcatProperties DEF TypeOK

(* Every variable keeps its type, whatever threads there are. *)
THEOREM TypeCorrect == Spec => []TypeOK
<1> <<>> \in Seq(Nat)
  BY EmptySeq
<1>1. Init => TypeOK
  <2> SUFFICES ASSUME Init PROVE TypeOK
    OBVIOUS
  <2>1. pc \in [Threads -> SendPCs \cup {"idle"}]
    BY DEF Init
  <2>2. send \in [chunks : Seq(Nat), held : BOOLEAN]
    BY DEF Init, Cleared
  <2>3. sendQueue \in Seq(Nat) /\ wire \in Seq(Nat)
    BY DEF Init
  <2>4. made \in Nat /\ connStart \in Nat /\ reuses \in Nat
    BY DEF Init
  <2>5. sendFlag \in BOOLEAN /\ posted \in BOOLEAN /\ failed \in BOOLEAN
    BY DEF Init
  <2> QED BY <2>1, <2>2, <2>3, <2>4, <2>5 DEF TypeOK
<1>2. TypeOK /\ [Next]_vars => TypeOK'
  <2> SUFFICES ASSUME TypeOK, [Next]_vars PROVE TypeOK'
    OBVIOUS
  <2> USE DEF TypeOK, Goto, ConnVars, SendPCs
  <2>1. ASSUME NEW t \in Threads, InsertSendQueue(t) PROVE TypeOK'
    BY <2>1, AppendProperties DEF InsertSendQueue
  <2>2. ASSUME NEW t \in Threads, SendClear(t) PROVE TypeOK'
    BY <2>2, EmptySeq DEF SendClear, Cleared
  <2>3. ASSUME NEW t \in Threads, SendDrain(t) PROVE TypeOK'
    BY <2>3, EmptySeq, ConcatProperties DEF SendDrain
  <2>4. ASSUME NEW t \in Threads, SendTest(t) PROVE TypeOK'
    BY <2>4 DEF SendTest
  <2>5. ASSUME NEW t \in Threads, SendPost(t) PROVE TypeOK'
    BY <2>5 DEF SendPost
  <2>6. ASSUME NEW t \in Threads, SendPostFails(t) PROVE TypeOK'
    BY <2>6, EmptySeq DEF SendPostFails, Cleared
  <2>7. ASSUME NEW t \in Threads, SendUnflag(t) PROVE TypeOK'
    BY <2>7 DEF SendUnflag
  <2>8. ASSUME NEW t \in Threads, Execute(t) PROVE TypeOK'
    <3>1. wire' \in Seq(Nat)
      BY <2>8, DeliverOK DEF Execute
    <3> QED BY <2>8, <3>1, EmptySeq DEF Execute, Cleared
  <2>9. ASSUME NEW t \in Threads, ExecuteFailed(t) PROVE TypeOK'
    <3>1. wire' \in Seq(Nat)
      BY <2>9, DeliverOK DEF ExecuteFailed
    <3> QED BY <2>9, <3>1, EmptySeq DEF ExecuteFailed, Cleared
  <2>10. ASSUME NEW t \in Threads, CheckSendComplete(t) PROVE TypeOK'
    BY <2>10 DEF CheckSendComplete
  <2>11. ASSUME NEW t \in Threads, CompletionStep(t) PROVE TypeOK'
    BY <2>11 DEF CompletionStep, TakeCompletion
  <2>12. CASE Reset
    <3>1. wire' \in Seq(Nat) /\ connStart' \in Nat /\ reuses' \in Nat
      BY <2>12 DEF Reset
    <3>2. sendFlag' \in BOOLEAN
      BY <2>12 DEF Reset
    <3> QED BY <2>12, <3>1, <3>2 DEF Reset
  <2>13. CASE UNCHANGED vars
    BY <2>13 DEF vars
  <2> QED
    BY <2>1, <2>2, <2>3, <2>4, <2>5, <2>6, <2>7, <2>8, <2>9, <2>10, <2>11,
       <2>12, <2>13 DEF Next, SendStep
<1> QED BY <1>1, <1>2, PTL DEF Spec

LEMMA TokenInit == Init => Token /\ EmptyUnlessSending
BY DEF Init, Token, EmptyUnlessSending, Sending, SendPCs, Cleared

LEMMA TokenStep ==
  TypeOK /\ Token /\ EmptyUnlessSending /\ [Next]_vars
    => Token' /\ EmptyUnlessSending'
<1> SUFFICES ASSUME TypeOK, Token, EmptyUnlessSending, [Next]_vars
             PROVE  Token' /\ EmptyUnlessSending'
  OBVIOUS
<1> USE DEF TypeOK, Token, EmptyUnlessSending, Sending, SendPCs, Goto, Cleared
<1>1. ASSUME NEW t \in Threads, InsertSendQueue(t)
      PROVE  Token' /\ EmptyUnlessSending'
  <2>1. sendQueue' # <<>>
    <3>1. sendQueue' = Append(sendQueue, made + 1) /\ made + 1 \in Nat
      BY <1>1 DEF InsertSendQueue
    <3> QED BY <3>1, AppendNotEmpty
  <2>2. /\ sendQueue' # <<>> /\ sendFlag'
        /\ send' = send /\ posted' = posted
        /\ pc[t] = "idle"
        /\ pc' = [pc EXCEPT ![t] = IF sendFlag THEN "idle" ELSE "clear"]
    BY <1>1, <2>1 DEF InsertSendQueue
  <2>3. CASE sendFlag
    <3>1. pc' = pc
      BY <2>2, <2>3
    <3> QED BY <2>2, <2>3, <3>1
  <2>4. CASE ~sendFlag
    <3>1. ~posted /\ \A u \in Threads : ~Sending(u)
      BY <2>4
    <3>2. \A u \in Threads : u # t => pc'[u] = pc[u]
      BY <2>2
    <3>3. pc'[t] = "clear"
      BY <2>2, <2>4
    <3> QED BY <2>2, <3>1, <3>2, <3>3
  <2> QED BY <2>3, <2>4
<1>2. ASSUME NEW t \in Threads, SendClear(t)
      PROVE  Token' /\ EmptyUnlessSending'
  BY <1>2 DEF SendClear
<1>3. ASSUME NEW t \in Threads, SendDrain(t)
      PROVE  Token' /\ EmptyUnlessSending'
  <2>1. send.chunks \o sendQueue # <<>>
    BY <1>3, ConcatEqualIffEmpty DEF SendDrain
  <2> QED BY <2>1, <1>3 DEF SendDrain
<1>4. ASSUME NEW t \in Threads, SendTest(t)
      PROVE  Token' /\ EmptyUnlessSending'
  BY <1>4 DEF SendTest
<1>5. ASSUME NEW t \in Threads, SendPost(t)
      PROVE  Token' /\ EmptyUnlessSending'
  BY <1>5 DEF SendPost
<1>6. ASSUME NEW t \in Threads, SendPostFails(t)
      PROVE  Token' /\ EmptyUnlessSending'
  BY <1>6 DEF SendPostFails
<1>7. ASSUME NEW t \in Threads, SendUnflag(t)
      PROVE  Token' /\ EmptyUnlessSending'
  BY <1>7 DEF SendUnflag
<1>8. ASSUME NEW t \in Threads, Execute(t)
      PROVE  Token' /\ EmptyUnlessSending'
  BY <1>8 DEF Execute
<1>9. ASSUME NEW t \in Threads, ExecuteFailed(t)
      PROVE  Token' /\ EmptyUnlessSending'
  BY <1>9 DEF ExecuteFailed
<1>10. ASSUME NEW t \in Threads, CheckSendComplete(t)
       PROVE  Token' /\ EmptyUnlessSending'
  BY <1>10 DEF CheckSendComplete
<1>11. ASSUME NEW t \in Threads, CompletionStep(t)
       PROVE  Token' /\ EmptyUnlessSending'
  BY <1>11 DEF CompletionStep, TakeCompletion
<1>12. CASE Reset
  BY <1>12 DEF Reset
<1>13. CASE UNCHANGED vars
  BY <1>13 DEF vars
<1> QED
  BY <1>1, <1>2, <1>3, <1>4, <1>5, <1>6, <1>7, <1>8, <1>9, <1>10, <1>11,
     <1>12, <1>13 DEF Next, SendStep

LEMMA TokenAlways == Spec => []Token /\ []EmptyUnlessSending
BY TokenInit, TokenStep, TypeCorrect, PTL DEF Spec

(* Only one thread at a time touches m_Send, and none while the kernel owns
   it, with the session held: Send(), SendObject::Execute and the error paths
   need no lock there. *)
THEOREM OneSenderAlways == Spec => []OneSender
<1>1. Token => OneSender
  BY DEF Token, OneSender, PostedIsHeld
<1> QED BY <1>1, TokenAlways, PTL

(* A posted WSASend holds the session and has at least one chunk. *)
THEOREM PostedIsHeldAlways == Spec => []PostedIsHeld
<1>1. Token => PostedIsHeld
  BY DEF Token, PostedIsHeld
<1> QED BY <1>1, TokenAlways, PTL

(* Send() is never entered on an empty queue and never finds m_Send empty:
   SessionData.cpp:100-104 is unreachable. *)
THEOREM NeverEmptySendAlways == Spec => []NeverEmptySend
<1>1. Token => NeverEmptySend
  BY DEF Token, NeverEmptySend
<1> QED BY <1>1, TokenAlways, PTL

(* With the flag down nobody sends. *)
THEOREM FlagIsTokenAlways == Spec => []FlagIsToken
<1>1. Token => FlagIsToken
  BY DEF Token, FlagIsToken
<1> QED BY <1>1, TokenAlways, PTL

-----------------------------------------------------------------------------
(* Nobody is left waiting unless a WSASend failed. *)

LEMMA BackedStep ==
  TypeOK /\ Token /\ Backed /\ [Next]_vars => Backed'
<1> SUFFICES ASSUME TypeOK, Token, Backed, [Next]_vars PROVE Backed'
  OBVIOUS
<1> USE DEF TypeOK, Backed, SomeoneSends, Sending, SendPCs, Goto, Cleared
<1>1. ASSUME NEW t \in Threads, InsertSendQueue(t) PROVE Backed'
  <2>1. CASE sendFlag
    <3>1. pc' = pc /\ failed' = failed /\ posted' = posted
      BY <1>1, <2>1 DEF InsertSendQueue
    <3> QED BY <2>1, <3>1
  <2>2. CASE ~sendFlag
    <3>1. \A u \in Threads : pc[u] # "unflag"
      BY <2>2 DEF Token
    <3>2. pc' = [pc EXCEPT ![t] = "clear"]
      BY <1>1, <2>2 DEF InsertSendQueue
    <3> QED BY <3>1, <3>2
  <2> QED BY <2>1, <2>2
<1>2. ASSUME NEW t \in Threads, SendClear(t) PROVE Backed'
  BY <1>2 DEF SendClear
<1>3. ASSUME NEW t \in Threads, SendDrain(t) PROVE Backed'
  BY <1>3 DEF SendDrain
<1>4. ASSUME NEW t \in Threads, SendTest(t) PROVE Backed'
  <2>1. send.chunks # <<>>
    BY <1>4 DEF SendTest, Token
  <2> QED BY <1>4, <2>1 DEF SendTest
<1>5. ASSUME NEW t \in Threads, SendPost(t) PROVE Backed'
  BY <1>5 DEF SendPost
<1>6. ASSUME NEW t \in Threads, SendPostFails(t) PROVE Backed'
  BY <1>6 DEF SendPostFails
<1>7. ASSUME NEW t \in Threads, SendUnflag(t) PROVE Backed'
  BY <1>7 DEF SendUnflag
<1>8. ASSUME NEW t \in Threads, Execute(t) PROVE Backed'
  <2>1. send.held
    BY <1>8 DEF Execute, Token
  <2> QED BY <1>8, <2>1 DEF Execute
<1>9. ASSUME NEW t \in Threads, ExecuteFailed(t) PROVE Backed'
  BY <1>9 DEF ExecuteFailed
<1>10. ASSUME NEW t \in Threads, CheckSendComplete(t) PROVE Backed'
  BY <1>10 DEF CheckSendComplete
<1>11. ASSUME NEW t \in Threads, CompletionStep(t) PROVE Backed'
  BY <1>11 DEF CompletionStep, TakeCompletion
<1>12. CASE Reset
  BY <1>12 DEF Reset, Token
<1>13. CASE UNCHANGED vars
  BY <1>13 DEF vars
<1> QED
  BY <1>1, <1>2, <1>3, <1>4, <1>5, <1>6, <1>7, <1>8, <1>9, <1>10, <1>11,
     <1>12, <1>13 DEF Next, SendStep

(* A queued chunk has a sender unless a WSASend of this session failed. *)
THEOREM SomeoneSendsAlways == Spec => []SomeoneSends
<1>1. Init => Backed
  BY DEF Init, Backed, SomeoneSends
<1>2. Backed => SomeoneSends
  BY DEF Backed
<1> QED BY <1>1, <1>2, BackedStep, TokenAlways, TypeCorrect, PTL DEF Spec

-----------------------------------------------------------------------------
(* Order. *)

LEMMA NothingInLine ==
  ASSUME NEW s \in Seq(Nat), NEW n \in Nat
  PROVE  /\ Rising(<<>>) /\ Bounded(<<>>, n)
         /\ Before(<<>>, s) /\ Before(s, <<>>)
<1>1. Len(<<>>) = 0
  OBVIOUS
<1> QED BY <1>1 DEF Rising, Bounded, Before

(* The next chunk goes to the end. *)
LEMMA NextInLine ==
  ASSUME NEW s \in Seq(Nat), NEW n \in Nat, Bounded(s, n)
  PROVE  /\ Bounded(s, n + 1)
         /\ Rising(s) => Rising(Append(s, n + 1))
         /\ Bounded(Append(s, n + 1), n + 1)
         /\ \A u \in Seq(Nat) :
              Before(u, s) /\ Bounded(u, n) => Before(u, Append(s, n + 1))
<1>1. n + 1 \in Nat /\ Len(s) \in Nat /\ \A i \in 1 .. Len(s) : s[i] \in Nat
  BY LenProperties
<1>2. /\ Len(Append(s, n + 1)) = Len(s) + 1
      /\ \A i \in 1 .. Len(s) : Append(s, n + 1)[i] = s[i]
      /\ Append(s, n + 1)[Len(s) + 1] = n + 1
  BY <1>1, AppendProperties
<1>3. \A i \in 1 .. Len(s) : s[i] < n + 1 /\ s[i] <= n
  BY <1>1 DEF Bounded
<1>4. \A i \in 1 .. Len(Append(s, n + 1)) :
         i \in 1 .. Len(s) \/ i = Len(s) + 1
  BY <1>1, <1>2
<1> DEFINE a == Append(s, n + 1)
<1> HIDE DEF a
<1>5. Bounded(s, n + 1)
  BY <1>1, <1>3 DEF Bounded
<1>6. Bounded(a, n + 1)
  BY <1>1, <1>2, <1>3, <1>4 DEF Bounded, a
<1>7. ASSUME Rising(s) PROVE Rising(a)
  <2> SUFFICES ASSUME NEW i \in 1 .. Len(a), NEW j \in 1 .. Len(a), i < j
               PROVE  a[i] < a[j]
    BY DEF Rising
  <2>1. i \in 1 .. Len(s)
    BY <1>1, <1>2 DEF a
  <2>2. CASE j \in 1 .. Len(s)
    BY <1>2, <1>7, <2>1, <2>2 DEF a, Rising
  <2>3. CASE j = Len(s) + 1
    BY <1>2, <1>3, <2>1, <2>3 DEF a
  <2> QED BY <1>4, <2>2, <2>3 DEF a
<1>8. ASSUME NEW u \in Seq(Nat), Before(u, s), Bounded(u, n)
      PROVE  Before(u, a)
  <2>1. \A i \in 1 .. Len(u) : u[i] \in Nat /\ u[i] < n + 1
    BY <1>8, LenProperties DEF Bounded
  <2> QED BY <1>2, <1>4, <1>8, <2>1 DEF a, Before
<1> QED BY <1>5, <1>6, <1>7, <1>8 DEF a

(* A prefix is as well placed as the whole. *)
LEMMA PrefixInLine ==
  ASSUME NEW s \in Seq(Nat), NEW m \in 0 .. Len(s), NEW u \in Seq(Nat),
         NEW n \in Nat
  PROVE  /\ Rising(s) => Rising(SubSeq(s, 1, m))
         /\ Bounded(s, n) => Bounded(SubSeq(s, 1, m), n)
         /\ Before(s, u) => Before(SubSeq(s, 1, m), u)
         /\ Before(u, s) => Before(u, SubSeq(s, 1, m))
<1> DEFINE p == SubSeq(s, 1, m)
<1>1. Len(s) \in Nat /\ m \in Nat /\ m <= Len(s)
  BY LenProperties
<1>2. Len(p) = m /\ \A i \in 1 .. m : p[i] = s[i]
  BY PrefixOf
<1> HIDE DEF p
<1>3. \A i \in 1 .. Len(p) : i \in 1 .. Len(s) /\ p[i] = s[i]
  BY <1>1, <1>2
<1>4. Rising(s) => Rising(p)
  BY <1>3 DEF Rising
<1>5. Bounded(s, n) => Bounded(p, n)
  BY <1>3 DEF Bounded
<1>6. Before(s, u) => Before(p, u)
  BY <1>3 DEF Before
<1>7. Before(u, s) => Before(u, p)
  BY <1>3 DEF Before
<1> QED BY <1>4, <1>5, <1>6, <1>7 DEF p

LEMMA ClearedWhenClearing ==
  ASSUME TypeOK, Token, EmptyUnlessSending, NEW t \in Threads,
         pc[t] \in {"clear", "drain", "unflag", "complete"}
  PROVE  send.chunks = <<>>
BY DEF TypeOK, Token, EmptyUnlessSending, Sending, SendPCs

(* Some chunks of m_Send arrive, the others are lost. *)
LEMMA DeliverLine ==
  ASSUME TypeOK, LineInv, Deliver, send' = Cleared, UNCHANGED <<sendQueue, made>>
  PROVE  LineInv'
<1>0. /\ wire \in Seq(Nat) /\ send.chunks \in Seq(Nat)
      /\ sendQueue \in Seq(Nat) /\ made \in Nat /\ <<>> \in Seq(Nat)
  BY EmptySeq DEF TypeOK
<1>1. PICK m \in 0 .. Len(send.chunks) : wire' = wire \o SubSeq(send.chunks, 1, m)
  BY DEF Deliver
<1> DEFINE p == SubSeq(send.chunks, 1, m)
<1>2. send'.chunks = <<>>
  BY DEF Cleared
<1>3. p \in Seq(Nat)
  BY <1>0, PrefixOf
<1>4. Rising(p) /\ Bounded(p, made) /\ Before(wire, p)
  BY <1>0, PrefixInLine DEF LineInv
<1>5. Before(p, sendQueue)
  BY <1>0, PrefixInLine DEF LineInv
<1> HIDE DEF p
<1>6. /\ Rising(wire \o p) /\ Bounded(wire \o p, made)
      /\ Before(wire \o p, sendQueue) /\ wire \o p \in Seq(Nat)
  BY <1>0, <1>3, <1>4, <1>5, RisingConcat, BoundedConcat, BeforeConcat,
     ConcatProperties DEF LineInv
<1> QED BY <1>0, <1>1, <1>2, <1>6, NothingInLine DEF LineInv, p

LEMMA LineStep ==
  TypeOK /\ Token /\ EmptyUnlessSending /\ LineInv /\ [Next]_vars => LineInv'
<1> SUFFICES ASSUME TypeOK, Token, EmptyUnlessSending, LineInv, [Next]_vars
             PROVE  LineInv'
  OBVIOUS
<1>0. /\ wire \in Seq(Nat) /\ send.chunks \in Seq(Nat)
      /\ sendQueue \in Seq(Nat) /\ made \in Nat /\ <<>> \in Seq(Nat)
  BY EmptySeq DEF TypeOK
<1>1. ASSUME NEW t \in Threads, InsertSendQueue(t) PROVE LineInv'
  <2>1. /\ sendQueue' = Append(sendQueue, made + 1) /\ made' = made + 1
        /\ wire' = wire /\ send' = send
    BY <1>1 DEF InsertSendQueue
  <2>2. Rising(sendQueue') /\ Bounded(sendQueue', made')
    BY <2>1, <1>0, NextInLine DEF LineInv
  <2>3. Before(wire', sendQueue') /\ Before(send.chunks', sendQueue')
    BY <2>1, <1>0, NextInLine DEF LineInv
  <2>4. Bounded(wire', made') /\ Bounded(send.chunks', made')
    BY <2>1, <1>0, NextInLine DEF LineInv
  <2> QED BY <2>1, <2>2, <2>3, <2>4 DEF LineInv
<1>2. ASSUME NEW t \in Threads, SendClear(t) PROVE LineInv'
  <2>1. send.chunks = <<>>
    BY <1>2, ClearedWhenClearing DEF SendClear
  <2>2. send'.chunks = <<>> /\ UNCHANGED <<wire, sendQueue, made>>
    BY <1>2 DEF SendClear, Cleared
  <2> QED BY <2>1, <2>2 DEF LineInv
<1>3. ASSUME NEW t \in Threads, SendDrain(t) PROVE LineInv'
  <2>1. send.chunks = <<>>
    BY <1>3, ClearedWhenClearing DEF SendDrain
  <2>2. send.chunks \o sendQueue = sendQueue
    BY <2>1, <1>0, ConcatEmptySeq
  <2>3. send'.chunks = sendQueue /\ sendQueue' = <<>> /\ UNCHANGED <<wire, made>>
    BY <1>3, <2>2 DEF SendDrain, TypeOK
  <2> QED BY <2>3, <1>0, NothingInLine DEF LineInv
<1>4. ASSUME NEW t \in Threads, SendTest(t) PROVE LineInv'
  BY <1>4 DEF SendTest, LineInv
<1>5. ASSUME NEW t \in Threads, SendPost(t) PROVE LineInv'
  <2>1. send'.chunks = send.chunks /\ UNCHANGED <<wire, sendQueue, made>>
    BY <1>5 DEF SendPost, TypeOK
  <2> QED BY <2>1 DEF LineInv
<1>6. ASSUME NEW t \in Threads, SendPostFails(t) PROVE LineInv'
  <2>1. send'.chunks = <<>> /\ UNCHANGED <<wire, sendQueue, made>>
    BY <1>6 DEF SendPostFails, Cleared
  <2> QED BY <2>1, <1>0, NothingInLine DEF LineInv
<1>7. ASSUME NEW t \in Threads, SendUnflag(t) PROVE LineInv'
  BY <1>7 DEF SendUnflag, LineInv
<1>8. ASSUME NEW t \in Threads, Execute(t) PROVE LineInv'
  BY <1>8, DeliverLine DEF Execute
<1>9. ASSUME NEW t \in Threads, ExecuteFailed(t) PROVE LineInv'
  BY <1>9, DeliverLine DEF ExecuteFailed
<1>10. ASSUME NEW t \in Threads, CheckSendComplete(t) PROVE LineInv'
  BY <1>10 DEF CheckSendComplete, LineInv
<1>11. ASSUME NEW t \in Threads, CompletionStep(t) PROVE LineInv'
  BY <1>11 DEF CompletionStep, TakeCompletion, LineInv
<1>12. CASE Reset
  BY <1>12, <1>0, NothingInLine DEF Reset, LineInv
<1>13. CASE UNCHANGED vars
  BY <1>13 DEF vars, LineInv
<1> QED
  BY <1>1, <1>2, <1>3, <1>4, <1>5, <1>6, <1>7, <1>8, <1>9, <1>10, <1>11,
     <1>12, <1>13 DEF Next, SendStep

(* Chunks reach the peer in the order in which they were queued and at most
   once each, whatever threads queue them and whatever sends fail. *)
THEOREM InOrderAlways == Spec => []InOrder
<1>1. Init => LineInv
  <2>1. <<>> \in Seq(Nat)
    BY EmptySeq
  <2>2. Rising(<<>>) /\ Bounded(<<>>, 0) /\ Before(<<>>, <<>>)
    BY <2>1, NothingInLine
  <2>3. Init => /\ wire = <<>> /\ send.chunks = <<>>
                /\ sendQueue = <<>> /\ made = 0
    BY DEF Init, Cleared
  <2> QED BY <2>2, <2>3 DEF LineInv
<1>2. TypeOK /\ LineInv => InOrder
  <2> SUFFICES ASSUME TypeOK, LineInv PROVE InOrder
    OBVIOUS
  <2> DEFINE c == wire \o send.chunks
  <2>1. /\ wire \in Seq(Nat) /\ send.chunks \in Seq(Nat)
        /\ sendQueue \in Seq(Nat) /\ made \in Nat
    BY DEF TypeOK
  <2>2. /\ c \in Seq(Nat) /\ Rising(c) /\ Bounded(c, made)
        /\ Before(c, sendQueue)
    BY <2>1, ConcatProperties, RisingConcat, BoundedConcat, BeforeConcat
       DEF LineInv
  <2> HIDE DEF c
  <2>3. Rising(c \o sendQueue) /\ Bounded(c \o sendQueue, made)
    BY <2>1, <2>2, RisingConcat, BoundedConcat DEF LineInv
  <2> QED BY <2>3 DEF InOrder, Line, Bounded, c
<1> QED
  BY <1>1, <1>2, LineStep, TokenAlways, TypeCorrect, PTL DEF Spec

-----------------------------------------------------------------------------
(* Refinement. *)

(* When all of m_Send goes and m of its chunks arrive, the outbox flushes. *)
LEMMA TakeFront ==
  ASSUME TypeOK, NEW m \in 0 .. Len(send.chunks),
         wire' = wire \o SubSeq(send.chunks, 1, m),
         send'.chunks = <<>>, sendQueue' = sendQueue, made' = made
  PROVE  Outbox!OutboxNext
<1> DEFINE Pending == send.chunks \o sendQueue
           n == Len(send.chunks)
<1>1. send.chunks \in Seq(Nat) /\ sendQueue \in Seq(Nat)
  BY DEF TypeOK
<1>2. /\ SubSeq(Pending, 1, m) = SubSeq(send.chunks, 1, m)
      /\ SubSeq(Pending, n + 1, Len(Pending)) = sendQueue
      /\ n \in 0 .. Len(Pending)
  BY <1>1, FrontAndRest
<1>3. m \in 0 .. n /\ m <= n
  BY <1>1, LenProperties
<1>4. send'.chunks \o sendQueue' = sendQueue
  BY <1>1, ConcatEmptySeq
<1> HIDE DEF Pending
<1>5. /\ wire' = wire \o SubSeq(Pending, 1, m)
      /\ send'.chunks \o sendQueue' = SubSeq(Pending, n + 1, Len(Pending))
  BY <1>2, <1>4
<1>6. Outbox!Flush(m, n)
  BY <1>3, <1>5 DEF Outbox!Flush, Pending
<1> QED BY <1>2, <1>3, <1>6 DEF Outbox!OutboxNext, Pending

LEMMA StepRefines ==
  TypeOK /\ Token /\ EmptyUnlessSending /\ [Next]_vars
    => [Outbox!OutboxNext]_(Outbox!outboxVars)
<1> SUFFICES ASSUME TypeOK, Token, EmptyUnlessSending, [Next]_vars
             PROVE  Outbox!OutboxNext \/ UNCHANGED Outbox!outboxVars
  OBVIOUS
<1> DEFINE Stutter == UNCHANGED Outbox!outboxVars
           Pending == send.chunks \o sendQueue
<1>0. /\ wire \in Seq(Nat) /\ send.chunks \in Seq(Nat)
      /\ sendQueue \in Seq(Nat) /\ made \in Nat /\ <<>> \in Seq(Nat)
  BY EmptySeq DEF TypeOK
<1>1. ASSUME NEW t \in Threads, InsertSendQueue(t) PROVE Outbox!Accept
  <2>1. /\ sendQueue' = Append(sendQueue, made + 1) /\ made' = made + 1
        /\ wire' = wire /\ send' = send
    BY <1>1 DEF InsertSendQueue
  <2>2. made + 1 \in Nat
    BY <1>0
  <2>3. send.chunks \o Append(sendQueue, made + 1) = Append(Pending, made + 1)
    <3>1. \A q, s \in Seq(Nat), x \in Nat :
            q \o Append(s, x) = Append(q \o s, x)
      BY AppendBehind
    <3> HIDE DEF Pending
    <3>2. Append(send.chunks \o sendQueue, made + 1) = Append(Pending, made + 1)
      BY DEF Pending
    <3> QED BY <1>0, <2>2, <3>1, <3>2, Zenon
  <2>4. send'.chunks \o sendQueue' = Append(Pending, made + 1)
    BY <2>1, <2>3
  <2> QED BY <2>1, <2>4 DEF Outbox!Accept
<1>2. ASSUME NEW t \in Threads, SendClear(t) PROVE Stutter
  <2>1. send.chunks = <<>>
    BY <1>2, ClearedWhenClearing DEF SendClear
  <2>2. send'.chunks = send.chunks /\ UNCHANGED <<wire, sendQueue, made>>
    BY <1>2, <2>1 DEF SendClear, Cleared
  <2> QED BY <2>2 DEF Outbox!outboxVars
<1>3. ASSUME NEW t \in Threads, SendDrain(t) PROVE Stutter
  <2>1. /\ send'.chunks = Pending /\ sendQueue' = <<>>
        /\ UNCHANGED <<wire, made>>
    BY <1>3 DEF SendDrain, TypeOK
  <2>2. Pending \o <<>> = Pending
    BY <1>0, ConcatProperties, ConcatEmptySeq
  <2> QED BY <2>1, <2>2 DEF Outbox!outboxVars
<1>4. ASSUME NEW t \in Threads, SendTest(t) PROVE Stutter
  BY <1>4 DEF SendTest, Outbox!outboxVars
<1>5. ASSUME NEW t \in Threads, SendPost(t) PROVE Stutter
  <2>1. send'.chunks = send.chunks /\ UNCHANGED <<wire, sendQueue, made>>
    BY <1>5 DEF SendPost, TypeOK
  <2> QED BY <2>1 DEF Outbox!outboxVars
<1>6. ASSUME NEW t \in Threads, SendPostFails(t) PROVE Outbox!OutboxNext
  <2>1. send'.chunks = <<>> /\ UNCHANGED <<wire, sendQueue, made>>
    BY <1>6 DEF SendPostFails, Cleared
  <2>2. 0 \in 0 .. Len(send.chunks)
    BY <1>0, LenProperties
  <2>3. wire' = wire \o SubSeq(send.chunks, 1, 0)
    BY <2>1, <1>0, SubSeqEmpty, ConcatEmptySeq
  <2> QED BY <2>1, <2>2, <2>3, TakeFront
<1>7. ASSUME NEW t \in Threads, SendUnflag(t) PROVE Stutter
  BY <1>7 DEF SendUnflag, Outbox!outboxVars
<1>8. ASSUME NEW t \in Threads, Execute(t) \/ ExecuteFailed(t)
      PROVE  Outbox!OutboxNext
  <2>1. PICK m \in 0 .. Len(send.chunks) :
          wire' = wire \o SubSeq(send.chunks, 1, m)
    BY <1>8 DEF Execute, ExecuteFailed, Deliver
  <2>2. send'.chunks = <<>> /\ UNCHANGED <<sendQueue, made>>
    BY <1>8 DEF Execute, ExecuteFailed, Cleared
  <2> QED BY <2>1, <2>2, TakeFront
<1>10. ASSUME NEW t \in Threads, CheckSendComplete(t) PROVE Stutter
  BY <1>10 DEF CheckSendComplete, Outbox!outboxVars
<1>11. ASSUME NEW t \in Threads, CompletionStep(t) PROVE Stutter
  BY <1>11 DEF CompletionStep, TakeCompletion, Outbox!outboxVars
<1>12. ASSUME Reset PROVE Outbox!Reconnect
  BY <1>12 DEF Reset, Outbox!Reconnect
<1>13. ASSUME UNCHANGED vars PROVE Stutter
  BY <1>13 DEF vars, Outbox!outboxVars
<1> QED
  BY <1>1, <1>2, <1>3, <1>4, <1>5, <1>6, <1>7, <1>8, <1>10, <1>11,
     <1>12, <1>13 DEF Next, SendStep, Outbox!OutboxNext

(* Seen through its pending chunks and the wire, a session is FifoOutbox. *)
THEOREM Refinement == Spec => ImplementsOutbox
<1>1. Init => Outbox!OutboxInit
  BY EmptySeq, ConcatEmptySeq DEF Init, Cleared, Outbox!OutboxInit
<1> QED
  BY <1>1, StepRefines, TokenAlways, TypeCorrect, PTL
     DEF Spec, ImplementsOutbox, Outbox!OutboxSpec
=============================================================================
