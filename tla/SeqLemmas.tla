----------------------------- MODULE SeqLemmas -----------------------------
(* Facts about sequences that the proofs of several components need. *)
EXTENDS SequenceTheorems, WellFoundedInduction, TLAPS

LEMMA AppendNotEmpty ==
  ASSUME NEW S, NEW s \in Seq(S), NEW x \in S
  PROVE  Append(s, x) # <<>> /\ Append(s, x) \in Seq(S)
BY AppendProperties

(* Appending to the last part appends to the whole. *)
LEMMA AppendBehind ==
  ASSUME NEW S, NEW s \in Seq(S), NEW t \in Seq(S), NEW x \in S
  PROVE  s \o Append(t, x) = Append(s \o t, x)
<1> DEFINE one == <<x>>
<1>1. one \in Seq(S) /\ s \o t \in Seq(S)
  BY ConcatProperties
<1>2. Append(t, x) = t \o one /\ Append(s \o t, x) = (s \o t) \o one
  BY <1>1, AppendIsConcat
<1> HIDE DEF one
<1>3. (s \o t) \o one = s \o (t \o one)
  BY <1>1, ConcatAssociative
<1> QED BY <1>2, <1>3

(* Moving the head of t to the end of s keeps the line s \o t. *)
LEMMA MoveHead ==
  ASSUME NEW S, NEW s \in Seq(S), NEW t \in Seq(S), t # <<>>
  PROVE  /\ Append(s, Head(t)) \in Seq(S)
         /\ Tail(t) \in Seq(S)
         /\ Append(s, Head(t)) \o Tail(t) = s \o t
<1> DEFINE h == Head(t)
           l == Tail(t)
           a == Append(s, h)
<1>1. /\ h \in S /\ l \in Seq(S) /\ Len(l) = Len(t) - 1
      /\ \A i \in 1 .. Len(l) : l[i] = t[i + 1]
  BY HeadTailProperties
<1>2. h = t[1]
  BY LenProperties, EmptySeq
<1>3. Len(s) \in Nat /\ Len(t) \in Nat /\ Len(t) # 0
  BY LenProperties, EmptySeq
<1> HIDE DEF h, l
<1>4. /\ a \in Seq(S) /\ Len(a) = Len(s) + 1
      /\ \A i \in 1 .. Len(s) : a[i] = s[i]
      /\ a[Len(s) + 1] = h
  BY <1>1, AppendProperties
<1> HIDE DEF a
<1> DEFINE x == a \o l
           y == s \o t
<1>5. /\ x \in Seq(S) /\ Len(x) = Len(a) + Len(l)
      /\ \A i \in 1 .. Len(a) + Len(l) :
            x[i] = IF i <= Len(a) THEN a[i] ELSE l[i - Len(a)]
  BY <1>1, <1>4, ConcatProperties
<1>6. /\ y \in Seq(S) /\ Len(y) = Len(s) + Len(t)
      /\ \A i \in 1 .. Len(s) + Len(t) :
            y[i] = IF i <= Len(s) THEN s[i] ELSE t[i - Len(s)]
  BY ConcatProperties
<1> HIDE DEF x, y
<1>7. Len(x) = Len(y)
  BY <1>1, <1>3, <1>4, <1>5, <1>6
<1>8. \A i \in 1 .. Len(x) : x[i] = y[i]
  <2> TAKE i \in 1 .. Len(x)
  <2>0. i \in 1 .. Len(a) + Len(l) /\ i \in 1 .. Len(s) + Len(t)
    BY <1>1, <1>3, <1>4, <1>5
  <2>1. CASE i <= Len(s)
    BY <2>0, <2>1, <1>3, <1>4, <1>5, <1>6
  <2>2. CASE i = Len(s) + 1
    <3>1. x[i] = h
      BY <2>0, <2>2, <1>3, <1>4, <1>5
    <3>2. y[i] = t[1]
      <4>1. ~(i <= Len(s)) /\ i - Len(s) = 1
        BY <2>2, <1>3
      <4> QED BY <4>1, <2>0, <1>6
    <3> QED BY <3>1, <3>2, <1>2
  <2>3. CASE i > Len(s) + 1
    <3>1. x[i] = l[i - (Len(s) + 1)] /\ y[i] = t[i - Len(s)]
      BY <2>0, <2>3, <1>3, <1>4, <1>5, <1>6
    <3>2. i - (Len(s) + 1) \in 1 .. Len(l)
      BY <2>0, <2>3, <1>3, <1>4
    <3>3. l[i - (Len(s) + 1)] = t[i - (Len(s) + 1) + 1]
      BY <3>2, <1>1
    <3>4. i - (Len(s) + 1) + 1 = i - Len(s)
      BY <2>0, <1>3
    <3> QED BY <3>1, <3>3, <3>4
  <2> QED BY <2>0, <2>1, <2>2, <2>3, <1>3
<1>9. x = y
  BY <1>5, <1>6, <1>7, <1>8, SeqEqual
<1> QED BY <1>1, <1>4, <1>9 DEF h, l, a, x, y

-----------------------------------------------------------------------------
(* Induction without an operator as a parameter: over sets.  A set that is not
   all of Nat has a least number it lacks. *)
LEMMA NatSets ==
  ASSUME NEW S, 0 \in S, \A n \in Nat : n \in S => n + 1 \in S
  PROVE  Nat \subseteq S
<1> SUFFICES ASSUME Nat \ S # {} PROVE FALSE
  OBVIOUS
<1> DEFINE R == OpToRel(<, Nat)
<1>1. IsWellFoundedOn(R, Nat)
  BY NatLessThanWellFounded
<1>2. \A x \in Nat, y \in Nat : y < x => <<y, x>> \in R
  BY DEF OpToRel
<1> HIDE DEF R
<1>3. PICK x \in Nat \ S : \A y \in Nat \ S : ~(<<y, x>> \in R)
  BY <1>1, WFMin
<1>4. x \in Nat /\ x # 0
  BY <1>3
<1>5. PICK w : w = x - 1
  OBVIOUS
<1>6. w \in Nat /\ w < x /\ w + 1 = x
  BY <1>4, <1>5
<1>7. w \in S
  BY <1>2, <1>3, <1>4, <1>6
<1> QED BY <1>3, <1>6, <1>7

LEMMA UpTo ==
  ASSUME NEW N \in Nat, NEW S, 0 \in S,
         \A n \in 0 .. N - 1 : n \in S => n + 1 \in S
  PROVE  0 .. N \subseteq S
<1>1. PICK T : T = {n \in Nat : n \in 0 .. N => n \in S}
  OBVIOUS
<1>2. 0 \in T
  BY <1>1
<1>3. \A n \in Nat : n \in T => n + 1 \in T
  <2> TAKE n \in Nat
  <2> HAVE n \in T
  <2>1. n + 1 \in 0 .. N => n \in 0 .. N - 1 /\ n \in 0 .. N
    OBVIOUS
  <2> QED BY <1>1, <2>1
<1>4. Nat \subseteq T
  BY <1>2, <1>3, NatSets
<1> QED BY <1>1, <1>4

(* The equations of a recursive function on 0 .. N have a solution, so that the
   function satisfies them. *)
Solutions(N, V, base, step) ==
  {f \in [0 .. N -> V] :
     f[0] = base /\ \A n \in 1 .. N : f[n] = step[n][f[n - 1]]}

LEMMA Recursion ==
  ASSUME NEW N \in Nat, NEW V, NEW base \in V, NEW step \in [1 .. N -> [V -> V]]
  PROVE  \E f : f \in Solutions(N, V, base, step)
<1> DEFINE Good(f, m) ==
      \A n \in 0 .. m : f[n] = IF n = 0 THEN base ELSE step[n][f[n - 1]]
<1>1. PICK S : S = {m \in 0 .. N : \E f \in [0 .. N -> V] : Good(f, m)}
  OBVIOUS
<1>2. 0 \in S
  <2>1. PICK f : f = [n \in 0 .. N |-> base]
    OBVIOUS
  <2>2. f \in [0 .. N -> V] /\ Good(f, 0) /\ 0 \in 0 .. N
    BY <2>1
  <2> QED BY <1>1, <2>2
<1>3. \A m \in 0 .. N - 1 : m \in S => m + 1 \in S
  <2> TAKE m \in 0 .. N - 1
  <2> HAVE m \in S
  <2>1. PICK f \in [0 .. N -> V] : Good(f, m)
    BY <1>1
  <2>2. m \in 0 .. N /\ m + 1 \in 1 .. N /\ m + 1 \in 0 .. N
    OBVIOUS
  <2>3. PICK v : v = step[m + 1][f[m]]
    OBVIOUS
  <2>4. v \in V
    <3>1. f[m] \in V
      BY <2>2
    <3>2. step[m + 1] \in [V -> V]
      BY <2>2, <3>1
    <3> QED BY <2>3, <3>2
  <2>5. PICK g : g = [n \in 0 .. N |-> IF n = m + 1 THEN v ELSE f[n]]
    OBVIOUS
  <2>6. g \in [0 .. N -> V]
    BY <2>4, <2>5
  <2>7. ASSUME NEW n \in 0 .. m + 1
        PROVE  g[n] = IF n = 0 THEN base ELSE step[n][g[n - 1]]
    <3>1. CASE n = m + 1
      <4>1. n - 1 = m /\ n # 0 /\ n \in 0 .. N /\ m # m + 1
        BY <2>2, <3>1
      <4>2. g[n] = v /\ g[m] = f[m]
        BY <2>2, <2>5, <3>1, <4>1
      <4>3. step[n][g[n - 1]] = v
        BY <2>3, <3>1, <4>1, <4>2
      <4> QED BY <4>1, <4>2, <4>3
    <3>2. CASE n # m + 1
      <4>1. n \in 0 .. m /\ n \in 0 .. N
        BY <3>2
      <4>2. g[n] = f[n]
        BY <2>5, <3>2, <4>1
      <4>3. f[n] = IF n = 0 THEN base ELSE step[n][f[n - 1]]
        BY <2>1, <4>1
      <4>4. CASE n = 0
        BY <4>2, <4>3, <4>4
      <4>5. CASE n # 0
        <5>1. n - 1 \in 0 .. N /\ n - 1 # m + 1
          BY <4>1, <4>5
        <5>2. g[n - 1] = f[n - 1]
          BY <2>5, <5>1
        <5> QED BY <4>2, <4>3, <4>5, <5>2
      <4> QED BY <4>4, <4>5
    <3> QED BY <3>1, <3>2
  <2>8. Good(g, m + 1)
    BY <2>7
  <2> QED BY <1>1, <2>2, <2>6, <2>8
<1>4. N \in S
  <2>1. 0 .. N \subseteq S
    BY <1>2, <1>3, UpTo
  <2> QED BY <2>1
<1>5. PICK f \in [0 .. N -> V] : Good(f, N)
  BY <1>1, <1>4
<1>6. 0 \in 0 .. N /\ \A n \in 1 .. N : n \in 0 .. N /\ n # 0
  OBVIOUS
<1>7. f[0] = base
  BY <1>5, <1>6
<1>8. \A n \in 1 .. N : f[n] = step[n][f[n - 1]]
  BY <1>5, <1>6
<1> QED BY <1>7, <1>8 DEF Solutions
=============================================================================
