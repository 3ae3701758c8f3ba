--------------------------- MODULE SequenceFacts ---------------------------
(***************************************************************************)
(* Facts about the operations on sequences that the models use and the     *)
(* library has no theorem for: what is left of a sequence when its head,   *)
(* the element at a place or a given element is taken out.                 *)
(***************************************************************************)
EXTENDS Integers, Sequences, SequencesExt, SequenceTheorems, WellFoundedInduction, TLAPS

\* f is in sequence s.
In(f, s) == \E i \in DOMAIN s : s[i] = f

\* No element is twice in sequence s.
Once(s) == \A i, j \in DOMAIN s : s[i] = s[j] => i = j

LEMMA TailFacts ==
  ASSUME NEW S, NEW s \in Seq(S), s # <<>>
  PROVE  /\ Head(s) \in S /\ Tail(s) \in Seq(S)
         /\ Len(s) \in Nat \ {0} /\ Len(Tail(s)) = Len(s) - 1
         /\ Len(s) # 1 => Tail(s) # <<>>
<1>1. Head(s) \in S /\ Tail(s) \in Seq(S)
  OBVIOUS
<1>2. Len(s) \in Nat \ {0} /\ Len(Tail(s)) = Len(s) - 1
  OBVIOUS
<1>3. ASSUME Tail(s) = <<>>
      PROVE  Len(s) = 1
  <2> DEFINE m == Len(s)
  <2>1. m \in Nat /\ m - 1 = 0
    BY <1>2, <1>3
  <2> HIDE DEF m
  <2>2. m = 1
    BY <2>1
  <2> QED BY <2>2 DEF m
<1> QED BY <1>1, <1>2, <1>3

\* An element put last is the one element more.
LEMMA AppendFacts ==
  ASSUME NEW S, NEW s \in Seq(S), NEW b \in S
  PROVE  /\ Append(s, b) \in Seq(S)
         /\ \A f : In(f, Append(s, b)) <=> In(f, s) \/ f = b
         /\ Once(s) /\ ~In(b, s) => Once(Append(s, b))
<1> DEFINE a == Append(s, b)
           n == Len(s)
<1>1. /\ n \in Nat /\ a \in Seq(S) /\ DOMAIN a = 1..(n + 1) /\ DOMAIN s = 1..n
      /\ \A i \in 1..n : a[i] = s[i]
      /\ a[n + 1] = b
  BY AppendProperties
<1> HIDE DEF a, n
<1>2. \A i \in 1..(n + 1) : i \in 1..n \/ i = n + 1
  BY <1>1
<1>3. n + 1 \in 1..(n + 1) /\ 1..n \subseteq 1..(n + 1)
  BY <1>1
<1>4. \A f : In(f, a) <=> In(f, s) \/ f = b
  BY <1>1, <1>2, <1>3 DEF In
<1>5. Once(s) /\ ~In(b, s) => Once(a)
  BY <1>1, <1>2 DEF In, Once
<1> QED BY <1>1, <1>4, <1>5 DEF a

LEMMA RemoveAtFacts ==
  ASSUME NEW S, NEW s \in Seq(S), NEW i \in DOMAIN s
  PROVE  /\ RemoveAt(s, i) \in Seq(S)
         /\ Len(RemoveAt(s, i)) = Len(s) - 1
         /\ \A j \in 1..(i - 1) : RemoveAt(s, i)[j] = s[j]
         /\ \A j \in (i + 1)..Len(s) : RemoveAt(s, i)[j - 1] = s[j]
<1>1. i \in 1..Len(s) /\ Len(s) \in Nat
  OBVIOUS
<1> DEFINE a == SubSeq(s, 1, i - 1)
           b == SubSeq(s, i + 1, Len(s))
<1>2. a \in Seq(S) /\ Len(a) = i - 1 /\ \A j \in 1..(i - 1) : a[j] = s[j]
  BY <1>1, SubSeqProperties
<1>3. b \in Seq(S) /\ Len(b) = Len(s) - i
      /\ \A j \in 1..(Len(s) - i) : b[j] = s[i + j]
  BY <1>1, SubSeqProperties
<1>4. RemoveAt(s, i) = a \o b
  BY DEF RemoveAt
<1>5. /\ a \o b \in Seq(S)
      /\ Len(a \o b) = Len(a) + Len(b)
      /\ \A j \in 1..(Len(a) + Len(b)) :
           (a \o b)[j] = IF j =< Len(a) THEN a[j] ELSE b[j - Len(a)]
  BY <1>2, <1>3, ConcatProperties
<1> HIDE DEF a, b
<1> DEFINE m == Len(a)
           n == Len(b)
           l == Len(s)
<1>6. /\ i \in 1..l /\ l \in Nat /\ m = i - 1 /\ n = l - i
      /\ \A j \in 1..(i - 1) : a[j] = s[j]
      /\ \A j \in 1..(l - i) : b[j] = s[i + j]
      /\ \A j \in 1..(m + n) : (a \o b)[j] = IF j =< m THEN a[j] ELSE b[j - m]
  BY <1>1, <1>2, <1>3, <1>5
<1> HIDE DEF m, n, l
<1>7. \A j \in 1..(i - 1) : (a \o b)[j] = s[j]
  <2>1. \A j \in 1..(i - 1) : j \in 1..(m + n) /\ j =< m
    BY ONLY <1>6
  <2> QED BY ONLY <1>6, <2>1
<1>8. ASSUME NEW j \in (i + 1)..l
      PROVE  (a \o b)[j - 1] = s[j]
  <2>1. j - 1 \in 1..(m + n) /\ ~(j - 1 =< m)
    BY ONLY <1>6, j \in (i + 1)..l
  <2>2. (a \o b)[j - 1] = b[j - 1 - m]
    BY ONLY <1>6, <2>1
  <2>3. j - 1 - m \in 1..(l - i) /\ i + (j - 1 - m) = j
    BY ONLY <1>6, j \in (i + 1)..l
  <2> QED BY ONLY <1>6, <2>2, <2>3
<1>9. Len(RemoveAt(s, i)) = Len(s) - 1
  <2>1. m + n = l - 1
    BY ONLY <1>6
  <2> QED BY <1>4, <1>5, <2>1 DEF m, n, l
<1> QED BY <1>4, <1>5, <1>7, <1>8, <1>9 DEF l

LEMMA RemoveFirstFacts ==
  ASSUME NEW S, NEW s \in Seq(S), Once(s), NEW b
  PROVE  /\ RemoveFirst(s, b) \in Seq(S)
         /\ Once(RemoveFirst(s, b))
         /\ \A f : In(f, RemoveFirst(s, b)) <=> In(f, s) /\ f # b
         /\ s # <<>> /\ b = s[1] => RemoveFirst(s, b) = Tail(s)
<1>1. CASE ~In(b, s)
  <2>1. RemoveFirst(s, b) = s
    BY <1>1 DEF RemoveFirst, In
  <2>2. s # <<>> => In(s[1], s)
    BY DEF In
  <2> QED BY <1>1, <2>1, <2>2 DEF In
<1>2. CASE In(b, s)
  <2>1. PICK k \in DOMAIN s : s[k] = b
    BY <1>2 DEF In
  <2>2. k \in 1..Len(s) /\ Len(s) \in Nat /\ DOMAIN s = 1..Len(s)
    BY <2>1
  <2>3. RemoveFirst(s, b) = RemoveAt(s, k)
    <3>1. {i \in 1..Len(s) : s[i] = b} = {k}
      BY <2>1, <2>2 DEF Once
    <3>2. Min({k}) = k
      BY <2>2 DEF Min
    <3>3. SelectInSeq(s, LAMBDA v : v = b) = k
      BY <3>1, <3>2 DEF SelectInSeq
    <3>4. \E i \in 1..Len(s) : s[i] = b
      BY <2>1, <2>2
    <3> QED BY <3>3, <3>4 DEF RemoveFirst
  <2> DEFINE t == RemoveAt(s, k)
  <2>4. /\ t \in Seq(S) /\ Len(t) = Len(s) - 1
        /\ \A j \in 1..(k - 1) : t[j] = s[j]
        /\ \A j \in (k + 1)..Len(s) : t[j - 1] = s[j]
    BY <2>1, RemoveAtFacts
  <2> HIDE DEF t
  <2>5. DOMAIN t = 1..(Len(s) - 1)
    BY <2>4
  <2> DEFINE from(i) == IF i < k THEN i ELSE i + 1
  <2>6. ASSUME NEW i \in DOMAIN t
        PROVE  from(i) \in DOMAIN s /\ from(i) # k /\ t[i] = s[from(i)]
    <3>1. CASE i < k
      <4>1. i \in 1..(k - 1) /\ i \in DOMAIN s
        BY <2>2, <2>5, <3>1
      <4> QED BY <2>4, <3>1, <4>1
    <3>2. CASE ~(i < k)
      <4>1. i + 1 \in (k + 1)..Len(s) /\ i + 1 \in DOMAIN s /\ (i + 1) - 1 = i
        BY <2>2, <2>5, <3>2
      <4>2. t[(i + 1) - 1] = s[i + 1]
        BY <2>4, <4>1
      <4> QED BY <2>2, <3>2, <4>1, <4>2
    <3> QED BY <3>1, <3>2
  <2>7. Once(t)
    <3> SUFFICES ASSUME NEW i \in DOMAIN t, NEW j \in DOMAIN t, t[i] = t[j]
                 PROVE  i = j
      BY DEF Once
    <3>1. from(i) = from(j)
      <4> HIDE DEF from
      <4> QED BY <2>6 DEF Once
    <3> QED BY <2>2, <2>5, <3>1
  <2>8. ASSUME NEW f
        PROVE  In(f, t) <=> In(f, s) /\ f # b
    <3>1. ASSUME In(f, t) PROVE In(f, s) /\ f # b
      <4> HIDE DEF from
      <4> QED BY <2>1, <2>6, <3>1 DEF In, Once
    <3>2. ASSUME In(f, s), f # b PROVE In(f, t)
      <4>1. PICK j \in DOMAIN s : s[j] = f
        BY <3>2 DEF In
      <4>2. j # k /\ j \in 1..Len(s)
        BY <2>1, <2>2, <3>2, <4>1
      <4>3. CASE j < k
        BY <2>2, <2>4, <2>5, <4>1, <4>2, <4>3 DEF In
      <4>4. CASE j > k
        <5>1. j \in (k + 1)..Len(s) /\ j - 1 \in DOMAIN t
          BY <2>2, <2>5, <4>2, <4>4
        <5> QED BY <2>4, <4>1, <5>1 DEF In
      <4> QED BY <2>2, <4>2, <4>3, <4>4
    <3> QED BY <3>1, <3>2
  <2>9. ASSUME s # <<>>, b = s[1] PROVE t = Tail(s)
    <3>1. k = 1
      BY <2>1, <2>2, <2>9 DEF Once
    <3>2. Tail(s) \in Seq(S) /\ Len(Tail(s)) = Len(s) - 1
          /\ \A i \in 1..(Len(s) - 1) : Tail(s)[i] = s[i + 1]
      BY <2>9, HeadTailProperties
    <3>3. \A i \in 1..Len(t) : t[i] = Tail(s)[i]
      BY <2>4, <2>5, <2>6, <3>1, <3>2
    <3> QED BY <2>4, <3>2, <3>3, SeqEqual
  <2> QED BY <2>3, <2>4, <2>7, <2>8, <2>9 DEF t
<1> QED BY <1>1, <1>2

-----------------------------------------------------------------------------
(* Induction, stated with sets: the provers do not instantiate a theorem   *)
(* with an operator, but they do one with a set.                           *)

LEMMA Least ==
  ASSUME NEW T, T \subseteq Nat, T # {}
  PROVE  \E x \in T : \A y \in T : x =< y
<1> DEFINE R == OpToRel(<, Nat)
<1>1. IsWellFoundedOn(R, Nat)
  BY NatLessThanWellFounded
<1>2. R = {ss \in Nat \X Nat : ss[1] < ss[2]}
  BY DEF OpToRel
<1> HIDE DEF R
<1>3. PICK x \in T : \A y \in T : <<y, x>> \notin R
  BY <1>1, WFMin
<1>4. ASSUME NEW y \in T PROVE x =< y
  <2>1. <<y, x>> \in Nat \X Nat /\ <<y, x>>[1] = y /\ <<y, x>>[2] = x
    OBVIOUS
  <2>2. ~(y < x)
    BY <1>2, <1>3, <2>1
  <2> QED BY <2>2
<1> QED BY <1>4

LEMMA NatSets ==
  ASSUME NEW S, 0 \in S, \A n \in Nat : n \in S => n + 1 \in S
  PROVE  Nat \subseteq S
<1> DEFINE T == Nat \ S
<1> SUFFICES ASSUME T # {} PROVE FALSE
  OBVIOUS
<1>1. PICK x \in T : \A y \in T : x =< y
  BY Least
<1>2. x # 0 /\ x - 1 \in Nat /\ x - 1 \notin T
  BY <1>1
<1>3. x - 1 \in S /\ (x - 1) + 1 = x
  BY <1>2
<1> QED BY <1>1, <1>2, <1>3
==============================================================================
