---------------------------- MODULE QueueLemmas ----------------------------
(***************************************************************************)
(* What taking from and adding to a queue does to the set of its elements, *)
(* and to the fact that no element is in it twice.                         *)
(***************************************************************************)
EXTENDS Sequences, SequenceTheorems, TLAPS

LEMMA AppendElements ==
  ASSUME NEW S, NEW q \in Seq(S), NEW e \in S
  PROVE  /\ Append(q, e) \in Seq(S)
         /\ Len(Append(q, e)) = Len(q) + 1
         /\ Range(Append(q, e)) = Range(q) \cup {e}
         /\ IsInjective(q) /\ e \notin Range(q) => IsInjective(Append(q, e))
<1> DEFINE a == Append(q, e)
<1>1. /\ a \in Seq(S) /\ Len(a) = Len(q) + 1 /\ Len(q) \in Nat
      /\ \A i \in 1..Len(q) : a[i] = q[i]
      /\ a[Len(q) + 1] = e
      /\ DOMAIN a = 1..Len(a) /\ DOMAIN q = 1..Len(q)
  BY AppendProperties, LenProperties
<1> HIDE DEF a
<1>2. Range(a) = Range(q) \cup {e}
  BY <1>1 DEF Range
<1>3. ASSUME IsInjective(q), e \notin Range(q) PROVE IsInjective(a)
  <2> SUFFICES ASSUME NEW i \in DOMAIN a, NEW j \in DOMAIN a, a[i] = a[j]
               PROVE  i = j
    BY DEF IsInjective
  <2>1. CASE i \in DOMAIN q /\ j \in DOMAIN q
    BY <1>1, <1>3, <2>1 DEF IsInjective
  <2>2. CASE i \in DOMAIN q /\ j \notin DOMAIN q
    <3>1. j = Len(q) + 1
      BY <1>1, <2>2
    <3> QED BY <1>1, <1>3, <2>2, <3>1 DEF Range
  <2>3. CASE i \notin DOMAIN q /\ j \in DOMAIN q
    <3>1. i = Len(q) + 1
      BY <1>1, <2>3
    <3> QED BY <1>1, <1>3, <2>3, <3>1 DEF Range
  <2>4. CASE i \notin DOMAIN q /\ j \notin DOMAIN q
    BY <1>1, <2>4
  <2> QED BY <2>1, <2>2, <2>3, <2>4
<1> QED BY <1>1, <1>2, <1>3 DEF a

LEMMA TailElements ==
  ASSUME NEW S, NEW q \in Seq(S), q # <<>>, IsInjective(q)
  PROVE  /\ Head(q) \in S /\ Tail(q) \in Seq(S)
         /\ Len(Tail(q)) <= Len(q)
         /\ Head(q) \in Range(q)
         /\ Range(Tail(q)) = Range(q) \ {Head(q)}
         /\ IsInjective(Tail(q))
<1> DEFINE t == Tail(q)
<1>1. /\ Head(q) \in S /\ t \in Seq(S) /\ Len(t) = Len(q) - 1
      /\ \A i \in 1..Len(t) : t[i] = q[i + 1]
      /\ Len(q) \in Nat \ {0} /\ DOMAIN t = 1..Len(t) /\ DOMAIN q = 1..Len(q)
  BY HeadTailProperties, LenProperties, EmptySeq
<1>2. Head(q) = q[1]
  BY <1>1
<1> HIDE DEF t
<1>3. Head(q) \in Range(q)
  BY <1>1, <1>2 DEF Range
<1>4. IsInjective(t)
  <2> SUFFICES ASSUME NEW i \in 1..Len(t), NEW j \in 1..Len(t), t[i] = t[j]
               PROVE  i = j
    BY <1>1 DEF IsInjective
  <2>1. q[i + 1] = q[j + 1] /\ i + 1 \in DOMAIN q /\ j + 1 \in DOMAIN q
    BY <1>1
  <2>2. i + 1 = j + 1
    BY <2>1 DEF IsInjective
  <2>3. i \in Int /\ j \in Int
    OBVIOUS
  <2> QED BY <2>2, <2>3
<1>5. ASSUME NEW x \in Range(t) PROVE x \in Range(q) \ {Head(q)}
  <2>1. PICK i \in 1..Len(t) : x = q[i + 1]
    BY <1>1 DEF Range
  <2>2. i + 1 \in DOMAIN q /\ 1 \in DOMAIN q /\ i + 1 # 1
    BY <1>1
  <2> QED BY <1>2, <2>1, <2>2 DEF Range, IsInjective
<1>6. ASSUME NEW x \in Range(q), x # Head(q) PROVE x \in Range(t)
  <2>1. PICK i \in 1..Len(q) : x = q[i]
    BY <1>1 DEF Range
  <2>2. i - 1 \in 1..Len(t) /\ (i - 1) + 1 = i
    BY <1>1, <1>2, <1>6, <2>1
  <2>3. x = t[i - 1]
    BY <1>1, <2>1, <2>2
  <2> QED BY <1>1, <2>2, <2>3 DEF Range
<1>7. Range(t) = Range(q) \ {Head(q)}
  BY <1>5, <1>6
<1>8. Len(t) <= Len(q)
  BY <1>1
<1> QED BY <1>1, <1>3, <1>4, <1>7, <1>8 DEF t

LEMMA PrefixElements ==
  ASSUME NEW S, NEW q \in Seq(S), NEW k \in 0..Len(q), IsInjective(q)
  PROVE  /\ SubSeq(q, 1, k) \in Seq(S)
         /\ Range(SubSeq(q, 1, k)) \subseteq Range(q)
         /\ IsInjective(SubSeq(q, 1, k))
<1> DEFINE p == SubSeq(q, 1, k)
<1>1. Len(q) \in Nat /\ DOMAIN q = 1..Len(q) /\ k \in Int /\ 1 \in Int
  BY LenProperties
<1>2. \A i \in 1..k : q[i] \in S
  BY <1>1, ElementOfSeq
<1>3. /\ p \in Seq(S) /\ Len(p) = IF 1 <= k THEN k - 1 + 1 ELSE 0
      /\ \A i \in 1..(k - 1 + 1) : p[i] = q[1 + i - 1]
  BY <1>1, <1>2, SubSeqProperties
<1>4. DOMAIN p = 1..Len(p)
  BY <1>3, LenProperties
<1> HIDE DEF p
<1>5. \A i \in DOMAIN p : i \in DOMAIN q /\ p[i] = q[i]
  BY <1>1, <1>3, <1>4
<1>6. Range(p) \subseteq Range(q) /\ IsInjective(p)
  BY <1>5 DEF Range, IsInjective
<1> QED BY <1>3, <1>6 DEF p

LEMMA NoElements == Range(<<>>) = {} /\ IsInjective(<<>>)
  BY DEF Range, IsInjective
=============================================================================
