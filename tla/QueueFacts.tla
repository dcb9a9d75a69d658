----------------------------- MODULE QueueFacts -----------------------------
(***************************************************************************)
(* Facts about sequences without repetitions, which the queues of keys and *)
(* of goroutines are, and about least numbers, for what is done in order.  *)
(***************************************************************************)
EXTENDS Integers, Sequences, FiniteSets, Functions,
        SequenceTheorems, FiniteSetTheorems, WellFoundedInduction, TLAPS

\* A queue grows at its end by an element it does not have.
LEMMA AppendToQueue ==
  ASSUME NEW S, NEW s \in Seq(S), NEW x \in S, IsInjective(s), x \notin Range(s)
  PROVE  /\ Append(s, x) \in Seq(S)
         /\ IsInjective(Append(s, x))
         /\ Range(Append(s, x)) = Range(s) \cup {x}
<1> DEFINE t == Append(s, x)
<1>1. /\ t \in Seq(S)
      /\ Len(t) = Len(s) + 1
      /\ \A i \in 1..Len(s) : t[i] = s[i]
      /\ t[Len(s) + 1] = x
  OBVIOUS
<1>2. /\ DOMAIN s = 1..Len(s)
      /\ DOMAIN t = 1..(Len(s) + 1)
      /\ Len(s) \in Nat
  BY <1>1
<1>3. \A i \in 1..Len(s) : s[i] # x
  BY <1>2 DEF Range
<1> HIDE DEF t
<1>4. IsInjective(t)
  BY <1>1, <1>2, <1>3 DEF IsInjective
<1>5. Range(t) = Range(s) \cup {x}
  BY <1>1, <1>2 DEF Range
<1> QED  BY <1>1, <1>4, <1>5 DEF t

\* A queue loses its head, and nothing else.
LEMMA TailOfQueue ==
  ASSUME NEW S, NEW s \in Seq(S), s # <<>>, IsInjective(s)
  PROVE  /\ Head(s) \in Range(s)
         /\ Tail(s) \in Seq(S)
         /\ IsInjective(Tail(s))
         /\ Range(Tail(s)) = Range(s) \ {Head(s)}
<1> DEFINE t == Tail(s)
<1>1. /\ t \in Seq(S)
      /\ Len(s) \in Nat \ {0}
      /\ Len(t) = Len(s) - 1
      /\ \A i \in 1..(Len(s) - 1) : t[i] = s[i + 1]
      /\ Head(s) = s[1]
  OBVIOUS
<1>2. /\ DOMAIN s = 1..Len(s)
      /\ DOMAIN t = 1..(Len(s) - 1)
  BY <1>1
<1> HIDE DEF t
<1>3. IsInjective(t)
  BY <1>1, <1>2 DEF IsInjective
<1>4. \A i \in 1..(Len(s) - 1) : t[i] # s[1]
  BY <1>1, <1>2 DEF IsInjective
<1>5. ASSUME NEW y \in Range(s), y # s[1]  PROVE y \in Range(t)
  <2>1. PICK i \in 1..Len(s) : y = s[i]
    BY <1>2, <1>5 DEF Range
  <2>2. i - 1 \in 1..(Len(s) - 1) /\ t[i - 1] = y
    BY <1>1, <1>5, <2>1
  <2> QED  BY <1>2, <2>2 DEF Range
<1>6. ASSUME NEW y \in Range(t)  PROVE y \in Range(s) /\ y # s[1]
  <2>1. PICK i \in 1..(Len(s) - 1) : y = t[i]
    BY <1>2 DEF Range
  <2>2. i + 1 \in 1..Len(s) /\ y = s[i + 1]
    BY <1>1, <2>1
  <2> QED  BY <1>2, <1>4, <2>1, <2>2 DEF Range
<1>7. s[1] \in Range(s)
  BY <1>1, <1>2 DEF Range
<1> QED  BY <1>1, <1>3, <1>5, <1>6, <1>7 DEF t

\* A queue is divided into its first n elements and the others.
LEMMA SplitQueue ==
  ASSUME NEW S, NEW s \in Seq(S), IsInjective(s), NEW n \in 0..Len(s)
  PROVE  LET front == SubSeq(s, 1, n)
             back  == SubSeq(s, n + 1, Len(s))
         IN  /\ front \in Seq(S) /\ IsInjective(front) /\ Len(front) = n
             /\ back \in Seq(S) /\ IsInjective(back)
             /\ Len(back) = Len(s) - n
             /\ Range(front) \cap Range(back) = {}
             /\ Range(front) \cup Range(back) = Range(s)
<1> DEFINE front == SubSeq(s, 1, n)
           back  == SubSeq(s, n + 1, Len(s))
<1>1. /\ DOMAIN s = 1..Len(s)
      /\ Len(s) \in Nat
      /\ n \in Nat /\ n <= Len(s)
      /\ \A i \in 1..Len(s) : s[i] \in S
  OBVIOUS
<1>2. /\ front \in Seq(S) /\ Len(front) = n
      /\ \A i \in 1..n : front[i] = s[i]
  BY <1>1, SubSeqProperties
<1>3. /\ back \in Seq(S) /\ Len(back) = Len(s) - n
      /\ \A i \in 1..(Len(s) - n) : back[i] = s[n + i]
  <2>1. \A i \in (n + 1)..Len(s) : s[i] \in S
    BY <1>1
  <2>2. /\ back \in Seq(S)
        /\ Len(back) = IF n + 1 <= Len(s) THEN Len(s) - (n + 1) + 1 ELSE 0
        /\ \A i \in 1..(Len(s) - (n + 1) + 1) : back[i] = s[(n + 1) + i - 1]
    <3>1. n + 1 \in Int /\ Len(s) \in Int
      BY <1>1
    <3> HIDE DEF back
    <3>2. back = SubSeq(s, n + 1, Len(s))
      BY DEF back
    <3> QED  BY <2>1, <3>1, <3>2, SubSeqProperties
  <2>3. Len(back) = Len(s) - n
    BY <1>1, <2>2
  <2>4. ASSUME NEW i \in 1..(Len(s) - n)  PROVE back[i] = s[n + i]
    <3>1. (n + 1) + i - 1 = n + i /\ Len(s) - (n + 1) + 1 = Len(s) - n
      BY <1>1
    <3> QED  BY <2>2, <3>1
  <2> QED  BY <2>2, <2>3, <2>4
<1> HIDE DEF front, back
<1>4. /\ DOMAIN front = 1..n
      /\ DOMAIN back = 1..(Len(s) - n)
  BY <1>2, <1>3
<1>5. IsInjective(front)
  BY <1>1, <1>2, <1>4 DEF IsInjective
<1>6. IsInjective(back)
  <2> SUFFICES ASSUME NEW i \in 1..(Len(s) - n), NEW j \in 1..(Len(s) - n),
                      back[i] = back[j]
               PROVE  i = j
    BY <1>4 DEF IsInjective
  <2>1. n + i \in DOMAIN s /\ n + j \in DOMAIN s /\ s[n + i] = s[n + j]
    BY <1>1, <1>3
  <2>2. n + i = n + j
    BY <2>1 DEF IsInjective
  <2> QED  BY <1>1, <2>2
<1>7. ASSUME NEW x \in Range(front), x \in Range(back)  PROVE FALSE
  <2>1. PICK i \in 1..n : x = s[i]
    BY <1>2, <1>4 DEF Range
  <2>2. PICK j \in 1..(Len(s) - n) : x = s[n + j]
    BY <1>3, <1>4, <1>7 DEF Range
  <2>3. i \in DOMAIN s /\ n + j \in DOMAIN s /\ i # n + j
    BY <1>1
  <2> QED  BY <2>1, <2>2, <2>3 DEF IsInjective
<1>8. Range(front) \cup Range(back) \subseteq Range(s)
  <2>1. ASSUME NEW i \in 1..n  PROVE front[i] \in Range(s)
    BY <1>1, <1>2 DEF Range
  <2>2. ASSUME NEW i \in 1..(Len(s) - n)  PROVE back[i] \in Range(s)
    <3>1. n + i \in DOMAIN s
      BY <1>1
    <3> QED  BY <1>3, <3>1 DEF Range
  <2> QED  BY <1>4, <2>1, <2>2 DEF Range
<1>9. ASSUME NEW x \in Range(s)  PROVE x \in Range(front) \cup Range(back)
  <2>1. PICK i \in 1..Len(s) : x = s[i]
    BY <1>1 DEF Range
  <2>2. CASE i <= n
    BY <1>1, <1>2, <1>4, <2>1, <2>2 DEF Range
  <2>3. CASE ~(i <= n)
    <3>1. i - n \in 1..(Len(s) - n) /\ back[i - n] = x
      BY <1>1, <1>3, <2>1, <2>3
    <3> QED  BY <1>4, <3>1 DEF Range
  <2> QED  BY <2>2, <2>3
<1> QED  BY <1>2, <1>3, <1>5, <1>6, <1>7, <1>8, <1>9 DEF front, back

\* Two queues without a common element make a queue.
LEMMA JoinQueues ==
  ASSUME NEW S, NEW s \in Seq(S), NEW t \in Seq(S),
         IsInjective(s), IsInjective(t), Range(s) \cap Range(t) = {}
  PROVE  /\ s \o t \in Seq(S)
         /\ IsInjective(s \o t)
         /\ Range(s \o t) = Range(s) \cup Range(t)
<1> DEFINE u == s \o t
<1>1. /\ u \in Seq(S) /\ Len(u) = Len(s) + Len(t)
      /\ \A i \in 1..(Len(s) + Len(t)) :
           u[i] = IF i <= Len(s) THEN s[i] ELSE t[i - Len(s)]
      /\ Len(s) \in Nat /\ Len(t) \in Nat
  BY ConcatProperties
<1>2. Range(u) = Range(s) \cup Range(t)
  BY RangeConcatenation
<1> HIDE DEF u
<1>3. /\ DOMAIN s = 1..Len(s) /\ DOMAIN t = 1..Len(t)
      /\ DOMAIN u = 1..(Len(s) + Len(t))
  BY <1>1
<1>4. /\ \A i \in 1..Len(s) : s[i] \in Range(s)
      /\ \A i \in 1..Len(t) : t[i] \in Range(t)
  BY <1>3 DEF Range
<1>5. ASSUME NEW i \in DOMAIN u, NEW j \in DOMAIN u, u[i] = u[j]
      PROVE  i = j
  <2>1. CASE i <= Len(s) /\ j <= Len(s)
    BY <1>1, <1>3, <1>5, <2>1 DEF IsInjective
  <2>2. CASE ~(i <= Len(s)) /\ ~(j <= Len(s))
    <3>1. /\ i - Len(s) \in DOMAIN t /\ j - Len(s) \in DOMAIN t
          /\ t[i - Len(s)] = t[j - Len(s)]
      BY <1>1, <1>3, <1>5, <2>2
    <3> QED  BY <1>1, <1>3, <3>1 DEF IsInjective
  <2>3. CASE i <= Len(s) /\ ~(j <= Len(s))
    BY <1>1, <1>3, <1>4, <1>5, <2>3
  <2>4. CASE ~(i <= Len(s)) /\ j <= Len(s)
    BY <1>1, <1>3, <1>4, <1>5, <2>4
  <2> QED  BY <2>1, <2>2, <2>3, <2>4
<1>6. IsInjective(u)
  BY <1>5 DEF IsInjective
<1> QED  BY <1>1, <1>2, <1>6 DEF u

\* A queue has as many elements as its length says.
LEMMA SizeOfQueue ==
  ASSUME NEW S, NEW s \in Seq(S), IsInjective(s)
  PROVE  IsFiniteSet(Range(s)) /\ Cardinality(Range(s)) = Len(s)
<1>1. /\ Len(s) \in Nat
      /\ DOMAIN s = 1..Len(s)
      /\ s \in [1..Len(s) -> Range(s)]
  BY DEF Range
<1>2. s \in Bijection(1..Len(s), Range(s))
  BY <1>1 DEF IsInjective, Range, Bijection, Injection, Surjection
<1>3. ExistsBijection(1..Len(s), Range(s))
  BY <1>2 DEF ExistsBijection
<1>4. IsFiniteSet(Range(s))
  BY <1>1, <1>3, FS_NatBijection
<1> QED  BY <1>1, <1>3, <1>4, FS_CountingElements

\* Numbers of which there are any have a least one.
LEMMA LeastNumber ==
  ASSUME NEW T, T \subseteq Nat, T # {}
  PROVE  \E n \in T : \A m \in T : n <= m
<1> DEFINE R == OpToRel(<, Nat)
<1>1. IsWellFoundedOn(R, Nat)
  BY NatLessThanWellFounded
<1>2. \E x \in T : \A y \in T : ~ (<<y, x>> \in R)
  <2> HIDE DEF R
  <2> QED BY <1>1, WFMin
<1>3. PICK x \in T : \A y \in T : ~ (<<y, x>> \in R)
  BY <1>2
<1>4. ASSUME NEW m \in T  PROVE x <= m
  <2>1. m < x => <<m, x>> \in R
    BY DEF OpToRel
  <2>2. ~(m < x)
    <3> HIDE DEF R
    <3> QED BY <1>3, <2>1
  <2> QED BY <2>2
<1> QED BY <1>4

=============================================================================
