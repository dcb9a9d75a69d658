---------------------------- MODULE Requests_proofs ----------------------------
(***************************************************************************)
(* Proofs about Requests, for any inputs: lists of platforms survive their *)
(* encoding as sets, the specs that coalesceRequests accepts are exactly   *)
(* the valid ones, each destination reaches the copier once, and           *)
(* references read back as the images they are printed from.               *)
(*                                                                         *)
(* The first half is about stringkeyed.Set, for all sequences of bytes:    *)
(* SplitSeq undoes Join for elements without separators, which Encode      *)
(* makes them; the order of strings is total, so that a finite set has one *)
(* sorted list; and so a set, in its one string, is what went into it.     *)
(* Then == of two sets, and of two specs, compares what they contain.      *)
(*                                                                         *)
(* The two loops of coalesceRequests are proved from what they keep of the *)
(* specs seen so far (Merging, Judging): the map has the first spec of     *)
(* each destination, the result has one spec for each key of the map, and  *)
(* there is an error if and only if a spec seen is wrong by itself or is   *)
(* not the one in the map.                                                 *)
(***************************************************************************)
EXTENDS Integers, Functions, Requests, QueueFacts, SequenceTheorems,
        FiniteSetTheorems, TLAPS

-----------------------------------------------------------------------------
(***************************************************************************)
(* Induction and recursive functions.  The theorems of the library that    *)
(* take an operator as a parameter are stated with sets and functions, as  *)
(* data.                                                                   *)
(***************************************************************************)

\* Induction, with the numbers for which the claim holds as a set: there is no
\* least number for which it does not hold.
LEMMA InductionOverNat ==
  ASSUME NEW P, 0 \in P, \A n \in Nat : n \in P => n + 1 \in P
  PROVE  \A n \in Nat : n \in P
<1> SUFFICES ASSUME Nat \ P # {} PROVE FALSE
  OBVIOUS
<1>1. PICK x \in Nat \ P : \A y \in Nat \ P : x <= y
  BY LeastNumber
<1>2. x - 1 \in Nat /\ (x - 1) + 1 = x /\ ~(x <= x - 1)
  BY <1>1
<1> QED BY <1>1, <1>2

\* Induction over an interval.
LEMMA InductionUpTo ==
  ASSUME NEW M \in Nat, NEW P, 0 \in P, \A n \in 1..M : n - 1 \in P => n \in P
  PROVE  \A n \in 0..M : n \in P
<1> DEFINE Q == {n \in Nat : n <= M => n \in P}
<1>1. 0 \in Q
  OBVIOUS
<1>2. ASSUME NEW n \in Nat, n \in Q  PROVE n + 1 \in Q
  <2>1. n + 1 <= M => n + 1 \in 1..M /\ (n + 1) - 1 = n /\ n <= M
    OBVIOUS
  <2> QED BY <1>2, <2>1
<1>3. \A n \in Nat : n \in Q
  <2> HIDE DEF Q
  <2> QED BY <1>1, <1>2, InductionOverNat
<1> QED BY <1>3

\* A step of a recursion, and a recursion, over the numbers up to N, as data.
IsStep(step, N, X) == step \in [(1..N) \X X -> X]

IsRecursion(f, base, step, N, X) ==
  /\ f \in [0..N -> X]
  /\ f[0] = base
  /\ \A n \in 1..N : f[n] = step[<<n, f[n - 1]>>]

\* A recursion over the numbers up to N, with its step as a function, has a value.
LEMMA RecursionHasValue ==
  ASSUME NEW X, NEW base \in X, NEW N \in Nat, NEW step, IsStep(step, N, X)
  PROVE  \E f : IsRecursion(f, base, step, N, X)
<1> USE DEF IsStep
<1> DEFINE Good(m) == \E f \in [0..m -> X] :
              f[0] = base /\ \A n \in 1..m : f[n] = step[<<n, f[n - 1]>>]
           P == {m \in Nat : m <= N => Good(m)}
<1>1. 0 \in P
  <2>1. [i \in 0..0 |-> base] \in [0..0 -> X]
    OBVIOUS
  <2> DEFINE f == [i \in 0..0 |-> base]
  <2>2. f \in [0..0 -> X] /\ f[0] = base /\ 1..0 = {}
    OBVIOUS
  <2>3. Good(0)
    <3> HIDE DEF f
    <3> QED BY <2>2
  <2> HIDE DEF Good
  <2> QED BY <2>3
<1>2. ASSUME NEW m \in Nat, m \in P  PROVE m + 1 \in P
  <2> SUFFICES ASSUME m + 1 <= N PROVE Good(m + 1)
    OBVIOUS
  <2>1. PICK f \in [0..m -> X] :
          f[0] = base /\ \A n \in 1..m : f[n] = step[<<n, f[n - 1]>>]
    BY <1>2
  <2> DEFINE g == [n \in 0..(m + 1) |-> IF n <= m THEN f[n] ELSE step[<<m + 1, f[m]>>]]
  <2>2. <<m + 1, f[m]>> \in (1..N) \X X
    OBVIOUS
  <2>3. g \in [0..(m + 1) -> X]
    BY <2>1, <2>2
  <2>4. g[0] = base
    BY <2>1
  <2>5. ASSUME NEW n \in 1..(m + 1)  PROVE g[n] = step[<<n, g[n - 1]>>]
    <3>1. g[n - 1] = f[n - 1]
      BY <2>5
    <3>2. CASE n <= m
      <4>1. n \in 1..m /\ g[n] = f[n]
        BY <3>2
      <4> QED BY <2>1, <3>1, <4>1
    <3>3. CASE n = m + 1
      <4>1. n - 1 = m /\ ~(n <= m) /\ n \in 0..(m + 1)
        BY <3>3
      <4>2. g[n] = step[<<m + 1, f[m]>>]
        BY <4>1
      <4> HIDE DEF g
      <4> QED BY <3>1, <3>3, <4>1, <4>2
    <3> QED BY <3>2, <3>3
  <2> HIDE DEF g
  <2> QED BY <2>3, <2>4, <2>5
<1>3. \A m \in Nat : m \in P
  <2> HIDE DEF P
  <2> QED BY <1>1, <1>2, InductionOverNat
<1> QED BY <1>3 DEF IsRecursion

-----------------------------------------------------------------------------
(***************************************************************************)
(* The pieces that strings.SplitSeq yields of joined texts.                *)
(***************************************************************************)

\* The strings, as bytes, of which those of Base64 are above 255; and what a
\* text is split into, at least one piece.
Text   == Seq(Nat)
Pieces == Seq(Text) \ {<<>>}

\* The pieces of the first n bytes.
SplitFirst(s) ==
  LET elems[n \in 0..Len(s)] ==
        IF n = 0 THEN << <<>> >>
        ELSE IF s[n] = unitSeparator THEN Append(elems[n - 1], <<>>)
        ELSE [elems[n - 1] EXCEPT ![Len(elems[n - 1])] = Append(@, s[n])]
  IN  elems

SplitStep(pieces, byte) ==
  IF byte = unitSeparator THEN Append(pieces, <<>>)
  ELSE [pieces EXCEPT ![Len(pieces)] = Append(@, byte)]

\* One byte more makes pieces of pieces.
LEMMA SplitStepType ==
  ASSUME NEW p \in Pieces, NEW b \in Nat
  PROVE  SplitStep(p, b) \in Pieces
<1>1. p \in Seq(Text) /\ Len(p) \in 1..Len(p) /\ p[Len(p)] \in Text
  BY DEF Pieces
<1>2. Append(p[Len(p)], b) \in Text
  BY <1>1 DEF Text
<1>3. Append(p, <<>>) \in Pieces
  <2>1. <<>> \in Text
    BY DEF Text
  <2>2. Append(p, <<>>) \in Seq(Text) /\ Len(Append(p, <<>>)) = Len(p) + 1
    BY <1>1, <2>1
  <2> QED BY <1>1, <2>2 DEF Pieces
<1>4. [p EXCEPT ![Len(p)] = Append(@, b)] \in Pieces
  BY <1>1, <1>2 DEF Pieces
<1> QED BY <1>3, <1>4 DEF SplitStep

\* The recursion of Split has the value that its definition says.
LEMMA SplitFirstDef ==
  ASSUME NEW s \in Text
  PROVE  /\ SplitFirst(s) \in [0..Len(s) -> Pieces]
         /\ SplitFirst(s)[0] = << <<>> >>
         /\ \A n \in 1..Len(s) :
              SplitFirst(s)[n] = SplitStep(SplitFirst(s)[n - 1], s[n])
<1> DEFINE N == Len(s)
           step == [p \in (1..N) \X Pieces |-> SplitStep(p[2], s[p[1]])]
<1>1. N \in Nat /\ \A n \in 1..N : s[n] \in Nat
  BY DEF Text
<1>2. step \in [(1..N) \X Pieces -> Pieces]
  BY <1>1, SplitStepType
<1>3. << <<>> >> \in Pieces
  BY DEF Pieces, Text
<1>4. PICK f \in [0..N -> Pieces] :
        f[0] = << <<>> >> /\ \A n \in 1..N : f[n] = step[<<n, f[n - 1]>>]
  <2> DEFINE base == << <<>> >>
  <2>1. base \in Pieces /\ N \in Nat
    BY <1>1, <1>3
  <2> HIDE DEF step, N, base
  <2>2. IsStep(step, N, Pieces)
    BY <1>2 DEF IsStep
  <2>3. \E f : IsRecursion(f, base, step, N, Pieces)
    BY <2>1, <2>2, RecursionHasValue
  <2> QED BY <2>3 DEF base, IsRecursion
<1>5. ASSUME NEW n \in 1..N  PROVE f[n] = SplitStep(f[n - 1], s[n])
  <2>1. n - 1 \in 0..N
    BY <1>1
  <2>2. <<n, f[n - 1]>> \in (1..N) \X Pieces
    BY <1>4, <2>1
  <2>3. step[<<n, f[n - 1]>>] = SplitStep(f[n - 1], s[n])
    BY <2>2
  <2> QED BY <1>4, <2>3
<1> DEFINE Body(g) == [n \in 0..Len(s) |->
        IF n = 0 THEN << <<>> >>
        ELSE IF s[n] = unitSeparator THEN Append(g[n - 1], <<>>)
        ELSE [g[n - 1] EXCEPT ![Len(g[n - 1])] = Append(@, s[n])]]
<1>6. f = Body(f)
  <2>1. DOMAIN Body(f) = 0..N /\ f = [n \in 0..N |-> f[n]]
    OBVIOUS
  <2>2. ASSUME NEW n \in 0..N  PROVE f[n] = Body(f)[n]
    <3>1. CASE n = 0
      BY <1>4, <3>1
    <3>2. CASE n # 0
      <4>1. n \in 1..N
        BY <1>1, <3>2
      <4>2. Body(f)[n] = SplitStep(f[n - 1], s[n])
        BY <3>2 DEF SplitStep
      <4> QED BY <1>5, <4>1, <4>2
    <3> QED BY <3>1, <3>2
  <2> HIDE DEF Body
  <2> QED BY <2>1, <2>2
<1>7. SplitFirst(s) = Body(SplitFirst(s))
  <2>1. SplitFirst(s) = CHOOSE g : g = Body(g)
    BY DEF SplitFirst
  <2> HIDE DEF Body
  <2> QED BY <1>6, <2>1
<1>8. PICK g : g = SplitFirst(s)
  OBVIOUS
<1>9. /\ g = [n \in 0..N |-> g[n]] /\ g[0] = << <<>> >>
      /\ \A n \in 1..N : g[n] = SplitStep(g[n - 1], s[n])
  <2>1. g = Body(g)
    BY <1>7, <1>8
  <2>2. DOMAIN Body(g) = 0..N /\ Body(g) = [n \in 0..N |-> Body(g)[n]] /\ 0 \in 0..N
    BY <1>1
  <2>3. Body(g)[0] = << <<>> >>
    BY <2>2
  <2>4. \A n \in 1..N : Body(g)[n] = SplitStep(g[n - 1], s[n])
    BY <1>1 DEF SplitStep
  <2> HIDE DEF Body
  <2> QED BY <2>1, <2>2, <2>3, <2>4
<1>10. \A n \in 0..N : g[n] = f[n]
  <2> DEFINE P == {n \in 0..N : g[n] = f[n]}
  <2>1. 0 \in P
    BY <1>1, <1>4, <1>5, <1>9
  <2>2. ASSUME NEW n \in 1..N, n - 1 \in P  PROVE n \in P
    BY <1>1, <1>4, <1>5, <1>9, <2>2
  <2>3. \A n \in 0..N : n \in P
    <3> HIDE DEF P
    <3> QED BY <1>1, <2>1, <2>2, InductionUpTo
  <2> QED BY <2>3
<1>11. g = f
  <2>1. f = [n \in 0..N |-> f[n]]
    BY <1>4, <1>5
  <2> QED BY <1>9, <1>10, <2>1
<1> QED BY <1>4, <1>5, <1>8, <1>11

\* Split of the empty text, and of a text with a byte more.
LEMMA SplitNil == Split(<<>>) = << <<>> >>
<1>1. <<>> \in Text /\ Len(<<>>) = 0
  BY DEF Text
<1>2. Split(<<>>) = SplitFirst(<<>>)[Len(<<>>)]
  BY DEF Split, SplitFirst
<1> QED BY <1>1, <1>2, SplitFirstDef

LEMMA SplitAppend ==
  ASSUME NEW s \in Text, NEW b \in Nat
  PROVE  /\ Split(s) \in Pieces
         /\ Split(Append(s, b)) = SplitStep(Split(s), b)
<1>0. PICK t : t = Append(s, b)
  OBVIOUS
<1> DEFINE f == SplitFirst(s)
           g == SplitFirst(t)
           P == {n \in 0..Len(s) : f[n] = g[n]}
<1>1. /\ t \in Text /\ Len(t) = Len(s) + 1 /\ t[Len(s) + 1] = b /\ Len(s) \in Nat
      /\ \A n \in 1..Len(s) : t[n] = s[n]
  BY <1>0 DEF Text
<1>2. /\ f \in [0..Len(s) -> Pieces] /\ f[0] = << <<>> >>
      /\ \A n \in 1..Len(s) : f[n] = SplitStep(f[n - 1], s[n])
  BY SplitFirstDef
<1>3. /\ g[0] = << <<>> >>
      /\ \A n \in 1..(Len(s) + 1) : g[n] = SplitStep(g[n - 1], t[n])
  BY <1>1, SplitFirstDef
<1>4. Split(s) = f[Len(s)] /\ Split(t) = g[Len(s) + 1]
  BY <1>1 DEF Split, SplitFirst
<1> HIDE DEF f, g
<1>5. 0 \in P
  BY <1>1, <1>2, <1>3
<1>6. ASSUME NEW n \in 1..Len(s), n - 1 \in P  PROVE n \in P
  BY <1>1, <1>2, <1>3, <1>6
<1>7. \A n \in 0..Len(s) : n \in P
  <2> HIDE DEF P
  <2> QED BY <1>1, <1>5, <1>6, InductionUpTo
<1>8. g[Len(s) + 1] = SplitStep(f[Len(s)], b)
  <2>1. Len(s) + 1 \in 1..(Len(s) + 1) /\ (Len(s) + 1) - 1 = Len(s) /\ Len(s) \in 0..Len(s)
    BY <1>1
  <2>2. g[Len(s)] = f[Len(s)]
    BY <1>7, <2>1
  <2> QED BY <1>1, <1>3, <2>1, <2>2
<1>9. f[Len(s)] \in Pieces
  BY <1>1, <1>2
<1> QED BY <1>0, <1>4, <1>8, <1>9

\* An element as it is after Encode.
NoSeparator(e) == \A i \in DOMAIN e : e[i] # unitSeparator

\* The first n bytes, one by one.
LEMMA PrefixGrows ==
  ASSUME NEW X, NEW e \in Seq(X), NEW n \in 1..Len(e)
  PROVE  /\ SubSeq(e, 1, n - 1) \in Seq(X)
         /\ e[n] \in X
         /\ SubSeq(e, 1, n) = Append(SubSeq(e, 1, n - 1), e[n])
<1>1. Len(e) \in Nat /\ n \in Nat /\ n <= Len(e) /\ e[n] \in X
  OBVIOUS
<1> DEFINE p == SubSeq(e, 1, n - 1)
           q == SubSeq(e, 1, n)
<1>2. p \in Seq(X) /\ Len(p) = n - 1 /\ \A i \in 1..(n - 1) : p[i] = e[i]
  BY <1>1, SubSeqProperties
<1>3. q \in Seq(X) /\ Len(q) = n /\ \A i \in 1..n : q[i] = e[i]
  BY <1>1, SubSeqProperties
<1> HIDE DEF p, q
<1>4. /\ Append(p, e[n]) \in Seq(X) /\ Len(Append(p, e[n])) = n
      /\ \A i \in 1..n : Append(p, e[n])[i] = q[i]
  BY <1>1, <1>2, <1>3
<1>5. q = Append(p, e[n])
  BY <1>3, <1>4, SeqEqual
<1> QED BY <1>1, <1>2, <1>5 DEF p, q

LEMMA AppendConcat ==
  ASSUME NEW s \in Text, NEW t \in Text, NEW x \in Nat
  PROVE  /\ s \o Append(t, x) = Append(s \o t, x)
         /\ s \o t \in Text /\ Append(t, x) \in Text
<1> USE DEF Text
<1>1. PICK a : a = s \o Append(t, x)
  OBVIOUS
<1>2. PICK c : c = Append(s \o t, x)
  OBVIOUS
<1>3. Len(s) \in Nat /\ Len(t) \in Nat
  OBVIOUS
<1>4. s \o t \in Seq(Nat) /\ Append(t, x) \in Seq(Nat) /\ Len(Append(t, x)) = Len(t) + 1
  BY ConcatProperties
<1>5. /\ a \in Seq(Nat) /\ Len(a) = Len(s) + Len(t) + 1
      /\ \A i \in 1..Len(a) : a[i] = IF i <= Len(s) THEN s[i]
                                ELSE IF i <= Len(s) + Len(t) THEN t[i - Len(s)] ELSE x
  BY <1>1, <1>3, <1>4, ConcatProperties, AppendProperties
<1>6. /\ c \in Seq(Nat) /\ Len(c) = Len(s) + Len(t) + 1
      /\ \A i \in 1..Len(c) : c[i] = IF i <= Len(s) THEN s[i]
                                ELSE IF i <= Len(s) + Len(t) THEN t[i - Len(s)] ELSE x
  BY <1>2, <1>3, <1>4, ConcatProperties, AppendProperties
<1>7. \A i \in 1..Len(a) : a[i] = c[i]
  BY <1>5, <1>6
<1>8. a = c
  BY <1>5, <1>6, <1>7, SeqEqual
<1> QED BY <1>1, <1>2, <1>4, <1>8

\* Text appended to the last of some pieces.
Grown(p, t) == [p EXCEPT ![Len(p)] = @ \o t]

LastReplaced(p, x) == [p EXCEPT ![Len(p)] = x]

LEMMA LastReplacedType ==
  ASSUME NEW p \in Pieces, NEW x \in Text
  PROVE  /\ LastReplaced(p, x) \in Pieces /\ Len(LastReplaced(p, x)) = Len(p)
         /\ \A i \in 1..(Len(p) - 1) : LastReplaced(p, x)[i] = p[i]
         /\ LastReplaced(p, x)[Len(p)] = x
<1>1. p \in Seq(Text) /\ Len(p) \in Nat \ {0} /\ Len(p) \in 1..Len(p)
  BY DEF Pieces
<1>2. PICK n : n = Len(p)
  OBVIOUS
<1>3. PICK q : q = LastReplaced(p, x)
  OBVIOUS
<1>4. q = [p EXCEPT ![n] = x]
  BY <1>2, <1>3 DEF LastReplaced
<1>5. /\ q \in Seq(Text) /\ Len(q) = Len(p)
      /\ \A j \in 1..Len(p) : q[j] = IF j = n THEN x ELSE p[j]
  BY <1>1, <1>2, <1>4, ExceptSeq
<1> QED BY <1>1, <1>2, <1>3, <1>5 DEF Pieces

LEMMA GrownType ==
  ASSUME NEW p \in Pieces, NEW t \in Text
  PROVE  /\ Grown(p, t) \in Pieces /\ Len(Grown(p, t)) = Len(p)
         /\ \A i \in 1..(Len(p) - 1) : Grown(p, t)[i] = p[i]
         /\ Grown(p, t)[Len(p)] = p[Len(p)] \o t
<1>1. /\ p \in Seq(Text) /\ p # <<>> /\ p[Len(p)] \in Text
      /\ Len(p) \in Nat \ {0}
  BY DEF Pieces
<1>2. p[Len(p)] \o t \in Text
  BY <1>1 DEF Text
<1>3. Grown(p, t) = LastReplaced(p, p[Len(p)] \o t)
  BY <1>1 DEF Grown, LastReplaced
<1>4. PICK x \in Text : x = p[Len(p)] \o t
  BY <1>2
<1>5. Grown(p, t) = LastReplaced(p, x)
  BY <1>3, <1>4
<1>6. /\ LastReplaced(p, x) \in Pieces /\ Len(LastReplaced(p, x)) = Len(p)
      /\ \A i \in 1..(Len(p) - 1) : LastReplaced(p, x)[i] = p[i]
      /\ LastReplaced(p, x)[Len(p)] = x
  BY LastReplacedType
<1> QED BY <1>4, <1>5, <1>6

LEMMA GrownNil == ASSUME NEW p \in Pieces  PROVE Grown(p, <<>>) = p
<1>1. /\ p \in Seq(Text) /\ p # <<>> /\ p[Len(p)] \in Seq(Nat)
      /\ Len(p) \in Nat \ {0}
  BY DEF Pieces, Text
<1>2. p[Len(p)] \o <<>> = p[Len(p)] /\ <<>> \in Text
  BY <1>1 DEF Text
<1>3. ASSUME NEW i \in 1..Len(p)  PROVE Grown(p, <<>>)[i] = p[i]
  <2>1. i = Len(p) \/ i \in 1..(Len(p) - 1)
    BY <1>1
  <2> QED BY <1>2, <2>1, GrownType
<1> QED BY <1>1, <1>2, <1>3, GrownType, SeqEqual DEF Pieces

\* A byte that is no separator becomes part of the last piece.
LEMMA GrownStep ==
  ASSUME NEW p \in Pieces, NEW t \in Text, NEW b \in Nat, b # unitSeparator
  PROVE  SplitStep(Grown(p, t), b) = Grown(p, Append(t, b))
<1>0. PICK q : q = Grown(p, t)
  OBVIOUS
<1>1. /\ p \in Seq(Text) /\ p # <<>> /\ p[Len(p)] \in Seq(Nat)
      /\ Len(p) \in Nat \ {0}
  BY DEF Pieces, Text
<1>2. /\ q \in Pieces /\ q \in Seq(Text) /\ q # <<>> /\ Len(q) = Len(p)
      /\ \A i \in 1..(Len(p) - 1) : q[i] = p[i]
      /\ q[Len(p)] = p[Len(p)] \o t
  BY <1>0, GrownType DEF Pieces
<1>3. Append(p[Len(p)] \o t, b) = p[Len(p)] \o Append(t, b) /\ Append(t, b) \in Text
  <2>1. p[Len(p)] \in Text
    BY <1>1 DEF Text
  <2> QED BY <2>1, AppendConcat
<1>4. PICK x : x = Append(q[Len(q)], b)
  OBVIOUS
<1>5. x \in Text /\ x = p[Len(p)] \o Append(t, b)
  <2>1. x = p[Len(p)] \o Append(t, b)
    BY <1>2, <1>3, <1>4
  <2>2. p[Len(p)] \in Seq(Nat) /\ Append(t, b) \in Seq(Nat)
    BY <1>1, <1>3 DEF Text
  <2>3. p[Len(p)] \o Append(t, b) \in Seq(Nat)
    BY <2>2, ConcatProperties
  <2> QED BY <2>1, <2>3 DEF Text
<1>6. SplitStep(q, b) = LastReplaced(q, x)
  BY <1>2, <1>4 DEF SplitStep, LastReplaced
<1>7. PICK a : a = SplitStep(q, b)
  OBVIOUS
<1>8. /\ a \in Seq(Text) /\ Len(a) = Len(p)
      /\ \A i \in 1..(Len(p) - 1) : a[i] = p[i]
      /\ a[Len(p)] = x
  <2>1. /\ a \in Pieces /\ Len(a) = Len(q)
        /\ \A i \in 1..(Len(q) - 1) : a[i] = q[i]
        /\ a[Len(q)] = x
    <3>1. q \in Pieces /\ x \in Text
      BY <1>2, <1>5
    <3>2. /\ LastReplaced(q, x) \in Pieces /\ Len(LastReplaced(q, x)) = Len(q)
          /\ \A i \in 1..(Len(q) - 1) : LastReplaced(q, x)[i] = q[i]
          /\ LastReplaced(q, x)[Len(q)] = x
      BY <3>1, LastReplacedType
    <3> QED BY <1>6, <1>7, <3>2
  <2> QED BY <1>1, <1>2, <2>1 DEF Pieces
<1>9. PICK c : c = Grown(p, Append(t, b))
  OBVIOUS
<1>10. /\ c \in Seq(Text) /\ Len(c) = Len(p)
       /\ \A i \in 1..(Len(p) - 1) : c[i] = p[i]
       /\ c[Len(p)] = x
  BY <1>3, <1>5, <1>9, GrownType DEF Pieces
<1>11. ASSUME NEW i \in 1..Len(a)  PROVE a[i] = c[i]
  <2>1. i = Len(p) \/ i \in 1..(Len(p) - 1)
    BY <1>1, <1>8
  <2> QED BY <1>8, <1>10, <2>1
<1>12. a = c
  BY <1>8, <1>10, <1>11, SeqEqual
<1> QED BY <1>0, <1>7, <1>9, <1>12

\* The bytes of an element without separators become part of the last piece.
LEMMA SplitConcat ==
  ASSUME NEW s \in Text, NEW e \in Text, NoSeparator(e)
  PROVE  Split(s \o e) = Grown(Split(s), e)
<1> DEFINE P == {n \in 0..Len(e) :
                   Split(s \o SubSeq(e, 1, n)) = Grown(Split(s), SubSeq(e, 1, n))}
<1>1. Len(e) \in Nat /\ e \in Seq(Nat) /\ s \in Seq(Nat) /\ Split(s) \in Pieces
  BY SplitAppend DEF Text
<1>2. 0 \in P
  <2>1. SubSeq(e, 1, 0) = <<>> /\ s \o <<>> = s /\ 0 \in 0..Len(e)
    BY <1>1
  <2>2. Grown(Split(s), <<>>) = Split(s)
    BY <1>1, GrownNil
  <2> QED BY <2>1, <2>2
<1>3. ASSUME NEW n \in 1..Len(e), n - 1 \in P  PROVE n \in P
  <2>0. PICK t : t = SubSeq(e, 1, n - 1)
    OBVIOUS
  <2>1. /\ t \in Text /\ e[n] \in Nat /\ e[n] # unitSeparator
        /\ SubSeq(e, 1, n) = Append(t, e[n])
    BY <1>1, <2>0, PrefixGrows DEF Text, NoSeparator
  <2>2. s \o Append(t, e[n]) = Append(s \o t, e[n]) /\ s \o t \in Text
    BY <2>1, AppendConcat
  <2>3. Split(s \o t) = Grown(Split(s), t)
    BY <1>3, <2>0
  <2>4. Split(Append(s \o t, e[n])) = SplitStep(Grown(Split(s), t), e[n])
    BY <2>1, <2>2, <2>3, SplitAppend
  <2>5. SplitStep(Grown(Split(s), t), e[n]) = Grown(Split(s), Append(t, e[n]))
    BY <1>1, <2>1, GrownStep
  <2>6. Split(s \o SubSeq(e, 1, n)) = Grown(Split(s), SubSeq(e, 1, n))
    BY <2>1, <2>2, <2>4, <2>5
  <2>7. n \in 0..Len(e)
    BY <1>1
  <2> QED BY <2>6, <2>7
<1>4. \A n \in 0..Len(e) : n \in P
  <2> HIDE DEF P
  <2> QED BY <1>1, <1>2, <1>3, InductionUpTo
<1>5. SubSeq(e, 1, Len(e)) = e /\ Len(e) \in 0..Len(e)
  BY <1>1
<1>6. Len(e) \in P
  <2> HIDE DEF P
  <2> QED BY <1>4, <1>5
<1>7. Split(s \o SubSeq(e, 1, Len(e))) = Grown(Split(s), SubSeq(e, 1, Len(e)))
  BY <1>6
<1> QED BY <1>5, <1>7

\* A separator and an element are one more piece.
LEMMA SplitPiece ==
  ASSUME NEW s \in Text, NEW e \in Text, NoSeparator(e)
  PROVE  Split(s \o <<unitSeparator>> \o e) = Append(Split(s), e)
<1>1. Split(s) \in Pieces /\ Split(s) \in Seq(Text) /\ Len(Split(s)) \in Nat
  BY SplitAppend DEF Pieces
<1>2. unitSeparator \in Nat /\ <<>> \in Text /\ e \in Seq(Nat)
  BY DEF unitSeparator, Text
<1>3. PICK t : t = Append(s, unitSeparator)
  OBVIOUS
<1>4. t \in Text /\ s \o <<unitSeparator>> = t
  BY <1>2, <1>3 DEF Text
<1>5. PICK p : p = Append(Split(s), <<>>)
  OBVIOUS
<1>6. p = Split(t) /\ p \in Pieces
  BY <1>2, <1>3, <1>4, <1>5, SplitAppend DEF SplitStep
<1>7. /\ Len(p) = Len(Split(s)) + 1 /\ p[Len(p)] = <<>>
      /\ \A i \in 1..Len(Split(s)) : p[i] = Split(s)[i]
  BY <1>1, <1>2, <1>5
<1>8. PICK a : a = Grown(p, e)
  OBVIOUS
<1>9. PICK c : c = Append(Split(s), e)
  OBVIOUS
<1>10. <<>> \o e = e
  BY <1>2
<1>11. /\ a \in Seq(Text) /\ Len(a) = Len(Split(s)) + 1
       /\ \A i \in 1..Len(Split(s)) : a[i] = Split(s)[i]
       /\ a[Len(Split(s)) + 1] = e
  <2>1. /\ a \in Pieces /\ Len(a) = Len(p)
        /\ \A i \in 1..(Len(p) - 1) : a[i] = p[i]
        /\ a[Len(p)] = p[Len(p)] \o e
    BY <1>6, <1>8, GrownType
  <2> QED BY <1>1, <1>7, <1>10, <2>1 DEF Pieces
<1>12. /\ c \in Seq(Text) /\ Len(c) = Len(Split(s)) + 1
       /\ \A i \in 1..Len(Split(s)) : c[i] = Split(s)[i]
       /\ c[Len(Split(s)) + 1] = e
  BY <1>1, <1>9
<1>13. \A i \in 1..Len(a) : a[i] = c[i]
  BY <1>1, <1>11, <1>12
<1>14. a = c
  BY <1>11, <1>12, <1>13, SeqEqual
<1>15. Split(t \o e) = a
  BY <1>4, <1>6, <1>8, SplitConcat
<1> QED BY <1>4, <1>9, <1>14, <1>15

-----------------------------------------------------------------------------
(***************************************************************************)
(* strings.Join, and SplitSeq of what it returns.                          *)
(***************************************************************************)

\* The first n elements, joined.
JoinFirst(elems) ==
  LET joined[n \in 0..Len(elems)] ==
        IF n = 0 THEN <<>>
        ELSE IF n = 1 THEN elems[1]
        ELSE joined[n - 1] \o <<unitSeparator>> \o elems[n]
  IN  joined

JoinStep(n, joined, elem) ==
  IF n = 1 THEN elem ELSE joined \o <<unitSeparator>> \o elem

\* Joined texts are a text, and the recursion of Join has a value.
LEMMA JoinStepType ==
  ASSUME NEW n \in Nat, NEW s \in Text, NEW e \in Text
  PROVE  JoinStep(n, s, e) \in Text
<1>1. <<unitSeparator>> \in Seq(Nat)
  BY DEF unitSeparator
<1>2. s \o <<unitSeparator>> \in Seq(Nat)
  BY <1>1, ConcatProperties DEF Text
<1>3. (s \o <<unitSeparator>>) \o e \in Seq(Nat)
  BY <1>2, ConcatProperties DEF Text
<1> QED BY <1>3 DEF JoinStep, Text

LEMMA JoinFirstDef ==
  ASSUME NEW es \in Seq(Text)
  PROVE  /\ JoinFirst(es) \in [0..Len(es) -> Text]
         /\ JoinFirst(es)[0] = <<>>
         /\ \A n \in 1..Len(es) :
              JoinFirst(es)[n] = JoinStep(n, JoinFirst(es)[n - 1], es[n])
<1> DEFINE N == Len(es)
           step == [p \in (1..N) \X Text |-> JoinStep(p[1], p[2], es[p[1]])]
<1>1. N \in Nat /\ \A n \in 1..N : es[n] \in Text
  OBVIOUS
<1>2. step \in [(1..N) \X Text -> Text]
  BY <1>1, JoinStepType
<1>3. PICK f : IsRecursion(f, <<>>, step, N, Text)
  <2> DEFINE base == <<>>
  <2>1. base \in Text
    BY DEF Text
  <2> HIDE DEF step, N, base
  <2>2. IsStep(step, N, Text)
    BY <1>2 DEF IsStep
  <2>3. \E f : IsRecursion(f, base, step, N, Text)
    BY <1>1, <2>1, <2>2, RecursionHasValue
  <2> QED BY <2>3 DEF base
<1>4. /\ f \in [0..N -> Text] /\ f[0] = <<>>
      /\ \A n \in 1..N : f[n] = JoinStep(n, f[n - 1], es[n])
  BY <1>3 DEF IsRecursion
<1> DEFINE Body(g) == [n \in 0..Len(es) |->
        IF n = 0 THEN <<>>
        ELSE IF n = 1 THEN es[1]
        ELSE g[n - 1] \o <<unitSeparator>> \o es[n]]
<1>5. f = Body(f)
  <2>1. DOMAIN Body(f) = 0..N /\ f = [n \in 0..N |-> f[n]]
    BY <1>4
  <2>2. ASSUME NEW n \in 0..N  PROVE f[n] = Body(f)[n]
    <3>1. CASE n = 0
      BY <1>4, <3>1
    <3>2. CASE n # 0
      <4>1. n \in 1..N
        BY <1>1, <3>2
      <4>2. Body(f)[n] = JoinStep(n, f[n - 1], es[n])
        BY <3>2 DEF JoinStep
      <4> QED BY <1>4, <4>1, <4>2
    <3> QED BY <3>1, <3>2
  <2> HIDE DEF Body
  <2> QED BY <2>1, <2>2
<1>6. JoinFirst(es) = Body(JoinFirst(es))
  <2>1. JoinFirst(es) = CHOOSE g : g = Body(g)
    BY DEF JoinFirst
  <2> HIDE DEF Body
  <2> QED BY <1>5, <2>1
<1>8. PICK g : g = JoinFirst(es)
  OBVIOUS
<1>9. /\ g = [n \in 0..N |-> g[n]] /\ g[0] = <<>>
      /\ \A n \in 1..N : g[n] = JoinStep(n, g[n - 1], es[n])
  <2>1. g = Body(g)
    BY <1>6, <1>8
  <2>2. DOMAIN Body(g) = 0..N /\ Body(g) = [n \in 0..N |-> Body(g)[n]] /\ 0 \in 0..N
    BY <1>1
  <2>3. Body(g)[0] = <<>>
    BY <2>2
  <2>4. \A n \in 1..N : Body(g)[n] = JoinStep(n, g[n - 1], es[n])
    BY <1>1 DEF JoinStep
  <2> HIDE DEF Body
  <2> QED BY <2>1, <2>2, <2>3, <2>4
<1>10. \A n \in 0..N : g[n] = f[n]
  <2> DEFINE P == {n \in 0..N : g[n] = f[n]}
  <2>1. 0 \in P
    BY <1>1, <1>4, <1>9
  <2>2. ASSUME NEW n \in 1..N, n - 1 \in P  PROVE n \in P
    <3>1. g[n - 1] = f[n - 1] /\ n \in 0..N
      BY <1>1, <2>2
    <3>2. g[n] = JoinStep(n, g[n - 1], es[n]) /\ f[n] = JoinStep(n, f[n - 1], es[n])
      BY <1>4, <1>9
    <3> QED BY <3>1, <3>2
  <2>3. \A n \in 0..N : n \in P
    <3> HIDE DEF P
    <3> QED BY <1>1, <2>1, <2>2, InductionUpTo
  <2> QED BY <2>3
<1>11. g = f
  <2>1. f = [n \in 0..N |-> f[n]]
    BY <1>4
  <2> QED BY <1>9, <1>10, <2>1
<1> QED BY <1>4, <1>8, <1>11

\* An element without separators is one piece.
LEMMA SplitOne ==
  ASSUME NEW e \in Text, NoSeparator(e)
  PROVE  Split(e) = <<e>>
<1>1. <<>> \in Text /\ <<>> \o e = e
  BY DEF Text
<1>2. Split(e) = Grown(<< <<>> >>, e)
  BY <1>1, SplitConcat, SplitNil
<1>3. PICK p : p = << <<>> >>
  OBVIOUS
<1>4. p \in Pieces /\ Len(p) = 1 /\ p[1] = <<>>
  BY <1>1, <1>3 DEF Pieces
<1>5. PICK g : g = Grown(p, e)
  OBVIOUS
<1>6. g \in Seq(Text) /\ Len(g) = 1 /\ g[1] = e
  <2>1. g \in Pieces /\ Len(g) = Len(p) /\ g[Len(p)] = p[Len(p)] \o e
    BY <1>4, <1>5, GrownType
  <2>2. p[Len(p)] \o e = e
    BY <1>1, <1>4
  <2> QED BY <1>4, <2>1, <2>2 DEF Pieces
<1> QED BY <1>2, <1>3, <1>5, <1>6

\* SplitSeq undoes Join, for elements without separators.
LEMMA SplitJoin ==
  ASSUME NEW es \in Seq(Text), es # <<>>, \A i \in DOMAIN es : NoSeparator(es[i])
  PROVE  Join(es) \in Text /\ Split(Join(es)) = es
<1>1. PICK j : j = JoinFirst(es)
  OBVIOUS
<1>2. /\ j \in [0..Len(es) -> Text]
      /\ \A n \in 1..Len(es) : j[n] = JoinStep(n, j[n - 1], es[n])
  BY <1>1, JoinFirstDef
<1>3. Len(es) \in Nat \ {0} /\ \A i \in 1..Len(es) : es[i] \in Text /\ NoSeparator(es[i])
  OBVIOUS
<1>4. Join(es) = j[Len(es)]
  BY <1>1 DEF Join, JoinFirst
<1> DEFINE P == {n \in 0..Len(es) : n = 0 \/ Split(j[n]) = SubSeq(es, 1, n)}
<1>5. 0 \in P
  BY <1>3
<1>6. ASSUME NEW n \in 1..Len(es), n - 1 \in P  PROVE n \in P
  <2>1. /\ n \in 0..Len(es) /\ n - 1 \in 0..Len(es) /\ j[n - 1] \in Text
        /\ es[n] \in Text /\ NoSeparator(es[n])
    BY <1>2, <1>3
  <2>2. CASE n = 1
    <3>1. j[n] = es[1]
      BY <1>2, <2>2 DEF JoinStep
    <3>2. SubSeq(es, 1, 1) = <<es[1]>>
      <4>1. SubSeq(es, 1, 0) = <<>> /\ 1 \in 1..Len(es) /\ 1 - 1 = 0
        BY <1>3
      <4>2. SubSeq(es, 1, 1) = Append(<<>>, es[1])
        BY <4>1, PrefixGrows
      <4> QED BY <4>2
    <3>3. Split(j[n]) = SubSeq(es, 1, n)
      BY <2>1, <2>2, <3>1, <3>2, SplitOne
    <3> QED BY <2>1, <3>3
  <2>3. CASE n # 1
    <3>1. j[n] = j[n - 1] \o <<unitSeparator>> \o es[n]
      BY <1>2, <2>3 DEF JoinStep
    <3>2. Split(j[n - 1]) = SubSeq(es, 1, n - 1)
      BY <1>6, <2>3
    <3>3. Split(j[n]) = Append(SubSeq(es, 1, n - 1), es[n])
      BY <2>1, <3>1, <3>2, SplitPiece
    <3>4. SubSeq(es, 1, n) = Append(SubSeq(es, 1, n - 1), es[n])
      BY PrefixGrows
    <3>5. Split(j[n]) = SubSeq(es, 1, n)
      BY <3>3, <3>4
    <3> QED BY <2>1, <3>5
  <2> QED BY <2>2, <2>3
<1>7. \A n \in 0..Len(es) : n \in P
  <2> HIDE DEF P
  <2> QED BY <1>3, <1>5, <1>6, InductionUpTo
<1>8. Len(es) \in 0..Len(es) /\ Len(es) # 0 /\ SubSeq(es, 1, Len(es)) = es
  BY <1>3
<1>9. Split(j[Len(es)]) = SubSeq(es, 1, Len(es))
  <2>1. Len(es) \in P
    BY <1>7, <1>8
  <2> QED BY <1>8, <2>1
<1> QED BY <1>2, <1>4, <1>8, <1>9

\* What strings.Count counts.
Separators(s) == {i \in DOMAIN s : s[i] = unitSeparator}

\* SplitSeq yields one piece more than strings.Count counts.
LEMMA SplitLength ==
  ASSUME NEW s \in Text
  PROVE  Len(Split(s)) = 1 + Cardinality(Separators(s))
<1>1. PICK f : f = SplitFirst(s)
  OBVIOUS
<1>2. /\ f \in [0..Len(s) -> Pieces] /\ f[0] = << <<>> >>
      /\ \A n \in 1..Len(s) : f[n] = SplitStep(f[n - 1], s[n])
  BY <1>1, SplitFirstDef
<1>3. Split(s) = f[Len(s)]
  BY <1>1 DEF Split, SplitFirst
<1>4. Len(s) \in Nat /\ DOMAIN s = 1..Len(s) /\ \A n \in 1..Len(s) : s[n] \in Nat
  BY DEF Text
<1> DEFINE seps(n) == {i \in 1..n : s[i] = unitSeparator}
           P == {n \in 0..Len(s) : /\ IsFiniteSet(seps(n))
                                   /\ Len(f[n]) = 1 + Cardinality(seps(n))}
<1>5. 0 \in P
  <2>1. seps(0) = {}
    OBVIOUS
  <2>2. Len(f[0]) = 1
    BY <1>2
  <2>3. IsFiniteSet(seps(0)) /\ Cardinality(seps(0)) = 0
    <3> HIDE DEF seps
    <3> QED BY <2>1, FS_EmptySet
  <2>4. 0 \in 0..Len(s) /\ Len(f[0]) = 1 + Cardinality(seps(0))
    BY <1>4, <2>2, <2>3
  <2> HIDE DEF seps
  <2> QED BY <2>3, <2>4
<1>6. ASSUME NEW n \in 1..Len(s), n - 1 \in P  PROVE n \in P
  <2>1. /\ n \in 0..Len(s) /\ n - 1 \in 0..Len(s) /\ f[n - 1] \in Pieces
        /\ f[n] = SplitStep(f[n - 1], s[n])
    BY <1>2, <1>4
  <2>2. IsFiniteSet(seps(n - 1)) /\ Len(f[n - 1]) = 1 + Cardinality(seps(n - 1))
    BY <1>6
  <2>3. f[n - 1] \in Seq(Text) /\ f[n - 1] # <<>>
    BY <2>1 DEF Pieces
  <2>4. CASE s[n] = unitSeparator
    <3>1. seps(n) = seps(n - 1) \cup {n} /\ n \notin seps(n - 1)
      BY <1>4, <2>4
    <3>2. IsFiniteSet(seps(n)) /\ Cardinality(seps(n)) = Cardinality(seps(n - 1)) + 1
      <4> HIDE DEF seps
      <4> QED BY <2>2, <3>1, FS_AddElement
    <3>3. Len(f[n]) = Len(f[n - 1]) + 1
      <4>1. f[n] = Append(f[n - 1], <<>>)
        BY <2>1, <2>4 DEF SplitStep
      <4>2. <<>> \in Text
        BY DEF Text
      <4> QED BY <2>3, <4>1, <4>2
    <3>4. Cardinality(seps(n - 1)) \in Nat
      <4> HIDE DEF seps
      <4> QED BY <2>2, FS_CardinalityType
    <3>5. Len(f[n]) = 1 + Cardinality(seps(n))
      <4> HIDE DEF seps
      <4> QED BY <2>2, <3>2, <3>3, <3>4
    <3> QED BY <2>1, <3>2, <3>5
  <2>5. CASE s[n] # unitSeparator
    <3>1. seps(n) = seps(n - 1)
      BY <1>4, <2>5
    <3>2. Len(f[n]) = Len(f[n - 1])
      <4>1. PICK x : x = Append(f[n - 1][Len(f[n - 1])], s[n])
        OBVIOUS
      <4>2. x \in Text
        <5>1. f[n - 1][Len(f[n - 1])] \in Seq(Nat)
          BY <2>3 DEF Text
        <5> QED BY <1>4, <4>1, <5>1 DEF Text
      <4>3. f[n] = LastReplaced(f[n - 1], x)
        BY <2>1, <2>5, <4>1 DEF SplitStep, LastReplaced
      <4>4. Len(LastReplaced(f[n - 1], x)) = Len(f[n - 1])
        BY <2>1, <4>2, LastReplacedType
      <4> QED BY <4>3, <4>4
    <3> QED BY <2>1, <2>2, <3>1, <3>2
  <2> QED BY <2>4, <2>5
<1>7. \A n \in 0..Len(s) : n \in P
  <2> HIDE DEF P
  <2> QED BY <1>4, <1>5, <1>6, InductionUpTo
<1>8. seps(Len(s)) = Separators(s)
  BY <1>4 DEF Separators
<1>9. Len(s) \in P
  <2> HIDE DEF P
  <2> QED BY <1>4, <1>7
<1> HIDE DEF seps
<1> QED BY <1>3, <1>8, <1>9

-----------------------------------------------------------------------------
(***************************************************************************)
(* Single elements.                                                        *)
(***************************************************************************)

\* An encoded element has no separators, and is decoded to the element.
LEMMA EncodeDecode ==
  ASSUME NEW e \in Text
  PROVE  /\ Encode(e) \in Text
         /\ NoSeparator(Encode(e))
         /\ Decode(Encode(e)) = e
         /\ Encode(e) = <<>> <=> e = <<>>
<1>1. e \in Seq(Nat) /\ DOMAIN e = 1..Len(e) /\ Len(e) \in Nat
  BY DEF Text
<1>2. CASE Encode(e) = e
  <2>1. ~(e # <<>> /\ e[1] = shiftOut) /\ NoSeparator(e)
    <3>1. PICK b : b = Base64(e)
      OBVIOUS
    <3>2. ASSUME Encode(e) = <<shiftOut>> \o b PROVE FALSE
      <4>1. b \in Seq(Nat) /\ Len(b) = Len(e)
        BY <1>1, <3>1 DEF Base64
      <4>2. <<shiftOut>> \in Seq(Nat)
        BY DEF shiftOut
      <4>3. Len(<<shiftOut>> \o b) = 1 + Len(e)
        BY <4>1, <4>2, ConcatProperties
      <4> QED BY <1>1, <1>2, <3>2, <4>3
    <3>3. ~(unitSeparator \in ToSet(e) \/ (e # <<>> /\ e[1] = shiftOut))
      BY <3>1, <3>2 DEF Encode
    <3> QED BY <3>3 DEF NoSeparator, ToSet
  <2>2. Decode(e) = e
    BY <2>1 DEF Decode
  <2> QED BY <1>2, <2>1, <2>2
<1>3. CASE Encode(e) # e
  <2>1. PICK b : b = Base64(e)
    OBVIOUS
  <2>2. /\ b \in Seq(Nat) /\ Len(b) = Len(e)
        /\ \A i \in 1..Len(e) : b[i] = e[i] + 256
    BY <1>1, <2>1 DEF Base64
  <2>3. PICK c : c = <<shiftOut>> \o b
    OBVIOUS
  <2>4. Encode(e) = c
    BY <1>3, <2>1, <2>3 DEF Encode
  <2>5. <<shiftOut>> \in Seq(Nat) /\ Len(<<shiftOut>>) = 1 /\ <<shiftOut>>[1] = 14
    BY DEF shiftOut
  <2>6. /\ c \in Seq(Nat) /\ Len(c) = 1 + Len(e)
        /\ \A i \in 1..Len(c) : c[i] = IF i <= 1 THEN 14 ELSE b[i - 1]
    BY <2>2, <2>3, <2>5, ConcatProperties
  <2>d. DOMAIN c = 1..Len(c) /\ DOMAIN b = 1..Len(e) /\ \A i \in 1..Len(e) : e[i] \in Nat
    BY <1>1, <2>2, <2>6, LenProperties
  <2>7. NoSeparator(c)
    <3> SUFFICES ASSUME NEW i \in 1..Len(c)  PROVE c[i] # 31
      BY <2>d DEF NoSeparator, unitSeparator
    <3>1. CASE i = 1
      BY <2>6, <3>1
    <3>2. CASE i # 1
      <4>1. i - 1 \in 1..Len(e) /\ c[i] = b[i - 1]
        BY <1>1, <2>6, <3>2
      <4>2. c[i] = e[i - 1] + 256 /\ e[i - 1] \in Nat
        BY <2>2, <2>d, <4>1
      <4> QED BY <4>2
    <3> QED BY <3>1, <3>2
  <2>8. Tail(c) = b
    <3>1. PICK t : t = Tail(c)
      OBVIOUS
    <3>2. c # <<>>
      BY <1>1, <2>6
    <3>3. t \in Seq(Nat) /\ Len(t) = Len(c) - 1 /\ \A i \in 1..Len(t) : t[i] = c[i + 1]
      BY <2>6, <3>1, <3>2, HeadTailProperties
    <3>4. Len(t) = Len(b) /\ \A i \in 1..Len(t) : t[i] = b[i]
      <4>1. Len(t) = Len(b)
        BY <1>1, <2>2, <2>6, <3>3
      <4>2. ASSUME NEW i \in 1..Len(t)  PROVE t[i] = b[i]
        <5>1. i + 1 \in 1..Len(c) /\ ~(i + 1 <= 1) /\ (i + 1) - 1 = i
          BY <1>1, <2>2, <2>6, <4>1
        <5> QED BY <2>6, <3>3, <5>1
      <4> QED BY <4>1, <4>2
    <3> QED BY <2>2, <3>1, <3>3, <3>4, SeqEqual
  <2>9. Decode(c) = Unbase64(b)
    <3>1. 1 \in 1..Len(c)
      BY <1>1, <2>6
    <3>2. c # <<>> /\ c[1] = shiftOut
      BY <2>6, <3>1 DEF shiftOut
    <3> QED BY <2>8, <3>2 DEF Decode
  <2>10. Unbase64(b) = e
    <3>1. \A i \in 1..Len(e) : b[i] - 256 = e[i]
      BY <2>2, <2>d
    <3>2. Unbase64(b) = [i \in 1..Len(e) |-> e[i]]
      BY <2>d, <3>1 DEF Unbase64
    <3>3. e = [i \in 1..Len(e) |-> e[i]]
      BY <1>1
    <3> QED BY <3>2, <3>3
  <2>11. e # <<>>
    BY <1>3 DEF Encode, ToSet
  <2>12. c # <<>>
    BY <1>1, <2>6
  <2> QED BY <2>4, <2>6, <2>7, <2>9, <2>10, <2>11, <2>12 DEF Text
<1> QED BY <1>2, <1>3

-----------------------------------------------------------------------------
(***************************************************************************)
(* The order of strings is a strict total order.                           *)
(***************************************************************************)

\* The texts agree in front of i; there, a ends or has the smaller byte.
DiffersAt(a, b, i) ==
  /\ \A j \in 1..(i - 1) : a[j] = b[j]
  /\ \/ i = Len(a) + 1
     \/ i <= Len(a) /\ a[i] < b[i]

\* One text is before another if there is such a place.
LEMMA BeforeDiffers ==
  ASSUME NEW a \in Text, NEW b \in Text
  PROVE  Before(a, b) <=> \E i \in 1..Len(b) : DiffersAt(a, b, i)
<1>1. /\ a \in Seq(Nat) /\ b \in Seq(Nat) /\ Len(a) \in Nat /\ Len(b) \in Nat
      /\ DOMAIN a = 1..Len(a) /\ DOMAIN b = 1..Len(b)
  BY DEF Text
<1>2. IsPrefix(a, b) <=> Len(a) <= Len(b) /\ \A j \in 1..Len(a) : a[j] = b[j]
  <2>1. CASE Len(a) <= Len(b)
    <3>1. PICK p : p = SubSeq(b, 1, Len(a))
      OBVIOUS
    <3>2. p \in Seq(Nat) /\ Len(p) = Len(a) /\ \A j \in 1..Len(a) : p[j] = b[j]
      BY <1>1, <2>1, <3>1, SubSeqProperties
    <3>3. SubSeq(a, 1, Len(a)) = a
      BY <1>1
    <3>4. a = p <=> \A j \in 1..Len(a) : a[j] = b[j]
      BY <1>1, <3>2, SeqEqual
    <3> QED BY <2>1, <3>1, <3>3, <3>4 DEF IsPrefix
  <2>2. CASE ~(Len(a) <= Len(b))
    BY <2>2 DEF IsPrefix
  <2> QED BY <2>1, <2>2
<1>3. IsStrictPrefix(a, b) <=> Len(a) < Len(b) /\ \A j \in 1..Len(a) : a[j] = b[j]
  <2>1. ASSUME Len(a) = Len(b), \A j \in 1..Len(a) : a[j] = b[j]  PROVE a = b
    BY <1>1, <2>1, SeqEqual
  <2>2. IsStrictPrefix(a, b) <=> IsPrefix(a, b) /\ a # b
    BY DEF IsStrictPrefix
  <2>3. ASSUME IsPrefix(a, b), a # b
        PROVE  Len(a) < Len(b) /\ \A j \in 1..Len(a) : a[j] = b[j]
    <3>1. Len(a) <= Len(b) /\ \A j \in 1..Len(a) : a[j] = b[j]
      BY <1>2, <2>3
    <3>2. Len(a) # Len(b)
      BY <2>1, <2>3, <3>1
    <3>3. Len(a) < Len(b)
      <4>1. Len(a) \in Nat /\ Len(b) \in Nat
        BY <1>1
      <4> QED BY <3>1, <3>2, <4>1
    <3> QED BY <3>1, <3>3, Zenon
  <2>4. ASSUME Len(a) < Len(b), \A j \in 1..Len(a) : a[j] = b[j]
        PROVE  IsPrefix(a, b) /\ a # b
    BY <1>1, <1>2, <2>4
  <2> QED BY <2>2, <2>3, <2>4
<1>4. IsStrictPrefix(a, b) => \E i \in 1..Len(b) : DiffersAt(a, b, i)
  <2> SUFFICES ASSUME Len(a) < Len(b), \A j \in 1..Len(a) : a[j] = b[j]
               PROVE  \E i \in 1..Len(b) : DiffersAt(a, b, i)
    BY <1>3
  <2>1. Len(a) + 1 \in 1..Len(b) /\ DiffersAt(a, b, Len(a) + 1)
    BY <1>1 DEF DiffersAt
  <2> QED BY <2>1
<1>5. ASSUME NEW i \in 1..Len(b), DiffersAt(a, b, i)  PROVE Before(a, b)
  <2>1. CASE i = Len(a) + 1
    <3>1. Len(a) < Len(b) /\ \A j \in 1..Len(a) : a[j] = b[j]
      BY <1>1, <1>5, <2>1 DEF DiffersAt
    <3> QED BY <1>3, <3>1 DEF Before
  <2>2. CASE i # Len(a) + 1
    <3>1. i \in 1..Len(a) /\ a[i] < b[i] /\ \A j \in 1..(i - 1) : a[j] = b[j]
      BY <1>1, <1>5, <2>2 DEF DiffersAt
    <3> QED BY <1>1, <3>1 DEF Before
  <2> QED BY <2>1, <2>2
<1>6. ASSUME NEW i \in DOMAIN a \cap DOMAIN b,
             a[i] < b[i], \A j \in 1..(i - 1) : a[j] = b[j]
      PROVE  \E k \in 1..Len(b) : DiffersAt(a, b, k)
  BY <1>1, <1>6 DEF DiffersAt
<1> QED BY <1>4, <1>5, <1>6 DEF Before

LEMMA BeforeIrreflexive == ASSUME NEW a \in Text  PROVE ~Before(a, a)
<1>1. a \in Seq(Nat) /\ Len(a) \in Nat /\ \A i \in 1..Len(a) : a[i] \in Nat
  BY DEF Text
<1> QED BY <1>1, BeforeDiffers DEF DiffersAt

LEMMA BeforeTransitive ==
  ASSUME NEW a \in Text, NEW b \in Text, NEW c \in Text, Before(a, b), Before(b, c)
  PROVE  Before(a, c)
<1>1. /\ Len(a) \in Nat /\ Len(b) \in Nat /\ Len(c) \in Nat
      /\ \A i \in 1..Len(a) : a[i] \in Nat
      /\ \A i \in 1..Len(b) : b[i] \in Nat
      /\ \A i \in 1..Len(c) : c[i] \in Nat
  BY DEF Text
<1>2. PICK i \in 1..Len(b) : DiffersAt(a, b, i)
  BY BeforeDiffers
<1>3. PICK k \in 1..Len(c) : DiffersAt(b, c, k)
  BY BeforeDiffers
<1>4. CASE i < k
  <2>1. i \in 1..Len(c) /\ \A j \in 1..(i - 1) : a[j] = c[j]
    BY <1>1, <1>2, <1>3, <1>4 DEF DiffersAt
  <2>2. b[i] = c[i]
    BY <1>1, <1>3, <1>4 DEF DiffersAt
  <2>3. DiffersAt(a, c, i)
    BY <1>2, <2>1, <2>2 DEF DiffersAt
  <2> QED BY <2>1, <2>3, BeforeDiffers
<1>5. CASE ~(i < k)
  <2>1. \A j \in 1..(k - 1) : a[j] = c[j]
    BY <1>1, <1>2, <1>3, <1>5 DEF DiffersAt
  <2>2. k = Len(a) + 1 \/ (k <= Len(a) /\ a[k] < c[k])
    BY <1>1, <1>2, <1>3, <1>5 DEF DiffersAt
  <2>3. DiffersAt(a, c, k)
    BY <2>1, <2>2 DEF DiffersAt
  <2> QED BY <2>3, BeforeDiffers
<1> QED BY <1>4, <1>5

LEMMA BeforeTotal ==
  ASSUME NEW a \in Text, NEW b \in Text, a # b
  PROVE  Before(a, b) \/ Before(b, a)
<1>1. /\ a \in Seq(Nat) /\ b \in Seq(Nat) /\ Len(a) \in Nat /\ Len(b) \in Nat
      /\ \A i \in 1..Len(a) : a[i] \in Nat
      /\ \A i \in 1..Len(b) : b[i] \in Nat
  BY DEF Text
<1> DEFINE T == {i \in Nat : 1 <= i /\ (i > Len(a) \/ i > Len(b) \/ a[i] # b[i])}
<1>2. Len(a) + 1 \in T
  BY <1>1
<1>3. PICK i \in T : \A m \in T : i <= m
  <2> HIDE DEF T
  <2>1. T \subseteq Nat
    BY DEF T
  <2> QED BY <1>2, <2>1, LeastNumber
<1>4. \A j \in 1..(i - 1) : j <= Len(a) /\ j <= Len(b) /\ a[j] = b[j]
  BY <1>1, <1>3
<1>5. CASE i <= Len(a) /\ i <= Len(b)
  <2>1. a[i] < b[i] \/ b[i] < a[i]
    BY <1>1, <1>3, <1>5
  <2>2. DiffersAt(a, b, i) \/ DiffersAt(b, a, i)
    BY <1>4, <1>5, <2>1 DEF DiffersAt
  <2> QED BY <1>1, <1>5, <2>2, BeforeDiffers
<1>6. CASE i > Len(a) /\ i <= Len(b)
  <2>1. i = Len(a) + 1
    BY <1>1, <1>2, <1>3, <1>6
  <2>2. DiffersAt(a, b, i) /\ i \in 1..Len(b)
    BY <1>1, <1>4, <1>6, <2>1 DEF DiffersAt
  <2> QED BY <2>2, BeforeDiffers
<1>7. CASE i <= Len(a) /\ i > Len(b)
  <2>1. Len(b) + 1 \in T
    BY <1>1
  <2>2. i = Len(b) + 1
    BY <1>1, <1>3, <1>7, <2>1
  <2>3. DiffersAt(b, a, i) /\ i \in 1..Len(a)
    BY <1>1, <1>4, <1>7, <2>2 DEF DiffersAt
  <2> QED BY <2>3, BeforeDiffers
<1>8. CASE i > Len(a) /\ i > Len(b)
  <2>1. Len(b) + 1 \in T
    BY <1>1
  <2>2. i = Len(a) + 1 /\ i = Len(b) + 1
    BY <1>1, <1>2, <1>3, <1>8, <2>1
  <2>3. a = b
    BY <1>1, <1>4, <2>2, SeqEqual
  <2> QED BY <2>3
<1> QED BY <1>1, <1>3, <1>5, <1>6, <1>7, <1>8

-----------------------------------------------------------------------------
(***************************************************************************)
(* Sorted lists.                                                           *)
(***************************************************************************)

\* A finite set of texts, if it is not empty, has a greatest one.
HasGreatest(S) == \E x \in S : \A y \in S \ {x} : Before(y, x)

LEMMA GreatestText ==
  ASSUME NEW S, S \subseteq Text, IsFiniteSet(S), S # {}
  PROVE  HasGreatest(S)
<1> DEFINE P == {n \in Nat : \A T \in SUBSET Text :
                   IsFiniteSet(T) /\ Cardinality(T) = n /\ T # {} => HasGreatest(T)}
<1>1. 0 \in P
  BY FS_EmptySet
<1>2. ASSUME NEW n \in Nat, n \in P  PROVE n + 1 \in P
  <2> SUFFICES ASSUME NEW T \in SUBSET Text, IsFiniteSet(T), Cardinality(T) = n + 1, T # {}
               PROVE  HasGreatest(T)
    OBVIOUS
  <2>1. PICK z \in T : TRUE
    OBVIOUS
  <2>2. PICK U : U = T \ {z}
    OBVIOUS
  <2>3. U \in SUBSET Text /\ IsFiniteSet(U) /\ Cardinality(U) = n
    <3>1. IsFiniteSet(T \ {z}) /\ Cardinality(T \ {z}) = Cardinality(T) - 1
      BY FS_RemoveElement
    <3>2. (n + 1) - 1 = n
      OBVIOUS
    <3> QED BY <2>1, <2>2, <3>1, <3>2
  <2>4. CASE U = {}
    BY <2>1, <2>2, <2>4 DEF HasGreatest
  <2>5. CASE U # {}
    <3>1. HasGreatest(U)
      BY <1>2, <2>3, <2>5
    <3>2. PICK x \in U : \A y \in U \ {x} : Before(y, x)
      BY <3>1 DEF HasGreatest
    <3>3. x # z /\ x \in Text /\ z \in Text /\ x \in T
      BY <2>1, <2>2, <3>2
    <3>4. CASE Before(z, x)
      BY <2>2, <3>2, <3>3, <3>4 DEF HasGreatest
    <3>5. CASE Before(x, z)
      <4>1. ASSUME NEW y \in T \ {z}  PROVE Before(y, z)
        <5>1. y = x \/ (y \in U \ {x} /\ Before(y, x))
          BY <2>2, <3>2
        <5> QED BY <3>3, <3>5, <5>1, BeforeTransitive
      <4> QED BY <2>1, <4>1 DEF HasGreatest
    <3> QED BY <3>3, <3>4, <3>5, BeforeTotal
  <2> QED BY <2>4, <2>5
<1>3. \A n \in Nat : n \in P
  <2> HIDE DEF P
  <2> QED BY <1>1, <1>2, InductionOverNat
<1>4. Cardinality(S) \in P
  <2> HIDE DEF P
  <2> QED BY <1>3, FS_CardinalityType
<1> QED BY <1>4

\* Without it, the others have a sorted list, to which it is appended.
IsSortedList(f, S) ==
  /\ f \in [1..Cardinality(S) -> S]
  /\ \A i, j \in DOMAIN f : i < j => Before(f[i], f[j])

HasSorted(S) == \E f : IsSortedList(f, S)

LEMMA SortedExists ==
  ASSUME NEW S, S \subseteq Text, IsFiniteSet(S)
  PROVE  HasSorted(S)
<1> DEFINE P == {n \in Nat : \A T \in SUBSET Text :
                   IsFiniteSet(T) /\ Cardinality(T) = n => HasSorted(T)}
<1>1. 0 \in P
  <2> SUFFICES ASSUME NEW T \in SUBSET Text, IsFiniteSet(T), Cardinality(T) = 0
               PROVE  HasSorted(T)
    OBVIOUS
  <2>1. <<>> \in [1..0 -> T] /\ DOMAIN <<>> = {}
    OBVIOUS
  <2>2. IsSortedList(<<>>, T)
    BY <2>1 DEF IsSortedList
  <2> QED BY <2>2 DEF HasSorted
<1>2. ASSUME NEW n \in Nat, n \in P  PROVE n + 1 \in P
  <2> SUFFICES ASSUME NEW T \in SUBSET Text, IsFiniteSet(T), Cardinality(T) = n + 1
               PROVE  HasSorted(T)
    OBVIOUS
  <2>1. T # {}
    BY FS_EmptySet
  <2>2. PICK x \in T : \A y \in T \ {x} : Before(y, x)
    BY <2>1, GreatestText DEF HasGreatest
  <2>3. PICK U : U = T \ {x}
    OBVIOUS
  <2>4. U \in SUBSET Text /\ IsFiniteSet(U) /\ Cardinality(U) = n
    <3>1. IsFiniteSet(T \ {x}) /\ Cardinality(T \ {x}) = Cardinality(T) - 1
      BY FS_RemoveElement
    <3>2. (n + 1) - 1 = n
      OBVIOUS
    <3> QED BY <2>3, <3>1, <3>2
  <2>5. HasSorted(U)
    BY <1>2, <2>4
  <2>6. PICK f : f \in [1..n -> U] /\ \A i, j \in 1..n : i < j => Before(f[i], f[j])
    <3>1. PICK f : IsSortedList(f, U)
      BY <2>5 DEF HasSorted
    <3> QED BY <2>4, <3>1 DEF IsSortedList
  <2>7. PICK g : g = [i \in 1..(n + 1) |-> IF i <= n THEN f[i] ELSE x]
    OBVIOUS
  <2>8. g \in [1..(n + 1) -> T] /\ DOMAIN g = 1..(n + 1)
    BY <2>3, <2>6, <2>7
  <2>9. ASSUME NEW i \in 1..(n + 1), NEW j \in 1..(n + 1), i < j
        PROVE  Before(g[i], g[j])
    <3>1. i \in 1..n /\ g[i] = f[i] /\ f[i] \in U
      BY <2>6, <2>7, <2>9
    <3>2. CASE j <= n
      BY <2>6, <2>7, <2>9, <3>1, <3>2
    <3>3. CASE j = n + 1
      <4>1. g[j] = x
        BY <2>7, <3>3
      <4> QED BY <2>2, <2>3, <3>1, <4>1
    <3> QED BY <3>2, <3>3
  <2>10. IsSortedList(g, T)
    BY <2>8, <2>9 DEF IsSortedList
  <2> QED BY <2>10 DEF HasSorted
<1>3. \A n \in Nat : n \in P
  <2> HIDE DEF P
  <2> QED BY <1>1, <1>2, InductionOverNat
<1>4. Cardinality(S) \in P
  <2> HIDE DEF P
  <2> QED BY <1>3, FS_CardinalityType
<1> QED BY <1>4

\* A finite set of texts has a sorted list, with all its elements.
LEMMA SortedFacts ==
  ASSUME NEW S, S \subseteq Text, IsFiniteSet(S)
  PROVE  /\ Sorted(S) \in Seq(Text)
         /\ Len(Sorted(S)) = Cardinality(S)
         /\ ToSet(Sorted(S)) = S
         /\ \A i, j \in DOMAIN Sorted(S) : i < j => Before(Sorted(S)[i], Sorted(S)[j])
<1>1. PICK n : n = Cardinality(S) /\ n \in Nat
  BY FS_CardinalityType
<1>2. PICK f : f = Sorted(S)
  OBVIOUS
<1>3. f \in [1..n -> S] /\ \A i, j \in DOMAIN f : i < j => Before(f[i], f[j])
  <2>1. \E g \in [1..n -> S] : \A i, j \in DOMAIN g : i < j => Before(g[i], g[j])
    BY <1>1, SortedExists DEF HasSorted, IsSortedList
  <2> QED BY <1>1, <1>2, <2>1 DEF Sorted
<1>4. f \in Injection(1..n, S)
  <2>1. ASSUME NEW i \in 1..n, NEW j \in 1..n, i # j  PROVE f[i] # f[j]
    <3>1. Before(f[i], f[j]) \/ Before(f[j], f[i])
      BY <1>3, <2>1
    <3>2. f[i] \in Text /\ f[j] \in Text
      BY <1>3
    <3> QED BY <3>1, <3>2, BeforeIrreflexive
  <2> QED BY <1>3, <2>1 DEF Injection, IsInjective
<1>5. f \in Surjection(1..n, S)
  BY <1>1, <1>4, FS_Interval, FS_Injection
<1>6. f \in Seq(Text) /\ Len(f) = n /\ DOMAIN f = 1..n
  BY <1>1, <1>3
<1>7. ToSet(f) = S
  BY <1>3, <1>5, <1>6 DEF ToSet, Surjection
<1> QED BY <1>1, <1>2, <1>3, <1>6, <1>7

-----------------------------------------------------------------------------
(***************************************************************************)
(* Sets.                                                                   *)
(***************************************************************************)

\* The elements of a list are as many as the list is long, unless one is there
\* twice.
LEMMA ToSetFacts ==
  ASSUME NEW X, NEW s \in Seq(X)
  PROVE  /\ ToSet(s) \subseteq X /\ IsFiniteSet(ToSet(s))
         /\ Cardinality(ToSet(s)) \in Nat
         /\ Cardinality(ToSet(s)) <= Len(s)
         /\ Cardinality(ToSet(s)) < Len(s)
              <=> \E i, j \in DOMAIN s : i # j /\ s[i] = s[j]
<1>1. PICK n : n = Len(s) /\ n \in Nat
  OBVIOUS
<1>2. s \in [1..n -> X] /\ DOMAIN s = 1..n
  BY <1>1, LenProperties
<1>3. PICK S : S = ToSet(s)
  OBVIOUS
<1>4. S \subseteq X /\ \A i \in 1..n : s[i] \in S
  BY <1>2, <1>3 DEF ToSet
<1>5. s \in Surjection(1..n, S)
  <2>1. s \in [1..n -> S]
    BY <1>2, <1>4
  <2>2. \A x \in S : \E i \in 1..n : s[i] = x
    BY <1>2, <1>3 DEF ToSet
  <2> QED BY <2>1, <2>2 DEF Surjection
<1>6. IsFiniteSet(1..n) /\ Cardinality(1..n) = n
  <2>1. 1 \in Int /\ n \in Int
    BY <1>1
  <2>2. IsFiniteSet(1..n) /\ Cardinality(1..n) = IF 1 > n THEN 0 ELSE n - 1 + 1
    BY <2>1, FS_Interval
  <2> QED BY <1>1, <2>2
<1>7. /\ IsFiniteSet(S) /\ Cardinality(S) <= n
      /\ Cardinality(S) = n <=> s \in Injection(1..n, S)
  BY <1>5, <1>6, FS_Surjection
<1>8. Cardinality(S) \in Nat
  BY <1>7, FS_CardinalityType
<1>9. s \in Injection(1..n, S) <=> ~\E i, j \in DOMAIN s : i # j /\ s[i] = s[j]
  BY <1>2, <1>5 DEF Injection, Surjection, IsInjective
<1> QED BY <1>1, <1>3, <1>4, <1>7, <1>8, <1>9

\* The list that a set was made of, sorted and without repetitions, comes out of
\* it: whatever bytes the elements have, nothing is lost or mixed up.
THEOREM SetRoundTrip ==
  ASSUME NEW elems \in Seq(Text)
  PROVE  /\ ToSlice(SetOf(elems)) = Sorted(ToSet(elems))
         /\ SetCardinality(SetOf(elems)) = Cardinality(ToSet(elems))
<1>1. PICK S : S = ToSet(elems)
  OBVIOUS
<1>2. S \subseteq Text /\ IsFiniteSet(S)
  BY <1>1, ToSetFacts
<1>3. PICK all : all = Sorted(S)
  OBVIOUS
<1>4. /\ all \in Seq(Text) /\ Len(all) = Cardinality(S) /\ ToSet(all) = S
      /\ \A i, j \in 1..Len(all) : i < j => all[i] # all[j]
  <2>1. /\ all \in Seq(Text) /\ Len(all) = Cardinality(S) /\ ToSet(all) = S
        /\ \A i, j \in DOMAIN all : i < j => Before(all[i], all[j])
    BY <1>2, <1>3, SortedFacts
  <2>2. DOMAIN all = 1..Len(all) /\ \A i \in 1..Len(all) : all[i] \in Text
    BY <2>1
  <2> QED BY <2>1, <2>2, BeforeIrreflexive
<1>5. PICK joined : joined = SetOf(elems)
  OBVIOUS
<1>6. PICK es : es = [i \in DOMAIN all |-> Encode(all[i])]
  OBVIOUS
<1>7. joined = IF all = << <<>> >> THEN <<unitSeparator>> ELSE Join(es)
  <2>1. ToSlice(<<>>) \o elems = elems
    BY DEF ToSlice
  <2> QED BY <1>1, <1>3, <1>5, <1>6, <2>1 DEF SetOf, Add
<1>8. Len(all) \in Nat /\ DOMAIN all = 1..Len(all) /\ \A i \in 1..Len(all) : all[i] \in Text
  BY <1>4
<1>9. /\ es \in Seq(Text) /\ Len(es) = Len(all)
      /\ \A i \in 1..Len(all) : es[i] = Encode(all[i]) /\ NoSeparator(es[i])
  BY <1>6, <1>8, EncodeDecode
<1>10. CASE all = << <<>> >>
  <2>1. joined = <<unitSeparator>> /\ joined # <<>> /\ Len(all) = 1
    BY <1>7, <1>10
  <2>2. ToSlice(joined) = all
    BY <1>10, <2>1 DEF ToSlice
  <2>3. SetCardinality(joined) = 1
    BY <2>1 DEF SetCardinality
  <2> QED BY <1>1, <1>3, <1>4, <1>5, <2>1, <2>2, <2>3
<1>11. CASE all = <<>>
  <2>1. es = <<>> /\ Len(all) = 0
    BY <1>8, <1>9, <1>11
  <2>2. Join(es) = JoinFirst(es)[0]
    BY <2>1 DEF Join, JoinFirst
  <2>3. joined = <<>>
    BY <1>7, <1>9, <1>11, <2>2, JoinFirstDef
  <2>4. ToSlice(joined) = all /\ SetCardinality(joined) = 0
    BY <1>11, <2>3 DEF ToSlice, SetCardinality
  <2> QED BY <1>1, <1>3, <1>4, <1>5, <2>1, <2>4
<1>12. CASE all # <<>> /\ all # << <<>> >>
  <2>1. joined = Join(es) /\ es # <<>> /\ DOMAIN es = 1..Len(all)
    BY <1>7, <1>8, <1>9, <1>12
  <2>2. joined \in Text /\ Split(joined) = es
    BY <1>9, <2>1, SplitJoin
  <2>3. joined # <<>>
    <3> SUFFICES ASSUME joined = <<>> PROVE FALSE
      OBVIOUS
    <3>1. es = << <<>> >>
      BY <2>2, SplitNil
    <3>2. Len(all) = 1 /\ Encode(all[1]) = <<>>
      <4>1. Len(es) = 1 /\ es[1] = <<>>
        BY <3>1
      <4> QED BY <1>9, <4>1
    <3>3. all[1] = <<>>
      BY <1>8, <3>2, EncodeDecode
    <3>4. all = << <<>> >>
      BY <1>4, <3>2, <3>3
    <3> QED BY <1>12, <3>4
  <2>4. joined # <<unitSeparator>>
    <3> SUFFICES ASSUME joined = <<unitSeparator>> PROVE FALSE
      OBVIOUS
    <3>1. <<>> \in Text /\ unitSeparator \in Nat /\ Append(<<>>, unitSeparator) = joined
      BY DEF Text, unitSeparator
    <3>2. es = Append(<< <<>> >>, <<>>)
      <4>1. Split(joined) = SplitStep(Split(<<>>), unitSeparator)
        BY <3>1, SplitAppend
      <4>2. SplitStep(<< <<>> >>, unitSeparator) = Append(<< <<>> >>, <<>>)
        BY DEF SplitStep
      <4> QED BY <2>2, <4>1, <4>2, SplitNil
    <3>3. Len(all) = 2 /\ Encode(all[1]) = <<>> /\ Encode(all[2]) = <<>>
      <4>1. Len(es) = 2 /\ es[1] = <<>> /\ es[2] = <<>>
        BY <3>2
      <4> QED BY <1>9, <4>1
    <3>4. all[1] = <<>> /\ all[2] = <<>>
      BY <1>8, <3>3, EncodeDecode
    <3> QED BY <1>4, <3>3, <3>4
  <2>5. ToSlice(joined) = all
    <3>1. ToSlice(joined) = [i \in 1..Len(all) |-> Decode(es[i])]
      BY <2>1, <2>2, <2>3, <2>4 DEF ToSlice
    <3>2. \A i \in 1..Len(all) : Decode(es[i]) = all[i]
      BY <1>8, <1>9, EncodeDecode
    <3>3. all = [i \in 1..Len(all) |-> all[i]]
      BY <1>4
    <3> QED BY <3>1, <3>2, <3>3
  <2>6. SetCardinality(joined) = Len(all)
    <3>1. SetCardinality(joined) = 1 + Cardinality(Separators(joined))
      BY <2>3, <2>4 DEF SetCardinality, Separators
    <3> QED BY <1>9, <2>2, <3>1, SplitLength
  <2> QED BY <1>1, <1>3, <1>4, <1>5, <2>5, <2>6
<1> QED BY <1>10, <1>11, <1>12

\* Lists with the same elements make the same set.
LEMMA SameSet ==
  ASSUME NEW s, NEW t, ToSet(s) = ToSet(t),
         ToSlice(<<>>) \o s = s, ToSlice(<<>>) \o t = t
  PROVE  SetOf(s) = SetOf(t)
BY DEF SetOf, Add

\* The empty set contributes nothing to what is added to it.
LEMMA NothingBefore ==
  ASSUME NEW X, NEW s \in Seq(X)
  PROVE  ToSlice(<<>>) \o s = s
BY DEF ToSlice

\* A map of a finite set of keys, in any order, is a list with these elements.
LEMMA SetToSeqFacts ==
  ASSUME NEW X, NEW S, S \subseteq X, IsFiniteSet(S)
  PROVE  SetToSeq(S) \in Seq(X) /\ ToSet(SetToSeq(S)) = S
<1>1. PICK n : n = Cardinality(S) /\ n \in Nat
  BY FS_CardinalityType
<1>2. PICK f : f = SetToSeq(S)
  OBVIOUS
<1>3. \E g \in [1..n -> S] : IsInjective(g)
  <2>1. PICK g : g \in Bijection(1..n, S)
    BY <1>1, FS_CardinalityType DEF ExistsBijection
  <2>2. g \in [1..n -> S] /\ IsInjective(g)
    BY <2>1 DEF Bijection, Injection
  <2> QED BY <2>2
<1>4. f \in [1..n -> S] /\ IsInjective(f)
  BY <1>1, <1>2, <1>3 DEF SetToSeq
<1>5. IsFiniteSet(1..n) /\ Cardinality(1..n) = n
  <2>1. 1 \in Int /\ n \in Int
    BY <1>1
  <2>2. IsFiniteSet(1..n) /\ Cardinality(1..n) = IF 1 > n THEN 0 ELSE n - 1 + 1
    BY <2>1, FS_Interval
  <2> QED BY <1>1, <2>2
<1>6. f \in Surjection(1..n, S)
  BY <1>1, <1>4, <1>5, FS_Injection DEF Injection
<1>7. f \in Seq(X) /\ DOMAIN f = 1..n
  BY <1>1, <1>4
<1>8. ToSet(f) = S
  BY <1>4, <1>6, <1>7 DEF ToSet, Surjection
<1> QED BY <1>2, <1>7, <1>8

\* What UnmarshalJSON rejects.
Repeated(list) == \E i, j \in DOMAIN list : i # j /\ list[i] = list[j]

\* UnmarshalJSON of a list of texts rejects what is there twice; the set that
\* it makes of any other list has all of it.
LEMMA Unmarshalled ==
  ASSUME NEW elems \in Seq(Text)
  PROVE  /\ UnmarshalJSON(elems) = IF Repeated(elems) THEN {} ELSE {SetOf(elems)}
         /\ Cardinality(ToSet(elems)) < Len(elems) <=> Repeated(elems)
         /\ Cardinality(ToSet(elems)) <= Len(elems)
         /\ Cardinality(ToSet(elems)) \in Nat
<1>1. SetCardinality(SetOf(elems)) = Cardinality(ToSet(elems))
  BY SetRoundTrip
<1>2. /\ Cardinality(ToSet(elems)) \in Nat
      /\ Cardinality(ToSet(elems)) <= Len(elems)
      /\ Cardinality(ToSet(elems)) < Len(elems) <=> Repeated(elems)
  BY ToSetFacts DEF Repeated
<1>3. UnmarshalJSON(elems) = IF Repeated(elems) THEN {} ELSE {SetOf(elems)}
  BY <1>1, <1>2 DEF UnmarshalJSON
<1> QED BY <1>2, <1>3

\* The two JSON packages agree.
LEMMA PackagesAgree ==
  ASSUME NEW elems \in Seq(Text)
  PROVE  UnmarshalJSON(elems) = UnmarshalJSONFrom(elems)
<1>1. PICK list : list = SetToSeq(ToSet(elems))
  OBVIOUS
<1>2. list \in Seq(Text) /\ ToSet(list) = ToSet(elems)
  BY <1>1, ToSetFacts, SetToSeqFacts
<1>3. SetOf(list) = SetOf(elems)
  BY <1>2, NothingBefore, SameSet
<1>4. UnmarshalJSONFrom(elems) = IF Repeated(elems) THEN {} ELSE {SetOf(elems)}
  BY <1>1, <1>3 DEF UnmarshalJSONFrom, Repeated
<1> QED BY <1>4, Unmarshalled

\* What comes out of an encoded list: its elements, as many, and in order.
LEMMA EncodedFaithfully ==
  ASSUME NEW elems \in Seq(Text), NEW set \in UnmarshalJSON(elems)
  PROVE  /\ set = SetOf(elems)
         /\ ToSet(ToSlice(set)) = ToSet(elems)
         /\ Len(ToSlice(set)) = Len(elems) /\ Len(ToSlice(set)) = SetCardinality(set)
         /\ \A k \in 2..Len(ToSlice(set)) :
              Before(ToSlice(set)[k - 1], ToSlice(set)[k])
<1>1. set = SetOf(elems) /\ Cardinality(ToSet(elems)) = Len(elems)
  <2>1. ~Repeated(elems) /\ set = SetOf(elems)
    BY Unmarshalled
  <2>2. /\ Cardinality(ToSet(elems)) <= Len(elems) /\ Cardinality(ToSet(elems)) \in Nat
        /\ ~(Cardinality(ToSet(elems)) < Len(elems))
    BY <2>1, Unmarshalled
  <2>3. Len(elems) \in Nat
    OBVIOUS
  <2> QED BY <2>1, <2>2, <2>3
<1>2. PICK slice : slice = ToSlice(set)
  OBVIOUS
<1>3. slice = Sorted(ToSet(elems)) /\ SetCardinality(set) = Cardinality(ToSet(elems))
  BY <1>1, <1>2, SetRoundTrip
<1>4. /\ slice \in Seq(Text) /\ Len(slice) = Cardinality(ToSet(elems))
      /\ ToSet(slice) = ToSet(elems)
      /\ \A i, j \in DOMAIN slice : i < j => Before(slice[i], slice[j])
  BY <1>3, ToSetFacts, SortedFacts
<1>5. ASSUME NEW k \in 2..Len(slice)  PROVE Before(slice[k - 1], slice[k])
  <2>1. DOMAIN slice = 1..Len(slice) /\ Len(slice) \in Nat
    BY <1>4
  <2>2. k - 1 \in DOMAIN slice /\ k \in DOMAIN slice /\ k - 1 < k
    BY <2>1
  <2> QED BY <1>4, <2>2
<1> QED BY <1>1, <1>2, <1>3, <1>4, <1>5

\* No other list of these elements is in order: what slices.Sort and
\* slices.Compact return is determined.
LEMMA SortedUnique ==
  ASSUME NEW list \in Seq(Text),
         \A i, j \in DOMAIN list : i < j => Before(list[i], list[j])
  PROVE  list = Sorted(ToSet(list))
<1>1. PICK S : S = ToSet(list)
  OBVIOUS
<1>2. S \subseteq Text /\ IsFiniteSet(S)
  BY <1>1, ToSetFacts
<1>3. PICK all : all = Sorted(S)
  OBVIOUS
<1>4. /\ all \in Seq(Text) /\ Len(all) = Cardinality(S) /\ ToSet(all) = S
      /\ \A i, j \in DOMAIN all : i < j => Before(all[i], all[j])
  BY <1>2, <1>3, SortedFacts
<1>5. PICK n : n = Len(list) /\ n \in Nat
  OBVIOUS
<1>6. DOMAIN list = 1..n /\ \A i \in 1..n : list[i] \in Text
  BY <1>5
<1>7. ~\E i, j \in DOMAIN list : i # j /\ list[i] = list[j]
  <2> SUFFICES ASSUME NEW i \in 1..n, NEW j \in 1..n, i # j  PROVE list[i] # list[j]
    BY <1>6
  <2>1. Before(list[i], list[j]) \/ Before(list[j], list[i])
    BY <1>5, <1>6
  <2> QED BY <1>6, <2>1, BeforeIrreflexive
<1>8. Len(all) = n /\ DOMAIN all = 1..n /\ \A i \in 1..n : all[i] \in Text
  <2>1. /\ Cardinality(S) \in Nat /\ Cardinality(S) <= n /\ ~(Cardinality(S) < n)
    BY <1>1, <1>5, <1>7, ToSetFacts
  <2>2. Len(all) = n
    BY <1>4, <1>5, <2>1
  <2> QED BY <1>4, <2>2
<1>9. \A i \in 1..n : list[i] = all[i]
  <2> SUFFICES ASSUME {i \in 1..n : list[i] # all[i]} # {} PROVE FALSE
    OBVIOUS
  <2>1. {i \in 1..n : list[i] # all[i]} \subseteq Nat
    BY <1>5
  <2>2. PICK i \in {m \in 1..n : list[m] # all[m]} :
          \A m \in {k \in 1..n : list[k] # all[k]} : i <= m
    BY <2>1, LeastNumber
  <2>3. i \in 1..n /\ list[i] # all[i] /\ \A m \in 1..n : m < i => list[m] = all[m]
    BY <1>5, <2>2
  <2>4. PICK j \in 1..n : list[i] = all[j]
    <3>1. list[i] \in ToSet(all)
      BY <1>1, <1>4, <1>6, <2>3 DEF ToSet
    <3> QED BY <1>8, <3>1 DEF ToSet
  <2>5. PICK k \in 1..n : all[i] = list[k]
    <3>1. all[i] \in ToSet(list)
      BY <1>1, <1>4, <1>8, <2>3 DEF ToSet
    <3> QED BY <1>6, <3>1 DEF ToSet
  <2>6. Before(all[i], all[j])
    <3>1. j # i
      BY <2>3, <2>4
    <3>2. ~(j < i)
      <4> SUFFICES ASSUME j < i PROVE FALSE
        OBVIOUS
      <4>1. list[j] = list[i] /\ j \in DOMAIN list /\ i \in DOMAIN list
        BY <1>6, <2>3, <2>4
      <4> QED BY <1>7, <3>1, <4>1
    <3>3. i < j
      BY <1>5, <2>3, <3>1, <3>2
    <3> QED BY <1>4, <1>8, <2>3, <3>3
  <2>7. Before(list[i], list[k])
    <3>1. k # i
      BY <2>3, <2>5
    <3>2. ~(k < i)
      <4> SUFFICES ASSUME k < i PROVE FALSE
        OBVIOUS
      <4>1. all[k] = all[i] /\ Before(all[k], all[i])
        BY <1>4, <1>8, <2>3, <2>5
      <4> QED BY <1>8, <2>3, <4>1, BeforeIrreflexive
    <3>3. i < k
      BY <1>5, <2>3, <3>1, <3>2
    <3> QED BY <1>6, <2>3, <3>3
  <2>8. Before(all[i], list[i]) /\ Before(list[i], all[i])
    BY <2>4, <2>5, <2>6, <2>7
  <2>9. all[i] \in Text /\ list[i] \in Text
    BY <1>6, <1>8, <2>3
  <2> QED BY <2>8, <2>9, BeforeTransitive, BeforeIrreflexive
<1>10. list = all
  <2>1. list = [i \in 1..n |-> list[i]] /\ all = [i \in 1..n |-> all[i]]
    BY <1>4, <1>5, <1>6, <1>8
  <2> QED BY <1>9, <2>1
<1> QED BY <1>1, <1>3, <1>10

\* == of two sets compares what they contain (stringkeyed/set.go).
THEOREM EqualityOfSets ==
  ASSUME NEW s \in Seq(Text), NEW t \in Seq(Text)
  PROVE  SetOf(s) = SetOf(t) <=> ToSet(s) = ToSet(t)
<1>1. ToSet(s) = ToSet(t) => SetOf(s) = SetOf(t)
  BY NothingBefore, SameSet
<1>2. /\ ToSet(ToSlice(SetOf(s))) = ToSet(s)
      /\ ToSet(ToSlice(SetOf(t))) = ToSet(t)
  BY SetRoundTrip, ToSetFacts, SortedFacts
<1> QED BY <1>1, <1>2

\* To add elements to a set is to make the set of all elements.
THEOREM AddUnites ==
  ASSUME NEW s \in Seq(Text), NEW t \in Seq(Text)
  PROVE  Add(SetOf(s), t) = SetOf(s \o t)
<1>1. PICK all : all = ToSlice(SetOf(s))
  OBVIOUS
<1>2. all \in Seq(Text) /\ ToSet(all) = ToSet(s)
  BY <1>1, SetRoundTrip, ToSetFacts, SortedFacts
<1>3. ToSet(all \o t) = ToSet(s \o t)
  <2>1. \A u : ToSet(u) = Range(u)
    BY DEF ToSet, Range
  <2>2. Range(all \o t) = Range(all) \cup Range(t) /\ Range(s \o t) = Range(s) \cup Range(t)
    BY <1>2, RangeConcatenation
  <2> QED BY <1>2, <2>1, <2>2
<1>4. ToSlice(<<>>) \o (s \o t) = s \o t
  <2>1. s \o t \in Seq(Text)
    OBVIOUS
  <2> QED BY <2>1, NothingBefore
<1> QED BY <1>1, <1>3, <1>4 DEF SetOf, Add

\* Nothing is encoded as the empty string.
LEMMA EmptySetIsEmpty == SetOf(<<>>) = <<>>
<1>1. <<>> \in Seq(Text) /\ ToSet(<<>>) = {}
  BY DEF ToSet
<1>2. PICK all : all = Sorted({})
  OBVIOUS
<1>3. all \in Seq(Text) /\ Len(all) = 0
  <2>1. {} \subseteq Text /\ IsFiniteSet({}) /\ Cardinality({}) = 0
    BY FS_EmptySet
  <2> QED BY <1>2, <2>1, SortedFacts
<1>4. all = <<>>
  BY <1>3
<1>5. [i \in DOMAIN all |-> Encode(all[i])] = <<>>
  BY <1>4
<1>6. Join(<<>>) = <<>>
  <2>1. Join(<<>>) = JoinFirst(<<>>)[0]
    BY DEF Join, JoinFirst
  <2> QED BY <1>1, <2>1, JoinFirstDef
<1>7. ToSet(ToSlice(<<>>) \o <<>>) = {}
  BY <1>1, NothingBefore
<1>8. all # << <<>> >>
  BY <1>4
<1>9. Add(<<>>, <<>>) = Join([i \in DOMAIN all |-> Encode(all[i])])
  BY <1>2, <1>7, <1>8 DEF Add
<1> QED BY <1>5, <1>6, <1>9 DEF SetOf

-----------------------------------------------------------------------------
(***************************************************************************)
(* The loops of coalesceRequests.                                          *)
(***************************************************************************)

\* The specs that the inputs have.
RawSpecs == UNION {UNION {ToSet(specArray) : specArray \in ToSet(in)} : in \in Inputs}
Specs    == UNION {UnmarshalSpec(raw) : raw \in RawSpecs}

TypeOK ==
  /\ input \in Seq(Seq(RawSpecs))
  /\ specs \in Seq(Specs)
  /\ checked \in 0..Len(specs)
  /\ merged \in 0..Len(specs)
  /\ errs \in BOOLEAN
  /\ coalesced \in Seq(Specs)
  /\ outcome \in {"reading", "coalescing", "invalid", "rejected", "accepted"}

\* The loops run one after the other, when all specs are read.
Stages ==
  /\ outcome \in {"reading", "invalid"} => checked = 0
  /\ merged > 0 => checked = Len(specs)
  /\ outcome \in {"rejected", "accepted"} =>
       /\ merged = Len(specs) /\ checked = Len(specs)
       /\ errs <=> outcome = "rejected"

\* The destinations of the specs of a list that have the numbers in N.
Dsts(list, N) == {list[i].dst : i \in N}

\* The second loop: each destination seen is in the map, with one of its specs,
\* and once in the result.
Merging ==
  /\ DOMAIN requestsByDst = Dsts(specs, 1..merged)
  /\ \A d \in DOMAIN requestsByDst :
       \E i \in 1..merged : requestsByDst[d] = specs[i] /\ specs[i].dst = d
  /\ DOMAIN requestsByDst = Dsts(coalesced, DOMAIN coalesced)
  /\ \A i, j \in DOMAIN coalesced : coalesced[i].dst = coalesced[j].dst => i = j

\* What the first loop, and what the second loop, finds wrong with a spec.
Wrong(i) ==
  \/ specs[i].dst \in srcs
  \/ specs[i].dst.digest # "" /\ specs[i].dst.digest # specs[i].src.digest
  \/ specs[i].dst.digest # "" /\ specs[i].limit # <<>>

Clashes(i) == Different(requestsByDst[specs[i].dst], specs[i])

Judging ==
  errs <=> \/ \E i \in 1..checked : Wrong(i)
           \/ \E i \in 1..merged : Clashes(i)

IInv == TypeOK /\ Stages /\ Merging /\ Judging

-----------------------------------------------------------------------------
LEMMA InitIInv == Init => IInv
<1> SUFFICES ASSUME Init PROVE IInv
  OBVIOUS
<1>1. input \in Seq(Seq(RawSpecs))
  <2>1. input \in Inputs /\ input \in Seq(Seq(RawSpec))
    BY RequestsAssumption DEF Init
  <2>2. ASSUME NEW n \in 1..Len(input)  PROVE input[n] \in Seq(RawSpecs)
    <3>1. input[n] \in Seq(RawSpec)
      BY <2>1, <2>2
    <3>2. \A i \in 1..Len(input[n]) : input[n][i] \in RawSpecs
      <4>1. input[n] \in ToSet(input)
        BY <2>1, <2>2 DEF ToSet
      <4>2. \A i \in 1..Len(input[n]) : input[n][i] \in ToSet(input[n])
        BY <3>1 DEF ToSet
      <4> QED  BY <2>1, <4>1, <4>2 DEF RawSpecs
    <3> QED  BY <3>1, <3>2
  <2> QED  BY <2>1, <2>2
<1>2. /\ specs = <<>> /\ checked = 0 /\ merged = 0 /\ errs = FALSE
      /\ coalesced = <<>> /\ requestsByDst = <<>> /\ outcome = "reading"
  BY DEF Init
<1>3. TypeOK
  <2>1. specs \in Seq(Specs) /\ coalesced \in Seq(Specs) /\ Len(specs) = 0
    BY <1>2
  <2>2. errs \in BOOLEAN
    BY <1>2, Zenon
  <2> QED  BY <1>1, <1>2, <2>1, <2>2 DEF TypeOK
<1>4. Stages /\ Judging
  BY <1>2 DEF Stages, Judging
<1>5. Merging
  BY <1>2 DEF Merging, Dsts
<1> QED  BY <1>3, <1>4, <1>5 DEF IInv

\* Specs that are read are read into specs that the inputs have.
LEMMA ReadStep == IInv /\ ReadSpecs => IInv'
<1> SUFFICES ASSUME IInv, ReadSpecs PROVE IInv'
  OBVIOUS
<1>1. /\ outcome = "reading" /\ input # <<>> /\ input' = Tail(input)
      /\ UNCHANGED <<checked, merged, errs, coalesced, requestsByDst>>
      /\ input \in Seq(Seq(RawSpecs)) /\ specs \in Seq(Specs)
      /\ checked = 0 /\ merged = 0
  BY DEF ReadSpecs, IInv, TypeOK, Stages
<1>2. input' \in Seq(Seq(RawSpecs)) /\ Head(input) \in Seq(RawSpecs)
  BY <1>1
<1>3. specs' \in Seq(Specs) /\ outcome' \in {"reading", "invalid"}
  <2>1. CASE \E i \in DOMAIN Head(input) : UnmarshalSpec(Head(input)[i]) = {}
    BY <1>1, <2>1 DEF ReadSpecs
  <2>2. CASE ~\E i \in DOMAIN Head(input) : UnmarshalSpec(Head(input)[i]) = {}
    <3> DEFINE read == [i \in DOMAIN Head(input) |->
                          CHOOSE s \in UnmarshalSpec(Head(input)[i]) : TRUE]
    <3>1. specs' = specs \o read /\ outcome' = "reading"
      BY <1>1, <2>2 DEF ReadSpecs
    <3>2. ASSUME NEW i \in DOMAIN Head(input)  PROVE read[i] \in Specs
      <4>1. read[i] \in UnmarshalSpec(Head(input)[i])
        BY <2>2, <3>2
      <4>2. Head(input)[i] \in RawSpecs
        BY <1>2, <3>2
      <4> QED  BY <4>1, <4>2 DEF Specs
    <3>3. DOMAIN Head(input) = 1..Len(Head(input)) /\ Len(Head(input)) \in Nat
      BY <1>2
    <3>4. read \in Seq(Specs)
      <4>1. DOMAIN read = 1..Len(Head(input)) /\ read = [i \in DOMAIN read |-> read[i]]
        BY <3>3
      <4>2. \A i \in DOMAIN read : read[i] \in Specs
        BY <3>2
      <4> HIDE DEF read
      <4> QED  BY <3>3, <4>1, <4>2
    <3> QED  BY <1>1, <3>1, <3>4
  <2> QED  BY <2>1, <2>2
<1>4. TypeOK'
  BY <1>1, <1>2, <1>3 DEF IInv, TypeOK
<1>5. Stages'
  BY <1>1, <1>3 DEF Stages
<1>6. Merging'
  <2>1. 1..merged = {} /\ 1..merged' = {}
    BY <1>1
  <2>2. DOMAIN requestsByDst = {}
    BY <2>1 DEF IInv, Merging, Dsts
  <2>3. Dsts(specs', {}) = {}
    BY DEF Dsts
  <2> QED  BY <1>1, <2>1, <2>2, <2>3 DEF IInv, Merging
<1>7. Judging'
  <2>1. 1..checked = {} /\ 1..merged = {}
    BY <1>1
  <2>2. ~errs
    BY <2>1 DEF IInv, Judging
  <2> QED  BY <1>1, <2>1, <2>2 DEF Judging
<1> QED  BY <1>4, <1>5, <1>6, <1>7 DEF IInv

LEMMA CheckStep == IInv /\ CheckSpec => IInv'
<1> SUFFICES ASSUME IInv, CheckSpec PROVE IInv'
  OBVIOUS
<1> DEFINE n == checked + 1
<1>1. /\ outcome = "coalescing" /\ checked < Len(specs) /\ checked' = n
      /\ UNCHANGED <<input, specs, merged, coalesced, requestsByDst, outcome>>
  BY DEF CheckSpec
<1>t. checked \in 0..Len(specs) /\ Len(specs) \in Nat
  BY DEF IInv, TypeOK
<1>e. errs' \in BOOLEAN /\ (errs' <=> errs \/ Wrong(n))
  <2>1. errs' = (errs \/ Wrong(n))
    BY DEF CheckSpec, Wrong
  <2> QED  BY <2>1
<1>2. TypeOK'
  BY <1>1, <1>e, <1>t DEF IInv, TypeOK
<1>3. Stages'
  BY <1>1 DEF IInv, TypeOK, Stages
<1>4. Merging'
  BY <1>1 DEF IInv, Merging
<1>5. Judging'
  <2>1. \A i : (Wrong(i)' <=> Wrong(i)) /\ (Clashes(i)' <=> Clashes(i))
    BY <1>1 DEF Wrong, Clashes, srcs, Different
  <2>2. 1..checked' = 1..checked \cup {n}
    BY <1>1, <1>t
  <2>3. errs <=> \/ \E i \in 1..checked : Wrong(i)
                 \/ \E i \in 1..merged : Clashes(i)
    BY DEF IInv, Judging
  <2> QED  BY <1>1, <1>e, <2>1, <2>2, <2>3 DEF Judging
<1> QED  BY <1>2, <1>3, <1>4, <1>5 DEF IInv

LEMMA MergeStep == IInv /\ MergeSpec => IInv'
<1> SUFFICES ASSUME IInv, MergeSpec PROVE IInv'
  OBVIOUS
<1>0. PICK n : n = merged + 1
  OBVIOUS
<1> DEFINE current == specs[n]
           seen    == DOMAIN requestsByDst
<1>1. /\ outcome = "coalescing" /\ checked = Len(specs) /\ merged < Len(specs)
      /\ merged' = n
      /\ coalesced' = AppendNew(current)
      /\ requestsByDst' = [d \in seen \cup {current.dst} |->
                            IF d \in seen THEN requestsByDst[d] ELSE current]
      /\ UNCHANGED <<input, specs, checked, outcome>>
  BY <1>0 DEF MergeSpec
<1>e. /\ errs' \in BOOLEAN
      /\ errs' <=> \/ errs
                   \/ /\ current.dst \in seen
                      /\ Different(requestsByDst[current.dst], current)
  <2>1. errs' = (\/ errs
                 \/ /\ current.dst \in seen
                    /\ Different(requestsByDst[current.dst], current))
    BY <1>0 DEF MergeSpec
  <2> QED  BY <2>1
<1>2. /\ specs \in Seq(Specs) /\ coalesced \in Seq(Specs)
      /\ merged \in 0..Len(specs) /\ Len(specs) \in Nat
      /\ n \in 1..Len(specs) /\ current \in Specs
      /\ 1..n = 1..merged \cup {n}
  BY <1>0, <1>1 DEF IInv, TypeOK
<1>3. /\ seen = Dsts(specs, 1..merged)
      /\ \A d \in seen :
           \E i \in 1..merged : requestsByDst[d] = specs[i] /\ specs[i].dst = d
      /\ seen = Dsts(coalesced, DOMAIN coalesced)
      /\ \A i, j \in DOMAIN coalesced : coalesced[i].dst = coalesced[j].dst => i = j
  BY DEF IInv, Merging
<1> HIDE DEF current, seen
<1>4. /\ DOMAIN requestsByDst' = seen \cup {current.dst}
      /\ \A d \in seen : requestsByDst'[d] = requestsByDst[d]
      /\ current.dst \notin seen => requestsByDst'[current.dst] = current
  BY <1>1
<1>5. /\ coalesced' \in Seq(Specs)
      /\ Dsts(coalesced', DOMAIN coalesced') = seen \cup {current.dst}
      /\ \A i, j \in DOMAIN coalesced' : coalesced'[i].dst = coalesced'[j].dst => i = j
  <2>1. CASE current.dst \in seen
    BY <1>1, <1>2, <1>3, <2>1 DEF AppendNew, seen
  <2>2. CASE current.dst \notin seen
    <3> DEFINE m == Len(coalesced)
    <3>1. coalesced' = Append(coalesced, current)
      BY <1>1, <2>2 DEF AppendNew, seen
    <3>2. /\ m \in Nat /\ DOMAIN coalesced = 1..m
          /\ coalesced' \in Seq(Specs)
          /\ DOMAIN coalesced' = 1..m \cup {m + 1}
          /\ \A i \in 1..m : coalesced'[i] = coalesced[i]
          /\ coalesced'[m + 1] = current
      BY <1>2, <3>1
    <3> HIDE DEF m
    <3>3. \A i \in 1..m : coalesced[i].dst \in seen
      BY <1>3, <3>2 DEF Dsts
    <3>4. \A d \in seen : \E i \in 1..m : coalesced[i].dst = d
      BY <1>3, <3>2 DEF Dsts
    <3>5. Dsts(coalesced', DOMAIN coalesced') = seen \cup {current.dst}
      BY <3>2, <3>3, <3>4 DEF Dsts
    <3>6. \A i, j \in DOMAIN coalesced' : coalesced'[i].dst = coalesced'[j].dst => i = j
      BY <1>3, <2>2, <3>2, <3>3
    <3> QED  BY <3>2, <3>5, <3>6
  <2> QED  BY <2>1, <2>2
<1>6. TypeOK'
  BY <1>1, <1>2, <1>5, <1>e DEF IInv, TypeOK
<1>7. Stages'
  BY <1>1, <1>2 DEF Stages
<1>8. Merging'
  <2>1. seen \cup {current.dst} = Dsts(specs, 1..n)
    BY <1>2, <1>3 DEF current, Dsts
  <2>2. ASSUME NEW d \in seen \cup {current.dst}
        PROVE  \E i \in 1..n : requestsByDst'[d] = specs[i] /\ specs[i].dst = d
    <3>1. CASE d \in seen
      <4>1. PICK i \in 1..merged : requestsByDst[d] = specs[i] /\ specs[i].dst = d
        BY <1>3, <3>1
      <4>2. i \in 1..n
        BY <1>2
      <4> QED  BY <1>4, <3>1, <4>1, <4>2
    <3>2. CASE d \notin seen
      <4>1. n \in 1..n /\ requestsByDst'[d] = specs[n] /\ specs[n].dst = d
        BY <1>2, <1>4, <2>2, <3>2 DEF current
      <4> QED  BY <4>1
    <3> QED  BY <3>1, <3>2
  <2> QED  BY <1>1, <1>4, <1>5, <2>1, <2>2 DEF Merging
<1>9. Judging'
  <2>1. \A i : Wrong(i)' <=> Wrong(i)
    BY <1>1 DEF Wrong, srcs
  <2>2. \A i \in 1..merged : Clashes(i)' <=> Clashes(i)
    <3> SUFFICES ASSUME NEW i \in 1..merged  PROVE Clashes(i)' <=> Clashes(i)
      OBVIOUS
    <3>1. specs[i].dst \in seen
      BY <1>3 DEF Dsts
    <3>2. specs'[i] = specs[i] /\ requestsByDst'[specs[i].dst] = requestsByDst[specs[i].dst]
      BY <1>1, <1>4, <3>1
    <3> QED  BY <3>2 DEF Clashes, Different
  <2>3. Clashes(n)' <=> /\ current.dst \in seen
                        /\ Different(requestsByDst[current.dst], current)
    <3>1. specs'[n] = current
      BY <1>1 DEF current
    <3>2. Clashes(n)' <=> requestsByDst'[current.dst] # current
      BY <3>1 DEF Clashes, Different
    <3> QED  BY <1>4, <3>2 DEF Different
  <2>4. errs <=> \/ \E i \in 1..checked : Wrong(i)
                 \/ \E i \in 1..merged : Clashes(i)
    BY DEF IInv, Judging
  <2>5. errs' <=> errs \/ Clashes(n)'
    BY <1>e, <2>3
  <2>6. (\E i \in 1..merged' : Clashes(i)')
          <=> (\E i \in 1..merged : Clashes(i)) \/ Clashes(n)'
    <3>1. 1..merged' = 1..merged \cup {n}
      BY <1>1, <1>2
    <3> QED  BY <2>2, <3>1
  <2> QED  BY <1>1, <2>1, <2>4, <2>5, <2>6 DEF Judging
<1> QED  BY <1>6, <1>7, <1>8, <1>9 DEF IInv

LEMMA NextIInv == IInv /\ [Next]_vars => IInv'
<1> SUFFICES ASSUME IInv, [Next]_vars PROVE IInv'
  OBVIOUS
<1>1. ASSUME UNCHANGED <<specs, checked, merged, errs, coalesced, requestsByDst>>,
             input' = input,
             \/ outcome' = outcome
             \/ outcome = "reading" /\ outcome' = "coalescing"
             \/ Return
      PROVE  IInv'
  <2>1. \A i : (Wrong(i)' <=> Wrong(i)) /\ (Clashes(i)' <=> Clashes(i))
    BY <1>1 DEF Wrong, Clashes, srcs, Different
  <2>2. TypeOK'
    BY <1>1 DEF IInv, TypeOK, Return
  <2>3. Stages'
    BY <1>1 DEF IInv, TypeOK, Stages, Return
  <2>4. Merging'
    BY <1>1 DEF IInv, Merging
  <2>5. Judging'
    BY <1>1, <2>1 DEF IInv, Judging
  <2> QED  BY <2>2, <2>3, <2>4, <2>5 DEF IInv
<1> QED
  BY <1>1, ReadStep, CheckStep, MergeStep
     DEF Next, EndOfInput, Return, Done, vars

LEMMA Invariance == Spec => []IInv
BY InitIInv, NextIInv, PTL DEF Spec

\* coalesceRequests hands each destination to the copier once, and loses none
\* (spec.go): the keys of the copier's map are specs, so that a second spec of
\* a destination would be a second handler that writes to it.
THEOREM DestinationsOnce == Spec => []EachDestinationOnce
<1>1. IInv => EachDestinationOnce
  <2> SUFFICES ASSUME IInv, outcome = "accepted"
               PROVE  /\ \A i, j \in DOMAIN coalesced :
                           coalesced[i].dst = coalesced[j].dst => i = j
                      /\ {s.dst : s \in ToSet(coalesced)} = {s.dst : s \in ToSet(specs)}
    BY DEF EachDestinationOnce
  <2>1. merged = Len(specs) /\ DOMAIN specs = 1..Len(specs)
    BY DEF IInv, TypeOK, Stages
  <2>2. {s.dst : s \in ToSet(specs)} = Dsts(specs, 1..merged)
    BY <2>1 DEF ToSet, Dsts
  <2>3. {s.dst : s \in ToSet(coalesced)} = Dsts(coalesced, DOMAIN coalesced)
    BY DEF ToSet, Dsts
  <2> QED  BY <2>2, <2>3 DEF IInv, Merging
<1> QED  BY <1>1, Invariance, PTL

\* What is read is a raw spec, whose platforms are texts.
LEMMA RawSpecsAreRaw ==
  ASSUME NEW raw \in RawSpecs
  PROVE  raw \in RawSpec /\ raw.limit \in Seq(Text)
<1>1. PICK in \in Inputs : \E n \in DOMAIN in : raw \in ToSet(in[n])
  BY DEF RawSpecs, ToSet
<1>2. PICK n \in DOMAIN in : raw \in ToSet(in[n])
  BY <1>1
<1>3. in \in Seq(Seq(RawSpec))
  BY RequestsAssumption
<1>4. in[n] \in Seq(RawSpec)
  BY <1>3
<1>5. raw \in RawSpec
  BY <1>2, <1>4 DEF ToSet
<1>6. raw.limit \in Seq(Text)
  <2>1. raw.limit \in Seq(Seq(Byte))
    BY <1>5 DEF RawSpec
  <2>2. Seq(Byte) \subseteq Text
    <3>1. Byte \subseteq Nat
      BY DEF Byte
    <3>2. ASSUME NEW t \in Seq(Byte)  PROVE t \in Seq(Nat)
      <4>1. ASSUME NEW j \in 1..Len(t)  PROVE t[j] \in Nat
        <5>1. t[j] \in Byte
          BY <3>2
        <5> QED BY <3>1, <5>1
      <4>2. Len(t) \in Nat /\ t = [j \in 1..Len(t) |-> t[j]]
        OBVIOUS
      <4> QED BY <4>1, <4>2
    <3> QED BY <3>2 DEF Text
  <2> QED BY <2>1, <2>2
<1> QED BY <1>5, <1>6

\* The strings that the JSON has make sets that are true to them, and both
\* JSON packages make the same (stringkeyed/set.go, set_jsonv2.go).
THEOREM SetsAreFaithful == Spec => []SetsFaithful
<1>1. IInv => SetsFaithful
  <2> SUFFICES ASSUME IInv, NEW n \in DOMAIN input, NEW i \in DOMAIN input[n]
      PROVE  LET elems == input[n][i].limit
             IN  /\ UnmarshalJSON(elems) = UnmarshalJSONFrom(elems)
                 /\ UnmarshalJSON(elems) = {} <=> Cardinality(ToSet(elems)) < Len(elems)
                 /\ \A set \in UnmarshalJSON(elems) :
                      LET slice == ToSlice(set)
                      IN  /\ ToSet(slice) = ToSet(elems)
                          /\ Len(slice) = Len(elems) /\ Len(slice) = SetCardinality(set)
                          /\ \A k \in 2..Len(slice) : Before(slice[k - 1], slice[k])
    BY DEF SetsFaithful
  <2>1. PICK elems : elems = input[n][i].limit
    OBVIOUS
  <2>2. elems \in Seq(Text)
    <3>1. input \in Seq(Seq(RawSpecs))
      BY DEF IInv, TypeOK
    <3>2. input[n] \in Seq(RawSpecs)
      BY <3>1
    <3>3. input[n][i] \in RawSpecs
      BY <3>2
    <3> QED BY <2>1, <3>3, RawSpecsAreRaw
  <2>3. UnmarshalJSON(elems) = UnmarshalJSONFrom(elems)
    BY <2>2, PackagesAgree
  <2>4. UnmarshalJSON(elems) = {} <=> Cardinality(ToSet(elems)) < Len(elems)
    <3>1. {SetOf(elems)} # {}
      OBVIOUS
    <3> QED BY <2>2, <3>1, Unmarshalled
  <2>5. ASSUME NEW set \in UnmarshalJSON(elems)
        PROVE  /\ ToSet(ToSlice(set)) = ToSet(elems)
               /\ Len(ToSlice(set)) = Len(elems)
               /\ Len(ToSlice(set)) = SetCardinality(set)
               /\ \A k \in 2..Len(ToSlice(set)) :
                    Before(ToSlice(set)[k - 1], ToSlice(set)[k])
    BY <2>2, <2>5, EncodedFaithfully
  <2> QED BY <2>1, <2>3, <2>4, <2>5
<1> QED BY <1>1, Invariance, PTL

-----------------------------------------------------------------------------
(***************************************************************************)
(* Validity.                                                               *)
(***************************************************************************)
LEMMA SpecFields ==
  ASSUME NEW s \in Specs
  PROVE  /\ \E raw \in RawSpecs : s.src = Parse(raw.src) /\ s.dst = Parse(raw.dst)
         /\ s = [src |-> s.src, dst |-> s.dst, limit |-> s.limit]
BY DEF Specs, UnmarshalSpec

\* Without an error, any two specs meet the requirements.
LEMMA AcceptedValid == IInv /\ outcome = "accepted" => Valid
<1> SUFFICES ASSUME IInv, outcome = "accepted", NEW i \in DOMAIN specs, NEW j \in DOMAIN specs
             PROVE  /\ specs[i].src # specs[j].dst
                    /\ specs[i].dst = specs[j].dst => Equivalent(specs[i], specs[j])
                    /\ specs[i].dst.digest # "" =>
                         /\ specs[i].src.digest = specs[i].dst.digest
                         /\ Platforms(specs[i]) = {}
  BY DEF Valid
<1>1. /\ ~errs /\ merged = Len(specs) /\ checked = Len(specs)
      /\ DOMAIN specs = 1..Len(specs)
  BY DEF IInv, TypeOK, Stages
<1>2. ~Wrong(i) /\ ~Wrong(j) /\ ~Clashes(i) /\ ~Clashes(j)
  BY <1>1 DEF IInv, Judging
<1>3. specs[i].src # specs[j].dst
  BY <1>2 DEF Wrong, srcs
<1>4. specs[i].dst = specs[j].dst => Equivalent(specs[i], specs[j])
  BY <1>2 DEF Clashes, Different, Equivalent
<1>5. specs[i].dst.digest # "" =>
        specs[i].src.digest = specs[i].dst.digest /\ Platforms(specs[i]) = {}
  <2>1. ASSUME specs[i].limit = <<>>  PROVE Platforms(specs[i]) = {}
    <3>1. ToSlice(specs[i].limit) = <<>>
      BY <2>1 DEF ToSlice
    <3> QED  BY <3>1 DEF Platforms, ToSet
  <2> QED  BY <1>2, <2>1 DEF Wrong
<1> QED  BY <1>3, <1>4, <1>5

\* The encoded sets of platforms are equal if the sets are, so that == of specs
\* (spec.go) compares the platforms as sets.
OneEncoding ==
  \A s, t \in Specs :
    /\ Platforms(s) = Platforms(t) => s.limit = t.limit
    /\ Platforms(s) = {} => s.limit = <<>>

LEMMA PlatformsEncodedAlike == OneEncoding
<1>1. ASSUME NEW s \in Specs  PROVE \E list \in Seq(Text) : s.limit = SetOf(list)
  <2>1. PICK raw \in RawSpecs : s.limit \in UnmarshalPlatforms(raw.limit)
    BY DEF Specs, UnmarshalSpec
  <2>2. raw.limit \in Seq(Text)
    BY RawSpecsAreRaw
  <2>3. s.limit \in UnmarshalJSON(raw.limit)
    BY <2>1 DEF UnmarshalPlatforms
  <2> QED BY <2>2, <2>3, EncodedFaithfully
<1>2. ASSUME NEW list \in Seq(Text)  PROVE ToSet(ToSlice(SetOf(list))) = ToSet(list)
  BY <1>2, SetRoundTrip, ToSetFacts, SortedFacts
<1> SUFFICES ASSUME NEW s \in Specs, NEW t \in Specs
    PROVE  /\ Platforms(s) = Platforms(t) => s.limit = t.limit
           /\ Platforms(s) = {} => s.limit = <<>>
  BY DEF OneEncoding
<1>3. PICK list \in Seq(Text) : s.limit = SetOf(list)
  BY <1>1
<1>4. PICK other \in Seq(Text) : t.limit = SetOf(other)
  BY <1>1
<1>5. Platforms(s) = ToSet(list) /\ Platforms(t) = ToSet(other)
  BY <1>2, <1>3, <1>4 DEF Platforms
<1>6. Platforms(s) = Platforms(t) => s.limit = t.limit
  BY <1>3, <1>4, <1>5, EqualityOfSets
<1>7. ASSUME Platforms(s) = {}  PROVE s.limit = <<>>
  <2>1. <<>> \in Seq(Text)
    OBVIOUS
  <2>2. ToSet(<<>>) = {}
    BY DEF ToSet
  <2>3. ToSet(<<>>) = ToSet(list)
    BY <1>5, <1>7, <2>2
  <2>4. SetOf(<<>>) = SetOf(list)
    BY <2>1, <2>3, EqualityOfSets
  <2> QED BY <1>3, <2>4, EmptySetIsEmpty
<1> QED BY <1>6, <1>7

\* An error comes from a spec that does not meet them.
LEMMA RejectedInvalid ==
  ASSUME IInv, outcome = "rejected"
  PROVE  ~Valid
<1>1. /\ errs /\ merged = Len(specs) /\ checked = Len(specs)
      /\ DOMAIN specs = 1..Len(specs)
      /\ \A i \in DOMAIN specs : specs[i] \in Specs
  BY DEF IInv, TypeOK, Stages
<1>2. ASSUME NEW i \in DOMAIN specs, Wrong(i)  PROVE ~Valid
  <2>1. CASE specs[i].dst \in srcs
    BY <1>2, <2>1 DEF srcs, Valid
  <2>2. CASE specs[i].dst.digest # "" /\ specs[i].dst.digest # specs[i].src.digest
    BY <1>2, <2>2 DEF Valid
  <2>3. CASE specs[i].dst.digest # "" /\ specs[i].limit # <<>>
    <3>1. Platforms(specs[i]) # {}
      BY <1>1, <2>3, PlatformsEncodedAlike DEF OneEncoding
    <3> QED  BY <1>2, <2>3, <3>1 DEF Valid
  <2> QED  BY <1>2, <2>1, <2>2, <2>3 DEF Wrong
<1>3. ASSUME NEW i \in DOMAIN specs, Clashes(i)  PROVE ~Valid
  <2>1. specs[i].dst \in DOMAIN requestsByDst
    BY <1>1, <1>3 DEF IInv, Merging, Dsts
  <2>2. PICK j \in DOMAIN specs :
          requestsByDst[specs[i].dst] = specs[j] /\ specs[j].dst = specs[i].dst
    BY <1>1, <2>1 DEF IInv, Merging
  <2>3. specs[i] # specs[j] /\ specs[i] \in Specs /\ specs[j] \in Specs
    BY <1>1, <1>3, <2>2 DEF Clashes, Different
  <2>4. ~Equivalent(specs[i], specs[j])
    <3> SUFFICES ASSUME Equivalent(specs[i], specs[j])  PROVE specs[i] = specs[j]
      BY <2>3
    <3>1. /\ specs[i].src = specs[j].src /\ specs[i].dst = specs[j].dst
          /\ specs[i].limit = specs[j].limit
      BY <2>3, PlatformsEncodedAlike DEF Equivalent, OneEncoding
    <3> QED  BY <2>3, <3>1, SpecFields
  <2> QED  BY <2>2, <2>4 DEF Valid
<1> QED  BY <1>1, <1>2, <1>3 DEF IInv, Judging

\* The inputs that meet the requirements of the README are accepted, and only
\* they are: the comparison with ==, through the encoded sets (spec.go), is the
\* one that the README means.
THEOREM AcceptanceIsExact == Spec => []AcceptsExactlyValid
<1>1. IInv => AcceptsExactlyValid
  BY AcceptedValid, RejectedInvalid DEF AcceptsExactlyValid
<1> QED  BY <1>1, Invariance, PTL

-----------------------------------------------------------------------------
(***************************************************************************)
(* References.                                                             *)
(***************************************************************************)
LEMMA Prefixed ==
  ASSUME NEW S, NEW x \in S, NEW s \in Seq(S)
  PROVE  /\ <<x>> \o s \in Seq(S)
         /\ Len(<<x>> \o s) = 1 + Len(s)
         /\ Len(s) \in Nat
         /\ (<<x>> \o s)[1] = x
         /\ Tail(<<x>> \o s) = s
<1> DEFINE p == <<x>> \o s
<1>1. <<x>> \in Seq(S)
  OBVIOUS
<1>2. /\ p \in Seq(S) /\ Len(s) \in Nat
      /\ Len(p) = 1 + Len(s)
      /\ p[1] = x
      /\ \A i \in 1..Len(s) : p[i + 1] = s[i]
  BY <1>1
<1> HIDE DEF p
<1>3. /\ Tail(p) \in Seq(S)
      /\ Len(Tail(p)) = Len(s)
      /\ \A i \in 1..Len(s) : Tail(p)[i] = s[i]
  BY <1>2
<1>4. Tail(p) = s
  BY <1>3
<1> QED  BY <1>2, <1>4 DEF p

LEMMA TailOfLonger ==
  ASSUME NEW S, NEW s \in Seq(S), s # <<>>
  PROVE  /\ Len(s) \in Nat \ {0}
         /\ Len(s) > 1 => Tail(s) \in Seq(S) /\ Len(Tail(s)) \in Nat \ {0}
<1>1. Len(s) \in Nat \ {0}
  OBVIOUS
<1>2. Tail(s) \in Seq(S) /\ Len(Tail(s)) = Len(s) - 1
  OBVIOUS
<1> QED  BY <1>1, <1>2

\* Parse makes explicit what a reference leaves out, so that what String
\* prints of an image has nothing left to make explicit.
LEMMA ParseOfString ==
  ASSUME NEW ref \in Reference
  PROVE  Parse(ImageString(Parse(ref))) = Parse(ref)
<1> DEFINE Word      == STRING \cup {"library"}
           named     == Len(ref.path) > 1 /\ ref.path[1] \in RegistryNames
           registry  == IF named THEN ref.path[1] ELSE defaultRegistry
           rest      == IF named THEN Tail(ref.path) ELSE ref.path
           namespace == IF registry = defaultRegistry /\ Len(rest) = 1
                          THEN <<"library">> \o rest ELSE rest
           tag       == IF ref.tag = "" /\ ref.digest = "" THEN "latest" ELSE ref.tag
           path      == <<registry>> \o namespace
<1>1. Parse(ref) = [registry |-> registry, namespace |-> namespace,
                    tag |-> tag, digest |-> ref.digest]
  BY DEF Parse
<1>2. ref.path \in Seq(Word) /\ ref.path # <<>>
  BY DEF Reference
<1>3. registry \in RegistryNames /\ registry \in Word
  BY RequestsAssumption
<1>word. "library" \in Word
  OBVIOUS
<1> HIDE DEF Word
<1>4. rest \in Seq(Word) /\ Len(rest) \in Nat \ {0}
  BY <1>2, TailOfLonger
<1> HIDE DEF rest, registry
<1>5. /\ namespace \in Seq(Word) /\ Len(namespace) \in Nat \ {0}
      /\ ~(registry = defaultRegistry /\ Len(namespace) = 1)
  <2>1. CASE registry = defaultRegistry /\ Len(rest) = 1
    <3>2. /\ <<"library">> \o rest \in Seq(Word)
          /\ Len(<<"library">> \o rest) = 1 + Len(rest)
      BY <1>4, <1>word, Prefixed
    <3> QED  BY <2>1, <3>2
  <2>2. CASE ~(registry = defaultRegistry /\ Len(rest) = 1)
    BY <1>4, <2>2
  <2> QED  BY <2>1, <2>2
<1> HIDE DEF namespace
<1>6. Len(path) > 1 /\ path[1] = registry /\ Tail(path) = namespace
  <2>1. Len(path) = 1 + Len(namespace) /\ path[1] = registry /\ Tail(path) = namespace
    BY <1>3, <1>5, Prefixed
  <2> QED  BY <1>5, <2>1
<1>7. ~(tag = "" /\ ref.digest = "")
  OBVIOUS
<1> HIDE DEF path, tag
<1>8. ImageString(Parse(ref)) = [path |-> path, tag |-> tag, digest |-> ref.digest]
  BY <1>1 DEF ImageString, path
<1> DEFINE printed == [path |-> path, tag |-> tag, digest |-> ref.digest]
<1>9. Parse(printed) = [registry |-> registry, namespace |-> namespace,
                        tag |-> tag, digest |-> ref.digest]
  BY <1>3, <1>5, <1>6, <1>7 DEF Parse
<1> QED  BY <1>1, <1>8, <1>9

\* A reference that the program prints reads as the same image (image.go).
THEOREM StringsReadBack == Spec => []ReferencesRoundTrip
<1>1. \A raw \in RawSpecs : raw \in RawSpec
  BY RawSpecsAreRaw
<1>2. IInv => ReferencesRoundTrip
  <2> SUFFICES ASSUME IInv, NEW i \in DOMAIN specs, NEW img \in {specs[i].src, specs[i].dst}
               PROVE  Parse(ImageString(img)) = img
    BY DEF ReferencesRoundTrip
  <2>1. specs[i] \in Specs
    BY DEF IInv, TypeOK
  <2>2. PICK raw \in RawSpecs : specs[i].src = Parse(raw.src) /\ specs[i].dst = Parse(raw.dst)
    BY <2>1, SpecFields
  <2>3. raw.src \in Reference /\ raw.dst \in Reference
    BY <1>1 DEF RawSpec
  <2> QED  BY <2>2, <2>3, ParseOfString
<1> QED  BY <1>2, Invariance, PTL

=============================================================================
