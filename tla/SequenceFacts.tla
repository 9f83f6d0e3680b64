---------------------------- MODULE SequenceFacts ----------------------------
(* What the proofs use of sequences: that flattening sequences of items yields *)
(* items, the elements of sequences without repetition, and heads and tails.   *)
EXTENDS Integers, Sequences, SequencesExt, SequenceTheorems,
        WellFoundedInduction, FiniteSetTheorems, TLAPS

\* A nonempty set of natural numbers has a least element.
LEMMA LeastNat ==
  ASSUME NEW T, T \subseteq Nat, T # {}
  PROVE  \E x \in T : \A y \in T : x <= y
PROOF
  <1> DEFINE R == {ss \in Nat \X Nat : ss[1] < ss[2]}
  <1>1. IsWellFoundedOn(OpToRel(<, Nat), Nat)
    BY NatLessThanWellFounded
  <1>2. OpToRel(<, Nat) = R
    BY DEF OpToRel
  <1>3. IsWellFoundedOn(R, Nat)
    BY <1>1, <1>2
  <1>4. \E x \in T : \A y \in T : ~(<<y, x>> \in R)
    BY <1>3, WFMin
  <1>5. PICK x \in T : \A y \in T : ~(<<y, x>> \in R)
    BY <1>4
  <1>6. ASSUME NEW y \in T PROVE x <= y
    <2>1. x \in Nat /\ y \in Nat
      OBVIOUS
    <2>2. ~(y < x)
      BY <1>5, <2>1
    <2>. QED BY <2>1, <2>2
  <1>. QED
    BY <1>6

\* The concatenation of the first i sequences of ss, for all i up to n.
IsPrefixSums(f, ss, n) ==
  f = [i \in 1..n |-> IF i = 1 THEN ss[i] ELSE f[i - 1] \o ss[i]]

\* The recursion that defines FlattenSeq has a solution: the least length without one
\* would have it from the solution for the length before.
LEMMA PrefixSumsExist ==
  ASSUME NEW ss, NEW n \in Nat
  PROVE  \E f : IsPrefixSums(f, ss, n)
PROOF
  <1> DEFINE Bad == {m \in 0..n : ~ \E f : IsPrefixSums(f, ss, m)}
  <1>1. SUFFICES ASSUME Bad # {} PROVE FALSE
    OBVIOUS
  <1>2. PICK m \in Bad : \A k \in Bad : m <= k
    <2>1. Bad \subseteq Nat
      OBVIOUS
    <2> HIDE DEF Bad
    <2>. QED BY <1>1, <2>1, LeastNat
  <1>3. m # 0
    <2> SUFFICES IsPrefixSums([i \in 1..0 |-> ss[i]], ss, 0)
      OBVIOUS
    <2>. QED BY DEF IsPrefixSums
  <1>4. m - 1 \in 0..n /\ m - 1 \notin Bad
    BY <1>2, <1>3
  <1>5. PICK f : IsPrefixSums(f, ss, m - 1)
    BY <1>4
  <1> DEFINE g == [i \in 1..m |-> IF i = m THEN (IF m = 1 THEN ss[m] ELSE f[m - 1] \o ss[m]) ELSE f[i]]
  <1>6. IsPrefixSums(g, ss, m)
    <2>1. ASSUME NEW i \in 1..m
          PROVE  g[i] = IF i = 1 THEN ss[i] ELSE g[i - 1] \o ss[i]
      <3>1. CASE i = m
        BY <3>1, <1>3
      <3>2. CASE i # m
        <4>1. i \in 1..(m - 1)
          BY <3>2
        <4>2. f[i] = IF i = 1 THEN ss[i] ELSE f[i - 1] \o ss[i]
          BY <4>1, <1>5 DEF IsPrefixSums
        <4>. QED BY <4>1, <4>2, <3>2
      <3>. QED BY <3>1, <3>2
    <2>. QED BY <2>1 DEF IsPrefixSums
  <1>. QED
    BY <1>6, <1>2

\* Every prefix of the recursion is a sequence over S when every sequence of ss is.
LEMMA PrefixSumsType ==
  ASSUME NEW S, NEW ss \in Seq(Seq(S)), NEW f, IsPrefixSums(f, ss, Len(ss))
  PROVE  \A i \in 1..Len(ss) : f[i] \in Seq(S)
PROOF
  <1> DEFINE Bad == {i \in 1..Len(ss) : f[i] \notin Seq(S)}
  <1>1. SUFFICES ASSUME Bad # {} PROVE FALSE
    OBVIOUS
  <1>2. PICK m \in Bad : \A k \in Bad : m <= k
    <2>1. Bad \subseteq Nat
      OBVIOUS
    <2> HIDE DEF Bad
    <2>. QED BY <1>1, <2>1, LeastNat
  <1>3. f[m] = IF m = 1 THEN ss[m] ELSE f[m - 1] \o ss[m]
    BY DEF IsPrefixSums
  <1>4. m # 1
    BY <1>3
  <1>5. f[m - 1] \in Seq(S)
    BY <1>2, <1>4
  <1>6. ss[m] \in Seq(S)
    OBVIOUS
  <1>7. f[m - 1] \o ss[m] \in Seq(S)
    BY <1>5, <1>6
  <1>8. f[m] \in Seq(S)
    BY <1>3, <1>4, <1>7
  <1>. QED
    BY <1>8

\* Flattening sequences over S gives a sequence over S.
LEMMA FlattenSeqType ==
  ASSUME NEW S, NEW ss \in Seq(Seq(S))
  PROVE  FlattenSeq(ss) \in Seq(S)
PROOF
  <1> DEFINE f == CHOOSE g : IsPrefixSums(g, ss, Len(ss))
  <1>1. IsPrefixSums(f, ss, Len(ss))
    <2>1. Len(ss) \in Nat
      OBVIOUS
    <2>2. \E g : IsPrefixSums(g, ss, Len(ss))
      BY <2>1, PrefixSumsExist, Zenon
    <2>. QED BY <2>2, Zenon
  <1>2. CASE Len(ss) = 0
    BY <1>2 DEF FlattenSeq
  <1>3. CASE Len(ss) # 0
    <2>1. FlattenSeq(ss) = f[Len(ss)]
      BY <1>3 DEF FlattenSeq, IsPrefixSums
    <2>2. f[Len(ss)] \in Seq(S)
      BY <1>1, <1>3, PrefixSumsType
    <2>. QED BY <2>1, <2>2
  <1>. QED
    BY <1>2, <1>3

------------------------------------------------------------------------------
(* Sequences without repetition.                                             *)

\* The elements of a concatenation are those of its parts.
LEMMA ConcatElements ==
  ASSUME NEW S, NEW s \in Seq(S), NEW t \in Seq(S)
  PROVE  s \o t \in Seq(S) /\ ToSet(s \o t) = ToSet(s) \cup ToSet(t)
PROOF
  <1> DEFINE u == s \o t
  <1>1. u \in Seq(S) /\ Len(u) = Len(s) + Len(t) /\ Len(s) \in Nat /\ Len(t) \in Nat
    OBVIOUS
  <1>2. /\ \A i \in 1..Len(s) : u[i] = s[i]
        /\ \A i \in 1..Len(t) : u[Len(s) + i] = t[i]
    OBVIOUS
  <1>3. DOMAIN s = 1..Len(s) /\ DOMAIN t = 1..Len(t) /\ DOMAIN u = 1..(Len(s) + Len(t))
    BY <1>1
  <1> HIDE DEF u
  <1>4. ASSUME NEW i \in DOMAIN u PROVE u[i] \in ToSet(s) \cup ToSet(t)
    <2>1. CASE i <= Len(s)
      BY <1>1, <1>2, <1>3, <2>1 DEF ToSet
    <2>2. CASE i > Len(s)
      <3>1. i - Len(s) \in 1..Len(t) /\ Len(s) + (i - Len(s)) = i
        BY <1>1, <1>3, <2>2
      <3>2. u[i] = t[i - Len(s)]
        BY <1>2, <3>1
      <3>. QED BY <1>3, <3>1, <3>2 DEF ToSet
    <2>. QED BY <1>1, <1>3, <2>1, <2>2
  <1>5. ASSUME NEW i \in DOMAIN s PROVE s[i] \in ToSet(u)
    BY <1>1, <1>2, <1>3 DEF ToSet
  <1>6. ASSUME NEW i \in DOMAIN t PROVE t[i] \in ToSet(u)
    <2>1. Len(s) + i \in DOMAIN u
      BY <1>1, <1>3
    <2>. QED BY <1>2, <1>3, <2>1 DEF ToSet
  <1>7. ToSet(u) = ToSet(s) \cup ToSet(t)
    BY <1>4, <1>5, <1>6 DEF ToSet
  <1>. QED BY <1>1, <1>7 DEF u

\* A flattened sequence is the last of the prefixes of that recursion.
LEMMA FlattenIsLastPrefix ==
  ASSUME NEW S, NEW ss \in Seq(Seq(S)), ss # <<>>
  PROVE  \E f : /\ IsPrefixSums(f, ss, Len(ss)) /\ FlattenSeq(ss) = f[Len(ss)]
                /\ \A i \in 1..Len(ss) : f[i] \in Seq(S)
PROOF
  <1> DEFINE f == CHOOSE g : IsPrefixSums(g, ss, Len(ss))
  <1>1. Len(ss) \in Nat /\ Len(ss) # 0
    OBVIOUS
  <1>2. IsPrefixSums(f, ss, Len(ss))
    <2>1. \E g : IsPrefixSums(g, ss, Len(ss))
      BY <1>1, PrefixSumsExist, Zenon
    <2>. QED BY <2>1, Zenon
  <1>3. FlattenSeq(ss) = f[Len(ss)]
    BY <1>1 DEF FlattenSeq, IsPrefixSums
  <1>4. \A i \in 1..Len(ss) : f[i] \in Seq(S)
    BY <1>2, PrefixSumsType
  <1> HIDE DEF f
  <1>. QED BY <1>2, <1>3, <1>4

\* Its elements are those of its parts.
LEMMA FlattenElements ==
  ASSUME NEW S, NEW ss \in Seq(Seq(S))
  PROVE  ToSet(FlattenSeq(ss)) = UNION {ToSet(ss[i]) : i \in DOMAIN ss}
PROOF
  <1>1. CASE ss = <<>>
    BY <1>1 DEF FlattenSeq, ToSet
  <1>2. CASE ss # <<>>
    <2>1. PICK f : /\ IsPrefixSums(f, ss, Len(ss)) /\ FlattenSeq(ss) = f[Len(ss)]
                   /\ \A i \in 1..Len(ss) : f[i] \in Seq(S)
      BY <1>2, FlattenIsLastPrefix
    <2> DEFINE Parts(i) == UNION {ToSet(ss[k]) : k \in 1..i}
               Bad == {i \in 1..Len(ss) : ToSet(f[i]) # Parts(i)}
    <2>2. Bad = {}
      <3>1. SUFFICES ASSUME Bad # {} PROVE FALSE
        OBVIOUS
      <3>2. PICK m \in Bad : \A k \in Bad : m <= k
        <4>1. Bad \subseteq Nat
          OBVIOUS
        <4> HIDE DEF Bad
        <4>. QED BY <3>1, <4>1, LeastNat
      <3>3. f[m] = IF m = 1 THEN ss[m] ELSE f[m - 1] \o ss[m]
        BY <2>1 DEF IsPrefixSums
      <3>4. CASE m = 1
        <4>1. \A x : x \in Parts(1) <=> x \in ToSet(ss[1])
          OBVIOUS
        <4>. QED BY <3>3, <3>4, <4>1
      <3>5. CASE m # 1
        <4>0. m \in 1..Len(ss) /\ m \in Nat /\ m - 1 \in 1..Len(ss) /\ ~(m <= m - 1)
          BY <3>5
        <4>1. m - 1 \in 1..Len(ss) /\ m - 1 \notin Bad
          <5> HIDE DEF Bad
          <5>. QED BY <3>2, <4>0
        <4>2. ToSet(f[m - 1]) = Parts(m - 1)
          BY <4>1
        <4>3. f[m - 1] \in Seq(S) /\ ss[m] \in Seq(S)
          BY <2>1, <4>1
        <4>4. ToSet(f[m]) = Parts(m - 1) \cup ToSet(ss[m])
          BY <3>3, <3>5, <4>2, <4>3, ConcatElements
        <4>5. 1..m = 1..(m - 1) \cup {m}
          OBVIOUS
        <4>6. Parts(m) = Parts(m - 1) \cup ToSet(ss[m])
          BY <4>5
        <4>. QED BY <4>4, <4>6
      <3>. QED BY <3>4, <3>5
    <2>3. Len(ss) \in 1..Len(ss) /\ DOMAIN ss = 1..Len(ss)
      BY <1>2
    <2>. QED BY <2>1, <2>2, <2>3
  <1>. QED BY <1>1, <1>2

\* Sequences without repetition and without a common element make one without repetition.
LEMMA ConcatInjective ==
  ASSUME NEW S, NEW s \in Seq(S), NEW t \in Seq(S),
         IsInjective(s), IsInjective(t), ToSet(s) \cap ToSet(t) = {}
  PROVE  IsInjective(s \o t)
PROOF
  <1> DEFINE u == s \o t
  <1>1. u \in Seq(S) /\ Len(u) = Len(s) + Len(t) /\ Len(s) \in Nat /\ Len(t) \in Nat
    OBVIOUS
  <1>2. /\ \A i \in 1..Len(s) : u[i] = s[i]
        /\ \A i \in 1..Len(t) : u[Len(s) + i] = t[i]
    OBVIOUS
  <1>3. DOMAIN s = 1..Len(s) /\ DOMAIN t = 1..Len(t) /\ DOMAIN u = 1..(Len(s) + Len(t))
    BY <1>1
  <1> HIDE DEF u
  <1>4. ASSUME NEW i \in DOMAIN u, i > Len(s)
        PROVE  i - Len(s) \in DOMAIN t /\ u[i] = t[i - Len(s)]
    <2>1. i - Len(s) \in 1..Len(t) /\ Len(s) + (i - Len(s)) = i
      BY <1>1, <1>3, <1>4
    <2>. QED BY <1>2, <1>3, <2>1
  <1>5. ASSUME NEW i \in DOMAIN u, i <= Len(s)
        PROVE  i \in DOMAIN s /\ u[i] = s[i]
    BY <1>1, <1>2, <1>3, <1>5
  <1>6. ASSUME NEW i \in DOMAIN u, NEW j \in DOMAIN u, u[i] = u[j]
        PROVE  i = j
    <2>1. CASE i <= Len(s) /\ j <= Len(s)
      BY <1>5, <1>6, <2>1 DEF IsInjective
    <2>2. CASE i > Len(s) /\ j > Len(s)
      <3>1. i - Len(s) = j - Len(s)
        BY <1>4, <1>6, <2>2 DEF IsInjective
      <3>. QED BY <1>1, <1>3, <3>1
    <2>3. CASE i <= Len(s) /\ j > Len(s)
      BY <1>4, <1>5, <1>6, <2>3 DEF ToSet
    <2>4. CASE i > Len(s) /\ j <= Len(s)
      BY <1>4, <1>5, <1>6, <2>4 DEF ToSet
    <2>5. i \in Int /\ j \in Int
      BY <1>1, <1>3
    <2>. QED BY <1>1, <2>1, <2>2, <2>3, <2>4, <2>5
  <1>7. IsInjective(u)
    BY <1>6 DEF IsInjective
  <1>. QED BY <1>7 DEF u

\* SetToSeq lists a finite set, each of its elements once.
LEMMA SetToSeqFacts ==
  ASSUME NEW S, IsFiniteSet(S)
  PROVE  /\ SetToSeq(S) \in Seq(S) /\ ToSet(SetToSeq(S)) = S /\ IsInjective(SetToSeq(S))
         /\ S = {} => SetToSeq(S) = <<>>
PROOF
  <1> DEFINE n == Cardinality(S)
  <1>1. n \in Nat /\ ExistsBijection(1..n, S)
    BY FS_CardinalityType
  <1>2. \E f \in [1..n -> S] : IsInjective(f)
    BY <1>1 DEF ExistsBijection, Bijection, Injection
  <1>3. SetToSeq(S) \in [1..n -> S] /\ IsInjective(SetToSeq(S))
    BY <1>2, Zenon DEF SetToSeq
  <1>4. IsFiniteSet(1..n) /\ Cardinality(1..n) = n
    BY <1>1, FS_Interval
  <1>5. SetToSeq(S) \in Surjection(1..n, S)
    <2>1. SetToSeq(S) \in Injection(1..n, S)
      BY <1>3 DEF Injection
    <2>. QED BY <1>4, <2>1, FS_Injection
  <1>6. SetToSeq(S) \in Seq(S)
    BY <1>1, <1>3
  <1>7. ToSet(SetToSeq(S)) = S
    BY <1>3, <1>5 DEF ToSet, Surjection
  <1>8. S = {} => SetToSeq(S) = <<>>
    <2>1. S = {} => n = 0
      BY FS_EmptySet
    <2>. QED BY <1>3, <1>6, <2>1
  <1>. QED BY <1>3, <1>6, <1>7, <1>8

\* A sequence is its head followed by its tail.
LEMMA HeadThenTail ==
  ASSUME NEW S, NEW s \in Seq(S), s # <<>>
  PROVE  <<Head(s)>> \o Tail(s) = s
PROOF
  <1>1. Head(s) \in S /\ Tail(s) \in Seq(S) /\ Len(Tail(s)) = Len(s) - 1
        /\ \A i \in 1..Len(Tail(s)) : Tail(s)[i] = s[i + 1]
    BY HeadTailProperties
  <1>2. Len(s) \in Nat /\ Len(s) > 0
    OBVIOUS
  <1>3. /\ <<Head(s)>> \o Tail(s) \in Seq(S)
        /\ Len(<<Head(s)>> \o Tail(s)) = Len(s)
    BY <1>1, <1>2
  <1>4. ASSUME NEW i \in 1..Len(s) PROVE (<<Head(s)>> \o Tail(s))[i] = s[i]
    <2>1. CASE i = 1
      BY <1>1, <2>1
    <2>2. CASE i > 1
      <3>1. (<<Head(s)>> \o Tail(s))[i] = Tail(s)[i - 1]
        BY <1>1, <1>2, <2>2
      <3>2. i - 1 \in 1..Len(Tail(s)) /\ (i - 1) + 1 = i
        BY <1>1, <1>2, <2>2
      <3>. QED BY <1>1, <3>1, <3>2
    <2>. QED BY <2>1, <2>2
  <1>. QED BY <1>3, <1>4, SeqEqual

------------------------------------------------------------------------------
(* Flattening, step by step.                                                 *)

\* What holds of 0, and of every number after one it holds of, holds up to n.
LEMMA UpTo ==
  ASSUME NEW n \in Nat, NEW T, 0 \in T, \A i \in 0..(n - 1) : i \in T => i + 1 \in T
  PROVE  \A i \in 0..n : i \in T
PROOF
  <1> DEFINE Bad == {i \in 0..n : i \notin T}
  <1>1. SUFFICES ASSUME Bad # {} PROVE FALSE
    OBVIOUS
  <1>2. PICK m \in Bad : \A k \in Bad : m <= k
    <2>1. Bad \subseteq Nat
      OBVIOUS
    <2> HIDE DEF Bad
    <2>. QED BY <1>1, <2>1, LeastNat
  <1>3. m \in 1..n /\ m - 1 \in 0..(n - 1) /\ m - 1 \in 0..n /\ ~(m <= m - 1) /\ m - 1 + 1 = m
    BY <1>2
  <1>4. m - 1 \in T
    <2>1. m - 1 \notin Bad
      <3> HIDE DEF Bad
      <3>. QED BY <1>2, <1>3
    <2>. QED BY <1>3, <2>1
  <1>. QED BY <1>2, <1>3, <1>4

\* The elements of a concatenation, by their places.
LEMMA ConcatAt ==
  ASSUME NEW S, NEW s \in Seq(S), NEW t \in Seq(S)
  PROVE  /\ s \o t \in Seq(S) /\ Len(s \o t) = Len(s) + Len(t)
         /\ \A i \in 1..Len(s) : (s \o t)[i] = s[i]
         /\ \A i \in 1..Len(t) : (s \o t)[Len(s) + i] = t[i]
         /\ s = <<>> => s \o t = t
         /\ t = <<>> => s \o t = s
PROOF
  <1>1. s = <<>> => s \o t = t
    OBVIOUS
  <1>2. t = <<>> => s \o t = s
    OBVIOUS
  <1>. QED BY <1>1, <1>2

\* The sums of the sequences so far, from none to all.
IsSums(g, S, ss) ==
  /\ g \in [0..Len(ss) -> Seq(S)] /\ g[0] = <<>>
  /\ \A i \in 1..Len(ss) : g[i] = g[i - 1] \o ss[i]
  /\ FlattenSeq(ss) = g[Len(ss)]

\* They exist, and end in the flattened sequence.
LEMMA SumsExist ==
  ASSUME NEW S, NEW ss \in Seq(Seq(S))
  PROVE  \E g : IsSums(g, S, ss)
PROOF
  <1> DEFINE n == Len(ss)
  <1>0. n \in Nat
    OBVIOUS
  <1>1. CASE ss = <<>>
    <2>1. IsSums([i \in 0..0 |-> <<>>], S, ss)
      BY <1>1 DEF IsSums, FlattenSeq
    <2>. QED BY <2>1, Zenon
  <1>2. CASE ss # <<>>
    <2>1. PICK f : /\ IsPrefixSums(f, ss, n) /\ FlattenSeq(ss) = f[n]
                   /\ \A i \in 1..n : f[i] \in Seq(S)
      BY <1>2, FlattenIsLastPrefix
    <2> DEFINE g == [i \in 0..n |-> IF i = 0 THEN <<>> ELSE f[i]]
    <2>2. g \in [0..n -> Seq(S)] /\ g[0] = <<>> /\ FlattenSeq(ss) = g[n]
      BY <1>0, <1>2, <2>1
    <2>3. ASSUME NEW i \in 1..n PROVE g[i] = g[i - 1] \o ss[i]
      <3>1. f[i] = IF i = 1 THEN ss[i] ELSE f[i - 1] \o ss[i]
        BY <2>1 DEF IsPrefixSums
      <3>2. CASE i = 1
        <4>1. g[i - 1] = <<>> /\ g[i] = ss[i] /\ ss[i] \in Seq(S)
          BY <1>0, <3>1, <3>2
        <4> HIDE DEF g
        <4>. QED BY <4>1
      <3>3. CASE i # 1
        <4>1. i \in 0..n /\ i - 1 \in 0..n /\ i # 0 /\ i - 1 # 0
          BY <1>0, <3>3
        <4>2. g[i] = f[i] /\ g[i - 1] = f[i - 1]
          BY <4>1
        <4> HIDE DEF g
        <4>. QED BY <3>1, <3>3, <4>2
      <3>. QED BY <3>2, <3>3
    <2>4. IsSums(g, S, ss)
      <3> HIDE DEF g
      <3>. QED BY <2>2, <2>3 DEF IsSums
    <2>. QED BY <2>4, Zenon
  <1>. QED BY <1>1, <1>2

\* All sequences but the first have one element.
LEMMA FlattenShift ==
  ASSUME NEW S, NEW ss \in Seq(Seq(S)), ss # <<>>, \A i \in 2..Len(ss) : Len(ss[i]) = 1
  PROVE  /\ FlattenSeq(ss) \in Seq(S) /\ Len(FlattenSeq(ss)) = Len(ss[1]) + Len(ss) - 1
         /\ \A j \in 1..Len(ss[1]) : FlattenSeq(ss)[j] = ss[1][j]
         /\ \A i \in 2..Len(ss) : FlattenSeq(ss)[Len(ss[1]) + i - 1] = ss[i][1]
PROOF
  <1> DEFINE n == Len(ss)
             m == Len(ss[1])
  <1>0. n \in Nat /\ n >= 1 /\ ss[1] \in Seq(S) /\ m \in Nat
    OBVIOUS
  <1>1. PICK g : IsSums(g, S, ss)
    BY SumsExist
  <1>2. /\ \A i \in 0..n : g[i] \in Seq(S)
        /\ g[0] = <<>> /\ FlattenSeq(ss) = g[n]
        /\ \A i \in 1..n : g[i] = g[i - 1] \o ss[i]
    BY <1>1 DEF IsSums
  <1> DEFINE T == {i \in 0..(n - 1) : /\ Len(g[i + 1]) = m + i
                                      /\ \A j \in 1..m : g[i + 1][j] = ss[1][j]
                                      /\ \A k \in 2..(i + 1) : g[i + 1][m + k - 1] = ss[k][1]}
  <1>3. 0 \in T
    <2>1. g[1] = ss[1]
      <3>1. g[1] = g[0] \o ss[1]
        <4>1. 1 \in 1..n /\ 1 - 1 = 0
          BY <1>0
        <4>. QED BY <1>2, <4>1
      <3>2. g[0] = <<>> /\ <<>> \in Seq(S)
        BY <1>2
      <3>. QED BY <1>0, <3>1, <3>2, ConcatAt
    <2>2. Len(g[0 + 1]) = m + 0 /\ (\A j \in 1..m : g[0 + 1][j] = ss[1][j]) /\ 2..(0 + 1) = {}
      BY <1>0, <2>1
    <2>. QED BY <1>0, <2>2
  <1>4. ASSUME NEW i \in 0..(n - 1 - 1), i \in T PROVE i + 1 \in T
    <2>0. PICK a, b, c : a = g[i + 1] /\ b = g[i + 2] /\ c = ss[i + 2]
      OBVIOUS
    <2>1. i + 1 \in 0..n /\ i + 2 \in 1..n /\ i + 2 \in 2..n /\ i + 2 - 1 = i + 1 /\ i + 2 \in 0..n
      BY <1>0
    <2>2. b = a \o c /\ a \in Seq(S) /\ c \in Seq(S) /\ Len(c) = 1 /\ b \in Seq(S)
      <3>1. g[i + 2] = g[i + 1] \o ss[i + 2]
        <4>1. PICK k \in 1..n : k = i + 2
          BY <2>1
        <4>2. g[k] = g[k - 1] \o ss[k]
          BY <1>2, <4>1, Zenon
        <4>3. k - 1 = i + 1
          BY <4>1
        <4>. QED BY <4>1, <4>2, <4>3
      <3>2. g[i + 1] \in Seq(S) /\ g[i + 2] \in Seq(S)
        BY <1>2, <2>1
      <3>3. Len(ss[i + 2]) = 1 /\ ss[i + 2] \in Seq(S)
        BY <2>1
      <3>. QED BY <2>0, <3>1, <3>2, <3>3
    <2>3. Len(a) = m + i /\ (\A j \in 1..m : a[j] = ss[1][j])
          /\ \A k \in 2..(i + 1) : a[m + k - 1] = ss[k][1]
      BY <2>0, <1>4
    <2> HIDE DEF m
    <2>4. Len(b) = m + i + 1 /\ b[m + i + 1] = c[1] /\ \A j \in 1..(m + i) : b[j] = a[j]
      <3>0. a \in Seq(S) /\ c \in Seq(S)
        BY <2>2
      <3>1. /\ Len(a \o c) = Len(a) + Len(c)
            /\ \A j \in 1..Len(a) : (a \o c)[j] = a[j]
            /\ \A j \in 1..Len(c) : (a \o c)[Len(a) + j] = c[j]
        BY <3>0, ConcatAt
      <3>2. /\ Len(b) = Len(a) + Len(c) /\ (\A j \in 1..Len(a) : b[j] = a[j])
            /\ \A j \in 1..Len(c) : b[Len(a) + j] = c[j]
        BY <2>2, <3>1, Zenon
      <3>. QED BY <1>0, <2>2, <2>3, <3>2
    <2>5. \A j \in 1..m : b[j] = ss[1][j]
      BY <1>0, <2>3, <2>4
    <2>6. ASSUME NEW k \in 2..(i + 2) PROVE b[m + k - 1] = ss[k][1]
      <3>1. CASE k = i + 2
        BY <1>0, <2>0, <2>4, <3>1
      <3>2. CASE k # i + 2
        <4>1. k \in 2..(i + 1) /\ m + k - 1 \in 1..(m + i)
          BY <1>0, <3>2
        <4>. QED BY <2>3, <2>4, <4>1
      <3>. QED BY <3>1, <3>2
    <2>7. i + 1 + 1 = i + 2 /\ i + 1 \in 0..(n - 1) /\ m + (i + 1) = m + i + 1
      BY <1>0
    <2>. QED BY <2>0, <2>4, <2>5, <2>6, <2>7 DEF m
  <1>5. n - 1 \in T
    <2>1. \A i \in 0..(n - 1) : i \in T
      <3>1. n - 1 \in Nat
        BY <1>0
      <3> HIDE DEF T
      <3>. QED BY <1>3, <1>4, <3>1, UpTo
    <2>2. n - 1 \in 0..(n - 1)
      BY <1>0
    <2> HIDE DEF T
    <2>. QED BY <2>1, <2>2
  <1>6. n - 1 + 1 = n /\ m + (n - 1) = m + n - 1 /\ n \in 0..n
    BY <1>0
  <1>. QED BY <1>2, <1>5, <1>6

\* All sequences have two elements.
LEMMA FlattenPairs ==
  ASSUME NEW S, NEW ss \in Seq(Seq(S)), \A i \in 1..Len(ss) : Len(ss[i]) = 2
  PROVE  /\ FlattenSeq(ss) \in Seq(S) /\ Len(FlattenSeq(ss)) = 2 * Len(ss)
         /\ \A i \in 1..Len(ss) : FlattenSeq(ss)[2 * i - 1] = ss[i][1] /\ FlattenSeq(ss)[2 * i] = ss[i][2]
PROOF
  <1> DEFINE n == Len(ss)
  <1>0. n \in Nat
    OBVIOUS
  <1>1. PICK g : IsSums(g, S, ss)
    BY SumsExist
  <1>2. /\ \A i \in 0..n : g[i] \in Seq(S)
        /\ g[0] = <<>> /\ FlattenSeq(ss) = g[n]
        /\ \A i \in 1..n : g[i] = g[i - 1] \o ss[i]
    BY <1>1 DEF IsSums
  <1> DEFINE T == {i \in 0..n : /\ Len(g[i]) = 2 * i
                                /\ \A k \in 1..i : g[i][2 * k - 1] = ss[k][1] /\ g[i][2 * k] = ss[k][2]}
  <1>3. 0 \in T
    BY <1>0, <1>2
  <1>4. ASSUME NEW i \in 0..(n - 1), i \in T PROVE i + 1 \in T
    <2>0. PICK a, b, c : a = g[i] /\ b = g[i + 1] /\ c = ss[i + 1]
      OBVIOUS
    <2>1. i \in 0..n /\ i + 1 \in 1..n /\ i + 1 - 1 = i /\ i + 1 \in 0..n
      BY <1>0
    <2>2. b = a \o c /\ a \in Seq(S) /\ c \in Seq(S) /\ Len(c) = 2 /\ b \in Seq(S)
      <3>1. g[i + 1] = g[i] \o ss[i + 1]
        <4>1. PICK k \in 1..n : k = i + 1
          BY <2>1
        <4>2. g[k] = g[k - 1] \o ss[k]
          BY <1>2, <4>1, Zenon
        <4>3. k - 1 = i
          BY <4>1
        <4>. QED BY <4>1, <4>2, <4>3
      <3>2. g[i] \in Seq(S) /\ g[i + 1] \in Seq(S)
        BY <1>2, <2>1
      <3>3. Len(ss[i + 1]) = 2 /\ ss[i + 1] \in Seq(S)
        BY <2>1
      <3>. QED BY <2>0, <3>1, <3>2, <3>3
    <2>3. Len(a) = 2 * i /\ \A k \in 1..i : a[2 * k - 1] = ss[k][1] /\ a[2 * k] = ss[k][2]
      BY <2>0, <1>4
    <2>4. Len(b) = 2 * i + 2 /\ b[2 * i + 1] = c[1] /\ b[2 * i + 2] = c[2] /\ \A j \in 1..(2 * i) : b[j] = a[j]
      <3>0. a \in Seq(S) /\ c \in Seq(S)
        BY <2>2
      <3>1. /\ Len(a \o c) = Len(a) + Len(c)
            /\ \A j \in 1..Len(a) : (a \o c)[j] = a[j]
            /\ \A j \in 1..Len(c) : (a \o c)[Len(a) + j] = c[j]
        BY <3>0, ConcatAt
      <3>2. /\ Len(b) = Len(a) + Len(c) /\ (\A j \in 1..Len(a) : b[j] = a[j])
            /\ \A j \in 1..Len(c) : b[Len(a) + j] = c[j]
        BY <2>2, <3>1, Zenon
      <3>. QED BY <1>0, <2>2, <2>3, <3>2
    <2>5. ASSUME NEW k \in 1..(i + 1) PROVE b[2 * k - 1] = ss[k][1] /\ b[2 * k] = ss[k][2]
      <3>1. CASE k = i + 1
        <4>1. 2 * k - 1 = 2 * i + 1 /\ 2 * k = 2 * i + 2
          BY <3>1
        <4>. QED BY <2>0, <2>4, <3>1, <4>1
      <3>2. CASE k # i + 1
        <4>1. k \in 1..i /\ 2 * k - 1 \in 1..(2 * i) /\ 2 * k \in 1..(2 * i)
          BY <1>0, <3>2
        <4>. QED BY <2>3, <2>4, <4>1
      <3>. QED BY <3>1, <3>2
    <2>6. 2 * (i + 1) = 2 * i + 2
      BY <1>0
    <2>. QED BY <2>0, <2>1, <2>4, <2>5, <2>6
  <1>5. n \in T
    <2>1. \A i \in 0..n : i \in T
      <3> HIDE DEF T
      <3>. QED BY <1>0, <1>3, <1>4, UpTo
    <2>. QED BY <1>0, <2>1
  <1>. QED BY <1>0, <1>2, <1>5

\* Every second sequence has one element, and the others have none.
LEMMA FlattenEven ==
  ASSUME NEW S, NEW ss \in Seq(Seq(S)), NEW n \in Nat, Len(ss) = 2 * n,
         \A k \in 1..n : ss[2 * k - 1] = <<>> /\ Len(ss[2 * k]) = 1
  PROVE  /\ FlattenSeq(ss) \in Seq(S) /\ Len(FlattenSeq(ss)) = n
         /\ \A k \in 1..n : FlattenSeq(ss)[k] = ss[2 * k][1]
PROOF
  <1>1. PICK g : IsSums(g, S, ss)
    BY SumsExist
  <1>2. /\ \A i \in 0..(2 * n) : g[i] \in Seq(S)
        /\ g[0] = <<>> /\ FlattenSeq(ss) = g[2 * n]
        /\ \A i \in 1..(2 * n) : g[i] = g[i - 1] \o ss[i]
    BY <1>1 DEF IsSums
  <1> DEFINE T == {i \in 0..n : /\ Len(g[2 * i]) = i
                                /\ \A k \in 1..i : g[2 * i][k] = ss[2 * k][1]}
  <1>3. 0 \in T
    BY <1>2
  <1>4. ASSUME NEW i \in 0..(n - 1), i \in T PROVE i + 1 \in T
    <2>0. PICK a, b, c : a = g[2 * i] /\ b = g[2 * i + 2] /\ c = ss[2 * i + 2]
      OBVIOUS
    <2>1. /\ 2 * i \in 0..(2 * n) /\ 2 * i + 1 \in 1..(2 * n) /\ 2 * i + 2 \in 1..(2 * n)
          /\ 2 * i + 2 - 1 = 2 * i + 1 /\ 2 * i + 1 - 1 = 2 * i /\ i + 1 \in 1..n
          /\ 2 * (i + 1) = 2 * i + 2 /\ 2 * i + 2 \in 0..(2 * n)
      OBVIOUS
    <2>2. ss[2 * i + 1] = <<>> /\ Len(c) = 1 /\ c \in Seq(S)
      <3>1. PICK k \in 1..n : k = i + 1
        BY <2>1
      <3>2. 2 * k - 1 = 2 * i + 1 /\ 2 * k = 2 * i + 2
        BY <3>1
      <3>3. ss[2 * k - 1] = <<>> /\ Len(ss[2 * k]) = 1
        OBVIOUS
      <3>4. ss[2 * i + 2] \in Seq(S)
        BY <2>1
      <3>. QED BY <2>0, <3>2, <3>3, <3>4
    <2>3. b = a \o c /\ a \in Seq(S) /\ b \in Seq(S)
      <3>1. g[2 * i + 1] = g[2 * i] \o ss[2 * i + 1]
        <4>1. PICK k \in 1..(2 * n) : k = 2 * i + 1
          BY <2>1
        <4>2. g[k] = g[k - 1] \o ss[k]
          BY <1>2, <4>1, Zenon
        <4>3. k - 1 = 2 * i
          BY <4>1
        <4>. QED BY <4>1, <4>2, <4>3
      <3>2. g[2 * i + 2] = g[2 * i + 1] \o ss[2 * i + 2]
        <4>1. PICK k \in 1..(2 * n) : k = 2 * i + 2
          BY <2>1
        <4>2. g[k] = g[k - 1] \o ss[k]
          BY <1>2, <4>1, Zenon
        <4>3. k - 1 = 2 * i + 1
          BY <4>1
        <4>. QED BY <4>1, <4>2, <4>3
      <3>3. g[2 * i] \in Seq(S) /\ g[2 * i + 2] \in Seq(S)
        BY <1>2, <2>1
      <3>4. g[2 * i] \o <<>> = g[2 * i]
        BY <3>3, ConcatAt
      <3>. QED BY <2>0, <2>2, <3>1, <3>2, <3>3, <3>4
    <2>4. Len(a) = i /\ \A k \in 1..i : a[k] = ss[2 * k][1]
      BY <2>0, <1>4
    <2>5. Len(b) = i + 1 /\ b[i + 1] = c[1] /\ \A j \in 1..i : b[j] = a[j]
      <3>0. a \in Seq(S) /\ c \in Seq(S)
        BY <2>2, <2>3
      <3>1. /\ Len(a \o c) = Len(a) + Len(c)
            /\ \A j \in 1..Len(a) : (a \o c)[j] = a[j]
            /\ \A j \in 1..Len(c) : (a \o c)[Len(a) + j] = c[j]
        BY <3>0, ConcatAt
      <3>2. /\ Len(b) = Len(a) + Len(c) /\ (\A j \in 1..Len(a) : b[j] = a[j])
            /\ \A j \in 1..Len(c) : b[Len(a) + j] = c[j]
        BY <2>2, <2>3, <3>1, Zenon
      <3>3. 1 \in 1..Len(c) /\ Len(a) + 1 = i + 1 /\ Len(a) + Len(c) = i + 1
        BY <2>2, <2>4
      <3>. QED BY <2>4, <3>2, <3>3
    <2>6. ASSUME NEW k \in 1..(i + 1) PROVE b[k] = ss[2 * k][1]
      <3>1. CASE k = i + 1
        BY <2>0, <2>1, <2>5, <3>1
      <3>2. CASE k # i + 1
        BY <2>4, <2>5, <3>2
      <3>. QED BY <3>1, <3>2
    <2>7. i + 1 \in 0..n /\ g[2 * (i + 1)] = b
      BY <2>0, <2>1
    <2>. QED BY <2>5, <2>6, <2>7
  <1>5. n \in T
    <2>1. \A i \in 0..n : i \in T
      <3> HIDE DEF T
      <3>. QED BY <1>3, <1>4, UpTo
    <2>. QED BY <2>1
  <1>6. 2 * n \in 0..(2 * n)
    OBVIOUS
  <1>. QED BY <1>2, <1>5, <1>6

\* All sequences have one element.
LEMMA FlattenSingles ==
  ASSUME NEW S, NEW q \in Seq(S)
  PROVE  FlattenSeq([i \in DOMAIN q |-> <<q[i]>>]) = q
PROOF
  <1>1. PICK ss : ss = [i \in DOMAIN q |-> <<q[i]>>]
    OBVIOUS
  <1>2. /\ DOMAIN q = 1..Len(q) /\ Len(q) \in Nat
        /\ \A i \in 1..Len(q) : q[i] \in S
    OBVIOUS
  <1>3. ss \in Seq(Seq(S)) /\ Len(ss) = Len(q)
    <2>1. ss = [i \in 1..Len(q) |-> <<q[i]>>] /\ \A i \in 1..Len(q) : <<q[i]>> \in Seq(S)
      BY <1>1, <1>2
    <2>. QED BY <1>2, <2>1
  <1>4. \A i \in 1..Len(q) : ss[i] = <<q[i]>> /\ Len(ss[i]) = 1 /\ ss[i][1] = q[i]
    BY <1>1, <1>2
  <1>5. CASE Len(q) = 0
    <2>1. q = <<>> /\ ss = <<>>
      BY <1>2, <1>3, <1>5
    <2>. QED BY <1>1, <2>1 DEF FlattenSeq
  <1>6. CASE Len(q) # 0
    <2>1. ss # <<>> /\ 1 \in 1..Len(q)
      BY <1>2, <1>3, <1>6
    <2>2. \A i \in 2..Len(ss) : Len(ss[i]) = 1
      BY <1>3, <1>4
    <2>3. /\ FlattenSeq(ss) \in Seq(S) /\ Len(FlattenSeq(ss)) = Len(ss[1]) + Len(ss) - 1
          /\ \A j \in 1..Len(ss[1]) : FlattenSeq(ss)[j] = ss[1][j]
          /\ \A i \in 2..Len(ss) : FlattenSeq(ss)[Len(ss[1]) + i - 1] = ss[i][1]
      BY <1>3, <2>1, <2>2, FlattenShift
    <2>4. Len(ss[1]) = 1 /\ ss[1][1] = q[1]
      BY <1>4, <2>1
    <2>5. PICK u : u = FlattenSeq(ss)
      OBVIOUS
    <2>6. u \in Seq(S) /\ Len(u) = Len(q)
      BY <1>2, <1>3, <2>3, <2>4, <2>5
    <2>7. ASSUME NEW i \in 1..Len(q) PROVE u[i] = q[i]
      <3>1. CASE i = 1
        BY <2>3, <2>4, <2>5, <3>1
      <3>2. CASE i # 1
        <4>1. i \in 2..Len(ss) /\ 1 + i - 1 = i
          BY <1>2, <1>3, <3>2
        <4>2. u[i] = ss[i][1]
          BY <2>3, <2>4, <2>5, <4>1
        <4>. QED BY <1>4, <4>2
      <3>. QED BY <3>1, <3>2
    <2>8. u = q
      BY <2>6, <2>7, SeqEqual
    <2>. QED BY <1>1, <2>5, <2>8
  <1>. QED BY <1>5, <1>6
=============================================================================
