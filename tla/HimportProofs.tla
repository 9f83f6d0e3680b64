--------------------------- MODULE HimportProofs ---------------------------
(***************************************************************************)
(* Proofs about Himport, for every set of HIMPORT SETs and every number of *)
(* faults: the coordinator's belief is right, and only a SET during which  *)
(* the application discarded something fails.                              *)
(***************************************************************************)
EXTENDS Himport, SequenceFacts

PrepareItem == [kind: {"prepare"}, id: Nat, session: Nat]
SetItem == [kind: {"set"}, set: Sets]
Item == PrepareItem \cup SetItem \cup Forgets

------------------------------------------------------------------------------
(* Queues: whether a SET is in one, whether nothing in it (or behind a SET)   *)
(* makes the server forget, and how often the SET is in it.                   *)

Has(q, c) == \E i \in DOMAIN q : q[i] = Set(c)
Calm(q) == \A i \in DOMAIN q : q[i] \notin Forgets
CalmAfter(q, c) == \A i, j \in DOMAIN q : q[i] = Set(c) /\ i < j => q[j] \notin Forgets
OnceIn(q, c) == \A i, j \in DOMAIN q : q[i] = Set(c) /\ q[j] = Set(c) => i = j

\* The kinds of items have no item in common.
LEMMA ItemKinds ==
  /\ \A c \in Sets : Set(c) \in Item /\ Set(c).kind = "set" /\ Set(c).set = c
  /\ \A x \in Item : /\ x.kind = "prepare" <=> x \in PrepareItem
                     /\ x.kind = "set" <=> x \in SetItem
                     /\ x.kind \in {"reset", "discard"} <=> x \in Forgets
                     /\ x.kind \in {"prepare", "set", "reset", "discard"}
  /\ \A x \in SetItem : x.set \in Sets /\ x = Set(x.set)
  /\ Forgets \subseteq Item /\ PrepareItem \subseteq Item
PROOF
  <1>1. \A c \in Sets : Set(c) \in SetItem /\ Set(c).kind = "set" /\ Set(c).set = c
    BY DEF Set, SetItem
  <1>2. \A x \in Forgets : x.kind = "reset" \/ x.kind = "discard"
    BY DEF Forgets
  <1>3. \A x \in PrepareItem : x.kind = "prepare"
    BY DEF PrepareItem
  <1>4. \A x \in SetItem : x.kind = "set" /\ x.set \in Sets /\ x = Set(x.set)
    BY DEF SetItem, Set
  <1>. QED BY <1>1, <1>2, <1>3, <1>4 DEF Item

\* One queue behind another.
LEMMA ConcatFacts ==
  ASSUME NEW a \in Seq(Item), NEW b \in Seq(Item)
  PROVE  /\ a \o b \in Seq(Item)
         /\ Calm(a \o b) <=> Calm(a) /\ Calm(b)
         /\ \A c \in Sets :
              /\ Has(a \o b, c) <=> Has(a, c) \/ Has(b, c)
              /\ CalmAfter(a \o b, c) <=>
                   CalmAfter(a, c) /\ CalmAfter(b, c) /\ (Has(a, c) => Calm(b))
              /\ OnceIn(a \o b, c) <=>
                   OnceIn(a, c) /\ OnceIn(b, c) /\ ~(Has(a, c) /\ Has(b, c))
PROOF
  <1> DEFINE u == a \o b
             m == Len(a)
             n == Len(b)
  <1>1. /\ u \in Seq(Item) /\ m \in Nat /\ n \in Nat
        /\ DOMAIN a = 1..m /\ DOMAIN b = 1..n /\ DOMAIN u = 1..(m + n)
    BY ConcatProperties
  <1>2. /\ \A i \in DOMAIN a : i \in DOMAIN u /\ u[i] = a[i]
        /\ \A i \in DOMAIN b : m + i \in DOMAIN u /\ u[m + i] = b[i]
    BY <1>1, ConcatProperties
  <1>3. \A i \in DOMAIN u : \/ i \in DOMAIN a /\ u[i] = a[i]
                            \/ i - m \in DOMAIN b /\ u[i] = b[i - m] /\ i = m + (i - m)
    <2>1. \A i \in 1..(m + n) : u[i] = IF i <= m THEN a[i] ELSE b[i - m]
      BY <1>1, ConcatProperties
    <2>. QED BY <1>1, <2>1
  <1> HIDE DEF u, m, n
  <1>4. Calm(u) <=> Calm(a) /\ Calm(b)
    BY <1>2, <1>3 DEF Calm
  <1>5. ASSUME NEW c \in Sets PROVE Has(u, c) <=> Has(a, c) \/ Has(b, c)
    BY <1>2, <1>3 DEF Has
  <1>6. ASSUME NEW c \in Sets
        PROVE  CalmAfter(u, c) <=>
                 CalmAfter(a, c) /\ CalmAfter(b, c) /\ (Has(a, c) => Calm(b))
    <2>1. ASSUME CalmAfter(u, c)
          PROVE  CalmAfter(a, c) /\ CalmAfter(b, c) /\ (Has(a, c) => Calm(b))
      <3>1. CalmAfter(a, c)
        BY <1>2, <2>1 DEF CalmAfter
      <3>2. CalmAfter(b, c)
        <4>1. \A i, j \in DOMAIN b : i < j => m + i < m + j
          BY <1>1
        <4>. QED BY <1>2, <2>1, <4>1 DEF CalmAfter
      <3>3. Has(a, c) => Calm(b)
        <4>1. \A i \in DOMAIN a, j \in DOMAIN b : i < m + j
          BY <1>1
        <4>. QED BY <1>2, <2>1, <4>1 DEF CalmAfter, Has, Calm
      <3>. QED BY <3>1, <3>2, <3>3
    <2>2. ASSUME CalmAfter(a, c), CalmAfter(b, c), Has(a, c) => Calm(b)
          PROVE  CalmAfter(u, c)
      <3> SUFFICES ASSUME NEW i \in DOMAIN u, NEW j \in DOMAIN u, u[i] = Set(c), i < j
                   PROVE  u[j] \notin Forgets
        BY DEF CalmAfter
      <3>1. CASE j \in DOMAIN a /\ u[j] = a[j]
        <4>1. i \in DOMAIN a
          BY <1>1, <3>1
        <4>. QED BY <1>2, <2>2, <3>1, <4>1 DEF CalmAfter
      <3>2. CASE j - m \in DOMAIN b /\ u[j] = b[j - m]
        <4>1. CASE i \in DOMAIN a /\ u[i] = a[i]
          BY <2>2, <3>2, <4>1 DEF Has, Calm
        <4>2. CASE i - m \in DOMAIN b /\ u[i] = b[i - m]
          <5>1. i - m < j - m
            BY <1>1
          <5>. QED BY <2>2, <3>2, <4>2, <5>1 DEF CalmAfter
        <4>. QED BY <1>3, <4>1, <4>2
      <3>. QED BY <1>3, <3>1, <3>2
    <2>. QED BY <2>1, <2>2
  <1>7. ASSUME NEW c \in Sets
        PROVE  OnceIn(u, c) <=> OnceIn(a, c) /\ OnceIn(b, c) /\ ~(Has(a, c) /\ Has(b, c))
    <2>1. ASSUME OnceIn(u, c) PROVE OnceIn(a, c) /\ OnceIn(b, c) /\ ~(Has(a, c) /\ Has(b, c))
      <3>1. OnceIn(a, c)
        BY <1>2, <2>1 DEF OnceIn
      <3>2. OnceIn(b, c)
        <4>1. \A i, j \in DOMAIN b : m + i = m + j => i = j
          BY <1>1
        <4>. QED BY <1>2, <2>1, <4>1 DEF OnceIn
      <3>3. ~(Has(a, c) /\ Has(b, c))
        <4>1. \A i \in DOMAIN a, j \in DOMAIN b : i # m + j
          BY <1>1
        <4>. QED BY <1>2, <2>1, <4>1 DEF OnceIn, Has
      <3>. QED BY <3>1, <3>2, <3>3
    <2>2. ASSUME OnceIn(a, c), OnceIn(b, c), ~(Has(a, c) /\ Has(b, c)) PROVE OnceIn(u, c)
      <3> SUFFICES ASSUME NEW i \in DOMAIN u, NEW j \in DOMAIN u, u[i] = Set(c), u[j] = Set(c)
                   PROVE  i = j
        BY DEF OnceIn
      <3>1. CASE i \in DOMAIN a /\ u[i] = a[i] /\ j \in DOMAIN a /\ u[j] = a[j]
        BY <2>2, <3>1 DEF OnceIn
      <3>2. CASE i - m \in DOMAIN b /\ u[i] = b[i - m] /\ j - m \in DOMAIN b /\ u[j] = b[j - m]
        <4>1. i - m = j - m
          BY <2>2, <3>2 DEF OnceIn
        <4>. QED BY <1>1, <4>1
      <3>. QED BY <1>3, <2>2, <3>1, <3>2 DEF Has
    <2>. QED BY <2>1, <2>2
  <1>. QED BY <1>1, <1>4, <1>5, <1>6, <1>7 DEF u

\* An empty queue, and a queue of one item.
LEMMA ShortQueues ==
  /\ <<>> \in Seq(Item) /\ Calm(<<>>)
  /\ \A c \in Sets : ~Has(<<>>, c) /\ CalmAfter(<<>>, c) /\ OnceIn(<<>>, c)
  /\ \A x \in Item :
       /\ <<x>> \in Seq(Item) /\ (Calm(<<x>>) <=> x \notin Forgets)
       /\ \A c \in Sets : CalmAfter(<<x>>, c) /\ OnceIn(<<x>>, c) /\ (Has(<<x>>, c) <=> x = Set(c))
PROOF
  <1>1. DOMAIN <<>> = {} /\ <<>> \in Seq(Item)
    OBVIOUS
  <1>2. ASSUME NEW x \in Item
        PROVE  <<x>> \in Seq(Item) /\ DOMAIN <<x>> = {1} /\ <<x>>[1] = x
    OBVIOUS
  <1>3. ~(1 < 1)
    OBVIOUS
  <1>4. ASSUME NEW x \in Item, NEW c \in Sets
        PROVE  CalmAfter(<<x>>, c) /\ OnceIn(<<x>>, c) /\ (Has(<<x>>, c) <=> x = Set(c))
    <2> DEFINE q == <<x>>
    <2>1. DOMAIN q = {1} /\ q[1] = x
      BY <1>2
    <2> HIDE DEF q
    <2>2. CalmAfter(q, c) /\ OnceIn(q, c) /\ (Has(q, c) <=> x = Set(c))
      BY <1>3, <2>1 DEF CalmAfter, OnceIn, Has
    <2>. QED BY <2>2 DEF q
  <1>5. ASSUME NEW x \in Item PROVE Calm(<<x>>) <=> x \notin Forgets
    <2> DEFINE q == <<x>>
    <2>1. DOMAIN q = {1} /\ q[1] = x
      BY <1>2
    <2> HIDE DEF q
    <2>2. Calm(q) <=> x \notin Forgets
      BY <2>1 DEF Calm
    <2>. QED BY <2>2 DEF q
  <1>. QED BY <1>1, <1>2, <1>4, <1>5 DEF Calm, Has, CalmAfter, OnceIn

\* An item more.
LEMMA AppendFacts ==
  ASSUME NEW q \in Seq(Item), NEW x \in Item
  PROVE  /\ Append(q, x) \in Seq(Item)
         /\ Calm(Append(q, x)) <=> Calm(q) /\ x \notin Forgets
         /\ \A c \in Sets :
              /\ Has(Append(q, x), c) <=> Has(q, c) \/ x = Set(c)
              /\ CalmAfter(Append(q, x), c) <=> CalmAfter(q, c) /\ (Has(q, c) => x \notin Forgets)
              /\ OnceIn(Append(q, x), c) <=> OnceIn(q, c) /\ ~(Has(q, c) /\ x = Set(c))
PROOF
  <1>1. Append(q, x) = q \o <<x>>
    OBVIOUS
  <1> DEFINE t == <<x>>
  <1>2. t \in Seq(Item) /\ (Calm(t) <=> x \notin Forgets)
        /\ \A c \in Sets : CalmAfter(t, c) /\ OnceIn(t, c) /\ (Has(t, c) <=> x = Set(c))
    BY ShortQueues
  <1> HIDE DEF t
  <1>3. /\ q \o t \in Seq(Item)
        /\ Calm(q \o t) <=> Calm(q) /\ x \notin Forgets
        /\ \A c \in Sets :
              /\ Has(q \o t, c) <=> Has(q, c) \/ x = Set(c)
              /\ CalmAfter(q \o t, c) <=> CalmAfter(q, c) /\ (Has(q, c) => x \notin Forgets)
              /\ OnceIn(q \o t, c) <=> OnceIn(q, c) /\ ~(Has(q, c) /\ x = Set(c))
    BY <1>2, ConcatFacts
  <1>. QED BY <1>1, <1>3 DEF t

\* An item less.
LEMMA TailFacts ==
  ASSUME NEW q \in Seq(Item), q # <<>>
  PROVE  /\ Tail(q) \in Seq(Item) /\ Head(q) \in Item
         /\ Calm(q) <=> Calm(Tail(q)) /\ Head(q) \notin Forgets
         /\ \A c \in Sets :
              /\ Has(q, c) <=> Has(Tail(q), c) \/ Head(q) = Set(c)
              /\ CalmAfter(q, c) <=> CalmAfter(Tail(q), c) /\ (Head(q) = Set(c) => Calm(Tail(q)))
              /\ OnceIn(q, c) <=> OnceIn(Tail(q), c) /\ ~(Has(Tail(q), c) /\ Head(q) = Set(c))
PROOF
  <1>1. Tail(q) \in Seq(Item) /\ Head(q) \in Item
    BY HeadTailProperties
  <1>2. q = <<Head(q)>> \o Tail(q)
    BY HeadThenTail
  <1> DEFINE t == Tail(q)
             x == Head(q)
  <1> HIDE DEF t, x
  <1>3. t \in Seq(Item) /\ x \in Item /\ q = <<x>> \o t
    BY <1>1, <1>2 DEF t, x
  <1>4. <<x>> \in Seq(Item)
    BY <1>3
  <1>5. /\ Calm(q) <=> Calm(t) /\ x \notin Forgets
        /\ \A c \in Sets :
              /\ Has(q, c) <=> Has(t, c) \/ x = Set(c)
              /\ CalmAfter(q, c) <=> CalmAfter(t, c) /\ (x = Set(c) => Calm(t))
              /\ OnceIn(q, c) <=> OnceIn(t, c) /\ ~(Has(t, c) /\ x = Set(c))
    BY <1>3, <1>4, ShortQueues, ConcatFacts
  <1>. QED BY <1>1, <1>5 DEF t, x

\* The SETs that are resumed: each once, in some order.
LEMMA ResumedFacts ==
  ASSUME NEW cs \in SUBSET Sets, IsFiniteSet(cs)
  PROVE  LET sets == SetToSeq({Set(c) : c \in cs})
         IN  /\ sets \in Seq(Item) /\ sets \in Seq(SetItem) /\ Calm(sets)
             /\ \A c \in Sets : CalmAfter(sets, c) /\ OnceIn(sets, c) /\ (Has(sets, c) <=> c \in cs)
PROOF
  <1> DEFINE S == {Set(c) : c \in cs}
             sets == SetToSeq(S)
  <1>1. IsFiniteSet(S)
    <2>1. [c \in cs |-> Set(c)] \in Surjection(cs, S)
      BY DEF Surjection
    <2>. QED BY <2>1, FS_Surjection
  <1> HIDE DEF S
  <1>2. sets \in Seq(S) /\ ToSet(sets) = S /\ IsInjective(sets)
    BY <1>1, SetToSeqFacts
  <1>3. S \subseteq SetItem /\ SetItem \subseteq Item
    BY ItemKinds DEF S, Item, SetItem, Set
  <1> HIDE DEF sets
  <1>4. sets \in Seq(Item) /\ sets \in Seq(SetItem)
    BY <1>2, <1>3
  <1>5. \A i \in DOMAIN sets : sets[i] \in S
    BY <1>2
  <1>6. \A x \in SetItem : x \notin Forgets
    BY DEF SetItem, Forgets
  <1>7. Calm(sets)
    BY <1>3, <1>5, <1>6 DEF Calm
  <1>8. \A c \in Sets : Has(sets, c) <=> c \in cs
    <2>1. \A c \in Sets : Has(sets, c) <=> Set(c) \in S
      BY <1>2 DEF Has, ToSet
    <2>2. \A c \in Sets : Set(c) \in S <=> c \in cs
      BY ItemKinds DEF S
    <2>. QED BY <2>1, <2>2
  <1>9. \A c \in Sets : OnceIn(sets, c) /\ CalmAfter(sets, c)
    BY <1>2, <1>7 DEF OnceIn, IsInjective, CalmAfter, Calm
  <1>. QED BY <1>4, <1>7, <1>8, <1>9 DEF sets, S

------------------------------------------------------------------------------
(* Resets and PREPAREs in a queue.                                           *)

NoReset(q) == \A i \in DOMAIN q : q[i].kind # "reset"

\* Every PREPARE of q has a number below n.
Below(q, n) == \A i \in DOMAIN q : q[i].kind = "prepare" => q[i].id < n

\* No reset is behind a PREPARE with that number.
Fresh(q, id) ==
  \A i, j \in DOMAIN q : i < j /\ q[i].kind = "prepare" /\ q[j].kind = "reset" => q[i].id # id

OnlyPrepares(q) == \A i \in DOMAIN q : q[i].kind = "prepare"

\* What an item more does to them ...
LEMMA ResetAppend ==
  ASSUME NEW q \in Seq(Item), NEW x \in Item, NEW n \in Nat, NEW id \in Nat
  PROVE  /\ NoReset(q) /\ x.kind # "reset" => NoReset(Append(q, x))
         /\ Below(q, n) /\ (x.kind = "prepare" => x.id < n) => Below(Append(q, x), n)
         /\ Fresh(q, id) /\ x.kind # "reset" => Fresh(Append(q, x), id)
         /\ OnlyPrepares(q) /\ x.kind = "prepare" => OnlyPrepares(Append(q, x))
PROOF
  <1>1. DOMAIN q = 1..Len(q) /\ DOMAIN Append(q, x) = 1..(Len(q) + 1) /\ Len(q) \in Nat
    OBVIOUS
  <1>2. \A i \in DOMAIN Append(q, x) :
          \/ i \in DOMAIN q /\ Append(q, x)[i] = q[i]
          \/ i = Len(q) + 1 /\ Append(q, x)[i] = x
    BY <1>1
  <1>3. \A i, j \in DOMAIN Append(q, x) : j \in DOMAIN q /\ i < j => i \in DOMAIN q
    BY <1>1
  <1>4. \A i \in DOMAIN q : i # Len(q) + 1
    BY <1>1
  <1> DEFINE u == Append(q, x)
  <1> HIDE DEF u
  <1>5. \A i \in DOMAIN u : \/ i \in DOMAIN q /\ u[i] = q[i]
                            \/ i = Len(q) + 1 /\ u[i] = x
    BY <1>2 DEF u
  <1>6. \A i, j \in DOMAIN u : j \in DOMAIN q /\ i < j => i \in DOMAIN q
    BY <1>3 DEF u
  <1>7. NoReset(q) /\ x.kind # "reset" => NoReset(u)
    BY <1>5 DEF NoReset
  <1>8. Below(q, n) /\ (x.kind = "prepare" => x.id < n) => Below(u, n)
    BY <1>5 DEF Below
  <1>9. OnlyPrepares(q) /\ x.kind = "prepare" => OnlyPrepares(u)
    BY <1>5 DEF OnlyPrepares
  <1>10. Fresh(q, id) /\ x.kind # "reset" => Fresh(u, id)
    BY <1>5, <1>6 DEF Fresh
  <1>. QED BY <1>7, <1>8, <1>9, <1>10 DEF u

\* ... and several SETs more ...
LEMMA ResetConcat ==
  ASSUME NEW q \in Seq(Item), NEW t \in Seq(Item), NEW n \in Nat, NEW id \in Nat
  PROVE  /\ Below(q, n) /\ Below(t, n) => Below(q \o t, n)
         /\ NoReset(q) /\ NoReset(t) => NoReset(q \o t)
         /\ Fresh(q, id) /\ NoReset(t) => Fresh(q \o t, id)
PROOF
  <1> DEFINE u == q \o t
             m == Len(q)
  <1>1. /\ m \in Nat /\ DOMAIN q = 1..m /\ DOMAIN t = 1..Len(t) /\ Len(t) \in Nat
        /\ DOMAIN u = 1..(m + Len(t))
    BY ConcatProperties
  <1>2. \A i \in DOMAIN u : \/ i \in DOMAIN q /\ u[i] = q[i]
                            \/ i - m \in DOMAIN t /\ u[i] = t[i - m]
    <2>1. \A i \in 1..(m + Len(t)) : u[i] = IF i <= m THEN q[i] ELSE t[i - m]
      BY <1>1, ConcatProperties
    <2>. QED BY <1>1, <2>1
  <1>3. \A i, j \in DOMAIN u : j \in DOMAIN q /\ i < j => i \in DOMAIN q /\ u[i] = q[i]
    BY <1>1, ConcatProperties
  <1> HIDE DEF u, m
  <1>4. Below(q, n) /\ Below(t, n) => Below(u, n)
    BY <1>2 DEF Below
  <1>5. NoReset(q) /\ NoReset(t) => NoReset(u)
    BY <1>2 DEF NoReset
  <1>6. Fresh(q, id) /\ NoReset(t) => Fresh(u, id)
    BY <1>2, <1>3 DEF Fresh, NoReset
  <1>. QED BY <1>4, <1>5, <1>6 DEF u

\* ... and an item less.
LEMMA ResetTail ==
  ASSUME NEW q \in Seq(Item), q # <<>>, NEW n \in Nat, NEW id \in Nat
  PROVE  /\ NoReset(q) => NoReset(Tail(q))
         /\ Below(q, n) => Below(Tail(q), n) /\ (Head(q).kind = "prepare" => Head(q).id < n)
         /\ Fresh(q, id) => Fresh(Tail(q), id)
         /\ Fresh(q, id) /\ Head(q).kind = "prepare" /\ Head(q).id = id => NoReset(Tail(q))
         /\ OnlyPrepares(q) => OnlyPrepares(Tail(q)) /\ Head(q).kind = "prepare"
         /\ NoReset(q) => Head(q).kind # "reset"
PROOF
  <1>1. /\ Len(Tail(q)) = Len(q) - 1 /\ Tail(q) \in Seq(Item)
        /\ \A i \in 1..Len(Tail(q)) : Tail(q)[i] = q[i + 1]
    BY HeadTailProperties
  <1>2. /\ \A i \in DOMAIN Tail(q) : i + 1 \in DOMAIN q /\ Tail(q)[i] = q[i + 1] /\ 1 < i + 1
        /\ \A i, j \in DOMAIN Tail(q) : i < j => i + 1 < j + 1
        /\ 1 \in DOMAIN q /\ Head(q) = q[1]
    BY <1>1
  <1> DEFINE t == Tail(q)
             x == Head(q)
  <1> HIDE DEF t, x
  <1>3. /\ \A i \in DOMAIN t : i + 1 \in DOMAIN q /\ t[i] = q[i + 1] /\ 1 < i + 1
        /\ \A i, j \in DOMAIN t : i < j => i + 1 < j + 1
        /\ 1 \in DOMAIN q /\ x = q[1]
    BY <1>2 DEF t, x
  <1>4. (NoReset(q) => NoReset(t)) /\ (NoReset(q) => x.kind # "reset")
    BY <1>3 DEF NoReset
  <1>5. Below(q, n) => Below(t, n) /\ (x.kind = "prepare" => x.id < n)
    BY <1>3 DEF Below
  <1>6. Fresh(q, id) => Fresh(t, id)
    BY <1>3 DEF Fresh
  <1>7. Fresh(q, id) /\ x.kind = "prepare" /\ x.id = id => NoReset(t)
    BY <1>3 DEF Fresh, NoReset
  <1>8. OnlyPrepares(q) => OnlyPrepares(t) /\ x.kind = "prepare"
    BY <1>3 DEF OnlyPrepares
  <1>. QED BY <1>4, <1>5, <1>6, <1>7, <1>8 DEF t, x

\* A queue without a reset is fresh for every number, one with smaller numbers for that
\* number, and SETs are neither resets nor PREPAREs.
LEMMA ResetShort ==
  /\ \A q, id : NoReset(q) => Fresh(q, id)
  /\ \A q : \A n \in Nat : q \in Seq(Item) /\ Below(q, n) => Fresh(q, n) /\ Below(q, n + 1)
  /\ \A n : NoReset(<<>>) /\ Below(<<>>, n) /\ OnlyPrepares(<<>>)
  /\ \A q : \A n : q \in Seq(SetItem) => NoReset(q) /\ Below(q, n)
PROOF
  <1>1. ASSUME NEW q \in Seq(Item), NEW n \in Nat, Below(q, n)
        PROVE  Fresh(q, n) /\ Below(q, n + 1)
    <2>1. \A i \in DOMAIN q : q[i].kind = "prepare" => q[i].id \in Nat
      <3>1. \A i \in DOMAIN q : q[i] \in Item
        OBVIOUS
      <3>. QED BY <3>1, ItemKinds DEF PrepareItem
    <2>. QED BY <1>1, <2>1 DEF Below, Fresh
  <1>2. ASSUME NEW q \in Seq(SetItem), NEW n PROVE NoReset(q) /\ Below(q, n)
    <2>1. \A i \in DOMAIN q : q[i] \in SetItem
      OBVIOUS
    <2>2. \A i \in DOMAIN q : q[i].kind = "set"
      BY <2>1 DEF SetItem
    <2>. QED BY <2>2 DEF NoReset, Below
  <1>3. \A n : NoReset(<<>>) /\ Below(<<>>, n) /\ OnlyPrepares(<<>>)
    BY DEF NoReset, Below, OnlyPrepares
  <1>4. \A q, id : NoReset(q) => Fresh(q, id)
    BY DEF NoReset, Fresh
  <1>. QED BY <1>1, <1>2, <1>3, <1>4

------------------------------------------------------------------------------
(* The invariant, as a predicate of the client k, of what is known of the     *)
(* server (srv: it has the fieldset; right: or it was discarded by hand) and  *)
(* of the SETs D during which something was discarded.  So stated it can be   *)
(* carried from one operator of an action to the next.                        *)

Outcomes == {"none", "pending", "done", "refused", "missing", "timeout"}
Client ==
  [status: {"down", "connect", "ready"}, session: Nat,
   entry: [status: {"none", "preparing", "prepared"}, id: Nat], handshake: Nat, next: Nat \ {0},
   wire: Seq(Item), resend: Seq(Item), offline: Seq(Item), backlog: Seq(Item),
   waiting: [Sets -> Nat], recovered: SUBSET Sets, outcome: [Sets -> Outcomes]]

\* PREPAREs are numbered in the order they are made.
Numbered(k) ==
  /\ Below(k.wire, k.next) /\ Below(k.resend, k.next)
  /\ Below(k.offline, k.next) /\ Below(k.backlog, k.next)
  /\ k.entry.status = "preparing" => k.entry.id \in 1..(k.next - 1)

\* What a reset on its way invalidates is not believed, and no PREPARE ahead of it
\* can settle the entry.
Unspoilt(k) ==
  /\ k.entry.status = "prepared" => NoReset(k.wire)
  /\ k.entry.status = "preparing" => Fresh(k.wire, k.entry.id)

\* Only what readyHandler sends is a backlog, and a handshake writes PREPAREs only.
Shapes(k) ==
  /\ k.status = "ready" => k.resend = <<>> /\ k.offline = <<>>
  /\ k.status # "ready" => k.backlog = <<>> /\ OnlyPrepares(k.wire)

Queued(k, c) == Has(k.wire, c) \/ Has(k.backlog, c) \/ Has(k.resend, c) \/ Has(k.offline, c)

\* A SET is in one place: once in a queue, or waiting for a PREPARE.
OnePlace(k, c) ==
  /\ OnceIn(k.wire, c) /\ OnceIn(k.backlog, c) /\ OnceIn(k.resend, c) /\ OnceIn(k.offline, c)
  /\ Has(k.wire, c) => ~Has(k.backlog, c)
  /\ Has(k.resend, c) => ~Has(k.offline, c)
  /\ k.waiting[c] # 0 => ~Queued(k, c) /\ k.outcome[c] = "pending"
  /\ k.outcome[c] = "none" => ~Queued(k, c) /\ c \notin k.recovered

\* The SETs that must not fail.
Clean(k, D) == {c \in Sets \ (Piped \cup D) : k.outcome[c] = "pending"}

\* Nothing is discarded behind such a SET ...
Undiscarded(k, c) ==
  /\ CalmAfter(k.wire, c) /\ CalmAfter(k.backlog, c)
  /\ CalmAfter(k.resend, c) /\ CalmAfter(k.offline, c)
  /\ Has(k.wire, c) => Calm(k.backlog)
  /\ Has(k.resend, c) => Calm(k.offline)

\* ... and once it was answered "no such fieldset", nothing is at all: it is sent again
\* only to a server that has the fieldset.
Recovering(k, c, srv) ==
  /\ Calm(k.wire) /\ Calm(k.backlog) /\ Calm(k.resend) /\ Calm(k.offline)
  /\ k.entry.status = "prepared" => srv
  /\ Has(k.wire, c) => srv

Good(k, D, srv, right) ==
  /\ k \in Client /\ IsFiniteSet({c \in Sets : k.waiting[c] # 0})
  /\ Numbered(k) /\ Unspoilt(k) /\ Shapes(k)
  /\ \A c \in Sets : OnePlace(k, c)
  /\ \A c \in Clean(k, D) : Undiscarded(k, c)
  /\ \A c \in Clean(k, D) \cap k.recovered : Recovering(k, c, srv)
  /\ k.entry.status = "prepared" => right
  /\ \A c \in Sets \ (Piped \cup D) : k.outcome[c] # "missing"

\* Knowing less of the SETs and more of the server.
LEMMA GoodWeakens ==
  ASSUME NEW k, NEW D, NEW E, D \subseteq E, NEW srv \in BOOLEAN, NEW srv2 \in BOOLEAN,
         NEW right \in BOOLEAN, NEW right2 \in BOOLEAN, srv => srv2, right => right2,
         Good(k, D, srv, right)
  PROVE  Good(k, E, srv2, right2)
PROOF
  <1>1. Clean(k, E) \subseteq Clean(k, D)
    BY DEF Clean
  <1>. QED BY <1>1 DEF Good, Recovering

------------------------------------------------------------------------------
(* Sending.                                                                  *)

\* What may be sent: no discarding behind a SET that must not fail, no SET that is
\* somewhere else already.
MaySend(k, D, item) ==
  /\ item \in Item
  /\ item.kind = "prepare" => item.id < k.next
  /\ item \in Forgets => \A c \in Clean(k, D) :
       k.status = "ready" /\ ~Has(k.wire, c) /\ c \notin k.recovered
  /\ \A c \in Sets : item = Set(c) =>
       /\ ~Queued(k, c) /\ k.waiting[c] = 0 /\ k.outcome[c] # "none"
       /\ c \in Clean(k, D) => Calm(k.backlog)

\* What may be written: no reset behind a belief, no second try to a server that may
\* lack the fieldset.
MayWrite(k, D, srv, item) ==
  /\ MaySend(k, D, item)
  /\ item.kind = "reset" => k.entry.status = "none"
  /\ \A c \in Clean(k, D) \cap k.recovered : item = Set(c) /\ k.status = "ready" => srv

\* What sending leaves alone.
SameBut(k, kk) ==
  /\ kk.status = k.status /\ kk.session = k.session
  /\ kk.resend = k.resend /\ kk.backlog = k.backlog
  /\ kk.recovered = k.recovered /\ kk.outcome = k.outcome

\* Write keeps the invariant, and adds the item to one queue.
LEMMA WriteGood ==
  ASSUME NEW k, NEW D, NEW srv \in BOOLEAN, NEW right \in BOOLEAN, Good(k, D, srv, right),
         NEW item, MayWrite(k, D, srv, item)
  PROVE  /\ Good(Write(k, item), D, srv, right) /\ SameBut(k, Write(k, item))
         /\ Write(k, item).entry = k.entry /\ Write(k, item).waiting = k.waiting
         /\ Write(k, item).next = k.next
         /\ \A c \in Sets : Queued(Write(k, item), c) <=> Queued(k, c) \/ item = Set(c)
PROOF
  <1> DEFINE kk == Write(k, item)
  <1>0. k \in Client /\ item \in Item /\ k.next \in Nat /\ k.entry.id \in Nat
    BY DEF Good, MayWrite, MaySend, Client
  <1> DEFINE written == k.status = "ready" \/ (k.status = "connect" /\ item.kind = "prepare")
  <1>1. /\ kk \in Client /\ SameBut(k, kk) /\ kk.entry = k.entry /\ kk.next = k.next
        /\ kk.waiting = k.waiting
        /\ written => kk.wire = Append(k.wire, item) /\ kk.offline = k.offline
        /\ ~written => kk.wire = k.wire /\ kk.offline = Append(k.offline, item)
    <2>1. Append(k.wire, item) \in Seq(Item) /\ Append(k.offline, item) \in Seq(Item)
      BY <1>0, AppendFacts DEF Client
    <2>2. CASE written
      <3>1. kk = [k EXCEPT !.wire = Append(@, item)]
        BY <2>2, Zenon DEF Write
      <3>. QED BY <1>0, <2>1, <2>2, <3>1 DEF Client, SameBut
    <2>3. CASE ~written
      <3>1. kk = [k EXCEPT !.offline = Append(@, item)]
        BY <2>3, Zenon DEF Write
      <3>. QED BY <1>0, <2>1, <2>3, <3>1 DEF Client, SameBut
    <2>. QED BY <2>2, <2>3
  <1> HIDE DEF kk
  <1>2. /\ k.wire \in Seq(Item) /\ k.offline \in Seq(Item) /\ k.backlog \in Seq(Item)
        /\ k.resend \in Seq(Item)
    BY <1>0 DEF Client
  <1>21. /\ Calm(kk.wire) <=> Calm(k.wire) /\ (written => item \notin Forgets)
         /\ \A c \in Sets :
              /\ Has(kk.wire, c) <=> Has(k.wire, c) \/ (written /\ item = Set(c))
              /\ CalmAfter(kk.wire, c) <=>
                   CalmAfter(k.wire, c) /\ (written /\ Has(k.wire, c) => item \notin Forgets)
              /\ OnceIn(kk.wire, c) <=>
                   OnceIn(k.wire, c) /\ ~(written /\ Has(k.wire, c) /\ item = Set(c))
    <2>1. CASE written
      <3> HIDE DEF written
      <3>1. kk.wire = Append(k.wire, item)
        BY <1>1, <2>1
      <3>2. /\ Calm(kk.wire) <=> Calm(k.wire) /\ item \notin Forgets
            /\ \A c \in Sets :
                 /\ Has(kk.wire, c) <=> Has(k.wire, c) \/ item = Set(c)
                 /\ CalmAfter(kk.wire, c) <=> CalmAfter(k.wire, c) /\ (Has(k.wire, c) => item \notin Forgets)
                 /\ OnceIn(kk.wire, c) <=> OnceIn(k.wire, c) /\ ~(Has(k.wire, c) /\ item = Set(c))
        BY <1>0, <1>2, <3>1, AppendFacts
      <3>. QED BY <2>1, <3>2
    <2>2. CASE ~written
      <3> HIDE DEF written
      <3>1. kk.wire = k.wire
        BY <1>1, <2>2
      <3>. QED BY <2>2, <3>1
    <2>. QED BY <2>1, <2>2
  <1>22. /\ Calm(kk.offline) <=> Calm(k.offline) /\ (~written => item \notin Forgets)
         /\ \A c \in Sets :
              /\ Has(kk.offline, c) <=> Has(k.offline, c) \/ (~written /\ item = Set(c))
              /\ CalmAfter(kk.offline, c) <=>
                   CalmAfter(k.offline, c) /\ (~written /\ Has(k.offline, c) => item \notin Forgets)
              /\ OnceIn(kk.offline, c) <=>
                   OnceIn(k.offline, c) /\ ~(~written /\ Has(k.offline, c) /\ item = Set(c))
    <2>1. CASE ~written
      <3> HIDE DEF written
      <3>1. kk.offline = Append(k.offline, item)
        BY <1>1, <2>1
      <3>2. /\ Calm(kk.offline) <=> Calm(k.offline) /\ item \notin Forgets
            /\ \A c \in Sets :
                 /\ Has(kk.offline, c) <=> Has(k.offline, c) \/ item = Set(c)
                 /\ CalmAfter(kk.offline, c) <=>
                      CalmAfter(k.offline, c) /\ (Has(k.offline, c) => item \notin Forgets)
                 /\ OnceIn(kk.offline, c) <=>
                      OnceIn(k.offline, c) /\ ~(Has(k.offline, c) /\ item = Set(c))
        BY <1>0, <1>2, <3>1, AppendFacts
      <3>. QED BY <2>1, <3>2
    <2>2. CASE written
      <3> HIDE DEF written
      <3>1. kk.offline = k.offline
        BY <1>1, <2>2
      <3>. QED BY <2>2, <3>1
    <2>. QED BY <2>1, <2>2
  <1>3. IsFiniteSet({c \in Sets : kk.waiting[c] # 0})
    BY <1>1 DEF Good
  <1>4. Numbered(kk)
    BY <1>0, <1>1, <1>2, ResetAppend DEF Good, Numbered, MayWrite, MaySend, SameBut
  <1>5. Unspoilt(kk)
    <2>1. CASE item.kind = "reset"
      BY <1>1, <2>1 DEF MayWrite, MaySend, Unspoilt
    <2>2. CASE item.kind # "reset"
      BY <1>0, <1>1, <1>2, <2>2, ResetAppend DEF Good, Unspoilt
    <2>. QED BY <2>1, <2>2
  <1>6. Shapes(kk)
    BY <1>0, <1>1, <1>2, ResetAppend DEF Good, Shapes, SameBut
  <1>7. \A c \in Sets : Queued(kk, c) <=> Queued(k, c) \/ item = Set(c)
    BY <1>1, <1>21, <1>22 DEF Queued, SameBut
  <1>8. ASSUME NEW c \in Sets PROVE OnePlace(kk, c)
    <2>1. OnePlace(k, c)
      BY DEF Good
    <2>2. CASE item = Set(c)
      <3>1. ~Queued(k, c) /\ kk.waiting[c] = 0 /\ kk.outcome[c] # "none"
        BY <1>1, <2>2 DEF MayWrite, MaySend, SameBut
      <3>. QED BY <1>1, <1>21, <1>22, <2>1, <2>2, <3>1 DEF OnePlace, Queued, SameBut
    <2>3. CASE item # Set(c)
      <3>1. Queued(kk, c) <=> Queued(k, c)
        BY <1>7, <2>3
      <3>. QED BY <1>1, <1>21, <1>22, <2>1, <2>3, <3>1 DEF OnePlace, SameBut
    <2>. QED BY <2>2, <2>3
  <1>9. Clean(kk, D) = Clean(k, D)
    BY <1>1 DEF Clean, SameBut
  <1>10. ASSUME NEW c \in Clean(kk, D) PROVE Undiscarded(kk, c)
    <2>1. c \in Sets /\ c \in Clean(k, D) /\ Undiscarded(k, c)
      BY <1>9 DEF Good, Clean
    <2>2. CASE item \in Forgets
      <3>1. k.status = "ready" /\ ~Has(k.wire, c)
        BY <2>1, <2>2 DEF MayWrite, MaySend
      <3>2. kk.wire = Append(k.wire, item) /\ kk.offline = k.offline /\ item # Set(c)
        BY <1>1, <2>1, <2>2, <3>1, ItemKinds
      <3>. QED BY <1>1, <1>21, <1>22, <2>1, <3>1, <3>2 DEF Undiscarded, SameBut
    <2>3. CASE item \notin Forgets /\ item # Set(c)
      BY <1>1, <1>21, <1>22, <2>1, <2>3 DEF Undiscarded, SameBut
    <2>4. CASE item = Set(c)
      <3>1. ~Queued(k, c) /\ Calm(k.backlog) /\ item \notin Forgets
        BY <2>1, <2>4, ItemKinds DEF MayWrite, MaySend
      <3>. QED BY <1>1, <1>21, <1>22, <2>1, <2>4, <3>1 DEF Undiscarded, Queued, SameBut
    <2>. QED BY <2>2, <2>3, <2>4
  <1>11. ASSUME NEW c \in Clean(kk, D) \cap kk.recovered PROVE Recovering(kk, c, srv)
    <2>1. c \in Sets /\ c \in Clean(k, D) /\ c \in k.recovered /\ Recovering(k, c, srv)
      BY <1>1, <1>9 DEF Good, Clean, SameBut
    <2>2. item \notin Forgets
      BY <2>1 DEF MayWrite, MaySend
    <2>3. item = Set(c) /\ k.status = "ready" => srv
      BY <2>1 DEF MayWrite, MaySend
    <2>4. item = Set(c) => item.kind # "prepare"
      BY <2>1, ItemKinds
    <2>. QED BY <1>1, <1>21, <1>22, <2>1, <2>2, <2>3, <2>4 DEF Recovering, SameBut
  <1>12. kk.entry.status = "prepared" => right
    BY <1>1 DEF Good
  <1>13. Good(kk, D, srv, right)
    BY <1>1, <1>3, <1>4, <1>5, <1>6, <1>8, <1>10, <1>11, <1>12 DEF Good, SameBut
  <1>. QED BY <1>1, <1>7, <1>13 DEF kk

\* A change of the entry that spoils nothing.
LEMMA EntryGood ==
  ASSUME NEW k, NEW D, NEW srv \in BOOLEAN, NEW right \in BOOLEAN, Good(k, D, srv, right),
         NEW kk \in Client, SameBut(k, kk), kk.wire = k.wire, kk.offline = k.offline,
         kk.waiting = k.waiting, Numbered(kk), Unspoilt(kk),
         kk.entry.status = "prepared" => (srv /\ right) \/ k.entry.status = "prepared"
  PROVE  Good(kk, D, srv, right) /\ \A c \in Sets : Queued(kk, c) <=> Queued(k, c)
PROOF
  <1>1. Clean(kk, D) = Clean(k, D)
    BY DEF Clean, SameBut
  <1>2. \A c : Queued(kk, c) <=> Queued(k, c)
    BY DEF Queued, SameBut
  <1>3. Shapes(kk) /\ IsFiniteSet({c \in Sets : kk.waiting[c] # 0})
    BY DEF Good, Shapes, SameBut
  <1>4. \A c \in Sets : OnePlace(kk, c)
    BY <1>2 DEF Good, OnePlace, SameBut
  <1>5. \A c \in Clean(kk, D) : Undiscarded(kk, c)
    BY <1>1 DEF Good, Undiscarded, SameBut
  <1>6. \A c \in Clean(kk, D) \cap kk.recovered : Recovering(kk, c, srv)
    BY <1>1 DEF Good, Recovering, SameBut
  <1>7. kk.entry.status = "prepared" => right
    BY DEF Good
  <1>. QED BY <1>2, <1>3, <1>4, <1>5, <1>6, <1>7 DEF Good, SameBut

\* ensurePrepared: afterwards there is an entry, and a new one is only being prepared.
LEMMA EnsurePreparedGood ==
  ASSUME NEW k, NEW D, NEW srv \in BOOLEAN, NEW right \in BOOLEAN, Good(k, D, srv, right)
  PROVE  /\ Good(EnsurePrepared(k), D, srv, right) /\ SameBut(k, EnsurePrepared(k))
         /\ EnsurePrepared(k).waiting = k.waiting
         /\ EnsurePrepared(k).entry.status \in {"preparing", "prepared"}
         /\ EnsurePrepared(k).entry.status = "prepared" => EnsurePrepared(k) = k
         /\ EnsurePrepared(k).entry.status = "preparing" => EnsurePrepared(k).entry.id # 0
         /\ \A c \in Sets : Queued(EnsurePrepared(k), c) <=> Queued(k, c)
PROOF
  <1>0. k \in Client /\ k.next \in Nat \ {0} /\ k.entry.status \in {"none", "preparing", "prepared"}
    BY DEF Good, Client
  <1>1. CASE k.entry.status # "none"
    <2>1. EnsurePrepared(k) = k
      BY <1>1 DEF EnsurePrepared
    <2>2. k.entry.status = "preparing" => k.entry.id # 0
      BY <1>0 DEF Good, Numbered
    <2>. QED BY <1>0, <1>1, <2>1, <2>2 DEF SameBut
  <1>2. CASE k.entry.status = "none"
    <2> DEFINE begun == [k EXCEPT !.entry = [status |-> "preparing", id |-> k.next], !.next = @ + 1]
               kk == Write(begun, Prepare(k))
    <2>1. EnsurePrepared(k) = kk
      BY <1>2 DEF EnsurePrepared
    <2>2. /\ begun \in Client /\ SameBut(k, begun) /\ begun.next = k.next + 1
          /\ begun.entry = [status |-> "preparing", id |-> k.next]
          /\ begun.wire = k.wire /\ begun.offline = k.offline /\ begun.waiting = k.waiting
      <3>1. [status |-> "preparing", id |-> k.next]
              \in [status: {"none", "preparing", "prepared"}, id: Nat]
        BY <1>0
      <3>2. k.next + 1 \in Nat \ {0}
        BY <1>0
      <3> DEFINE e == [status |-> "preparing", id |-> k.next]
                 n == k.next + 1
      <3>3. begun = [k EXCEPT !.entry = e, !.next = n]
        OBVIOUS
      <3>4. e \in [status: {"none", "preparing", "prepared"}, id: Nat] /\ n \in Nat \ {0}
        BY <3>1, <3>2
      <3> HIDE DEF e, n, begun
      <3>5. /\ begun \in Client /\ SameBut(k, begun) /\ begun.next = n /\ begun.entry = e
            /\ begun.wire = k.wire /\ begun.offline = k.offline /\ begun.waiting = k.waiting
        BY <1>0, <3>3, <3>4 DEF Client, SameBut
      <3>. QED BY <3>5 DEF e, n
    <2> HIDE DEF begun
    <2>3. /\ k.wire \in Seq(Item) /\ k.offline \in Seq(Item) /\ k.backlog \in Seq(Item)
          /\ k.resend \in Seq(Item)
      BY <1>0 DEF Client
    <2>4. Numbered(begun)
      BY <1>0, <2>2, <2>3, ResetShort DEF Good, Numbered, SameBut
    <2>5. Unspoilt(begun)
      BY <1>0, <2>2, <2>3, ResetShort DEF Good, Numbered, Unspoilt
    <2>6. Good(begun, D, srv, right) /\ \A c \in Sets : Queued(begun, c) <=> Queued(k, c)
      BY <2>2, <2>4, <2>5, EntryGood
    <2> DEFINE p == Prepare(k)
    <2>7. p \in Item /\ p.kind = "prepare" /\ p.id < begun.next
      <3>1. k.next \in Nat /\ k.session \in Nat
        BY <1>0 DEF Client
      <3>2. p \in PrepareItem /\ p.kind = "prepare" /\ p.id = k.next
        BY <3>1 DEF Prepare, PrepareItem
      <3> HIDE DEF p
      <3>. QED BY <2>2, <3>1, <3>2 DEF Item
    <2> HIDE DEF p
    <2>8. MayWrite(begun, D, srv, p)
      <3>1. p \notin Forgets /\ \A c \in Sets : p # Set(c)
        BY <2>7, ItemKinds
      <3>2. \A c \in Clean(begun, D) : c \in Sets
        BY DEF Clean
      <3>3. MaySend(begun, D, p)
        BY <2>7, <3>1 DEF MaySend
      <3>. QED BY <2>7, <3>1, <3>2, <3>3 DEF MayWrite
    <2>9. /\ Good(kk, D, srv, right) /\ SameBut(begun, kk) /\ kk.entry = begun.entry
          /\ kk.waiting = begun.waiting
          /\ \A c \in Sets : Queued(kk, c) <=> Queued(begun, c)
      <3>1. kk = Write(begun, p)
        BY DEF p
      <3>2. \A c \in Sets : p # Set(c)
        BY <2>7, ItemKinds
      <3>. QED BY <2>6, <2>8, <3>1, <3>2, WriteGood
    <2> HIDE DEF kk
    <2>. QED BY <1>0, <2>1, <2>2, <2>6, <2>9 DEF SameBut
  <1>. QED BY <1>1, <1>2

\* What waits is in no queue.
LEMMA WaitingGood ==
  ASSUME NEW k, NEW D, NEW srv \in BOOLEAN, NEW right \in BOOLEAN, Good(k, D, srv, right),
         NEW kk \in Client, SameBut(k, kk), kk.entry = k.entry, kk.next = k.next,
         kk.wire = k.wire, kk.offline = k.offline,
         IsFiniteSet({c \in Sets : kk.waiting[c] # 0}),
         \A c \in Sets : kk.waiting[c] # 0 =>
            k.waiting[c] # 0 \/ (~Queued(k, c) /\ k.outcome[c] = "pending")
  PROVE  Good(kk, D, srv, right)
PROOF
  <1>1. Numbered(kk) /\ Unspoilt(kk) /\ Shapes(kk)
    BY DEF Good, Numbered, Unspoilt, Shapes, SameBut
  <1>2. \A c \in Sets : Queued(kk, c) <=> Queued(k, c)
    BY DEF Queued, SameBut
  <1>3. ASSUME NEW c \in Sets PROVE OnePlace(kk, c)
    BY <1>2 DEF Good, OnePlace, SameBut
  <1>4. Clean(kk, D) = Clean(k, D)
    BY DEF Clean, SameBut
  <1>5. \A c \in Clean(kk, D) : Undiscarded(kk, c)
    BY <1>4 DEF Good, Undiscarded, SameBut
  <1>6. \A c \in Clean(kk, D) \cap kk.recovered : Recovering(kk, c, srv)
    BY <1>4 DEF Good, Recovering, SameBut
  <1>. QED BY <1>1, <1>3, <1>5, <1>6 DEF Good, SameBut

\* A SET starts to wait.
LEMMA WaitsGood ==
  ASSUME NEW k, NEW D, NEW srv \in BOOLEAN, NEW right \in BOOLEAN, Good(k, D, srv, right),
         NEW c \in Sets, ~Queued(k, c), k.outcome[c] = "pending"
  PROVE  Good(Waits(k, c), D, srv, right)
PROOF
  <1> DEFINE kk == Waits(k, c)
  <1>0. k \in Client
    BY DEF Good
  <1>1. /\ kk \in Client /\ SameBut(k, kk) /\ kk.entry = k.entry /\ kk.next = k.next
        /\ kk.wire = k.wire /\ kk.offline = k.offline
        /\ \A d \in Sets : kk.waiting[d] = IF d = c THEN k.entry.id ELSE k.waiting[d]
    BY <1>0 DEF Waits, Client, SameBut
  <1> HIDE DEF kk
  <1>2. IsFiniteSet({d \in Sets : kk.waiting[d] # 0})
    <2>1. IsFiniteSet({d \in Sets : k.waiting[d] # 0} \cup {c})
      BY FS_AddElement DEF Good
    <2>2. {d \in Sets : kk.waiting[d] # 0} \subseteq {d \in Sets : k.waiting[d] # 0} \cup {c}
      BY <1>1
    <2>. QED BY <2>1, <2>2, FS_Subset
  <1>3. Good(kk, D, srv, right)
    BY <1>1, <1>2, WaitingGood
  <1>. QED BY <1>3 DEF kk

\* A SET is sent when its fieldset is believed to be prepared, and waits otherwise.
LEMMA SendPreparedGood ==
  ASSUME NEW k, NEW D, NEW srv \in BOOLEAN, NEW right \in BOOLEAN, Good(k, D, srv, right),
         NEW c \in Sets, MaySend(k, D, Set(c)), k.outcome[c] = "pending"
  PROVE  Good(SendPrepared(k, c), D, srv, right)
PROOF
  <1> DEFINE kk == EnsurePrepared(k)
  <1>1. /\ Good(kk, D, srv, right) /\ SameBut(k, kk) /\ kk.waiting = k.waiting
        /\ kk.entry.status = "prepared" => kk = k
        /\ \A d \in Sets : Queued(kk, d) <=> Queued(k, d)
    BY EnsurePreparedGood
  <1>2. SendPrepared(k, c) = IF kk.entry.status = "prepared" THEN Write(kk, Set(c)) ELSE Waits(kk, c)
    BY DEF SendPrepared
  <1> HIDE DEF kk
  <1>3. CASE kk.entry.status = "prepared"
    <2>1. \A d \in Clean(k, D) \cap k.recovered : srv
      BY <1>1, <1>3 DEF Good, Recovering
    <2>2. Set(c).kind = "set"
      BY ItemKinds
    <2>3. MayWrite(k, D, srv, Set(c))
      BY <2>1, <2>2 DEF MayWrite
    <2>. QED BY <1>1, <1>2, <1>3, <2>3, WriteGood
  <1>4. CASE kk.entry.status # "prepared"
    <2>1. ~Queued(kk, c) /\ kk.outcome[c] = "pending"
      BY <1>1 DEF MaySend, SameBut
    <2>. QED BY <1>1, <1>2, <1>4, <2>1, WaitsGood
  <1>. QED BY <1>3, <1>4

\* Redis.sendCommand.
LEMMA SendGood ==
  ASSUME NEW k, NEW D, NEW srv \in BOOLEAN, NEW right \in BOOLEAN, Good(k, D, srv, right),
         NEW item, MaySend(k, D, item)
  PROVE  Good(Send(k, item), D, srv, right)
PROOF
  <1>0. item \in Item /\ k \in Client
    BY DEF MaySend, Good
  <1>1. CASE item.kind = "reset"
    <2> DEFINE kk == [k EXCEPT !.entry = NoEntry]
    <2>1. Send(k, item) = Write(kk, item)
      BY <1>1 DEF Send
    <2>2. /\ kk \in Client /\ SameBut(k, kk) /\ kk.wire = k.wire /\ kk.offline = k.offline
          /\ kk.waiting = k.waiting /\ kk.next = k.next /\ kk.entry.status = "none"
      BY <1>0 DEF Client, SameBut, NoEntry
    <2> HIDE DEF kk
    <2>3. Numbered(kk) /\ Unspoilt(kk)
      BY <2>2 DEF Good, Numbered, Unspoilt, SameBut
    <2>4. Good(kk, D, srv, right) /\ \A c \in Sets : Queued(kk, c) <=> Queued(k, c)
      BY <2>2, <2>3, EntryGood
    <2>5. \A c \in Sets : item # Set(c)
      BY <1>1, ItemKinds
    <2>6. MayWrite(kk, D, srv, item)
      <3>1. Clean(kk, D) = Clean(k, D)
        BY <2>2 DEF Clean, SameBut
      <3>. QED BY <1>1, <2>2, <2>5, <3>1 DEF MayWrite, MaySend, SameBut, Clean
    <2>. QED BY <2>1, <2>4, <2>6, WriteGood
  <1>2. CASE item.kind # "reset" /\ (item.kind # "set" \/ item.set \in Piped \/ k.status # "ready")
    <2>1. Send(k, item) = Write(k, item)
      BY <1>2 DEF Send
    <2>2. \A c \in Clean(k, D) : item = Set(c) => k.status # "ready"
      BY <1>2, ItemKinds DEF Clean
    <2>3. MayWrite(k, D, srv, item)
      BY <1>2, <2>2 DEF MayWrite
    <2>. QED BY <2>1, <2>3, WriteGood
  <1>3. CASE item.kind = "set" /\ item.set \notin Piped /\ k.status = "ready"
    <2>1. item.set \in Sets /\ item = Set(item.set)
      BY <1>0, <1>3, ItemKinds
    <2>2. CASE Settled(k, item.set)
      <3>1. Send(k, item) = k
        BY <1>3, <2>2 DEF Send
      <3>. QED BY <3>1
    <2>3. CASE ~Settled(k, item.set)
      <3>1. Send(k, item) = SendPrepared(k, item.set)
        BY <1>3, <2>3 DEF Send
      <3>. QED BY <2>1, <2>3, <3>1, SendPreparedGood DEF Settled
    <2>. QED BY <2>2, <2>3
  <1>. QED BY <1>1, <1>2, <1>3

------------------------------------------------------------------------------
(* A PREPARE is settled.                                                     *)

\* Those that wait for the PREPARE.
LEMMA WaitingFacts ==
  ASSUME NEW k, NEW D, NEW srv, NEW right, Good(k, D, srv, right),
         NEW p \in PrepareItem, p.id # 0
  PROVE  /\ Waiting(k, p) \in SUBSET Sets /\ IsFiniteSet(Waiting(k, p))
         /\ \A c \in Waiting(k, p) : k.waiting[c] # 0
PROOF
  <1>1. Waiting(k, p) \subseteq {c \in Sets : k.waiting[c] # 0}
    BY DEF Waiting
  <1>. QED BY <1>1, FS_Subset DEF Good

\* Those that are refused are settled.
LEMMA RefuseGood ==
  ASSUME NEW k, NEW D, NEW srv \in BOOLEAN, NEW right \in BOOLEAN, Good(k, D, srv, right),
         NEW cs \in SUBSET Sets, \A c \in cs : k.waiting[c] # 0
  PROVE  Good(Refuse(k, cs), D, srv, right)
PROOF
  <1> DEFINE kk == Refuse(k, cs)
  <1>0. k \in Client
    BY DEF Good
  <1>1. /\ kk \in Client /\ kk.status = k.status /\ kk.entry = k.entry /\ kk.next = k.next
        /\ kk.wire = k.wire /\ kk.offline = k.offline /\ kk.resend = k.resend
        /\ kk.backlog = k.backlog /\ kk.recovered = k.recovered
        /\ \A d \in Sets : /\ kk.waiting[d] = IF d \in cs THEN 0 ELSE k.waiting[d]
                           /\ kk.outcome[d] = IF d \in cs THEN "refused" ELSE k.outcome[d]
    <2> DEFINE f == [d \in Sets |-> IF d \in cs THEN 0 ELSE k.waiting[d]]
               g == [d \in Sets |-> IF d \in cs THEN "refused" ELSE k.outcome[d]]
    <2>1. f \in [Sets -> Nat] /\ g \in [Sets -> Outcomes]
      BY <1>0 DEF Client, Outcomes
    <2>2. kk = [k EXCEPT !.waiting = f, !.outcome = g]
      BY DEF Refuse
    <2>3. \A d \in Sets : /\ f[d] = IF d \in cs THEN 0 ELSE k.waiting[d]
                          /\ g[d] = IF d \in cs THEN "refused" ELSE k.outcome[d]
      OBVIOUS
    <2> HIDE DEF f, g, kk
    <2>4. /\ kk \in Client /\ kk.status = k.status /\ kk.entry = k.entry /\ kk.next = k.next
          /\ kk.wire = k.wire /\ kk.offline = k.offline /\ kk.resend = k.resend
          /\ kk.backlog = k.backlog /\ kk.recovered = k.recovered
          /\ kk.waiting = f /\ kk.outcome = g
      BY <1>0, <2>1, <2>2 DEF Client
    <2>. QED BY <2>3, <2>4
  <1> HIDE DEF kk
  <1>2. IsFiniteSet({d \in Sets : kk.waiting[d] # 0})
    <2>1. {d \in Sets : kk.waiting[d] # 0} \subseteq {d \in Sets : k.waiting[d] # 0}
      BY <1>1
    <2>. QED BY <2>1, FS_Subset DEF Good
  <1>3. Numbered(kk) /\ Unspoilt(kk) /\ Shapes(kk)
    BY <1>1 DEF Good, Numbered, Unspoilt, Shapes
  <1>4. \A d \in Sets : Queued(kk, d) <=> Queued(k, d)
    BY <1>1 DEF Queued
  <1>5. ASSUME NEW d \in Sets PROVE OnePlace(kk, d)
    BY <1>1, <1>4 DEF Good, OnePlace
  <1>6. Clean(kk, D) \subseteq Clean(k, D)
    BY <1>1 DEF Clean
  <1>7. \A d \in Clean(kk, D) : Undiscarded(kk, d)
    BY <1>1, <1>6 DEF Good, Undiscarded
  <1>8. \A d \in Clean(kk, D) \cap kk.recovered : Recovering(kk, d, srv)
    BY <1>1, <1>6 DEF Good, Recovering
  <1>9. Good(kk, D, srv, right)
    BY <1>1, <1>2, <1>3, <1>5, <1>7, <1>8 DEF Good
  <1>. QED BY <1>9 DEF kk

\* Those that are resumed go behind everything that was sent.
LEMMA ResumeGood ==
  ASSUME NEW k, NEW D, NEW srv \in BOOLEAN, NEW right \in BOOLEAN, Good(k, D, srv, right),
         NEW cs \in SUBSET Sets, IsFiniteSet(cs), \A c \in cs : k.waiting[c] # 0,
         k.backlog = <<>>, k.entry.status = "prepared" \/ srv
  PROVE  Good(Resume(k, cs), D, srv, right)
PROOF
  <1> DEFINE kk == Resume(k, cs)
             sets == SetToSeq({Set(c) : c \in cs})
             ready == k.status = "ready"
  <1>0. k \in Client /\ k.next \in Nat /\ k.entry.id \in Nat
    BY DEF Good, Client
  <1>1. /\ sets \in Seq(Item) /\ sets \in Seq(SetItem) /\ Calm(sets)
        /\ \A c \in Sets : CalmAfter(sets, c) /\ OnceIn(sets, c) /\ (Has(sets, c) <=> c \in cs)
    BY ResumedFacts
  <1>2. NoReset(sets) /\ \A n : Below(sets, n)
    BY <1>1, ResetShort
  <1>3. kk = [k EXCEPT !.waiting = [c \in Sets |-> IF c \in cs THEN 0 ELSE @[c]],
                !.wire = IF ready THEN @ \o sets ELSE @,
                !.offline = IF ready THEN @ ELSE @ \o sets]
    BY DEF Resume
  <1> HIDE DEF sets, kk
  <1>4. /\ kk \in Client /\ SameBut(k, kk) /\ kk.entry = k.entry /\ kk.next = k.next
        /\ ready => kk.wire = k.wire \o sets /\ kk.offline = k.offline
        /\ ~ready => kk.wire = k.wire /\ kk.offline = k.offline \o sets
        /\ \A d \in Sets : kk.waiting[d] = IF d \in cs THEN 0 ELSE k.waiting[d]
    <2> DEFINE f == [d \in Sets |-> IF d \in cs THEN 0 ELSE k.waiting[d]]
               w == IF ready THEN k.wire \o sets ELSE k.wire
               o == IF ready THEN k.offline ELSE k.offline \o sets
    <2>1. f \in [Sets -> Nat]
      BY <1>0 DEF Client
    <2>2. w \in Seq(Item) /\ o \in Seq(Item)
      BY <1>0, <1>1, ConcatFacts DEF Client
    <2>3. kk = [k EXCEPT !.waiting = f, !.wire = w, !.offline = o]
      BY <1>3
    <2>4. \A d \in Sets : f[d] = IF d \in cs THEN 0 ELSE k.waiting[d]
      OBVIOUS
    <2>5. /\ ready => w = k.wire \o sets /\ o = k.offline
          /\ ~ready => w = k.wire /\ o = k.offline \o sets
      OBVIOUS
    <2> HIDE DEF f, w, o
    <2>6. /\ kk \in Client /\ SameBut(k, kk) /\ kk.entry = k.entry /\ kk.next = k.next
          /\ kk.wire = w /\ kk.offline = o /\ kk.waiting = f
      BY <1>0, <2>1, <2>2, <2>3 DEF Client, SameBut
    <2>. QED BY <2>4, <2>5, <2>6
  <1>5. IsFiniteSet({d \in Sets : kk.waiting[d] # 0})
    <2>1. {d \in Sets : kk.waiting[d] # 0} \subseteq {d \in Sets : k.waiting[d] # 0}
      BY <1>4
    <2>. QED BY <2>1, FS_Subset DEF Good
  <1>6. k.wire \in Seq(Item) /\ k.offline \in Seq(Item)
    BY <1>0 DEF Client
  <1>7. /\ Calm(kk.wire) <=> Calm(k.wire)
        /\ \A c \in Sets :
              /\ Has(kk.wire, c) <=> Has(k.wire, c) \/ (ready /\ c \in cs)
              /\ CalmAfter(kk.wire, c) <=> CalmAfter(k.wire, c)
              /\ OnceIn(kk.wire, c) <=> OnceIn(k.wire, c) /\ ~(ready /\ Has(k.wire, c) /\ c \in cs)
    <2>1. CASE ready
      <3>1. kk.wire = k.wire \o sets
        BY <1>4, <2>1
      <3>2. /\ Calm(kk.wire) <=> Calm(k.wire) /\ Calm(sets)
            /\ \A c \in Sets :
                 /\ Has(kk.wire, c) <=> Has(k.wire, c) \/ Has(sets, c)
                 /\ CalmAfter(kk.wire, c) <=>
                      CalmAfter(k.wire, c) /\ CalmAfter(sets, c) /\ (Has(k.wire, c) => Calm(sets))
                 /\ OnceIn(kk.wire, c) <=>
                      OnceIn(k.wire, c) /\ OnceIn(sets, c) /\ ~(Has(k.wire, c) /\ Has(sets, c))
        BY <1>1, <1>6, <3>1, ConcatFacts
      <3>. QED BY <1>1, <2>1, <3>2
    <2>2. CASE ~ready
      <3> HIDE DEF ready
      <3>. QED BY <1>4, <2>2
    <2>. QED BY <2>1, <2>2
  <1>8. /\ Calm(kk.offline) <=> Calm(k.offline)
        /\ \A c \in Sets :
              /\ Has(kk.offline, c) <=> Has(k.offline, c) \/ (~ready /\ c \in cs)
              /\ CalmAfter(kk.offline, c) <=> CalmAfter(k.offline, c)
              /\ OnceIn(kk.offline, c) <=>
                   OnceIn(k.offline, c) /\ ~(~ready /\ Has(k.offline, c) /\ c \in cs)
    <2>1. CASE ~ready
      <3>1. kk.offline = k.offline \o sets
        BY <1>4, <2>1
      <3>2. /\ Calm(kk.offline) <=> Calm(k.offline) /\ Calm(sets)
            /\ \A c \in Sets :
                 /\ Has(kk.offline, c) <=> Has(k.offline, c) \/ Has(sets, c)
                 /\ CalmAfter(kk.offline, c) <=>
                      CalmAfter(k.offline, c) /\ CalmAfter(sets, c)
                        /\ (Has(k.offline, c) => Calm(sets))
                 /\ OnceIn(kk.offline, c) <=>
                      OnceIn(k.offline, c) /\ OnceIn(sets, c) /\ ~(Has(k.offline, c) /\ Has(sets, c))
        BY <1>1, <1>6, <3>1, ConcatFacts
      <3>. QED BY <1>1, <2>1, <3>2
    <2>2. CASE ready
      <3> HIDE DEF ready
      <3>. QED BY <1>4, <2>2
    <2>. QED BY <2>1, <2>2
  <1>9. Numbered(kk)
    <2>1. Below(k.wire, k.next) => Below(k.wire \o sets, k.next)
      BY <1>0, <1>1, <1>2, <1>6, ResetConcat
    <2>2. Below(k.offline, k.next) => Below(k.offline \o sets, k.next)
      BY <1>0, <1>1, <1>2, <1>6, ResetConcat
    <2> HIDE DEF ready
    <2>. QED BY <1>4, <2>1, <2>2 DEF Good, Numbered, SameBut
  <1>10. Unspoilt(kk)
    <2>1. NoReset(k.wire) => NoReset(k.wire \o sets)
      BY <1>0, <1>1, <1>2, <1>6, ResetConcat
    <2>2. Fresh(k.wire, k.entry.id) => Fresh(k.wire \o sets, k.entry.id)
      BY <1>0, <1>1, <1>2, <1>6, ResetConcat
    <2> HIDE DEF ready
    <2>. QED BY <1>4, <2>1, <2>2 DEF Good, Unspoilt
  <1>11. Shapes(kk)
    BY <1>4 DEF Good, Shapes, SameBut
  <1>12. ASSUME NEW c \in Sets PROVE OnePlace(kk, c)
    <2>1. OnePlace(k, c) /\ (c \in cs => k.waiting[c] # 0)
      BY DEF Good
    <2>2. CASE c \in cs
      BY <1>4, <1>7, <1>8, <2>1, <2>2 DEF OnePlace, Queued, SameBut
    <2>3. CASE c \notin cs
      BY <1>4, <1>7, <1>8, <2>1, <2>3 DEF OnePlace, Queued, SameBut
    <2>. QED BY <2>2, <2>3
  <1>13. Clean(kk, D) = Clean(k, D)
    BY <1>4 DEF Clean, SameBut
  <1>14. ASSUME NEW c \in Clean(kk, D) PROVE Undiscarded(kk, c)
    <2>1. c \in Sets /\ Undiscarded(k, c) /\ OnePlace(k, c) /\ (c \in cs => k.waiting[c] # 0)
      BY <1>13 DEF Good, Clean
    <2>2. Calm(k.backlog)
      BY ShortQueues
    <2>. QED BY <1>4, <1>7, <1>8, <2>1, <2>2 DEF Undiscarded, SameBut, OnePlace, Queued
  <1>15. ASSUME NEW c \in Clean(kk, D) \cap kk.recovered PROVE Recovering(kk, c, srv)
    <2>1. c \in Sets /\ Recovering(k, c, srv)
      BY <1>4, <1>13 DEF Good, Clean, SameBut
    <2>2. srv
      BY <2>1 DEF Recovering
    <2>. QED BY <1>4, <1>7, <1>8, <2>1, <2>2 DEF Recovering, SameBut
  <1>16. Good(kk, D, srv, right)
    BY <1>4, <1>5, <1>9, <1>10, <1>11, <1>12, <1>14, <1>15 DEF Good, SameBut
  <1>. QED BY <1>16 DEF kk

\* A preparation of an older session becomes one of the session of now.
LEMMA AdoptGood ==
  ASSUME NEW k, NEW D, NEW srv \in BOOLEAN, NEW right \in BOOLEAN, Good(k, D, srv, right),
         NEW p \in PrepareItem, p.id # 0, k.backlog = <<>>
  PROVE  Good(Adopt(k, p), D, srv, right)
PROOF
  <1> DEFINE now == EnsurePrepared(k)
             cs == Waiting(k, p)
             kk == [now EXCEPT !.waiting = [c \in Sets |-> IF c \in cs THEN now.entry.id ELSE @[c]]]
  <1>1. /\ Good(now, D, srv, right) /\ SameBut(k, now) /\ now.waiting = k.waiting
        /\ now.entry.status = "prepared" => now = k
    BY EnsurePreparedGood
  <1>2. cs \in SUBSET Sets /\ IsFiniteSet(cs) /\ \A c \in cs : k.waiting[c] # 0
    BY WaitingFacts
  <1>3. Adopt(k, p) = IF now.entry.status = "prepared" THEN Resume(now, cs) ELSE kk
    BY DEF Adopt
  <1> HIDE DEF now, cs
  <1>4. CASE now.entry.status = "prepared"
    BY <1>1, <1>2, <1>3, <1>4, ResumeGood DEF SameBut
  <1>5. CASE now.entry.status # "prepared"
    <2>1. now \in Client
      BY <1>1 DEF Good
    <2>2. /\ kk \in Client /\ SameBut(now, kk) /\ kk.entry = now.entry /\ kk.next = now.next
          /\ kk.wire = now.wire /\ kk.offline = now.offline
          /\ \A d \in Sets : kk.waiting[d] = IF d \in cs THEN now.entry.id ELSE now.waiting[d]
      BY <2>1 DEF Client, SameBut
    <2> HIDE DEF kk
    <2>3. {d \in Sets : kk.waiting[d] # 0} \subseteq {d \in Sets : now.waiting[d] # 0}
      BY <1>1, <1>2, <2>2
    <2>4. IsFiniteSet({d \in Sets : kk.waiting[d] # 0})
      BY <1>1, <2>3, FS_Subset DEF Good
    <2>5. \A d \in Sets : kk.waiting[d] # 0 => now.waiting[d] # 0
      BY <2>3
    <2>. QED BY <1>1, <1>3, <1>5, <2>2, <2>4, <2>5, WaitingGood
  <1>. QED BY <1>4, <1>5

\* The entry is settled: prepared if no reset is on its way.
LEMMA RecordedGood ==
  ASSUME NEW k, NEW D, NEW srv \in BOOLEAN, NEW right \in BOOLEAN, Good(k, D, srv, right),
         NEW p \in PrepareItem, NEW status \in {"none", "prepared"},
         status = "prepared" => srv /\ right /\ (Latest(k, p) => NoReset(k.wire))
  PROVE  /\ Good(Recorded(k, p, status), D, srv, right) /\ SameBut(k, Recorded(k, p, status))
         /\ Recorded(k, p, status).waiting = k.waiting
PROOF
  <1>0. k \in Client
    BY DEF Good
  <1>1. CASE ~Latest(k, p)
    <2>1. Recorded(k, p, status) = k
      BY <1>1 DEF Recorded
    <2>. QED BY <2>1 DEF SameBut
  <1>2. CASE Latest(k, p)
    <2> DEFINE e == IF status = "none" THEN NoEntry ELSE [status |-> status, id |-> 0]
               kk == [k EXCEPT !.entry = e]
    <2>1. Recorded(k, p, status) = kk
      BY <1>2 DEF Recorded
    <2>2. e \in [status: {"none", "preparing", "prepared"}, id: Nat] /\ e.status = status
      BY DEF NoEntry
    <2> HIDE DEF e
    <2>3. /\ kk \in Client /\ SameBut(k, kk) /\ kk.wire = k.wire /\ kk.offline = k.offline
          /\ kk.waiting = k.waiting /\ kk.next = k.next /\ kk.entry = e
      BY <1>0, <2>2 DEF Client, SameBut
    <2> HIDE DEF kk
    <2>4. Numbered(kk) /\ Unspoilt(kk)
      BY <1>2, <2>2, <2>3 DEF Good, Numbered, Unspoilt, SameBut
    <2>5. Good(kk, D, srv, right)
      BY <2>2, <2>3, <2>4, EntryGood
    <2>. QED BY <2>1, <2>3, <2>5
  <1>. QED BY <1>1, <1>2

\* readyHandler makes one backlog of the two queues.
LEMMA BecomeReadyGood ==
  ASSUME NEW k, NEW D, NEW srv \in BOOLEAN, NEW right \in BOOLEAN, Good(k, D, srv, right),
         k.status # "ready"
  PROVE  Good(BecomeReady(k), D, srv, right)
PROOF
  <1> DEFINE kk == BecomeReady(k)
             all == k.resend \o k.offline
  <1>0. /\ k \in Client /\ k.resend \in Seq(Item) /\ k.offline \in Seq(Item)
        /\ k.wire \in Seq(Item) /\ k.next \in Nat
    BY DEF Good, Client
  <1>1. all \in Seq(Item) /\ <<>> \in Seq(Item)
    BY <1>0, ConcatFacts
  <1>2. kk = [k EXCEPT !.status = "ready", !.backlog = all, !.resend = <<>>, !.offline = <<>>]
    BY DEF BecomeReady
  <1>3. /\ Calm(all) <=> Calm(k.resend) /\ Calm(k.offline)
        /\ \A c \in Sets :
              /\ Has(all, c) <=> Has(k.resend, c) \/ Has(k.offline, c)
              /\ CalmAfter(all, c) <=>
                   CalmAfter(k.resend, c) /\ CalmAfter(k.offline, c)
                     /\ (Has(k.resend, c) => Calm(k.offline))
              /\ OnceIn(all, c) <=>
                   OnceIn(k.resend, c) /\ OnceIn(k.offline, c)
                     /\ ~(Has(k.resend, c) /\ Has(k.offline, c))
    BY <1>0, ConcatFacts
  <1>4. Below(k.resend, k.next) /\ Below(k.offline, k.next) => Below(all, k.next)
    BY <1>0, ResetConcat
  <1> HIDE DEF kk, all
  <1>5. /\ kk \in Client /\ kk.status = "ready" /\ kk.backlog = all
        /\ kk.resend = <<>> /\ kk.offline = <<>> /\ kk.wire = k.wire /\ kk.entry = k.entry
        /\ kk.next = k.next /\ kk.waiting = k.waiting /\ kk.recovered = k.recovered
        /\ kk.outcome = k.outcome
    BY <1>0, <1>1, <1>2 DEF Client
  <1>6. /\ Calm(<<>>) /\ Below(<<>>, k.next)
        /\ \A c \in Sets : ~Has(<<>>, c) /\ CalmAfter(<<>>, c) /\ OnceIn(<<>>, c)
    BY ShortQueues, ResetShort
  <1>7. \A c \in Sets : ~Has(k.wire, c)
    <2>1. OnlyPrepares(k.wire)
      BY DEF Good, Shapes
    <2>2. \A c \in Sets : Set(c).kind = "set"
      BY ItemKinds
    <2>. QED BY <2>1, <2>2 DEF OnlyPrepares, Has
  <1>8. k.backlog = <<>>
    BY DEF Good, Shapes
  <1>9. Numbered(kk) /\ Unspoilt(kk) /\ Shapes(kk) /\ IsFiniteSet({c \in Sets : kk.waiting[c] # 0})
    BY <1>4, <1>5, <1>6 DEF Good, Numbered, Unspoilt, Shapes
  <1>10. \A c \in Sets : Queued(kk, c) <=> Queued(k, c)
    BY <1>3, <1>5, <1>6, <1>7, <1>8 DEF Queued
  <1>11. ASSUME NEW c \in Sets PROVE OnePlace(kk, c)
    BY <1>3, <1>5, <1>6, <1>7, <1>10 DEF Good, OnePlace
  <1>12. Clean(kk, D) = Clean(k, D) /\ \A c \in Clean(k, D) : c \in Sets
    BY <1>5 DEF Clean
  <1>13. \A c \in Clean(kk, D) : Undiscarded(kk, c)
    BY <1>3, <1>5, <1>6, <1>7, <1>12 DEF Good, Undiscarded
  <1>14. \A c \in Clean(kk, D) \cap kk.recovered : Recovering(kk, c, srv)
    BY <1>3, <1>5, <1>6, <1>7, <1>12 DEF Good, Recovering
  <1>15. Good(kk, D, srv, right)
    BY <1>5, <1>9, <1>11, <1>13, <1>14 DEF Good
  <1>. QED BY <1>15 DEF kk

\* The handshake goes on.
LEMMA ContinueGood ==
  ASSUME NEW k, NEW D, NEW srv \in BOOLEAN, NEW right \in BOOLEAN, Good(k, D, srv, right),
         NEW p \in PrepareItem
  PROVE  Good(Continue(k, p), D, srv, right)
PROOF
  <1>1. Continue(k, p) = k \/ (k.status = "connect" /\ Continue(k, p) = BecomeReady(k))
    BY DEF Continue
  <1>. QED BY <1>1, BecomeReadyGood

\* A PREPARE that succeeded: the server has the fieldset.
LEMMA SucceedsGood ==
  ASSUME NEW k, NEW D, Good(k, D, TRUE, TRUE), NEW p \in PrepareItem, p.id # 0,
         k.backlog = <<>>, Latest(k, p) => NoReset(k.wire)
  PROVE  Good(Succeeds(k, p), D, TRUE, TRUE)
PROOF
  <1>1. CASE p.session # k.session
    BY <1>1, AdoptGood, Zenon DEF Succeeds
  <1>2. CASE p.session = k.session
    <2> DEFINE kk == Recorded(k, p, "prepared")
               cs == Waiting(k, p)
    <2>1. Good(kk, D, TRUE, TRUE) /\ SameBut(k, kk) /\ kk.waiting = k.waiting
      BY RecordedGood
    <2>2. cs \in SUBSET Sets /\ IsFiniteSet(cs) /\ \A c \in cs : k.waiting[c] # 0
      BY WaitingFacts
    <2>3. Succeeds(k, p) = Continue(Resume(kk, cs), p)
      BY <1>2 DEF Succeeds
    <2> HIDE DEF kk, cs
    <2>4. Good(Resume(kk, cs), D, TRUE, TRUE)
      BY <2>1, <2>2, ResumeGood DEF SameBut
    <2>. QED BY <2>3, <2>4, ContinueGood
  <1>. QED BY <1>1, <1>2

\* A PREPARE that failed, whatever the server has.
LEMMA FailsGood ==
  ASSUME NEW k, NEW D, NEW srv \in BOOLEAN, NEW right \in BOOLEAN, Good(k, D, srv, right),
         NEW p \in PrepareItem, p.id # 0, k.backlog = <<>>
  PROVE  Good(Fails(k, p), D, srv, right)
PROOF
  <1>1. CASE p.session # k.session
    BY <1>1, AdoptGood, Zenon DEF Fails
  <1>2. CASE p.session = k.session
    <2> DEFINE kk == Recorded(k, p, "none")
               cs == Waiting(k, p)
    <2>1. Good(kk, D, srv, right) /\ SameBut(k, kk) /\ kk.waiting = k.waiting
      BY RecordedGood
    <2>2. cs \in SUBSET Sets /\ IsFiniteSet(cs) /\ \A c \in cs : k.waiting[c] # 0
      BY WaitingFacts
    <2>3. Fails(k, p) = Continue(Refuse(kk, cs), p)
      BY <1>2 DEF Fails
    <2> HIDE DEF kk, cs
    <2>4. Good(Refuse(kk, cs), D, srv, right)
      BY <2>1, <2>2, RefuseGood
    <2>. QED BY <2>3, <2>4, ContinueGood
  <1>. QED BY <1>1, <1>2

------------------------------------------------------------------------------
(* Replies.                                                                  *)

\* A reply less: a SET that was answered is nowhere else.
LEMMA PoppedGood ==
  ASSUME NEW D, NEW srv \in BOOLEAN, NEW right \in BOOLEAN, Good(client, D, srv, right),
         client.wire # <<>>
  PROVE  /\ Good(Popped, D, srv, right) /\ SameBut(client, Popped)
         /\ Popped.entry = client.entry /\ Popped.wire = Tail(client.wire)
         /\ Popped.waiting = client.waiting /\ Head(client.wire) \in Item
         /\ \A c \in Sets : Head(client.wire) = Set(c) =>
              ~Queued(Popped, c) /\ client.waiting[c] = 0 /\ client.status = "ready"
PROOF
  <1> DEFINE k == client
             kk == Popped
             t == Tail(k.wire)
             x == Head(k.wire)
  <1>0. k \in Client /\ k.wire \in Seq(Item) /\ k.next \in Nat /\ k.entry.id \in Nat
    BY DEF Good, Client
  <1>1. /\ t \in Seq(Item) /\ x \in Item
        /\ Calm(k.wire) <=> Calm(t) /\ x \notin Forgets
        /\ \A c \in Sets :
              /\ Has(k.wire, c) <=> Has(t, c) \/ x = Set(c)
              /\ CalmAfter(k.wire, c) <=> CalmAfter(t, c) /\ (x = Set(c) => Calm(t))
              /\ OnceIn(k.wire, c) <=> OnceIn(t, c) /\ ~(Has(t, c) /\ x = Set(c))
    BY <1>0, TailFacts
  <1>2. /\ NoReset(k.wire) => NoReset(t)
        /\ Below(k.wire, k.next) => Below(t, k.next)
        /\ Fresh(k.wire, k.entry.id) => Fresh(t, k.entry.id)
        /\ OnlyPrepares(k.wire) => OnlyPrepares(t) /\ x.kind = "prepare"
    BY <1>0, ResetTail
  <1>3. kk = [k EXCEPT !.wire = t]
    BY DEF Popped
  <1>4. kk.wire = Tail(client.wire) /\ k = client /\ x = Head(client.wire)
    BY <1>0, <1>3 DEF Client
  <1> HIDE DEF kk, t, x
  <1>5. /\ kk \in Client /\ SameBut(k, kk) /\ kk.wire = t /\ kk.offline = k.offline
        /\ kk.entry = k.entry /\ kk.next = k.next /\ kk.waiting = k.waiting
    BY <1>0, <1>1, <1>3 DEF Client, SameBut
  <1> HIDE DEF k
  <1>6. Numbered(kk) /\ Unspoilt(kk) /\ Shapes(kk) /\ IsFiniteSet({c \in Sets : kk.waiting[c] # 0})
    BY <1>2, <1>4, <1>5 DEF Good, Numbered, Unspoilt, Shapes, SameBut
  <1>7. \A c \in Sets : Queued(kk, c) => Queued(k, c)
    BY <1>1, <1>5 DEF Queued, SameBut
  <1>8. ASSUME NEW c \in Sets PROVE OnePlace(kk, c)
    BY <1>1, <1>4, <1>5, <1>7 DEF Good, OnePlace, SameBut
  <1>9. Clean(kk, D) = Clean(k, D) /\ \A c \in Clean(k, D) : c \in Sets
    BY <1>5 DEF Clean, SameBut
  <1>10. \A c \in Clean(kk, D) : Undiscarded(kk, c)
    BY <1>1, <1>4, <1>5, <1>9 DEF Good, Undiscarded, SameBut
  <1>11. \A c \in Clean(kk, D) \cap kk.recovered : Recovering(kk, c, srv)
    BY <1>1, <1>4, <1>5, <1>9 DEF Good, Recovering, SameBut
  <1>12. Good(kk, D, srv, right)
    BY <1>4, <1>5, <1>6, <1>8, <1>10, <1>11 DEF Good, SameBut
  <1>13. ASSUME NEW c \in Sets, x = Set(c)
         PROVE  ~Queued(kk, c) /\ k.waiting[c] = 0 /\ k.status = "ready"
    <2>1. k.status = "ready"
      <3>1. x.kind = "set"
        BY <1>13, ItemKinds
      <3>. QED BY <1>2, <1>4, <3>1 DEF Good, Shapes
    <2>2. Shapes(k) /\ OnePlace(k, c)
      BY <1>4 DEF Good
    <2>3. k.resend = <<>> /\ k.offline = <<>> /\ ~Has(<<>>, c)
      BY <2>1, <2>2, ShortQueues DEF Shapes
    <2>4. Has(k.wire, c) /\ ~Has(t, c) /\ ~Has(k.backlog, c)
      BY <1>1, <1>13, <2>2 DEF OnePlace
    <2>. QED BY <1>5, <2>1, <2>2, <2>3, <2>4 DEF Queued, SameBut, OnePlace
  <1>. QED BY <1>1, <1>4, <1>5, <1>12, <1>13 DEF kk

\* kk differs from k in that the SET c is settled.
Settles(k, kk, c, o) ==
  /\ kk \in Client /\ kk.status = k.status /\ kk.entry = k.entry /\ kk.next = k.next
  /\ kk.wire = k.wire /\ kk.offline = k.offline /\ kk.resend = k.resend
  /\ kk.backlog = k.backlog /\ kk.recovered = k.recovered
  /\ \A d \in Sets : /\ kk.waiting[d] = IF d = c THEN 0 ELSE k.waiting[d]
                     /\ kk.outcome[d] = IF d = c THEN o ELSE k.outcome[d]

\* A SET is settled.
LEMMA SettledGood ==
  ASSUME NEW k, NEW D, NEW srv \in BOOLEAN, NEW right \in BOOLEAN, Good(k, D, srv, right),
         NEW c \in Sets, NEW o \in Outcomes \ {"none", "pending"},
         o = "missing" => c \in Piped \cup D,
         NEW kk, Settles(k, kk, c, o)
  PROVE  Good(kk, D, srv, right)
PROOF
  <1>1. \A d \in Sets : /\ kk.waiting[d] = IF d = c THEN 0 ELSE k.waiting[d]
                       /\ kk.outcome[d] = IF d = c THEN o ELSE k.outcome[d]
    BY DEF Settles
  <1>2. IsFiniteSet({d \in Sets : kk.waiting[d] # 0})
    <2>1. {d \in Sets : kk.waiting[d] # 0} \subseteq {d \in Sets : k.waiting[d] # 0}
      BY <1>1
    <2>. QED BY <2>1, FS_Subset DEF Good
  <1>3. Numbered(kk) /\ Unspoilt(kk) /\ Shapes(kk)
    BY <1>1 DEF Good, Settles, Numbered, Unspoilt, Shapes
  <1>4. \A d \in Sets : Queued(kk, d) <=> Queued(k, d)
    BY <1>1 DEF Settles, Queued
  <1>5. ASSUME NEW d \in Sets PROVE OnePlace(kk, d)
    BY <1>1, <1>4 DEF Good, Settles, OnePlace
  <1>6. Clean(kk, D) \subseteq Clean(k, D)
    BY <1>1 DEF Clean
  <1>7. \A d \in Clean(kk, D) : Undiscarded(kk, d)
    BY <1>1, <1>6 DEF Good, Settles, Undiscarded
  <1>8. \A d \in Clean(kk, D) \cap kk.recovered : Recovering(kk, d, srv)
    BY <1>1, <1>6 DEF Good, Settles, Recovering
  <1>9. \A d \in Sets \ (Piped \cup D) : kk.outcome[d] # "missing"
    BY <1>1 DEF Good
  <1>. QED BY <1>1, <1>2, <1>3, <1>5, <1>7, <1>8, <1>9 DEF Good, Settles

\* "no such fieldset": the server has none, so a SET that must not fail was not sent again.
LEMMA MissingGood ==
  ASSUME NEW D, NEW right \in BOOLEAN, Good(client, D, FALSE, right),
         client.wire # <<>>, client.backlog = <<>>,
         NEW c \in Sets, Head(client.wire) = Set(c), client.outcome[c] = "pending"
  PROVE  Good(Missing(Popped, c), D, FALSE, right)
PROOF
  <1> DEFINE k == Popped
  <1>1. /\ Good(k, D, FALSE, right) /\ SameBut(client, k) /\ k.wire = Tail(client.wire)
        /\ ~Queued(k, c) /\ k.waiting[c] = 0 /\ k.status = "ready" /\ k.outcome[c] = "pending"
    BY PoppedGood DEF SameBut
  <1>2. /\ Has(client.wire, c) /\ (CalmAfter(client.wire, c) => Calm(k.wire))
        /\ client.wire \in Seq(Item)
    <2>1. client.wire \in Seq(Item)
      BY DEF Good, Client
    <2>. QED BY <1>1, <2>1, TailFacts
  <1> HIDE DEF k
  <1>3. CASE c \in Piped \cup k.recovered
    <2>1. Missing(k, c) = [k EXCEPT !.outcome[c] = "missing"]
      BY <1>3 DEF Missing
    <2>2. c \in Piped \cup D
      <3>1. c \notin Clean(client, D) \cap client.recovered
        BY <1>2 DEF Good, Recovering
      <3>. QED BY <1>1, <1>3, <3>1 DEF Clean, SameBut
    <2> DEFINE kk == [k EXCEPT !.outcome[c] = "missing"]
    <2>3. Settles(k, kk, c, "missing")
      BY <1>1 DEF Settles, Good, Client, Outcomes
    <2>4. "missing" \in Outcomes \ {"none", "pending"}
      BY DEF Outcomes
    <2> HIDE DEF kk
    <2>5. Good(kk, D, FALSE, right)
      BY <1>1, <2>2, <2>3, <2>4, SettledGood
    <2>. QED BY <2>1, <2>5 DEF kk, k
  <1>4. CASE c \notin Piped \cup k.recovered
    <2> DEFINE kk == [k EXCEPT !.recovered = @ \cup {c}, !.entry = Unprepared(@)]
               again == EnsurePrepared(kk)
    <2>1. Missing(k, c) = IF again.entry.status = "prepared" THEN Write(again, Set(c))
                          ELSE Waits(again, c)
      BY <1>4 DEF Missing
    <2>2. /\ kk \in Client /\ kk.status = k.status /\ kk.next = k.next
          /\ kk.wire = k.wire /\ kk.offline = k.offline /\ kk.resend = k.resend
          /\ kk.backlog = k.backlog /\ kk.recovered = k.recovered \cup {c}
          /\ kk.outcome = k.outcome /\ kk.waiting = k.waiting
          /\ kk.entry.status # "prepared"
          /\ kk.entry.status = "preparing" => kk.entry = k.entry
      <3> DEFINE e == Unprepared(k.entry)
      <3>1. k \in Client /\ k.entry \in [status: {"none", "preparing", "prepared"}, id: Nat]
        BY <1>1 DEF Good, Client
      <3>2. /\ e \in [status: {"none", "preparing", "prepared"}, id: Nat]
            /\ e.status # "prepared" /\ (e.status = "preparing" => e = k.entry)
        BY <3>1 DEF Unprepared, NoEntry
      <3>3. kk = [k EXCEPT !.recovered = @ \cup {c}, !.entry = e]
        BY <3>1 DEF Client
      <3> HIDE DEF e, kk
      <3>. QED BY <3>1, <3>2, <3>3 DEF Client
    <2> HIDE DEF kk
    <2>3. Numbered(kk) /\ Unspoilt(kk) /\ Shapes(kk) /\ IsFiniteSet({d \in Sets : kk.waiting[d] # 0})
      BY <1>1, <2>2 DEF Good, Numbered, Unspoilt, Shapes
    <2>4. \A d \in Sets : Queued(kk, d) <=> Queued(k, d)
      BY <2>2 DEF Queued
    <2>5. ASSUME NEW d \in Sets PROVE OnePlace(kk, d)
      BY <1>1, <2>2, <2>4 DEF Good, OnePlace
    <2>6. Clean(kk, D) = Clean(k, D) /\ Clean(k, D) = Clean(client, D)
      BY <1>1, <2>2 DEF Clean, SameBut
    <2>7. \A d \in Clean(kk, D) : Undiscarded(kk, d)
      BY <1>1, <2>2, <2>6 DEF Good, Undiscarded
    <2>8. ASSUME NEW d \in Clean(kk, D) \cap kk.recovered PROVE Recovering(kk, d, FALSE)
      <3>1. CASE d = c
        <4>1. Undiscarded(client, c) /\ Shapes(k)
          BY <1>1, <2>6, <3>1 DEF Good
        <4>2. Calm(kk.wire) /\ Calm(kk.backlog) /\ Calm(kk.resend) /\ Calm(kk.offline)
          BY <1>1, <1>2, <2>2, <4>1, ShortQueues DEF Undiscarded, Shapes, SameBut
        <4>3. ~Has(kk.wire, c)
          BY <1>1, <2>2 DEF Queued
        <4>. QED BY <2>2, <3>1, <4>2, <4>3 DEF Recovering
      <3>2. CASE d # c
        BY <1>1, <2>2, <2>6, <3>2 DEF Good, Recovering
      <3>. QED BY <3>1, <3>2
    <2>9. Good(kk, D, FALSE, right)
      BY <1>1, <2>2, <2>3, <2>5, <2>7, <2>8 DEF Good
    <2>10. /\ Good(again, D, FALSE, right) /\ SameBut(kk, again)
           /\ again.entry.status = "prepared" => again = kk
           /\ \A d \in Sets : Queued(again, d) <=> Queued(kk, d)
      BY <2>9, EnsurePreparedGood
    <2> HIDE DEF again
    <2>11. again.entry.status # "prepared" /\ ~Queued(again, c) /\ again.outcome[c] = "pending"
      BY <1>1, <2>2, <2>4, <2>10 DEF SameBut
    <2>12. Good(Waits(again, c), D, FALSE, right)
      BY <2>10, <2>11, WaitsGood
    <2>. QED BY <2>1, <2>11, <2>12 DEF k
  <1>. QED BY <1>3, <1>4 DEF k

------------------------------------------------------------------------------
(* The invariant, and each step.                                             *)

HimportInv ==
  /\ server \in BOOLEAN /\ discarded \in BOOLEAN
  /\ Good(client, disturbed, server, server \/ discarded)

\* No entry to believe in, and no SET that was recovered: nothing is claimed of the server.
LEMMA GoodElsewhere ==
  ASSUME NEW k, NEW D, NEW srv \in BOOLEAN, NEW right \in BOOLEAN, Good(k, D, srv, right),
         NEW srv2 \in BOOLEAN, NEW right2 \in BOOLEAN, Clean(k, D) \cap k.recovered = {},
         k.entry.status = "prepared" => right2
  PROVE  Good(k, D, srv2, right2)
PROOF
  BY DEF Good

\* A PREPARE is answered.
LEMMA PrepareAnsweredKeeps ==
  ASSUME HimportInv, client.backlog = <<>>, PrepareAnswered
  PROVE  HimportInv'
PROOF
  <1> DEFINE p == Head(client.wire)
             right == server \/ discarded
  <1>1. /\ server \in BOOLEAN /\ discarded \in BOOLEAN /\ right \in BOOLEAN
        /\ Good(client, disturbed, server, right)
    BY DEF HimportInv
  <1>2. client.wire # <<>> /\ p.kind = "prepare" /\ disturbed' = disturbed
    BY DEF PrepareAnswered
  <1>3. client.wire \in Seq(Item) /\ client.entry.id \in Nat
    BY <1>1 DEF Good, Client
  <1>4. p \in PrepareItem
    <2>1. p \in Item
      BY <1>2, <1>3, TailFacts
    <2>. QED BY <1>2, <2>1, ItemKinds
  <1>5. \/ /\ server' = TRUE /\ discarded' = FALSE
           /\ client' = IF p.id = 0 THEN Popped ELSE Succeeds(Popped, p)
        \/ /\ p.id # 0 /\ client' = Fails(Popped, p)
           /\ server' = server /\ discarded' = discarded
    BY DEF PrepareAnswered
  <1> DEFINE k == Popped
  <1>6. CASE /\ server' = TRUE /\ discarded' = FALSE
             /\ client' = IF p.id = 0 THEN Popped ELSE Succeeds(Popped, p)
    <2> HIDE DEF right
    <2>1. Good(client, disturbed, TRUE, TRUE)
      BY <1>1 DEF Good, Recovering
    <2>2. /\ Good(k, disturbed, TRUE, TRUE) /\ k.backlog = <<>> /\ k.entry = client.entry
          /\ k.wire = Tail(client.wire)
      BY <1>2, <2>1, PoppedGood DEF SameBut
    <2>3. Latest(k, p) => NoReset(k.wire)
      <3>1. Latest(k, p) => Fresh(client.wire, client.entry.id) /\ client.entry.id = p.id
        BY <2>1, <2>2 DEF Latest, Good, Unspoilt
      <3>. QED BY <1>2, <1>3, <2>2, <3>1, ResetTail
    <2> HIDE DEF k, p
    <2>4. p.id # 0 => Good(Succeeds(k, p), disturbed, TRUE, TRUE)
      BY <1>4, <2>2, <2>3, SucceedsGood
    <2>5. Good(client', disturbed, TRUE, TRUE)
      BY <1>6, <2>2, <2>4 DEF k
    <2>. QED BY <1>2, <1>6, <2>5 DEF HimportInv
  <1>7. CASE /\ p.id # 0 /\ client' = Fails(Popped, p)
             /\ server' = server /\ discarded' = discarded
    <2>1. Good(k, disturbed, server, right) /\ k.backlog = <<>>
      BY <1>1, <1>2, PoppedGood DEF SameBut
    <2> HIDE DEF k, p, right
    <2>2. Good(Fails(k, p), disturbed, server, right)
      BY <1>1, <1>4, <1>7, <2>1, FailsGood
    <2>. QED BY <1>1, <1>2, <1>7, <2>2 DEF HimportInv, right, k
  <1>. QED BY <1>5, <1>6, <1>7

\* A SET is answered.
LEMMA SetAnsweredKeeps ==
  ASSUME HimportInv, client.backlog = <<>>, SetAnswered
  PROVE  HimportInv'
PROOF
  <1> DEFINE c == Head(client.wire).set
             right == server \/ discarded
             k == Popped
  <1>1. /\ server \in BOOLEAN /\ discarded \in BOOLEAN /\ right \in BOOLEAN
        /\ Good(client, disturbed, server, right)
    BY DEF HimportInv
  <1>2. /\ client.wire # <<>> /\ Head(client.wire).kind = "set"
        /\ client' = IF Settled(client, c) THEN k
                     ELSE IF server THEN [k EXCEPT !.outcome[c] = "done"] ELSE Missing(k, c)
        /\ UNCHANGED <<server, discarded, disturbed>>
    BY DEF SetAnswered
  <1>3. Good(k, disturbed, server, right) /\ SameBut(client, k) /\ k.waiting = client.waiting
    BY <1>1, <1>2, PoppedGood
  <1>4. Head(client.wire) \in Item
    BY <1>1, <1>2, PoppedGood
  <1>5. c \in Sets /\ Head(client.wire) = Set(c)
    BY <1>2, <1>4, ItemKinds
  <1>6. client.waiting[c] = 0
    BY <1>1, <1>2, <1>5, PoppedGood
  <1> HIDE DEF c, k, right
  <1>7. CASE Settled(client, c)
    BY <1>1, <1>2, <1>3, <1>7 DEF HimportInv, right
  <1>8. CASE ~Settled(client, c) /\ server
    <2> DEFINE kk == [k EXCEPT !.outcome[c] = "done"]
    <2>1. Settles(k, kk, c, "done")
      BY <1>3, <1>5, <1>6 DEF Settles, Good, Client, Outcomes
    <2>2. "done" \in Outcomes \ {"none", "pending"} /\ "done" # "missing"
      BY DEF Outcomes
    <2>3. client' = kk
      BY <1>2, <1>8
    <2> HIDE DEF kk
    <2>4. Good(kk, disturbed, server, right)
      BY <1>1, <1>3, <1>5, <1>6, <2>1, <2>2, SettledGood
    <2>. QED BY <1>1, <1>2, <2>3, <2>4 DEF HimportInv, right
  <1>9. CASE ~Settled(client, c) /\ ~server
    <2>1. client' = Missing(k, c) /\ server = FALSE
      BY <1>1, <1>2, <1>9
    <2>2. client.outcome[c] = "pending"
      BY <1>9 DEF Settled
    <2>3. Good(client', disturbed, FALSE, right)
      BY <1>1, <1>2, <1>5, <2>1, <2>2, MissingGood DEF k
    <2>. QED BY <1>1, <1>2, <2>1, <2>3 DEF HimportInv, right
  <1>. QED BY <1>7, <1>8, <1>9

\* RESET or DISCARD is answered: nothing that is believed or must not fail depends on it.
LEMMA ForgetAnsweredKeeps ==
  ASSUME HimportInv, ForgetAnswered
  PROVE  HimportInv'
PROOF
  <1> DEFINE x == Head(client.wire)
             right == server \/ discarded
             k == Popped
  <1>1. /\ server \in BOOLEAN /\ discarded \in BOOLEAN /\ right \in BOOLEAN
        /\ Good(client, disturbed, server, right)
    BY DEF HimportInv
  <1>2. /\ client.wire # <<>> /\ x \in Forgets /\ client' = k
        /\ server' = FALSE /\ discarded' = (discarded \/ x.kind = "discard")
        /\ disturbed' = disturbed
    BY DEF ForgetAnswered
  <1>3. Good(k, disturbed, server, right) /\ SameBut(client, k) /\ k.entry = client.entry
    BY <1>1, <1>2, PoppedGood
  <1>4. client.wire \in Seq(Item)
    BY <1>1 DEF Good, Client
  <1>5. ~Calm(client.wire)
    BY <1>2, <1>4, TailFacts
  <1>6. Clean(k, disturbed) \cap k.recovered = {}
    <2>1. Clean(client, disturbed) \cap client.recovered = {}
      BY <1>1, <1>5 DEF Good, Recovering
    <2>. QED BY <1>3, <2>1 DEF Clean, SameBut
  <1>7. k.entry.status = "prepared" => discarded'
    <2>1. k.entry.status = "prepared" => NoReset(client.wire)
      BY <1>1, <1>3 DEF Good, Unspoilt
    <2>2. NoReset(client.wire) => x.kind # "reset"
      BY <1>2, <1>4, ResetTail
    <2>3. x.kind # "reset" => x.kind = "discard"
      BY <1>2 DEF Forgets
    <2>. QED BY <1>2, <2>1, <2>2, <2>3
  <1>8. discarded' \in BOOLEAN
    BY <1>1, <1>2
  <1> HIDE DEF k
  <1>9. Good(k, disturbed, FALSE, discarded')
    BY <1>1, <1>3, <1>6, <1>7, <1>8, GoodElsewhere
  <1>. QED BY <1>2, <1>8, <1>9 DEF HimportInv

\* readyHandler sends a command: whatever was in its way was sent before.
LEMMA SendBacklogKeeps ==
  ASSUME HimportInv, client.backlog # <<>>, SendBacklog
  PROVE  HimportInv'
PROOF
  <1> DEFINE x == Head(client.backlog)
             t == Tail(client.backlog)
             right == server \/ discarded
             k == [client EXCEPT !.backlog = t]
             D == disturbed
  <1>1. /\ server \in BOOLEAN /\ discarded \in BOOLEAN /\ right \in BOOLEAN
        /\ Good(client, D, server, right) /\ client \in Client
        /\ client.backlog \in Seq(Item) /\ client.next \in Nat
    BY DEF HimportInv, Good, Client
  <1>2. client' = Send(k, x) /\ UNCHANGED <<server, discarded, disturbed>>
    BY DEF SendBacklog
  <1>3. client.status = "ready" /\ client.resend = <<>> /\ client.offline = <<>>
    BY <1>1 DEF Good, Shapes, Client
  <1>4. /\ t \in Seq(Item) /\ x \in Item
        /\ Calm(client.backlog) <=> Calm(t) /\ x \notin Forgets
        /\ \A c \in Sets :
              /\ Has(client.backlog, c) <=> Has(t, c) \/ x = Set(c)
              /\ CalmAfter(client.backlog, c) <=> CalmAfter(t, c) /\ (x = Set(c) => Calm(t))
              /\ OnceIn(client.backlog, c) <=> OnceIn(t, c) /\ ~(Has(t, c) /\ x = Set(c))
    BY <1>1, TailFacts
  <1>5. Below(client.backlog, client.next) =>
          Below(t, client.next) /\ (x.kind = "prepare" => x.id < client.next)
    BY <1>1, ResetTail
  <1> HIDE DEF x, t, right, k
  <1>6. /\ k \in Client /\ k.status = client.status /\ k.entry = client.entry
        /\ k.next = client.next /\ k.wire = client.wire /\ k.offline = client.offline
        /\ k.resend = client.resend /\ k.backlog = t /\ k.recovered = client.recovered
        /\ k.waiting = client.waiting /\ k.outcome = client.outcome
    BY <1>1, <1>4 DEF Client, k
  <1>7. Good(k, D, server, right)
    <2>1. Numbered(k) /\ Unspoilt(k) /\ Shapes(k) /\ IsFiniteSet({c \in Sets : k.waiting[c] # 0})
      BY <1>1, <1>3, <1>5, <1>6 DEF Good, Numbered, Unspoilt, Shapes
    <2>2. ASSUME NEW c \in Sets PROVE OnePlace(k, c)
      BY <1>1, <1>4, <1>6 DEF Good, OnePlace, Queued
    <2>3. Clean(k, D) = Clean(client, D) /\ \A c \in Clean(k, D) : c \in Sets
      BY <1>6 DEF Clean
    <2>4. \A c \in Clean(k, D) : Undiscarded(k, c)
      BY <1>1, <1>4, <1>6, <2>3 DEF Good, Undiscarded
    <2>5. \A c \in Clean(k, D) \cap k.recovered : Recovering(k, c, server)
      BY <1>1, <1>4, <1>6, <2>3 DEF Good, Recovering
    <2>. QED BY <1>1, <1>6, <2>1, <2>2, <2>4, <2>5 DEF Good
  <1>8. MaySend(k, D, x)
    <2>1. Clean(k, D) = Clean(client, D) /\ \A c \in Clean(k, D) : c \in Sets
      BY <1>6 DEF Clean
    <2>2. x.kind = "prepare" => x.id < k.next
      BY <1>1, <1>5, <1>6 DEF Good, Numbered
    <2>3. ASSUME x \in Forgets, NEW c \in Clean(k, D)
          PROVE  k.status = "ready" /\ ~Has(k.wire, c) /\ c \notin k.recovered
      BY <1>1, <1>3, <1>4, <1>6, <2>1, <2>3 DEF Good, Undiscarded, Recovering
    <2>4. ASSUME NEW c \in Sets, x = Set(c)
          PROVE  /\ ~Queued(k, c) /\ k.waiting[c] = 0 /\ k.outcome[c] # "none"
                 /\ c \in Clean(k, D) => Calm(k.backlog)
      <3>1. OnePlace(client, c) /\ Has(client.backlog, c) /\ ~Has(t, c)
        BY <1>1, <1>4, <2>4 DEF Good, OnePlace
      <3>2. ~Has(<<>>, c)
        BY ShortQueues
      <3>3. ~Queued(k, c) /\ k.waiting[c] = 0 /\ k.outcome[c] # "none"
        BY <1>3, <1>6, <3>1, <3>2 DEF OnePlace, Queued
      <3>4. c \in Clean(k, D) => Calm(k.backlog)
        BY <1>1, <1>4, <1>6, <2>1, <2>4 DEF Good, Undiscarded
      <3>. QED BY <3>3, <3>4
    <2>. QED BY <1>4, <2>2, <2>3, <2>4 DEF MaySend
  <1>9. Good(Send(k, x), D, server, right)
    BY <1>1, <1>7, <1>8, SendGood
  <1>. QED BY <1>1, <1>2, <1>9 DEF HimportInv, right

\* A SET is called: it is nowhere yet.
LEMMA CallKeeps ==
  ASSUME HimportInv, client.backlog = <<>>, NEW c \in Sets, Call(c)
  PROVE  HimportInv'
PROOF
  <1> DEFINE right == server \/ discarded
             k == [client EXCEPT !.outcome[c] = "pending"]
             D == disturbed
  <1>1. /\ server \in BOOLEAN /\ discarded \in BOOLEAN /\ right \in BOOLEAN
        /\ Good(client, D, server, right) /\ client \in Client
    BY DEF HimportInv, Good
  <1>2. /\ client.outcome[c] = "none" /\ UNCHANGED <<server, discarded, disturbed>>
        /\ client' = IF c \in Piped THEN SendPrepared(k, c) ELSE Send(k, Set(c))
    BY DEF Call
  <1> HIDE DEF k, right
  <1>3. /\ k \in Client /\ k.status = client.status /\ k.entry = client.entry
        /\ k.next = client.next /\ k.wire = client.wire /\ k.offline = client.offline
        /\ k.resend = client.resend /\ k.backlog = client.backlog
        /\ k.recovered = client.recovered /\ k.waiting = client.waiting
        /\ \A d \in Sets : k.outcome[d] = IF d = c THEN "pending" ELSE client.outcome[d]
    BY <1>1 DEF Client, Outcomes, k
  <1>4. ~Queued(client, c) /\ client.waiting[c] = 0 /\ c \notin client.recovered
    BY <1>1, <1>2 DEF Good, OnePlace
  <1>5. \A d \in Sets : Queued(k, d) <=> Queued(client, d)
    BY <1>3 DEF Queued
  <1>6. Good(k, D, server, right)
    <2>1. Numbered(k) /\ Unspoilt(k) /\ Shapes(k) /\ IsFiniteSet({d \in Sets : k.waiting[d] # 0})
      BY <1>1, <1>3 DEF Good, Numbered, Unspoilt, Shapes
    <2>2. ASSUME NEW d \in Sets PROVE OnePlace(k, d)
      BY <1>1, <1>3, <1>4, <1>5 DEF Good, OnePlace
    <2>3. \A d \in Clean(k, D) : d \in Sets /\ (d = c \/ d \in Clean(client, D))
      BY <1>3 DEF Clean
    <2>4. ASSUME NEW d \in Clean(k, D) PROVE Undiscarded(k, d)
      <3>1. CASE d = c
        BY <1>3, <1>4, <3>1 DEF Queued, Undiscarded, Has, CalmAfter
      <3>2. CASE d \in Clean(client, D)
        BY <1>1, <1>3, <3>2 DEF Good, Undiscarded
      <3>. QED BY <2>3, <3>1, <3>2
    <2>5. \A d \in Clean(k, D) \cap k.recovered : Recovering(k, d, server)
      BY <1>1, <1>3, <1>4, <2>3 DEF Good, Recovering
    <2>. QED BY <1>1, <1>3, <2>1, <2>2, <2>4, <2>5 DEF Good
  <1> DEFINE x == Set(c)
  <1>7. x \in Item /\ x.kind = "set" /\ x \notin Forgets /\ \A d \in Sets : x = Set(d) => d = c
    <2>1. x \in Item /\ x.kind = "set"
      BY ItemKinds
    <2>2. \A d \in Sets : Set(d).set = d
      BY ItemKinds
    <2>. QED BY <2>1, <2>2, ItemKinds
  <1>8. k.outcome[c] = "pending" /\ Calm(k.backlog)
    BY <1>3, ShortQueues
  <1> HIDE DEF x
  <1>9. MaySend(k, D, x)
    BY <1>3, <1>4, <1>5, <1>7, <1>8 DEF MaySend
  <1>10. CASE c \in Piped
    <2>1. Good(SendPrepared(k, c), D, server, right)
      BY <1>1, <1>6, <1>8, <1>9, SendPreparedGood DEF x
    <2>. QED BY <1>1, <1>2, <1>10, <2>1 DEF HimportInv, right
  <1>11. CASE c \notin Piped
    <2>1. Good(Send(k, x), D, server, right)
      BY <1>1, <1>6, <1>9, SendGood
    <2>. QED BY <1>1, <1>2, <1>11, <2>1 DEF HimportInv, right, x
  <1>. QED BY <1>10, <1>11

\* RESET or DISCARD: every SET that is pending may fail from now on.
LEMMA ForgetKeeps ==
  ASSUME HimportInv, NEW item \in Forgets, Forget(item)
  PROVE  HimportInv'
PROOF
  <1> DEFINE right == server \/ discarded
             E == disturbed \cup {c \in Sets : client.outcome[c] = "pending"}
  <1>1. /\ server \in BOOLEAN /\ discarded \in BOOLEAN /\ right \in BOOLEAN
        /\ Good(client, disturbed, server, right)
    BY DEF HimportInv
  <1>2. client' = Send(client, item) /\ disturbed' = E /\ UNCHANGED <<server, discarded>>
    BY DEF Forget
  <1>3. disturbed \subseteq E /\ Clean(client, E) = {}
    BY DEF Clean
  <1> HIDE DEF E, right
  <1>4. Good(client, E, server, right)
    BY <1>1, <1>3, GoodWeakens
  <1>5. MaySend(client, E, item)
    <2>1. item \in Item /\ item.kind # "prepare" /\ \A c \in Sets : item # Set(c)
      BY ItemKinds
    <2>. QED BY <1>3, <2>1 DEF MaySend
  <1>6. Good(Send(client, item), E, server, right)
    BY <1>1, <1>4, <1>5, SendGood
  <1>. QED BY <1>1, <1>2, <1>6 DEF HimportInv, right

\* A SET times out.
LEMMA SetTimesOutKeeps ==
  ASSUME HimportInv, NEW c \in Sets, SetTimesOut(c)
  PROVE  HimportInv'
PROOF
  <1> DEFINE right == server \/ discarded
             kk == [client EXCEPT !.outcome[c] = "timeout", !.waiting[c] = 0]
  <1>1. /\ server \in BOOLEAN /\ discarded \in BOOLEAN /\ right \in BOOLEAN
        /\ Good(client, disturbed, server, right)
    BY DEF HimportInv
  <1>2. client' = kk /\ UNCHANGED <<server, discarded, disturbed>>
    BY DEF SetTimesOut
  <1>3. Settles(client, kk, c, "timeout")
    BY <1>1 DEF Settles, Good, Client, Outcomes
  <1>4. "timeout" \in Outcomes \ {"none", "pending"} /\ "timeout" # "missing"
    BY DEF Outcomes
  <1> HIDE DEF kk, right
  <1>5. Good(kk, disturbed, server, right)
    BY <1>1, <1>3, <1>4, SettledGood
  <1>. QED BY <1>1, <1>2, <1>5 DEF HimportInv, right

\* connectHandler: nothing is believed of a new session.
LEMMA ConnectKeeps ==
  ASSUME HimportInv, Connect
  PROVE  HimportInv'
PROOF
  <1> DEFINE right == server \/ discarded
             k == [client EXCEPT !.status = "connect", !.entry = NoEntry,
                                 !.session = @ + 1, !.wire = <<>>]
             begun == EnsurePrepared(k)
             kk == [begun EXCEPT !.handshake = begun.entry.id]
             D == disturbed
  <1>1. /\ Good(client, D, server, right) /\ client \in Client /\ right \in BOOLEAN
        /\ server \in BOOLEAN
    BY DEF HimportInv, Good
  <1>2. /\ client.status = "down" /\ client' = kk /\ disturbed' = disturbed
        /\ server' = FALSE /\ discarded' = FALSE
    BY DEF Connect
  <1>3. /\ k \in Client /\ k.status = "connect" /\ k.entry.status = "none"
        /\ k.next = client.next /\ k.wire = <<>> /\ k.offline = client.offline
        /\ k.resend = client.resend /\ k.backlog = client.backlog
        /\ k.recovered = client.recovered /\ k.waiting = client.waiting
        /\ k.outcome = client.outcome
    <2>1. /\ NoEntry \in [status: {"none", "preparing", "prepared"}, id: Nat]
          /\ NoEntry.status = "none"
      BY DEF NoEntry
    <2>2. <<>> \in Seq(Item) /\ client.session + 1 \in Nat
      BY <1>1, ShortQueues DEF Client
    <2>. QED BY <1>1, <2>1, <2>2 DEF Client
  <1> HIDE DEF k, right
  <1>4. Good(k, D, FALSE, FALSE)
    <2>1. /\ Calm(<<>>) /\ NoReset(<<>>) /\ OnlyPrepares(<<>>) /\ Below(<<>>, k.next)
          /\ \A c \in Sets : ~Has(<<>>, c) /\ CalmAfter(<<>>, c) /\ OnceIn(<<>>, c)
      BY ShortQueues, ResetShort
    <2>2. Numbered(k) /\ Unspoilt(k) /\ Shapes(k) /\ IsFiniteSet({d \in Sets : k.waiting[d] # 0})
      BY <1>1, <1>2, <1>3, <2>1 DEF Good, Numbered, Unspoilt, Shapes
    <2>3. \A c \in Sets : Queued(k, c) => Queued(client, c)
      BY <1>3, <2>1 DEF Queued
    <2>4. ASSUME NEW c \in Sets PROVE OnePlace(k, c)
      BY <1>1, <1>3, <2>1, <2>3 DEF Good, OnePlace
    <2>5. Clean(k, D) = Clean(client, D) /\ \A c \in Clean(k, D) : c \in Sets
      BY <1>3 DEF Clean
    <2>6. \A c \in Clean(k, D) : Undiscarded(k, c)
      BY <1>1, <1>3, <2>1, <2>5 DEF Good, Undiscarded
    <2>7. \A c \in Clean(k, D) \cap k.recovered : Recovering(k, c, FALSE)
      BY <1>1, <1>3, <2>1, <2>5 DEF Good, Recovering
    <2>. QED BY <1>1, <1>3, <2>2, <2>4, <2>6, <2>7 DEF Good
  <1>5. Good(begun, D, FALSE, FALSE)
    BY <1>4, EnsurePreparedGood
  <1> HIDE DEF begun
  <1>6. /\ kk \in Client /\ SameBut(begun, kk) /\ kk.entry = begun.entry /\ kk.next = begun.next
        /\ kk.wire = begun.wire /\ kk.offline = begun.offline /\ kk.waiting = begun.waiting
    <2>1. begun \in Client /\ begun.entry.id \in Nat
      BY <1>5 DEF Good, Client
    <2>. QED BY <2>1 DEF Client, SameBut
  <1> HIDE DEF kk
  <1>7. Numbered(kk) /\ Unspoilt(kk)
    BY <1>5, <1>6 DEF Good, Numbered, Unspoilt, SameBut
  <1>8. Good(kk, D, FALSE, FALSE)
    BY <1>5, <1>6, <1>7, EntryGood
  <1>. QED BY <1>2, <1>8 DEF HimportInv

\* closeHandler: the queue of a connection that was ready becomes the one to send again.
LEMMA LoseKeeps ==
  ASSUME HimportInv, client.backlog = <<>>, Lose
  PROVE  HimportInv'
PROOF
  <1> DEFINE right == server \/ discarded
             again == IF client.status = "ready" THEN client.wire ELSE client.resend
             kk == [client EXCEPT !.status = "down", !.wire = <<>>, !.resend = again]
             D == disturbed
  <1>1. /\ Good(client, D, server, right) /\ client \in Client /\ right \in BOOLEAN
        /\ server \in BOOLEAN /\ discarded \in BOOLEAN
    BY DEF HimportInv, Good
  <1>2. client' = kk /\ UNCHANGED <<server, discarded, disturbed>>
    BY DEF Lose
  <1>3. again \in Seq(Item) /\ <<>> \in Seq(Item)
    BY <1>1, ShortQueues DEF Client
  <1>4. /\ client.status = "ready" => again = client.wire /\ client.offline = <<>>
        /\ client.status # "ready" => again = client.resend
    BY <1>1 DEF Good, Shapes
  <1> HIDE DEF again, right
  <1>5. /\ kk \in Client /\ kk.status = "down" /\ kk.entry = client.entry
        /\ kk.next = client.next /\ kk.wire = <<>> /\ kk.offline = client.offline
        /\ kk.resend = again /\ kk.backlog = <<>>
        /\ kk.recovered = client.recovered /\ kk.waiting = client.waiting
        /\ kk.outcome = client.outcome
    BY <1>1, <1>3 DEF Client
  <1> HIDE DEF kk
  <1>6. /\ Calm(<<>>) /\ NoReset(<<>>) /\ OnlyPrepares(<<>>) /\ Below(<<>>, kk.next)
        /\ Fresh(<<>>, kk.entry.id)
        /\ \A c \in Sets : ~Has(<<>>, c) /\ CalmAfter(<<>>, c) /\ OnceIn(<<>>, c)
    BY ShortQueues, ResetShort
  <1>7. Numbered(kk) /\ Unspoilt(kk) /\ Shapes(kk) /\ IsFiniteSet({d \in Sets : kk.waiting[d] # 0})
    BY <1>1, <1>4, <1>5, <1>6 DEF Good, Numbered, Unspoilt, Shapes
  <1>8. \A c \in Sets : Queued(kk, c) => Queued(client, c)
    BY <1>4, <1>5, <1>6 DEF Queued
  <1>9. ASSUME NEW c \in Sets PROVE OnePlace(kk, c)
    BY <1>1, <1>4, <1>5, <1>6, <1>8 DEF Good, OnePlace
  <1>10. Clean(kk, D) = Clean(client, D) /\ \A c \in Clean(kk, D) : c \in Sets
    BY <1>5 DEF Clean
  <1>11. \A c \in Clean(kk, D) : Undiscarded(kk, c)
    BY <1>1, <1>4, <1>5, <1>6, <1>10 DEF Good, Undiscarded
  <1>12. \A c \in Clean(kk, D) \cap kk.recovered : Recovering(kk, c, server)
    BY <1>1, <1>4, <1>5, <1>6, <1>10 DEF Good, Recovering
  <1>13. Good(kk, D, server, right)
    BY <1>1, <1>5, <1>7, <1>9, <1>11, <1>12 DEF Good
  <1>. QED BY <1>1, <1>2, <1>13 DEF HimportInv, right

\* A queue whose PREPARE p has timed out.
Expired(p, s) == [i \in DOMAIN s |-> IF s[i] = p THEN [s[i] EXCEPT !.id = 0] ELSE s[i]]

\* Only the number of a PREPARE is another one.
LEMMA ExpiredFacts ==
  ASSUME NEW p \in PrepareItem, NEW q \in Seq(Item)
  PROVE  /\ Expired(p, q) \in Seq(Item) /\ (Calm(Expired(p, q)) <=> Calm(q))
         /\ OnlyPrepares(q) => OnlyPrepares(Expired(p, q))
         /\ NoReset(q) => NoReset(Expired(p, q))
         /\ \A n \in Nat \ {0} : Below(q, n) => Below(Expired(p, q), n)
         /\ \A id \in Nat \ {0} : Fresh(q, id) => Fresh(Expired(p, q), id)
         /\ q = <<>> => Expired(p, q) = <<>>
         /\ \A c \in Sets : /\ Has(Expired(p, q), c) <=> Has(q, c)
                            /\ CalmAfter(Expired(p, q), c) <=> CalmAfter(q, c)
                            /\ OnceIn(Expired(p, q), c) <=> OnceIn(q, c)
PROOF
  <1> DEFINE e == Expired(p, q)
             z == [p EXCEPT !.id = 0]
  <1>1. z \in PrepareItem /\ z.kind = "prepare" /\ z.id = 0 /\ p.kind = "prepare"
    BY DEF PrepareItem
  <1>2. DOMAIN e = DOMAIN q /\ DOMAIN q = 1..Len(q) /\ Len(q) \in Nat
        /\ \A i \in DOMAIN q : e[i] = IF q[i] = p THEN z ELSE q[i]
    BY DEF Expired
  <1> HIDE DEF z
  <1>3. z \in Item /\ z \notin Forgets /\ p \notin Forgets
        /\ \A c \in Sets : z # Set(c) /\ p # Set(c)
    BY <1>1, ItemKinds
  <1>4. e \in Seq(Item)
    <2>1. \A i \in 1..Len(q) : e[i] \in Item
      BY <1>2, <1>3
    <2>2. e = [i \in 1..Len(q) |-> IF q[i] = p THEN [q[i] EXCEPT !.id = 0] ELSE q[i]]
      BY <1>2 DEF Expired
    <2>3. \A i \in 1..Len(q) : (IF q[i] = p THEN [q[i] EXCEPT !.id = 0] ELSE q[i]) \in Item
      BY <2>1, <2>2
    <2>. QED BY <1>2, <2>2, <2>3
  <1> HIDE DEF e
  <1>5. /\ \A i \in DOMAIN q : /\ e[i] \in Forgets <=> q[i] \in Forgets
                               /\ e[i].kind = q[i].kind
                               /\ e[i].id = q[i].id \/ e[i].id = 0
        /\ \A i \in DOMAIN q : \A c \in Sets : e[i] = Set(c) <=> q[i] = Set(c)
    BY <1>1, <1>2, <1>3
  <1>6. Calm(e) <=> Calm(q)
    BY <1>2, <1>5 DEF Calm
  <1>7. OnlyPrepares(q) => OnlyPrepares(e)
    BY <1>2, <1>5 DEF OnlyPrepares
  <1>8. NoReset(q) => NoReset(e)
    BY <1>2, <1>5 DEF NoReset
  <1>9. ASSUME NEW n \in Nat \ {0}, Below(q, n) PROVE Below(e, n)
    BY <1>2, <1>5, <1>9 DEF Below
  <1>10. ASSUME NEW id \in Nat \ {0}, Fresh(q, id) PROVE Fresh(e, id)
    BY <1>2, <1>5, <1>10 DEF Fresh
  <1>11. q = <<>> => e = <<>>
    BY <1>2, <1>4
  <1>12. ASSUME NEW c \in Sets
         PROVE  /\ Has(e, c) <=> Has(q, c)
                /\ CalmAfter(e, c) <=> CalmAfter(q, c)
                /\ OnceIn(e, c) <=> OnceIn(q, c)
    <2>1. Has(e, c) <=> Has(q, c)
      BY <1>2, <1>5 DEF Has
    <2>2. CalmAfter(e, c) <=> CalmAfter(q, c)
      BY <1>2, <1>5 DEF CalmAfter
    <2>3. OnceIn(e, c) <=> OnceIn(q, c)
      BY <1>2, <1>5 DEF OnceIn
    <2>. QED BY <2>1, <2>2, <2>3
  <1>. QED BY <1>4, <1>6, <1>7, <1>8, <1>9, <1>10, <1>11, <1>12 DEF e

\* A PREPARE times out.
LEMMA PrepareTimesOutKeeps ==
  ASSUME HimportInv, client.backlog = <<>>, PrepareTimesOut
  PROVE  HimportInv'
PROOF
  <1> DEFINE right == server \/ discarded
             D == disturbed
             all == client.wire \o client.resend \o client.offline
             over(p) == [client EXCEPT !.wire = Expired(p, @), !.resend = Expired(p, @),
                                       !.offline = Expired(p, @)]
  <1>1. /\ Good(client, D, server, right) /\ client \in Client /\ right \in BOOLEAN
        /\ server \in BOOLEAN /\ discarded \in BOOLEAN
        /\ client.wire \in Seq(Item) /\ client.resend \in Seq(Item)
        /\ client.offline \in Seq(Item) /\ client.next \in Nat \ {0}
    BY DEF HimportInv, Good, Client
  <1>2. PICK p \in ToSet(all) : p.kind = "prepare" /\ p.id # 0 /\ client' = Fails(over(p), p)
    BY Zenon DEF PrepareTimesOut, Expired
  <1>3. UNCHANGED <<server, discarded, disturbed>>
    BY DEF PrepareTimesOut
  <1>4. p \in PrepareItem
    <2>1. all \in Seq(Item)
      BY <1>1
    <2> HIDE DEF all
    <2>2. \A x \in ToSet(all) : x \in Item
      BY <2>1 DEF ToSet
    <2>. QED BY <1>2, <2>2, ItemKinds
  <1> DEFINE kk == over(p)
  <1> HIDE DEF right
  <1>5. /\ kk \in Client /\ kk.status = client.status /\ kk.entry = client.entry
        /\ kk.next = client.next /\ kk.backlog = client.backlog
        /\ kk.recovered = client.recovered /\ kk.waiting = client.waiting
        /\ kk.outcome = client.outcome
        /\ kk.wire = Expired(p, client.wire) /\ kk.resend = Expired(p, client.resend)
        /\ kk.offline = Expired(p, client.offline)
    <2>1. /\ Expired(p, client.wire) \in Seq(Item) /\ Expired(p, client.resend) \in Seq(Item)
          /\ Expired(p, client.offline) \in Seq(Item)
      BY <1>1, <1>4, ExpiredFacts
    <2>. QED BY <1>1, <2>1 DEF Client
  <1> HIDE DEF kk
  <1>6. /\ Calm(kk.wire) <=> Calm(client.wire)
        /\ Calm(kk.resend) <=> Calm(client.resend)
        /\ Calm(kk.offline) <=> Calm(client.offline)
        /\ \A c \in Sets :
             /\ Has(kk.wire, c) <=> Has(client.wire, c)
             /\ Has(kk.resend, c) <=> Has(client.resend, c)
             /\ Has(kk.offline, c) <=> Has(client.offline, c)
             /\ CalmAfter(kk.wire, c) <=> CalmAfter(client.wire, c)
             /\ CalmAfter(kk.resend, c) <=> CalmAfter(client.resend, c)
             /\ CalmAfter(kk.offline, c) <=> CalmAfter(client.offline, c)
             /\ OnceIn(kk.wire, c) <=> OnceIn(client.wire, c)
             /\ OnceIn(kk.resend, c) <=> OnceIn(client.resend, c)
             /\ OnceIn(kk.offline, c) <=> OnceIn(client.offline, c)
    BY <1>1, <1>4, <1>5, ExpiredFacts
  <1>7. Numbered(kk)
    <2>1. /\ Below(client.wire, client.next) => Below(kk.wire, client.next)
          /\ Below(client.resend, client.next) => Below(kk.resend, client.next)
          /\ Below(client.offline, client.next) => Below(kk.offline, client.next)
      BY <1>1, <1>4, <1>5, ExpiredFacts
    <2>. QED BY <1>1, <1>5, <2>1 DEF Good, Numbered
  <1>8. Unspoilt(kk)
    <2>1. client.entry.status = "preparing" => client.entry.id \in Nat \ {0}
      BY <1>1 DEF Good, Numbered
    <2>2. NoReset(client.wire) => NoReset(kk.wire)
      BY <1>1, <1>4, <1>5, ExpiredFacts
    <2>3. \A id \in Nat \ {0} : Fresh(client.wire, id) => Fresh(kk.wire, id)
      BY <1>1, <1>4, <1>5, ExpiredFacts
    <2>. QED BY <1>1, <1>5, <2>1, <2>2, <2>3 DEF Good, Unspoilt
  <1>9. Shapes(kk)
    <2>1. /\ OnlyPrepares(client.wire) => OnlyPrepares(kk.wire)
          /\ client.resend = <<>> => kk.resend = <<>>
          /\ client.offline = <<>> => kk.offline = <<>>
      BY <1>1, <1>4, <1>5, ExpiredFacts
    <2>. QED BY <1>1, <1>5, <2>1 DEF Good, Shapes
  <1>10. \A c \in Sets : Queued(kk, c) <=> Queued(client, c)
    BY <1>5, <1>6 DEF Queued
  <1>11. ASSUME NEW c \in Sets PROVE OnePlace(kk, c)
    BY <1>1, <1>5, <1>6, <1>10 DEF Good, OnePlace
  <1>12. Clean(kk, D) = Clean(client, D) /\ \A c \in Clean(kk, D) : c \in Sets
    BY <1>5 DEF Clean
  <1>13. \A c \in Clean(kk, D) : Undiscarded(kk, c)
    BY <1>1, <1>5, <1>6, <1>12 DEF Good, Undiscarded
  <1>14. \A c \in Clean(kk, D) \cap kk.recovered : Recovering(kk, c, server)
    BY <1>1, <1>5, <1>6, <1>12 DEF Good, Recovering
  <1>15. Good(kk, D, server, right)
    BY <1>1, <1>5, <1>7, <1>8, <1>9, <1>11, <1>13, <1>14 DEF Good
  <1>16. Good(Fails(kk, p), D, server, right)
    BY <1>1, <1>2, <1>4, <1>5, <1>15, FailsGood
  <1>. QED BY <1>1, <1>2, <1>3, <1>16 DEF HimportInv, right, kk

\* The invariant holds at first ...
LEMMA HimportInit == Init => HimportInv
PROOF
  <1> SUFFICES ASSUME Init PROVE HimportInv
    OBVIOUS
  <1> DEFINE k == Initial
  <1>1. /\ client = k /\ server = FALSE /\ discarded = FALSE /\ disturbed = {}
    BY DEF Init
  <1>2. /\ k \in Client /\ k.status = "down" /\ k.entry.status = "none" /\ k.next = 1
        /\ k.wire = <<>> /\ k.resend = <<>> /\ k.offline = <<>> /\ k.backlog = <<>>
        /\ k.recovered = {} /\ \A c \in Sets : k.waiting[c] = 0 /\ k.outcome[c] = "none"
    <2>1. NoEntry \in [status: {"none", "preparing", "prepared"}, id: Nat] /\ NoEntry.status = "none"
      BY DEF NoEntry
    <2>2. /\ <<>> \in Seq(Item) /\ [c \in Sets |-> 0] \in [Sets -> Nat]
          /\ [c \in Sets |-> "none"] \in [Sets -> Outcomes]
      BY ShortQueues DEF Outcomes
    <2>. QED BY <2>1, <2>2 DEF Initial, Client
  <1> HIDE DEF k
  <1>3. /\ NoReset(<<>>) /\ OnlyPrepares(<<>>) /\ Below(<<>>, 1)
        /\ \A c \in Sets : ~Has(<<>>, c) /\ CalmAfter(<<>>, c) /\ OnceIn(<<>>, c)
    BY ShortQueues, ResetShort
  <1>4. Numbered(k) /\ Unspoilt(k) /\ Shapes(k)
    BY <1>2, <1>3 DEF Numbered, Unspoilt, Shapes
  <1>5. IsFiniteSet({c \in Sets : k.waiting[c] # 0})
    <2>1. {c \in Sets : k.waiting[c] # 0} = {}
      BY <1>2
    <2>. QED BY <2>1, FS_EmptySet
  <1>6. \A c \in Sets : OnePlace(k, c)
    BY <1>2, <1>3 DEF OnePlace, Queued
  <1>7. Clean(k, {}) = {}
    BY <1>2 DEF Clean
  <1>8. Good(k, {}, FALSE, FALSE)
    BY <1>2, <1>4, <1>5, <1>6, <1>7 DEF Good
  <1>. QED BY <1>1, <1>8 DEF HimportInv

\* ... and is kept by every step.
LEMMA HimportKeeps == HimportInv /\ [Next]_vars => HimportInv'
PROOF
  <1> SUFFICES ASSUME HimportInv, [Next]_vars PROVE HimportInv'
    OBVIOUS
  <1>1. CASE client.backlog # <<>> /\ SendBacklog
    BY <1>1, SendBacklogKeeps
  <1>2. CASE client.backlog = <<>> /\ Event
    <2>1. CASE PrepareAnswered
      BY <1>2, <2>1, PrepareAnsweredKeeps
    <2>2. CASE SetAnswered
      BY <1>2, <2>2, SetAnsweredKeeps
    <2>3. CASE ForgetAnswered
      BY <2>3, ForgetAnsweredKeeps
    <2>4. CASE Connect
      BY <2>4, ConnectKeeps
    <2>5. CASE Lose
      BY <1>2, <2>5, LoseKeeps
    <2>6. CASE PrepareTimesOut
      BY <1>2, <2>6, PrepareTimesOutKeeps
    <2>7. ASSUME NEW c \in Sets, Call(c) PROVE HimportInv'
      BY <1>2, <2>7, CallKeeps
    <2>8. ASSUME NEW c \in Sets, SetTimesOut(c) PROVE HimportInv'
      BY <2>8, SetTimesOutKeeps
    <2>9. ASSUME NEW item \in Forgets, Forget(item) PROVE HimportInv'
      BY <2>9, ForgetKeeps
    <2>. QED BY <1>2, <2>1, <2>2, <2>3, <2>4, <2>5, <2>6, <2>7, <2>8, <2>9 DEF Event, Answers
  <1>3. CASE UNCHANGED vars
    BY <1>3, Zenon DEF vars, HimportInv
  <1>. QED BY <1>1, <1>2, <1>3 DEF Next

\* What the coordinator believes to be prepared is prepared in the session of the connection
\* there is, unless it was discarded by hand: whatever PREPAREs, resets, lost connections and
\* timeouts came in between.
THEOREM BeliefIsRightTheorem == Spec => []BeliefIsRight
PROOF
  <1>1. HimportInv => BeliefIsRight
    BY DEF HimportInv, Good, BeliefIsRight
  <1>. QED BY <1>1, HimportInit, HimportKeeps, PTL DEF Spec

\* A SET that is sent alone fails for want of its fieldset only if the application called
\* RESET or DISCARD while it was pending.
THEOREM OnlyDisturbedSetsFailTheorem == Spec => []OnlyDisturbedSetsFail
PROOF
  <1>1. HimportInv => OnlyDisturbedSetsFail
    BY DEF HimportInv, Good, OnlyDisturbedSetsFail
  <1>. QED BY <1>1, HimportInit, HimportKeeps, PTL DEF Spec
=============================================================================
