---------------------------- MODULE PipelineProofs ----------------------------
(***************************************************************************)
(* Proofs about Pipeline, for any commands, pipelines, transactions, slots *)
(* and nodes, and any number of faults: the shape of the state, that no    *)
(* write whose success was read is sent again, and that every caller of a  *)
(* settled pipeline is given the result of its own command.                *)
(*                                                                         *)
(* The invariant has three parts, each about one of the things a step      *)
(* changes: what every pipeline has collected so far (Fine), where the     *)
(* commands are that it waits for (PlacesOK), and whose calls it holds     *)
(* (CallsOK).                                                              *)
(***************************************************************************)
EXTENDS Pipeline, SequenceFacts

\* The kinds of a reply or an error, the words of a queue, and results.
Kinds == {"ok", "MOVED", "ASK", "TRYAGAIN", "CLUSTERDOWN", "ERR", "EXECABORT", "closed",
          "undefined", "rejected"}
Words == Commands \cup {"asking", "multi", "exec"}
Result == {x \in [kind: Kinds, slot: Slots \cup {NoSlot}, node: Nodes \cup {NoNode}, of: Seq(Words)] :
             x.kind \in {"MOVED", "ASK"} => x.node \in Nodes}

\* The phases in which nothing is sent, and those in which all is settled.
Pausing == {"filling", "waiting", "woken", "refused", "delayed"}
Over == {"resolved", "answered"}

\* The pipelines.
PipelineRecord ==
  [key: Nodes \cup {NoNode}, calls: Seq(Commands), transaction: BOOLEAN, queue: Seq(Words),
   result: Seq(Result), replyPending: Nat, preferKey: Nodes \cup {NoNode}, leftRedirections: Int,
   phase: Pausing \cup Over \cup {"sent"}, answer: Seq(Result)]

------------------------------------------------------------------------------
(* What a pipeline holds.                                                    *)

\* The queue: the calls as they are, ASKING before each of them, or a transaction with or
\* without ASKING before it.
Plain(r) == ~r.transaction /\ r.queue = r.calls
Interleaved(r) ==
  /\ ~r.transaction /\ Len(r.queue) = 2 * Len(r.calls)
  /\ \A k \in 1..Len(r.calls) : r.queue[2 * k - 1] = "asking" /\ r.queue[2 * k] = r.calls[k]
Multi(r, d) ==
  /\ r.transaction /\ Len(r.queue) = Len(r.calls) + 2 + d
  /\ d = 1 => r.queue[1] = "asking"
  /\ r.queue[1 + d] = "multi"
  /\ \A k \in 1..Len(r.calls) : r.queue[k + 1 + d] = r.calls[k]
  /\ r.queue[Len(r.calls) + 2 + d] = "exec"
Shaped(r) == Plain(r) \/ Interleaved(r) \/ \E d \in {0, 1} : Multi(r, d)

Formed(r) ==
  /\ r \in PipelineRecord /\ r.calls # <<>> /\ IsInjective(r.calls) /\ Shaped(r)
  /\ r.key # NoNode => ~r.transaction
  /\ Len(r.result) <= Len(r.queue)

\* What a node answers to the command at position j, unless it is an error.
Expected(r, j) == IF r.queue[j] = "exec" THEN r.calls ELSE <<r.queue[j]>>
Received(r) == 1..(Len(r.queue) - r.replyPending)
Filled(r) ==
  \A j \in Received(r) :
    /\ IsError(r.result[j]) \/ r.result[j].of = Expected(r, j)
    /\ ~AskAtLimit /\ r.result[j].kind = "ASK" => CountDown(r.leftRedirections) > 0

\* A call of r that is confirmed has its success among the results.
Told(r, conf) ==
  \A c \in ToSet(r.calls) \cap conf :
    \E j \in Received(r) :
      ~IsError(r.result[j]) /\ r.queue[j] = IF r.transaction THEN "exec" ELSE c

Rest(r, conf) ==
  /\ Formed(r) /\ r.replyPending = 0 /\ ToSet(r.calls) \cap conf = {}
  /\ r.phase = "filling" => r.key \in Nodes /\ r.queue = r.calls /\ r.result = <<>>
Underway(r, conf) ==
  /\ Formed(r) /\ r.replyPending \in 0..Len(r.queue)
  /\ Len(r.result) >= Len(r.queue) - r.replyPending
  /\ Filled(r) /\ Told(r, conf)

\* Every caller has an entry of its own.
Own(r) ==
  /\ Len(r.answer) = Len(r.calls)
  /\ \A k \in DOMAIN r.calls : IsError(r.answer[k]) \/ r.answer[k].of = <<r.calls[k]>>
Done(r) == Formed(r) /\ r.replyPending = 0 /\ (~AskAtLimit => Own(r))

Fine(r, conf) ==
  /\ r.phase \in Pausing => Rest(r, conf)
  /\ r.phase = "sent" => Underway(r, conf) /\ r.replyPending > 0
  /\ r.phase \in Over => Done(r)

\* Calls belong to one pipeline, and are confirmed only when they are in one.
CallsOK(ps, called1, conf) ==
  /\ \A p \in DOMAIN ps : \A c \in ToSet(ps[p].calls) : called1[c] \in {"made", "answered"}
  /\ \A p, q \in DOMAIN ps : p # q => ToSet(ps[p].calls) \cap ToSet(ps[q].calls) = {}
  /\ conf \subseteq Writes
  /\ \A c \in conf : called1[c] \in {"made", "answered"}

------------------------------------------------------------------------------
(* Where the commands are that pipelines wait for.                           *)

Places == Nodes \cup {NoNode}
Lines(w, f) == [x \in Places |-> IF x = NoNode THEN f ELSE w[x]]

Out(r) == IF r.phase = "sent" THEN (Len(r.queue) - r.replyPending + 1)..Len(r.queue) ELSE {}
Holds(q) == {e[1] : e \in ToSet(q)}
Ordered(q) == \A j, k \in DOMAIN q : j < k /\ q[j][1] = q[k][1] => q[j][2] < q[k][2]

\* All the commands a pipeline waits for are in one place, in their order.
Placed(ps, q) ==
  /\ q \in Seq(Nat \X Nat) /\ Ordered(q)
  /\ \A p \in Holds(q) : p \in DOMAIN ps /\ \A i \in Nat : <<p, i>> \in ToSet(q) <=> i \in Out(ps[p])
\* What a pipeline in the offline queue prefers.
Preferred == Nodes \cup {NoNode, Ended}
Offline(o) == {o[i][1] : i \in DOMAIN o}
PlacesOK(ps, Q, o) ==
  /\ \A x \in Places : Placed(ps, Q[x])
  /\ \A x, y \in Places : x # y => Holds(Q[x]) \cap Holds(Q[y]) = {}
  /\ \A x \in Places : Holds(Q[x]) \cap Offline(o) = {}
  /\ o \in Seq(Nat \X Preferred)
  /\ \A i, j \in DOMAIN o : o[i][1] = o[j][1] => i = j
  /\ \A i \in DOMAIN o : o[i][1] \in DOMAIN ps /\ ps[o[i][1]].phase = "sent"
                         /\ ps[o[i][1]].replyPending = Len(ps[o[i][1]].queue)

------------------------------------------------------------------------------
(* The slots and the automatic pipelines.                                    *)

\* Nothing is sent, or waits to be, before the slots are known, and they are known at once.
Learned == slots \in [Slots -> Nodes]
SlotsOK ==
  /\ Learned \/ slots = [s \in Slots |-> NoNode]
  /\ ~Learned => /\ \A c \in Commands : called[c] # "woken"
                 /\ \A p \in DOMAIN pipelines : pipelines[p].phase \notin {"filling", "sent", "delayed"}

AutoOK ==
  \A n \in Nodes : auto[n] # 0 =>
    /\ auto[n] \in DOMAIN pipelines
    /\ pipelines[auto[n]].phase = "filling" /\ pipelines[auto[n]].key = n

Shapes ==
  /\ cluster \in {"connecting", "connect", "ready", "reconnecting", "end"}
  /\ groupIds \subseteq Nodes /\ pool \subseteq Nodes
  /\ auto \in [Nodes -> Nat] /\ running \subseteq Nodes /\ immediates \in Seq(Nodes)
  /\ called \in [Commands -> {"no", "waiting", "woken", "refused", "made", "answered"}]
  /\ owner \in [Slots -> Nodes] /\ importing \in [Slots -> Nodes \cup {NoNode}]
  /\ faults \in 0..MaxFaults

\* All pipelines are in order.
Whole(ps, w, f, o, called1, conf) ==
  /\ ps \in Seq(PipelineRecord) /\ w \in [Nodes -> Seq(Nat \X Nat)] /\ f \in Seq(Nat \X Nat)
  /\ \A p \in DOMAIN ps : Fine(ps[p], conf)
  /\ CallsOK(ps, called1, conf)
  /\ PlacesOK(ps, Lines(w, f), o)

\* The inductive invariant.
PipeInv ==
  Shapes /\ SlotsOK /\ AutoOK /\ Whole(pipelines, wire, failed, offline, called, confirmed)
------------------------------------------------------------------------------
(* The shapes of a queue.                                                    *)

\* ASKING, MULTI and EXEC are no commands of the application.
LEMMA Keywords ==
  /\ "asking" \notin Commands /\ "multi" \notin Commands /\ "exec" \notin Commands
  /\ Commands \subseteq Words /\ "asking" \in Words /\ "multi" \in Words /\ "exec" \in Words
BY PipelineAssumption DEF Words

\* The fields of a pipeline that is well formed.
LEMMA FormedFields ==
  ASSUME NEW r, Formed(r)
  PROVE  /\ r \in PipelineRecord
         /\ r.calls \in Seq(Commands) /\ r.queue \in Seq(Words) /\ r.result \in Seq(Result)
         /\ r.transaction \in BOOLEAN /\ r.replyPending \in Nat /\ r.leftRedirections \in Int
         /\ r.key \in Nodes \cup {NoNode} /\ r.preferKey \in Nodes \cup {NoNode}
         /\ Len(r.calls) \in Nat /\ Len(r.calls) >= 1 /\ Len(r.queue) \in Nat /\ Len(r.result) \in Nat
         /\ DOMAIN r.calls = 1..Len(r.calls) /\ DOMAIN r.queue = 1..Len(r.queue)
         /\ DOMAIN r.result = 1..Len(r.result)
         /\ Len(r.result) <= Len(r.queue) /\ IsInjective(r.calls)
         /\ \A k \in 1..Len(r.calls) : r.calls[k] \in Commands
PROOF
  <1>1. r \in PipelineRecord /\ r.calls # <<>> /\ IsInjective(r.calls) /\ Len(r.result) <= Len(r.queue)
    BY DEF Formed
  <1>2. /\ r.calls \in Seq(Commands) /\ r.queue \in Seq(Words) /\ r.result \in Seq(Result)
        /\ r.transaction \in BOOLEAN /\ r.replyPending \in Nat /\ r.leftRedirections \in Int
        /\ r.key \in Nodes \cup {NoNode} /\ r.preferKey \in Nodes \cup {NoNode}
    BY <1>1 DEF PipelineRecord
  <1>3. /\ Len(r.calls) \in Nat /\ DOMAIN r.calls = 1..Len(r.calls)
        /\ \A k \in 1..Len(r.calls) : r.calls[k] \in Commands
    BY <1>2
  <1>4. Len(r.queue) \in Nat /\ DOMAIN r.queue = 1..Len(r.queue)
    BY <1>2
  <1>5. Len(r.result) \in Nat /\ DOMAIN r.result = 1..Len(r.result)
    BY <1>2
  <1>6. Len(r.calls) >= 1
    BY <1>1, <1>2, EmptySeq
  <1>. QED BY <1>1, <1>2, <1>3, <1>4, <1>5, <1>6

\* Where the commands are in a queue: each call once; EXEC at the end of a transaction, and
\* before it the calls in their order.
Positions(r) ==
  LET n == Len(r.calls)
      m == Len(r.queue)
  IN  /\ m >= n
      /\ \A j \in 1..m : r.queue[j] \in ToSet(r.calls) \cup {"asking", "multi", "exec"}
      /\ ~r.transaction => \A j \in 1..m : r.queue[j] \in ToSet(r.calls) \cup {"asking"}
      /\ \A i, j \in 1..m : r.queue[i] \in Commands /\ r.queue[i] = r.queue[j] => i = j
      /\ r.transaction => /\ m >= n + 2 /\ \A j \in 1..m : r.queue[j] = "exec" <=> j = m
                          /\ \A k \in 1..n : r.queue[m - n - 1 + k] = r.calls[k]

\* Every queue has its commands there.
LEMMA QueuePositions ==
  ASSUME NEW r, Formed(r)
  PROVE  Positions(r)
PROOF
  <1> DEFINE n == Len(r.calls)
             m == Len(r.queue)
  <1>1. /\ n \in Nat /\ n >= 1 /\ m \in Nat /\ r.transaction \in BOOLEAN
        /\ DOMAIN r.calls = 1..n /\ \A k \in 1..n : r.calls[k] \in Commands
    BY FormedFields
  <1>2. \A i, j \in 1..n : r.calls[i] = r.calls[j] => i = j
    BY <1>1, FormedFields DEF IsInjective
  <1>3. \A k \in 1..n : r.calls[k] \in ToSet(r.calls)
    BY <1>1 DEF ToSet
  <1>4. CASE Plain(r)
    <2>1. ~r.transaction /\ r.queue = r.calls /\ m = n
      BY <1>4 DEF Plain
    <2> HIDE DEF n, m
    <2>. QED BY <1>1, <1>2, <1>3, <2>1 DEF Positions, n, m
  <1>5. CASE Interleaved(r)
    <2>1. /\ ~r.transaction /\ m = 2 * n
          /\ \A k \in 1..n : r.queue[2 * k - 1] = "asking" /\ r.queue[2 * k] = r.calls[k]
      BY <1>5 DEF Interleaved
    <2> HIDE DEF n, m
    <2>2. ASSUME NEW j \in 1..m
          PROVE  \E k \in 1..n : \/ j = 2 * k - 1 /\ r.queue[j] = "asking"
                                 \/ j = 2 * k /\ r.queue[j] = r.calls[k]
      <3>1. PICK k \in 1..n : j = 2 * k - 1 \/ j = 2 * k
        <4>1. (j + 1) \div 2 \in 1..n /\ (j = 2 * ((j + 1) \div 2) - 1 \/ j = 2 * ((j + 1) \div 2))
          BY <1>1, <2>1
        <4>. QED BY <4>1
      <3>. QED BY <2>1, <3>1
    <2>3. \A j \in 1..m : r.queue[j] \in ToSet(r.calls) \cup {"asking"}
      BY <1>3, <2>2
    <2>4. ASSUME NEW i \in 1..m, NEW j \in 1..m, r.queue[i] \in Commands, r.queue[i] = r.queue[j]
          PROVE  i = j
      <3>1. PICK k \in 1..n : \/ i = 2 * k - 1 /\ r.queue[i] = "asking"
                              \/ i = 2 * k /\ r.queue[i] = r.calls[k]
        BY <2>2
      <3>2. PICK l \in 1..n : \/ j = 2 * l - 1 /\ r.queue[j] = "asking"
                              \/ j = 2 * l /\ r.queue[j] = r.calls[l]
        BY <2>2
      <3>3. i = 2 * k /\ j = 2 * l /\ r.calls[k] = r.calls[l]
        BY <2>4, <3>1, <3>2, Keywords
      <3>4. k = l
        BY <1>2, <3>3
      <3>. QED BY <3>3, <3>4
    <2>5. m >= n
      BY <1>1, <2>1
    <2>. QED BY <2>1, <2>3, <2>4, <2>5 DEF Positions, n, m
  <1>6. ASSUME NEW d \in {0, 1}, Multi(r, d) PROVE Positions(r)
    <2>1. /\ r.transaction /\ m = n + 2 + d /\ (d = 1 => r.queue[1] = "asking")
          /\ r.queue[1 + d] = "multi"
          /\ \A k \in 1..n : r.queue[k + 1 + d] = r.calls[k]
          /\ r.queue[n + 2 + d] = "exec"
      BY <1>6 DEF Multi
    <2> HIDE DEF n, m
    <2>2. ASSUME NEW j \in 1..m
          PROVE  \/ j = 1 /\ d = 1 /\ r.queue[j] = "asking"
                 \/ j = 1 + d /\ r.queue[j] = "multi"
                 \/ \E k \in 1..n : j = k + 1 + d /\ r.queue[j] = r.calls[k]
                 \/ j = m /\ r.queue[j] = "exec"
      <3>1. (j = 1 /\ d = 1) \/ j = 1 + d \/ j = m \/ j - 1 - d \in 1..n
        BY <1>1, <2>1
      <3>2. CASE j - 1 - d \in 1..n
        <4>1. PICK k \in 1..n : k = j - 1 - d
          BY <3>2
        <4>2. j = k + 1 + d
          BY <4>1, <1>1
        <4>. QED BY <2>1, <4>2
      <3>. QED BY <2>1, <3>1, <3>2
    <2>3. \A j \in 1..m : r.queue[j] \in ToSet(r.calls) \cup {"asking", "multi", "exec"}
      BY <1>3, <2>2
    <2>4. ASSUME NEW j \in 1..m, r.queue[j] \in Commands
          PROVE  \E k \in 1..n : j = k + 1 + d /\ r.queue[j] = r.calls[k]
      BY <2>2, <2>4, Keywords
    <2>5. ASSUME NEW i \in 1..m, NEW j \in 1..m, r.queue[i] \in Commands, r.queue[i] = r.queue[j]
          PROVE  i = j
      <3>1. PICK k \in 1..n : i = k + 1 + d /\ r.queue[i] = r.calls[k]
        BY <2>4, <2>5
      <3>2. PICK l \in 1..n : j = l + 1 + d /\ r.queue[j] = r.calls[l]
        BY <2>4, <2>5
      <3>3. k = l
        BY <1>2, <2>5, <3>1, <3>2
      <3>. QED BY <3>1, <3>2, <3>3
    <2>6. \A j \in 1..m : r.queue[j] = "exec" <=> j = m
      <3>1. ASSUME NEW j \in 1..m, r.queue[j] = "exec" PROVE j = m
        BY <1>1, <2>2, <3>1, Keywords
      <3>. QED BY <2>1, <3>1
    <2>7. \A k \in 1..n : r.queue[m - n - 1 + k] = r.calls[k]
      <3>1. ASSUME NEW k \in 1..n PROVE m - n - 1 + k = k + 1 + d
        BY <1>1, <2>1
      <3>. QED BY <2>1, <3>1
    <2>8. m >= n /\ m >= n + 2
      BY <1>1, <2>1
    <2>. QED BY <2>1, <2>3, <2>5, <2>6, <2>7, <2>8 DEF Positions, n, m
  <1>7. Plain(r) \/ Interleaved(r) \/ \E d \in {0, 1} : Multi(r, d)
    BY DEF Formed, Shaped
  <1>. QED BY <1>4, <1>5, <1>6, <1>7

\* A pipeline with the calls, the key and the queue of a well-formed one.
LEMMA FormedLike ==
  ASSUME NEW r, Formed(r), NEW s \in PipelineRecord, s.calls = r.calls, s.key = r.key,
         s.transaction = r.transaction, s.queue = r.queue, Len(s.result) <= Len(s.queue)
  PROVE  Formed(s)
PROOF
  <1>1. Shaped(s)
    BY DEF Formed, Shaped, Plain, Interleaved, Multi
  <1>. QED BY <1>1 DEF Formed

\* One with another queue that has a shape, and is no shorter.
LEMMA FormedAgain ==
  ASSUME NEW r, Formed(r), NEW s \in PipelineRecord, s.calls = r.calls, s.key = r.key,
         s.transaction = r.transaction, s.result = r.result, Len(s.queue) >= Len(r.queue), Shaped(s)
  PROVE  Formed(s)
PROOF
  <1>1. Len(r.result) <= Len(r.queue) /\ Len(r.result) \in Nat /\ Len(r.queue) \in Nat
    BY FormedFields
  <1>2. Len(s.queue) \in Nat
    BY DEF PipelineRecord
  <1>3. Len(s.result) <= Len(s.queue)
    BY <1>1, <1>2
  <1>. QED BY <1>3 DEF Formed

\* Whether ASKING is put before the command at position i.
AskBefore(r, error, i) ==
  /\ error.kind = "ASK" /\ r.queue[i] # "asking"
  /\ i = 1 \/ (~InTransaction(r, i - 1) /\ r.queue[i - 1] # "asking")
Parts(r, error) ==
  [i \in DOMAIN r.queue |-> IF AskBefore(r, error, i) THEN <<"asking", r.queue[i]>> ELSE <<r.queue[i]>>]

\* What is queued again is each command, after an ASKING where one is due.
LEMMA RequeuedParts ==
  ASSUME NEW r, Formed(r), NEW error
  PROVE  /\ Requeued(r, error) = FlattenSeq(Parts(r, error))
         /\ Parts(r, error) \in Seq(Seq(Words)) /\ Len(Parts(r, error)) = Len(r.queue)
         /\ \A i \in 1..Len(r.queue) :
              Parts(r, error)[i] = IF AskBefore(r, error, i) THEN <<"asking", r.queue[i]>> ELSE <<r.queue[i]>>
PROOF
  <1>1. Requeued(r, error) = FlattenSeq(Parts(r, error))
    BY DEF Requeued, Parts, AskBefore
  <1>2. /\ DOMAIN r.queue = 1..Len(r.queue) /\ Len(r.queue) \in Nat
        /\ \A i \in 1..Len(r.queue) : r.queue[i] \in Words
    BY FormedFields
  <1>3. \A i \in 1..Len(r.queue) : <<"asking", r.queue[i]>> \in Seq(Words) /\ <<r.queue[i]>> \in Seq(Words)
    BY <1>2, Keywords
  <1>4. PICK ss : ss = Parts(r, error)
    OBVIOUS
  <1>5. ss \in [1..Len(r.queue) -> Seq(Words)]
    BY <1>2, <1>3, <1>4 DEF Parts
  <1>6. ss \in Seq(Seq(Words)) /\ Len(ss) = Len(r.queue)
    BY <1>2, <1>5
  <1>7. \A i \in 1..Len(r.queue) :
          Parts(r, error)[i] = IF AskBefore(r, error, i) THEN <<"asking", r.queue[i]>> ELSE <<r.queue[i]>>
    BY <1>2 DEF Parts
  <1>. QED BY <1>1, <1>4, <1>6, <1>7

\* Without ASKING to put in the queue is the same.
LEMMA RequeuedSame ==
  ASSUME NEW r, Formed(r), NEW error, \A i \in 1..Len(r.queue) : ~AskBefore(r, error, i)
  PROVE  Requeued(r, error) = r.queue
PROOF
  <1>1. DOMAIN r.queue = 1..Len(r.queue) /\ r.queue \in Seq(Words)
    BY FormedFields
  <1>2. Parts(r, error) = [i \in DOMAIN r.queue |-> <<r.queue[i]>>]
    BY <1>1 DEF Parts
  <1>3. FlattenSeq([i \in DOMAIN r.queue |-> <<r.queue[i]>>]) = r.queue
    BY <1>1, FlattenSingles
  <1>. QED BY <1>2, <1>3, RequeuedParts

\* The queue to resend has one of the shapes again.
LEMMA RequeuedShaped ==
  ASSUME NEW r, Formed(r), NEW error
  PROVE  /\ Requeued(r, error) \in Seq(Words) /\ Len(Requeued(r, error)) >= Len(r.queue)
         /\ error.kind # "ASK" => Requeued(r, error) = r.queue
         /\ \A s : s.calls = r.calls /\ s.transaction = r.transaction /\ s.queue = Requeued(r, error)
                     => Shaped(s)
PROOF
  <1> DEFINE n == Len(r.calls)
             m == Len(r.queue)
             A(i) == AskBefore(r, error, i)
             u == Requeued(r, error)
  <1>1. /\ n \in Nat /\ n >= 1 /\ m \in Nat /\ r.transaction \in BOOLEAN
        /\ r.queue \in Seq(Words) /\ \A k \in 1..n : r.calls[k] \in Commands
    BY FormedFields
  <1>2. ASSUME \A i \in 1..m : ~A(i)
        PROVE  u = r.queue
    BY <1>2, RequeuedSame
  <1>3. ASSUME u = r.queue
        PROVE  /\ u \in Seq(Words) /\ Len(u) >= m
               /\ \A s : s.calls = r.calls /\ s.transaction = r.transaction /\ s.queue = u => Shaped(s)
    <2> HIDE DEF u
    <2>1. ASSUME NEW s, s.calls = r.calls, s.transaction = r.transaction, s.queue = r.queue
          PROVE  Shaped(s)
      BY <2>1 DEF Formed, Shaped, Plain, Interleaved, Multi
    <2>. QED BY <1>1, <1>3, <2>1
  <1>4. CASE error.kind # "ASK"
    <2>1. u = r.queue
      BY <1>2, <1>4 DEF AskBefore
    <2>. QED BY <1>3, <2>1
  <1>5. CASE error.kind = "ASK"
    <2> DEFINE ss == Parts(r, error)
    <2>0. /\ u = FlattenSeq(ss) /\ ss \in Seq(Seq(Words)) /\ Len(ss) = m
          /\ \A i \in 1..m : ss[i] = IF A(i) THEN <<"asking", r.queue[i]>> ELSE <<r.queue[i]>>
      BY RequeuedParts
    <2> HIDE DEF ss
    <2>1. CASE Plain(r)
      <3>1. ~r.transaction /\ r.queue = r.calls /\ m = n
        BY <2>1 DEF Plain
      <3>2. \A i \in 1..m : A(i)
        <4>1. \A i \in 1..m : r.queue[i] # "asking" /\ i - 1 \in 0..m
          BY <1>1, <3>1, Keywords
        <4>2. \A i \in 1..m : i = 1 \/ (i - 1 \in 1..m /\ ~InTransaction(r, i - 1))
          BY <1>1, <3>1 DEF InTransaction
        <4>. QED BY <1>5, <4>1, <4>2 DEF AskBefore
      <3>3. \A i \in 1..m : Len(ss[i]) = 2 /\ ss[i][1] = "asking" /\ ss[i][2] = r.queue[i]
        <4> HIDE DEF A, m
        <4>1. ASSUME NEW i \in 1..m
              PROVE  Len(ss[i]) = 2 /\ ss[i][1] = "asking" /\ ss[i][2] = r.queue[i]
          <5>1. ss[i] = <<"asking", r.queue[i]>>
            BY <2>0, <3>2
          <5>. QED BY <5>1
        <4>. QED BY <4>1
      <3>4. /\ FlattenSeq(ss) \in Seq(Words) /\ Len(FlattenSeq(ss)) = 2 * m
            /\ \A i \in 1..m : FlattenSeq(ss)[2 * i - 1] = ss[i][1] /\ FlattenSeq(ss)[2 * i] = ss[i][2]
        BY <2>0, <3>3, FlattenPairs
      <3>5. /\ u \in Seq(Words) /\ Len(u) = 2 * n
            /\ \A k \in 1..n : u[2 * k - 1] = "asking" /\ u[2 * k] = r.calls[k]
        <4> HIDE DEF u
        <4>. QED BY <2>0, <3>1, <3>3, <3>4
      <3> HIDE DEF u, m, n
      <3>6. Len(u) >= m
        BY <1>1, <3>1, <3>5
      <3>7. ASSUME NEW s, s.calls = r.calls, s.transaction = r.transaction, s.queue = u
            PROVE  Shaped(s)
        BY <3>1, <3>5, <3>7 DEF Shaped, Interleaved, n
      <3>. QED BY <1>5, <3>5, <3>6, <3>7 DEF u, m
    <2>2. CASE Interleaved(r)
      <3>1. /\ ~r.transaction /\ m = 2 * n
            /\ \A k \in 1..n : r.queue[2 * k - 1] = "asking" /\ r.queue[2 * k] = r.calls[k]
        BY <2>2 DEF Interleaved
      <3>2. ASSUME NEW i \in 1..m PROVE ~A(i)
        <4> HIDE DEF m, n
        <4>1. PICK k \in 1..n : i = 2 * k - 1 \/ i = 2 * k
          <5>1. (i + 1) \div 2 \in 1..n /\ (i = 2 * ((i + 1) \div 2) - 1 \/ i = 2 * ((i + 1) \div 2))
            BY <1>1, <3>1
          <5>. QED BY <5>1
        <4>2. CASE i = 2 * k - 1
          BY <3>1, <4>2 DEF AskBefore
        <4>3. CASE i = 2 * k
          <5>1. i # 1 /\ i - 1 = 2 * k - 1
            BY <4>3
          <5>. QED BY <3>1, <5>1 DEF AskBefore
        <4>. QED BY <4>1, <4>2, <4>3
      <3>3. u = r.queue
        BY <1>2, <3>2
      <3>. QED BY <1>3, <3>3
    <2>3. CASE Multi(r, 1)
      <3>1. /\ r.transaction /\ m = n + 3 /\ r.queue[1] = "asking" /\ r.queue[2] = "multi"
            /\ \A k \in 1..n : r.queue[k + 2] = r.calls[k]
        BY <2>3 DEF Multi
      <3>2. ASSUME NEW i \in 1..m PROVE ~A(i)
        <4> HIDE DEF m, n
        <4>1. CASE i \in {1, 2}
          BY <3>1, <4>1 DEF AskBefore
        <4>2. CASE i - 1 = 2
          BY <3>1, <4>2 DEF AskBefore, InTransaction
        <4>3. CASE i - 1 - 2 \in 1..n
          <5>1. PICK k \in 1..n : k = i - 1 - 2
            BY <4>3
          <5>2. i - 1 = k + 2 /\ i # 1
            BY <5>1
          <5>3. r.queue[i - 1] \in Commands
            BY <1>1, <3>1, <5>2
          <5>. QED BY <3>1, <5>2, <5>3, Keywords DEF AskBefore, InTransaction
        <4>4. i \in {1, 2} \/ i - 1 = 2 \/ i - 1 - 2 \in 1..n
          BY <1>1, <3>1
        <4>. QED BY <4>1, <4>2, <4>3, <4>4
      <3>3. u = r.queue
        BY <1>2, <3>2
      <3>. QED BY <1>3, <3>3
    <2>4. CASE Multi(r, 0)
      <3>1. /\ r.transaction /\ m = n + 2 /\ r.queue[1] = "multi"
            /\ (\A k \in 1..n : r.queue[k + 1] = r.calls[k]) /\ r.queue[n + 2] = "exec"
        BY <2>4 DEF Multi
      <3>2. A(1)
        BY <1>5, <3>1 DEF AskBefore
      <3>3. ASSUME NEW i \in 2..m PROVE ~A(i)
        <4> HIDE DEF m, n
        <4>1. CASE i - 1 = 1
          BY <3>1, <4>1 DEF AskBefore, InTransaction
        <4>3. CASE i - 1 - 1 \in 1..n
          <5>1. PICK k \in 1..n : k = i - 1 - 1
            BY <4>3
          <5>2. i - 1 = k + 1 /\ i # 1
            BY <5>1
          <5>3. r.queue[i - 1] \in Commands
            BY <1>1, <3>1, <5>2
          <5>. QED BY <3>1, <5>2, <5>3, Keywords DEF AskBefore, InTransaction
        <4>4. i - 1 = 1 \/ i - 1 - 1 \in 1..n
          BY <1>1, <3>1
        <4>. QED BY <4>1, <4>3, <4>4
      <3>4. ss[1] = <<"asking", "multi">> /\ Len(ss[1]) = 2
        <4> HIDE DEF A, m, n
        <4>1. 1 \in 1..m
          BY <1>1, <3>1
        <4>2. ss[1] = <<"asking", r.queue[1]>>
          BY <2>0, <3>2, <4>1
        <4>. QED BY <3>1, <4>2
      <3>5. \A i \in 2..m : ss[i] = <<r.queue[i]>> /\ Len(ss[i]) = 1 /\ ss[i][1] = r.queue[i]
        <4> HIDE DEF A, m, n
        <4>1. ASSUME NEW i \in 2..m
              PROVE  ss[i] = <<r.queue[i]>> /\ Len(ss[i]) = 1 /\ ss[i][1] = r.queue[i]
          <5>1. i \in 1..m
            BY <1>1
          <5>2. ss[i] = <<r.queue[i]>>
            BY <2>0, <3>3, <5>1
          <5>. QED BY <5>2
        <4>. QED BY <4>1
      <3>6. ss # <<>>
        BY <1>1, <2>0, <3>1
      <3>7. /\ FlattenSeq(ss) \in Seq(Words) /\ Len(FlattenSeq(ss)) = Len(ss[1]) + Len(ss) - 1
            /\ \A j \in 1..Len(ss[1]) : FlattenSeq(ss)[j] = ss[1][j]
            /\ \A i \in 2..Len(ss) : FlattenSeq(ss)[Len(ss[1]) + i - 1] = ss[i][1]
        <4> HIDE DEF m
        <4>1. \A i \in 2..Len(ss) : Len(ss[i]) = 1
          BY <2>0, <3>5
        <4>. QED BY <2>0, <3>6, <4>1, FlattenShift
      <3>8. /\ u \in Seq(Words) /\ Len(u) = 2 + m - 1 /\ u[1] = "asking" /\ u[2] = "multi"
            /\ \A i \in 2..m : u[2 + i - 1] = r.queue[i]
        <4> HIDE DEF u
        <4>. QED BY <2>0, <3>4, <3>5, <3>7
      <3> HIDE DEF u, m, n
      <3>9. /\ Len(u) = n + 2 + 1 /\ u[n + 2 + 1] = "exec"
            /\ \A k \in 1..n : u[k + 1 + 1] = r.calls[k]
        <4>1. Len(u) = n + 2 + 1
          BY <1>1, <3>1, <3>8
        <4>2. u[n + 2 + 1] = "exec"
          <5>1. PICK i \in 2..m : i = n + 2
            BY <1>1, <3>1
          <5>2. 2 + i - 1 = n + 2 + 1
            BY <1>1, <5>1
          <5>. QED BY <3>1, <3>8, <5>1, <5>2
        <4>3. ASSUME NEW k \in 1..n PROVE u[k + 1 + 1] = r.calls[k]
          <5>1. PICK i \in 2..m : i = k + 1
            BY <1>1, <3>1
          <5>2. 2 + i - 1 = k + 1 + 1
            BY <1>1, <5>1
          <5>. QED BY <3>1, <3>8, <5>1, <5>2
        <4>. QED BY <4>1, <4>2, <4>3
      <3>10. Len(u) >= m
        BY <1>1, <3>1, <3>8
      <3>11. ASSUME NEW s, s.calls = r.calls, s.transaction = r.transaction, s.queue = u
            PROVE  Shaped(s)
        <4>1. Multi(s, 1)
          BY <3>1, <3>8, <3>9, <3>11 DEF Multi, n
        <4>. QED BY <4>1 DEF Shaped
      <3>. QED BY <1>5, <3>8, <3>10, <3>11 DEF u, m
    <2>5. Plain(r) \/ Interleaved(r) \/ Multi(r, 0) \/ Multi(r, 1)
      BY DEF Formed, Shaped
    <2>. QED BY <2>1, <2>2, <2>3, <2>4, <2>5
  <1>. QED BY <1>4, <1>5

------------------------------------------------------------------------------
(* What the caller is given.                                                 *)

\* Replies and errors are results.
LEMMA ResultTypes ==
  /\ \A kind \in Kinds \ {"MOVED", "ASK"} : Err(kind) \in Result
  /\ \A kind \in Kinds : Err(kind).kind = kind
  /\ \A of \in Seq(Words) : Ok(of) \in Result /\ Ok(of).of = of /\ ~IsError(Ok(of))
  /\ \A kind \in Kinds \ {"ok"} : IsError(Err(kind))
PROOF
  <1>1. <<>> \in Seq(Words)
    OBVIOUS
  <1>2. ASSUME NEW kind \in Kinds \ {"MOVED", "ASK"} PROVE Err(kind) \in Result
    BY <1>1 DEF Err, Reply, Result
  <1>3. ASSUME NEW of \in Seq(Words) PROVE Ok(of) \in Result /\ Ok(of).of = of /\ ~IsError(Ok(of))
    <2>1. "ok" \in Kinds
      BY DEF Kinds
    <2>. QED BY <2>1 DEF Ok, Reply, Result, IsError
  <1>4. /\ \A kind \in Kinds : Err(kind).kind = kind
        /\ \A kind \in Kinds \ {"ok"} : IsError(Err(kind))
    BY DEF Err, Reply, IsError
  <1>. QED BY <1>2, <1>3, <1>4

\* The entry of position i: its result, or none.
Entry(res, i) == IF i <= Len(res) THEN res[i] ELSE Err("undefined")
Asking(q) == {i \in DOMAIN q : q[i] = "asking"}
Entries(q, res) == [i \in DOMAIN q |-> IF q[i] = "asking" THEN <<>> ELSE <<Entry(res, i)>>]

\* The entries of a pipeline, and that the answer is read off them.
LEMMA EntriesTypes ==
  ASSUME NEW q \in Seq(Words), NEW res \in Seq(Result)
  PROVE  /\ Entries(q, res) \in Seq(Seq(Result)) /\ Len(Entries(q, res)) = Len(q)
         /\ Resolved(q, res) = SubSeq(FlattenSeq(Entries(q, res)), 1, Len(res) - Cardinality(Asking(q)))
         /\ \A i \in 1..Len(q) : Entries(q, res)[i] = IF q[i] = "asking" THEN <<>> ELSE <<Entry(res, i)>>
         /\ \A i \in 1..Len(q) : Entry(res, i) \in Result
PROOF
  <1>1. /\ DOMAIN q = 1..Len(q) /\ Len(q) \in Nat /\ Len(res) \in Nat
        /\ \A i \in 1..Len(res) : res[i] \in Result
    OBVIOUS
  <1>2. \A i \in 1..Len(q) : Entry(res, i) \in Result
    <2>1. Err("undefined") \in Result
      BY ResultTypes DEF Kinds
    <2>. QED BY <1>1, <2>1 DEF Entry
  <1>3. Entries(q, res) \in [1..Len(q) -> Seq(Result)]
    BY <1>1, <1>2 DEF Entries
  <1>4. PICK ss : ss = Entries(q, res)
    OBVIOUS
  <1>5. ss \in Seq(Seq(Result)) /\ Len(ss) = Len(q)
    BY <1>1, <1>3, <1>4
  <1>6. Resolved(q, res) = SubSeq(FlattenSeq(Entries(q, res)), 1, Len(res) - Cardinality(Asking(q)))
    BY DEF Resolved, Entries, Entry, Asking
  <1>7. \A i \in 1..Len(q) : Entries(q, res)[i] = IF q[i] = "asking" THEN <<>> ELSE <<Entry(res, i)>>
    BY <1>1 DEF Entries
  <1>. QED BY <1>2, <1>4, <1>5, <1>6, <1>7

\* What is left of the queue and the results without the ignored commands: an entry for each
\* call in their order, and of a transaction the one of EXEC at the end.
Kept(r, res, flat, a) ==
  LET n == Len(r.calls)
      m == Len(r.queue)
  IN  /\ flat \in Seq(Result) /\ a \in 0..m /\ Len(flat) = m - a
      /\ flat = FlattenSeq(Entries(r.queue, res)) /\ a = Cardinality(Asking(r.queue))
      /\ ~r.transaction => /\ m - a = n
                           /\ \A k \in 1..n : \E j \in 1..m :
                                r.queue[j] = r.calls[k] /\ flat[k] = Entry(res, j)
      /\ r.transaction => m - a >= 1 /\ flat[m - a] = Entry(res, m)

\* With no ASKING in the queue.
LEMMA KeptAll ==
  ASSUME NEW r, Formed(r), NEW res \in Seq(Result), Plain(r) \/ Multi(r, 0)
  PROVE  \E flat, a : Kept(r, res, flat, a)
PROOF
  <1> DEFINE n == Len(r.calls)
             m == Len(r.queue)
             q == r.queue
             flat == [i \in 1..m |-> Entry(res, i)]
  <1>1. /\ n \in Nat /\ n >= 1 /\ m \in Nat /\ r.transaction \in BOOLEAN /\ q \in Seq(Words)
        /\ DOMAIN q = 1..m /\ \A k \in 1..n : r.calls[k] \in Commands
    BY FormedFields
  <1>2. \A j \in 1..m : q[j] # "asking"
    <2>1. CASE Plain(r)
      BY <1>1, <2>1, Keywords DEF Plain
    <2>2. CASE Multi(r, 0)
      <3>1. /\ m = n + 2 /\ q[1] = "multi" /\ q[n + 2] = "exec"
            /\ \A k \in 1..n : q[k + 1] = r.calls[k]
        BY <2>2 DEF Multi
      <3>2. ASSUME NEW j \in 1..m PROVE q[j] # "asking"
        <4> HIDE DEF m, n, q
        <4>1. CASE j - 1 \in 1..n
          <5>1. PICK k \in 1..n : k = j - 1
            BY <4>1
          <5>2. k + 1 = j
            BY <5>1
          <5>. QED BY <1>1, <3>1, <5>2, Keywords
        <4>2. j = 1 \/ j = n + 2 \/ j - 1 \in 1..n
          BY <1>1, <3>1
        <4>. QED BY <3>1, <4>1, <4>2
      <3>. QED BY <3>2
    <2>. QED BY <2>1, <2>2
  <1>3. Asking(q) = {} /\ Cardinality(Asking(q)) = 0
    <2>1. Asking(q) = {}
      BY <1>1, <1>2 DEF Asking
    <2>. QED BY <2>1, FS_EmptySet
  <1>4. \A i \in 1..m : Entry(res, i) \in Result
    BY <1>1, EntriesTypes
  <1>5. flat \in Seq(Result) /\ Len(flat) = m /\ DOMAIN flat = 1..m
    <2> HIDE DEF m
    <2>. QED BY <1>1, <1>4
  <1>6. FlattenSeq(Entries(q, res)) = flat
    <2>1. Entries(q, res) = [i \in DOMAIN flat |-> <<flat[i]>>]
      BY <1>1, <1>2, <1>5 DEF Entries
    <2> HIDE DEF flat
    <2>. QED BY <1>5, <2>1, FlattenSingles
  <1>7. \A i \in 1..m : flat[i] = Entry(res, i)
    OBVIOUS
  <1> HIDE DEF flat, m, n, q
  <1>8. ~r.transaction => /\ m - 0 = n
                          /\ \A k \in 1..n : \E j \in 1..m : q[j] = r.calls[k] /\ flat[k] = Entry(res, j)
    <2>1. ASSUME ~r.transaction PROVE m = n /\ q = r.calls
      BY <2>1 DEF Plain, Multi, m, n, q
    <2>. QED BY <1>1, <1>7, <2>1
  <1>9. m >= n
    BY QueuePositions DEF Positions, m, n
  <1>10. r.transaction => m - 0 >= 1 /\ flat[m - 0] = Entry(res, m)
    BY <1>1, <1>7, <1>9
  <1>11. Kept(r, res, flat, 0)
    <2>1. flat \in Seq(Result) /\ 0 \in 0..m /\ Len(flat) = m - 0
      BY <1>1, <1>5
    <2>. QED BY <1>3, <1>6, <1>8, <1>10, <2>1 DEF Kept, m, n, q
  <1>. QED BY <1>11

\* With ASKING before every call.
LEMMA KeptEven ==
  ASSUME NEW r, Formed(r), NEW res \in Seq(Result), Interleaved(r)
  PROVE  \E flat, a : Kept(r, res, flat, a)
PROOF
  <1> DEFINE n == Len(r.calls)
             m == Len(r.queue)
             q == r.queue
  <1>1. /\ n \in Nat /\ n >= 1 /\ m \in Nat /\ r.transaction \in BOOLEAN /\ q \in Seq(Words)
        /\ DOMAIN q = 1..m /\ \A k \in 1..n : r.calls[k] \in Commands
    BY FormedFields
  <1>2. /\ ~r.transaction /\ m = 2 * n
        /\ \A k \in 1..n : q[2 * k - 1] = "asking" /\ q[2 * k] = r.calls[k]
    BY DEF Interleaved
  <1>3. PICK ss : ss = Entries(q, res)
    OBVIOUS
  <1>4. /\ ss \in Seq(Seq(Result)) /\ Len(ss) = m
        /\ \A i \in 1..m : ss[i] = IF q[i] = "asking" THEN <<>> ELSE <<Entry(res, i)>>
    BY <1>1, <1>3, EntriesTypes
  <1> HIDE DEF m, n, q
  <1>5. ASSUME NEW k \in 1..n
        PROVE  /\ 2 * k \in 1..m /\ 2 * k - 1 \in 1..m
               /\ ss[2 * k - 1] = <<>> /\ Len(ss[2 * k]) = 1 /\ ss[2 * k][1] = Entry(res, 2 * k)
    <2>1. 2 * k \in 1..m /\ 2 * k - 1 \in 1..m
      BY <1>1, <1>2
    <2>2. q[2 * k - 1] = "asking" /\ q[2 * k] # "asking"
      BY <1>1, <1>2, Keywords
    <2>3. ss[2 * k - 1] = <<>>
      BY <1>4, <2>1, <2>2
    <2>4. ss[2 * k] = <<Entry(res, 2 * k)>>
      BY <1>4, <2>1, <2>2
    <2>. QED BY <2>1, <2>3, <2>4
  <1>6. PICK flat : flat = FlattenSeq(ss)
    OBVIOUS
  <1>7. /\ flat \in Seq(Result) /\ Len(flat) = n
        /\ \A k \in 1..n : flat[k] = ss[2 * k][1]
    <2>1. Len(ss) = 2 * n /\ \A k \in 1..n : ss[2 * k - 1] = <<>> /\ Len(ss[2 * k]) = 1
      BY <1>2, <1>4, <1>5
    <2>. QED BY <1>1, <1>4, <1>6, <2>1, FlattenEven
  <1>8. Cardinality(Asking(q)) = n
    <2> DEFINE f == [k \in 1..n |-> 2 * k - 1]
    <2>1. \A k \in 1..n : f[k] \in Asking(q)
      BY <1>1, <1>2, <1>5 DEF Asking
    <2>2. \A k, l \in 1..n : f[k] = f[l] => k = l
      OBVIOUS
    <2>3. ASSUME NEW i \in Asking(q) PROVE \E k \in 1..n : f[k] = i
      <3>1. i \in 1..m /\ q[i] = "asking"
        BY <1>1, <2>3 DEF Asking
      <3>2. PICK k \in 1..n : i = 2 * k - 1 \/ i = 2 * k
        <4>1. (i + 1) \div 2 \in 1..n /\ (i = 2 * ((i + 1) \div 2) - 1 \/ i = 2 * ((i + 1) \div 2))
          BY <1>1, <1>2, <3>1
        <4>. QED BY <4>1
      <3>3. i # 2 * k
        BY <1>1, <1>2, <3>1, Keywords
      <3>. QED BY <3>2, <3>3
    <2>4. f \in [1..n -> Asking(q)]
      BY <2>1
    <2> HIDE DEF f
    <2>5. f \in Bijection(1..n, Asking(q))
      BY <2>2, <2>3, <2>4 DEF Bijection, Injection, IsInjective, Surjection
    <2>6. ExistsBijection(1..n, Asking(q))
      BY <2>5, Zenon DEF ExistsBijection
    <2>. QED BY <1>1, <2>6, FS_Bijection, FS_Interval
  <1>9. \A k \in 1..n : \E j \in 1..m : q[j] = r.calls[k] /\ flat[k] = Entry(res, j)
    <2>1. ASSUME NEW k \in 1..n PROVE \E j \in 1..m : q[j] = r.calls[k] /\ flat[k] = Entry(res, j)
      <3>1. 2 * k \in 1..m /\ q[2 * k] = r.calls[k] /\ flat[k] = Entry(res, 2 * k)
        BY <1>2, <1>5, <1>7
      <3>. QED BY <3>1
    <2>. QED BY <2>1
  <1>10. m - n = n /\ n \in 0..m
    BY <1>1, <1>2
  <1>11. Kept(r, res, flat, n)
    BY <1>2, <1>3, <1>6, <1>7, <1>8, <1>9, <1>10 DEF Kept, m, n, q
  <1>. QED BY <1>11

\* With ASKING before a transaction.
LEMMA KeptTail ==
  ASSUME NEW r, Formed(r), NEW res \in Seq(Result), Multi(r, 1)
  PROVE  \E flat, a : Kept(r, res, flat, a)
PROOF
  <1> DEFINE n == Len(r.calls)
             m == Len(r.queue)
             q == r.queue
  <1>1. /\ n \in Nat /\ n >= 1 /\ m \in Nat /\ r.transaction \in BOOLEAN /\ q \in Seq(Words)
        /\ DOMAIN q = 1..m /\ \A k \in 1..n : r.calls[k] \in Commands
    BY FormedFields
  <1>2. /\ r.transaction /\ m = n + 3 /\ q[1] = "asking" /\ q[2] = "multi" /\ q[n + 3] = "exec"
        /\ \A k \in 1..n : q[k + 2] = r.calls[k]
    BY DEF Multi
  <1>3. PICK ss : ss = Entries(q, res)
    OBVIOUS
  <1>4. /\ ss \in Seq(Seq(Result)) /\ Len(ss) = m
        /\ \A i \in 1..m : ss[i] = IF q[i] = "asking" THEN <<>> ELSE <<Entry(res, i)>>
    BY <1>1, <1>3, EntriesTypes
  <1> HIDE DEF m, n, q
  <1>5. ASSUME NEW i \in 2..m PROVE q[i] # "asking"
    <2>1. CASE i - 2 \in 1..n
      <3>1. PICK k \in 1..n : k = i - 2
        BY <2>1
      <3>2. k + 2 = i
        BY <3>1
      <3>. QED BY <1>1, <1>2, <3>2, Keywords
    <2>2. i = 2 \/ i = n + 3 \/ i - 2 \in 1..n
      BY <1>1, <1>2
    <2>. QED BY <1>2, <2>1, <2>2
  <1>6. ss[1] = <<>> /\ Len(ss[1]) = 0 /\ ss # <<>>
    <2>1. 1 \in 1..m
      BY <1>1, <1>2
    <2>2. ss[1] = <<>>
      BY <1>2, <1>4, <2>1
    <2>. QED BY <1>4, <2>1, <2>2
  <1>7. ASSUME NEW i \in 2..m PROVE Len(ss[i]) = 1 /\ ss[i][1] = Entry(res, i)
    <2>1. i \in 1..m /\ q[i] # "asking"
      BY <1>1, <1>5
    <2>2. ss[i] = <<Entry(res, i)>>
      BY <1>4, <2>1
    <2>. QED BY <2>2
  <1>8. PICK flat : flat = FlattenSeq(ss)
    OBVIOUS
  <1>9. /\ flat \in Seq(Result) /\ Len(flat) = 0 + m - 1
        /\ \A i \in 2..m : flat[0 + i - 1] = ss[i][1]
    <2>1. \A i \in 2..Len(ss) : Len(ss[i]) = 1
      BY <1>4, <1>7
    <2>2. /\ FlattenSeq(ss) \in Seq(Result) /\ Len(FlattenSeq(ss)) = Len(ss[1]) + Len(ss) - 1
          /\ \A i \in 2..Len(ss) : FlattenSeq(ss)[Len(ss[1]) + i - 1] = ss[i][1]
      BY <1>4, <1>6, <2>1, FlattenShift
    <2>. QED BY <1>4, <1>6, <1>8, <2>2
  <1>10. Cardinality(Asking(q)) = 1
    <2>1. Asking(q) = {1}
      <3>1. ASSUME NEW i \in Asking(q) PROVE i = 1
        <4>1. i \in 1..m /\ q[i] = "asking"
          BY <1>1, <3>1 DEF Asking
        <4>2. i \notin 2..m
          BY <1>5, <4>1
        <4>. QED BY <1>1, <4>1, <4>2
      <3>2. 1 \in Asking(q)
        BY <1>1, <1>2 DEF Asking
      <3>. QED BY <3>1, <3>2
    <2>. QED BY <2>1, FS_Singleton
  <1>11. flat[m - 1] = Entry(res, m) /\ m - 1 >= 1 /\ 1 \in 0..m /\ Len(flat) = m - 1
    <2>1. m \in 2..m /\ 0 + m - 1 = m - 1 /\ m - 1 >= 1 /\ 1 \in 0..m
      BY <1>1, <1>2
    <2>. QED BY <1>7, <1>9, <2>1
  <1>12. Kept(r, res, flat, 1)
    BY <1>2, <1>3, <1>8, <1>9, <1>10, <1>11 DEF Kept, m, n, q
  <1>. QED BY <1>12

\* What the caller is given is typed; and when all results are in, it has an entry for each
\* call, or the one of EXEC at the end.
LEMMA ResolvedEntries ==
  ASSUME NEW r, Formed(r), NEW res \in Seq(Result), Len(res) <= Len(r.queue)
  PROVE  LET n == Len(r.calls)
             m == Len(r.queue)
             results == Resolved(r.queue, res)
         IN  /\ results \in Seq(Result)
             /\ Len(res) = m =>
                  /\ ~r.transaction => /\ Len(results) = n
                                       /\ \A k \in 1..n : \E j \in 1..m :
                                            r.queue[j] = r.calls[k] /\ results[k] = res[j]
                  /\ r.transaction => results # <<>> /\ results[Len(results)] = res[m]
PROOF
  <1> DEFINE n == Len(r.calls)
             m == Len(r.queue)
             results == Resolved(r.queue, res)
  <1>1. /\ n \in Nat /\ n >= 1 /\ m \in Nat /\ r.queue \in Seq(Words) /\ Len(res) \in Nat
        /\ r.transaction \in BOOLEAN
    BY FormedFields
  <1>2. PICK flat, a : Kept(r, res, flat, a)
    BY KeptAll, KeptEven, KeptTail DEF Formed, Shaped
  <1>3. /\ flat \in Seq(Result) /\ a \in 0..m /\ Len(flat) = m - a
        /\ flat = FlattenSeq(Entries(r.queue, res)) /\ a = Cardinality(Asking(r.queue))
        /\ ~r.transaction => /\ m - a = n
                             /\ \A k \in 1..n : \E j \in 1..m :
                                  r.queue[j] = r.calls[k] /\ flat[k] = Entry(res, j)
        /\ r.transaction => m - a >= 1 /\ flat[m - a] = Entry(res, m)
    BY <1>2 DEF Kept
  <1>4. results = SubSeq(flat, 1, Len(res) - a)
    BY <1>1, <1>3, EntriesTypes
  <1> HIDE DEF results, n, m
  <1>5. results \in Seq(Result)
    <2>1. 1 \in Int /\ Len(res) - a \in Int
      BY <1>1, <1>3
    <2>2. \A i \in 1..(Len(res) - a) : flat[i] \in Result
      <3>1. \A i \in 1..(Len(res) - a) : i \in 1..Len(flat)
        BY <1>1, <1>3 DEF m
      <3>. QED BY <1>3, <3>1
    <2>. QED BY <1>4, <2>1, <2>2, SubSeqProperties
  <1>6. ASSUME Len(res) = m
        PROVE  results = flat /\ \A j \in 1..m : Entry(res, j) = res[j]
    <2>1. Len(res) - a = Len(flat)
      BY <1>1, <1>3, <1>6
    <2>2. results = flat
      BY <1>3, <1>4, <2>1, SubSeqFull
    <2>. QED BY <1>1, <1>6, <2>2 DEF Entry
  <1>7. ASSUME Len(res) = m, ~r.transaction
        PROVE  /\ Len(results) = n
               /\ \A k \in 1..n : \E j \in 1..m : r.queue[j] = r.calls[k] /\ results[k] = res[j]
    BY <1>1, <1>3, <1>6, <1>7
  <1>8. ASSUME Len(res) = m, r.transaction
        PROVE  results # <<>> /\ results[Len(results)] = res[m]
    <2>1. m \in 1..m /\ Len(flat) = m - a /\ m - a >= 1
      BY <1>1, <1>3, <1>8
    <2>2. flat # <<>>
      BY <1>3, <2>1
    <2>. QED BY <1>3, <1>6, <1>8, <2>1, <2>2
  <1>. QED BY <1>5, <1>7, <1>8 DEF results, n, m

\* What the application is told is typed.
LEMMA AnswerTyped ==
  ASSUME NEW r, Formed(r), NEW results \in Seq(Result)
  PROVE  Answer(r, results) \in Seq(Result)
PROOF
  <1>1. DOMAIN r.calls = 1..Len(r.calls) /\ Len(r.calls) \in Nat /\ r.transaction \in BOOLEAN
    BY FormedFields
  <1>2. Err("rejected") \in Result
    BY ResultTypes DEF Kinds
  <1>3. [k \in DOMAIN r.calls |-> Err("rejected")] \in Seq(Result)
    <2>1. PICK e : e = Err("rejected")
      OBVIOUS
    <2>2. [k \in 1..Len(r.calls) |-> e] \in Seq(Result)
      BY <1>1, <1>2, <2>1
    <2>. QED BY <1>1, <2>1, <2>2
  <1>4. CASE ~r.transaction
    BY <1>4 DEF Answer
  <1>5. CASE r.transaction /\ (results = <<>> \/ IsError(results[Len(results)]))
    BY <1>3, <1>5 DEF Answer
  <1>6. CASE r.transaction /\ results # <<>> /\ ~IsError(results[Len(results)])
    <2>1. PICK last : last = results[Len(results)]
      OBVIOUS
    <2>2. last \in Result
      <3>1. Len(results) \in 1..Len(results)
        BY <1>6
      <3>. QED BY <2>1, <3>1
    <2>3. last.of \in Seq(Words)
      BY <2>2 DEF Result
    <2>4. PICK of : of = last.of
      OBVIOUS
    <2>5. of \in Seq(Words) /\ DOMAIN of = 1..Len(of) /\ Len(of) \in Nat
      BY <2>3, <2>4
    <2>6. ASSUME NEW k \in 1..Len(of) PROVE Ok(<<of[k]>>) \in Result
      <3>1. <<of[k]>> \in Seq(Words)
        BY <2>5
      <3>. QED BY <3>1, ResultTypes
    <2>7. [k \in 1..Len(of) |-> Ok(<<of[k]>>)] \in Seq(Result)
      <3> DEFINE e(k) == Ok(<<of[k]>>)
                 n == Len(of)
      <3>1. n \in Nat /\ \A k \in 1..n : e(k) \in Result
        BY <2>5, <2>6
      <3> HIDE DEF e, n
      <3>2. [k \in 1..n |-> e(k)] \in Seq(Result)
        BY <3>1
      <3>. QED BY <3>2 DEF e, n
    <2>8. Answer(r, results) = [k \in 1..Len(of) |-> Ok(<<of[k]>>)]
      BY <1>6, <2>1, <2>4, <2>5 DEF Answer
    <2>. QED BY <2>7, <2>8
  <1>. QED BY <1>1, <1>4, <1>5, <1>6

\* A settled pipeline is well formed.
LEMMA SettledFormed ==
  ASSUME NEW r, Formed(r), r.replyPending = 0, NEW results \in Seq(Result)
  PROVE  LET s == Settled(r, results)
         IN  /\ Formed(s) /\ s.replyPending = 0 /\ s.phase = "resolved" /\ s.answer = Answer(r, results)
             /\ s.calls = r.calls /\ s.key = r.key /\ s.transaction = r.transaction
PROOF
  <1>1. PICK s : s = Settled(r, results)
    OBVIOUS
  <1>2. r \in PipelineRecord /\ Len(r.result) <= Len(r.queue) /\ Answer(r, results) \in Seq(Result)
    BY AnswerTyped, FormedFields
  <1>3. PICK ans : ans = Answer(r, results)
    OBVIOUS
  <1>4. s = [r EXCEPT !.phase = "resolved", !.answer = ans]
    BY <1>1, <1>3 DEF Settled
  <1>5. /\ s \in PipelineRecord /\ s.calls = r.calls /\ s.key = r.key /\ s.transaction = r.transaction
        /\ s.queue = r.queue /\ s.result = r.result /\ s.replyPending = r.replyPending
        /\ s.phase = "resolved" /\ s.answer = ans
    BY <1>2, <1>3, <1>4 DEF PipelineRecord, Over
  <1>6. Formed(s)
    BY <1>2, <1>5, FormedLike
  <1>. QED BY <1>1, <1>3, <1>5, <1>6

\* When all its results are the ones expected, every caller has an entry of its own.
LEMMA SettledOwn ==
  ASSUME NEW r, Formed(r), r.replyPending = 0, NEW res \in Seq(Result), Len(res) = Len(r.queue),
         \A j \in 1..Len(r.queue) : IsError(res[j]) \/ res[j].of = Expected(r, j)
  PROVE  Own(Settled(r, Resolved(r.queue, res)))
PROOF
  <1> DEFINE n == Len(r.calls)
             m == Len(r.queue)
  <1>1. /\ n \in Nat /\ n >= 1 /\ m \in Nat /\ DOMAIN r.calls = 1..n
        /\ r.transaction \in BOOLEAN /\ \A k \in 1..n : r.calls[k] \in Commands
    BY FormedFields
  <1>2. Positions(r)
    BY QueuePositions
  <1>3. PICK results : results = Resolved(r.queue, res)
    OBVIOUS
  <1>4. /\ results \in Seq(Result)
        /\ ~r.transaction => /\ Len(results) = n
                             /\ \A k \in 1..n : \E j \in 1..m : r.queue[j] = r.calls[k] /\ results[k] = res[j]
        /\ r.transaction => results # <<>> /\ results[Len(results)] = res[m]
    <2>1. Len(res) <= Len(r.queue)
      BY <1>1
    <2>. QED BY <1>3, <2>1, ResolvedEntries
  <1>5. PICK s : s = Settled(r, results)
    OBVIOUS
  <1>6. s.calls = r.calls /\ s.answer = Answer(r, results)
    BY <1>4, <1>5, SettledFormed
  <1> HIDE DEF n, m
  <1>7. CASE ~r.transaction
    <2>1. s.answer = results /\ Len(results) = n
      BY <1>4, <1>6, <1>7 DEF Answer
    <2>2. ASSUME NEW k \in 1..n PROVE IsError(results[k]) \/ results[k].of = <<r.calls[k]>>
      <3>1. PICK j \in 1..m : r.queue[j] = r.calls[k] /\ results[k] = res[j]
        BY <1>4, <1>7
      <3>2. IsError(res[j]) \/ res[j].of = Expected(r, j)
        BY <3>1 DEF m
      <3>3. r.queue[j] # "exec"
        BY <1>1, <3>1, Keywords
      <3>4. Expected(r, j) = <<r.calls[k]>>
        BY <3>1, <3>3 DEF Expected
      <3>. QED BY <3>1, <3>2, <3>4
    <2>3. Own(s)
      BY <1>1, <1>6, <2>1, <2>2 DEF Own, n
    <2>. QED BY <1>3, <1>5, <2>3
  <1>8. CASE r.transaction
    <2>1. m \in 1..m /\ r.queue[m] = "exec"
      BY <1>1, <1>2, <1>8 DEF Positions, m, n
    <2>2. PICK last : last = res[m]
      OBVIOUS
    <2>3. results # <<>> /\ results[Len(results)] = last
      BY <1>4, <1>8, <2>2
    <2>4. IsError(last) \/ last.of = r.calls
      BY <2>1, <2>2 DEF Expected, m
    <2>5. CASE IsError(last)
      <3>1. s.answer = [k \in 1..n |-> Err("rejected")]
        BY <1>1, <1>6, <1>8, <2>3, <2>5 DEF Answer
      <3>2. IsError(Err("rejected"))
        BY ResultTypes DEF Kinds
      <3>3. Len(s.answer) = n /\ \A k \in 1..n : IsError(s.answer[k])
        BY <1>1, <3>1, <3>2
      <3>4. Own(s)
        BY <1>1, <1>6, <3>3 DEF Own, n
      <3>. QED BY <1>3, <1>5, <3>4
    <2>6. CASE ~IsError(last) /\ last.of = r.calls
      <3>1. s.answer = [k \in 1..n |-> Ok(<<r.calls[k]>>)]
        BY <1>1, <1>6, <1>8, <2>3, <2>6 DEF Answer
      <3>2. ASSUME NEW k \in 1..n PROVE s.answer[k].of = <<r.calls[k]>>
        BY <3>1 DEF Ok, Reply
      <3>3. Len(s.answer) = n
        <4> DEFINE e(k) == Ok(<<r.calls[k]>>)
        <4>1. s.answer = [k \in 1..n |-> e(k)]
          BY <3>1
        <4> HIDE DEF e
        <4>. QED BY <1>1, <4>1
      <3>4. Own(s)
        BY <1>1, <1>6, <3>2, <3>3 DEF Own, n
      <3>. QED BY <1>3, <1>5, <3>4
    <2>. QED BY <2>4, <2>5, <2>6
  <1>. QED BY <1>1, <1>7, <1>8

\* A rejected pipeline tells every caller.
LEMMA RejectedDone ==
  ASSUME NEW r, Formed(r), r.replyPending = 0
  PROVE  LET s == Rejected(r)
         IN  /\ Done(s) /\ s.phase = "resolved" /\ s.calls = r.calls /\ s.key = r.key
             /\ s \in PipelineRecord
PROOF
  <1>1. PICK ans : ans = [k \in DOMAIN r.calls |-> Err("rejected")]
    OBVIOUS
  <1>2. /\ r \in PipelineRecord /\ Len(r.result) <= Len(r.queue)
        /\ DOMAIN r.calls = 1..Len(r.calls) /\ Len(r.calls) \in Nat
    BY FormedFields
  <1>3. Err("rejected") \in Result /\ IsError(Err("rejected"))
    BY ResultTypes DEF Kinds
  <1>4. ans \in Seq(Result) /\ Len(ans) = Len(r.calls) /\ \A k \in DOMAIN r.calls : IsError(ans[k])
    <2>1. PICK e : e = Err("rejected")
      OBVIOUS
    <2>2. ans = [k \in 1..Len(r.calls) |-> e]
      BY <1>1, <1>2, <2>1
    <2>. QED BY <1>2, <1>3, <2>1, <2>2
  <1>5. PICK s : s = Rejected(r)
    OBVIOUS
  <1>6. s = [r EXCEPT !.phase = "resolved", !.answer = ans]
    BY <1>1, <1>5 DEF Rejected
  <1>7. /\ s \in PipelineRecord /\ s.calls = r.calls /\ s.key = r.key /\ s.transaction = r.transaction
        /\ s.queue = r.queue /\ s.result = r.result /\ s.replyPending = r.replyPending
        /\ s.phase = "resolved" /\ s.answer = ans
    BY <1>2, <1>4, <1>6 DEF PipelineRecord, Over
  <1>8. Formed(s)
    BY <1>2, <1>7, FormedLike
  <1>9. Own(s)
    BY <1>4, <1>7 DEF Own
  <1>. QED BY <1>5, <1>7, <1>8, <1>9 DEF Done

------------------------------------------------------------------------------
(* Collecting the results.                                                   *)

FilledWith(r, i, res) ==
  [r EXCEPT !.replyPending = @ - 1,
            !.result = IF i <= Len(@) THEN [@ EXCEPT ![i] = res] ELSE Append(@, res)]
\* s is r with one reply more, as far as conf tells.
OneMore(s, r, conf) ==
  /\ Underway(s, conf) /\ s \in PipelineRecord /\ s.replyPending = r.replyPending - 1
  /\ s.phase = r.phase /\ s.calls = r.calls /\ s.key = r.key /\ s.queue = r.queue
  /\ s.transaction = r.transaction

\* A success confirms only writes among the calls of its pipeline.
LEMMA ConfirmsOwn ==
  ASSUME NEW r, Formed(r), NEW i \in 1..Len(r.queue), NEW res
  PROVE  Confirms(r, i, res) \subseteq Writes \cap ToSet(r.calls)
PROOF
  <1>1. Positions(r) /\ r.transaction \in BOOLEAN
    BY QueuePositions, FormedFields
  <1>2. Writes \subseteq Commands
    BY PipelineAssumption
  <1>3. {r.calls[k] : k \in DOMAIN r.calls} = ToSet(r.calls)
    BY DEF ToSet
  <1>4. CASE ~r.transaction
    <2>1. r.queue[i] \in ToSet(r.calls) \cup {"asking"}
      BY <1>1, <1>4 DEF Positions
    <2>. QED BY <1>2, <1>3, <2>1, Keywords DEF Confirms
  <1>5. CASE r.transaction
    BY <1>3, <1>5 DEF Confirms
  <1>. QED BY <1>1, <1>4, <1>5

\* A reply that is among those expected leaves what was collected in order.
LEMMA FillKeeps ==
  ASSUME NEW r, NEW conf, Underway(r, conf), r.replyPending > 0, NEW res \in Result,
         NEW i, i = Len(r.queue) - r.replyPending + 1,
         IsError(res) \/ res.of = Expected(r, i),
         ~AskAtLimit /\ res.kind = "ASK" => CountDown(r.leftRedirections) > 0
  PROVE  OneMore(FilledWith(r, i, res), r, conf \cup Confirms(r, i, res))
PROOF
  <1> DEFINE m == Len(r.queue)
             x == r.replyPending
  <1>1. /\ r \in PipelineRecord /\ m \in Nat /\ x \in 1..m /\ i \in 1..m /\ Formed(r)
        /\ r.result \in Seq(Result) /\ Len(r.result) \in Nat /\ Len(r.result) >= m - x
        /\ Len(r.result) <= m /\ DOMAIN r.result = 1..Len(r.result) /\ Filled(r) /\ Told(r, conf)
    BY FormedFields DEF Underway
  <1>2. PICK rs : rs = IF i <= Len(r.result) THEN [r.result EXCEPT ![i] = res] ELSE Append(r.result, res)
    OBVIOUS
  <1>3. /\ rs \in Seq(Result) /\ Len(rs) >= m - (x - 1) /\ Len(rs) <= m /\ rs[i] = res
        /\ \A j \in 1..(i - 1) : rs[j] = r.result[j]
    <2> HIDE DEF m, x
    <2>1. CASE i <= Len(r.result)
      <3>1. rs = [r.result EXCEPT ![i] = res]
        BY <1>2, <2>1
      <3>2. i \in DOMAIN r.result
        BY <1>1, <2>1
      <3>3. rs \in Seq(Result) /\ Len(rs) = Len(r.result)
        <4>1. PICK q : q = r.result
          OBVIOUS
        <4>2. PICK n : n = Len(q)
          OBVIOUS
        <4>3. q \in [1..n -> Result] /\ n \in Nat
          BY <1>1, <4>1, <4>2
        <4>4. rs \in [1..n -> Result]
          BY <3>1, <4>1, <4>3
        <4>. QED BY <4>1, <4>2, <4>3, <4>4
      <3>. QED BY <1>1, <2>1, <3>1, <3>2, <3>3 DEF m, x
    <2>2. CASE i > Len(r.result)
      <3>1. rs = Append(r.result, res) /\ Len(r.result) = i - 1
        BY <1>1, <1>2, <2>2 DEF m, x
      <3>. QED BY <1>1, <3>1 DEF m, x
    <2>. QED BY <1>1, <2>1, <2>2
  <1>4. PICK s : s = FilledWith(r, i, res)
    OBVIOUS
  <1>5. s = [r EXCEPT !.replyPending = x - 1, !.result = rs]
    BY <1>2, <1>4 DEF FilledWith
  <1>6. x - 1 \in Nat
    BY <1>1
  <1>7. /\ s \in PipelineRecord /\ s.calls = r.calls /\ s.key = r.key /\ s.transaction = r.transaction
        /\ s.queue = r.queue /\ s.result = rs /\ s.replyPending = x - 1 /\ s.phase = r.phase
        /\ s.leftRedirections = r.leftRedirections
    <2> HIDE DEF x
    <2>. QED BY <1>1, <1>3, <1>5, <1>6 DEF PipelineRecord
  <1>8. Formed(s)
    BY <1>1, <1>3, <1>7, FormedLike
  <1>9. Received(r) = 1..(i - 1) /\ Received(s) = 1..i
    BY <1>1, <1>7 DEF Received
  <1> HIDE DEF m, x
  <1>10. Filled(s)
    <2>1. ASSUME NEW j \in 1..i
          PROVE  /\ IsError(s.result[j]) \/ s.result[j].of = Expected(s, j)
                 /\ ~AskAtLimit /\ s.result[j].kind = "ASK" => CountDown(s.leftRedirections) > 0
      <3>1. Expected(s, j) = Expected(r, j)
        BY <1>7 DEF Expected
      <3>2. CASE j = i
        BY <1>3, <1>7, <3>1, <3>2
      <3>3. CASE j # i
        <4>1. j \in Received(r) /\ s.result[j] = r.result[j]
          BY <1>1, <1>3, <1>7, <1>9, <3>3
        <4>2. /\ IsError(r.result[j]) \/ r.result[j].of = Expected(r, j)
              /\ ~AskAtLimit /\ r.result[j].kind = "ASK" => CountDown(r.leftRedirections) > 0
          BY <1>1, <4>1 DEF Filled
        <4>. QED BY <1>7, <3>1, <4>1, <4>2
      <3>. QED BY <3>2, <3>3
    <2>. QED BY <1>9, <2>1 DEF Filled
  <1>11. Told(s, conf \cup Confirms(r, i, res))
    <2>1. ASSUME NEW c \in ToSet(r.calls), c \in conf
          PROVE  \E j \in Received(s) :
                   ~IsError(s.result[j]) /\ s.queue[j] = IF s.transaction THEN "exec" ELSE c
      <3>1. PICK j \in Received(r) :
              ~IsError(r.result[j]) /\ r.queue[j] = IF r.transaction THEN "exec" ELSE c
        BY <1>1, <2>1 DEF Told
      <3>2. j \in Received(s) /\ s.result[j] = r.result[j]
        BY <1>1, <1>3, <1>7, <1>9
      <3>. QED BY <1>7, <3>1, <3>2
    <2>2. ASSUME NEW c \in Confirms(r, i, res)
          PROVE  \E j \in Received(s) :
                   ~IsError(s.result[j]) /\ s.queue[j] = IF s.transaction THEN "exec" ELSE c
      <3>1. i \in Received(s) /\ s.result[i] = res /\ ~IsError(res)
        BY <1>1, <1>3, <1>7, <1>9, <2>2 DEF Confirms
      <3>2. r.queue[i] = IF r.transaction THEN "exec" ELSE c
        <4>1. CASE r.transaction
          BY <2>2, <4>1 DEF Confirms
        <4>2. CASE ~r.transaction
          <5>1. r.queue[i] # "exec"
            <6>1. Positions(r) /\ i \in 1..Len(r.queue)
              BY <1>1, QueuePositions DEF m
            <6>2. r.queue[i] \in ToSet(r.calls) \cup {"asking"}
              BY <4>2, <6>1 DEF Positions
            <6>3. ToSet(r.calls) \subseteq Commands
              BY <1>1, FormedFields DEF ToSet
            <6>. QED BY <6>2, <6>3, Keywords
          <5>. QED BY <2>2, <4>2, <5>1 DEF Confirms
        <4>. QED BY <4>1, <4>2
      <3>. QED BY <1>7, <3>1, <3>2
    <2>. QED BY <1>7, <2>1, <2>2 DEF Told
  <1>12. s.replyPending \in 0..Len(s.queue) /\ Len(s.result) >= Len(s.queue) - s.replyPending
    BY <1>1, <1>3, <1>7 DEF m, x
  <1>13. Underway(s, conf \cup Confirms(r, i, res))
    BY <1>8, <1>10, <1>11, <1>12 DEF Underway
  <1>. QED BY <1>4, <1>7, <1>13 DEF x, OneMore

\* When all results are in and the pipeline may be resent, none of its writes has succeeded,
\* and the error that decides is one of the results.
LEMMA RetriableFresh ==
  ASSUME NEW r, NEW conf, Underway(r, conf), r.replyPending = 0, Retriable(r), conf \subseteq Writes
  PROVE  /\ ToSet(r.calls) \cap conf = {}
         /\ \E j \in 1..Len(r.queue) : (CHOOSE e \in Errors(r) : TRUE) = r.result[j] /\ IsError(r.result[j])
PROOF
  <1>1. /\ Formed(r) /\ Told(r, conf) /\ Received(r) = 1..Len(r.queue) /\ DOMAIN r.queue = 1..Len(r.queue)
        /\ Writes \subseteq Commands
    BY FormedFields, PipelineAssumption DEF Underway, Received
  <1>2. ASSUME NEW c \in ToSet(r.calls), c \in conf PROVE FALSE
    <2>1. PICK j \in 1..Len(r.queue) :
            ~IsError(r.result[j]) /\ r.queue[j] = IF r.transaction THEN "exec" ELSE c
      BY <1>1, <1>2 DEF Told
    <2>2. InTransaction(r, j) \/ r.queue[j] \in Commands \ Writes
      BY <1>1, <2>1 DEF Retriable
    <2>. QED BY <1>1, <1>2, <2>1, <2>2, Keywords DEF InTransaction
  <1>3. Errors(r) # {}
    <2>1. Cardinality(Errors(r)) = 1
      BY DEF Retriable
    <2>. QED BY <2>1, FS_EmptySet
  <1>4. (CHOOSE e \in Errors(r) : TRUE) \in Errors(r)
    BY <1>3
  <1>5. \E j \in 1..Len(r.queue) : (CHOOSE e \in Errors(r) : TRUE) = r.result[j] /\ IsError(r.result[j])
    <2>1. PICK e : e = (CHOOSE first \in Errors(r) : TRUE)
      OBVIOUS
    <2>2. \E j \in DOMAIN r.queue : e = r.result[j] /\ IsError(r.result[j])
      BY <1>4, <2>1 DEF Errors
    <2>. QED BY <1>1, <2>1, <2>2
  <1>. QED BY <1>2, <1>5

------------------------------------------------------------------------------
(* Where the commands are.                                                   *)

\* An element of a line is a command of a pipeline the line holds.
LEMMA LineElements ==
  ASSUME NEW q \in Seq(Nat \X Nat)
  PROVE  /\ DOMAIN q = 1..Len(q) /\ Len(q) \in Nat
         /\ \A j \in 1..Len(q) : /\ q[j] \in Nat \X Nat /\ q[j] = <<q[j][1], q[j][2]>> /\ q[j] \in ToSet(q)
                                 /\ q[j][1] \in Holds(q) /\ q[j][1] \in Nat /\ q[j][2] \in Nat
         /\ \A e \in ToSet(q) : \E j \in 1..Len(q) : q[j] = e
         /\ \A p \in Holds(q) : \E j \in 1..Len(q) : q[j][1] = p
PROOF
  <1>1. DOMAIN q = 1..Len(q) /\ Len(q) \in Nat /\ \A j \in 1..Len(q) : q[j] \in Nat \X Nat
    OBVIOUS
  <1>2. \A j \in 1..Len(q) : q[j] \in ToSet(q)
    BY <1>1 DEF ToSet
  <1>3. \A j \in 1..Len(q) : q[j][1] \in Holds(q)
    BY <1>2 DEF Holds
  <1>4. \A e \in ToSet(q) : \E j \in 1..Len(q) : q[j] = e
    BY <1>1 DEF ToSet
  <1>5. \A p \in Holds(q) : \E j \in 1..Len(q) : q[j][1] = p
    BY <1>4 DEF Holds
  <1>. QED BY <1>1, <1>2, <1>3, <1>4, <1>5

\* Nothing is in order.
LEMMA PlacedNothing ==
  ASSUME NEW ps
  PROVE  Placed(ps, <<>>) /\ Holds(<<>>) = {}
PROOF
  <1>1. ToSet(<<>>) = {} /\ <<>> \in Seq(Nat \X Nat) /\ DOMAIN <<>> = {}
    BY DEF ToSet
  <1>. QED BY <1>1 DEF Placed, Holds, Ordered

\* What holds of a line does as long as its pipelines wait for the same commands.
LEMMA PlacedSame ==
  ASSUME NEW ps, NEW qs, NEW q, Placed(ps, q),
         \A p \in Holds(q) : p \in DOMAIN qs /\ Out(qs[p]) = Out(ps[p])
  PROVE  Placed(qs, q)
BY DEF Placed

\* All the commands of a pipeline that has just been sent.
Sends(p, r) == [i \in DOMAIN r.queue |-> <<p, i>>]

\* The commands of a pipeline that has just been sent are placed on its queue.
LEMMA PlacedSends ==
  ASSUME NEW ps, NEW p \in Nat, p \in DOMAIN ps, Formed(ps[p]),
         ps[p].phase = "sent", ps[p].replyPending = Len(ps[p].queue)
  PROVE  Placed(ps, Sends(p, ps[p])) /\ Holds(Sends(p, ps[p])) = {p}
PROOF
  <1> DEFINE m == Len(ps[p].queue)
  <1>1. m \in Nat /\ m >= 1 /\ DOMAIN ps[p].queue = 1..m
    <2>1. Positions(ps[p])
      BY QueuePositions
    <2>. QED BY <2>1, FormedFields DEF Positions
  <1>2. Out(ps[p]) = 1..m
    BY <1>1 DEF Out
  <1> HIDE DEF m
  <1>3. PICK q : q = Sends(p, ps[p])
    OBVIOUS
  <1>4. q = [i \in 1..m |-> <<p, i>>]
    BY <1>1, <1>3 DEF Sends
  <1>5. q \in Seq(Nat \X Nat) /\ Len(q) = m /\ DOMAIN q = 1..m
    <2>1. \A i \in 1..m : <<p, i>> \in Nat \X Nat
      OBVIOUS
    <2>2. q \in [1..m -> Nat \X Nat]
      BY <1>4, <2>1
    <2>. QED BY <1>1, <2>2
  <1>6. Ordered(q)
    BY <1>4, <1>5 DEF Ordered
  <1>7. ToSet(q) = {<<p, i>> : i \in 1..m}
    BY <1>4, <1>5 DEF ToSet
  <1>8. Holds(q) = {p}
    <2>1. 1 \in 1..m
      BY <1>1
    <2>2. ASSUME NEW x \in Holds(q) PROVE x = p
      BY <1>7, <2>2 DEF Holds
    <2>3. p \in Holds(q)
      <3>1. q[1] = <<p, 1>> /\ q[1][1] \in Holds(q)
        BY <1>4, <1>5, <2>1, LineElements
      <3>. QED BY <3>1
    <2>. QED BY <2>2, <2>3
  <1>9. \A i \in Nat : <<p, i>> \in ToSet(q) <=> i \in 1..m
    BY <1>7
  <1>. QED BY <1>2, <1>3, <1>5, <1>6, <1>8, <1>9 DEF Placed

\* Lines of different pipelines, one after the other.
LEMMA PlacedConcat ==
  ASSUME NEW ps, NEW a, NEW b, NEW u, u = a \o b, Placed(ps, a), Placed(ps, b),
         Holds(a) \cap Holds(b) = {}
  PROVE  Placed(ps, u) /\ \A p : p \in Holds(u) <=> p \in Holds(a) \/ p \in Holds(b)
PROOF
  <1>1. a \in Seq(Nat \X Nat) /\ b \in Seq(Nat \X Nat) /\ Ordered(a) /\ Ordered(b)
    BY DEF Placed
  <1>3. u \in Seq(Nat \X Nat) /\ ToSet(u) = ToSet(a) \cup ToSet(b)
    BY <1>1, ConcatElements
  <1>4. Holds(u) = Holds(a) \cup Holds(b)
    BY <1>3 DEF Holds
  <1>5. /\ Len(u) = Len(a) + Len(b) /\ Len(a) \in Nat /\ Len(b) \in Nat
        /\ \A i \in 1..Len(a) : u[i] = a[i]
        /\ \A i \in 1..Len(b) : u[Len(a) + i] = b[i]
    BY <1>1, ConcatAt
  <1>6. ASSUME NEW j \in 1..Len(u)
        PROVE  \/ j \in 1..Len(a) /\ u[j] = a[j] /\ a[j][1] \in Holds(a)
               \/ /\ j > Len(a) /\ j - Len(a) \in 1..Len(b) /\ u[j] = b[j - Len(a)]
                  /\ b[j - Len(a)][1] \in Holds(b)
    <2>1. CASE j <= Len(a)
      <3>1. j \in 1..Len(a)
        BY <1>5, <2>1
      <3>. QED BY <1>1, <1>5, <3>1, LineElements
    <2>2. CASE j > Len(a)
      <3>1. PICK k \in 1..Len(b) : k = j - Len(a)
        <4>1. j - Len(a) \in 1..Len(b)
          BY <1>5, <2>2
        <4>. QED BY <4>1
      <3>2. Len(a) + k = j
        BY <1>5, <3>1
      <3>3. u[j] = b[k] /\ b[k][1] \in Holds(b)
        BY <1>1, <1>5, <3>2, LineElements
      <3>. QED BY <2>2, <3>1, <3>3
    <2>. QED BY <1>5, <2>1, <2>2
  <1>7. Ordered(u)
    <2>1. ASSUME NEW j \in 1..Len(u), NEW k \in 1..Len(u), j < k, u[j][1] = u[k][1]
          PROVE  u[j][2] < u[k][2]
      <3>1. CASE j \in 1..Len(a) /\ k \in 1..Len(a)
        <4>1. u[j] = a[j] /\ u[k] = a[k] /\ j \in DOMAIN a /\ k \in DOMAIN a
          BY <1>1, <1>5, <3>1
        <4>. QED BY <1>1, <2>1, <4>1 DEF Ordered
      <3>2. CASE j > Len(a) /\ k > Len(a)
        <4>1. /\ j - Len(a) \in 1..Len(b) /\ u[j] = b[j - Len(a)]
              /\ k - Len(a) \in 1..Len(b) /\ u[k] = b[k - Len(a)]
          BY <1>5, <1>6, <3>2
        <4>2. PICK x \in 1..Len(b), y \in 1..Len(b) : x = j - Len(a) /\ y = k - Len(a)
          BY <4>1
        <4>3. x < y /\ b[x][1] = b[y][1]
          BY <1>5, <2>1, <4>1, <4>2
        <4>4. b[x][2] < b[y][2]
          <5>1. x \in DOMAIN b /\ y \in DOMAIN b
            BY <1>1, LineElements
          <5>. QED BY <1>1, <4>3, <5>1 DEF Ordered
        <4>. QED BY <4>1, <4>2, <4>4
      <3>3. CASE j \in 1..Len(a) /\ k > Len(a)
        <4>1. u[j][1] \in Holds(a) /\ u[k][1] \in Holds(b)
          BY <1>5, <1>6, <3>3
        <4>. QED BY <2>1, <4>1
      <3>4. ~(j > Len(a) /\ k \in 1..Len(a))
        BY <1>5, <2>1
      <3>. QED BY <1>5, <3>1, <3>2, <3>3, <3>4
    <2>2. DOMAIN u = 1..Len(u)
      BY <1>3
    <2>. QED BY <2>1, <2>2 DEF Ordered
  <1>8. ASSUME NEW p \in Holds(u)
        PROVE  p \in DOMAIN ps /\ \A i \in Nat : <<p, i>> \in ToSet(u) <=> i \in Out(ps[p])
    <2>1. ASSUME NEW s, NEW t, Placed(ps, s), p \in Holds(s), p \notin Holds(t), ToSet(u) = ToSet(s) \cup ToSet(t)
          PROVE  p \in DOMAIN ps /\ \A i \in Nat : <<p, i>> \in ToSet(u) <=> i \in Out(ps[p])
      <3>1. \A i \in Nat : <<p, i>> \notin ToSet(t)
        <4>1. ASSUME NEW i \in Nat, <<p, i>> \in ToSet(t) PROVE FALSE
          <5>1. <<p, i>>[1] \in Holds(t)
            BY <4>1 DEF Holds
          <5>. QED BY <2>1, <5>1
        <4>. QED BY <4>1
      <3>. QED BY <2>1, <3>1 DEF Placed
    <2>2. CASE p \in Holds(a)
      <3>1. p \notin Holds(b)
        BY <2>2
      <3>. QED BY <1>3, <2>1, <2>2, <3>1
    <2>3. CASE p \in Holds(b)
      <3>1. p \notin Holds(a) /\ ToSet(u) = ToSet(b) \cup ToSet(a)
        BY <1>3, <2>3
      <3>. QED BY <2>1, <2>3, <3>1
    <2>. QED BY <1>4, <2>2, <2>3
  <1>9. Placed(ps, u)
    BY <1>3, <1>7, <1>8 DEF Placed
  <1>. QED BY <1>4, <1>9

\* Many of them.
LEMMA PlacedFlatten ==
  ASSUME NEW ps, NEW ss \in Seq(Seq(Nat \X Nat)), \A i \in 1..Len(ss) : Placed(ps, ss[i]),
         \A i, j \in 1..Len(ss) : i # j => Holds(ss[i]) \cap Holds(ss[j]) = {}
  PROVE  /\ Placed(ps, FlattenSeq(ss))
         /\ \A p : p \in Holds(FlattenSeq(ss)) <=> \E i \in 1..Len(ss) : p \in Holds(ss[i])
PROOF
  <1>1. PICK n : n = Len(ss)
    OBVIOUS
  <1>2. n \in Nat
    BY <1>1
  <1>3. PICK g : IsSums(g, Nat \X Nat, ss)
    BY SumsExist
  <1>4. /\ g[0] = <<>> /\ FlattenSeq(ss) = g[n]
        /\ \A i \in 1..n : g[i] = g[i - 1] \o ss[i]
    BY <1>1, <1>3 DEF IsSums
  <1> DEFINE Good(i) == /\ Placed(ps, g[i])
                        /\ \A p : p \in Holds(g[i]) <=> \E k \in 1..i : p \in Holds(ss[k])
             T == {i \in 0..n : Good(i)}
  <1>5. 0 \in T
    <2>1. 1..0 = {} /\ 0 \in 0..n
      BY <1>2
    <2>. QED BY <1>4, <2>1, PlacedNothing
  <1>6. ASSUME NEW i \in 0..(n - 1), i \in T PROVE i + 1 \in T
    <2>1. PICK k \in 1..n : k = i + 1
      BY <1>2
    <2>2. k - 1 = i /\ k \in 0..n
      BY <1>2, <2>1
    <2>3. g[k] = g[i] \o ss[k]
      BY <1>4, <2>2, Zenon
    <2>4. Placed(ps, g[i]) /\ \A p : p \in Holds(g[i]) <=> \E l \in 1..i : p \in Holds(ss[l])
      BY <1>6
    <2>5. Placed(ps, ss[k])
      BY <1>1
    <2>6. Holds(g[i]) \cap Holds(ss[k]) = {}
      <3>1. ASSUME NEW p \in Holds(g[i]), p \in Holds(ss[k]) PROVE FALSE
        <4>1. PICK l \in 1..i : p \in Holds(ss[l])
          BY <2>4, <3>1
        <4>2. l \in 1..n /\ l # k
          BY <1>2, <2>1
        <4>. QED BY <1>1, <3>1, <4>1, <4>2
      <3>. QED BY <3>1
    <2>7. Placed(ps, g[k]) /\ Holds(g[k]) = Holds(g[i]) \cup Holds(ss[k])
      <3>1. PICK a, b : a = g[i] /\ b = ss[k]
        OBVIOUS
      <3>2. PICK u : u = g[k]
        OBVIOUS
      <3>3. u = a \o b /\ Placed(ps, a) /\ Placed(ps, b) /\ Holds(a) \cap Holds(b) = {}
        BY <2>3, <2>4, <2>5, <2>6, <3>1, <3>2
      <3>4. Placed(ps, u) /\ \A p : p \in Holds(u) <=> p \in Holds(a) \/ p \in Holds(b)
        BY <3>3, PlacedConcat, Zenon
      <3>. QED BY <3>1, <3>2, <3>4
    <2>8. 1..k = 1..i \cup {k}
      BY <1>2, <2>1
    <2>9. \A p : p \in Holds(g[k]) <=> \E l \in 1..k : p \in Holds(ss[l])
      BY <2>4, <2>7, <2>8
    <2>10. Good(k)
      BY <2>7, <2>9
    <2> HIDE DEF Good
    <2>. QED BY <2>1, <2>2, <2>10
  <1>7. n \in T
    <2>1. \A i \in 0..n : i \in T
      <3> HIDE DEF T
      <3>. QED BY <1>2, <1>5, <1>6, UpTo
    <2>2. n \in 0..n
      BY <1>2
    <2> HIDE DEF T
    <2>. QED BY <2>1, <2>2
  <1>. QED BY <1>1, <1>4, <1>7

\* The first command of a line is the next one its pipeline waits for.
LEMMA HeadIsNext ==
  ASSUME NEW ps, NEW q, Placed(ps, q), q # <<>>, NEW p, NEW i, Head(q) = <<p, i>>,
         ps[p] \in PipelineRecord, ps[p].replyPending \in 0..Len(ps[p].queue)
  PROVE  /\ p \in DOMAIN ps /\ p \in Holds(q) /\ p \in Nat /\ i \in 1..Len(ps[p].queue)
         /\ ps[p].phase = "sent" /\ ps[p].replyPending > 0
         /\ i = Len(ps[p].queue) - ps[p].replyPending + 1
PROOF
  <1>1. q \in Seq(Nat \X Nat) /\ Ordered(q)
    BY DEF Placed
  <1>2. 1 \in 1..Len(q) /\ q[1] = <<p, i>>
    BY <1>1
  <1>3. p \in Holds(q) /\ i \in Nat /\ p \in Nat /\ <<p, i>> \in ToSet(q)
    <2>1. q[1][1] = p /\ q[1][2] = i
      BY <1>2
    <2>. QED BY <1>1, <1>2, <2>1, LineElements
  <1>4. p \in DOMAIN ps /\ \A j \in Nat : <<p, j>> \in ToSet(q) <=> j \in Out(ps[p])
    BY <1>3 DEF Placed
  <1>5. i \in Out(ps[p])
    BY <1>3, <1>4
  <1>6. PICK m, x : m = Len(ps[p].queue) /\ x = ps[p].replyPending
    OBVIOUS
  <1>7. m \in Nat /\ x \in 0..m
    <2>1. ps[p].queue \in Seq(Words)
      BY DEF PipelineRecord
    <2>. QED BY <1>6, <2>1
  <1>8. ps[p].phase = "sent" /\ i \in (m - x + 1)..m
    BY <1>5, <1>6 DEF Out
  <1>9. Out(ps[p]) = (m - x + 1)..m /\ x > 0 /\ m - x + 1 \in Nat
    BY <1>6, <1>7, <1>8 DEF Out
  <1>10. <<p, m - x + 1>> \in ToSet(q)
    BY <1>4, <1>7, <1>9
  <1>11. PICK j \in 1..Len(q) : q[j] = <<p, m - x + 1>>
    BY <1>1, <1>10, LineElements
  <1>12. i = m - x + 1
    <2>1. CASE j = 1
      BY <1>2, <1>11, <2>1
    <2>2. CASE j > 1
      <3>1. q[1][1] = q[j][1] /\ q[1][2] = i /\ q[j][2] = m - x + 1
        BY <1>2, <1>11
      <3>2. q[1][2] < q[j][2]
        BY <1>1, <1>2, <2>2, <3>1, LineElements DEF Ordered
      <3>. QED BY <1>7, <1>8, <3>1, <3>2
    <2>. QED BY <1>11, <2>1, <2>2
  <1>. QED BY <1>3, <1>4, <1>6, <1>7, <1>8, <1>9, <1>12

\* Without its first command, once its pipeline does not wait for that one any more.
LEMMA PlacedPop ==
  ASSUME NEW ps, NEW qs, NEW q, Placed(ps, q), q # <<>>, NEW p, NEW i, Head(q) = <<p, i>>,
         p \in DOMAIN qs, Out(qs[p]) = Out(ps[p]) \ {i},
         \A x \in Holds(q) \ {p} : x \in DOMAIN qs /\ Out(qs[x]) = Out(ps[x])
  PROVE  Placed(qs, Tail(q)) /\ Holds(Tail(q)) \subseteq Holds(q)
PROOF
  <1>1. q \in Seq(Nat \X Nat) /\ Ordered(q)
    BY DEF Placed
  <1>2. PICK t : t = Tail(q)
    OBVIOUS
  <1>3. /\ t \in Seq(Nat \X Nat) /\ Len(t) = Len(q) - 1 /\ \A j \in 1..Len(t) : t[j] = q[j + 1]
        /\ DOMAIN t = 1..Len(t) /\ DOMAIN q = 1..Len(q) /\ Len(q) \in Nat /\ q[1] = <<p, i>>
    BY <1>1, <1>2, HeadTailProperties
  <1>4. \A j \in 1..Len(t) : j + 1 \in 1..Len(q)
    BY <1>3
  <1>5. ToSet(t) = ToSet(q) \ {<<p, i>>}
    <2>1. ASSUME NEW j \in 1..Len(t) PROVE t[j] \in ToSet(q) /\ t[j] # <<p, i>>
      <3>1. PICK k \in 1..Len(q) : k = j + 1
        BY <1>4
      <3>2. t[j] = q[k] /\ q[k] \in ToSet(q)
        BY <1>1, <1>3, <3>1, LineElements
      <3>3. q[k] # <<p, i>>
        <4>1. ASSUME q[k] = <<p, i>> PROVE FALSE
          <5>1. 1 \in DOMAIN q /\ k \in DOMAIN q /\ 1 < k /\ q[1][1] = q[k][1] /\ q[1][2] = q[k][2]
            BY <1>3, <3>1, <4>1
          <5>2. q[1][2] < q[k][2] /\ q[1][2] \in Nat /\ q[k][2] \in Nat
            BY <1>1, <1>3, <5>1, LineElements DEF Ordered
          <5>. QED BY <5>1, <5>2
        <4>. QED BY <4>1
      <3>. QED BY <3>2, <3>3
    <2>2. ASSUME NEW e \in ToSet(q), e # <<p, i>> PROVE e \in ToSet(t)
      <3>1. PICK k \in 1..Len(q) : q[k] = e
        BY <1>1, LineElements
      <3>2. k # 1
        BY <1>3, <2>2, <3>1
      <3>3. PICK j \in 1..Len(t) : k = j + 1
        <4>1. k - 1 \in 1..Len(t) /\ k = (k - 1) + 1
          BY <1>3, <3>2
        <4>. QED BY <4>1
      <3>. QED BY <1>3, <3>1, <3>3 DEF ToSet
    <2>3. \A e \in ToSet(t) : \E j \in 1..Len(t) : t[j] = e
      BY <1>3 DEF ToSet
    <2>. QED BY <2>1, <2>2, <2>3
  <1>6. Holds(t) \subseteq Holds(q)
    BY <1>5 DEF Holds
  <1>7. Ordered(t)
    <2>1. ASSUME NEW j \in 1..Len(t), NEW k \in 1..Len(t), j < k, t[j][1] = t[k][1]
          PROVE  t[j][2] < t[k][2]
      <3>1. PICK x \in 1..Len(q), y \in 1..Len(q) : x = j + 1 /\ y = k + 1
        BY <1>4
      <3>2. t[j] = q[x] /\ t[k] = q[y]
        BY <1>3, <3>1
      <3>3. x < y /\ x \in DOMAIN q /\ y \in DOMAIN q
        BY <1>3, <2>1, <3>1
      <3>. QED BY <1>1, <2>1, <3>2, <3>3 DEF Ordered
    <2>. QED BY <1>3, <2>1 DEF Ordered
  <1>8. ASSUME NEW x \in Holds(t)
        PROVE  x \in DOMAIN qs /\ \A j \in Nat : <<x, j>> \in ToSet(t) <=> j \in Out(qs[x])
    <2>1. x \in Holds(q) /\ \A j \in Nat : <<x, j>> \in ToSet(q) <=> j \in Out(ps[x])
      BY <1>6 DEF Placed
    <2>2. CASE x = p
      <3>1. \A j \in Nat : <<x, j>> = <<p, i>> <=> j = i
        BY <2>2
      <3>. QED BY <1>5, <2>1, <2>2, <3>1
    <2>3. CASE x # p
      <3>1. \A j \in Nat : <<x, j>> # <<p, i>>
        BY <2>3
      <3>. QED BY <1>5, <2>1, <2>3, <3>1
    <2>. QED BY <2>2, <2>3
  <1>. QED BY <1>2, <1>3, <1>6, <1>7, <1>8 DEF Placed

\* A pipeline none of whose commands is anywhere.
Unplaced(p, Q, o) == (\A x \in Places : p \notin Holds(Q[x])) /\ p \notin Offline(o)

\* What a line holds has been sent and waits for a reply.
LEMMA HeldIsSent ==
  ASSUME NEW ps, NEW q, Placed(ps, q), NEW p \in Holds(q)
  PROVE  p \in DOMAIN ps /\ p \in Nat /\ ps[p].phase = "sent" /\ Out(ps[p]) # {}
PROOF
  <1>1. q \in Seq(Nat \X Nat)
    BY DEF Placed
  <1>2. PICK j \in 1..Len(q) : q[j][1] = p
    BY <1>1, LineElements
  <1>3. PICK i : i = q[j][2]
    OBVIOUS
  <1>4. p \in Nat /\ i \in Nat /\ <<p, i>> \in ToSet(q)
    <2>1. q[j] = <<q[j][1], q[j][2]>> /\ q[j] \in ToSet(q) /\ q[j][1] \in Nat /\ q[j][2] \in Nat
      BY <1>1, LineElements
    <2>2. <<q[j][1], q[j][2]>> = <<p, i>>
      BY <1>2, <1>3
    <2>3. <<p, i>> \in ToSet(q)
      BY <2>1, <2>2
    <2>. QED BY <1>2, <1>3, <2>1, <2>3
  <1>5. i \in Out(ps[p]) /\ p \in DOMAIN ps
    BY <1>4 DEF Placed
  <1>. QED BY <1>4, <1>5 DEF Out

\* A pipeline with a command somewhere has been sent.
LEMMA PlacedIsSent ==
  ASSUME NEW ps, NEW Q, NEW o, PlacesOK(ps, Q, o), NEW p, ~Unplaced(p, Q, o)
  PROVE  p \in DOMAIN ps /\ ps[p].phase = "sent"
PROOF
  <1>1. CASE \E x \in Places : p \in Holds(Q[x])
    BY <1>1, HeldIsSent DEF PlacesOK
  <1>2. CASE p \in Offline(o)
    <2>1. PICK i \in DOMAIN o : p = o[i][1]
      BY <1>2 DEF Offline
    <2>. QED BY <2>1 DEF PlacesOK
  <1>. QED BY <1>1, <1>2 DEF Unplaced

\* A step that leaves the pipelines alone that are somewhere.
LEMMA PlacesKeep ==
  ASSUME NEW ps, NEW qs, NEW Q, NEW o, PlacesOK(ps, Q, o),
         \A p \in DOMAIN ps : ps[p].phase = "sent" /\ ~Unplaced(p, Q, o) => p \in DOMAIN qs /\ qs[p] = ps[p]
  PROVE  PlacesOK(qs, Q, o)
PROOF
  <1>1. \A p : ~Unplaced(p, Q, o) => p \in DOMAIN qs /\ qs[p] = ps[p]
    BY PlacedIsSent
  <1>2. ASSUME NEW x \in Places PROVE Placed(qs, Q[x])
    <2>1. \A p \in Holds(Q[x]) : p \in DOMAIN qs /\ qs[p] = ps[p]
      BY <1>1 DEF Unplaced
    <2>2. Placed(ps, Q[x])
      BY DEF PlacesOK
    <2>. QED BY <2>1, <2>2, PlacedSame
  <1>3. \A i \in DOMAIN o : o[i][1] \in DOMAIN qs /\ qs[o[i][1]] = ps[o[i][1]]
    BY <1>1 DEF Unplaced, Offline
  <1>. QED BY <1>2, <1>3 DEF PlacesOK

\* Place x loses its first command.
Loses(Q, R, x, p, i) ==
  /\ Q[x] # <<>> /\ Head(Q[x]) = <<p, i>> /\ p \in Holds(Q[x])
  /\ R[x] = Tail(Q[x]) /\ \A y \in Places \ {x} : R[y] = Q[y]
\* Pipeline p does not wait for it any more.
Receives(ps, qs, p, i) ==
  /\ DOMAIN qs = DOMAIN ps /\ \A y \in DOMAIN ps \ {p} : qs[y] = ps[y]
  /\ Out(qs[p]) = Out(ps[p]) \ {i}

\* The first command of a line is answered, or fails.
LEMMA PlacesPop ==
  ASSUME NEW ps, NEW qs, NEW Q, NEW R, NEW o, PlacesOK(ps, Q, o), NEW x \in Places,
         NEW p, NEW i, Loses(Q, R, x, p, i), Receives(ps, qs, p, i)
  PROVE  PlacesOK(qs, R, o) /\ (Out(qs[p]) = {} => Unplaced(p, R, o))
PROOF
  <1> USE DEF Loses, Receives
  <1>1. /\ \A y \in Places : Placed(ps, Q[y])
        /\ \A y, z \in Places : y # z => Holds(Q[y]) \cap Holds(Q[z]) = {}
        /\ \A y \in Places : Holds(Q[y]) \cap Offline(o) = {}
    BY DEF PlacesOK
  <1>2. p \in DOMAIN qs /\ p \notin Offline(o)
    BY <1>1, HeldIsSent
  <1>3. Placed(qs, R[x]) /\ Holds(R[x]) \subseteq Holds(Q[x])
    <2>1. \A y \in Holds(Q[x]) \ {p} : y \in DOMAIN qs /\ Out(qs[y]) = Out(ps[y])
      BY <1>1, HeldIsSent
    <2>2. PICK q : q = Q[x]
      OBVIOUS
    <2>3. Placed(qs, Tail(q)) /\ Holds(Tail(q)) \subseteq Holds(q)
      BY <1>1, <1>2, <2>1, <2>2, PlacedPop
    <2>. QED BY <2>2, <2>3
  <1>4. ASSUME NEW y \in Places \ {x} PROVE Placed(qs, R[y]) /\ p \notin Holds(R[y])
    <2>1. R[y] = Q[y] /\ Placed(ps, Q[y]) /\ p \notin Holds(Q[y])
      BY <1>1
    <2>2. \A z \in Holds(Q[y]) : z \in DOMAIN qs /\ qs[z] = ps[z]
      BY <2>1, HeldIsSent
    <2>. QED BY <2>1, <2>2, PlacedSame
  <1>5. \A y \in Places : Holds(R[y]) \subseteq Holds(Q[y])
    BY <1>3
  <1>6. \A j \in DOMAIN o : o[j][1] \in DOMAIN ps /\ o[j][1] # p
    BY <1>2 DEF Offline, PlacesOK
  <1>7. PlacesOK(qs, R, o)
    <2>1. \A y \in Places : Placed(qs, R[y])
      BY <1>3, <1>4
    <2>2. \A y, z \in Places : y # z => Holds(R[y]) \cap Holds(R[z]) = {}
      BY <1>1, <1>5
    <2>3. \A y \in Places : Holds(R[y]) \cap Offline(o) = {}
      BY <1>1, <1>5
    <2>4. \A j \in DOMAIN o : qs[o[j][1]] = ps[o[j][1]]
      BY <1>6
    <2>. QED BY <1>6, <2>1, <2>2, <2>3, <2>4 DEF PlacesOK
  <1>8. Out(qs[p]) = {} => Unplaced(p, R, o)
    <2>1. Out(qs[p]) = {} => p \notin Holds(R[x])
      BY <1>3, HeldIsSent
    <2>. QED BY <1>2, <1>4, <2>1 DEF Unplaced
  <1>. QED BY <1>7, <1>8

\* The commands of a pipeline are written to a connection, or fail at once.
LEMMA PlacesAdd ==
  ASSUME NEW ps, NEW Q, NEW R, NEW o, PlacesOK(ps, Q, o), NEW p \in Nat, p \in DOMAIN ps, Unplaced(p, Q, o),
         Formed(ps[p]), ps[p].phase = "sent", ps[p].replyPending = Len(ps[p].queue),
         NEW x \in Places, R[x] = Q[x] \o Sends(p, ps[p]), \A y \in Places \ {x} : R[y] = Q[y]
  PROVE  PlacesOK(ps, R, o)
PROOF
  <1>1. /\ \A y \in Places : Placed(ps, Q[y])
        /\ \A y, z \in Places : y # z => Holds(Q[y]) \cap Holds(Q[z]) = {}
        /\ \A y \in Places : Holds(Q[y]) \cap Offline(o) = {}
    BY DEF PlacesOK
  <1>2. (\A y \in Places : p \notin Holds(Q[y])) /\ p \notin Offline(o)
    BY DEF Unplaced
  <1>3. Placed(ps, R[x]) /\ \A y : y \in Holds(R[x]) <=> y \in Holds(Q[x]) \/ y = p
    <2>1. PICK a, b, u : a = Q[x] /\ b = Sends(p, ps[p]) /\ u = R[x]
      OBVIOUS
    <2>2. Placed(ps, b) /\ Holds(b) = {p}
      BY <2>1, PlacedSends
    <2>3. u = a \o b /\ Placed(ps, a) /\ Holds(a) \cap Holds(b) = {}
      BY <1>1, <1>2, <2>1, <2>2
    <2>4. Placed(ps, u) /\ \A y : y \in Holds(u) <=> y \in Holds(a) \/ y \in Holds(b)
      BY <2>2, <2>3, PlacedConcat, Zenon
    <2>. QED BY <2>1, <2>2, <2>4
  <1>4. \A y \in Places : Placed(ps, R[y])
    BY <1>1, <1>3
  <1>5. ASSUME NEW y \in Places, NEW z \in Places, y # z PROVE Holds(R[y]) \cap Holds(R[z]) = {}
    BY <1>1, <1>2, <1>3, <1>5
  <1>6. \A y \in Places : Holds(R[y]) \cap Offline(o) = {}
    BY <1>1, <1>2, <1>3
  <1>. QED BY <1>4, <1>5, <1>6 DEF PlacesOK

\* It waits in the offline queue.
LEMMA PlacesWait ==
  ASSUME NEW ps, NEW Q, NEW o, PlacesOK(ps, Q, o), NEW p \in Nat, p \in DOMAIN ps, Unplaced(p, Q, o),
         ps[p].phase = "sent", ps[p].replyPending = Len(ps[p].queue), NEW n \in Nodes \cup {NoNode}
  PROVE  PlacesOK(ps, Q, Append(o, <<p, n>>))
PROOF
  <1>1. /\ \A y \in Places : Holds(Q[y]) \cap Offline(o) = {}
        /\ o \in Seq(Nat \X Preferred)
        /\ \A i, j \in DOMAIN o : o[i][1] = o[j][1] => i = j
        /\ \A i \in DOMAIN o : o[i][1] \in DOMAIN ps /\ ps[o[i][1]].phase = "sent"
                               /\ ps[o[i][1]].replyPending = Len(ps[o[i][1]].queue)
    BY DEF PlacesOK
  <1>2. (\A y \in Places : p \notin Holds(Q[y])) /\ \A i \in DOMAIN o : o[i][1] # p
    BY DEF Unplaced, Offline
  <1>3. PICK u, e : u = Append(o, e) /\ e = <<p, n>>
    OBVIOUS
  <1>4. e \in Nat \X Preferred /\ e[1] = p
    BY <1>3 DEF Preferred
  <1>5. /\ u \in Seq(Nat \X Preferred) /\ DOMAIN u = 1..(Len(o) + 1)
        /\ DOMAIN o = 1..Len(o) /\ Len(o) \in Nat
        /\ u[Len(o) + 1] = e /\ \A i \in 1..Len(o) : u[i] = o[i]
    BY <1>1, <1>3, <1>4
  <1>6. \A i \in DOMAIN u : (i \in DOMAIN o /\ u[i] = o[i]) \/ (i = Len(o) + 1 /\ i \notin DOMAIN o /\ u[i] = e)
    BY <1>5
  <1>7. \A i \in DOMAIN u : u[i][1] \in Offline(o) \/ u[i][1] = p
    BY <1>4, <1>6 DEF Offline
  <1>8. \A y \in Places : Holds(Q[y]) \cap Offline(u) = {}
    <2>1. \A z \in Offline(u) : z \in Offline(o) \/ z = p
      BY <1>7 DEF Offline
    <2>. QED BY <1>1, <1>2, <2>1
  <1>9. ASSUME NEW i \in DOMAIN u, NEW j \in DOMAIN u, u[i][1] = u[j][1] PROVE i = j
    BY <1>1, <1>2, <1>4, <1>6, <1>9
  <1>10. \A i \in DOMAIN u : u[i][1] \in DOMAIN ps /\ ps[u[i][1]].phase = "sent"
                             /\ ps[u[i][1]].replyPending = Len(ps[u[i][1]].queue)
    BY <1>1, <1>4, <1>6
  <1>11. PlacesOK(ps, Q, u)
    BY <1>5, <1>8, <1>9, <1>10 DEF PlacesOK
  <1>. QED BY <1>3, <1>11

\* A connection is lost: its commands are to be rejected.
LEMMA PlacesMove ==
  ASSUME NEW ps, NEW Q, NEW R, NEW o, PlacesOK(ps, Q, o), NEW x \in Places, NEW z \in Places, x # z,
         Q[z] = <<>>, R[z] = Q[x], R[x] = <<>>, \A y \in Places \ {x, z} : R[y] = Q[y]
  PROVE  PlacesOK(ps, R, o)
PROOF
  <1>1. /\ \A y \in Places : Placed(ps, Q[y])
        /\ \A v, y \in Places : v # y => Holds(Q[v]) \cap Holds(Q[y]) = {}
        /\ \A y \in Places : Holds(Q[y]) \cap Offline(o) = {}
    BY DEF PlacesOK
  <1>2. Placed(ps, R[x]) /\ Holds(R[x]) = {}
    BY PlacedNothing
  <1>3. \A y \in Places : Placed(ps, R[y]) /\ Holds(R[y]) \cap Offline(o) = {}
    BY <1>1, <1>2
  <1>4. ASSUME NEW v \in Places, NEW y \in Places, v # y PROVE Holds(R[v]) \cap Holds(R[y]) = {}
    <2>1. CASE v = x \/ y = x
      BY <1>2, <2>1
    <2>2. CASE v # x /\ y # x
      BY <1>1, <1>4, <2>2
    <2>. QED BY <2>1, <2>2
  <1>. QED BY <1>3, <1>4 DEF PlacesOK

------------------------------------------------------------------------------
(* One pipeline that is about to be sent or put off.                         *)

\* Pipeline p has nothing on its way, and all others are in order.
Aside(p, ps, w, f, o, called1, conf) ==
  /\ ps \in Seq(PipelineRecord) /\ w \in [Nodes -> Seq(Nat \X Nat)] /\ f \in Seq(Nat \X Nat)
  /\ p \in DOMAIN ps
  /\ \A q \in DOMAIN ps \ {p} : Fine(ps[q], conf)
  /\ CallsOK(ps, called1, conf)
  /\ PlacesOK(ps, Lines(w, f), o) /\ Unplaced(p, Lines(w, f), o)
\* Nor is any of its calls confirmed.
Apart(p, ps, w, f, o, called1, conf) ==
  /\ Aside(p, ps, w, f, o, called1, conf)
  /\ Formed(ps[p]) /\ ps[p].replyPending = 0 /\ ToSet(ps[p].calls) \cap conf = {}

\* The lines of connections, and what is to be rejected.
LEMMA LinesAt ==
  ASSUME NEW w, NEW f
  PROVE  /\ NoNode \in Places /\ Lines(w, f)[NoNode] = f
         /\ \A n \in Nodes : n \in Places /\ n # NoNode /\ Lines(w, f)[n] = w[n]
         /\ \A x \in Places : x # NoNode => x \in Nodes
BY PipelineAssumption DEF Lines, Places

\* Confirmed calls of others are none of its business.
LEMMA FineMore ==
  ASSUME NEW r, NEW conf, Fine(r, conf), NEW X, ToSet(r.calls) \cap X = {}
  PROVE  Fine(r, conf \cup X)
PROOF
  <1>1. ToSet(r.calls) \cap (conf \cup X) = ToSet(r.calls) \cap conf
    OBVIOUS
  <1>2. Told(r, conf) => Told(r, conf \cup X)
    BY <1>1 DEF Told
  <1>3. Rest(r, conf) => Rest(r, conf \cup X)
    BY <1>1 DEF Rest
  <1>. QED BY <1>2, <1>3 DEF Fine, Underway

\* A pipeline apart from the others is replaced by one with the same calls.
Replaced(qs, ps, p, r, w, f, o, called1, conf) ==
  /\ Whole(qs, w, f, o, called1, conf) /\ Unplaced(p, Lines(w, f), o)
  /\ DOMAIN qs = DOMAIN ps /\ qs[p] = r /\ p \in Nat
  /\ \A q \in DOMAIN ps \ {p} : qs[q] = ps[q]

\* Replacing a pipeline that is apart keeps the pipelines whole.
LEMMA Replace ==
  ASSUME NEW p, NEW ps, NEW w, NEW f, NEW o, NEW called1, NEW conf,
         Aside(p, ps, w, f, o, called1, conf),
         NEW r \in PipelineRecord, r.calls = ps[p].calls, Fine(r, conf),
         NEW qs, qs = [ps EXCEPT ![p] = r]
  PROVE  Replaced(qs, ps, p, r, w, f, o, called1, conf)
PROOF
  <1>1. /\ ps \in Seq(PipelineRecord) /\ w \in [Nodes -> Seq(Nat \X Nat)] /\ f \in Seq(Nat \X Nat)
        /\ p \in DOMAIN ps /\ CallsOK(ps, called1, conf)
        /\ PlacesOK(ps, Lines(w, f), o) /\ Unplaced(p, Lines(w, f), o)
    BY DEF Aside
  <1>2. DOMAIN qs = DOMAIN ps /\ qs[p] = r /\ \A q \in DOMAIN ps \ {p} : qs[q] = ps[q]
    BY <1>1
  <1>3. qs \in Seq(PipelineRecord) /\ p \in Nat
    <2>1. PICK n : n = Len(ps)
      OBVIOUS
    <2>2. n \in Nat /\ ps \in [1..n -> PipelineRecord] /\ p \in 1..n
      BY <1>1, <2>1
    <2>3. qs \in [1..n -> PipelineRecord]
      BY <2>2
    <2>. QED BY <2>2, <2>3
  <1>4. \A q \in DOMAIN qs : Fine(qs[q], conf)
    BY <1>2 DEF Aside
  <1>5. CallsOK(qs, called1, conf)
    <2>1. \A q \in DOMAIN qs : q \in DOMAIN ps /\ qs[q].calls = ps[q].calls
      BY <1>2
    <2>2. \A q \in DOMAIN qs : \A c \in ToSet(qs[q].calls) : called1[c] \in {"made", "answered"}
      BY <1>1, <2>1 DEF CallsOK
    <2>3. \A x, y \in DOMAIN qs : x # y => ToSet(qs[x].calls) \cap ToSet(qs[y].calls) = {}
      BY <1>1, <2>1 DEF CallsOK
    <2>. QED BY <1>1, <2>2, <2>3 DEF CallsOK
  <1>6. PlacesOK(qs, Lines(w, f), o)
    BY <1>1, <1>2, PlacesKeep
  <1>. QED BY <1>1, <1>2, <1>3, <1>4, <1>5, <1>6 DEF Whole, Replaced

\* A pipeline that has been sent, with nothing received yet.
LEMMA SentFine ==
  ASSUME NEW r, Formed(r), NEW conf, ToSet(r.calls) \cap conf = {}
  PROVE  LET s == Sent(r)
         IN  /\ s \in PipelineRecord /\ Formed(s) /\ Fine(s, conf) /\ s.phase = "sent"
             /\ s.calls = r.calls /\ s.key = r.key /\ s.queue = r.queue
             /\ s.replyPending = Len(s.queue)
PROOF
  <1>1. PICK s : s = Sent(r)
    OBVIOUS
  <1>2. r \in PipelineRecord /\ Len(r.queue) \in Nat /\ Len(r.queue) >= 1 /\ Len(r.result) <= Len(r.queue)
        /\ Len(r.result) \in Nat
    <2>1. Len(r.queue) >= Len(r.calls)
      BY QueuePositions DEF Positions
    <2>. QED BY <2>1, FormedFields
  <1>3. s = [r EXCEPT !.phase = "sent", !.replyPending = Len(r.queue)]
    BY <1>1 DEF Sent
  <1>4. /\ s \in PipelineRecord /\ s.calls = r.calls /\ s.key = r.key /\ s.transaction = r.transaction
        /\ s.queue = r.queue /\ s.result = r.result /\ s.replyPending = Len(r.queue) /\ s.phase = "sent"
    BY <1>2, <1>3 DEF PipelineRecord
  <1>5. Formed(s)
    BY <1>2, <1>4, FormedLike
  <1>6. Received(s) = {}
    BY <1>2, <1>4 DEF Received
  <1>7. Filled(s) /\ Told(s, conf)
    BY <1>4, <1>6 DEF Filled, Told
  <1>8. s.replyPending \in 0..Len(s.queue) /\ s.replyPending > 0
        /\ Len(s.result) >= Len(s.queue) - s.replyPending
    BY <1>2, <1>4
  <1>9. Underway(s, conf)
    BY <1>5, <1>7, <1>8 DEF Underway
  <1>10. Fine(s, conf)
    BY <1>4, <1>8, <1>9 DEF Fine, Pausing, Over
  <1>. QED BY <1>1, <1>4, <1>5, <1>10

\* One that is put off.
LEMMA PausedFine ==
  ASSUME NEW r, Formed(r), r.replyPending = 0, NEW conf, ToSet(r.calls) \cap conf = {},
         NEW phase \in Pausing \ {"filling"}
  PROVE  LET s == [r EXCEPT !.phase = phase]
         IN  /\ s \in PipelineRecord /\ Formed(s) /\ Fine(s, conf) /\ s.phase = phase
             /\ s.calls = r.calls /\ s.key = r.key
PROOF
  <1>1. PICK s : s = [r EXCEPT !.phase = phase]
    OBVIOUS
  <1>2. r \in PipelineRecord /\ Len(r.result) <= Len(r.queue)
    BY FormedFields
  <1>3. /\ s \in PipelineRecord /\ s.calls = r.calls /\ s.key = r.key /\ s.transaction = r.transaction
        /\ s.queue = r.queue /\ s.result = r.result /\ s.replyPending = r.replyPending /\ s.phase = phase
    BY <1>1, <1>2 DEF PipelineRecord
  <1>4. Formed(s)
    BY <1>2, <1>3, FormedLike
  <1>5. Rest(s, conf)
    BY <1>3, <1>4 DEF Rest
  <1>6. Fine(s, conf)
    BY <1>3, <1>5 DEF Fine, Pausing, Over
  <1>. QED BY <1>1, <1>3, <1>4, <1>6

\* exec() of a pipeline that is apart puts it off, rejects it or sends it.
Executed(ps, p, called1, conf) ==
  /\ Whole(pipelines', wire', failed', offline', called1, conf)
  /\ DOMAIN pipelines' = DOMAIN ps /\ \A q \in DOMAIN ps \ {p} : pipelines'[q] = ps[q]
  /\ pipelines'[p].key = ps[p].key /\ pipelines'[p].phase \in {"waiting", "resolved", "sent"}
  /\ pipelines'[p].phase = "sent" => ~\A s \in Slots : slots'[s] = NoNode

\* Exec keeps the pipelines whole, whichever way it goes.
LEMMA ExecWhole ==
  ASSUME NEW p, NEW ps, NEW w, NEW f, NEW called1, NEW conf,
         Apart(p, ps, w, f, offline, called1, conf), pool \subseteq Nodes, Exec(ps, p, w, f)
  PROVE  Executed(ps, p, called1, conf)
PROOF
  <1> DEFINE r == ps[p]
             entries == [i \in DOMAIN r.queue |-> <<p, i>>]
             unknown == \A s \in Slots : slots'[s] = NoNode
             sameGroup == \A s, t \in KeySlots(r) : Group(s) = Group(t)
             preferred == IF r.preferKey \in pool THEN r.preferKey ELSE NoNode
  <1>1. /\ Formed(r) /\ r.replyPending = 0 /\ ToSet(r.calls) \cap conf = {} /\ p \in DOMAIN ps
        /\ w \in [Nodes -> Seq(Nat \X Nat)] /\ f \in Seq(Nat \X Nat)
        /\ Aside(p, ps, w, f, offline, called1, conf)
    BY DEF Apart, Aside
  <1>2. CASE unknown /\ pipelines' = [ps EXCEPT ![p].phase = "waiting"] /\ Keep(w, f)
    <2>1. PICK s : s = [r EXCEPT !.phase = "waiting"]
      OBVIOUS
    <2>2. s \in PipelineRecord /\ Fine(s, conf) /\ s.phase = "waiting" /\ s.calls = r.calls /\ s.key = r.key
      <3>1. "waiting" \in Pausing \ {"filling"}
        BY DEF Pausing
      <3>. QED BY <1>1, <2>1, <3>1, PausedFine
    <2>3. pipelines' = [ps EXCEPT ![p] = s]
      BY <1>2, <2>1
    <2>4. Replaced(pipelines', ps, p, s, w, f, offline, called1, conf)
      <3> HIDE DEF entries, preferred, unknown, sameGroup
      <3>. QED BY <1>1, <2>2, <2>3, Replace
    <2>. QED BY <1>2, <2>2, <2>4 DEF Executed, Keep, Replaced
  <1>3. CASE pipelines' = [ps EXCEPT ![p] = Rejected(r)] /\ Keep(w, f)
    <2>1. PICK s : s = Rejected(r)
      OBVIOUS
    <2>2. Done(s) /\ s \in PipelineRecord /\ s.phase = "resolved" /\ s.calls = r.calls /\ s.key = r.key
      BY <1>1, <2>1, RejectedDone
    <2>3. Fine(s, conf)
      BY <2>2 DEF Fine, Pausing, Over
    <2>4. Replaced(pipelines', ps, p, s, w, f, offline, called1, conf)
      <3>1. pipelines' = [ps EXCEPT ![p] = s]
        BY <1>3, <2>1
      <3> HIDE DEF entries, preferred, unknown, sameGroup
      <3>. QED BY <1>1, <2>2, <2>3, <3>1, Replace
    <2>. QED BY <1>3, <2>2, <2>4 DEF Executed, Keep, Replaced
  <1>4. CASE /\ ~unknown /\ pipelines' = [ps EXCEPT ![p] = Sent(r)]
             /\ \/ /\ cluster = "ready"
                   /\ \E n \in IF preferred = NoNode THEN Targets(r) ELSE {preferred} :
                        wire' = [w EXCEPT ![n] = @ \o entries]
                   /\ failed' = f /\ UNCHANGED offline
                \/ cluster = "end" /\ Keep(w, f \o entries)
                \/ /\ cluster \notin {"ready", "end"}
                   /\ offline' = Append(offline, <<p, preferred>>)
                   /\ wire' = w /\ failed' = f
    <2>1. PICK s : s = Sent(r)
      OBVIOUS
    <2>2. /\ s \in PipelineRecord /\ Formed(s) /\ Fine(s, conf) /\ s.phase = "sent"
          /\ s.calls = r.calls /\ s.key = r.key /\ s.queue = r.queue /\ s.replyPending = Len(s.queue)
      BY <1>1, <2>1, SentFine
    <2>3. PICK qs : qs = [ps EXCEPT ![p] = s]
      OBVIOUS
    <2>4. /\ Whole(qs, w, f, offline, called1, conf) /\ Unplaced(p, Lines(w, f), offline)
          /\ DOMAIN qs = DOMAIN ps /\ qs[p] = s /\ p \in Nat
          /\ \A q \in DOMAIN ps \ {p} : qs[q] = ps[q]
      <3>1. Replaced(qs, ps, p, s, w, f, offline, called1, conf)
        <4> HIDE DEF entries, preferred, unknown, sameGroup
        <4>. QED BY <1>1, <2>2, <2>3, Replace
      <3>. QED BY <3>1 DEF Replaced
    <2>5. pipelines' = qs /\ p \in DOMAIN qs
      BY <1>1, <1>4, <2>1, <2>3, <2>4
    <2>6. entries = Sends(p, s) /\ entries \in Seq(Nat \X Nat)
      <3>1. entries = Sends(p, s)
        BY <2>2 DEF Sends
      <3>2. Placed(qs, Sends(p, qs[p]))
        BY <2>2, <2>4, <2>5, PlacedSends
      <3>. QED BY <2>4, <3>1, <3>2 DEF Placed
    <2>7. preferred \in Nodes \cup {NoNode}
      OBVIOUS
    <2>8. CASE \E n \in IF preferred = NoNode THEN Targets(r) ELSE {preferred} :
                 wire' = [w EXCEPT ![n] = @ \o entries] /\ failed' = f /\ offline' = offline
      <3>1. PICK n \in IF preferred = NoNode THEN Targets(r) ELSE {preferred} :
              wire' = [w EXCEPT ![n] = @ \o entries]
        BY <2>8
      <3>2. n \in Nodes
        <4>1. Targets(r) \subseteq pool
          BY DEF Targets
        <4>. QED BY <3>1, <4>1
      <3> HIDE DEF entries, preferred, r, unknown, sameGroup
      <3>3. wire' \in [Nodes -> Seq(Nat \X Nat)] /\ wire'[n] = w[n] \o entries
            /\ \A m \in Nodes \ {n} : wire'[m] = w[m]
        <4>1. w[n] \o entries \in Seq(Nat \X Nat)
          BY <1>1, <2>6, <3>2, ConcatElements
        <4>. QED BY <1>1, <3>1, <3>2, <4>1
      <3>4. PlacesOK(qs, Lines(wire', failed'), offline)
        <4>1. PICK Q, R : Q = Lines(w, f) /\ R = Lines(wire', failed')
          OBVIOUS
        <4>2. PlacesOK(qs, Q, offline) /\ Unplaced(p, Q, offline) /\ n \in Places
          BY <2>4, <3>2, <4>1, LinesAt DEF Whole
        <4>3. R[n] = Q[n] \o Sends(p, qs[p])
          <5>1. R[n] = wire'[n] /\ Q[n] = w[n]
            BY <3>2, <4>1, LinesAt
          <5>. QED BY <2>4, <2>6, <3>3, <5>1
        <4>4. \A y \in Places \ {n} : R[y] = Q[y]
          <5>1. R[NoNode] = failed' /\ Q[NoNode] = f /\ failed' = f
            BY <2>8, <4>1, LinesAt
          <5>2. \A y \in Nodes : R[y] = wire'[y] /\ Q[y] = w[y]
            BY <4>1, LinesAt
          <5>. QED BY <3>3, <5>1, <5>2 DEF Places
        <4>5. PlacesOK(qs, R, offline)
          BY <2>2, <2>4, <2>5, <4>2, <4>3, <4>4, PlacesAdd
        <4>. QED BY <4>1, <4>5
      <3>5. Whole(pipelines', wire', failed', offline', called1, conf)
        BY <2>4, <2>5, <2>8, <3>3, <3>4 DEF Whole
      <3>. QED BY <1>4, <2>2, <2>4, <2>5, <3>5 DEF Executed, r, unknown
    <2>9. CASE Keep(w, f \o entries)
      <3>1. wire' = w /\ failed' = f \o entries /\ offline' = offline
        BY <2>9 DEF Keep
      <3> HIDE DEF entries, preferred, r, unknown, sameGroup
      <3>2. failed' \in Seq(Nat \X Nat)
        BY <1>1, <2>6, <3>1, ConcatElements
      <3>3. PlacesOK(qs, Lines(wire', failed'), offline)
        <4>1. PICK Q, R : Q = Lines(w, f) /\ R = Lines(wire', failed')
          OBVIOUS
        <4>2. PlacesOK(qs, Q, offline) /\ Unplaced(p, Q, offline) /\ NoNode \in Places
          BY <2>4, <4>1, LinesAt DEF Whole
        <4>3. R[NoNode] = Q[NoNode] \o Sends(p, qs[p])
          <5>1. R[NoNode] = failed' /\ Q[NoNode] = f
            BY <4>1, LinesAt
          <5>. QED BY <2>4, <2>6, <3>1, <5>1
        <4>4. \A y \in Places \ {NoNode} : R[y] = Q[y]
          BY <3>1, <4>1, LinesAt
        <4>5. PlacesOK(qs, R, offline)
          BY <2>2, <2>4, <2>5, <4>2, <4>3, <4>4, PlacesAdd
        <4>. QED BY <4>1, <4>5
      <3>4. Whole(pipelines', wire', failed', offline', called1, conf)
        BY <2>4, <2>5, <3>1, <3>2, <3>3 DEF Whole
      <3>. QED BY <1>4, <2>2, <2>4, <2>5, <3>4 DEF Executed, r, unknown
    <2>10. CASE offline' = Append(offline, <<p, preferred>>) /\ wire' = w /\ failed' = f
      <3>1. PlacesOK(qs, Lines(w, f), Append(offline, <<p, preferred>>))
        <4>1. PlacesOK(qs, Lines(w, f), offline)
          BY <2>4 DEF Whole
        <4> HIDE DEF entries, preferred, r, unknown, sameGroup
        <4>. QED BY <2>2, <2>4, <2>5, <2>7, <4>1, PlacesWait
      <3> HIDE DEF entries, preferred, r, unknown, sameGroup
      <3>2. Whole(pipelines', wire', failed', offline', called1, conf)
        BY <2>4, <2>5, <2>10, <3>1 DEF Whole
      <3>. QED BY <1>4, <2>2, <2>4, <2>5, <3>2 DEF Executed, r, unknown
    <2>. QED BY <1>4, <2>8, <2>9, <2>10
  <1>. QED BY <1>2, <1>3, <1>4 DEF Exec

------------------------------------------------------------------------------
(* The steps that execute a pipeline.                                        *)

\* A pipeline that is filled or put off is apart from the others.
LEMMA PausedIsApart ==
  ASSUME NEW ps, NEW w, NEW f, NEW o, NEW called1, NEW conf, Whole(ps, w, f, o, called1, conf),
         NEW p \in DOMAIN ps, ps[p].phase \in Pausing
  PROVE  Apart(p, ps, w, f, o, called1, conf)
PROOF
  <1>1. Rest(ps[p], conf)
    BY DEF Whole, Fine
  <1>2. Unplaced(p, Lines(w, f), o)
    <2>1. ps[p].phase # "sent" /\ PlacesOK(ps, Lines(w, f), o)
      BY DEF Whole, Pausing
    <2>. QED BY <2>1, PlacedIsSent
  <1>. QED BY <1>1, <1>2 DEF Apart, Aside, Whole, Rest

\* What is known of the slots, for pipelines ps and calls called1.
Known(ps, called1, p) ==
  /\ Learned' \/ slots' = [s \in Slots |-> NoNode]
  /\ ~Learned' => /\ \A c \in Commands : called1[c] # "woken"
                  /\ \A q \in DOMAIN ps \ {p} : ps[q].phase \notin {"filling", "sent", "delayed"}
\* The automatic pipelines are among ps, but for p.
Filling(ps, auto1, p) ==
  \A n \in Nodes : auto1[n] # 0 =>
    /\ auto1[n] \in DOMAIN ps \ {p}
    /\ ps[auto1[n]].phase = "filling" /\ ps[auto1[n]].key = n

\* After exec() the invariant holds of the slots, the automatic pipelines and the pipelines.
LEMMA ExecutedInv ==
  ASSUME NEW ps, NEW p \in DOMAIN ps, Executed(ps, p, called', confirmed'),
         Known(ps, called', p), Filling(ps, auto', p)
  PROVE  SlotsOK' /\ AutoOK' /\ Whole(pipelines, wire, failed, offline, called, confirmed)'
PROOF
  <1>1. /\ DOMAIN pipelines' = DOMAIN ps /\ \A q \in DOMAIN ps \ {p} : pipelines'[q] = ps[q]
        /\ pipelines'[p].phase \in {"waiting", "resolved", "sent"}
        /\ pipelines'[p].phase = "sent" => ~\A s \in Slots : slots'[s] = NoNode
        /\ Whole(pipelines', wire', failed', offline', called', confirmed')
    BY DEF Executed
  <1>2. AutoOK'
    BY <1>1 DEF AutoOK, Filling
  <1>3. SlotsOK'
    <2>1. ASSUME ~Learned' PROVE \A q \in DOMAIN pipelines' : pipelines'[q].phase \notin {"filling", "sent", "delayed"}
      <3>1. slots' = [s \in Slots |-> NoNode]
        BY <2>1 DEF Known
      <3>2. \A s \in Slots : slots'[s] = NoNode
        BY <3>1
      <3>3. pipelines'[p].phase \notin {"filling", "sent", "delayed"}
        BY <1>1, <3>2
      <3>. QED BY <1>1, <2>1, <3>3 DEF Known
    <2>. QED BY <2>1 DEF SlotsOK, Known
  <1>. QED BY <1>1, <1>2, <1>3

\* executeAutoPipeline.
LEMMA ExecuteAutoInv ==
  ASSUME NEW key \in Nodes, NEW runs, runs \subseteq Nodes, NEW ps, pool \subseteq Nodes, auto \in [Nodes -> Nat],
         Whole(ps, wire, failed, offline, called', confirmed'),
         Known(ps, called', 0), Filling(ps, auto, 0), ExecuteAuto(key, runs, ps)
  PROVE  /\ SlotsOK' /\ AutoOK' /\ Whole(pipelines, wire, failed, offline, called, confirmed)'
         /\ auto' \in [Nodes -> Nat] /\ running' \subseteq Nodes
PROOF
  <1>1. CASE key \in runs \/ auto[key] = 0
    <2>1. running' = runs /\ pipelines' = ps /\ auto' = auto
          /\ wire' = wire /\ failed' = failed /\ offline' = offline
      BY <1>1 DEF ExecuteAuto, sending
    <2>2. Whole(pipelines, wire, failed, offline, called, confirmed)'
      BY <2>1
    <2>3. AutoOK'
      BY <2>1 DEF AutoOK, Filling
    <2>4. 0 \notin DOMAIN ps
      BY DEF Whole
    <2>5. SlotsOK'
      BY <2>1, <2>4 DEF SlotsOK, Known
    <2>. QED BY <2>1, <2>2, <2>3, <2>5
  <1>2. CASE ~(key \in runs \/ auto[key] = 0)
    <2>1. PICK p : p = auto[key]
      OBVIOUS
    <2>2. running' = runs \cup {key} /\ auto' = [auto EXCEPT ![key] = 0] /\ Exec(ps, p, wire, failed)
      BY <1>2, <2>1 DEF ExecuteAuto
    <2>3. p \in DOMAIN ps /\ ps[p].phase = "filling" /\ ps[p].key = key
      BY <1>2, <2>1 DEF Filling
    <2>4. Executed(ps, p, called', confirmed')
      <3>1. Apart(p, ps, wire, failed, offline, called', confirmed')
        BY <2>3, PausedIsApart DEF Pausing
      <3>. QED BY <2>2, <3>1, ExecWhole
    <2>5. Filling(ps, auto', p)
      <3>1. ASSUME NEW n \in Nodes, auto'[n] # 0
            PROVE  auto'[n] \in DOMAIN ps \ {p} /\ ps[auto'[n]].phase = "filling" /\ ps[auto'[n]].key = n
        <4>1. n # key /\ auto'[n] = auto[n]
          BY <2>2, <3>1
        <4>2. auto[n] \in DOMAIN ps /\ ps[auto[n]].phase = "filling" /\ ps[auto[n]].key = n
          BY <3>1, <4>1 DEF Filling
        <4>. QED BY <2>3, <4>1, <4>2
      <3>. QED BY <3>1 DEF Filling
    <2>6. Known(ps, called', p)
      <3>1. 0 \notin DOMAIN ps
        BY DEF Whole
      <3>. QED BY <3>1 DEF Known
    <2>7. SlotsOK' /\ AutoOK' /\ Whole(pipelines, wire, failed, offline, called, confirmed)'
      BY <2>3, <2>4, <2>5, <2>6, ExecutedInv
    <2>8. auto' \in [Nodes -> Nat]
      BY <2>2
    <2>. QED BY <2>2, <2>7, <2>8
  <1>. QED BY <1>1, <1>2

------------------------------------------------------------------------------
(* Pipeline#fillResult.                                                      *)

\* The last result of pipeline p is in: it is settled, put off or executed again.
LEMMA CompleteInv ==
  ASSUME NEW p, NEW r, NEW ps, NEW w, NEW f, ps = [pipelines EXCEPT ![p] = r], p \in DOMAIN pipelines,
         Aside(p, ps, w, f, offline, called, confirmed'), Underway(r, confirmed'), r.replyPending = 0,
         r.key = pipelines[p].key, pipelines[p].phase = "sent", SlotsOK, AutoOK, pool \subseteq Nodes,
         called' = called, auto' = auto, Complete(p, r, w, f)
  PROVE  SlotsOK' /\ AutoOK' /\ Whole(pipelines, wire, failed, offline, called, confirmed)'
PROOF
  <1> DEFINE error == CHOOSE e \in Errors(r) : TRUE
             again == [r EXCEPT !.queue = Requeued(r, error), !.leftRedirections = CountDown(@)]
             redirected == [again EXCEPT !.preferKey = error.node]
             exceeded == again.leftRedirections <= 0
             Same(x) == [pipelines EXCEPT ![p] = x]
  <1>1. /\ Formed(r) /\ r \in PipelineRecord /\ Filled(r) /\ r.result \in Seq(Result) /\ Len(r.queue) \in Nat
        /\ Len(r.result) = Len(r.queue) /\ r.leftRedirections \in Int
    <2>1. Formed(r) /\ Filled(r) /\ Len(r.result) >= Len(r.queue) - r.replyPending
      BY DEF Underway
    <2>2. r \in PipelineRecord /\ Len(r.result) <= Len(r.queue)
      BY <2>1, FormedFields
    <2>3. Len(r.result) \in Nat /\ Len(r.queue) \in Nat /\ r.result \in Seq(Result) /\ r.leftRedirections \in Int
      BY <2>2 DEF PipelineRecord
    <2>. QED BY <2>1, <2>2, <2>3
  <1>2. /\ Learned /\ ps[p] = r /\ DOMAIN ps = DOMAIN pipelines
        /\ \A q \in DOMAIN pipelines \ {p} : ps[q] = pipelines[q]
    BY DEF SlotsOK
  <1>3. \A x : [ps EXCEPT ![p] = x] = Same(x)
    OBVIOUS
  \* a pipeline with the same calls that is settled or put off
  <1>4. ASSUME NEW x, pipelines' = Same(x), x \in PipelineRecord, x.calls = r.calls, Fine(x, confirmed'),
               slots' = slots, Keep(w, f)
        PROVE  SlotsOK' /\ AutoOK' /\ Whole(pipelines, wire, failed, offline, called, confirmed)'
    <2>1. pipelines' = [ps EXCEPT ![p] = x]
      BY <1>3, <1>4
    <2>2. Replaced(pipelines', ps, p, x, w, f, offline, called, confirmed')
      <3> HIDE DEF Same
      <3>. QED BY <1>2, <1>4, <2>1, Replace
    <2>3. Whole(pipelines, wire, failed, offline, called, confirmed)'
      BY <1>4, <2>2 DEF Replaced, Keep
    <2>4. SlotsOK'
      BY <1>2, <1>4 DEF SlotsOK, Learned
    <2>5. AutoOK'
      <3>1. \A q \in DOMAIN pipelines \ {p} : q \in DOMAIN pipelines' /\ pipelines'[q] = pipelines[q]
        BY <1>4
      <3>2. \A n \in Nodes : auto[n] # 0 => auto[n] # p
        BY DEF AutoOK
      <3>. QED BY <3>1, <3>2 DEF AutoOK
    <2>. QED BY <2>3, <2>4, <2>5
  <1>5. CASE /\ ~Retriable(r) /\ UNCHANGED slots /\ Keep(w, f)
             /\ pipelines' = Same(Settled(r, Resolved(r.queue, r.result)))
    <2>1. PICK x : x = Settled(r, Resolved(r.queue, r.result))
      OBVIOUS
    <2>2. Resolved(r.queue, r.result) \in Seq(Result)
      BY <1>1, ResolvedEntries
    <2>3. /\ Formed(x) /\ x.replyPending = 0 /\ x.phase = "resolved" /\ x.calls = r.calls
      BY <1>1, <2>1, <2>2, SettledFormed
    <2>4. Own(x)
      <3>1. \A j \in 1..Len(r.queue) : IsError(r.result[j]) \/ r.result[j].of = Expected(r, j)
        BY <1>1 DEF Filled, Received
      <3>. QED BY <1>1, <2>1, <3>1, SettledOwn
    <2>5. Fine(x, confirmed') /\ x \in PipelineRecord
      BY <2>3, <2>4, FormedFields DEF Fine, Done, Pausing, Over
    <2>. QED BY <1>4, <1>5, <2>1, <2>3, <2>5
  <1>6. ASSUME Retriable(r)
        PROVE  /\ ToSet(r.calls) \cap confirmed' = {} /\ error \in Result
               /\ \E j \in 1..Len(r.queue) : error = r.result[j]
               /\ again \in PipelineRecord /\ Formed(again) /\ again.replyPending = 0
               /\ again.calls = r.calls /\ again.key = r.key /\ again.transaction = r.transaction
               /\ again.queue = Requeued(r, error) /\ again.result = r.result
               /\ again.leftRedirections = CountDown(r.leftRedirections)
    <2>1. confirmed' \subseteq Writes
      BY DEF Aside, CallsOK
    <2>2. /\ ToSet(r.calls) \cap confirmed' = {}
          /\ \E j \in 1..Len(r.queue) : error = r.result[j] /\ IsError(r.result[j])
      BY <1>6, <2>1, RetriableFresh
    <2> HIDE DEF error
    <2>3. error \in Result
      <3>1. PICK j \in 1..Len(r.queue) : error = r.result[j]
        BY <2>2
      <3>. QED BY <1>1, <3>1
    <2>4. /\ Requeued(r, error) \in Seq(Words) /\ Len(Requeued(r, error)) >= Len(r.queue)
          /\ \A s : s.calls = r.calls /\ s.transaction = r.transaction /\ s.queue = Requeued(r, error)
                      => Shaped(s)
      BY <1>1, RequeuedShaped
    <2>5. CountDown(r.leftRedirections) \in Int
      BY <1>1, PipelineAssumption DEF CountDown
    <2>6. /\ again \in PipelineRecord /\ again.replyPending = 0
          /\ again.calls = r.calls /\ again.key = r.key /\ again.transaction = r.transaction
          /\ again.queue = Requeued(r, error) /\ again.result = r.result
          /\ again.leftRedirections = CountDown(r.leftRedirections)
      BY <1>1, <2>4, <2>5 DEF PipelineRecord
    <2> HIDE DEF again
    <2>7. Formed(again)
      BY <1>1, <2>4, <2>6, FormedAgain
    <2>. QED BY <2>2, <2>3, <2>6, <2>7 DEF again
  <1>7. CASE /\ Retriable(r) /\ UNCHANGED slots /\ Keep(w, f)
             /\ exceeded \/ ~(error.kind \in {"MOVED", "ASK"} \/ Delays(error))
             /\ pipelines' = Same(Settled(again, Resolved(again.queue, r.result)))
    <2>1. PICK x : x = Settled(again, Resolved(again.queue, r.result))
      OBVIOUS
    <2>2. ~AskAtLimit => error.kind # "ASK"
      <3>1. PICK j \in 1..Len(r.queue) : error = r.result[j]
        BY <1>6, <1>7
      <3>2. ~AskAtLimit /\ r.result[j].kind = "ASK" => CountDown(r.leftRedirections) > 0
        BY <1>1 DEF Filled, Received
      <3>3. exceeded => ~(CountDown(r.leftRedirections) > 0)
        <4>1. CountDown(r.leftRedirections) \in Int
          BY <1>1, PipelineAssumption DEF CountDown
        <4>. QED BY <1>6, <1>7, <4>1
      <3>. QED BY <1>7, <3>1, <3>2, <3>3
    <2>3. PICK a : a = again
      OBVIOUS
    <2>4. /\ Formed(a) /\ a.replyPending = 0 /\ a.calls = r.calls /\ a.transaction = r.transaction
          /\ a.queue = Requeued(r, error) /\ a.result = r.result
      BY <1>6, <1>7, <2>3
    <2> HIDE DEF error, again
    <2>5. /\ Len(a.queue) >= Len(r.queue) /\ (error.kind # "ASK" => a.queue = r.queue) /\ Len(a.queue) \in Nat
      <3>1. /\ Requeued(r, error) \in Seq(Words) /\ Len(Requeued(r, error)) >= Len(r.queue)
            /\ error.kind # "ASK" => Requeued(r, error) = r.queue
        BY <1>1, RequeuedShaped, Zenon
      <3>. QED BY <2>4, <3>1
    <2>6. Resolved(a.queue, r.result) \in Seq(Result)
      <3>1. Len(r.result) <= Len(a.queue)
        BY <1>1, <2>5
      <3>. QED BY <1>1, <2>4, <3>1, ResolvedEntries
    <2>7. /\ Formed(x) /\ x.replyPending = 0 /\ x.phase = "resolved" /\ x.calls = r.calls
      BY <2>1, <2>3, <2>4, <2>6, SettledFormed
    <2>8. ~AskAtLimit => Own(x)
      <3>1. SUFFICES ASSUME ~AskAtLimit PROVE Own(x)
        OBVIOUS
      <3>2. a.queue = r.queue
        BY <2>2, <2>5, <3>1
      <3>3. \A j \in 1..Len(a.queue) : IsError(r.result[j]) \/ r.result[j].of = Expected(a, j)
        BY <1>1, <2>4, <3>2 DEF Filled, Received, Expected
      <3>4. Own(Settled(a, Resolved(a.queue, r.result)))
        BY <1>1, <2>4, <3>2, <3>3, SettledOwn
      <3>. QED BY <2>1, <2>3, <3>4
    <2>9. Fine(x, confirmed') /\ x \in PipelineRecord
      BY <2>7, <2>8, FormedFields DEF Fine, Done, Pausing, Over
    <2>. QED BY <1>4, <1>7, <2>1, <2>7, <2>9
  <1>8. CASE /\ Retriable(r) /\ UNCHANGED slots /\ Keep(w, f)
             /\ pipelines' = Same([again EXCEPT !.phase = "delayed"])
    <2>1. PICK x, a : a = again /\ x = [a EXCEPT !.phase = "delayed"]
      OBVIOUS
    <2>2. /\ Formed(a) /\ a.replyPending = 0 /\ a.calls = r.calls /\ ToSet(r.calls) \cap confirmed' = {}
      BY <1>6, <1>8, <2>1
    <2>3. "delayed" \in Pausing \ {"filling"}
      BY DEF Pausing
    <2> HIDE DEF error, again
    <2>4. x \in PipelineRecord /\ Fine(x, confirmed') /\ x.calls = r.calls
      BY <2>1, <2>2, <2>3, PausedFine
    <2>. QED BY <1>4, <1>8, <2>1, <2>4
  <1>9. CASE /\ Retriable(r) /\ error.kind \in {"MOVED", "ASK"} /\ Exec(Same(redirected), p, w, f)
             /\ slots' = [slots EXCEPT ![error.slot] = error.node] \/ slots' = slots
    <2>1. PICK x : x = redirected
      OBVIOUS
    <2>2. error \in Result /\ error.node \in Nodes
      BY <1>6, <1>9 DEF Result
    <2>3. /\ x \in PipelineRecord /\ Formed(x) /\ x.replyPending = 0 /\ x.calls = r.calls
          /\ ToSet(x.calls) \cap confirmed' = {}
      <3>1. PICK a : a = again
        OBVIOUS
      <3>2. /\ a \in PipelineRecord /\ Formed(a) /\ a.replyPending = 0 /\ a.calls = r.calls
            /\ ToSet(r.calls) \cap confirmed' = {}
        BY <1>6, <1>9, <3>1
      <3>3. x = [a EXCEPT !.preferKey = error.node]
        BY <2>1, <3>1
      <3> HIDE DEF error, again, redirected
      <3>4. /\ x \in PipelineRecord /\ x.calls = a.calls /\ x.key = a.key /\ x.transaction = a.transaction
            /\ x.queue = a.queue /\ x.result = a.result /\ x.replyPending = a.replyPending
        BY <2>2, <3>2, <3>3 DEF PipelineRecord
      <3>5. Len(x.result) <= Len(x.queue)
        BY <3>2, <3>4, FormedFields
      <3>6. Formed(x)
        BY <3>2, <3>4, <3>5, FormedLike
      <3>. QED BY <3>2, <3>4, <3>6
    <2> HIDE DEF error, again
    <2>4. PICK qs : qs = Same(x)
      OBVIOUS
    <2>5. DOMAIN qs = DOMAIN pipelines /\ qs[p] = x /\ \A q \in DOMAIN pipelines \ {p} : qs[q] = pipelines[q]
      BY <2>4
    <2>6. Exec(qs, p, w, f)
      BY <1>9, <2>1, <2>4
    <2> HIDE DEF redirected, Same
    <2>7. Apart(p, qs, w, f, offline, called, confirmed')
      <3>1. /\ ps \in Seq(PipelineRecord) /\ w \in [Nodes -> Seq(Nat \X Nat)] /\ f \in Seq(Nat \X Nat)
            /\ \A q \in DOMAIN ps \ {p} : Fine(ps[q], confirmed')
            /\ CallsOK(ps, called, confirmed')
            /\ PlacesOK(ps, Lines(w, f), offline) /\ Unplaced(p, Lines(w, f), offline)
        BY DEF Aside
      <3>2. qs \in Seq(PipelineRecord)
        <4>1. PICK n : n = Len(ps)
          OBVIOUS
        <4>2. n \in Nat /\ ps \in [1..n -> PipelineRecord] /\ qs = [ps EXCEPT ![p] = x]
          BY <1>3, <2>4, <3>1, <4>1
        <4>3. qs \in [1..n -> PipelineRecord]
          BY <2>3, <4>2
        <4>4. n \in Nat
          BY <4>2
        <4> HIDE DEF Same
        <4>. QED BY ONLY <4>3, <4>4
      <3>3. \A q \in DOMAIN qs \ {p} : Fine(qs[q], confirmed')
        BY <1>2, <2>5, <3>1
      <3>4. CallsOK(qs, called, confirmed')
        <4>1. \A q \in DOMAIN qs : q \in DOMAIN ps /\ qs[q].calls = ps[q].calls
          BY <1>2, <2>3, <2>5
        <4>2. \A q \in DOMAIN qs : \A c \in ToSet(qs[q].calls) : called[c] \in {"made", "answered"}
          BY <3>1, <4>1 DEF CallsOK
        <4>3. \A y, z \in DOMAIN qs : y # z => ToSet(qs[y].calls) \cap ToSet(qs[z].calls) = {}
          BY <3>1, <4>1 DEF CallsOK
        <4>. QED BY <3>1, <4>2, <4>3 DEF CallsOK
      <3>5. PlacesOK(qs, Lines(w, f), offline)
        <4>1. PICK Q : Q = Lines(w, f)
          OBVIOUS
        <4>2. PlacesOK(ps, Q, offline) /\ Unplaced(p, Q, offline)
          BY <3>1, <4>1
        <4>3. \A q \in DOMAIN ps : ps[q].phase = "sent" /\ ~Unplaced(q, Q, offline)
                                     => q \in DOMAIN qs /\ qs[q] = ps[q]
          BY <1>2, <2>5, <4>2
        <4>. QED BY <4>1, <4>2, <4>3, PlacesKeep
      <3>. QED BY <2>3, <2>5, <3>1, <3>2, <3>3, <3>4, <3>5 DEF Apart, Aside
    <2>8. Executed(qs, p, called', confirmed')
      BY <2>6, <2>7, ExecWhole
    <2>9. Known(qs, called', p)
      <3>1. Learned'
        BY <1>2, <1>9, <2>2 DEF Learned
      <3>. QED BY <3>1 DEF Known
    <2>10. Filling(qs, auto', p)
      <3>1. \A n \in Nodes : auto[n] # 0 => auto[n] \in DOMAIN pipelines \ {p}
        BY DEF AutoOK
      <3>. QED BY <2>5, <3>1 DEF Filling, AutoOK
    <2>. QED BY <2>5, <2>8, <2>9, <2>10, ExecutedInv
  <1>. QED BY <1>5, <1>7, <1>8, <1>9 DEF Complete

\* Place x of the lines loses its first command.
Popped(x, w, f) ==
  /\ w \in [Nodes -> Seq(Nat \X Nat)] /\ f \in Seq(Nat \X Nat)
  /\ Lines(w, f)[x] = Tail(Lines(wire, failed)[x])
  /\ \A y \in Places \ {x} : Lines(w, f)[y] = Lines(wire, failed)[y]

\* What a node may answer, or a lost connection gives, to the command at position i of r.
Takes(r, i, res) ==
  /\ res \in Result
  /\ IsError(res) \/ res.of = Expected(r, i)
  /\ ~AskAtLimit /\ res.kind = "ASK" => CountDown(r.leftRedirections) > 0

\* What the first command of a place says of its pipeline.
LEMMA HeadOfPlace ==
  ASSUME PipeInv, NEW x \in Places, Lines(wire, failed)[x] # <<>>,
         NEW p, NEW i, Head(Lines(wire, failed)[x]) = <<p, i>>
  PROVE  /\ p \in DOMAIN pipelines /\ p \in Nat /\ p \in Holds(Lines(wire, failed)[x])
         /\ pipelines[p] \in PipelineRecord /\ pipelines[p].phase = "sent"
         /\ Underway(pipelines[p], confirmed) /\ Formed(pipelines[p]) /\ pipelines[p].replyPending > 0
         /\ i \in 1..Len(pipelines[p].queue)
         /\ i = Len(pipelines[p].queue) - pipelines[p].replyPending + 1
PROOF
  <1>1. PICK q : q = Lines(wire, failed)[x]
    OBVIOUS
  <1>2. Placed(pipelines, q)
    BY <1>1 DEF PipeInv, Whole, PlacesOK
  <1>3. PICK j \in 1..Len(q) : q[j][1] = p /\ q[j] = <<p, i>> /\ q[j] \in ToSet(q)
    <2>1. q \in Seq(Nat \X Nat)
      BY <1>2 DEF Placed
    <2>2. 1 \in 1..Len(q) /\ Head(q) = q[1]
      BY <1>1, <2>1
    <2>3. q[1] = <<p, i>> /\ q[1] \in ToSet(q)
      BY <1>1, <2>1, <2>2, LineElements
    <2>. QED BY <2>2, <2>3
  <1>4. p \in Holds(q)
    BY <1>3 DEF Holds
  <1>5. p \in DOMAIN pipelines /\ p \in Nat /\ pipelines[p].phase = "sent"
    BY <1>2, <1>4, HeldIsSent
  <1>6. /\ pipelines[p] \in PipelineRecord /\ Underway(pipelines[p], confirmed)
        /\ pipelines[p].replyPending > 0
    BY <1>5 DEF PipeInv, Whole, Fine
  <1>7. Formed(pipelines[p]) /\ pipelines[p].replyPending \in 0..Len(pipelines[p].queue)
    BY <1>6 DEF Underway
  <1>8. i \in 1..Len(pipelines[p].queue) /\ i = Len(pipelines[p].queue) - pipelines[p].replyPending + 1
    BY <1>1, <1>2, <1>6, <1>7, HeadIsNext
  <1>. QED BY <1>1, <1>4, <1>5, <1>6, <1>7, <1>8

\* A reply, or an error, for the first command of a place.
LEMMA FillResultInv ==
  ASSUME PipeInv, NEW x \in Places, Lines(wire, failed)[x] # <<>>,
         NEW p, NEW i, Head(Lines(wire, failed)[x]) = <<p, i>>,
         NEW res, Takes(pipelines[p], i, res), NEW w, NEW f, Popped(x, w, f),
         called' = called, auto' = auto, FillResult(p, i, res, w, f)
  PROVE  SlotsOK' /\ AutoOK' /\ Whole(pipelines, wire, failed, offline, called, confirmed)'
PROOF
  <1>1. PICK r, s : r = pipelines[p] /\ s = FilledWith(r, i, res)
    OBVIOUS
  <1>2. PICK conf : conf = confirmed \cup Confirms(r, i, res)
    OBVIOUS
  <1>3. /\ p \in DOMAIN pipelines /\ p \in Nat /\ p \in Holds(Lines(wire, failed)[x])
        /\ r \in PipelineRecord /\ r.phase = "sent" /\ Underway(r, confirmed) /\ Formed(r) /\ r.replyPending > 0
        /\ i \in 1..Len(r.queue) /\ i = Len(r.queue) - r.replyPending + 1
    BY <1>1, HeadOfPlace
  <1>4. /\ pipelines \in Seq(PipelineRecord) /\ CallsOK(pipelines, called, confirmed)
        /\ \A q \in DOMAIN pipelines : Fine(pipelines[q], confirmed)
        /\ PlacesOK(pipelines, Lines(wire, failed), offline)
    BY DEF PipeInv, Whole
  <1>5. /\ Underway(s, conf) /\ s.replyPending = r.replyPending - 1 /\ s.phase = r.phase /\ s.calls = r.calls
        /\ s.key = r.key /\ s.queue = r.queue /\ s.transaction = r.transaction /\ s \in PipelineRecord
    <2>1. /\ res \in Result
          /\ IsError(res) \/ res.of = Expected(r, i)
          /\ ~AskAtLimit /\ res.kind = "ASK" => CountDown(r.leftRedirections) > 0
      BY <1>1 DEF Takes
    <2>2. OneMore(FilledWith(r, i, res), r, confirmed \cup Confirms(r, i, res))
      BY <1>3, <2>1, FillKeeps, Zenon
    <2>. QED BY <1>1, <1>2, <2>2 DEF OneMore
  <1>6. Confirms(r, i, res) \subseteq Writes \cap ToSet(r.calls)
    BY <1>3, ConfirmsOwn
  <1>7. PICK qs : qs = [pipelines EXCEPT ![p] = s]
    OBVIOUS
  <1>8. DOMAIN qs = DOMAIN pipelines /\ qs[p] = s /\ \A q \in DOMAIN pipelines \ {p} : qs[q] = pipelines[q]
    BY <1>3, <1>7
  <1>9. qs \in Seq(PipelineRecord)
    <2>1. PICK n : n = Len(pipelines)
      OBVIOUS
    <2>2. n \in Nat /\ pipelines \in [1..n -> PipelineRecord]
      BY <1>4, <2>1
    <2>3. qs \in [1..n -> PipelineRecord]
      BY <1>5, <1>7, <2>2
    <2>. QED BY ONLY <2>2, <2>3
  <1>10. \A q \in DOMAIN qs \ {p} : Fine(qs[q], conf)
    <2>1. SUFFICES ASSUME NEW q \in DOMAIN pipelines \ {p} PROVE Fine(pipelines[q], conf)
      BY <1>8
    <2>2. ToSet(pipelines[q].calls) \cap ToSet(r.calls) = {}
      BY <1>1, <1>3, <1>4 DEF CallsOK
    <2>3. ToSet(pipelines[q].calls) \cap Confirms(r, i, res) = {}
      BY <1>6, <2>2
    <2>. QED BY <1>2, <1>4, <2>3, FineMore
  <1>11. CallsOK(qs, called, conf)
    <2>1. \A q \in DOMAIN qs : q \in DOMAIN pipelines /\ qs[q].calls = pipelines[q].calls
      BY <1>1, <1>5, <1>8
    <2>2. \A q \in DOMAIN qs : \A c \in ToSet(qs[q].calls) : called[c] \in {"made", "answered"}
      BY <1>4, <2>1 DEF CallsOK
    <2>3. \A y, z \in DOMAIN qs : y # z => ToSet(qs[y].calls) \cap ToSet(qs[z].calls) = {}
      BY <1>4, <2>1 DEF CallsOK
    <2>4. \A c \in ToSet(r.calls) : called[c] \in {"made", "answered"}
      BY <1>1, <1>3, <1>4 DEF CallsOK
    <2>5. conf \subseteq Writes /\ \A c \in conf : called[c] \in {"made", "answered"}
      BY <1>2, <1>4, <1>6, <2>4 DEF CallsOK
    <2>. QED BY <2>2, <2>3, <2>5 DEF CallsOK
  <1>12. s.phase = "sent" /\ r.replyPending \in Nat /\ Len(r.queue) \in Nat /\ r.replyPending <= Len(r.queue)
    BY <1>3, <1>5 DEF PipelineRecord, Underway
  <1>13. /\ PlacesOK(qs, Lines(w, f), offline)
         /\ s.replyPending = 0 => Unplaced(p, Lines(w, f), offline)
    <2>1. Out(qs[p]) = Out(pipelines[p]) \ {i}
      <3>1. PICK n, m : n = Len(r.queue) /\ m = r.replyPending
        OBVIOUS
      <3>2. Out(pipelines[p]) = (n - m + 1)..n /\ Out(qs[p]) = (n - (m - 1) + 1)..n
        BY <1>1, <1>3, <1>5, <1>8, <1>12, <3>1 DEF Out
      <3>3. n \in Nat /\ m \in Nat /\ i = n - m + 1
        BY <1>3, <1>12, <3>1
      <3>. QED BY <3>2, <3>3
    <2>2. s.replyPending = 0 => Out(qs[p]) = {}
      BY <1>5, <1>8, <1>12 DEF Out
    <2>3. PICK Q, R : Q = Lines(wire, failed) /\ R = Lines(w, f)
      OBVIOUS
    <2>4. R[x] = Tail(Q[x]) /\ \A y \in Places \ {x} : R[y] = Q[y]
      BY <2>3 DEF Popped
    <2>5. PlacesOK(pipelines, Q, offline) /\ Q[x] # <<>> /\ Head(Q[x]) = <<p, i>> /\ p \in Holds(Q[x])
      BY <1>3, <1>4, <2>3
    <2>6. PlacesOK(qs, R, offline) /\ (Out(qs[p]) = {} => Unplaced(p, R, offline))
      <3>1. PICK o, ps : o = offline /\ ps = pipelines
        OBVIOUS
      <3>2. /\ PlacesOK(ps, Q, o) /\ DOMAIN qs = DOMAIN ps /\ \A y \in DOMAIN ps \ {p} : qs[y] = ps[y]
            /\ Out(qs[p]) = Out(ps[p]) \ {i}
        BY <1>8, <2>1, <2>5, <3>1
      <3>3. PlacesOK(qs, R, o) /\ (Out(qs[p]) = {} => Unplaced(p, R, o))
        <4>1. Loses(Q, R, x, p, i) /\ Receives(ps, qs, p, i)
          BY <2>4, <2>5, <3>2 DEF Loses, Receives
        <4>. QED BY <3>2, <4>1, PlacesPop, Zenon
      <3>. QED BY <3>1, <3>3
    <2>. QED BY <2>2, <2>3, <2>6
  <1>14. /\ confirmed' = conf
         /\ IF s.replyPending > 0 THEN pipelines' = qs /\ UNCHANGED slots /\ Keep(w, f)
                                  ELSE Complete(p, s, w, f)
    BY <1>1, <1>2, <1>7 DEF FillResult, FilledWith
  <1>15. SlotsOK /\ AutoOK /\ pool \subseteq Nodes
    BY DEF PipeInv, Shapes
  <1>16. CASE s.replyPending > 0
    <2>1. pipelines' = qs /\ slots' = slots /\ wire' = w /\ failed' = f /\ offline' = offline
      BY <1>14, <1>16 DEF Keep
    <2>2. Fine(s, conf)
      BY <1>5, <1>12, <1>16 DEF Fine, Pausing, Over
    <2>3. Whole(qs, w, f, offline, called, conf)
      <3>1. w \in [Nodes -> Seq(Nat \X Nat)] /\ f \in Seq(Nat \X Nat)
        BY DEF Popped
      <3>2. \A q \in DOMAIN qs : Fine(qs[q], conf)
        BY <1>8, <1>10, <2>2
      <3>. QED BY <1>9, <1>11, <1>13, <3>1, <3>2 DEF Whole
    <2>4. Whole(pipelines, wire, failed, offline, called, confirmed)'
      BY <1>14, <2>1, <2>3
    <2>5. \A q \in DOMAIN qs : qs[q].phase = pipelines[q].phase /\ qs[q].key = pipelines[q].key
      BY <1>1, <1>5, <1>8
    <2>6. SlotsOK' /\ AutoOK'
      BY <1>8, <1>15, <2>1, <2>5 DEF SlotsOK, Learned, AutoOK
    <2>. QED BY <2>4, <2>6
  <1>17. CASE ~(s.replyPending > 0)
    <2>1. s.replyPending = 0
      BY <1>3, <1>5, <1>12, <1>17
    <2>2. Aside(p, qs, w, f, offline, called, conf)
      BY <1>3, <1>8, <1>9, <1>10, <1>11, <1>13, <2>1 DEF Aside, Popped
    <2>3. Complete(p, s, w, f)
      BY <1>14, <1>17
    <2>4. Aside(p, qs, w, f, offline, called, confirmed') /\ Underway(s, confirmed')
      BY <1>5, <1>14, <2>2
    <2>5. s.key = pipelines[p].key /\ pipelines[p].phase = "sent"
      BY <1>1, <1>3, <1>5
    <2>. QED BY <1>3, <1>7, <1>15, <2>1, <2>3, <2>4, <2>5, CompleteInv
  <1>. QED BY <1>16, <1>17

------------------------------------------------------------------------------
(* What nodes answer.                                                        *)

\* An answer about a key: a success, or an error of the cluster.
LEMMA KeyRepliesTyped ==
  ASSUME owner \in [Slots -> Nodes], importing \in [Slots -> Nodes \cup {NoNode}],
         NEW n, NEW s \in Slots, NEW asking, NEW of \in Seq(Words), NEW res \in KeyReplies(n, s, asking, Ok(of))
  PROVE  res \in Result /\ (IsError(res) \/ res.of = of)
PROOF
  <1>1. Ok(of) \in Result /\ Ok(of).of = of
    BY ResultTypes
  <1>2. Err("TRYAGAIN") \in Result /\ IsError(Err("TRYAGAIN"))
    BY ResultTypes DEF Kinds
  <1>3. ASSUME NEW node \in Nodes, NEW kind \in {"MOVED", "ASK"}
        PROVE  Reply(kind, s, node, <<>>) \in Result /\ IsError(Reply(kind, s, node, <<>>))
    <2>1. <<>> \in Seq(Words)
      OBVIOUS
    <2>. QED BY <2>1 DEF Reply, Result, IsError, Kinds
  <1>4. CASE owner[s] = n
    <2>1. CASE importing[s] = NoNode
      BY <1>1, <1>4, <2>1 DEF KeyReplies
    <2>2. CASE importing[s] # NoNode
      <3>1. importing[s] \in Nodes
        BY <2>2
      <3>2. res \in {Ok(of), Reply("ASK", s, importing[s], <<>>), Err("TRYAGAIN")}
        BY <1>4, <2>2 DEF KeyReplies
      <3>. QED BY <1>1, <1>2, <1>3, <3>1, <3>2
    <2>. QED BY <2>1, <2>2
  <1>5. CASE owner[s] # n
    <2>1. res \in {Ok(of), Reply("MOVED", s, owner[s], <<>>), Err("TRYAGAIN")}
      BY <1>5 DEF KeyReplies
    <2>2. owner[s] \in Nodes
      OBVIOUS
    <2>. QED BY <1>1, <1>2, <1>3, <2>1, <2>2
  <1>. QED BY <1>4, <1>5

\* The replies taken for the one of EXEC are those to the calls.
LEMMA ExecOfCalls ==
  ASSUME NEW r, Formed(r), NEW i \in 1..Len(r.queue), r.queue[i] = "exec"
  PROVE  ExecOf(r, i) = r.calls /\ r.calls \in Seq(Words)
PROOF
  <1>1. PICK n, m : n = Len(r.calls) /\ m = Len(r.queue)
    OBVIOUS
  <1>2. Positions(r) /\ r.calls \in Seq(Commands) /\ n \in Nat /\ m \in Nat
    BY <1>1, QueuePositions, FormedFields
  <1>3. r.transaction
    <2>1. ~r.transaction => r.queue[i] \in ToSet(r.calls) \cup {"asking"}
      BY <1>2 DEF Positions
    <2>2. ToSet(r.calls) \subseteq Commands
      BY <1>2 DEF ToSet
    <2>. QED BY <2>1, <2>2, Keywords
  <1>4. i = m /\ \A k \in 1..n : r.queue[m - n - 1 + k] = r.calls[k]
    BY <1>1, <1>2, <1>3 DEF Positions
  <1>5. ExecOf(r, i) = [k \in 1..n |-> r.queue[m - n + k - 1]]
    BY <1>1, <1>4 DEF ExecOf
  <1>6. \A k \in 1..n : r.queue[m - n + k - 1] = r.calls[k]
    <2>1. ASSUME NEW k \in 1..n PROVE m - n + k - 1 = m - n - 1 + k
      BY <1>2
    <2>. QED BY <1>4, <2>1
  <1>7. ExecOf(r, i) = [k \in 1..n |-> r.calls[k]]
    BY <1>5, <1>6
  <1>8. r.calls = [k \in 1..n |-> r.calls[k]]
    BY <1>1, <1>2
  <1>9. r.calls \in Seq(Words)
    BY <1>2, Keywords
  <1>. QED BY <1>7, <1>8, <1>9

\* A reply is one that its command may take.
LEMMA RepliesTaken ==
  ASSUME owner \in [Slots -> Nodes], importing \in [Slots -> Nodes \cup {NoNode}],
         NEW r, Formed(r), NEW i \in 1..Len(r.queue), NEW n, NEW res \in Replies(n, r, i), MayRefuse(r, res)
  PROVE  Takes(r, i, res)
PROOF
  <1>1. PICK c : c = r.queue[i]
    OBVIOUS
  <1>2. /\ r \in PipelineRecord /\ r.calls \in Seq(Commands) /\ r.calls # <<>> /\ c \in Words
    <2>1. r \in PipelineRecord /\ r.queue \in Seq(Words) /\ r.calls \in Seq(Commands)
      BY FormedFields
    <2>. QED BY <1>1, <2>1 DEF Formed
  <1>3. ~AskAtLimit /\ res.kind = "ASK" => CountDown(r.leftRedirections) > 0
    BY DEF MayRefuse
  <1>4. Slot \in [Commands -> Slots]
    BY PipelineAssumption
  <1>5. CASE c \in {"asking", "multi"}
    <2>1. res = Ok(<<c>>) /\ <<c>> \in Seq(Words) /\ Expected(r, i) = <<c>>
      BY <1>1, <1>2, <1>5 DEF Replies, Expected
    <2>. QED BY <1>3, <2>1, ResultTypes DEF Takes
  <1>6. CASE c = "exec"
    <2>1. ExecOf(r, i) = r.calls /\ r.calls \in Seq(Words) /\ Expected(r, i) = r.calls
      BY <1>1, <1>6, ExecOfCalls DEF Expected
    <2>2. PICK asking : asking = AfterAsking(r, i)
      OBVIOUS
    <2>3. res \in {Err("EXECABORT")} \cup KeyReplies(n, Slot[r.calls[1]], asking, Ok(r.calls))
      BY <1>1, <1>6, <2>1, <2>2 DEF Replies
    <2>4. CASE res = Err("EXECABORT")
      BY <1>3, <2>4, ResultTypes DEF Takes, Kinds
    <2>5. CASE res \in KeyReplies(n, Slot[r.calls[1]], asking, Ok(r.calls))
      <3>1. Slot[r.calls[1]] \in Slots
        BY <1>2, <1>4
      <3>2. res \in Result /\ (IsError(res) \/ res.of = r.calls)
        BY <2>1, <2>5, <3>1, KeyRepliesTyped
      <3>. QED BY <1>3, <2>1, <3>2 DEF Takes
    <2>. QED BY <2>3, <2>4, <2>5
  <1>7. CASE c \notin {"asking", "multi", "exec"}
    <2>1. c \in Commands /\ Expected(r, i) = <<c>> /\ <<c>> \in Seq(Words) /\ Slot[c] \in Slots
      BY <1>1, <1>2, <1>4, <1>7 DEF Words, Expected
    <2>2. PICK asking : asking = AfterAsking(r, i)
      OBVIOUS
    <2>3. PICK s, of : s = Slot[c] /\ of = <<c>>
      OBVIOUS
    <2>4. res \in KeyReplies(n, s, asking, Ok(of)) /\ s \in Slots /\ of \in Seq(Words)
      BY <1>1, <1>7, <2>1, <2>2, <2>3 DEF Replies
    <2>5. res \in Result /\ (IsError(res) \/ res.of = of)
      BY <2>4, KeyRepliesTyped
    <2>. QED BY <1>3, <2>1, <2>3, <2>5 DEF Takes
  <1>. QED BY <1>5, <1>6, <1>7

\* An error that is no redirection.
LEMMA ErrorsTaken ==
  ASSUME NEW r, NEW i, NEW kind \in {"CLUSTERDOWN", "ERR", "closed"}
  PROVE  Takes(r, i, Err(kind))
PROOF
  <1>1. kind \in Kinds \ {"MOVED", "ASK"} /\ kind \in Kinds \ {"ok"} /\ kind # "ASK"
    BY DEF Kinds
  <1>2. Err(kind) \in Result /\ Err(kind).kind # "ASK" /\ IsError(Err(kind))
    BY <1>1, ResultTypes
  <1>. QED BY <1>2 DEF Takes

\* The first command of the line of a node.
LEMMA PoppedWire ==
  ASSUME PipeInv, NEW n \in Nodes, wire[n] # <<>>
  PROVE  Popped(n, [wire EXCEPT ![n] = Tail(@)], failed)
PROOF
  <1>1. PICK w : w = [wire EXCEPT ![n] = Tail(@)]
    OBVIOUS
  <1>2. wire \in [Nodes -> Seq(Nat \X Nat)] /\ failed \in Seq(Nat \X Nat)
    BY DEF PipeInv, Whole
  <1>3. w \in [Nodes -> Seq(Nat \X Nat)] /\ w[n] = Tail(wire[n]) /\ \A m \in Nodes \ {n} : w[m] = wire[m]
    <2>1. Tail(wire[n]) \in Seq(Nat \X Nat)
      BY <1>2
    <2>. QED BY <1>1, <1>2, <2>1
  <1>4. Popped(n, w, failed)
    <2>1. Lines(w, failed)[n] = w[n] /\ Lines(wire, failed)[n] = wire[n]
      BY LinesAt
    <2>2. ASSUME NEW y \in Places \ {n} PROVE Lines(w, failed)[y] = Lines(wire, failed)[y]
      <3>1. CASE y = NoNode
        BY <3>1, LinesAt
      <3>2. CASE y # NoNode
        <4>1. y \in Nodes \ {n}
          BY <3>2, LinesAt
        <4>2. Lines(w, failed)[y] = w[y] /\ Lines(wire, failed)[y] = wire[y]
          BY <4>1, LinesAt
        <4>. QED BY <1>3, <4>1, <4>2
      <3>. QED BY <3>1, <3>2
    <2>. QED BY <1>2, <1>3, <2>1, <2>2 DEF Popped
  <1>. QED BY <1>1, <1>4

\* The first of the commands to be rejected.
LEMMA PoppedFailed ==
  ASSUME PipeInv, failed # <<>>
  PROVE  Popped(NoNode, wire, Tail(failed))
PROOF
  <1>1. wire \in [Nodes -> Seq(Nat \X Nat)] /\ failed \in Seq(Nat \X Nat)
    BY DEF PipeInv, Whole
  <1>2. Tail(failed) \in Seq(Nat \X Nat)
    BY <1>1
  <1>. QED BY <1>1, <1>2, LinesAt DEF Popped

\* An element of a line is a pair.
LEMMA HeadIsPair ==
  ASSUME NEW q \in Seq(Nat \X Nat), q # <<>>
  PROVE  Head(q) = <<Head(q)[1], Head(q)[2]>>
PROOF
  <1>1. 1 \in 1..Len(q) /\ Head(q) = q[1]
    OBVIOUS
  <1>2. q[1] = <<q[1][1], q[1][2]>>
    BY <1>1, LineElements
  <1>. QED BY <1>1, <1>2

\* The rest of the state is left alone.
LEMMA AnsweredInv ==
  ASSUME PipeInv, NEW n \in Nodes, Answered(n)
  PROVE  PipeInv'
PROOF
  <1>1. PICK q : q = wire[n]
    OBVIOUS
  <1>2. q \in Seq(Nat \X Nat) /\ q # <<>> /\ n \in Places /\ Lines(wire, failed)[n] = q
    BY <1>1, LinesAt DEF PipeInv, Whole, Answered
  <1>3. PICK p, i : p = Head(q)[1] /\ i = Head(q)[2]
    OBVIOUS
  <1>4. Head(q) = <<p, i>>
    BY <1>2, <1>3, HeadIsPair
  <1>5. PICK res \in Replies(n, pipelines[p], i) :
          /\ MayRefuse(pipelines[p], res)
          /\ FillResult(p, i, res, [wire EXCEPT ![n] = Tail(@)], failed)
    BY <1>1, <1>3 DEF Answered
  <1>6. Formed(pipelines[p]) /\ i \in 1..Len(pipelines[p].queue)
    BY <1>2, <1>4, HeadOfPlace
  <1>7. Shapes /\ Takes(pipelines[p], i, res)
    BY <1>5, <1>6, RepliesTaken DEF PipeInv, Shapes
  <1>8. UNCHANGED <<cluster, groupIds, pool, automatic, called, topology, faults>>
    BY DEF Answered
  <1>9. Shapes' /\ called' = called /\ auto' = auto
    BY <1>7, <1>8 DEF Shapes, automatic, topology
  <1>10. Popped(n, [wire EXCEPT ![n] = Tail(@)], failed)
    BY <1>1, <1>2, PoppedWire
  <1>11. SlotsOK' /\ AutoOK' /\ Whole(pipelines, wire, failed, offline, called, confirmed)'
    BY <1>2, <1>4, <1>5, <1>7, <1>9, <1>10, FillResultInv
  <1>. QED BY <1>9, <1>11 DEF PipeInv

\* A command refused by its node keeps the invariant: its pipeline fills in an error.
LEMMA RefusedInv ==
  ASSUME PipeInv, NEW n \in Nodes, Refused(n)
  PROVE  PipeInv'
PROOF
  <1>1. PICK q : q = wire[n]
    OBVIOUS
  <1>2. q \in Seq(Nat \X Nat) /\ q # <<>> /\ n \in Places /\ Lines(wire, failed)[n] = q
    BY <1>1, LinesAt DEF PipeInv, Whole, Refused
  <1>3. PICK p, i : p = Head(q)[1] /\ i = Head(q)[2]
    OBVIOUS
  <1>4. Head(q) = <<p, i>>
    BY <1>2, <1>3, HeadIsPair
  <1>5. PICK kind \in {"CLUSTERDOWN", "ERR"} : FillResult(p, i, Err(kind), [wire EXCEPT ![n] = Tail(@)], failed)
    BY <1>1, <1>3 DEF Refused
  <1>6. PICK res : res = Err(kind)
    OBVIOUS
  <1>7. Takes(pipelines[p], i, res) /\ FillResult(p, i, res, [wire EXCEPT ![n] = Tail(@)], failed)
    BY <1>5, <1>6, ErrorsTaken
  <1>8. UNCHANGED <<cluster, groupIds, pool, automatic, called, topology>> /\ faults < MaxFaults /\ faults' = faults + 1
    BY DEF Refused, Fault
  <1>9. Shapes' /\ called' = called /\ auto' = auto
    <2>1. faults' \in 0..MaxFaults
      BY <1>8, PipelineAssumption DEF PipeInv, Shapes
    <2>. QED BY <1>8, <2>1 DEF PipeInv, Shapes, automatic, topology
  <1>10. Popped(n, [wire EXCEPT ![n] = Tail(@)], failed)
    BY <1>1, <1>2, PoppedWire
  <1>11. SlotsOK' /\ AutoOK' /\ Whole(pipelines, wire, failed, offline, called, confirmed)'
    BY <1>2, <1>4, <1>7, <1>9, <1>10, FillResultInv
  <1>. QED BY <1>9, <1>11 DEF PipeInv

\* A command lost with its connection keeps the invariant: its pipeline fills in an error.
LEMMA FailsInv ==
  ASSUME PipeInv, Fails
  PROVE  PipeInv'
PROOF
  <1>1. /\ failed \in Seq(Nat \X Nat) /\ failed # <<>> /\ NoNode \in Places
        /\ Lines(wire, failed)[NoNode] = failed
    BY LinesAt DEF PipeInv, Whole, Fails
  <1>2. PICK p, i : p = Head(failed)[1] /\ i = Head(failed)[2]
    OBVIOUS
  <1>3. Head(failed) = <<p, i>>
    BY <1>1, <1>2, HeadIsPair
  <1>4. PICK res : res = Err("closed")
    OBVIOUS
  <1>5. Takes(pipelines[p], i, res) /\ FillResult(p, i, res, wire, Tail(failed))
    BY <1>2, <1>4, ErrorsTaken DEF Fails
  <1>6. UNCHANGED <<cluster, groupIds, pool, automatic, called, topology, faults>>
    BY DEF Fails
  <1>7. Shapes' /\ called' = called /\ auto' = auto
    BY <1>6 DEF PipeInv, Shapes, automatic, topology
  <1>8. Popped(NoNode, wire, Tail(failed))
    BY <1>1, PoppedFailed
  <1>9. SlotsOK' /\ AutoOK' /\ Whole(pipelines, wire, failed, offline, called, confirmed)'
    BY <1>1, <1>3, <1>5, <1>7, <1>8, FillResultInv
  <1>. QED BY <1>7, <1>9 DEF PipeInv

------------------------------------------------------------------------------
(* New pipelines and calls.                                                  *)

\* A new pipeline is well formed.
LEMMA NewFormed ==
  ASSUME NEW key \in Nodes \cup {NoNode}, NEW calls \in Seq(Commands), calls # <<>>, IsInjective(calls),
         NEW transaction \in BOOLEAN, key # NoNode => ~transaction
  PROVE  LET r == New(key, calls, transaction)
         IN  /\ Formed(r) /\ r \in PipelineRecord /\ r.calls = calls /\ r.key = key
             /\ r.replyPending = 0 /\ r.phase = "filling" /\ r.result = <<>>
             /\ ~transaction => r.queue = calls
PROOF
  <1>1. PICK r, q : /\ r = New(key, calls, transaction)
                    /\ q = IF transaction THEN <<"multi">> \o calls \o <<"exec">> ELSE calls
    OBVIOUS
  <1>2. calls \in Seq(Words) /\ Len(calls) \in Nat
    BY Keywords
  <1>3. transaction => /\ q \in Seq(Words) /\ Len(q) = Len(calls) + 2 /\ q[1] = "multi"
                       /\ (\A k \in 1..Len(calls) : q[k + 1] = calls[k]) /\ q[Len(calls) + 2] = "exec"
    <2>1. SUFFICES ASSUME transaction
                   PROVE  /\ q \in Seq(Words) /\ Len(q) = Len(calls) + 2 /\ q[1] = "multi"
                          /\ (\A k \in 1..Len(calls) : q[k + 1] = calls[k]) /\ q[Len(calls) + 2] = "exec"
      OBVIOUS
    <2>2. PICK a, b, c : a = <<"multi">> /\ b = a \o calls /\ c = <<"exec">>
      OBVIOUS
    <2>3. /\ a \in Seq(Words) /\ c \in Seq(Words) /\ Len(a) = 1 /\ Len(c) = 1 /\ a[1] = "multi" /\ c[1] = "exec"
      BY <2>2, Keywords
    <2>4. /\ b \in Seq(Words) /\ Len(b) = Len(a) + Len(calls)
          /\ \A i \in 1..Len(a) : b[i] = a[i]
          /\ \A i \in 1..Len(calls) : b[Len(a) + i] = calls[i]
      BY <1>2, <2>2, <2>3, ConcatAt
    <2>5. q = b \o c
      BY <1>1, <2>1, <2>2
    <2>6. /\ q \in Seq(Words) /\ Len(q) = Len(b) + Len(c)
          /\ \A i \in 1..Len(b) : q[i] = b[i]
          /\ \A i \in 1..Len(c) : q[Len(b) + i] = c[i]
      <3>1. PICK u : u = b \o c
        OBVIOUS
      <3>2. /\ u \in Seq(Words) /\ Len(u) = Len(b) + Len(c)
            /\ \A i \in 1..Len(b) : u[i] = b[i]
            /\ \A i \in 1..Len(c) : u[Len(b) + i] = c[i]
        <4>1. b \in Seq(Words) /\ c \in Seq(Words)
          BY <2>3, <2>4
        <4>. QED BY <3>1, <4>1, ConcatAt
      <3>3. q = u
        BY <2>5, <3>1
      <3>. QED BY <3>2, <3>3
    <2>7. Len(b) = Len(calls) + 1 /\ Len(q) = Len(calls) + 2
      BY <1>2, <2>3, <2>4, <2>6
    <2>8. q[1] = "multi"
      BY <1>2, <2>3, <2>4, <2>6, <2>7
    <2>9. q[Len(calls) + 2] = "exec"
      BY <1>2, <2>3, <2>6, <2>7
    <2>10. ASSUME NEW k \in 1..Len(calls) PROVE q[k + 1] = calls[k]
      <3>1. b[Len(a) + k] = calls[k] /\ Len(a) + k = k + 1 /\ k + 1 \in 1..Len(b)
        BY <1>2, <2>3, <2>4, <2>7
      <3>. QED BY <2>6, <3>1
    <2>. QED BY <2>6, <2>7, <2>8, <2>9, <2>10
  <1>4. q \in Seq(Words)
    BY <1>1, <1>2, <1>3
  <1>5. /\ r.calls = calls /\ r.key = key /\ r.transaction = transaction /\ r.queue = q
        /\ r.result = <<>> /\ r.replyPending = 0 /\ r.phase = "filling"
    BY <1>1 DEF New
  <1>6. r \in PipelineRecord
    BY <1>1, <1>4 DEF New, PipelineRecord, Pausing, NoTtl
  <1>7. Shaped(r)
    <2>1. CASE transaction
      BY <1>3, <1>5, <2>1 DEF Shaped, Multi
    <2>2. CASE ~transaction
      BY <1>1, <1>5, <2>2 DEF Shaped, Plain
    <2>. QED BY <2>1, <2>2
  <1>8. Len(r.result) <= Len(r.queue)
    BY <1>4, <1>5
  <1>9. Formed(r)
    BY <1>5, <1>6, <1>7, <1>8 DEF Formed
  <1>10. ~transaction => r.queue = calls
    BY <1>1, <1>5
  <1>. QED BY <1>1, <1>5, <1>6, <1>9, <1>10

Made == {"made", "answered"}
\* Calls called1 come of calls called0 by making those in N.
Makes(called0, called1, N) ==
  /\ \A c \in N : called0[c] \notin Made /\ called1[c] \in Made
  /\ \A c \in Commands : called0[c] \in Made => called1[c] \in Made
\* Pipeline p has the calls N more in qs than in ps.
Gains(ps, qs, p, N) ==
  /\ \A q \in DOMAIN qs \ {p} : q \in DOMAIN ps /\ qs[q].calls = ps[q].calls
  /\ p \in DOMAIN qs /\ \A c \in ToSet(qs[p].calls) : c \in N \/ (p \in DOMAIN ps /\ c \in ToSet(ps[p].calls))

\* A pipeline gets calls that no pipeline has.
LEMMA CallsGained ==
  ASSUME NEW ps, NEW called0, NEW conf, CallsOK(ps, called0, conf),
         NEW qs, NEW called1, NEW p, NEW N, Makes(called0, called1, N), Gains(ps, qs, p, N),
         \A q \in DOMAIN ps : ToSet(ps[q].calls) \subseteq Commands
  PROVE  CallsOK(qs, called1, conf)
PROOF
  <1> USE DEF Made, Makes, Gains
  <1>1. /\ \A q \in DOMAIN ps : \A c \in ToSet(ps[q].calls) : called0[c] \in Made
        /\ \A q \in DOMAIN ps : \A c \in ToSet(ps[q].calls) : called1[c] \in Made
        /\ \A x, y \in DOMAIN ps : x # y => ToSet(ps[x].calls) \cap ToSet(ps[y].calls) = {}
        /\ conf \subseteq Writes /\ \A c \in conf : called0[c] \in Made
    BY DEF CallsOK
  <1>2. ASSUME NEW q \in DOMAIN qs, NEW c \in ToSet(qs[q].calls) PROVE called1[c] \in Made
    BY <1>1
  <1>3. ASSUME NEW x \in DOMAIN qs \ {p} PROVE ToSet(qs[x].calls) \cap ToSet(qs[p].calls) = {}
    <2>1. ASSUME NEW c \in ToSet(qs[x].calls), c \in ToSet(qs[p].calls) PROVE FALSE
      <3>1. x \in DOMAIN ps /\ c \in ToSet(ps[x].calls) /\ called0[c] \in Made
        BY <1>1, <2>1
      <3>2. c \notin N
        BY <3>1
      <3>3. p \in DOMAIN ps /\ c \in ToSet(ps[p].calls)
        BY <2>1, <3>2
      <3>. QED BY <1>1, <3>1, <3>3
    <2>. QED BY <2>1
  <1>4. ASSUME NEW x \in DOMAIN qs, NEW y \in DOMAIN qs, x # y
        PROVE  ToSet(qs[x].calls) \cap ToSet(qs[y].calls) = {}
    <2>1. CASE x = p
      BY <1>3, <1>4, <2>1
    <2>2. CASE y = p
      BY <1>3, <1>4, <2>2
    <2>3. CASE x # p /\ y # p
      BY <1>1, <1>4, <2>3
    <2>. QED BY <2>1, <2>2, <2>3
  <1>5. \A c \in conf : called1[c] \in Made
    BY <1>1, PipelineAssumption
  <1>. QED BY <1>1, <1>2, <1>4, <1>5 DEF CallsOK

\* qs is ps and p = r at its end.
Appended(qs, ps, p, r, w, f, o, called1, conf) ==
  /\ Apart(p, qs, w, f, o, called1, conf)
  /\ DOMAIN qs = DOMAIN ps \cup {p} /\ p \notin DOMAIN ps /\ p \in Nat /\ qs[p] = r
  /\ \A q \in DOMAIN ps : qs[q] = ps[q]

\* A pipeline is appended.
LEMMA AppendApart ==
  ASSUME NEW ps, NEW w, NEW f, NEW o, NEW called0, NEW conf, Whole(ps, w, f, o, called0, conf),
         NEW r \in PipelineRecord, Formed(r), r.replyPending = 0,
         NEW called1, Makes(called0, called1, ToSet(r.calls)),
         NEW qs, qs = Append(ps, r), NEW p, p = Len(ps) + 1
  PROVE  Appended(qs, ps, p, r, w, f, o, called1, conf)
PROOF
  <1>1. /\ ps \in Seq(PipelineRecord) /\ w \in [Nodes -> Seq(Nat \X Nat)] /\ f \in Seq(Nat \X Nat)
        /\ \A q \in DOMAIN ps : Fine(ps[q], conf)
        /\ CallsOK(ps, called0, conf) /\ PlacesOK(ps, Lines(w, f), o)
    BY DEF Whole
  <1>2. /\ qs \in Seq(PipelineRecord) /\ DOMAIN qs = DOMAIN ps \cup {p} /\ p \notin DOMAIN ps /\ p \in Nat
        /\ qs[p] = r /\ \A q \in DOMAIN ps : qs[q] = ps[q]
    BY <1>1
  <1>3. CallsOK(qs, called1, conf)
    <2>1. Gains(ps, qs, p, ToSet(r.calls))
      BY <1>2 DEF Gains
    <2>2. \A q \in DOMAIN ps : ToSet(ps[q].calls) \subseteq Commands
      <3>1. ASSUME NEW q \in DOMAIN ps PROVE ToSet(ps[q].calls) \subseteq Commands
        <4>1. ps[q].calls \in Seq(Commands)
          <5>1. ps[q] \in PipelineRecord
            BY <1>1
          <5>. QED BY <5>1 DEF PipelineRecord
        <4>. QED BY <4>1 DEF ToSet
      <3>. QED BY <3>1
    <2>. QED BY <1>1, <2>1, <2>2, CallsGained
  <1>4. PICK Q : Q = Lines(w, f)
    OBVIOUS
  <1>5. Unplaced(p, Q, o)
    BY <1>1, <1>2, <1>4, PlacedIsSent
  <1>6. PlacesOK(qs, Q, o)
    <2>1. \A q \in DOMAIN ps : ps[q].phase = "sent" /\ ~Unplaced(q, Q, o) => q \in DOMAIN qs /\ qs[q] = ps[q]
      BY <1>2
    <2>. QED BY <1>1, <1>4, <2>1, PlacesKeep
  <1>7. ToSet(r.calls) \cap conf = {}
    BY <1>1 DEF CallsOK, Makes, Made
  <1>8. \A q \in DOMAIN qs \ {p} : Fine(qs[q], conf)
    BY <1>1, <1>2
  <1>. QED BY <1>1, <1>2, <1>3, <1>4, <1>5, <1>6, <1>7, <1>8 DEF Apart, Aside, Appended

------------------------------------------------------------------------------
(* Calls with automatic pipelining.                                          *)

\* What an action leaves of the shapes when it touches neither nodes nor slots.
LEMMA ShapesKept ==
  ASSUME PipeInv, UNCHANGED <<routing, topology, faults>>,
         called' \in [Commands -> {"no", "waiting", "woken", "refused", "made", "answered"}],
         auto' \in [Nodes -> Nat], running' \subseteq Nodes, immediates' \in Seq(Nodes)
  PROVE  Shapes'
BY DEF PipeInv, Shapes, routing, topology

\* s is r, which is being filled, with call c.
FilledMore(s, r, c, conf) ==
  /\ s \in PipelineRecord /\ Fine(s, conf) /\ s.phase = "filling" /\ s.key = r.key
  /\ \A d : d \in ToSet(s.calls) <=> d = c \/ d \in ToSet(r.calls)

\* The pipeline a call joins has one call more.
LEMMA OneCallMore ==
  ASSUME NEW r \in PipelineRecord, NEW conf, Fine(r, conf), r.phase = "filling",
         NEW c \in Commands, c \notin ToSet(r.calls), c \notin conf
  PROVE  FilledMore([r EXCEPT !.calls = Append(@, c), !.queue = Append(@, c)], r, c, conf)
PROOF
  <1>1. PICK s : s = [r EXCEPT !.calls = Append(@, c), !.queue = Append(@, c)]
    OBVIOUS
  <1>2. Rest(r, conf) /\ Formed(r)
    BY DEF Fine, Rest, Pausing
  <1>3. /\ r.key \in Nodes /\ r.queue = r.calls /\ r.result = <<>> /\ r.replyPending = 0
        /\ ToSet(r.calls) \cap conf = {} /\ ~r.transaction
    <2>1. NoNode \notin Nodes
      BY PipelineAssumption
    <2>. QED BY <1>2, <2>1 DEF Rest, Formed
  <1>4. r.calls \in Seq(Commands) /\ r.queue \in Seq(Words) /\ c \in Words
    BY Keywords DEF PipelineRecord
  <1>5. PICK q : q = Append(r.calls, c)
    OBVIOUS
  <1>6. /\ q \in Seq(Commands) /\ q \in Seq(Words) /\ Len(q) = Len(r.calls) + 1 /\ q[Len(r.calls) + 1] = c
        /\ Len(r.calls) \in Nat /\ \A i \in 1..Len(r.calls) : q[i] = r.calls[i]
    BY <1>3, <1>4, <1>5
  <1>7. /\ s \in PipelineRecord /\ s.calls = q /\ s.queue = q /\ s.key = r.key /\ s.phase = "filling"
        /\ s.result = <<>> /\ s.replyPending = 0 /\ s.transaction = FALSE
    BY <1>1, <1>3, <1>5, <1>6 DEF PipelineRecord
  <1>8. \A d : d \in ToSet(q) <=> d = c \/ d \in ToSet(r.calls)
    <2>1. /\ DOMAIN q = 1..(Len(r.calls) + 1) /\ DOMAIN r.calls = 1..Len(r.calls)
          /\ Len(r.calls) + 1 \in DOMAIN q
      BY <1>4, <1>6
    <2>2. ASSUME NEW d \in ToSet(q) PROVE d = c \/ d \in ToSet(r.calls)
      <3>1. PICK i \in DOMAIN q : q[i] = d
        BY DEF ToSet
      <3>2. i = Len(r.calls) + 1 \/ i \in 1..Len(r.calls)
        BY <1>6, <2>1
      <3>. QED BY <1>6, <2>1, <3>1, <3>2 DEF ToSet
    <2>3. ASSUME NEW d \in ToSet(r.calls) PROVE d \in ToSet(q)
      <3>1. PICK i \in DOMAIN r.calls : r.calls[i] = d
        BY DEF ToSet
      <3>2. i \in DOMAIN q /\ q[i] = d
        BY <1>6, <2>1, <3>1
      <3>. QED BY <3>2 DEF ToSet
    <2>4. c \in ToSet(q)
      BY <1>6, <2>1 DEF ToSet
    <2>. QED BY <2>2, <2>3, <2>4
  <1>9. IsInjective(q)
    <2>1. ASSUME NEW i \in DOMAIN q, NEW j \in DOMAIN q, q[i] = q[j] PROVE i = j
      <3>1. /\ i = Len(r.calls) + 1 \/ i \in DOMAIN r.calls
            /\ j = Len(r.calls) + 1 \/ j \in DOMAIN r.calls
        BY <1>4, <1>6
      <3>2. \A k \in DOMAIN r.calls : q[k] = r.calls[k] /\ q[k] # c
        <4>1. \A k \in DOMAIN r.calls : r.calls[k] \in ToSet(r.calls)
          BY DEF ToSet
        <4>2. DOMAIN r.calls = 1..Len(r.calls)
          BY <1>4
        <4>. QED BY <1>6, <4>1, <4>2
      <3>3. \A k, l \in DOMAIN r.calls : r.calls[k] = r.calls[l] => k = l
        BY <1>2 DEF Formed, IsInjective
      <3>. QED BY <1>6, <2>1, <3>1, <3>2, <3>3
    <2>. QED BY <2>1 DEF IsInjective
  <1>10. Formed(s)
    <2>1. Shaped(s)
      BY <1>7 DEF Shaped, Plain
    <2>2. s.calls # <<>> /\ Len(s.result) <= Len(s.queue)
      BY <1>6, <1>7
    <2>. QED BY <1>7, <1>9, <2>1, <2>2 DEF Formed
  <1>11. ToSet(s.calls) \cap conf = {}
    BY <1>3, <1>7, <1>8
  <1>12. Fine(s, conf)
    BY <1>3, <1>7, <1>10, <1>11 DEF Fine, Rest, Pausing, Over
  <1>. QED BY <1>1, <1>7, <1>8, <1>12 DEF FilledMore

\* A call that joins an automatic pipeline, or opens one, keeps the invariant.
LEMMA JoinInv ==
  ASSUME PipeInv, NEW c \in Commands, called[c] \notin Made, Learned, Join(c),
         UNCHANGED <<routing, topology, confirmed, faults>>
  PROVE  PipeInv'
PROOF
  <1>1. PICK key : key = slots[Slot[c]]
    OBVIOUS
  <1>2. key \in Nodes
    <2>1. Slot[c] \in Slots
      BY PipelineAssumption
    <2>. QED BY <1>1, <2>1 DEF Learned
  <1>3. /\ Whole(pipelines, wire, failed, offline, called, confirmed) /\ SlotsOK /\ AutoOK /\ Shapes
        /\ auto \in [Nodes -> Nat] /\ immediates \in Seq(Nodes) /\ running \subseteq Nodes
        /\ called \in [Commands -> {"no", "waiting", "woken", "refused", "made", "answered"}]
    BY DEF PipeInv, Shapes
  <1>4. /\ called' = [called EXCEPT ![c] = "made"] /\ slots' = slots /\ confirmed' = confirmed
        /\ wire' = wire /\ failed' = failed /\ offline' = offline /\ running' = running
    BY DEF Join, routing, sending
  <1>5. called' \in [Commands -> {"no", "waiting", "woken", "refused", "made", "answered"}]
    BY <1>3, <1>4
  <1>6. Makes(called, called', {c})
    BY <1>3, <1>4 DEF Makes, Made
  <1>7. SlotsOK'
    BY <1>4 DEF SlotsOK, Learned
  <1>8. CASE auto[key] = 0
    <2>1. PICK r, p : r = New(key, <<c>>, FALSE) /\ p = Len(pipelines) + 1
      OBVIOUS
    <2>2. pipelines' = Append(pipelines, r) /\ auto' = [auto EXCEPT ![key] = p] /\ immediates' = Append(immediates, key)
      BY <1>1, <1>8, <2>1 DEF Join
    <2>3. /\ Formed(r) /\ r \in PipelineRecord /\ r.calls = <<c>> /\ r.key = key
          /\ r.replyPending = 0 /\ r.phase = "filling" /\ r.result = <<>> /\ r.queue = <<c>>
      <3>1. <<c>> \in Seq(Commands) /\ <<c>> # <<>> /\ IsInjective(<<c>>)
        BY DEF IsInjective
      <3>. QED BY <1>2, <2>1, <3>1, NewFormed
    <2>4. ToSet(r.calls) = {c}
      BY <2>3 DEF ToSet
    <2>5. /\ Apart(p, pipelines', wire, failed, offline, called', confirmed)
          /\ DOMAIN pipelines' = DOMAIN pipelines \cup {p} /\ p \notin DOMAIN pipelines /\ p \in Nat
          /\ pipelines'[p] = r /\ \A q \in DOMAIN pipelines : pipelines'[q] = pipelines[q]
      <3>1. Makes(called, called', ToSet(r.calls))
        BY <1>6, <2>4
      <3>2. Appended(pipelines', pipelines, p, r, wire, failed, offline, called', confirmed)
        BY <1>3, <2>1, <2>2, <2>3, <3>1, AppendApart
      <3>. QED BY <3>2 DEF Appended
    <2>6. Fine(r, confirmed)
      <3>1. ToSet(r.calls) \cap confirmed = {}
        BY <2>5 DEF Apart
      <3>. QED BY <1>2, <2>3, <3>1 DEF Fine, Rest, Pausing, Over
    <2>7. Whole(pipelines', wire, failed, offline, called', confirmed)
      BY <2>5, <2>6 DEF Apart, Aside, Whole
    <2>8. AutoOK'
      BY <1>2, <1>3, <2>2, <2>3, <2>5 DEF AutoOK
    <2>9. auto' \in [Nodes -> Nat] /\ immediates' \in Seq(Nodes)
      BY <1>2, <1>3, <2>2, <2>5
    <2>10. Shapes'
      BY <1>3, <1>4, <1>5, <2>9, ShapesKept
    <2>. QED BY <1>4, <1>7, <2>7, <2>8, <2>10 DEF PipeInv
  <1>9. CASE auto[key] # 0
    <2>1. PICK p : p = auto[key]
      OBVIOUS
    <2>2. p \in DOMAIN pipelines /\ pipelines[p].phase = "filling" /\ pipelines[p].key = key
      BY <1>2, <1>3, <1>9, <2>1 DEF AutoOK
    <2>3. PICK r, s : r = pipelines[p] /\ s = [r EXCEPT !.calls = Append(@, c), !.queue = Append(@, c)]
      OBVIOUS
    <2>4. /\ pipelines \in Seq(PipelineRecord) /\ Fine(r, confirmed) /\ r \in PipelineRecord
          /\ CallsOK(pipelines, called, confirmed) /\ PlacesOK(pipelines, Lines(wire, failed), offline)
      BY <1>3, <2>2, <2>3 DEF Whole
    <2>5. /\ s \in PipelineRecord /\ Fine(s, confirmed) /\ s.phase = "filling" /\ s.key = r.key
          /\ \A d : d \in ToSet(s.calls) <=> d = c \/ d \in ToSet(r.calls)
      <3>1. c \notin ToSet(r.calls) /\ c \notin confirmed
        BY <2>2, <2>3, <2>4 DEF CallsOK, Made
      <3>2. FilledMore([r EXCEPT !.calls = Append(@, c), !.queue = Append(@, c)], r, c, confirmed)
        BY <2>2, <2>3, <2>4, <3>1, OneCallMore
      <3>. QED BY <2>3, <3>2 DEF FilledMore
    <2>6. pipelines' = [pipelines EXCEPT ![p] = s] /\ auto' = auto /\ immediates' = immediates
      BY <1>1, <1>9, <2>1, <2>2, <2>3, <2>4 DEF Join, PipelineRecord
    <2>7. /\ DOMAIN pipelines' = DOMAIN pipelines /\ pipelines'[p] = s
          /\ \A q \in DOMAIN pipelines \ {p} : pipelines'[q] = pipelines[q]
      BY <2>2, <2>6
    <2>8. pipelines' \in Seq(PipelineRecord)
      <3>1. PICK n : n = Len(pipelines)
        OBVIOUS
      <3>2. n \in Nat /\ pipelines \in [1..n -> PipelineRecord]
        BY <2>4, <3>1
      <3>3. pipelines' \in [1..n -> PipelineRecord]
        BY <2>5, <2>6, <3>2
      <3>. QED BY ONLY <3>2, <3>3
    <2>9. CallsOK(pipelines', called', confirmed)
      <3>1. Gains(pipelines, pipelines', p, {c})
        BY <2>2, <2>3, <2>5, <2>7 DEF Gains
      <3>2. \A q \in DOMAIN pipelines : ToSet(pipelines[q].calls) \subseteq Commands
        <4>1. ASSUME NEW q \in DOMAIN pipelines PROVE ToSet(pipelines[q].calls) \subseteq Commands
          <5>1. pipelines[q] \in PipelineRecord
            BY <2>4
          <5>2. pipelines[q].calls \in Seq(Commands)
            BY <5>1 DEF PipelineRecord
          <5>. QED BY <5>2 DEF ToSet
        <4>. QED BY <4>1
      <3>. QED BY <1>6, <2>4, <3>1, <3>2, CallsGained
    <2>10. PlacesOK(pipelines', Lines(wire, failed), offline)
      <3>1. PICK Q : Q = Lines(wire, failed)
        OBVIOUS
      <3>2. \A q \in DOMAIN pipelines : pipelines[q].phase = "sent" /\ ~Unplaced(q, Q, offline)
                                          => q \in DOMAIN pipelines' /\ pipelines'[q] = pipelines[q]
        BY <2>2, <2>7
      <3>. QED BY <2>4, <3>1, <3>2, PlacesKeep
    <2>11. Whole(pipelines', wire, failed, offline, called', confirmed)
      <3>1. \A q \in DOMAIN pipelines' : Fine(pipelines'[q], confirmed)
        BY <1>3, <2>5, <2>7 DEF Whole
      <3>. QED BY <1>3, <2>8, <2>9, <2>10, <3>1 DEF Whole
    <2>12. AutoOK'
      BY <1>3, <2>2, <2>3, <2>5, <2>6, <2>7 DEF AutoOK
    <2>13. Shapes'
      BY <1>3, <1>4, <1>5, <2>6, ShapesKept
    <2>. QED BY <1>4, <1>7, <2>11, <2>12, <2>13 DEF PipeInv
  <1>. QED BY <1>8, <1>9

\* Calls that have been made stay made.
LEMMA CallsStay ==
  ASSUME NEW ps, NEW w, NEW f, NEW o, NEW called0, NEW conf, Whole(ps, w, f, o, called0, conf),
         NEW called1, \A c \in Commands : called0[c] \in Made => called1[c] \in Made
  PROVE  Whole(ps, w, f, o, called1, conf)
PROOF
  <1>1. ASSUME NEW p \in DOMAIN ps, NEW c \in ToSet(ps[p].calls) PROVE called1[c] \in Made
    <2>1. ps[p] \in PipelineRecord
      BY DEF Whole
    <2>2. ps[p].calls \in Seq(Commands)
      BY <2>1 DEF PipelineRecord
    <2>3. c \in Commands
      BY <2>2 DEF ToSet
    <2>. QED BY <2>3 DEF Whole, CallsOK, Made
  <1>2. \A c \in conf : called1[c] \in Made
    BY PipelineAssumption DEF Whole, CallsOK, Made
  <1>. QED BY <1>1, <1>2 DEF Whole, CallsOK, Made

\* The slots are all known or all unknown.
LEMMA UnknownOrLearned ==
  ASSUME SlotsOK, ~Unknown
  PROVE  Learned
BY DEF SlotsOK, Unknown

\* A call keeps the invariant, whether it joins a pipeline at once or waits for the slots.
LEMMA IssueInv ==
  ASSUME PipeInv, NEW c \in Commands, Issue(c)
  PROVE  PipeInv'
PROOF
  <1>1. called[c] = "no" /\ UNCHANGED <<routing, topology, confirmed, faults>>
    BY DEF Issue
  <1>2. CASE Unknown
    <2>1. called' = [called EXCEPT ![c] = "waiting"] /\ UNCHANGED <<pipelines, sending, automatic>>
      BY <1>2 DEF Issue
    <2>2. Whole(pipelines, wire, failed, offline, called', confirmed)
      <3>1. \A d \in Commands : called[d] \in Made => called'[d] \in Made
        BY <1>1, <2>1 DEF PipeInv, Shapes, Made
      <3>. QED BY <3>1, CallsStay DEF PipeInv
    <2>3. SlotsOK'
      BY <1>1, <2>1 DEF PipeInv, Shapes, SlotsOK, Learned, routing
    <2>4. AutoOK'
      BY <2>1 DEF PipeInv, AutoOK, automatic
    <2>5. Shapes'
      BY <1>1, <2>1 DEF PipeInv, Shapes, automatic, routing, topology
    <2>. QED BY <1>1, <2>1, <2>2, <2>3, <2>4, <2>5 DEF PipeInv, sending
  <1>3. CASE ~Unknown
    <2>1. Join(c)
      BY <1>3 DEF Issue
    <2>2. Learned
      BY <1>3, UnknownOrLearned DEF PipeInv
    <2>3. called[c] \notin Made
      BY <1>1 DEF Made
    <2>. QED BY <1>1, <2>1, <2>2, <2>3, JoinInv
  <1>. QED BY <1>2, <1>3

\* A call that waited for the cluster keeps the invariant when it is taken up or refused.
LEMMA WokenInv ==
  ASSUME PipeInv, NEW c \in Commands, Woken(c)
  PROVE  PipeInv'
PROOF
  <1>1. UNCHANGED <<routing, topology, confirmed, faults>>
    BY DEF Woken
  <1>2. CASE called[c] = "woken" /\ Join(c)
    <2>1. Learned
      BY <1>2 DEF PipeInv, SlotsOK
    <2>2. called[c] \notin Made
      BY <1>2 DEF Made
    <2>. QED BY <1>1, <1>2, <2>1, <2>2, JoinInv
  <1>3. CASE /\ called[c] = "refused" /\ called' = [called EXCEPT ![c] = "answered"]
             /\ UNCHANGED <<pipelines, sending, automatic>>
    <2>1. Whole(pipelines, wire, failed, offline, called', confirmed)
      <3>1. \A d \in Commands : called[d] \in Made => called'[d] \in Made
        BY <1>3 DEF PipeInv, Shapes, Made
      <3>. QED BY <3>1, CallsStay DEF PipeInv
    <2>2. SlotsOK'
      BY <1>1, <1>3 DEF PipeInv, Shapes, SlotsOK, Learned, routing
    <2>3. AutoOK'
      BY <1>3 DEF PipeInv, AutoOK, automatic
    <2>4. Shapes'
      BY <1>1, <1>3 DEF PipeInv, Shapes, automatic, routing, topology
    <2>. QED BY <1>1, <1>3, <2>1, <2>2, <2>3, <2>4 DEF PipeInv, sending
  <1>. QED BY <1>2, <1>3 DEF Woken

\* The setImmediate that executes an automatic pipeline keeps the invariant.
LEMMA ImmediateInv ==
  ASSUME PipeInv, Immediate
  PROVE  PipeInv'
PROOF
  <1>1. /\ UNCHANGED <<routing, called, topology, confirmed, faults>> /\ immediates # <<>>
        /\ immediates' = Tail(immediates) /\ ExecuteAuto(Head(immediates), running, pipelines)
    BY DEF Immediate
  <1>2. /\ pool \subseteq Nodes /\ auto \in [Nodes -> Nat] /\ running \subseteq Nodes /\ immediates \in Seq(Nodes)
        /\ called \in [Commands -> {"no", "waiting", "woken", "refused", "made", "answered"}]
        /\ SlotsOK /\ AutoOK /\ Whole(pipelines, wire, failed, offline, called, confirmed)
    BY DEF PipeInv, Shapes
  <1>3. Head(immediates) \in Nodes /\ immediates' \in Seq(Nodes)
    BY <1>1, <1>2
  <1>4. 0 \notin DOMAIN pipelines
    BY <1>2 DEF Whole
  <1>5. Known(pipelines, called', 0) /\ Filling(pipelines, auto, 0)
    BY <1>1, <1>2, <1>4 DEF Known, Filling, SlotsOK, AutoOK, Learned, routing
  <1>6. Whole(pipelines, wire, failed, offline, called', confirmed')
    BY <1>1, <1>2
  <1>7. /\ SlotsOK' /\ AutoOK' /\ Whole(pipelines, wire, failed, offline, called, confirmed)'
        /\ auto' \in [Nodes -> Nat] /\ running' \subseteq Nodes
    BY <1>1, <1>2, <1>3, <1>5, <1>6, ExecuteAutoInv
  <1>8. Shapes'
    BY <1>1, <1>2, <1>3, <1>7, ShapesKept
  <1>. QED BY <1>7, <1>8 DEF PipeInv

\* Pipeline p, which was settled, is over in qs.
IsOver(qs, p, called1) ==
  /\ Whole(qs, wire, failed, offline, called1, confirmed)
  /\ DOMAIN qs = DOMAIN pipelines /\ qs[p].phase = "answered"
  /\ \A q \in DOMAIN pipelines \ {p} : qs[q] = pipelines[q]

\* The callers of a settled pipeline are answered.
LEMMA AnsweredWhole ==
  ASSUME PipeInv, NEW p \in DOMAIN pipelines, pipelines[p].phase = "resolved",
         NEW called1, \A c \in Commands : called[c] \in Made => called1[c] \in Made,
         NEW qs, qs = [pipelines EXCEPT ![p].phase = "answered"]
  PROVE  IsOver(qs, p, called1)
PROOF
  <1>1. PICK r, s : r = pipelines[p] /\ s = [r EXCEPT !.phase = "answered"]
    OBVIOUS
  <1>2. Whole(pipelines, wire, failed, offline, called, confirmed)
    BY DEF PipeInv
  <1>3. r \in PipelineRecord /\ r.phase = "resolved" /\ Done(r) /\ Formed(r)
    BY <1>1, <1>2 DEF Whole, Fine, Over, Done
  <1>4. /\ s \in PipelineRecord /\ s.calls = r.calls /\ s.key = r.key /\ s.transaction = r.transaction
        /\ s.queue = r.queue /\ s.result = r.result /\ s.replyPending = r.replyPending
        /\ s.answer = r.answer /\ s.phase = "answered"
    BY <1>1, <1>3 DEF PipelineRecord, Over
  <1>5. Formed(s)
    BY <1>3, <1>4, FormedLike DEF Formed
  <1>6. Fine(s, confirmed)
    BY <1>3, <1>4, <1>5 DEF Fine, Done, Own, Pausing, Over
  <1>7. Aside(p, pipelines, wire, failed, offline, called, confirmed)
    <2>1. Unplaced(p, Lines(wire, failed), offline)
      <3>1. PlacesOK(pipelines, Lines(wire, failed), offline)
        BY <1>2 DEF Whole
      <3>. QED BY <3>1, PlacedIsSent
    <2>. QED BY <1>2, <2>1 DEF Aside, Whole
  <1>8. qs = [pipelines EXCEPT ![p] = s]
    BY <1>1
  <1>9. Replaced(qs, pipelines, p, s, wire, failed, offline, called, confirmed)
    <2>1. s.calls = pipelines[p].calls
      BY <1>1, <1>4
    <2>2. PICK ps, w, f, o : ps = pipelines /\ w = wire /\ f = failed /\ o = offline
      OBVIOUS
    <2>3. Aside(p, ps, w, f, o, called, confirmed) /\ qs = [ps EXCEPT ![p] = s] /\ s.calls = ps[p].calls
      BY <1>7, <1>8, <2>1, <2>2
    <2>4. Replaced(qs, ps, p, s, w, f, o, called, confirmed)
      BY <1>4, <1>6, <2>3, Replace
    <2>. QED BY <2>2, <2>4
  <1>10. Whole(qs, wire, failed, offline, called1, confirmed)
    <2>1. Whole(qs, wire, failed, offline, called, confirmed)
      BY <1>9 DEF Replaced
    <2>. QED BY <2>1, CallsStay
  <1>. QED BY <1>4, <1>9, <1>10 DEF Replaced, IsOver

\* The callback of a pipeline keeps the invariant: its calls are over, and the next one is executed.
LEMMA CallbackInv ==
  ASSUME PipeInv, NEW p \in DOMAIN pipelines, Callback(p)
  PROVE  PipeInv'
PROOF
  <1> DEFINE r == pipelines[p]
             n == Len(r.answer)
  <1>1. PICK done : done = [pipelines EXCEPT ![p].phase = "answered"]
    OBVIOUS
  <1>2. /\ r.phase = "resolved" /\ UNCHANGED <<routing, immediates, topology, confirmed, faults>>
        /\ called' = [c \in Commands |->
                        IF \E k \in DOMAIN r.calls : r.calls[k] = c /\ (k <= n \/ r.key = NoNode)
                        THEN "answered" ELSE called[c]]
        /\ IF n < Len(r.calls) /\ r.key # NoNode
           THEN /\ running' = running \ {r.key} /\ pipelines' = done
                /\ UNCHANGED <<auto, sending>>
           ELSE CallbackNext(p, done)
    BY <1>1 DEF Callback
  <1>3. /\ pool \subseteq Nodes /\ auto \in [Nodes -> Nat] /\ running \subseteq Nodes /\ immediates \in Seq(Nodes)
        /\ called \in [Commands -> {"no", "waiting", "woken", "refused", "made", "answered"}]
        /\ SlotsOK /\ AutoOK
    BY DEF PipeInv, Shapes
  <1>4. /\ called' \in [Commands -> {"no", "waiting", "woken", "refused", "made", "answered"}]
        /\ \A c \in Commands : called[c] \in Made => called'[c] \in Made
        /\ \A c \in Commands : called'[c] = "woken" => called[c] = "woken"
    <2> HIDE DEF r, n
    <2>. QED BY <1>2, <1>3 DEF Made
  <1>5. /\ Whole(done, wire, failed, offline, called', confirmed)
        /\ DOMAIN done = DOMAIN pipelines /\ done[p].phase = "answered"
        /\ \A q \in DOMAIN pipelines \ {p} : done[q] = pipelines[q]
    <2>1. IsOver(done, p, called')
      BY <1>1, <1>2, <1>4, AnsweredWhole
    <2>. QED BY <2>1 DEF IsOver
  <1>6. 0 \notin DOMAIN done
    BY <1>5 DEF Whole
  <1>7. slots' = slots /\ confirmed' = confirmed /\ immediates' = immediates
    BY <1>2 DEF routing
  <1>8. \A q \in DOMAIN done : done[q].phase \in {"filling", "sent", "delayed"} => done[q] = pipelines[q]
    BY <1>5
  <1>9. Known(done, called', 0)
    <2>1. Learned' <=> Learned
      BY <1>7 DEF Learned
    <2>2. Learned' \/ slots' = [s \in Slots |-> NoNode]
      BY <1>3, <1>7, <2>1 DEF SlotsOK
    <2>3. ~Learned' => \A c \in Commands : called'[c] # "woken"
      BY <1>3, <1>4, <2>1 DEF SlotsOK
    <2>4. ~Learned' => \A q \in DOMAIN done : done[q].phase \notin {"filling", "sent", "delayed"}
      BY <1>3, <1>5, <1>8, <2>1 DEF SlotsOK
    <2>. QED BY <2>2, <2>3, <2>4 DEF Known
  <1>10. Filling(done, auto, 0)
    <2>1. \A m \in Nodes : auto[m] # 0 =>
            /\ auto[m] \in DOMAIN pipelines
            /\ pipelines[auto[m]].phase = "filling" /\ pipelines[auto[m]].key = m
      BY <1>3 DEF AutoOK
    <2>2. \A m \in Nodes : auto[m] # 0 => auto[m] \in DOMAIN pipelines \ {p}
      BY <1>2, <2>1
    <2>. QED BY <1>5, <1>6, <2>1, <2>2 DEF Filling
  <1>11. CASE pipelines' = done /\ running' \subseteq Nodes /\ UNCHANGED <<auto, sending>>
    <2>1. Whole(pipelines, wire, failed, offline, called, confirmed)'
      BY <1>5, <1>7, <1>11 DEF sending
    <2>2. AutoOK'
      BY <1>10, <1>11 DEF AutoOK, Filling
    <2>3. SlotsOK'
      BY <1>6, <1>9, <1>11 DEF SlotsOK, Known
    <2>4. Shapes'
      BY <1>2, <1>3, <1>4, <1>7, <1>11, ShapesKept
    <2>. QED BY <2>1, <2>2, <2>3, <2>4 DEF PipeInv
  <1>12. CASE r.key # NoNode /\ ExecuteAuto(r.key, running \ {r.key}, done)
    <2>1. PICK key, runs : key = r.key /\ runs = running \ {r.key}
      OBVIOUS
    <2>2. key \in Nodes /\ runs \subseteq Nodes
      <3>1. r \in PipelineRecord
        BY DEF PipeInv, Whole
      <3>. QED BY <1>3, <1>12, <2>1, <3>1 DEF PipelineRecord
    <2>3. Whole(done, wire, failed, offline, called', confirmed') /\ ExecuteAuto(key, runs, done)
      BY <1>5, <1>7, <1>12, <2>1
    <2>4. /\ SlotsOK' /\ AutoOK' /\ Whole(pipelines, wire, failed, offline, called, confirmed)'
          /\ auto' \in [Nodes -> Nat] /\ running' \subseteq Nodes
      BY <1>3, <1>9, <1>10, <2>2, <2>3, ExecuteAutoInv
    <2>5. Shapes'
      BY <1>2, <1>3, <1>4, <1>7, <2>4, ShapesKept
    <2>. QED BY <2>4, <2>5 DEF PipeInv
  <1>. QED
    <2>1. running \ {r.key} \subseteq Nodes
      BY <1>3
    <2>2. CASE n < Len(r.calls) /\ r.key # NoNode
      BY <1>2, <1>11, <2>1, <2>2
    <2>3. CASE ~(n < Len(r.calls) /\ r.key # NoNode)
      BY <1>2, <1>3, <1>11, <1>12, <2>3 DEF CallbackNext
    <2>. QED BY <2>2, <2>3

------------------------------------------------------------------------------
(* Explicit pipelines and transactions.                                      *)

\* multi() or pipeline(), and exec().
LEMMA SendInv ==
  ASSUME PipeInv, NEW calls \in Seq(Commands), calls # <<>>, IsInjective(calls), NEW transaction \in BOOLEAN,
         Send(calls, transaction)
  PROVE  PipeInv'
PROOF
  <1>1. PICK r, p, qs : /\ r = New(NoNode, calls, transaction) /\ p = Len(pipelines) + 1
                        /\ qs = Append(pipelines, r)
    OBVIOUS
  <1>2. /\ \A k \in DOMAIN calls : called[calls[k]] = "no"
        /\ called' = [c \in Commands |-> IF \E k \in DOMAIN calls : calls[k] = c THEN "made" ELSE called[c]]
        /\ UNCHANGED <<routing, automatic, topology, confirmed, faults>>
        /\ Exec(qs, p, wire, failed)
    BY <1>1 DEF Send
  <1>3. /\ Formed(r) /\ r \in PipelineRecord /\ r.calls = calls /\ r.replyPending = 0
    BY <1>1, NewFormed
  <1>4. /\ pool \subseteq Nodes /\ auto \in [Nodes -> Nat] /\ running \subseteq Nodes /\ immediates \in Seq(Nodes)
        /\ called \in [Commands -> {"no", "waiting", "woken", "refused", "made", "answered"}]
        /\ SlotsOK /\ AutoOK /\ Whole(pipelines, wire, failed, offline, called, confirmed)
    BY DEF PipeInv, Shapes
  <1>5. Makes(called, called', ToSet(calls))
    <2>1. \A c \in ToSet(calls) : c \in Commands /\ \E k \in DOMAIN calls : calls[k] = c
      BY DEF ToSet
    <2>2. ASSUME NEW c \in ToSet(calls) PROVE called[c] \notin Made /\ called'[c] \in Made
      BY <1>2, <2>1 DEF Made
    <2>3. \A c \in Commands : called[c] \in Made => called'[c] \in Made
      BY <1>2 DEF Made
    <2>. QED BY <2>2, <2>3 DEF Makes
  <1>6. called' \in [Commands -> {"no", "waiting", "woken", "refused", "made", "answered"}]
    BY <1>2, <1>4
  <1>7. \A c \in Commands : called'[c] = "woken" => called[c] = "woken"
    BY <1>2
  <1>8. /\ Apart(p, qs, wire, failed, offline, called', confirmed)
        /\ DOMAIN qs = DOMAIN pipelines \cup {p} /\ p \notin DOMAIN pipelines
        /\ \A q \in DOMAIN pipelines : qs[q] = pipelines[q]
    <2>1. Appended(qs, pipelines, p, r, wire, failed, offline, called', confirmed)
      BY <1>1, <1>3, <1>4, <1>5, AppendApart
    <2>. QED BY <2>1 DEF Appended
  <1>9. slots' = slots /\ confirmed' = confirmed /\ auto' = auto /\ running' = running /\ immediates' = immediates
    BY <1>2 DEF routing, automatic
  <1>10. Executed(qs, p, called', confirmed')
    BY <1>2, <1>4, <1>8, <1>9, ExecWhole
  <1>11. Known(qs, called', p)
    <2>1. (Learned' <=> Learned) /\ DOMAIN qs \ {p} = DOMAIN pipelines
      BY <1>8, <1>9 DEF Learned
    <2>. QED BY <1>4, <1>7, <1>8, <1>9, <2>1 DEF SlotsOK, Known
  <1>12. Filling(qs, auto', p)
    <2>1. DOMAIN qs \ {p} = DOMAIN pipelines
      BY <1>8
    <2>. QED BY <1>4, <1>8, <1>9, <2>1 DEF AutoOK, Filling
  <1>13. SlotsOK' /\ AutoOK' /\ Whole(pipelines, wire, failed, offline, called, confirmed)'
    BY <1>8, <1>10, <1>11, <1>12, ExecutedInv
  <1>14. Shapes'
    BY <1>2, <1>4, <1>6, <1>9, ShapesKept
  <1>. QED BY <1>13, <1>14 DEF PipeInv

\* exec() of a pipeline that was put off.
LEMMA ExecInv ==
  ASSUME PipeInv, NEW p \in DOMAIN pipelines, pipelines[p].phase \in Pausing \ {"filling"},
         UNCHANGED <<routing, automatic, called, topology, confirmed, faults>>, Exec(pipelines, p, wire, failed)
  PROVE  PipeInv'
PROOF
  <1>1. /\ pool \subseteq Nodes /\ auto \in [Nodes -> Nat] /\ running \subseteq Nodes /\ immediates \in Seq(Nodes)
        /\ called \in [Commands -> {"no", "waiting", "woken", "refused", "made", "answered"}]
        /\ SlotsOK /\ AutoOK /\ Whole(pipelines, wire, failed, offline, called, confirmed)
    BY DEF PipeInv, Shapes
  <1>2. /\ slots' = slots /\ confirmed' = confirmed /\ called' = called
        /\ auto' = auto /\ running' = running /\ immediates' = immediates
    BY DEF routing, automatic
  <1>3. Apart(p, pipelines, wire, failed, offline, called', confirmed')
    <2>1. Apart(p, pipelines, wire, failed, offline, called, confirmed)
      BY <1>1, PausedIsApart
    <2>. QED BY <1>2, <2>1
  <1>4. Executed(pipelines, p, called', confirmed')
    BY <1>1, <1>3, ExecWhole
  <1>5. Known(pipelines, called', p)
    BY <1>1, <1>2 DEF Known, SlotsOK, Learned
  <1>6. Filling(pipelines, auto', p)
    <2>1. \A n \in Nodes : auto[n] # 0 =>
            /\ auto[n] \in DOMAIN pipelines
            /\ pipelines[auto[n]].phase = "filling" /\ pipelines[auto[n]].key = n
      BY <1>1 DEF AutoOK
    <2>2. \A n \in Nodes : auto[n] # 0 => auto[n] \in DOMAIN pipelines \ {p}
      BY <2>1
    <2>. QED BY <1>2, <2>1, <2>2 DEF Filling
  <1>7. SlotsOK' /\ AutoOK' /\ Whole(pipelines, wire, failed, offline, called, confirmed)'
    BY <1>4, <1>5, <1>6, ExecutedInv
  <1>8. Shapes'
    BY <1>1, <1>2, ShapesKept
  <1>. QED BY <1>7, <1>8 DEF PipeInv

\* A pipeline that waited for the cluster keeps the invariant when it is executed or rejected.
LEMMA ResumedInv ==
  ASSUME PipeInv, NEW p \in DOMAIN pipelines, Resumed(p)
  PROVE  PipeInv'
PROOF
  <1>1. UNCHANGED <<routing, automatic, called, topology, confirmed, faults>>
    BY DEF Resumed
  <1>2. CASE pipelines[p].phase = "woken" /\ Exec(pipelines, p, wire, failed)
    BY <1>1, <1>2, ExecInv DEF Pausing
  <1>3. CASE /\ pipelines[p].phase = "refused"
             /\ pipelines' = [pipelines EXCEPT ![p] = Rejected(pipelines[p])]
             /\ UNCHANGED sending
    <2>1. PICK s : s = Rejected(pipelines[p])
      OBVIOUS
    <2>2. Apart(p, pipelines, wire, failed, offline, called, confirmed)
      BY <1>3, PausedIsApart DEF PipeInv, Pausing
    <2>3. /\ Done(s) /\ s.phase = "resolved" /\ s.calls = pipelines[p].calls /\ s.key = pipelines[p].key
          /\ s \in PipelineRecord
      BY <2>1, <2>2, RejectedDone DEF Apart
    <2>4. Fine(s, confirmed)
      BY <2>3 DEF Fine, Pausing, Over
    <2>5. Replaced(pipelines', pipelines, p, s, wire, failed, offline, called, confirmed)
      <3>1. pipelines' = [pipelines EXCEPT ![p] = s]
        BY <1>3, <2>1
      <3>. QED BY <2>2, <2>3, <2>4, <3>1, Replace DEF Apart
    <2>6. Whole(pipelines, wire, failed, offline, called, confirmed)'
      BY <1>1, <1>3, <2>5 DEF Replaced, sending
    <2>7. SlotsOK'
      BY <1>1, <2>3, <2>5 DEF PipeInv, SlotsOK, Learned, Replaced, routing
    <2>8. AutoOK'
      <3>1. \A n \in Nodes : auto[n] # 0 => auto[n] \in DOMAIN pipelines \ {p}
        BY <1>3 DEF PipeInv, AutoOK
      <3>. QED BY <1>1, <2>5, <3>1 DEF PipeInv, AutoOK, Replaced, automatic
    <2>9. Shapes'
      BY <1>1 DEF PipeInv, Shapes, automatic, routing, topology
    <2>. QED BY <2>6, <2>7, <2>8, <2>9 DEF PipeInv
  <1>. QED BY <1>2, <1>3 DEF Resumed

\* The timer of a TRYAGAIN or a CLUSTERDOWN keeps the invariant: the pipeline is executed again.
LEMMA DelayTimerInv ==
  ASSUME PipeInv, NEW p \in DOMAIN pipelines, DelayTimer(p)
  PROVE  PipeInv'
BY ExecInv DEF DelayTimer, Pausing

------------------------------------------------------------------------------
(* The connections and the cluster.                                          *)

\* A step that leaves the pipelines alone and moves their commands.
LEMMA Moved ==
  ASSUME PipeInv, Shapes', slots' = slots, UNCHANGED <<pipelines, auto, called, confirmed>>,
         wire' \in [Nodes -> Seq(Nat \X Nat)], failed' \in Seq(Nat \X Nat),
         PlacesOK(pipelines, Lines(wire', failed'), offline')
  PROVE  PipeInv'
BY DEF PipeInv, SlotsOK, Learned, AutoOK, Whole

\* Which instance a pipeline prefers has nothing to do with where its commands are.
LEMMA MarkedPlaces ==
  ASSUME NEW ps, NEW R, NEW o, PlacesOK(ps, R, o), NEW n \in Nodes,
         NEW u, u = [i \in DOMAIN o |-> <<o[i][1], IF o[i][2] = n THEN Ended ELSE o[i][2]>>]
  PROVE  PlacesOK(ps, R, u)
PROOF
  <1>1. o \in Seq(Nat \X Preferred) /\ Len(o) \in Nat /\ DOMAIN o = 1..Len(o)
    BY DEF PlacesOK
  <1>2. DOMAIN u = DOMAIN o /\ \A i \in DOMAIN o : u[i][1] = o[i][1]
    OBVIOUS
  <1>3. \A i \in DOMAIN o : o[i] \in Nat \X Preferred
    BY <1>1
  <1>4. \A i \in DOMAIN o : u[i] \in Nat \X Preferred
    BY <1>3 DEF Preferred
  <1>5. u \in Seq(Nat \X Preferred)
    BY <1>1, <1>2, <1>4
  <1>6. Offline(u) = Offline(o)
    BY <1>2 DEF Offline
  <1>. QED BY <1>2, <1>5, <1>6 DEF PlacesOK

\* The loss of a node keeps the invariant: its commands move to the failed ones.
LEMMA NodeLostInv ==
  ASSUME PipeInv, NEW n \in Nodes, NodeLost(n)
  PROVE  PipeInv'
PROOF
  <1>1. /\ failed = <<>> /\ pool' = pool \ {n} /\ cluster' = IF pool = {n} THEN "reconnecting" ELSE cluster
        /\ failed' = wire[n] /\ wire' = [wire EXCEPT ![n] = <<>>]
        /\ UNCHANGED <<slots, groupIds, pipelines, automatic, called, topology, confirmed>>
        /\ faults < MaxFaults /\ faults' = faults + 1
    BY DEF NodeLost, Idle, Fault
  <1>2. wire \in [Nodes -> Seq(Nat \X Nat)] /\ PlacesOK(pipelines, Lines(wire, failed), offline)
    BY DEF PipeInv, Whole
  <1>3. wire' \in [Nodes -> Seq(Nat \X Nat)] /\ failed' \in Seq(Nat \X Nat)
        /\ wire'[n] = <<>> /\ \A m \in Nodes \ {n} : wire'[m] = wire[m]
    BY <1>1, <1>2
  <1>4. PICK Q, R : Q = Lines(wire, failed) /\ R = Lines(wire', failed')
    OBVIOUS
  <1>5. n \in Places /\ NoNode \in Places /\ n # NoNode
    BY LinesAt
  <1>6. Q[NoNode] = <<>> /\ R[NoNode] = Q[n] /\ R[n] = <<>>
    <2>1. Q[NoNode] = failed /\ R[NoNode] = failed'
      BY <1>4, LinesAt
    <2>2. Q[n] = wire[n] /\ R[n] = wire'[n]
      BY <1>4, LinesAt
    <2>. QED BY <1>1, <1>3, <2>1, <2>2
  <1>7. \A y \in Places \ {n, NoNode} : R[y] = Q[y]
    <2>1. ASSUME NEW y \in Places \ {n, NoNode} PROVE R[y] = Q[y]
      <3>1. y \in Nodes \ {n}
        BY LinesAt
      <3>2. R[y] = wire'[y] /\ Q[y] = wire[y]
        BY <1>4, <3>1, LinesAt
      <3>. QED BY <1>3, <3>1, <3>2
    <2>. QED BY <2>1
  <1>8. PlacesOK(pipelines, R, offline)
    BY <1>2, <1>4, <1>5, <1>6, <1>7, PlacesMove
  <1>9. faults' \in 0..MaxFaults
    BY <1>1, PipelineAssumption DEF PipeInv, Shapes
  <1>10. Shapes'
    BY <1>1, <1>9 DEF PipeInv, Shapes, automatic, topology
  <1>11. slots' = slots /\ UNCHANGED <<pipelines, auto, called, confirmed>>
    BY <1>1 DEF automatic
  <1>12. PlacesOK(pipelines, R, offline')
    <2>1. offline' = [i \in DOMAIN offline |->
                        <<offline[i][1], IF offline[i][2] = n THEN Ended ELSE offline[i][2]>>]
      BY DEF NodeLost
    <2>. QED BY <1>8, <2>1, MarkedPlaces
  <1>. QED BY <1>3, <1>4, <1>10, <1>11, <1>12, Moved

\* A refresh of the slots keeps the invariant.
LEMMA RefreshInv ==
  ASSUME PipeInv, Refresh
  PROVE  PipeInv'
PROOF
  <1>1. /\ slots' = owner /\ groupIds' = {owner[s] : s \in Slots} /\ pool' = Nodes
        /\ UNCHANGED <<cluster, sending, pipelines, automatic, called, topology, confirmed, faults>>
    BY DEF Refresh, Learn
  <1>2. owner \in [Slots -> Nodes]
    BY DEF PipeInv, Shapes
  <1>3. SlotsOK'
    BY <1>1, <1>2 DEF SlotsOK, Learned
  <1>4. Shapes'
    BY <1>1, <1>2 DEF PipeInv, Shapes, automatic, topology
  <1>5. AutoOK'
    BY <1>1 DEF PipeInv, AutoOK, automatic
  <1>. QED BY <1>1, <1>3, <1>4, <1>5 DEF PipeInv, sending

\* A slot that moves in the cluster keeps the invariant: the client does not know of it.
LEMMA ClusterChangesInv ==
  ASSUME PipeInv, NEW s \in Slots, ClusterChanges(s)
  PROVE  PipeInv'
PROOF
  <1>1. /\ faults < MaxFaults /\ faults' = faults + 1
        /\ UNCHANGED <<routing, sending, pipelines, automatic, called, confirmed>>
    BY DEF ClusterChanges, Fault
  <1>2. faults' \in 0..MaxFaults
    BY <1>1, PipelineAssumption DEF PipeInv, Shapes
  <1>3. owner' \in [Slots -> Nodes] /\ importing' \in [Slots -> Nodes \cup {NoNode}]
    BY DEF PipeInv, Shapes, ClusterChanges
  <1>4. Shapes'
    BY <1>1, <1>2, <1>3 DEF PipeInv, Shapes, automatic, routing
  <1>5. SlotsOK' /\ AutoOK'
    BY <1>1 DEF PipeInv, SlotsOK, Learned, AutoOK, automatic, routing
  <1>. QED BY <1>1, <1>4, <1>5 DEF PipeInv, sending

\* The commands of the offline pipelines at the positions W, one pipeline after the other.
Chosen(ps, o, W) == [i \in DOMAIN o |-> IF i \in W THEN Sends(o[i][1], ps[o[i][1]]) ELSE <<>>]

\* What is sent of the offline queue to one place is in order.
LEMMA ChosenPlaced ==
  ASSUME NEW ps, NEW Q, NEW o, PlacesOK(ps, Q, o), \A p \in Offline(o) : Formed(ps[p]),
         NEW W, W \subseteq DOMAIN o
  PROVE  /\ Placed(ps, FlattenSeq(Chosen(ps, o, W)))
         /\ \A p : p \in Holds(FlattenSeq(Chosen(ps, o, W))) <=> \E i \in W : p = o[i][1]
PROOF
  <1>1. /\ o \in Seq(Nat \X Preferred) /\ \A i, j \in DOMAIN o : o[i][1] = o[j][1] => i = j
        /\ \A i \in DOMAIN o : o[i][1] \in DOMAIN ps /\ ps[o[i][1]].phase = "sent"
                               /\ ps[o[i][1]].replyPending = Len(ps[o[i][1]].queue)
    BY DEF PlacesOK
  <1>2. PICK ss : ss = Chosen(ps, o, W)
    OBVIOUS
  <1>3. DOMAIN ss = DOMAIN o /\ DOMAIN o = 1..Len(o) /\ Len(o) \in Nat
    BY <1>1, <1>2 DEF Chosen
  <1>4. ASSUME NEW i \in W
        PROVE  ss[i] \in Seq(Nat \X Nat) /\ Placed(ps, ss[i]) /\ Holds(ss[i]) = {o[i][1]}
    <2>1. PICK p : p = o[i][1]
      OBVIOUS
    <2>2. p \in Nat /\ p \in DOMAIN ps /\ ps[p].phase = "sent" /\ ps[p].replyPending = Len(ps[p].queue)
      BY <1>1, <1>3, <2>1
    <2>3. Formed(ps[p])
      BY <2>1 DEF Offline
    <2>4. ss[i] = Sends(p, ps[p])
      BY <1>2, <2>1 DEF Chosen
    <2>5. Placed(ps, Sends(p, ps[p])) /\ Holds(Sends(p, ps[p])) = {p}
      BY <2>2, <2>3, PlacedSends
    <2>. QED BY <2>1, <2>4, <2>5 DEF Placed
  <1>5. ASSUME NEW i \in DOMAIN o \ W
        PROVE  ss[i] \in Seq(Nat \X Nat) /\ Placed(ps, ss[i]) /\ Holds(ss[i]) = {}
    <2>1. ss[i] = <<>>
      BY <1>2 DEF Chosen
    <2>2. Placed(ps, <<>>) /\ Holds(<<>>) = {}
      BY PlacedNothing
    <2>. QED BY <2>1, <2>2
  <1>6. \A i \in 1..Len(o) : ss[i] \in Seq(Nat \X Nat) /\ Placed(ps, ss[i])
    BY <1>3, <1>4, <1>5
  <1>7. ss \in Seq(Seq(Nat \X Nat)) /\ Len(ss) = Len(o)
    <2>1. PICK n : n = Len(o)
      OBVIOUS
    <2>2. n \in Nat /\ ss \in [1..n -> Seq(Nat \X Nat)]
      BY <1>2, <1>3, <1>6, <2>1 DEF Chosen
    <2>3. ss \in Seq(Seq(Nat \X Nat))
      BY ONLY <2>2
    <2>4. Len(ss) \in Nat /\ DOMAIN ss = 1..Len(ss)
      BY <2>3
    <2>. QED BY <1>3, <2>3, <2>4
  <1>8. ASSUME NEW i \in 1..Len(ss), NEW j \in 1..Len(ss), i # j PROVE Holds(ss[i]) \cap Holds(ss[j]) = {}
    <2>1. i \in DOMAIN o /\ j \in DOMAIN o /\ o[i][1] # o[j][1]
      BY <1>1, <1>3, <1>7, <1>8
    <2>2. CASE i \in W /\ j \in W
      BY <1>4, <2>1, <2>2
    <2>3. CASE i \notin W \/ j \notin W
      BY <1>5, <2>1, <2>3
    <2>. QED BY <2>2, <2>3
  <1>9. PICK u : u = FlattenSeq(ss)
    OBVIOUS
  <1>10. Placed(ps, FlattenSeq(ss)) /\ \A p : p \in Holds(FlattenSeq(ss)) <=> \E i \in 1..Len(ss) : p \in Holds(ss[i])
    BY <1>6, <1>7, <1>8, PlacedFlatten
  <1>11. Placed(ps, u) /\ \A p : p \in Holds(u) <=> \E i \in 1..Len(ss) : p \in Holds(ss[i])
    BY <1>9, <1>10
  <1>12. \A p : p \in Holds(u) <=> \E i \in W : p = o[i][1]
    <2>1. ASSUME NEW p, NEW i \in 1..Len(ss), p \in Holds(ss[i]) PROVE i \in W /\ p = o[i][1]
      BY <1>3, <1>4, <1>5, <1>7, <2>1
    <2>2. ASSUME NEW i \in W PROVE i \in 1..Len(ss) /\ o[i][1] \in Holds(ss[i])
      BY <1>3, <1>4, <1>7
    <2>3. ASSUME NEW p \in Holds(u) PROVE \E i \in W : p = o[i][1]
      <3>1. PICK i \in 1..Len(ss) : p \in Holds(ss[i])
        BY <1>11
      <3>. QED BY <2>1, <3>1
    <2>4. ASSUME NEW i \in W PROVE o[i][1] \in Holds(u)
      BY <1>11, <2>2
    <2>. QED BY <2>3, <2>4
  <1>. QED BY <1>2, <1>9, <1>11, <1>12

\* Each place x gets the part W[x] of the offline queue.
Dispatches(ps, Q, R, o, W) ==
  /\ \A x \in Places : W[x] \subseteq DOMAIN o
  /\ \A x, y \in Places : x # y => W[x] \cap W[y] = {}
  /\ \A x \in Places : R[x] = Q[x] \o FlattenSeq(Chosen(ps, o, W[x]))

\* The offline queue is sent.
LEMMA Dispatched ==
  ASSUME NEW ps, NEW Q, NEW o, PlacesOK(ps, Q, o), \A p \in Offline(o) : Formed(ps[p]),
         NEW W, NEW R, Dispatches(ps, Q, R, o, W)
  PROVE  PlacesOK(ps, R, <<>>)
PROOF
  <1> USE DEF Dispatches
  <1>1. /\ \A x \in Places : Placed(ps, Q[x])
        /\ \A x, y \in Places : x # y => Holds(Q[x]) \cap Holds(Q[y]) = {}
        /\ \A x \in Places : Holds(Q[x]) \cap Offline(o) = {}
        /\ \A i, j \in DOMAIN o : o[i][1] = o[j][1] => i = j
    BY DEF PlacesOK
  <1>2. ASSUME NEW x \in Places
        PROVE  /\ Placed(ps, R[x])
               /\ \A p : p \in Holds(R[x]) <=> p \in Holds(Q[x]) \/ \E i \in W[x] : p = o[i][1]
    <2>1. PICK a, b, u : a = Q[x] /\ b = FlattenSeq(Chosen(ps, o, W[x])) /\ u = R[x]
      OBVIOUS
    <2>2. PICK X : X = W[x]
      OBVIOUS
    <2>3. X \subseteq DOMAIN o
      BY <2>2
    <2>4. /\ Placed(ps, FlattenSeq(Chosen(ps, o, X)))
          /\ \A p : p \in Holds(FlattenSeq(Chosen(ps, o, X))) <=> \E i \in X : p = o[i][1]
      BY <2>3, ChosenPlaced
    <2>5. Placed(ps, b) /\ \A p : p \in Holds(b) <=> \E i \in X : p = o[i][1]
      BY <2>1, <2>2, <2>4
    <2>6. Holds(a) \cap Holds(b) = {}
      BY <1>1, <2>1, <2>3, <2>5 DEF Offline
    <2>7. u = a \o b /\ Placed(ps, a)
      BY <1>1, <2>1
    <2>8. Placed(ps, u) /\ \A p : p \in Holds(u) <=> p \in Holds(a) \/ p \in Holds(b)
      BY <2>5, <2>6, <2>7, PlacedConcat, Zenon
    <2>. QED BY <2>1, <2>2, <2>5, <2>8
  <1>3. ASSUME NEW x \in Places, NEW y \in Places, x # y PROVE Holds(R[x]) \cap Holds(R[y]) = {}
    <2>1. ASSUME NEW p, p \in Holds(R[x]), p \in Holds(R[y]) PROVE FALSE
      <3>1. CASE p \in Holds(Q[x])
        <4>1. p \notin Holds(Q[y]) /\ p \notin Offline(o)
          BY <1>1, <1>3, <3>1
        <4>2. PICK j \in W[y] : p = o[j][1]
          BY <1>2, <2>1, <4>1
        <4>. QED BY <4>1, <4>2 DEF Offline
      <3>2. CASE p \notin Holds(Q[x])
        <4>1. PICK i \in W[x] : p = o[i][1]
          BY <1>2, <2>1, <3>2
        <4>2. i \in DOMAIN o /\ p \in Offline(o)
          BY <4>1 DEF Offline
        <4>3. p \notin Holds(Q[y])
          BY <1>1, <4>2
        <4>4. PICK j \in W[y] : p = o[j][1]
          BY <1>2, <2>1, <4>3
        <4>5. j \in DOMAIN o
          OBVIOUS
        <4>6. i = j
          BY <1>1, <4>1, <4>2, <4>4, <4>5
        <4>7. W[x] \cap W[y] = {}
          BY <1>3
        <4>. QED BY <4>6, <4>7
      <3>. QED BY <3>1, <3>2
    <2>. QED BY <2>1
  <1>4. Offline(<<>>) = {} /\ <<>> \in Seq(Nat \X Preferred) /\ DOMAIN <<>> = {}
    BY DEF Offline
  <1>. QED BY <1>2, <1>3, <1>4 DEF PlacesOK

\* The pipelines in the offline queue are well formed.
LEMMA OfflineFormed ==
  ASSUME PipeInv
  PROVE  \A p \in Offline(offline) : p \in DOMAIN pipelines /\ Formed(pipelines[p])
PROOF
  <1>1. ASSUME NEW p \in Offline(offline) PROVE p \in DOMAIN pipelines /\ Formed(pipelines[p])
    <2>1. PlacesOK(pipelines, Lines(wire, failed), offline)
      BY DEF PipeInv, Whole
    <2>2. p \in DOMAIN pipelines /\ pipelines[p].phase = "sent"
      BY <2>1 DEF PlacesOK, Offline
    <2>. QED BY <2>2 DEF PipeInv, Whole, Fine, Underway
  <1>. QED BY <1>1

\* What waits in the offline queue is to be rejected, and then what is on the way to the nodes.
Gathers(ps, Q, R, o, w) ==
  /\ w \in [Nodes -> Seq(Nat \X Nat)] /\ \A n \in Nodes : Q[n] = w[n]
  /\ \A n \in Nodes : R[n] = <<>>
  /\ R[NoNode] = FlattenSeq(Chosen(ps, o, DOMAIN o))
                    \o FlattenSeq(SetToSeq({w[n] : n \in {m \in Nodes : w[m] # <<>>}}))

\* The cluster ends.
LEMMA Gathered ==
  ASSUME NEW ps, NEW Q, NEW o, PlacesOK(ps, Q, o), \A p \in Offline(o) : Formed(ps[p]),
         NEW w, NEW R, Gathers(ps, Q, R, o, w)
  PROVE  PlacesOK(ps, R, <<>>)
PROOF
  <1> USE DEF Gathers
  <1>1. /\ \A x \in Places : Placed(ps, Q[x])
        /\ \A x, y \in Places : x # y => Holds(Q[x]) \cap Holds(Q[y]) = {}
        /\ \A x \in Places : Holds(Q[x]) \cap Offline(o) = {}
    BY DEF PlacesOK
  <1>2. PICK M, S : M = {m \in Nodes : w[m] # <<>>} /\ S = {w[n] : n \in M}
    OBVIOUS
  <1>3. IsFiniteSet(S) /\ S \subseteq Seq(Nat \X Nat) /\ \A s \in S : \E n \in Nodes : s = w[n]
    <2>1. IsFiniteSet(M)
      BY <1>2, PipelineAssumption, FS_Subset
    <2>2. [n \in M |-> w[n]] \in Surjection(M, S)
      BY <1>2 DEF Surjection
    <2>3. IsFiniteSet(S)
      BY <2>1, <2>2, FS_Surjection DEF ExistsSurjection
    <2>. QED BY <1>2, <2>3
  <1>4. PICK ss : ss = SetToSeq(S)
    OBVIOUS
  <1>5. ss \in Seq(S) /\ IsInjective(ss)
    BY <1>3, <1>4, SetToSeqFacts
  <1>6. ss \in Seq(Seq(Nat \X Nat))
    BY <1>3, <1>5
  <1>7. ASSUME NEW i \in 1..Len(ss) PROVE \E n \in Nodes : ss[i] = w[n]
    BY <1>3, <1>5
  <1>8. ASSUME NEW i \in 1..Len(ss) PROVE Placed(ps, ss[i]) /\ Holds(ss[i]) \cap Offline(o) = {}
    <2>1. PICK n \in Nodes : ss[i] = w[n]
      BY <1>7
    <2>2. ss[i] = Q[n] /\ n \in Places
      BY <2>1 DEF Places
    <2>. QED BY <1>1, <2>2
  <1>9. ASSUME NEW i \in 1..Len(ss), NEW j \in 1..Len(ss), i # j PROVE Holds(ss[i]) \cap Holds(ss[j]) = {}
    <2>1. PICK n \in Nodes, m \in Nodes : ss[i] = w[n] /\ ss[j] = w[m]
      BY <1>7
    <2>2. ss[i] # ss[j]
      BY <1>5, <1>9 DEF IsInjective
    <2>3. n # m /\ n \in Places /\ m \in Places
      BY <2>1, <2>2 DEF Places
    <2>. QED BY <1>1, <2>1, <2>3
  <1>10. PICK a, b, u : /\ a = FlattenSeq(Chosen(ps, o, DOMAIN o)) /\ b = FlattenSeq(ss) /\ u = R[NoNode]
    OBVIOUS
  <1>11. u = a \o b
    BY <1>2, <1>4, <1>10
  <1>12. Placed(ps, a) /\ \A p : p \in Holds(a) <=> \E i \in DOMAIN o : p = o[i][1]
    <2>1. PICK W : W = DOMAIN o
      OBVIOUS
    <2>2. W \subseteq DOMAIN o
      BY <2>1
    <2>3. /\ Placed(ps, FlattenSeq(Chosen(ps, o, W)))
          /\ \A p : p \in Holds(FlattenSeq(Chosen(ps, o, W))) <=> \E i \in W : p = o[i][1]
      BY <2>2, ChosenPlaced
    <2>. QED BY <1>10, <2>1, <2>3
  <1>13. Placed(ps, b) /\ \A p : p \in Holds(b) <=> \E i \in 1..Len(ss) : p \in Holds(ss[i])
    <2>1. /\ Placed(ps, FlattenSeq(ss))
          /\ \A p : p \in Holds(FlattenSeq(ss)) <=> \E i \in 1..Len(ss) : p \in Holds(ss[i])
      BY <1>6, <1>8, <1>9, PlacedFlatten
    <2>. QED BY <1>10, <2>1
  <1>14. Holds(a) \cap Holds(b) = {}
    <2>1. ASSUME NEW p \in Holds(a), p \in Holds(b) PROVE FALSE
      <3>1. PICK i \in 1..Len(ss) : p \in Holds(ss[i])
        BY <1>13, <2>1
      <3>2. p \in Offline(o)
        BY <1>12 DEF Offline
      <3>. QED BY <1>8, <3>1, <3>2
    <2>. QED BY <2>1
  <1>15. Placed(ps, u)
    BY <1>11, <1>12, <1>13, <1>14, PlacedConcat, Zenon
  <1>16. \A n \in Nodes : Placed(ps, R[n]) /\ Holds(R[n]) = {}
    BY PlacedNothing
  <1>17. \A x \in Places : Placed(ps, R[x])
    BY <1>10, <1>15, <1>16 DEF Places
  <1>18. ASSUME NEW x \in Places, NEW y \in Places, x # y PROVE Holds(R[x]) \cap Holds(R[y]) = {}
    <2>1. x \in Nodes \/ y \in Nodes
      BY <1>18 DEF Places
    <2>. QED BY <1>16, <2>1
  <1>19. Offline(<<>>) = {} /\ <<>> \in Seq(Nat \X Preferred) /\ DOMAIN <<>> = {}
    BY DEF Offline
  <1>. QED BY <1>17, <1>18, <1>19 DEF PlacesOK

\* qs is the pipelines with those in phase "waiting" in another phase.
Released(qs, phase) ==
  qs = [p \in DOMAIN pipelines |->
          IF pipelines[p].phase = "waiting" THEN [pipelines[p] EXCEPT !.phase = phase] ELSE pipelines[p]]
\* Only pipelines that waited have changed.
OnlyWaiters(qs, phase) ==
  /\ DOMAIN qs = DOMAIN pipelines
  /\ \A p \in DOMAIN pipelines : \/ qs[p] = pipelines[p] /\ pipelines[p].phase # "waiting"
                                 \/ pipelines[p].phase = "waiting" /\ qs[p].phase = phase

\* What waited for the slots goes on, or is refused.
LEMMA ReleasedWhole ==
  ASSUME PipeInv, NEW phase \in {"woken", "refused"}, NEW qs, Released(qs, phase),
         NEW called1, \A c \in Commands : called[c] \in Made => called1[c] \in Made
  PROVE  Whole(qs, wire, failed, offline, called1, confirmed) /\ OnlyWaiters(qs, phase)
PROOF
  <1>1. /\ pipelines \in Seq(PipelineRecord) /\ \A p \in DOMAIN pipelines : Fine(pipelines[p], confirmed)
        /\ CallsOK(pipelines, called, confirmed) /\ PlacesOK(pipelines, Lines(wire, failed), offline)
        /\ wire \in [Nodes -> Seq(Nat \X Nat)] /\ failed \in Seq(Nat \X Nat)
    BY DEF PipeInv, Whole
  <1>2. DOMAIN qs = DOMAIN pipelines
    BY DEF Released
  <1>3. phase \in Pausing \ {"filling"}
    BY DEF Pausing
  <1>4. ASSUME NEW p \in DOMAIN pipelines
        PROVE  /\ qs[p] \in PipelineRecord /\ Fine(qs[p], confirmed) /\ qs[p].calls = pipelines[p].calls
               /\ \/ qs[p] = pipelines[p] /\ pipelines[p].phase # "waiting"
                  \/ pipelines[p].phase = "waiting" /\ qs[p].phase = phase
    <2>1. PICK r : r = pipelines[p]
      OBVIOUS
    <2>2. r \in PipelineRecord /\ Fine(r, confirmed)
      BY <1>1, <2>1
    <2>3. CASE r.phase # "waiting"
      <3>1. qs[p] = r
        BY <2>1, <2>3 DEF Released
      <3>. QED BY <2>1, <2>2, <2>3, <3>1
    <2>4. CASE r.phase = "waiting"
      <3>1. PICK s : s = [r EXCEPT !.phase = phase]
        OBVIOUS
      <3>2. qs[p] = s
        BY <2>1, <2>4, <3>1 DEF Released
      <3>3. Formed(r) /\ r.replyPending = 0 /\ ToSet(r.calls) \cap confirmed = {}
        BY <2>2, <2>4 DEF Fine, Rest, Pausing
      <3>4. s \in PipelineRecord /\ Fine(s, confirmed) /\ s.phase = phase /\ s.calls = r.calls
        BY <1>3, <3>1, <3>3, PausedFine
      <3>. QED BY <2>1, <2>4, <3>2, <3>4
    <2>. QED BY <2>3, <2>4
  <1>5. qs \in Seq(PipelineRecord)
    <2>1. PICK n : n = Len(pipelines)
      OBVIOUS
    <2>2. n \in Nat /\ DOMAIN pipelines = 1..n
      BY <1>1, <2>1
    <2>3. qs \in [1..n -> PipelineRecord]
      BY <1>4, <2>2 DEF Released
    <2>. QED BY ONLY <2>2, <2>3
  <1>6. CallsOK(qs, called, confirmed)
    <2>1. \A p \in DOMAIN qs : p \in DOMAIN pipelines /\ qs[p].calls = pipelines[p].calls
      BY <1>2, <1>4
    <2>2. \A p \in DOMAIN qs : \A c \in ToSet(qs[p].calls) : called[c] \in {"made", "answered"}
      BY <1>1, <2>1 DEF CallsOK
    <2>3. \A x, y \in DOMAIN qs : x # y => ToSet(qs[x].calls) \cap ToSet(qs[y].calls) = {}
      BY <1>1, <2>1 DEF CallsOK
    <2>. QED BY <1>1, <2>2, <2>3 DEF CallsOK
  <1>7. PlacesOK(qs, Lines(wire, failed), offline)
    <2>1. PICK Q : Q = Lines(wire, failed)
      OBVIOUS
    <2>2. \A p \in DOMAIN pipelines : pipelines[p].phase = "sent" => p \in DOMAIN qs /\ qs[p] = pipelines[p]
      BY <1>2, <1>4
    <2>3. \A p \in DOMAIN pipelines : pipelines[p].phase = "sent" /\ ~Unplaced(p, Q, offline)
                                        => p \in DOMAIN qs /\ qs[p] = pipelines[p]
      BY <2>2
    <2>. QED BY <1>1, <2>1, <2>3, PlacesKeep
  <1>8. Whole(qs, wire, failed, offline, called, confirmed)
    BY <1>1, <1>2, <1>4, <1>5, <1>6, <1>7 DEF Whole
  <1>9. Whole(qs, wire, failed, offline, called1, confirmed)
    BY <1>8, CallsStay
  <1>. QED BY <1>2, <1>4, <1>9 DEF OnlyWaiters

\* A connected cluster keeps the invariant: all that waits is woken.
LEMMA ConnectedInv ==
  ASSUME PipeInv, Connected
  PROVE  PipeInv'
PROOF
  <1>1. /\ cluster' = "connect" /\ slots' = owner /\ groupIds' = {owner[s] : s \in Slots} /\ pool' = Nodes
        /\ Released(pipelines', "woken")
        /\ called' = [c \in Commands |-> IF called[c] = "waiting" THEN "woken" ELSE called[c]]
        /\ UNCHANGED <<sending, automatic, topology, confirmed, faults>>
    BY DEF Connected, Learn, Released
  <1>2. /\ owner \in [Slots -> Nodes] /\ AutoOK
        /\ called \in [Commands -> {"no", "waiting", "woken", "refused", "made", "answered"}]
    BY DEF PipeInv, Shapes
  <1>3. \A c \in Commands : called[c] \in Made => called'[c] \in Made
    BY <1>1 DEF Made
  <1>4. Whole(pipelines', wire, failed, offline, called', confirmed) /\ OnlyWaiters(pipelines', "woken")
    BY <1>1, <1>3, ReleasedWhole
  <1>5. Whole(pipelines, wire, failed, offline, called, confirmed)'
    BY <1>1, <1>4 DEF sending
  <1>6. SlotsOK'
    BY <1>1, <1>2 DEF SlotsOK, Learned
  <1>7. AutoOK'
    BY <1>1, <1>2, <1>4 DEF AutoOK, OnlyWaiters, automatic
  <1>8. Shapes'
    <2>1. called' \in [Commands -> {"no", "waiting", "woken", "refused", "made", "answered"}]
      BY <1>1, <1>2
    <2>. QED BY <1>1, <1>2, <2>1 DEF PipeInv, Shapes, automatic, topology
  <1>. QED BY <1>5, <1>6, <1>7, <1>8 DEF PipeInv

\* A ready cluster keeps the invariant: the pipelines of the offline queue are sent.
LEMMA ReadyInv ==
  ASSUME PipeInv, Ready
  PROVE  PipeInv'
PROOF
  <1> DEFINE dead == [i \in DOMAIN offline |-> offline[i][2] = Ended]
             Entries1(i) == [k \in DOMAIN pipelines[offline[i][1]].queue |-> <<offline[i][1], k>>]
  <1>1. /\ failed = <<>> /\ cluster' = "ready" /\ offline' = <<>>
        /\ UNCHANGED <<slots, groupIds, pool, pipelines, automatic, called, topology, confirmed, faults>>
    BY DEF Ready, Idle
  <1>2. PICK to \in [DOMAIN offline -> Nodes] :
          /\ wire' = [n \in Nodes |-> wire[n] \o FlattenSeq([i \in DOMAIN offline |->
                        IF to[i] = n /\ ~dead[i] THEN Entries1(i) ELSE <<>>])]
          /\ failed' = FlattenSeq([i \in DOMAIN offline |-> IF dead[i] THEN Entries1(i) ELSE <<>>])
    BY DEF Ready
  <1>3. PICK W : W = [x \in Places |-> IF x = NoNode THEN {i \in DOMAIN offline : dead[i]}
                                       ELSE {i \in DOMAIN offline : to[i] = x /\ ~dead[i]}]
    OBVIOUS
  <1>4. PICK Q, R : Q = Lines(wire, failed) /\ R = Lines(wire', failed')
    OBVIOUS
  <1>5. PlacesOK(pipelines, Q, offline) /\ wire \in [Nodes -> Seq(Nat \X Nat)]
    BY <1>4 DEF PipeInv, Whole
  <1>6. \A x \in Places : W[x] \subseteq DOMAIN offline
    BY <1>3
  <1>7. \A x, y \in Places : x # y => W[x] \cap W[y] = {}
    <2> HIDE DEF dead, Entries1
    <2>. QED BY <1>3
  <1>8. \A i \in DOMAIN offline : Entries1(i) = Sends(offline[i][1], pipelines[offline[i][1]])
    BY DEF Sends
  <1>9. ASSUME NEW n \in Nodes PROVE R[n] = Q[n] \o FlattenSeq(Chosen(pipelines, offline, W[n]))
    <2>1. n \in Places /\ n # NoNode /\ R[n] = wire'[n] /\ Q[n] = wire[n]
      BY <1>4, LinesAt
    <2>2. W[n] = {i \in DOMAIN offline : to[i] = n /\ ~dead[i]}
      BY <1>3, <2>1
    <2> HIDE DEF dead, Entries1
    <2>3. [i \in DOMAIN offline |-> IF to[i] = n /\ ~dead[i] THEN Entries1(i) ELSE <<>>]
            = Chosen(pipelines, offline, W[n])
      BY <1>8, <2>2 DEF Chosen
    <2>. QED BY <1>2, <2>1, <2>3
  <1>10. R[NoNode] = Q[NoNode] \o FlattenSeq(Chosen(pipelines, offline, W[NoNode]))
    <2>1. NoNode \in Places /\ R[NoNode] = failed' /\ Q[NoNode] = <<>>
      BY <1>1, <1>4, LinesAt
    <2>2. W[NoNode] = {i \in DOMAIN offline : dead[i]}
      BY <1>3, <2>1
    <2>3. [i \in DOMAIN offline |-> IF dead[i] THEN Entries1(i) ELSE <<>>] = Chosen(pipelines, offline, W[NoNode])
      <3> HIDE DEF dead, Entries1
      <3>. QED BY <1>8, <2>2 DEF Chosen
    <2>4. PICK X, u : X = W[NoNode] /\ u = FlattenSeq(Chosen(pipelines, offline, X))
      OBVIOUS
    <2>5. Placed(pipelines, u)
      <3>1. X \subseteq DOMAIN offline
        BY <1>6, <2>1, <2>4
      <3>2. \A p \in Offline(offline) : Formed(pipelines[p])
        BY OfflineFormed
      <3>3. Placed(pipelines, FlattenSeq(Chosen(pipelines, offline, X)))
        BY <1>5, <3>1, <3>2, ChosenPlaced
      <3>. QED BY <2>4, <3>3
    <2>6. u \in Seq(Nat \X Nat) /\ <<>> \o u = u
      BY <2>5 DEF Placed
    <2>. QED BY <1>2, <2>1, <2>3, <2>4, <2>6
  <1>11. \A x \in Places : R[x] = Q[x] \o FlattenSeq(Chosen(pipelines, offline, W[x]))
    BY <1>9, <1>10 DEF Places
  <1>12. PlacesOK(pipelines, R, <<>>)
    <2>1. PICK ps, o : ps = pipelines /\ o = offline
      OBVIOUS
    <2>2. \A p \in Offline(o) : Formed(ps[p])
      BY <2>1, OfflineFormed
    <2>3. /\ PlacesOK(ps, Q, o) /\ \A x \in Places : W[x] \subseteq DOMAIN o
          /\ \A x \in Places : R[x] = Q[x] \o FlattenSeq(Chosen(ps, o, W[x]))
      BY <1>5, <1>6, <1>11, <2>1
    <2>4. PlacesOK(ps, R, <<>>)
      <3>1. Dispatches(ps, Q, R, o, W)
        BY <1>7, <2>3 DEF Dispatches
      <3>. QED BY <2>2, <2>3, <3>1, Dispatched
    <2>. QED BY <2>1, <2>4
  <1>13. wire' \in [Nodes -> Seq(Nat \X Nat)] /\ failed' \in Seq(Nat \X Nat)
    <2>1. \A x \in Places : R[x] \in Seq(Nat \X Nat)
      BY <1>12 DEF PlacesOK, Placed
    <2>2. failed' \in Seq(Nat \X Nat)
      BY <1>4, <2>1, LinesAt
    <2>3. \A n \in Nodes : wire'[n] \in Seq(Nat \X Nat)
      BY <1>4, <2>1, LinesAt
    <2>4. wire' = [n \in Nodes |-> wire'[n]]
      <3> HIDE DEF dead, Entries1
      <3>. QED BY <1>2
    <2>. QED BY <2>2, <2>3, <2>4
  <1>14. Shapes'
    BY <1>1 DEF PipeInv, Shapes, automatic, topology
  <1>. QED BY <1>1, <1>4, <1>12, <1>13, <1>14, Moved DEF automatic

\* The end of the cluster keeps the invariant: all that waits is refused, all that is sent is lost.
LEMMA EndsInv ==
  ASSUME PipeInv, Ends
  PROVE  PipeInv'
PROOF
  <1> DEFINE Entries1(i) == [k \in DOMAIN pipelines[offline[i][1]].queue |-> <<offline[i][1], k>>]
             busy == {wire[n] : n \in {m \in Nodes : wire[m] # <<>>}}
  <1>1. /\ failed = <<>> /\ cluster' = "end" /\ pool' = {} /\ offline' = <<>> /\ wire' = [n \in Nodes |-> <<>>]
        /\ failed' = FlattenSeq([i \in DOMAIN offline |-> Entries1(i)]) \o FlattenSeq(SetToSeq(busy))
        /\ Released(pipelines', "refused")
        /\ called' = [c \in Commands |-> IF called[c] = "waiting" THEN "refused" ELSE called[c]]
        /\ faults < MaxFaults /\ faults' = faults + 1
        /\ UNCHANGED <<slots, groupIds, automatic, topology, confirmed>>
    BY DEF Ends, Idle, Fault, Released
  <1>2. /\ SlotsOK /\ AutoOK
        /\ called \in [Commands -> {"no", "waiting", "woken", "refused", "made", "answered"}]
    BY DEF PipeInv, Shapes
  <1>3. \A c \in Commands : called[c] \in Made => called'[c] \in Made
    BY <1>1 DEF Made
  <1>4. PICK qs : qs = pipelines'
    OBVIOUS
  <1>5. Whole(qs, wire, failed, offline, called', confirmed) /\ OnlyWaiters(qs, "refused")
    BY <1>1, <1>3, <1>4, ReleasedWhole
  <1>6. /\ PlacesOK(qs, Lines(wire, failed), offline) /\ wire \in [Nodes -> Seq(Nat \X Nat)]
        /\ qs \in Seq(PipelineRecord) /\ CallsOK(qs, called', confirmed)
        /\ \A p \in DOMAIN qs : Fine(qs[p], confirmed)
    BY <1>5 DEF Whole
  <1>7. \A p \in Offline(offline) : p \in DOMAIN pipelines /\ qs[p] = pipelines[p] /\ Formed(qs[p])
    <2>1. ASSUME NEW p \in Offline(offline) PROVE p \in DOMAIN pipelines /\ qs[p] = pipelines[p] /\ Formed(qs[p])
      <3>1. p \in DOMAIN pipelines /\ Formed(pipelines[p])
        BY OfflineFormed
      <3>2. qs[p].phase = "sent"
        BY <1>6 DEF PlacesOK, Offline
      <3>3. qs[p] = pipelines[p]
        BY <1>5, <3>1, <3>2 DEF OnlyWaiters
      <3>. QED BY <3>1, <3>3
    <2>. QED BY <2>1
  <1>8. [i \in DOMAIN offline |-> Entries1(i)] = Chosen(qs, offline, DOMAIN offline)
    <2>1. ASSUME NEW i \in DOMAIN offline PROVE Entries1(i) = Sends(offline[i][1], qs[offline[i][1]])
      <3>1. qs[offline[i][1]] = pipelines[offline[i][1]]
        BY <1>7 DEF Offline
      <3>. QED BY <3>1 DEF Sends
    <2> HIDE DEF Entries1
    <2>. QED BY <2>1 DEF Chosen
  <1>9. PICK Q, R : Q = Lines(wire, failed) /\ R = Lines(wire', failed')
    OBVIOUS
  <1>10. /\ \A n \in Nodes : Q[n] = wire[n] /\ R[n] = <<>>
         /\ R[NoNode] = FlattenSeq(Chosen(qs, offline, DOMAIN offline)) \o FlattenSeq(SetToSeq(busy))
    <2>1. R[NoNode] = failed'
      BY <1>9, LinesAt
    <2>2. \A n \in Nodes : Q[n] = wire[n] /\ R[n] = wire'[n]
      BY <1>9, LinesAt
    <2> HIDE DEF busy, Entries1
    <2>. QED BY <1>1, <1>8, <2>1, <2>2
  <1>11. PlacesOK(qs, R, <<>>)
    <2>1. PICK w, o : w = wire /\ o = offline
      OBVIOUS
    <2>2. /\ PlacesOK(qs, Q, o) /\ w \in [Nodes -> Seq(Nat \X Nat)] /\ \A n \in Nodes : Q[n] = w[n]
          /\ \A p \in Offline(o) : Formed(qs[p])
      BY <1>6, <1>7, <1>9, <1>10, <2>1
    <2>3. \A n \in Nodes : R[n] = <<>>
      BY <1>10
    <2>4. R[NoNode] = FlattenSeq(Chosen(qs, o, DOMAIN o))
                        \o FlattenSeq(SetToSeq({w[n] : n \in {m \in Nodes : w[m] # <<>>}}))
      BY <1>10, <2>1
    <2>5. PICK ps : ps = qs
      OBVIOUS
    <2>6. PlacesOK(ps, R, <<>>)
      <3>1. Gathers(ps, Q, R, o, w)
        BY <2>2, <2>3, <2>4, <2>5 DEF Gathers
      <3>. QED BY <2>2, <2>5, <3>1, Gathered
    <2>. QED BY <2>5, <2>6
  <1>12. wire' \in [Nodes -> Seq(Nat \X Nat)] /\ failed' \in Seq(Nat \X Nat)
    <2>1. NoNode \in Places /\ R[NoNode] = failed'
      BY <1>9, LinesAt
    <2>2. R[NoNode] \in Seq(Nat \X Nat)
      BY <1>11, <2>1 DEF PlacesOK, Placed
    <2>3. wire' \in [Nodes -> Seq(Nat \X Nat)]
      <3> HIDE DEF busy, Entries1
      <3>. QED BY <1>1
    <2>. QED BY <2>1, <2>2, <2>3
  <1> HIDE DEF busy, Entries1
  <1>13. Whole(pipelines, wire, failed, offline, called, confirmed)'
    BY <1>1, <1>4, <1>6, <1>9, <1>11, <1>12 DEF Whole
  <1>14. SlotsOK'
    <2>1. \A c \in Commands : called'[c] = "woken" => called[c] = "woken"
      BY <1>1
    <2>2. \A p \in DOMAIN pipelines' :
            /\ p \in DOMAIN pipelines
            /\ pipelines'[p].phase \in {"filling", "sent", "delayed"} => pipelines'[p].phase = pipelines[p].phase
      BY <1>4, <1>5 DEF OnlyWaiters
    <2>3. slots' = slots /\ (Learned' <=> Learned)
      BY <1>1 DEF Learned
    <2>4. Learned' \/ slots' = [s \in Slots |-> NoNode]
      BY <1>2, <2>3 DEF SlotsOK
    <2>5. ~Learned' => \A c \in Commands : called'[c] # "woken"
      BY <1>2, <2>1, <2>3 DEF SlotsOK
    <2>6. ~Learned' => \A p \in DOMAIN pipelines' : pipelines'[p].phase \notin {"filling", "sent", "delayed"}
      <3>1. ASSUME ~Learned', NEW p \in DOMAIN pipelines'
            PROVE  pipelines'[p].phase \notin {"filling", "sent", "delayed"}
        <4>1. p \in DOMAIN pipelines /\ pipelines[p].phase \notin {"filling", "sent", "delayed"}
          <5>1. ~Learned /\ p \in DOMAIN pipelines
            BY <2>2, <2>3, <3>1
          <5>2. \A q \in DOMAIN pipelines : pipelines[q].phase \notin {"filling", "sent", "delayed"}
            BY <1>2, <5>1 DEF SlotsOK
          <5>. QED BY <5>1, <5>2
        <4>. QED BY <2>2, <4>1
      <3>. QED BY <3>1
    <2>. QED BY <2>4, <2>5, <2>6 DEF SlotsOK
  <1>15. AutoOK'
    <2>1. auto' = auto /\ DOMAIN pipelines' = DOMAIN pipelines
      BY <1>1, <1>4, <1>5 DEF OnlyWaiters, automatic
    <2>2. \A p \in DOMAIN pipelines : pipelines[p].phase = "filling" => pipelines'[p] = pipelines[p]
      BY <1>4, <1>5 DEF OnlyWaiters
    <2>. QED BY <1>2, <2>1, <2>2 DEF AutoOK
  <1>16. Shapes'
    <2>1. called' \in [Commands -> {"no", "waiting", "woken", "refused", "made", "answered"}]
      BY <1>1, <1>2
    <2>2. faults' \in 0..MaxFaults
      BY <1>1, PipelineAssumption DEF PipeInv, Shapes
    <2>. QED BY <1>1, <2>1, <2>2 DEF PipeInv, Shapes, automatic, topology
  <1>. QED BY <1>13, <1>14, <1>15, <1>16 DEF PipeInv

------------------------------------------------------------------------------
(* The invariant.                                                            *)

\* The invariant holds initially.
LEMMA PipeInit ==
  ASSUME Init
  PROVE  PipeInv
PROOF
  <1>1. /\ cluster = "connecting" /\ slots = [s \in Slots |-> NoNode] /\ groupIds = {} /\ pool = {}
        /\ offline = <<>> /\ wire = [n \in Nodes |-> <<>>] /\ failed = <<>>
        /\ pipelines = <<>> /\ auto = [n \in Nodes |-> 0] /\ running = {} /\ immediates = <<>>
        /\ called = [c \in Commands |-> "no"]
        /\ owner \in [Slots -> Nodes] /\ importing = [s \in Slots |-> NoNode]
        /\ confirmed = {} /\ faults = 0
    BY DEF Init
  <1>2. Shapes
    <2>1. 0 \in 0..MaxFaults
      BY PipelineAssumption
    <2>. QED BY <1>1, <2>1 DEF Shapes
  <1>3. SlotsOK /\ AutoOK
    BY <1>1 DEF SlotsOK, AutoOK
  <1>4. wire \in [Nodes -> Seq(Nat \X Nat)] /\ failed \in Seq(Nat \X Nat)
    BY <1>1
  <1>5. PICK Q, ps, o : Q = Lines(wire, failed) /\ ps = pipelines /\ o = offline
    OBVIOUS
  <1>6. \A x \in Places : Q[x] = <<>>
    BY <1>1, <1>5 DEF Lines, Places
  <1>7. \A x \in Places : Placed(ps, Q[x]) /\ Holds(Q[x]) = {}
    BY <1>6, PlacedNothing
  <1>8. o \in Seq(Nat \X Preferred) /\ DOMAIN o = {}
    BY <1>1, <1>5
  <1>9. PlacesOK(ps, Q, o)
    BY <1>7, <1>8 DEF PlacesOK
  <1>10. CallsOK(pipelines, called, confirmed)
    BY <1>1 DEF CallsOK
  <1>11. Whole(pipelines, wire, failed, offline, called, confirmed)
    BY <1>1, <1>4, <1>5, <1>9, <1>10 DEF Whole
  <1>. QED BY <1>2, <1>3, <1>11 DEF PipeInv

\* Every step keeps the invariant.
LEMMA PipeStep ==
  ASSUME PipeInv, [Next]_vars
  PROVE  PipeInv'
PROOF
  <1>1. ASSUME NEW c \in Commands, Issue(c) PROVE PipeInv'
    BY <1>1, IssueInv
  <1>2. ASSUME NEW b \in Batches, Send(b, FALSE) PROVE PipeInv'
    BY <1>2, SendInv, PipelineAssumption
  <1>3. ASSUME NEW b \in Transactions, Send(b, TRUE) PROVE PipeInv'
    BY <1>3, SendInv, PipelineAssumption
  <1>4. CASE Fails
    BY <1>4, FailsInv
  <1>5. ASSUME NEW c \in Commands, Woken(c) PROVE PipeInv'
    BY <1>5, WokenInv
  <1>6. ASSUME NEW p \in DOMAIN pipelines, Callback(p) PROVE PipeInv'
    BY <1>6, CallbackInv
  <1>7. ASSUME NEW p \in DOMAIN pipelines, Resumed(p) PROVE PipeInv'
    BY <1>7, ResumedInv
  <1>8. CASE Immediate
    BY <1>8, ImmediateInv
  <1>9. ASSUME NEW p \in DOMAIN pipelines, DelayTimer(p) PROVE PipeInv'
    BY <1>9, DelayTimerInv
  <1>10. ASSUME NEW n \in Nodes, Answered(n) PROVE PipeInv'
    BY <1>10, AnsweredInv
  <1>11. CASE Connected
    BY <1>11, ConnectedInv
  <1>12. CASE Ready
    BY <1>12, ReadyInv
  <1>13. ASSUME NEW n \in Nodes, Refused(n) PROVE PipeInv'
    BY <1>13, RefusedInv
  <1>14. ASSUME NEW n \in Nodes, NodeLost(n) PROVE PipeInv'
    BY <1>14, NodeLostInv
  <1>15. CASE Refresh
    BY <1>15, RefreshInv
  <1>16. CASE Ends
    BY <1>16, EndsInv
  <1>17. ASSUME NEW s \in Slots, ClusterChanges(s) PROVE PipeInv'
    BY <1>17, ClusterChangesInv
  <1>18. CASE UNCHANGED vars
    <2>1. UNCHANGED <<routing, sending, pipelines, automatic, called, topology, confirmed, faults>>
      BY <1>18 DEF vars
    <2>2. UNCHANGED <<cluster, slots, groupIds, pool, offline, wire, failed, auto, running, immediates,
                      owner, importing, pipelines, called, confirmed, faults>>
      BY <2>1 DEF routing, sending, automatic, topology
    <2>3. Shapes' /\ SlotsOK' /\ AutoOK'
      BY <2>2 DEF PipeInv, Shapes, SlotsOK, Learned, AutoOK
    <2>4. Whole(pipelines, wire, failed, offline, called, confirmed)'
      BY <2>2 DEF PipeInv
    <2>. QED BY <2>3, <2>4 DEF PipeInv
  <1>. QED BY <1>1, <1>2, <1>3, <1>4, <1>5, <1>6, <1>7, <1>8, <1>9, <1>10, <1>11, <1>12, <1>13, <1>14,
              <1>15, <1>16, <1>17, <1>18 DEF Next, Application, System, Microtasks

\* The invariant holds of all behaviours.
THEOREM PipeInvariant == Spec => []PipeInv
  <1>. QED BY PipeInit, PipeStep, PTL DEF Spec

------------------------------------------------------------------------------
(* The theorems.                                                             *)

\* A pipeline waits for no more replies than it has commands.
LEMMA PendingBounded ==
  ASSUME PipeInv, NEW p \in DOMAIN pipelines
  PROVE  pipelines[p].replyPending \in 0..Len(pipelines[p].queue)
PROOF
  <1>1. PICK r : r = pipelines[p]
    OBVIOUS
  <1>2. r \in PipelineRecord /\ Fine(r, confirmed)
    BY <1>1 DEF PipeInv, Whole
  <1>3. r.phase \in Pausing \cup Over \cup {"sent"} /\ Len(r.queue) \in Nat
    BY <1>2 DEF PipelineRecord
  <1>4. CASE r.phase = "sent"
    BY <1>1, <1>2, <1>4 DEF Fine, Underway
  <1>5. CASE r.phase # "sent"
    BY <1>1, <1>2, <1>3, <1>5 DEF Fine, Rest, Done
  <1>. QED BY <1>4, <1>5

\* The shape of the state; no pipeline counts its replies below zero.
THEOREM TypeOKTheorem == Spec => []TypeOK
PROOF
  <1>1. ASSUME PipeInv PROVE TypeOK
    <2>1. Shapes /\ SlotsOK /\ AutoOK
      BY <1>1 DEF PipeInv
    <2>2. pipelines \in Seq(PipelineRecord) /\ confirmed \subseteq Writes
      BY <1>1 DEF PipeInv, Whole, CallsOK
    <2>3. slots \in [Slots -> Nodes \cup {NoNode}]
      BY <2>1 DEF SlotsOK, Learned
    <2>4. auto \in [Nodes -> 0..Len(pipelines)]
      <3>1. auto \in [Nodes -> Nat] /\ DOMAIN pipelines = 1..Len(pipelines) /\ Len(pipelines) \in Nat
        BY <2>1, <2>2 DEF Shapes
      <3>2. \A n \in Nodes : auto[n] \in 0..Len(pipelines)
        BY <2>1, <3>1 DEF AutoOK
      <3>. QED BY <3>1, <3>2
    <2>5. \A p \in DOMAIN pipelines : pipelines[p].replyPending \in 0..Len(pipelines[p].queue)
      BY <1>1, PendingBounded
    <2>. QED BY <2>1, <2>2, <2>3, <2>4, <2>5 DEF TypeOK, Shapes
  <1>. QED BY <1>1, PipeInvariant, PTL

\* A command that is confirmed is no command a pipeline waits for.
LEMMA NotWaiting ==
  ASSUME NEW r \in PipelineRecord, NEW conf, Fine(r, conf), conf \subseteq Writes, NEW c \in Waiting(r), c \in conf
  PROVE  FALSE
PROOF
  <1>1. c \in Commands /\ c \notin {"asking", "multi", "exec"}
    BY PipelineAssumption, Keywords
  <1>2. CASE r.phase = "delayed"
    <2>1. Formed(r) /\ ToSet(r.calls) \cap conf = {}
      BY <1>2 DEF Fine, Rest, Pausing
    <2>2. PICK i \in DOMAIN r.queue : r.queue[i] = c
      BY <1>2 DEF Waiting
    <2>3. i \in 1..Len(r.queue)
      BY <2>2 DEF PipelineRecord
    <2>4. c \in ToSet(r.calls)
      BY <1>1, <2>1, <2>2, <2>3, QueuePositions DEF Positions
    <2>. QED BY <2>1, <2>4
  <1>3. CASE r.phase = "sent"
    <2>1. Underway(r, conf) /\ Formed(r) /\ r.replyPending > 0 /\ Told(r, conf) /\ Positions(r)
      <3>1. Underway(r, conf) /\ r.replyPending > 0
        BY <1>3 DEF Fine
      <3>2. Formed(r) /\ Told(r, conf)
        BY <3>1 DEF Underway
      <3>. QED BY <3>1, <3>2, QueuePositions
    <2>2. PICK m, x : m = Len(r.queue) /\ x = r.replyPending
      OBVIOUS
    <2>3. m \in Nat /\ x \in 1..m
      BY <2>1, <2>2 DEF Underway, PipelineRecord
    <2>4. PICK i \in (m - x + 1)..m : r.queue[i] = c
      BY <1>3, <2>2 DEF Waiting
    <2>5. i \in 1..m
      BY <2>3
    <2>6. c \in ToSet(r.calls)
      BY <1>1, <2>1, <2>2, <2>4, <2>5 DEF Positions
    <2>7. PICK j \in 1..(m - x) : r.queue[j] = IF r.transaction THEN "exec" ELSE c
      BY <2>1, <2>2, <2>6 DEF Told, Received
    <2>8. j \in 1..m /\ j < i /\ j < m
      BY <2>3, <2>4
    <2>9. CASE r.transaction
      BY <2>1, <2>2, <2>7, <2>8, <2>9 DEF Positions
    <2>10. CASE ~r.transaction
      <3>1. r.queue[j] = r.queue[i] /\ r.queue[i] \in Commands
        BY <1>1, <2>4, <2>7, <2>10
      <3>2. i = j
        BY <2>1, <2>2, <2>5, <2>8, <3>1 DEF Positions
      <3>. QED BY <2>8, <3>2
    <2>. QED BY <2>9, <2>10
  <1>. QED BY <1>2, <1>3 DEF Waiting

\* No write whose success the client has read is sent again: not when a pipeline is put off or
\* redirected, not when a transaction is resent as a whole.
THEOREM WritesNotRepeatedTheorem == Spec => []WritesNotRepeated
PROOF
  <1>1. ASSUME PipeInv PROVE WritesNotRepeated
    <2>1. ASSUME NEW p \in DOMAIN pipelines, NEW c \in Waiting(pipelines[p]), c \in confirmed PROVE FALSE
      <3>1. /\ pipelines[p] \in PipelineRecord /\ Fine(pipelines[p], confirmed)
            /\ confirmed \subseteq Writes
        BY <1>1 DEF PipeInv, Whole, CallsOK
      <3>. QED BY <2>1, <3>1, NotWaiting
    <2>. QED BY <2>1 DEF WritesNotRepeated
  <1>. QED BY <1>1, PipeInvariant, PTL

\* Unless the redirection that exceeds the limit can be an ASK (which shifts the results:
\* README, disagreement 6), every caller of a settled pipeline is given the result of its own
\* command, or an error.
THEOREM OwnResultsTheorem ==
  ASSUME ~AskAtLimit
  PROVE  Spec => []OwnResults
PROOF
  <1>1. ASSUME PipeInv PROVE OwnResults
    <2>1. ASSUME NEW p \in DOMAIN pipelines, pipelines[p].phase \in {"resolved", "answered"}
          PROVE  Own(pipelines[p])
      BY <1>1, <2>1 DEF PipeInv, Whole, Fine, Done, Over
    <2>. QED BY <2>1 DEF OwnResults, Own
  <1>. QED BY <1>1, PipeInvariant, PTL
=============================================================================
