---------------------------- MODULE PubSubProofs ----------------------------
(***************************************************************************)
(* Proofs about PubSub, for any commands, channels and number of losses:   *)
(* no frame is taken for the answer to another command, and when nothing   *)
(* is under way client, server and application agree on the subscriptions. *)
(* Both are about connections that are not lost between two confirmations  *)
(* of a command, and commands that name channels: see README.md.           *)
(***************************************************************************)
EXTENDS PubSub, SequenceFacts

NothingIsCut == ~CutConfirmations
NoBareCommand == \A c \in Commands : Args[c] # <<>>

------------------------------------------------------------------------------
(* What the client holds.                                                    *)

Subs == {s \in SUBSET Subscriptions : IsFiniteSet(s)}

Asked == {x \in Command : x.args # <<>>}
QueueItem == [command: Asked, remaining: Nat]
Fresh == {x \in QueueItem : x.remaining = Len(x.command.args)}

FrameRecord ==
  [type: Names \cup {"message", "reply", "error"}, channel: Channels \cup {NoChannel}, count: Nat,
   command: Asked]

\* The channel whose confirmation is the next for the command of x.
Due(x) == x.command.args[Len(x.command.args) - x.remaining + 1]

\* The queue when the head has received one of its confirmations.
Served(q) ==
  IF Head(q).remaining - 1 <= 0 THEN Tail(q)
  ELSE <<[Head(q) EXCEPT !.remaining = Head(q).remaining - 1]>> \o Tail(q)

Alike(s, name) == {x \in s : (x[1] = "ssubscribe") = (Kind(name) = "ssubscribe")}

\* A client with the queue q and the subscriptions s that reads frame f rightly has the queue
\* q2 and the subscriptions s2 afterwards.
Confirms(f, q, s, s2) ==
  /\ q # <<>> /\ Head(q).command = f.command /\ f.type = f.command.name
  /\ Head(q).remaining \in 1..Len(f.command.args) /\ f.channel = Due(Head(q))
  /\ \/ f.type \in Enter /\ s2 = s \cup {<<f.type, f.channel>>}
     \/ /\ f.type \in Exit /\ s2 = s \ {<<Kind(f.type), f.channel>>}
        /\ f.count = Cardinality(Alike(s2, f.type))

Reads(f, q, s, q2, s2) ==
  \/ f.type = "message" /\ s # {} /\ q2 = q /\ s2 = s
  \/ Confirms(f, q, s, s2) /\ q2 = Served(q)
  \/ /\ f.type \in {"reply", "error"} /\ q # <<>> /\ Head(q).command = f.command
     /\ f.command.name = "get"
     /\ q2 = Tail(q) /\ s2 = s

\* The frames fs lead from a client with queue q and subscriptions s to one with q2 and s2, by
\* way of the queues Q and the subscriptions S.
IsRun(Q, S, fs, q, s, q2, s2) ==
  /\ Q \in [0..Len(fs) -> Seq(QueueItem)] /\ S \in [0..Len(fs) -> Subs]
  /\ Q[0] = q /\ S[0] = s /\ Q[Len(fs)] = q2 /\ S[Len(fs)] = s2
  /\ \A i \in 1..Len(fs) : Reads(fs[i], Q[i - 1], S[i - 1], Q[i], S[i])
Leads(fs, q, s, q2, s2) == \E Q, S : IsRun(Q, S, fs, q, s, q2, s2)

\* What is on the wire leads to the state of the server, and the queue of what is still to be
\* sent to it.
Items(commands) == [i \in DOMAIN commands |-> Item(commands[i])]
Paired == Leads(replies, commandQueue, Known, Items(sent), serverSubs)

\* The types, and what a connection that is not ready leaves.
Shapes ==
  /\ status \in {"connecting", "ready", "reconnecting"}
  /\ subscriber \in Subs \cup {NoSet} /\ subscriber # {}
  /\ prevSubscriber \in Subs \cup {NoSet, NoCondition}
  /\ commandQueue \in Seq(QueueItem)
  /\ prevCommandQueue \in Seq(Fresh) /\ offlineQueue \in Seq(Fresh)
  /\ sent \in Seq(Asked) /\ replies \in Seq(FrameRecord) /\ serverSubs \in Subs
  /\ status # "ready" => sent = <<>> /\ replies = <<>> /\ serverSubs = {}
  /\ status = "connecting" => commandQueue = <<>> /\ subscriber = NoSet
  /\ status = "ready" => /\ prevSubscriber = NoCondition
                         /\ prevCommandQueue = <<>> /\ offlineQueue = <<>>

\* The inductive invariant behind NothingMisdelivered.
PairInv ==
  ~leftEarly => /\ Shapes /\ ~misdelivered
                /\ status = "ready" => Paired

------------------------------------------------------------------------------
(* Commands, items and frames.                                               *)

\* What the application sends names channels.
LEMMA CommandsAreAsked ==
  ASSUME NoBareCommand, NEW c \in Commands
  PROVE  CommandOf(c) \in Asked
PROOF
  BY PubSubAssumption DEF NoBareCommand, CommandOf, Asked, Command

\* A command is queued with as many replies to come as it has arguments.
LEMMA FreshItem ==
  ASSUME NEW x \in Asked
  PROVE  Item(x) \in Fresh /\ Item(x).command = x /\ Item(x).remaining = Len(x.args)
PROOF
  BY DEF Asked, Command, Fresh, QueueItem, Item

\* As long as none of the replies has come, that is all there is to know of it.
LEMMA FreshIsItem ==
  ASSUME NEW x \in Fresh
  PROVE  x = Item(x.command)
PROOF
  BY DEF Fresh, QueueItem, Item

\* What has no reply yet is an item like others.
LEMMA FreshAreItems == Fresh \subseteq QueueItem
PROOF
  BY DEF Fresh

\* The commands of a sequence, each to be answered.
LEMMA ItemsFacts ==
  ASSUME NEW q \in Seq(Asked)
  PROVE  /\ Items(q) \in Seq(QueueItem) /\ Len(Items(q)) = Len(q)
         /\ q # <<>> => /\ Tail(q) \in Seq(Asked) /\ Head(q) \in Asked
                        /\ Items(q) = <<Item(Head(q))>> \o Items(Tail(q))
PROOF
  <1>1. /\ Items(q) \in Seq(QueueItem) /\ Len(Items(q)) = Len(q)
    BY FreshItem, FreshAreItems DEF Items
  <1>2. ASSUME q # <<>> PROVE Tail(q) \in Seq(Asked) /\ Head(q) \in Asked /\ Len(Tail(q)) = Len(q) - 1
                              /\ \A i \in 1..Len(Tail(q)) : Tail(q)[i] = q[i + 1]
    BY <1>2, HeadTailProperties
  <1>3. ASSUME q # <<>> PROVE Items(q) = <<Item(Head(q))>> \o Items(Tail(q))
    <2>1. Items(Tail(q)) \in Seq(QueueItem) /\ Len(Items(Tail(q))) = Len(q) - 1
      BY <1>2, <1>3, FreshItem, FreshAreItems DEF Items
    <2>2. Item(Head(q)) \in QueueItem
      BY <1>2, <1>3, FreshItem, FreshAreItems
    <2> DEFINE r == <<Item(Head(q))>> \o Items(Tail(q))
    <2>3. r \in Seq(QueueItem) /\ Len(r) = Len(q)
      BY <2>1, <2>2
    <2>4. ASSUME NEW i \in 1..Len(q) PROVE r[i] = Items(q)[i]
      <3>1. CASE i = 1
        BY <2>1, <2>2, <3>1, <1>3 DEF Items
      <3>2. CASE i # 1
        <4>1. i - 1 \in 1..Len(Tail(q)) /\ i - 1 \in 1..Len(Items(Tail(q)))
          BY <1>2, <1>3, <2>1, <3>2
        <4>2. r[i] = Items(Tail(q))[i - 1]
          BY <2>1, <2>2, <3>2, <4>1
        <4>3. Tail(q)[i - 1] = q[i]
          BY <1>2, <1>3, <4>1
        <4>. QED BY <4>1, <4>2, <4>3 DEF Items
      <3>. QED BY <3>1, <3>2
    <2>. QED BY <1>1, <2>3, <2>4
  <1>. QED BY <1>1, <1>2, <1>3

\* What a head that is answered in part leaves of the queue.
LEMMA ServedType ==
  ASSUME NEW q \in Seq(QueueItem), q # <<>>, Head(q).remaining \in 1..Len(Head(q).command.args)
  PROVE  Served(q) \in Seq(QueueItem)
PROOF
  <1>1. Head(q) \in QueueItem /\ Tail(q) \in Seq(QueueItem)
    BY HeadTailProperties
  <1>2. Len(Head(q).command.args) \in Nat
    BY <1>1 DEF QueueItem, Asked, Command
  <1>3. [Head(q) EXCEPT !.remaining = Head(q).remaining - 1] \in QueueItem
    BY <1>1, <1>2 DEF QueueItem
  <1>. QED BY <1>1, <1>3 DEF Served

\* Commands queued behind do not change how a frame is read.
LEMMA ReadsAppend ==
  ASSUME NEW f, NEW q \in Seq(QueueItem), NEW s, NEW q2 \in Seq(QueueItem), NEW s2,
         Reads(f, q, s, q2, s2), NEW x \in QueueItem
  PROVE  Reads(f, Append(q, x), s, Append(q2, x), s2)
PROOF
  <1>1. CASE f.type = "message" /\ s # {} /\ q2 = q /\ s2 = s
    BY <1>1 DEF Reads
  <1>2. ASSUME q # <<>>
        PROVE  Append(q, x) # <<>> /\ Head(Append(q, x)) = Head(q) /\ Tail(Append(q, x)) = Append(Tail(q), x)
    <2>1. Append(q, x) # <<>> /\ Head(Append(q, x)) = Head(q)
      BY <1>2
    <2>0. Len(Tail(q)) = Len(q) - 1 /\ Len(q) \in Nat
      BY <1>2, HeadTailProperties
    <2>2. Tail(q) \in Seq(QueueItem) /\ Len(Tail(q)) = Len(q) - 1 /\ Len(q) \in Nat
          /\ \A i \in 1..Len(Tail(q)) : Tail(q)[i] = q[i + 1]
      BY <1>2, HeadTailProperties
    <2> DEFINE a == Append(q, x)
               t == Append(Tail(q), x)
    <2>3. a \in Seq(QueueItem) /\ Len(a) = Len(q) + 1 /\ a[Len(q) + 1] = x /\ \A i \in 1..Len(q) : a[i] = q[i]
      BY <2>2
    <2>4. t \in Seq(QueueItem) /\ Len(t) = Len(q) /\ t[Len(q)] = x /\ \A i \in 1..Len(Tail(q)) : t[i] = Tail(q)[i]
      BY <2>2
    <2>5. Tail(a) \in Seq(QueueItem) /\ Len(Tail(a)) = Len(q) /\ \A i \in 1..Len(Tail(a)) : Tail(a)[i] = a[i + 1]
      BY <2>1, <2>2, <2>3, HeadTailProperties
    <2> HIDE DEF a, t
    <2>6. ASSUME NEW i \in 1..Len(q) PROVE Tail(a)[i] = t[i]
      <3>1. CASE i = Len(q)
        BY <2>2, <2>3, <2>4, <2>5, <3>1
      <3>2. CASE i # Len(q)
        <4>1. i \in 1..Len(Tail(q)) /\ i + 1 \in 1..Len(q)
          BY <2>0, <3>2
        <4>. QED BY <2>2, <2>3, <2>4, <2>5, <4>1
      <3>. QED BY <3>1, <3>2
    <2>7. Tail(a) = t
      BY <2>4, <2>5, <2>6, SeqEqual
    <2>. QED BY <2>1, <2>7 DEF a, t
  <1>3. CASE Confirms(f, q, s, s2) /\ q2 = Served(q)
    <2>1. q # <<>> /\ Head(q) \in QueueItem /\ Tail(q) \in Seq(QueueItem)
      BY <1>3, HeadTailProperties DEF Confirms
    <2>2. Confirms(f, Append(q, x), s, s2)
      BY <1>2, <1>3, <2>1 DEF Confirms
    <2> DEFINE h == [Head(q) EXCEPT !.remaining = Head(q).remaining - 1]
    <2>3. <<h>> \o Append(Tail(q), x) = Append(<<h>> \o Tail(q), x)
      <3>1. Head(q).remaining \in 1..Len(f.command.args) /\ Head(q).command = f.command
        BY <1>3 DEF Confirms
      <3>2. Len(f.command.args) \in Nat
        BY <2>1, <3>1 DEF QueueItem, Asked, Command
      <3>3. h \in QueueItem
        BY <2>1, <3>1, <3>2 DEF QueueItem
      <3> HIDE DEF h
      <3>. QED BY <2>1, <3>3
    <2>4. Append(q2, x) = Served(Append(q, x))
      BY <1>2, <1>3, <2>1, <2>3 DEF Served
    <2>. QED BY <2>2, <2>4 DEF Reads
  <1>4. CASE /\ f.type \in {"reply", "error"} /\ q # <<>> /\ Head(q).command = f.command
             /\ f.command.name = "get"
             /\ q2 = Tail(q) /\ s2 = s
    BY <1>2, <1>4 DEF Reads
  <1>. QED BY <1>1, <1>3, <1>4 DEF Reads

\* The client reads a frame and goes on as it must.
LEMMA RunAdvances ==
  ASSUME NEW fs \in Seq(FrameRecord), fs # <<>>, NEW Q, NEW S, NEW q, NEW s, NEW q2, NEW s2,
         IsRun(Q, S, fs, q, s, q2, s2)
  PROVE  Leads(Tail(fs), Q[1], S[1], q2, s2) /\ Reads(Head(fs), q, s, Q[1], S[1])
         /\ Q[1] \in Seq(QueueItem) /\ S[1] \in Subs
PROOF
  <1> DEFINE n == Len(fs)
             Q2 == [i \in 0..(n - 1) |-> Q[i + 1]]
             S2 == [i \in 0..(n - 1) |-> S[i + 1]]
  <1>1. /\ n \in Nat /\ n > 0 /\ Len(Tail(fs)) = n - 1 /\ Head(fs) = fs[1]
        /\ \A i \in 1..(n - 1) : Tail(fs)[i] = fs[i + 1]
    BY HeadTailProperties
  <1>2. /\ Q \in [0..n -> Seq(QueueItem)] /\ S \in [0..n -> Subs]
        /\ Q[0] = q /\ S[0] = s /\ Q[n] = q2 /\ S[n] = s2
        /\ \A i \in 1..n : Reads(fs[i], Q[i - 1], S[i - 1], Q[i], S[i])
    BY Zenon DEF IsRun
  <1>3. Q2 \in [0..(n - 1) -> Seq(QueueItem)] /\ S2 \in [0..(n - 1) -> Subs]
    BY <1>1, <1>2
  <1>4. Q2[0] = Q[1] /\ S2[0] = S[1] /\ Q2[n - 1] = q2 /\ S2[n - 1] = s2
    BY <1>1, <1>2
  <1>5. ASSUME NEW i \in 1..(n - 1)
        PROVE  Reads(Tail(fs)[i], Q2[i - 1], S2[i - 1], Q2[i], S2[i])
    <2>1. PICK j \in 1..n : j = i + 1
      BY <1>1
    <2>2. j - 1 = i /\ i - 1 \in 0..(n - 1) /\ i \in 0..(n - 1) /\ i - 1 + 1 = i
      BY <1>1, <2>1
    <2>3. Reads(fs[j], Q[j - 1], S[j - 1], Q[j], S[j])
      BY <1>2
    <2>4. Q2[i - 1] = Q[j - 1] /\ S2[i - 1] = S[j - 1] /\ Q2[i] = Q[j] /\ S2[i] = S[j]
      BY <2>1, <2>2
    <2>5. Tail(fs)[i] = fs[j]
      BY <1>1, <2>1
    <2>. QED BY <2>3, <2>4, <2>5
  <1>6. IsRun(Q2, S2, Tail(fs), Q[1], S[1], q2, s2)
    <2> HIDE DEF Q2, S2, n
    <2>. QED BY <1>1, <1>3, <1>4, <1>5, Zenon DEF IsRun
  <1>7. Reads(Head(fs), q, s, Q[1], S[1]) /\ Q[1] \in Seq(QueueItem) /\ S[1] \in Subs
    <2>1. 1 \in 1..n /\ 1 \in 0..n /\ 1 - 1 = 0
      BY <1>1
    <2>2. Reads(fs[1], Q[1 - 1], S[1 - 1], Q[1], S[1])
      BY <1>2, <2>1
    <2>. QED BY <1>1, <1>2, <2>1, <2>2
  <1>. QED BY <1>6, <1>7, Zenon DEF Leads

\* A command that is sent is behind all others in every queue to come.
LEMMA RunSends ==
  ASSUME NEW fs \in Seq(FrameRecord), NEW q, NEW s, NEW q2, NEW s2, Leads(fs, q, s, q2, s2),
         NEW x \in QueueItem
  PROVE  Leads(fs, Append(q, x), s, Append(q2, x), s2)
PROOF
  <1>1. PICK Q, S : IsRun(Q, S, fs, q, s, q2, s2)
    BY Zenon DEF Leads
  <1> DEFINE n == Len(fs)
             Q2 == [i \in 0..n |-> Append(Q[i], x)]
  <1>2. /\ Q \in [0..n -> Seq(QueueItem)] /\ S \in [0..n -> Subs]
        /\ Q[0] = q /\ S[0] = s /\ Q[n] = q2 /\ S[n] = s2
        /\ \A i \in 1..n : Reads(fs[i], Q[i - 1], S[i - 1], Q[i], S[i])
    BY <1>1, Zenon DEF IsRun
  <1>3. n \in Nat /\ Q2 \in [0..n -> Seq(QueueItem)] /\ Q2[0] = Append(q, x) /\ Q2[n] = Append(q2, x)
    BY <1>2
  <1>4. ASSUME NEW i \in 1..n
        PROVE  Reads(fs[i], Q2[i - 1], S[i - 1], Q2[i], S[i])
    <2>1. i - 1 \in 0..n /\ i \in 0..n
      BY <1>3
    <2>2. Q[i - 1] \in Seq(QueueItem) /\ Q[i] \in Seq(QueueItem)
      BY <1>2, <2>1
    <2>. QED BY <1>2, <2>1, <2>2, ReadsAppend
  <1>5. IsRun(Q2, S, fs, Append(q, x), s, Append(q2, x), s2)
    <2> HIDE DEF Q2, n
    <2>. QED BY <1>2, <1>3, <1>4, Zenon DEF IsRun, n
  <1>. QED BY <1>5, Zenon DEF Leads

\* Nothing on the wire.
LEMMA RunNothing ==
  ASSUME NEW q \in Seq(QueueItem), NEW s \in Subs
  PROVE  Leads(<<>>, q, s, q, s)
PROOF
  <1>1. IsRun([i \in 0..0 |-> q], [i \in 0..0 |-> s], <<>>, q, s, q, s)
    BY DEF IsRun
  <1>. QED BY <1>1, Zenon DEF Leads

\* One more frame.
LEMMA RunExtends ==
  ASSUME NEW fs \in Seq(FrameRecord), NEW q, NEW s, NEW q2, NEW s2, Leads(fs, q, s, q2, s2),
         NEW f \in FrameRecord, NEW q3 \in Seq(QueueItem), NEW s3 \in Subs, Reads(f, q2, s2, q3, s3)
  PROVE  Leads(Append(fs, f), q, s, q3, s3)
PROOF
  <1>1. PICK Q, S : IsRun(Q, S, fs, q, s, q2, s2)
    BY Zenon DEF Leads
  <1> DEFINE n == Len(fs)
             Q2 == [i \in 0..(n + 1) |-> IF i = n + 1 THEN q3 ELSE Q[i]]
             S2 == [i \in 0..(n + 1) |-> IF i = n + 1 THEN s3 ELSE S[i]]
             gs == Append(fs, f)
  <1>2. /\ Q \in [0..n -> Seq(QueueItem)] /\ S \in [0..n -> Subs]
        /\ Q[0] = q /\ S[0] = s /\ Q[n] = q2 /\ S[n] = s2
        /\ \A i \in 1..n : Reads(fs[i], Q[i - 1], S[i - 1], Q[i], S[i])
    BY <1>1, Zenon DEF IsRun
  <1>3. /\ n \in Nat /\ Len(gs) = n + 1 /\ gs[n + 1] = f
        /\ \A i \in 1..n : gs[i] = fs[i]
    OBVIOUS
  <1>4. /\ Q2 \in [0..(n + 1) -> Seq(QueueItem)] /\ S2 \in [0..(n + 1) -> Subs]
        /\ Q2[0] = q /\ S2[0] = s /\ Q2[n + 1] = q3 /\ S2[n + 1] = s3
    BY <1>2, <1>3
  <1>5. ASSUME NEW i \in 1..(n + 1)
        PROVE  Reads(gs[i], Q2[i - 1], S2[i - 1], Q2[i], S2[i])
    <2>1. CASE i = n + 1
      <3>1. i - 1 = n /\ Q2[i - 1] = q2 /\ S2[i - 1] = s2 /\ Q2[i] = q3 /\ S2[i] = s3
        BY <1>2, <1>3, <2>1
      <3>. QED BY <1>3, <2>1, <3>1
    <2>2. CASE i # n + 1
      <3>1. i \in 1..n /\ i - 1 \in 0..(n + 1) /\ i - 1 # n + 1
        BY <1>3, <2>2
      <3>2. Q2[i - 1] = Q[i - 1] /\ S2[i - 1] = S[i - 1] /\ Q2[i] = Q[i] /\ S2[i] = S[i] /\ gs[i] = fs[i]
        BY <1>3, <2>2, <3>1
      <3>. QED BY <1>2, <3>1, <3>2
    <2>. QED BY <2>1, <2>2
  <1>6. IsRun(Q2, S2, gs, q, s, q3, s3)
    <2> HIDE DEF Q2, S2, n, gs
    <2>. QED BY <1>3, <1>4, <1>5, Zenon DEF IsRun
  <1>. QED BY <1>6, Zenon DEF Leads

\* The frames of one run, and then those of another.
LEMMA RunConcat ==
  ASSUME NEW fs \in Seq(FrameRecord), NEW q, NEW s, NEW q2, NEW s2, Leads(fs, q, s, q2, s2),
         NEW gs \in Seq(FrameRecord), NEW q3, NEW s3, Leads(gs, q2, s2, q3, s3)
  PROVE  Leads(fs \o gs, q, s, q3, s3)
PROOF
  <1>1. PICK Q, S : IsRun(Q, S, fs, q, s, q2, s2)
    BY Zenon DEF Leads
  <1>2. PICK R, T : IsRun(R, T, gs, q2, s2, q3, s3)
    BY Zenon DEF Leads
  <1> DEFINE n == Len(fs)
             m == Len(gs)
             hs == fs \o gs
             Q2 == [i \in 0..(n + m) |-> IF i <= n THEN Q[i] ELSE R[i - n]]
             S2 == [i \in 0..(n + m) |-> IF i <= n THEN S[i] ELSE T[i - n]]
  <1>3. /\ Q \in [0..n -> Seq(QueueItem)] /\ S \in [0..n -> Subs]
        /\ Q[0] = q /\ S[0] = s /\ Q[n] = q2 /\ S[n] = s2
        /\ \A i \in 1..n : Reads(fs[i], Q[i - 1], S[i - 1], Q[i], S[i])
    BY <1>1, Zenon DEF IsRun
  <1>4. /\ R \in [0..m -> Seq(QueueItem)] /\ T \in [0..m -> Subs]
        /\ R[0] = q2 /\ T[0] = s2 /\ R[m] = q3 /\ T[m] = s3
        /\ \A i \in 1..m : Reads(gs[i], R[i - 1], T[i - 1], R[i], T[i])
    BY <1>2, Zenon DEF IsRun
  <1>5. /\ n \in Nat /\ m \in Nat /\ Len(hs) = n + m
        /\ \A i \in 1..n : hs[i] = fs[i]
        /\ \A i \in (n + 1)..(n + m) : hs[i] = gs[i - n]
    OBVIOUS
  <1>6. Q2 \in [0..(n + m) -> Seq(QueueItem)] /\ S2 \in [0..(n + m) -> Subs]
    <2>1. ASSUME NEW i \in 0..(n + m) PROVE Q2[i] \in Seq(QueueItem) /\ S2[i] \in Subs
      <3>1. CASE i <= n
        <4>1. i \in 0..n
          BY <1>5, <3>1
        <4>. QED BY <1>3, <3>1, <4>1
      <3>2. CASE ~(i <= n)
        <4>1. i - n \in 0..m
          BY <1>5, <3>2
        <4>. QED BY <1>4, <3>2, <4>1
      <3>. QED BY <3>1, <3>2
    <2>. QED BY <2>1
  <1>7. Q2[0] = q /\ S2[0] = s /\ Q2[n + m] = q3 /\ S2[n + m] = s3
    <2>1. Q2[0] = q /\ S2[0] = s
      BY <1>3, <1>5
    <2>2. CASE m = 0
      BY <1>3, <1>4, <1>5, <2>2
    <2>3. CASE m # 0
      <3>1. ~(n + m <= n) /\ n + m - n = m /\ n + m \in 0..(n + m)
        BY <1>5, <2>3
      <3>. QED BY <1>4, <2>1, <3>1
    <2>. QED BY <2>1, <2>2, <2>3
  <1>8. ASSUME NEW i \in 1..(n + m)
        PROVE  Reads(hs[i], Q2[i - 1], S2[i - 1], Q2[i], S2[i])
    <2>1. CASE i <= n
      <3>1. i \in 1..n /\ i - 1 \in 0..(n + m) /\ i - 1 <= n /\ i \in 0..(n + m)
        BY <1>5, <2>1
      <3>2. Q2[i - 1] = Q[i - 1] /\ S2[i - 1] = S[i - 1] /\ Q2[i] = Q[i] /\ S2[i] = S[i] /\ hs[i] = fs[i]
        BY <1>5, <2>1, <3>1
      <3>. QED BY <1>3, <3>1, <3>2
    <2>2. CASE ~(i <= n)
      <3>1. PICK j \in 1..m : j = i - n
        BY <1>5, <2>2
      <3>2. Q2[i] = R[j] /\ S2[i] = T[j] /\ hs[i] = gs[j]
        BY <1>5, <2>2, <3>1
      <3>3. Q2[i - 1] = R[j - 1] /\ S2[i - 1] = T[j - 1]
        <4>1. CASE j = 1
          <5>1. i - 1 = n /\ i - 1 \in 0..(n + m) /\ j - 1 = 0
            BY <1>5, <3>1, <4>1
          <5>. QED BY <1>3, <1>4, <5>1
        <4>2. CASE j # 1
          <5>1. ~(i - 1 <= n) /\ i - 1 - n = j - 1 /\ i - 1 \in 0..(n + m)
            BY <1>5, <3>1, <4>2
          <5>. QED BY <5>1
        <4>. QED BY <4>1, <4>2
      <3>4. Reads(gs[j], R[j - 1], T[j - 1], R[j], T[j])
        BY <1>4
      <3>. QED BY <3>2, <3>3, <3>4
    <2>. QED BY <2>1, <2>2
  <1>9. IsRun(Q2, S2, hs, q, s, q3, s3)
    <2> HIDE DEF Q2, S2, n, m, hs
    <2>. QED BY <1>5, <1>6, <1>7, <1>8, Zenon DEF IsRun
  <1>. QED BY <1>9, Zenon DEF Leads

------------------------------------------------------------------------------
(* The server.                                                               *)

\* Confirming one channel after the other leaves finite sets of subscriptions.
LEMMA SubsAfterFacts ==
  ASSUME NEW x \in Asked, x.name \in Enter \cup Exit, NEW s \in Subs
  PROVE  /\ SubsAfter(x, 0, s) = s
         /\ \A n \in 0..Len(x.args) : SubsAfter(x, n, s) \in Subs
         /\ \A n \in 1..Len(x.args) :
              SubsAfter(x, n, s) = IF x.name \in Enter
                                   THEN SubsAfter(x, n - 1, s) \cup {<<x.name, x.args[n]>>}
                                   ELSE SubsAfter(x, n - 1, s) \ {<<Kind(x.name), x.args[n]>>}
PROOF
  <1>1. x.args \in Seq(Channels) /\ x.args # <<>> /\ Len(x.args) \in Nat /\ x.name \in Names
    BY DEF Asked, Command
  <1>2. Dropped(x, s) = x.args
    BY <1>1 DEF Dropped
  <1>3. s \in SUBSET Subscriptions /\ IsFiniteSet(s)
    BY DEF Subs
  <1>4. CASE x.name \in Enter
    <2> DEFINE N(n) == {<<x.name, x.args[i]>> : i \in 1..n}
    <2>1. \A n : SubsAfter(x, n, s) = s \cup N(n)
      BY <1>4 DEF SubsAfter
    <2>2. N(0) = {} /\ \A n \in 1..Len(x.args) : N(n) = N(n - 1) \cup {<<x.name, x.args[n]>>}
      <3>1. N(0) = {}
        OBVIOUS
      <3>2. ASSUME NEW n \in 1..Len(x.args) PROVE N(n) = N(n - 1) \cup {<<x.name, x.args[n]>>}
        <4>1. 1..n = (1..(n - 1)) \cup {n}
          BY <1>1
        <4>. QED BY <4>1
      <3>. QED BY <3>1, <3>2
    <2>3. ASSUME NEW n \in 0..Len(x.args) PROVE s \cup N(n) \in Subs
      <3>1. IsFiniteSet(1..n)
        BY FS_Interval
      <3>2. IsFiniteSet(N(n))
        <4> DEFINE ff == [i \in 1..n |-> <<x.name, x.args[i]>>]
        <4>1. N(n) = {ff[i] : i \in 1..n}
          OBVIOUS
        <4>2. ff \in Surjection(1..n, N(n))
          BY DEF Surjection
        <4>. QED BY <3>1, <4>2, FS_Surjection
      <3>3. IsFiniteSet(s \cup N(n))
        BY <1>3, <3>2, FS_Union
      <3>4. N(n) \subseteq Subscriptions
        BY <1>1, <1>4 DEF Subscriptions
      <3>. QED BY <1>3, <3>3, <3>4 DEF Subs
    <2> HIDE DEF N
    <2>4. SubsAfter(x, 0, s) = s
      BY <2>1, <2>2
    <2>5. \A n \in 0..Len(x.args) : SubsAfter(x, n, s) \in Subs
      BY <2>1, <2>3
    <2>6. ASSUME NEW n \in 1..Len(x.args)
          PROVE  SubsAfter(x, n, s) = SubsAfter(x, n - 1, s) \cup {<<x.name, x.args[n]>>}
      <3>1. SubsAfter(x, n, s) = s \cup N(n) /\ SubsAfter(x, n - 1, s) = s \cup N(n - 1)
        BY <2>1, Zenon
      <3>. QED BY <2>2, <3>1
    <2>. QED BY <1>4, <2>4, <2>5, <2>6
  <1>5. CASE x.name \notin Enter
    <2> DEFINE N(n) == {<<Kind(x.name), x.args[i]>> : i \in 1..n}
    <2>1. \A n : SubsAfter(x, n, s) = s \ N(n)
      BY <1>2, <1>5 DEF SubsAfter
    <2>2. N(0) = {} /\ \A n \in 1..Len(x.args) : N(n) = N(n - 1) \cup {<<Kind(x.name), x.args[n]>>}
      <3>1. N(0) = {}
        OBVIOUS
      <3>2. ASSUME NEW n \in 1..Len(x.args) PROVE N(n) = N(n - 1) \cup {<<Kind(x.name), x.args[n]>>}
        <4>1. 1..n = (1..(n - 1)) \cup {n}
          BY <1>1
        <4>. QED BY <4>1
      <3>. QED BY <3>1, <3>2
    <2> HIDE DEF N
    <2>3. ASSUME NEW n \in 0..Len(x.args) PROVE s \ N(n) \in Subs
      BY <1>3, FS_Subset DEF Subs
    <2>4. SubsAfter(x, 0, s) = s
      BY <2>1, <2>2
    <2>5. \A n \in 0..Len(x.args) : SubsAfter(x, n, s) \in Subs
      BY <2>1, <2>3
    <2>6. ASSUME NEW n \in 1..Len(x.args)
          PROVE  SubsAfter(x, n, s) = SubsAfter(x, n - 1, s) \ {<<Kind(x.name), x.args[n]>>}
      <3>1. SubsAfter(x, n, s) = s \ N(n) /\ SubsAfter(x, n - 1, s) = s \ N(n - 1)
        BY <2>1, Zenon
      <3>. QED BY <2>2, <3>1
    <2>. QED BY <1>5, <2>4, <2>5, <2>6
  <1>. QED BY <1>4, <1>5

\* The confirmations of a command, read by a client that has it at the head of its queue.
LEMMA ConfirmationsLead ==
  ASSUME NEW x \in Asked, x.name \in Enter \cup Exit, NEW s \in Subs, NEW r \in Seq(QueueItem)
  PROVE  LET fs == Confirmations(x, x.args, s)
         IN  fs \in Seq(FrameRecord) /\ Leads(fs, <<Item(x)>> \o r, s, r, SubsAfter(x, Len(x.args), s))
PROOF
  <1> DEFINE n == Len(x.args)
             fs == Confirmations(x, x.args, s)
             h(i) == [command |-> x, remaining |-> n - i]
             Q == [i \in 0..n |-> IF i = n THEN r ELSE <<h(i)>> \o r]
             S == [i \in 0..n |-> SubsAfter(x, i, s)]
  <1>1. x.args \in Seq(Channels) /\ n \in Nat /\ n > 0 /\ x.name \in Names /\ DOMAIN x.args = 1..n
    BY DEF Asked, Command
  <1>2. /\ S[0] = s /\ S \in [0..n -> Subs] /\ S[n] = SubsAfter(x, n, s)
        /\ \A i \in 1..n : S[i] = IF x.name \in Enter THEN S[i - 1] \cup {<<x.name, x.args[i]>>}
                                  ELSE S[i - 1] \ {<<Kind(x.name), x.args[i]>>}
    <2>1. \A i \in 1..n : i - 1 \in 0..n /\ i \in 0..n
      BY <1>1
    <2>2. 0 \in 0..n /\ n \in 0..n
      BY <1>1
    <2>3. S[0] = s /\ S[n] = SubsAfter(x, n, s)
      BY <2>2, SubsAfterFacts
    <2>4. S \in [0..n -> Subs]
      BY SubsAfterFacts
    <2>5. ASSUME NEW i \in 1..n
          PROVE  S[i] = IF x.name \in Enter THEN S[i - 1] \cup {<<x.name, x.args[i]>>}
                        ELSE S[i - 1] \ {<<Kind(x.name), x.args[i]>>}
      <3>1. S[i] = SubsAfter(x, i, s) /\ S[i - 1] = SubsAfter(x, i - 1, s)
        BY <2>1
      <3> HIDE DEF S
      <3>. QED BY <3>1, SubsAfterFacts
    <2>. QED BY <2>3, <2>4, <2>5
  <1>3. \A i \in 0..(n - 1) : h(i) \in QueueItem /\ h(i).command = x /\ h(i).remaining = n - i
    BY <1>1 DEF QueueItem
  <1>4. ASSUME NEW i \in 1..n
        PROVE  /\ fs[i] = Frame(x.name, x.args[i], Cardinality(Alike(S[i], x.name)), x)
               /\ fs[i] \in FrameRecord
    <2>1. S[i] = SubsAfter(x, i, s) /\ S[i] \in Subs
      BY <1>1, <1>2
    <2>2. IsFiniteSet(Alike(S[i], x.name))
      BY <2>1, FS_Subset DEF Subs, Alike
    <2>3. Cardinality(Alike(S[i], x.name)) \in Nat
      BY <2>2, FS_CardinalityType
    <2>4. Count(x, SubsAfter(x, i, s)) = Cardinality(Alike(S[i], x.name))
      BY <2>1, Zenon DEF Count, Alike
    <2>5. fs[i] = Frame(x.name, x.args[i], Cardinality(Alike(S[i], x.name)), x)
      BY <1>1, <2>4 DEF Confirmations
    <2>6. x.args[i] \in Channels
      BY <1>1
    <2>. QED BY <1>1, <2>3, <2>5, <2>6 DEF Frame, FrameRecord
  <1>5. fs \in Seq(FrameRecord) /\ Len(fs) = n
    <2>1. DOMAIN fs = 1..n /\ fs = [i \in 1..n |-> fs[i]]
      BY <1>1 DEF Confirmations
    <2> HIDE DEF fs
    <2>2. \A i \in 1..n : fs[i] \in FrameRecord
      BY <1>4
    <2>3. n \in Nat
      BY <1>1
    <2> HIDE DEF n
    <2>4. fs \in [1..n -> FrameRecord]
      BY <2>1, <2>2
    <2>. QED BY <2>3, <2>4
  <1>6. Q \in [0..n -> Seq(QueueItem)]
    <2>1. ASSUME NEW i \in 0..n, i # n PROVE <<h(i)>> \o r \in Seq(QueueItem)
      <3>1. h(i) \in QueueItem
        <4>1. i \in 0..(n - 1)
          BY <1>1, <2>1
        <4>. QED BY <1>3, <4>1
      <3> HIDE DEF h
      <3>. QED BY <3>1
    <2>. QED BY <2>1
  <1>7. Q[0] = <<Item(x)>> \o r /\ Q[n] = r
    <2>1. Item(x) = h(0)
      BY <1>1 DEF Item
    <2>. QED BY <1>1, <2>1
  <1>8. ASSUME NEW i \in 1..n PROVE Reads(fs[i], Q[i - 1], S[i - 1], Q[i], S[i])
    <2>1. i - 1 \in 0..(n - 1) /\ i - 1 \in 0..n /\ i \in 0..n /\ i - 1 # n /\ n - (i - 1) = n - i + 1
          /\ n - (i - 1) \in 1..n /\ n - (n - i + 1) + 1 = i
      BY <1>1
    <2>2. Q[i - 1] = <<h(i - 1)>> \o r
      BY <2>1
    <2>3. h(i - 1) \in QueueItem /\ h(i - 1).command = x /\ h(i - 1).remaining = n - i + 1
      BY <1>3, <2>1
    <2>4. Q[i - 1] # <<>> /\ Head(Q[i - 1]) = h(i - 1) /\ Tail(Q[i - 1]) = r
      <3> HIDE DEF h, Q
      <3>. QED BY <2>2, <2>3
    <2>5. Due(h(i - 1)) = x.args[i]
      BY <2>1, <2>3 DEF Due
    <2>6. Confirms(fs[i], Q[i - 1], S[i - 1], S[i])
      <3>1. fs[i].type = x.name /\ fs[i].channel = x.args[i] /\ fs[i].command = x
            /\ fs[i].count = Cardinality(Alike(S[i], x.name))
        BY <1>4 DEF Frame
      <3>2. x.name \in Enter \/ x.name \in Exit
        OBVIOUS
      <3>3. x.name \in Exit => x.name \notin Enter
        BY DEF Enter, Exit
      <3> HIDE DEF fs, Q, S, h
      <3>. QED BY <1>2, <2>1, <2>3, <2>4, <2>5, <3>1, <3>2, <3>3 DEF Confirms
    <2>7. Q[i] = Served(Q[i - 1])
      <3>1. CASE i = n
        <4>1. h(i - 1).remaining - 1 <= 0
          BY <2>1, <2>3, <3>1, <1>1
        <4>2. Q[i] = r
          BY <2>1, <3>1
        <4> HIDE DEF h, Q
        <4>. QED BY <2>4, <4>1, <4>2 DEF Served
      <3>2. CASE i # n
        <4>1. ~(h(i - 1).remaining - 1 <= 0)
          BY <2>1, <2>3, <3>2, <1>1
        <4>2. Q[i] = <<h(i)>> \o r
          BY <2>1, <3>2
        <4>3. [h(i - 1) EXCEPT !.remaining = h(i - 1).remaining - 1] = h(i)
          BY <1>1, <2>1
        <4> HIDE DEF h, Q
        <4>. QED BY <2>4, <4>1, <4>2, <4>3 DEF Served
      <3>. QED BY <3>1, <3>2
    <2>. QED BY <2>6, <2>7 DEF Reads
  <1>9. IsRun(Q, S, fs, <<Item(x)>> \o r, s, r, SubsAfter(x, n, s))
    <2> HIDE DEF Q, S, fs, n
    <2>. QED BY <1>2, <1>5, <1>6, <1>7, <1>8, Zenon DEF IsRun
  <1>. QED BY <1>5, <1>9, Zenon DEF Leads

\* A connection that is ready has the types of PairInv, and its wire leads where it should.
Going == Shapes /\ ~misdelivered /\ status = "ready" /\ Paired

\* Sets of subscriptions are none of the values that stand for false.
LEMMA SubsAreSets ==
  ASSUME NEW s \in Subs
  PROVE  s # NoSet /\ s # NoCondition /\ s \subseteq Subscriptions /\ IsFiniteSet(s)
PROOF
  BY PubSubAssumption DEF Subs, Subscriptions

\* No subscriptions, and nothing queued.
LEMMA NothingTyped ==
  /\ {} \in Subs /\ NoSet # {} /\ NoCondition # {}
  /\ <<>> \in Seq(Fresh) /\ <<>> \in Seq(QueueItem) /\ <<>> \in Seq(Asked) /\ <<>> \in Seq(FrameRecord)
PROOF
  <1>1. {} \in Subs
    BY FS_EmptySet DEF Subs
  <1>2. NoSet # {} /\ NoCondition # {}
    BY <1>1, SubsAreSets
  <1>3. \A T : <<>> \in Seq(T)
    OBVIOUS
  <1>. QED BY <1>1, <1>2, <1>3

\* What the client takes for its subscriptions.
LEMMA KnownType == Shapes => Known \in Subs /\ (subscriber # NoSet => Known # {})
PROOF
  <1>1. {} \in Subs
    BY FS_EmptySet DEF Subs
  <1>. QED BY <1>1 DEF Shapes, Known

\* The server answers the first of the commands it was sent.
LEMMA ServerRunsKeeps == Going /\ ServerRuns => Going'
PROOF
  <1>1. SUFFICES ASSUME Going, ServerRuns PROVE Going'
    OBVIOUS
  <1> DEFINE x == Head(sent)
             r == Items(Tail(sent))
             fs == Answers(x, serverSubs)
             s2 == SubsAfter(x, Confirmed(x, serverSubs), serverSubs)
  <1>2. sent \in Seq(Asked) /\ sent # <<>> /\ serverSubs \in Subs /\ replies \in Seq(FrameRecord)
    BY <1>1 DEF ServerRuns, Going, Shapes
  <1>3. /\ x \in Asked /\ Tail(sent) \in Seq(Asked) /\ Items(sent) = <<Item(x)>> \o r
        /\ r \in Seq(QueueItem)
    <2>1. x \in Asked /\ Tail(sent) \in Seq(Asked) /\ Items(sent) = <<Item(x)>> \o r
      BY <1>2, ItemsFacts
    <2>. QED BY <2>1, ItemsFacts
  <1>4. Leads(replies, commandQueue, Known, <<Item(x)>> \o r, serverSubs)
    BY <1>1, <1>3, Zenon DEF Going, Paired
  <1>5. replies' = replies \o fs /\ sent' = Tail(sent) /\ serverSubs' = s2
        /\ UNCHANGED <<status, protocol, client, queues, outcome, wanted, misdelivered, leftEarly, faults>>
    BY <1>1, Zenon DEF ServerRuns
  <1>6. fs \in Seq(FrameRecord) /\ s2 \in Subs /\ Leads(fs, <<Item(x)>> \o r, serverSubs, r, s2)
    <2>0. x.args \in Seq(Channels) /\ x.args # <<>> /\ x.name \in Names /\ Len(x.args) \in Nat
      BY <1>3 DEF Asked, Command
    <2>1. CASE x.name \in Enter \cup Exit
      <3>1. Dropped(x, serverSubs) = x.args
        BY <2>0 DEF Dropped
      <3>2. fs = Confirmations(x, x.args, serverSubs) /\ Confirmed(x, serverSubs) = Len(x.args)
        BY <2>0, <2>1, <3>1 DEF Answers, Confirmed
      <3>3. s2 = SubsAfter(x, Len(x.args), serverSubs)
        BY <3>2
      <3>4. SubsAfter(x, Len(x.args), serverSubs) \in Subs
        <4>1. Len(x.args) \in 0..Len(x.args)
          BY <2>0
        <4>. QED BY <1>2, <1>3, <2>1, <4>1, SubsAfterFacts
      <3>5. /\ Confirmations(x, x.args, serverSubs) \in Seq(FrameRecord)
            /\ Leads(Confirmations(x, x.args, serverSubs), <<Item(x)>> \o r, serverSubs, r,
                     SubsAfter(x, Len(x.args), serverSubs))
        <4> HIDE DEF x, r
        <4>. QED BY <1>2, <1>3, <2>1, ConfirmationsLead
      <3> HIDE DEF x, r, fs, s2
      <3>. QED BY <3>2, <3>3, <3>4, <3>5
    <2>2. CASE x.name \notin Enter \cup Exit
      <3>1. x.name = "get" /\ s2 = serverSubs
        BY <2>0, <2>2 DEF Names, SubsAfter
      <3>2. PICK f \in FrameRecord : fs = <<f>> /\ f.type \in {"reply", "error"} /\ f.command = x
        <4>1. Frame("error", NoChannel, 0, x) \in FrameRecord /\ Frame("reply", NoChannel, 0, x) \in FrameRecord
          BY <1>3 DEF Frame, FrameRecord
        <4>2. fs = <<Frame("error", NoChannel, 0, x)>> \/ fs = <<Frame("reply", NoChannel, 0, x)>>
          BY <2>2 DEF Answers
        <4>3. Frame("error", NoChannel, 0, x).type = "error" /\ Frame("error", NoChannel, 0, x).command = x
              /\ Frame("reply", NoChannel, 0, x).type = "reply" /\ Frame("reply", NoChannel, 0, x).command = x
          BY DEF Frame
        <4> HIDE DEF fs, x
        <4>. QED BY <4>1, <4>2, <4>3
      <3>3. Item(x) \in QueueItem /\ Item(x).command = x
        BY <1>3, FreshItem, FreshAreItems
      <3>4. /\ <<Item(x)>> \o r \in Seq(QueueItem) /\ <<Item(x)>> \o r # <<>>
            /\ Head(<<Item(x)>> \o r) = Item(x) /\ Tail(<<Item(x)>> \o r) = r
        <4> HIDE DEF x, r
        <4>. QED BY <1>3, <3>3
      <3>5. Reads(f, <<Item(x)>> \o r, serverSubs, r, serverSubs)
        <4> HIDE DEF x, r
        <4>. QED BY <3>1, <3>2, <3>3, <3>4 DEF Reads
      <3>6. Leads(<<>>, <<Item(x)>> \o r, serverSubs, <<Item(x)>> \o r, serverSubs)
        BY <1>2, <3>4, RunNothing
      <3>7. <<>> \in Seq(FrameRecord) /\ Append(<<>>, f) = <<f>>
        OBVIOUS
      <3>8. Leads(<<f>>, <<Item(x)>> \o r, serverSubs, r, serverSubs)
        <4> HIDE DEF x, r
        <4>1. Leads(Append(<<>>, f), <<Item(x)>> \o r, serverSubs, r, serverSubs)
          BY <1>2, <1>3, <3>2, <3>4, <3>5, <3>6, <3>7, RunExtends
        <4>. QED BY <3>7, <4>1
      <3>9. <<f>> \in Seq(FrameRecord)
        BY <3>2
      <3> HIDE DEF x, r, fs, s2
      <3>. QED BY <1>2, <3>1, <3>2, <3>8, <3>9
    <2>. QED BY <2>1, <2>2
  <1>7. Leads(replies \o fs, commandQueue, Known, r, s2)
    <2> HIDE DEF x, r, fs, s2
    <2>. QED BY <1>2, <1>4, <1>6, RunConcat
  <1>8. Paired'
    <2>1. Known' = Known /\ commandQueue' = commandQueue
      BY <1>5 DEF Known, client, queues
    <2> HIDE DEF fs, s2
    <2>. QED BY <1>5, <1>7, <2>1 DEF Paired
  <1>9. Shapes' /\ ~misdelivered' /\ status' = "ready"
    <2>1. replies' \in Seq(FrameRecord)
      <3> HIDE DEF fs
      <3>. QED BY <1>2, <1>5, <1>6
    <2>2. sent' \in Seq(Asked) /\ serverSubs' \in Subs
      BY <1>3, <1>5, <1>6
    <2>. QED BY <1>1, <1>5, <2>1, <2>2 DEF Going, Shapes, client, queues
  <1>. QED BY <1>8, <1>9 DEF Going

\* A message comes only to a connection that has subscriptions.
LEMMA PublishKeeps == Going /\ Publish => Going'
PROOF
  <1>1. SUFFICES ASSUME Going, Publish PROVE Going'
    OBVIOUS
  <1>2. PICK s \in serverSubs :
          replies' = Append(replies, Frame("message", s[2], 0,
                                           [name |-> s[1], args |-> <<s[2]>>, caller |-> NoCmd]))
    BY <1>1 DEF Publish
  <1> DEFINE f == Frame("message", s[2], 0, [name |-> s[1], args |-> <<s[2]>>, caller |-> NoCmd])
  <1>3. serverSubs \in Subs /\ serverSubs # {} /\ s \in Subscriptions
    BY <1>1, <1>2, SubsAreSets DEF Going, Shapes
  <1>4. f \in FrameRecord /\ f.type = "message"
    <2>1. [name |-> s[1], args |-> <<s[2]>>, caller |-> NoCmd] \in Asked
      BY <1>3 DEF Asked, Command, Subscriptions, Names
    <2>. QED BY <1>3, <2>1 DEF Frame, FrameRecord, Subscriptions
  <1>5. Items(sent) \in Seq(QueueItem) /\ replies \in Seq(FrameRecord)
    BY <1>1, ItemsFacts DEF Going, Shapes
  <1>6. Reads(f, Items(sent), serverSubs, Items(sent), serverSubs)
    <2> HIDE DEF f
    <2>. QED BY <1>3, <1>4 DEF Reads
  <1> HIDE DEF f
  <1>7. Leads(Append(replies, f), commandQueue, Known, Items(sent), serverSubs)
    BY <1>1, <1>3, <1>4, <1>5, <1>6, RunExtends DEF Going, Paired
  <1>8. UNCHANGED <<status, protocol, client, queues, sent, serverSubs, outcome, wanted,
                    misdelivered, leftEarly, faults>> /\ replies' = Append(replies, f)
    BY <1>1, <1>2 DEF Publish, f
  <1>9. Paired'
    <2>1. Known' = Known /\ commandQueue' = commandQueue
      BY <1>8 DEF Known, client, queues
    <2>. QED BY <1>7, <1>8, <2>1 DEF Paired
  <1>10. Shapes' /\ ~misdelivered' /\ status' = "ready"
    <2>1. replies' \in Seq(FrameRecord)
      BY <1>4, <1>5, <1>8
    <2>. QED BY <1>1, <1>8, <2>1 DEF Going, Shapes, client, queues
  <1>. QED BY <1>9, <1>10 DEF Going

------------------------------------------------------------------------------
(* DataHandler.                                                              *)

\* A step of DataHandler that does to the client what the frame it reads must do.
LEMMA ReadingKeeps ==
  ASSUME Going, Receive,
         \A q2 \in Seq(QueueItem), s2 \in Subs :
           Reads(Arrived, commandQueue, Known, q2, s2)
             => /\ commandQueue' = q2 /\ Known' = s2 /\ ~misdelivered'
                /\ subscriber' \in Subs \cup {NoSet} /\ subscriber' # {}
  PROVE  Going' /\ Reads(Arrived, commandQueue, Known, commandQueue', Known')
PROOF
  <1>1. replies \in Seq(FrameRecord) /\ replies # <<>> /\ status = "ready"
        /\ Leads(replies, commandQueue, Known, Items(sent), serverSubs)
    BY DEF Going, Receive, Shapes, Paired
  <1>2. PICK Q, S : IsRun(Q, S, replies, commandQueue, Known, Items(sent), serverSubs)
    BY <1>1, Zenon DEF Leads
  <1>3. /\ Leads(Tail(replies), Q[1], S[1], Items(sent), serverSubs)
        /\ Reads(Head(replies), commandQueue, Known, Q[1], S[1])
        /\ Q[1] \in Seq(QueueItem) /\ S[1] \in Subs
    BY <1>1, <1>2, RunAdvances
  <1>4. /\ commandQueue' = Q[1] /\ Known' = S[1] /\ ~misdelivered'
        /\ subscriber' \in Subs \cup {NoSet} /\ subscriber' # {}
    BY <1>3 DEF Arrived
  <1>5. replies' = Tail(replies) /\ UNCHANGED <<status, protocol, prevSubscriber, offlineQueue,
          prevCommandQueue, sent, serverSubs, wanted, faults>>
    BY DEF Receive
  <1>6. Paired'
    BY <1>3, <1>4, <1>5 DEF Paired
  <1>7. Shapes'
    <2>1. replies' \in Seq(FrameRecord)
      BY <1>1, <1>5, HeadTailProperties
    <2>. QED BY <1>1, <1>3, <1>4, <1>5, <2>1 DEF Going, Shapes
  <1>. QED BY <1>1, <1>3, <1>4, <1>5, <1>6, <1>7 DEF Going, Arrived

\* What filling the head, or settling it, leaves of the queue.
LEMMA HeadFilled ==
  ASSUME Going, NEW q2, NEW s2, Confirms(Arrived, commandQueue, Known, s2), q2 = Served(commandQueue)
  PROVE  /\ FillSubCommand => commandQueue' = q2
         /\ \A count : FillUnsubCommand(count) => commandQueue' = q2
         /\ commandQueue # <<>> /\ HeadItem.command = Arrived.command
         /\ HeadItem.command.name = Arrived.type
PROOF
  <1>1. /\ commandQueue # <<>> /\ HeadItem.command = Arrived.command
        /\ HeadItem.remaining \in 1..Len(Arrived.command.args)
        /\ HeadItem.command.name = Arrived.type
    BY DEF Confirms, HeadItem
  <1>2. HeadItem.remaining # 0
    BY <1>1
  <1>3. FillSubCommand => commandQueue' = q2
    <2>1. CASE HeadItem.remaining - 1 <= 0
      BY <2>1 DEF FillSubCommand, Resolve, Shift, Served, HeadItem
    <2>2. CASE ~(HeadItem.remaining - 1 <= 0)
      BY <2>2, Zenon DEF FillSubCommand, Unshift, Served, HeadItem
    <2>. QED BY <2>1, <2>2
  <1>. QED BY <1>1, <1>2, <1>3, Zenon DEF FillUnsubCommand

\* Confirmations name one channel that the command names.
LEMMA ConfirmedIsNamed ==
  ASSUME NEW f, NEW q \in Seq(QueueItem), NEW s, NEW s2, Confirms(f, q, s, s2)
  PROVE  f.channel \in Channels /\ f.type \in Names
PROOF
  <1>1. Head(q) \in QueueItem /\ Head(q).command = f.command /\ Head(q).remaining \in 1..Len(f.command.args)
        /\ f.type = f.command.name /\ f.channel = Due(Head(q))
    BY HeadTailProperties DEF Confirms
  <1>2. f.command.args \in Seq(Channels) /\ f.command.name \in Names
    BY <1>1 DEF QueueItem, Asked, Command
  <1>3. Len(f.command.args) - Head(q).remaining + 1 \in 1..Len(f.command.args)
    BY <1>1, <1>2
  <1>. QED BY <1>1, <1>2, <1>3 DEF Due

\* A message changes nothing for the client.
LEMMA ReturnMessageKeeps ==
  Going /\ ReturnMessage => Going' /\ Reads(Arrived, commandQueue, Known, commandQueue', Known')
PROOF
  <1>1. SUFFICES ASSUME Going, ReturnMessage
               PROVE Going' /\ Reads(Arrived, commandQueue, Known, commandQueue', Known')
    OBVIOUS
  <1>2. Arrived.type = "message" /\ Receive /\ UNCHANGED <<subscriber, commandQueue, outcome, misdelivered, leftEarly>>
    BY <1>1 DEF ReturnMessage
  <1>3. ASSUME NEW q2 \in Seq(QueueItem), NEW s2 \in Subs, Reads(Arrived, commandQueue, Known, q2, s2)
        PROVE  q2 = commandQueue /\ s2 = Known
    BY <1>2, <1>3 DEF Reads, Confirms, Enter, Exit
  <1>4. Known' = Known /\ subscriber \in Subs \cup {NoSet} /\ subscriber # {} /\ ~misdelivered
    BY <1>1, <1>2 DEF Going, Shapes, Known
  <1>. QED BY <1>1, <1>2, <1>3, <1>4, ReadingKeeps

\* A confirmation adds its channel to the subscriptions and counts for the head.
LEMMA ReturnSubscribedKeeps ==
  Going /\ ReturnSubscribed => Going' /\ Reads(Arrived, commandQueue, Known, commandQueue', Known')
PROOF
  <1>1. SUFFICES ASSUME Going, ReturnSubscribed
               PROVE Going' /\ Reads(Arrived, commandQueue, Known, commandQueue', Known')
    OBVIOUS
  <1>2. /\ Arrived.type \in Enter /\ Receive /\ GiveToHead(FillSubCommand)
        /\ subscriber' = Known \cup {<<Arrived.type, Arrived.channel>>}
    BY <1>1 DEF ReturnSubscribed, Add
  <1>3. commandQueue \in Seq(QueueItem) /\ ~misdelivered /\ Known \in Subs
    BY <1>1, KnownType DEF Going, Shapes
  <1>4. ASSUME NEW q2 \in Seq(QueueItem), NEW s2 \in Subs, Reads(Arrived, commandQueue, Known, q2, s2)
        PROVE  /\ commandQueue' = q2 /\ Known' = s2 /\ ~misdelivered'
               /\ subscriber' \in Subs \cup {NoSet} /\ subscriber' # {}
    <2>1. Confirms(Arrived, commandQueue, Known, s2) /\ q2 = Served(commandQueue)
      BY <1>2, <1>4 DEF Reads, Enter
    <2>2. s2 = Known \cup {<<Arrived.type, Arrived.channel>>}
      BY <1>2, <2>1 DEF Confirms, Enter, Exit
    <2>3. subscriber' = s2 /\ s2 # {} /\ s2 # NoSet
      BY <1>2, <2>2, SubsAreSets
    <2>4. commandQueue' = q2 /\ ~misdelivered'
      BY <1>1, <1>2, <1>3, <2>1, HeadFilled DEF GiveToHead
    <2>. QED BY <2>3, <2>4 DEF Known
  <1>. QED BY <1>1, <1>2, <1>4, ReadingKeeps

\* So does one of an UNSUBSCRIBE, unless its count 0 ends the subscriber mode too early.
LEMMA ReturnUnsubscribedKeeps ==
  Going /\ ReturnUnsubscribed /\ ~leftEarly' => Going' /\ Reads(Arrived, commandQueue, Known, commandQueue', Known')
PROOF
  <1>1. SUFFICES ASSUME Going, ReturnUnsubscribed, ~leftEarly'
               PROVE Going' /\ Reads(Arrived, commandQueue, Known, commandQueue', Known')
    OBVIOUS
  <1> DEFINE remaining == Known \ {<<Kind(Arrived.type), Arrived.channel>>}
  <1>2. /\ Arrived.type \in Exit /\ Receive
        /\ subscriber' = IF Arrived.count = 0 \/ subscriber = NoSet THEN NoSet ELSE remaining
        /\ Arrived.count = 0 => remaining = {}
        /\ IF IsUnsolicited THEN UNCHANGED <<commandQueue, outcome, misdelivered>>
           ELSE GiveToHead(FillUnsubCommand(Arrived.count))
    BY <1>1 DEF ReturnUnsubscribed, Del
  <1>3. commandQueue \in Seq(QueueItem) /\ ~misdelivered /\ Known \in Subs /\ (subscriber = NoSet => Known = {})
    BY <1>1, KnownType DEF Going, Shapes, Known
  <1>4. ASSUME NEW q2 \in Seq(QueueItem), NEW s2 \in Subs, Reads(Arrived, commandQueue, Known, q2, s2)
        PROVE  /\ commandQueue' = q2 /\ Known' = s2 /\ ~misdelivered'
               /\ subscriber' \in Subs \cup {NoSet} /\ subscriber' # {}
    <2>1. Confirms(Arrived, commandQueue, Known, s2) /\ q2 = Served(commandQueue)
      BY <1>2, <1>4 DEF Reads, Exit
    <2>2. s2 = remaining /\ Arrived.count = Cardinality(Alike(s2, Arrived.type))
      BY <1>2, <2>1 DEF Confirms, Enter, Exit
    <2>3. s2 = {} => Arrived.count = 0
      <3>1. Alike({}, Arrived.type) = {}
        BY DEF Alike
      <3>. QED BY <2>2, <3>1, FS_EmptySet
    <2>4. subscriber' \in Subs \cup {NoSet} /\ subscriber' # {} /\ Known' = s2
      <3>1. s2 # NoSet /\ {} # NoSet
        BY SubsAreSets, FS_EmptySet DEF Subs
      <3>2. CASE Arrived.count = 0
        BY <1>2, <2>2, <3>1, <3>2 DEF Known
      <3>3. CASE subscriber = NoSet
        BY <1>2, <1>3, <2>2, <3>1, <3>3 DEF Known
      <3>4. CASE Arrived.count # 0 /\ subscriber # NoSet
        BY <1>2, <2>2, <2>3, <3>1, <3>4 DEF Known
      <3>. QED BY <3>2, <3>3, <3>4
    <2>5. ~IsUnsolicited
      BY <1>1, <2>1, HeadFilled DEF IsUnsolicited
    <2>6. commandQueue' = q2 /\ ~misdelivered'
      BY <1>1, <1>2, <1>3, <2>1, <2>5, HeadFilled DEF GiveToHead
    <2>. QED BY <2>4, <2>6
  <1>. QED BY <1>1, <1>2, <1>4, ReadingKeeps

\* Under RESP2 the command at the head tells a first confirmation from a reply.
LEMMA ReturnReplyByCommandKeeps ==
  Going /\ ReturnReplyByCommand => Going' /\ Reads(Arrived, commandQueue, Known, commandQueue', Known')
PROOF
  <1>1. SUFFICES ASSUME Going, ReturnReplyByCommand
               PROVE Going' /\ Reads(Arrived, commandQueue, Known, commandQueue', Known')
    OBVIOUS
  <1>2. /\ Receive /\ subscriber = NoSet /\ Arrived.type # "error"
        /\ IF commandQueue # <<>> /\ HeadItem.command.name \in Enter
           THEN /\ subscriber' = {<<HeadItem.command.name, Arrived.channel>>}
                /\ GiveToHead(FillSubCommand)
           ELSE /\ UNCHANGED subscriber
                /\ GiveToHead(IF HeadItem.command.name \in Exit
                              THEN FillUnsubCommand(Arrived.count) ELSE Resolve)
    BY <1>1 DEF ReturnReplyByCommand
  <1>3. commandQueue \in Seq(QueueItem) /\ ~misdelivered /\ Known = {}
    BY <1>1, <1>2 DEF Going, Shapes, Known
  <1>4. ASSUME NEW q2 \in Seq(QueueItem), NEW s2 \in Subs, Reads(Arrived, commandQueue, Known, q2, s2)
        PROVE  /\ commandQueue' = q2 /\ Known' = s2 /\ ~misdelivered'
               /\ subscriber' \in Subs \cup {NoSet} /\ subscriber' # {}
    <2>0. NoSet # {}
      BY SubsAreSets, FS_EmptySet DEF Subs
    <2>1. CASE Confirms(Arrived, commandQueue, Known, s2) /\ q2 = Served(commandQueue)
      <3>1. commandQueue # <<>> /\ HeadItem.command = Arrived.command /\ HeadItem.command.name = Arrived.type
        BY <1>1, <2>1, HeadFilled
      <3>2. CASE Arrived.type \in Enter
        <4>1. s2 = {<<Arrived.type, Arrived.channel>>}
          BY <1>3, <2>1, <3>2 DEF Confirms, Enter, Exit
        <4>2. subscriber' = s2 /\ s2 # {} /\ s2 # NoSet
          BY <1>2, <3>1, <3>2, <4>1, SubsAreSets
        <4>3. GiveToHead(FillSubCommand)
          BY <1>2, <3>1, <3>2
        <4>4. commandQueue' = q2 /\ ~misdelivered'
          BY <1>1, <1>3, <2>1, <3>1, <4>3, HeadFilled DEF GiveToHead
        <4>. QED BY <4>2, <4>4 DEF Known
      <3>3. CASE Arrived.type \notin Enter
        <4>1. Arrived.type \in Exit /\ s2 = {}
          BY <1>3, <2>1, <3>3 DEF Confirms
        <4>2. UNCHANGED subscriber /\ GiveToHead(FillUnsubCommand(Arrived.count))
          BY <1>2, <3>1, <3>3, <4>1 DEF GiveToHead
        <4>3. commandQueue' = q2 /\ ~misdelivered'
          BY <1>1, <1>3, <2>1, <3>1, <4>2, HeadFilled DEF GiveToHead
        <4>. QED BY <1>2, <2>0, <4>1, <4>2, <4>3 DEF Known
      <3>. QED BY <3>2, <3>3
    <2>2. CASE /\ commandQueue # <<>> /\ Head(commandQueue).command = Arrived.command
               /\ Arrived.command.name = "get"
               /\ q2 = Tail(commandQueue) /\ s2 = Known
      <3>1. HeadItem.command.name \notin Enter /\ HeadItem.command.name \notin Exit
            /\ HeadItem.command = Arrived.command
        BY <2>2 DEF HeadItem, Enter, Exit
      <3>2. UNCHANGED subscriber /\ GiveToHead(Resolve)
        BY <1>2, <3>1 DEF GiveToHead
      <3>. QED BY <1>2, <1>3, <2>0, <2>2, <3>1, <3>2 DEF Known, GiveToHead, Resolve, Shift
    <2>. QED BY <1>2, <1>3, <1>4, <2>1, <2>2 DEF Reads
  <1>. QED BY <1>1, <1>2, <1>4, ReadingKeeps

\* A reply, or an error, settles the GET at the head.
LEMMA ReturnReplyKeeps ==
  Going /\ (ReturnReply \/ ReturnError) => Going' /\ Reads(Arrived, commandQueue, Known, commandQueue', Known')
PROOF
  <1>1. SUFFICES ASSUME Going, ReturnReply \/ ReturnError
               PROVE Going' /\ Reads(Arrived, commandQueue, Known, commandQueue', Known')
    OBVIOUS
  <1>2. /\ Receive /\ UNCHANGED subscriber /\ Arrived.type \in {"reply", "error"}
        /\ GiveToHead(Resolve) \/ GiveToHead(Told("error") /\ Shift)
    BY <1>1 DEF ReturnReply, ReturnError
  <1>3. ~misdelivered /\ Known' = Known /\ subscriber \in Subs \cup {NoSet} /\ subscriber # {}
    BY <1>1, <1>2 DEF Going, Shapes, Known
  <1>4. ASSUME NEW q2 \in Seq(QueueItem), NEW s2 \in Subs, Reads(Arrived, commandQueue, Known, q2, s2)
        PROVE  /\ commandQueue' = q2 /\ Known' = s2 /\ ~misdelivered'
    <2>1. /\ commandQueue # <<>> /\ Head(commandQueue).command = Arrived.command
          /\ q2 = Tail(commandQueue) /\ s2 = Known
      BY <1>2, <1>4 DEF Reads, Confirms, Enter, Exit
    <2>. QED BY <1>2, <1>3, <2>1 DEF GiveToHead, Resolve, Shift, HeadItem
  <1>. QED BY <1>1, <1>2, <1>3, <1>4, ReadingKeeps

------------------------------------------------------------------------------
(* The application and the connection.                                       *)

\* A command written behind the others.
LEMMA IssueKeeps ==
  ASSUME NoBareCommand, NEW c \in Commands, Going, Issue(c)
  PROVE  Going'
PROOF
  <1> DEFINE x == CommandOf(c)
  <1>1. x \in Asked /\ Item(x) \in QueueItem
    BY CommandsAreAsked, FreshItem, FreshAreItems
  <1> HIDE DEF x
  <1>2. /\ commandQueue' = Append(commandQueue, Item(x)) /\ sent' = Append(sent, x)
        /\ UNCHANGED <<status, protocol, client, prevCommandQueue, replies, serverSubs,
                       misdelivered, leftEarly, faults, offlineQueue>>
    BY DEF Going, Issue, x
  <1>3. commandQueue \in Seq(QueueItem) /\ sent \in Seq(Asked) /\ replies \in Seq(FrameRecord)
        /\ Leads(replies, commandQueue, Known, Items(sent), serverSubs)
    BY DEF Going, Shapes, Paired
  <1>4. Items(Append(sent, x)) = Append(Items(sent), Item(x))
    <2>1. /\ Items(Append(sent, x)) \in Seq(QueueItem) /\ Items(sent) \in Seq(QueueItem)
          /\ Append(sent, x) \in Seq(Asked) /\ Len(sent) \in Nat
          /\ Len(Items(sent)) = Len(sent) /\ Len(Items(Append(sent, x))) = Len(sent) + 1
      <3>1. Append(sent, x) \in Seq(Asked) /\ Len(Append(sent, x)) = Len(sent) + 1 /\ Len(sent) \in Nat
        BY <1>1, <1>3
      <3>2. Items(Append(sent, x)) \in Seq(QueueItem) /\ Len(Items(Append(sent, x))) = Len(Append(sent, x))
        BY <3>1, ItemsFacts
      <3>3. Items(sent) \in Seq(QueueItem) /\ Len(Items(sent)) = Len(sent)
        BY <1>3, ItemsFacts
      <3>. QED BY <3>1, <3>2, <3>3
    <2>2. ASSUME NEW i \in 1..(Len(sent) + 1)
          PROVE  Items(Append(sent, x))[i] = Append(Items(sent), Item(x))[i]
      <3>1. Items(Append(sent, x))[i] = Item(Append(sent, x)[i])
        BY <1>1, <1>3, <2>1 DEF Items
      <3>2. CASE i = Len(sent) + 1
        <4>1. Append(Items(sent), Item(x))[i] = Item(x)
          BY <1>1, <2>1, <3>2
        <4>2. Append(sent, x)[i] = x
          BY <1>1, <1>3, <3>2
        <4>. QED BY <3>1, <4>1, <4>2
      <3>3. CASE i # Len(sent) + 1
        <4>1. i \in 1..Len(sent) /\ Append(sent, x)[i] = sent[i]
          BY <1>1, <1>3, <2>1, <3>3
        <4>2. Append(Items(sent), Item(x))[i] = Items(sent)[i]
          BY <1>1, <2>1, <4>1
        <4>3. Items(sent)[i] = Item(sent[i])
          BY <1>3, <4>1 DEF Items
        <4>. QED BY <3>1, <4>1, <4>2, <4>3
      <3>. QED BY <3>2, <3>3
    <2>3. Append(Items(sent), Item(x)) \in Seq(QueueItem) /\ Len(Append(Items(sent), Item(x))) = Len(sent) + 1
      BY <1>1, <2>1
    <2>. QED BY <2>1, <2>2, <2>3, SeqEqual
  <1>5. Leads(replies, Append(commandQueue, Item(x)), Known, Append(Items(sent), Item(x)), serverSubs)
    BY <1>1, <1>3, RunSends
  <1>6. Paired'
    <2>1. Known' = Known
      BY <1>2 DEF Known, client
    <2>. QED BY <1>2, <1>4, <1>5, <2>1 DEF Paired
  <1>7. commandQueue' \in Seq(QueueItem) /\ sent' \in Seq(Asked)
    BY <1>1, <1>2, <1>3
  <1>. QED BY <1>2, <1>6, <1>7 DEF Going, Shapes, client

\* The subscriptions the commands of a queue name.
NamedBy(q) == UNION {Named(x.command) : x \in ToSet(q)}
AllEnter(q) == \A x \in ToSet(q) : x.command.name \in Enter

\* What is subscribed to again.
LEMMA SubscribeFacts ==
  ASSUME NEW kind \in Enter, NEW chs \in SUBSET Channels, IsFiniteSet(chs)
  PROVE  /\ Subscribe(kind, chs) \in Seq(Fresh)
         /\ AllEnter(Subscribe(kind, chs)) /\ NamedBy(Subscribe(kind, chs)) = {kind} \X chs
PROOF
  <1>1. CASE chs = {}
    <2>1. Subscribe(kind, chs) = <<>>
      BY <1>1 DEF Subscribe
    <2>2. ToSet(<<>>) = {}
      BY DEF ToSet
    <2>3. <<>> \in Seq(Fresh) /\ {kind} \X chs = {}
      BY <1>1
    <2>. QED BY <2>1, <2>2, <2>3 DEF AllEnter, NamedBy
  <1>2. CASE chs # {}
    <2>1. SetToSeq(chs) \in Seq(chs) /\ ToSet(SetToSeq(chs)) = chs
      BY SetToSeqFacts
    <2> DEFINE x == [name |-> kind, args |-> SetToSeq(chs), caller |-> NoCmd]
    <2>2. x \in Asked
      <3>1. SetToSeq(chs) # <<>>
        BY <1>2, <2>1 DEF ToSet
      <3>. QED BY <2>1, <3>1 DEF Asked, Command, Names
    <2>3. Item(x) \in Fresh /\ Item(x).command = x
      BY <2>2, FreshItem
    <2>4. Subscribe(kind, chs) = <<Item(x)>> /\ ToSet(<<Item(x)>>) = {Item(x)}
      BY <1>2 DEF Subscribe, ToSet
    <2>5. Named(x) = {kind} \X chs
      <3>1. Kind(kind) = kind
        BY DEF Enter, Kind
      <3>2. Named(x) = {<<kind, SetToSeq(chs)[i]>> : i \in DOMAIN SetToSeq(chs)}
        BY <3>1 DEF Named
      <3>3. {SetToSeq(chs)[i] : i \in DOMAIN SetToSeq(chs)} = chs
        BY <2>1, Zenon DEF ToSet
      <3>. QED BY <3>2, <3>3
    <2>6. NamedBy(<<Item(x)>>) = Named(Item(x).command) /\ (AllEnter(<<Item(x)>>) <=> Item(x).command.name \in Enter)
      BY <2>4 DEF NamedBy, AllEnter
    <2>7. <<Item(x)>> \in Seq(Fresh) /\ x.name = kind
      BY <2>3
    <2> HIDE DEF x
    <2>. QED BY <2>3, <2>4, <2>5, <2>6, <2>7
  <1>. QED BY <1>1, <1>2

\* The channels of a kind among the subscriptions of a connection.
LEMMA ChannelsAreFinite ==
  ASSUME NEW s \in Subs, NEW kind
  PROVE  ChannelsOf(kind, s) \in SUBSET Channels /\ IsFiniteSet(ChannelsOf(kind, s))
PROOF
  <1> DEFINE T == {t \in s : t[1] = kind}
             ff == [t \in T |-> t[2]]
  <1>1. IsFiniteSet(T)
    BY FS_Subset DEF Subs
  <1>2. ff \in Surjection(T, ChannelsOf(kind, s))
    BY DEF ChannelsOf, Surjection
  <1>3. IsFiniteSet(ChannelsOf(kind, s))
    <2> HIDE DEF ff, T
    <2>. QED BY <1>1, <1>2, FS_Surjection
  <1>. QED BY <1>3 DEF Subs, Subscriptions, ChannelsOf

\* Sharded channels are subscribed to one by one.
LEMMA OneByOne ==
  ASSUME NEW chs \in SUBSET Channels, IsFiniteSet(chs)
  PROVE  LET ff == [i \in 1..Cardinality(chs) |-> Subscribe("ssubscribe", {SetToSeq(chs)[i]})]
         IN  /\ FlattenSeq(ff) \in Seq(Fresh)
             /\ AllEnter(FlattenSeq(ff)) /\ NamedBy(FlattenSeq(ff)) = {"ssubscribe"} \X chs
PROOF
  <1> DEFINE e(i) == Subscribe("ssubscribe", {SetToSeq(chs)[i]})
             n == Cardinality(chs)
             ff == [i \in 1..n |-> e(i)]
             g == FlattenSeq(ff)
  <1>1. SetToSeq(chs) \in Seq(chs) /\ IsInjective(SetToSeq(chs)) /\ ToSet(SetToSeq(chs)) = chs
    BY SetToSeqFacts
  <1>2. n \in Nat /\ Len(SetToSeq(chs)) = n
    <2>1. SetToSeq(chs) \in Bijection(1..Len(SetToSeq(chs)), chs)
      BY <1>1 DEF IsInjective, ToSet, Bijection, Injection, Surjection
    <2>2. Len(SetToSeq(chs)) \in Nat
      BY <1>1
    <2>3. ExistsBijection(1..Len(SetToSeq(chs)), chs)
      BY <2>1, Zenon DEF ExistsBijection
    <2>4. Cardinality(chs) = Len(SetToSeq(chs))
      BY <2>2, <2>3, FS_CountingElements
    <2>. QED BY <2>2, <2>4
  <1>3. {SetToSeq(chs)[i] : i \in 1..n} = chs /\ \A i \in 1..n : SetToSeq(chs)[i] \in chs
    <2>1. DOMAIN SetToSeq(chs) = 1..n
      BY <1>1, <1>2
    <2>. QED BY <1>1, <2>1, Zenon DEF ToSet
  <1>4. ASSUME NEW i \in 1..n
        PROVE  e(i) \in Seq(Fresh) /\ AllEnter(e(i)) /\ NamedBy(e(i)) = {<<"ssubscribe", SetToSeq(chs)[i]>>}
    <2>1. {SetToSeq(chs)[i]} \in SUBSET Channels /\ IsFiniteSet({SetToSeq(chs)[i]})
      BY <1>3, FS_Singleton
    <2>2. "ssubscribe" \in Enter
      BY DEF Enter
    <2>3. {"ssubscribe"} \X {SetToSeq(chs)[i]} = {<<"ssubscribe", SetToSeq(chs)[i]>>}
      OBVIOUS
    <2>. QED BY <2>1, <2>2, <2>3, SubscribeFacts
  <1>5. ff \in Seq(Seq(Fresh)) /\ DOMAIN ff = 1..n /\ \A i \in 1..n : ff[i] = e(i)
    <2>1. \A i \in 1..n : e(i) \in Seq(Fresh)
      BY <1>4
    <2>2. n \in Nat
      BY <1>2
    <2> HIDE DEF n, e
    <2>. QED BY <2>1, <2>2
  <1>6. g \in Seq(Fresh) /\ ToSet(g) = UNION {ToSet(ff[i]) : i \in 1..n}
    <2> HIDE DEF ff
    <2>. QED BY <1>5, FlattenSeqType, FlattenElements
  <1>7. AllEnter(g)
    <2> HIDE DEF ff, g, e, n
    <2>. QED BY <1>4, <1>5, <1>6 DEF AllEnter
  <1>8. NamedBy(g) = {"ssubscribe"} \X chs
    <2>1. NamedBy(g) = UNION {NamedBy(ff[i]) : i \in 1..n}
      <3> HIDE DEF ff, g, e, n
      <3>. QED BY <1>6 DEF NamedBy
    <2>2. UNION {NamedBy(ff[i]) : i \in 1..n} = {<<"ssubscribe", SetToSeq(chs)[i]>> : i \in 1..n}
      <3>1. \A i \in 1..n : NamedBy(ff[i]) = {<<"ssubscribe", SetToSeq(chs)[i]>>}
        BY <1>4, <1>5
      <3> HIDE DEF ff, g, e, n
      <3>. QED BY <3>1
    <2>3. {<<"ssubscribe", SetToSeq(chs)[i]>> : i \in 1..n} = {"ssubscribe"} \X chs
      <3>1. \A c : c \in chs <=> \E i \in 1..n : c = SetToSeq(chs)[i]
        BY <1>3, Zenon
      <3> HIDE DEF n
      <3>. QED BY <3>1
    <2>. QED BY <2>1, <2>2, <2>3
  <1>. QED BY <1>6, <1>7, <1>8

\* All that is subscribed to again is still to be confirmed, and it is what was lost.
LEMMA ResubscriptionsFacts ==
  ASSUME NEW s \in Subs
  PROVE  /\ Resubscriptions(s) \in Seq(Fresh)
         /\ AllEnter(Resubscriptions(s)) /\ NamedBy(Resubscriptions(s)) = s
PROOF
  <1> DEFINE a == Subscribe("subscribe", ChannelsOf("subscribe", s))
             b == Subscribe("psubscribe", ChannelsOf("psubscribe", s))
             chs == ChannelsOf("ssubscribe", s)
             g == FlattenSeq([i \in 1..Cardinality(chs) |-> Subscribe("ssubscribe", {SetToSeq(chs)[i]})])
  <1>1. /\ a \in Seq(Fresh) /\ AllEnter(a) /\ NamedBy(a) = {"subscribe"} \X ChannelsOf("subscribe", s)
        /\ b \in Seq(Fresh) /\ AllEnter(b) /\ NamedBy(b) = {"psubscribe"} \X ChannelsOf("psubscribe", s)
    BY ChannelsAreFinite, SubscribeFacts DEF Enter
  <1>2. g \in Seq(Fresh) /\ AllEnter(g) /\ NamedBy(g) = {"ssubscribe"} \X ChannelsOf("ssubscribe", s)
    BY ChannelsAreFinite, OneByOne
  <1>3. Resubscriptions(s) = (a \o b) \o g
    BY Zenon DEF Resubscriptions
  <1>4. (a \o b) \o g \in Seq(Fresh) /\ ToSet((a \o b) \o g) = ToSet(a) \cup ToSet(b) \cup ToSet(g)
    <2> HIDE DEF a, b, g
    <2> DEFINE ab == a \o b
    <2>1. ab \in Seq(Fresh) /\ ToSet(ab) = ToSet(a) \cup ToSet(b)
      BY <1>1, ConcatElements
    <2> HIDE DEF ab
    <2>2. ab \o g \in Seq(Fresh) /\ ToSet(ab \o g) = ToSet(ab) \cup ToSet(g)
      BY <1>2, <2>1, ConcatElements
    <2>. QED BY <2>1, <2>2 DEF ab
  <1>5. AllEnter((a \o b) \o g) /\ NamedBy((a \o b) \o g) = NamedBy(a) \cup NamedBy(b) \cup NamedBy(g)
    <2> HIDE DEF a, b, g
    <2>. QED BY <1>1, <1>2, <1>4 DEF AllEnter, NamedBy
  <1>6. NamedBy(a) \cup NamedBy(b) \cup NamedBy(g) = s
    <2>1. \A t \in s : t = <<t[1], t[2]>> /\ t[1] \in {"subscribe", "psubscribe", "ssubscribe"}
      BY SubsAreSets DEF Subscriptions, Enter
    <2>2. \A kind : {kind} \X ChannelsOf(kind, s) = {t \in s : t[1] = kind}
      <3>1. TAKE kind
      <3>2. ASSUME NEW u \in {kind} \X ChannelsOf(kind, s) PROVE u \in s /\ u[1] = kind
        <4>1. PICK t \in s : t[1] = kind /\ t[2] = u[2]
          BY <3>2 DEF ChannelsOf
        <4>2. u = <<u[1], u[2]>> /\ u[1] = kind
          BY <3>2
        <4>. QED BY <2>1, <4>1, <4>2
      <3>3. ASSUME NEW t \in s, t[1] = kind PROVE t \in {kind} \X ChannelsOf(kind, s)
        <4>1. t[2] \in ChannelsOf(kind, s)
          BY <3>3 DEF ChannelsOf
        <4>. QED BY <2>1, <3>3, <4>1
      <3>. QED BY <3>2, <3>3
    <2> HIDE DEF a, b, g
    <2>. QED BY <1>1, <1>2, <2>1, <2>2
  <1>. QED BY <1>3, <1>4, <1>5, <1>6

\* The commands of the handshake's end: all are written, none is answered.
LEMMA ReadyKeeps ==
  ASSUME Shapes, ~misdelivered, Ready
  PROVE  Going'
PROOF
  <1>1. /\ status = "connecting" /\ commandQueue = <<>> /\ subscriber = NoSet
        /\ prevCommandQueue \in Seq(Fresh) /\ offlineQueue \in Seq(Fresh)
        /\ replies = <<>> /\ serverSubs = {} /\ sent = <<>>
    BY DEF Shapes, Ready
  <1> DEFINE resubscribed == IF prevSubscriber \in {NoCondition, NoSet} \/ ~AutoResubscribe
                             THEN <<>> ELSE Resubscriptions(prevSubscriber)
             resent == IF AutoResend THEN prevCommandQueue ELSE <<>>
  <1>2. /\ commandQueue' = resubscribed \o resent \o offlineQueue
        /\ sent' = [i \in DOMAIN commandQueue' |-> commandQueue'[i].command]
        /\ prevSubscriber' = NoCondition /\ prevCommandQueue' = <<>> /\ offlineQueue' = <<>>
        /\ status' = "ready"
        /\ UNCHANGED <<protocol, subscriber, replies, serverSubs, outcome, wanted, misdelivered, leftEarly, faults>>
    BY DEF Ready
  <1>3. resubscribed \in Seq(Fresh) /\ resent \in Seq(Fresh)
    BY <1>1, ResubscriptionsFacts DEF Shapes
  <1>4. commandQueue' \in Seq(Fresh)
    <2> HIDE DEF resubscribed, resent
    <2>. QED BY <1>1, <1>2, <1>3
  <1>5. sent' \in Seq(Asked) /\ Items(sent') = commandQueue' /\ commandQueue' \in Seq(QueueItem)
    <2> DEFINE q == commandQueue'
    <2>1. q \in Seq(Fresh) /\ sent' = [i \in DOMAIN q |-> q[i].command]
      BY <1>2, <1>4
    <2> HIDE DEF q
    <2>2. \A i \in DOMAIN q : q[i] \in Fresh /\ q[i].command \in Asked
      BY <2>1 DEF Fresh, QueueItem
    <2>3. sent' \in Seq(Asked)
      BY <2>1, <2>2
    <2>4. q \in Seq(QueueItem)
      BY <2>1, FreshAreItems
    <2>5. Items(sent') = [i \in DOMAIN q |-> Item(q[i].command)]
      BY <2>1 DEF Items
    <2>6. Items(sent') = q
      <3>1. \A i \in DOMAIN q : Item(q[i].command) = q[i]
        BY <2>2, FreshIsItem
      <3>2. q = [i \in DOMAIN q |-> q[i]]
        BY <2>1
      <3>. QED BY <2>5, <3>1, <3>2, Zenon
    <2>. QED BY <2>3, <2>4, <2>6 DEF q
  <1>6. {} \in Subs
    BY FS_EmptySet DEF Subs
  <1>7. Known' = {}
    BY <1>1, <1>2 DEF Known
  <1>8. Paired'
    <2>1. Leads(<<>>, commandQueue', {}, commandQueue', {})
      BY <1>5, <1>6, RunNothing
    <2>. QED BY <1>1, <1>2, <1>5, <1>7, <2>1 DEF Paired
  <1>9. Shapes'
    <2>1. subscriber' \in Subs \cup {NoSet} /\ subscriber' # {}
      BY <1>1, <1>2 DEF Shapes
    <2>2. replies' \in Seq(FrameRecord) /\ serverSubs' \in Subs
      BY <1>1, <1>2, <1>6
    <2>3. commandQueue' \in Seq(QueueItem) /\ sent' \in Seq(Asked)
      BY <1>5
    <2> HIDE DEF resubscribed, resent
    <2>. QED BY <1>2, <2>1, <2>2, <2>3, NothingTyped DEF Shapes
  <1>. QED BY <1>2, <1>8, <1>9 DEF Going

\* Connections are lost between commands, and what is not answered is asked again.
LEMMA LoseKeeps ==
  ASSUME NothingIsCut, Shapes, Lose
  PROVE  Shapes' /\ status' # "ready"
PROOF
  <1>1. /\ status # "reconnecting" /\ NothingCut
        /\ status' = "reconnecting"
        /\ prevSubscriber' = PrevCondition
        /\ prevCommandQueue' = IF status = "ready" /\ commandQueue # <<>>
                               THEN commandQueue ELSE prevCommandQueue
        /\ sent' = <<>> /\ replies' = <<>> /\ serverSubs' = {}
        /\ UNCHANGED <<protocol, subscriber, offlineQueue, commandQueue, outcome, wanted, misdelivered, leftEarly>>
    BY DEF Lose, NothingIsCut
  <1>2. prevSubscriber' \in Subs \cup {NoSet, NoCondition}
    BY <1>1 DEF Shapes, PrevCondition
  <1>3. commandQueue \in Seq(Fresh)
    <2>1. commandQueue \in Seq(QueueItem)
      BY DEF Shapes
    <2>2. \A i \in 1..Len(commandQueue) : commandQueue[i] \in Fresh
      <3>1. \A i \in 1..Len(commandQueue) : commandQueue[i].command \in Asked
        <4>1. \A x \in QueueItem : x.command \in Asked
          BY DEF QueueItem
        <4>. QED BY <2>1, <4>1
      <3>2. \A i \in 1..Len(commandQueue) : commandQueue[i] = Item(commandQueue[i].command)
        BY <1>1, <2>1 DEF NothingCut
      <3>. QED BY <3>1, <3>2, FreshItem
    <2>. QED BY <2>1, <2>2
  <1>4. serverSubs' \in Subs
    BY <1>1, FS_EmptySet DEF Subs
  <1>. QED BY <1>1, <1>2, <1>3, <1>4 DEF Shapes

------------------------------------------------------------------------------
(* No frame is taken for the answer to another command.                      *)

\* The inductive step: one lemma for each kind of step.
LEMMA PairStep ==
  ASSUME NothingIsCut, NoBareCommand, PairInv, [Next]_vars
  PROVE  PairInv'
PROOF
  <1>1. SUFFICES ASSUME ~leftEarly' PROVE (Shapes /\ ~misdelivered /\ (status = "ready" => Paired))'
    BY DEF PairInv
  <1>2. leftEarly => leftEarly'
    BY DEF Next, vars, Connection, Reconnect, Ready, ServerRuns, DataHandler, ReturnMessage,
           ReturnSubscribed, Add, ReturnUnsubscribed, Del, ReturnReplyByCommand, ReturnReply,
           ReturnError, Lose, Publish, Issue, IssueRefused
  <1>3. Shapes /\ ~misdelivered /\ (status = "ready" => Going)
    BY <1>1, <1>2 DEF PairInv, Going
  <1>4. Going' => (Shapes /\ ~misdelivered /\ (status = "ready" => Paired))'
    BY DEF Going
  <1>5. CASE UNCHANGED vars
    <2>1. Shapes' /\ ~misdelivered'
      BY <1>3, <1>5 DEF vars, client, queues, Shapes
    <2>2. Paired' <=> Paired
      BY <1>5 DEF vars, client, queues, Paired, Known
    <2>3. status' = status
      BY <1>5 DEF vars
    <2>. QED BY <1>3, <2>1, <2>2, <2>3 DEF Going
  <1>6. CASE Reconnect
    <2>1. Shapes' /\ ~misdelivered' /\ status' # "ready"
      BY <1>3, <1>6, NothingTyped DEF Reconnect, Shapes
    <2>. QED BY <2>1
  <1>7. CASE Ready
    BY <1>3, <1>4, <1>7, ReadyKeeps
  <1>8. CASE ServerRuns
    <2>1. status = "ready"
      BY <1>3, <1>8 DEF ServerRuns, Shapes
    <2>. QED BY <1>3, <1>4, <1>8, <2>1, ServerRunsKeeps
  <1>9. CASE DataHandler
    <2>1. status = "ready"
      BY <1>9 DEF DataHandler, ReturnMessage, ReturnSubscribed, ReturnUnsubscribed,
                  ReturnReplyByCommand, ReturnReply, ReturnError, Receive
    <2>. QED BY <1>1, <1>3, <1>4, <1>9, <2>1, ReturnMessageKeeps, ReturnSubscribedKeeps,
                ReturnUnsubscribedKeeps, ReturnReplyByCommandKeeps, ReturnReplyKeeps DEF DataHandler
  <1>10. CASE Lose
    <2>1. Shapes' /\ status' # "ready"
      BY <1>3, <1>10, LoseKeeps
    <2>2. ~misdelivered'
      BY <1>3, <1>10 DEF Lose
    <2>. QED BY <2>1, <2>2
  <1>11. CASE Publish
    <2>1. status = "ready"
      BY <1>3, <1>11 DEF Publish, Shapes
    <2>. QED BY <1>3, <1>4, <1>11, <2>1, PublishKeeps
  <1>12. ASSUME NEW c \in Commands, Issue(c)
         PROVE  (Shapes /\ ~misdelivered /\ (status = "ready" => Paired))'
    <2>1. CASE status = "ready"
      BY <1>3, <1>4, <1>12, <2>1, IssueKeeps
    <2>2. CASE status # "ready"
      <3>1. Item(CommandOf(c)) \in Fresh
        BY CommandsAreAsked, FreshItem
      <3>2. /\ offlineQueue' = Append(offlineQueue, Item(CommandOf(c)))
            /\ UNCHANGED <<status, protocol, client, prevCommandQueue, commandQueue, sent, replies,
                           serverSubs, misdelivered, leftEarly, faults>>
        BY <1>12, <2>2 DEF Issue
      <3>3. offlineQueue' \in Seq(Fresh)
        BY <1>3, <3>1, <3>2 DEF Shapes
      <3>. QED BY <1>3, <2>2, <3>2, <3>3 DEF Shapes, client
    <2>. QED BY <2>1, <2>2
  <1>13. ASSUME NEW c \in Commands, IssueRefused(c)
         PROVE  (Shapes /\ ~misdelivered /\ (status = "ready" => Paired))'
    <2>1. UNCHANGED <<status, protocol, client, queues, sent, replies, serverSubs, wanted,
                      misdelivered, leftEarly, faults>>
      BY <1>13 DEF IssueRefused
    <2>2. Shapes' /\ ~misdelivered'
      BY <1>3, <2>1 DEF client, queues, Shapes
    <2>3. Paired' <=> Paired
      BY <2>1 DEF client, queues, Paired, Known
    <2>. QED BY <1>3, <2>1, <2>2, <2>3 DEF Going
  <1>. QED BY <1>5, <1>6, <1>7, <1>8, <1>9, <1>10, <1>11, <1>12, <1>13 DEF Next, Connection

\* The invariant holds initially.
LEMMA PairInit == Init => PairInv
PROOF
  BY NothingTyped DEF Init, PairInv, Shapes

\* Every frame that settles a command, or counts for it, answers that command, whatever the
\* protocol, however many connections are lost, and whatever is published meanwhile.
THEOREM NothingMisdeliveredTheorem ==
  ASSUME NothingIsCut, NoBareCommand
  PROVE  Spec => []NothingMisdelivered
PROOF
  <1>1. Init => PairInv
    BY PairInit
  <1>2. PairInv /\ [Next]_vars => PairInv'
    BY PairStep
  <1>3. PairInv => NothingMisdelivered
    BY DEF PairInv, NothingMisdelivered
  <1>. QED BY <1>1, <1>2, <1>3, PTL DEF Spec

------------------------------------------------------------------------------
(* What the commands of a queue make of a set of subscriptions.              *)

Mentions(x, t) == x.command.name \in Enter \cup Exit /\ t \in Named(x.command)
Enters(x, t) == x.command.name \in Enter /\ t \in Named(x.command)

\* The last command of the queue that names t decides whether it is subscribed to.
Leaves(q, s, t) ==
  \/ t \in s /\ \A i \in DOMAIN q : ~Mentions(q[i], t)
  \/ \E i \in DOMAIN q : Enters(q[i], t) /\ \A j \in DOMAIN q : j > i => ~Mentions(q[j], t)
After(q, s) == {t \in Subscriptions : Leaves(q, s, t)}

Effect(command, s) ==
  IF command.name \in Enter THEN s \cup Named(command)
  ELSE IF command.name \in Exit THEN s \ Named(command)
  ELSE s

\* Only the head has received confirmations, and they were applied to s.
PartDone(q, s) ==
  /\ \A i \in 2..Len(q) : q[i] \in Fresh
  /\ q # <<>> =>
       \A i \in 1..(Len(Head(q).command.args) - Head(q).remaining) :
         /\ Head(q).command.name \in Enter => <<Head(q).command.name, Head(q).command.args[i]>> \in s
         /\ Head(q).command.name \in Exit => <<Kind(Head(q).command.name), Head(q).command.args[i]>> \notin s

\* The subscriptions readyHandler starts from.
Base == IF prevSubscriber \in {NoCondition, NoSet} THEN {} ELSE prevSubscriber

\* What is queued turns what the client knows of into what the application wants.
InStep ==
  IF status = "ready" THEN PartDone(commandQueue, Known) /\ wanted = After(commandQueue, Known)
  ELSE wanted = After(prevCommandQueue \o offlineQueue, Base)

\* The inductive invariant behind InSync.
SyncInv == PairInv /\ (~leftEarly /\ AutoResubscribe /\ AutoResend => InStep)

\* One queue and then another.
LEMMA AfterConcat ==
  ASSUME NEW q \in Seq(QueueItem), NEW r \in Seq(QueueItem), NEW s
  PROVE  After(q \o r, s) = After(r, After(q, s))
PROOF
  <1> DEFINE n == Len(q)
             m == Len(r)
             u == q \o r
  <1>1. /\ n \in Nat /\ m \in Nat /\ DOMAIN q = 1..n /\ DOMAIN r = 1..m /\ DOMAIN u = 1..(n + m)
        /\ \A i \in 1..n : u[i] = q[i]
        /\ \A i \in 1..m : u[n + i] = r[i] /\ n + i \in 1..(n + m)
        /\ \A i \in 1..(n + m) : i \in 1..n \/ \E j \in 1..m : i = n + j
        /\ \A i \in 1..n : i \in 1..(n + m)
    <2>1. n \in Nat /\ m \in Nat /\ DOMAIN q = 1..n /\ DOMAIN r = 1..m /\ DOMAIN u = 1..(n + m)
      OBVIOUS
    <2>2. \A i \in 1..n : u[i] = q[i]
      OBVIOUS
    <2>3. \A i \in 1..m : u[n + i] = r[i]
      OBVIOUS
    <2> HIDE DEF n, m, u
    <2>4. \A i \in 1..m : n + i \in 1..(n + m)
      BY <2>1
    <2>5. ASSUME NEW i \in 1..(n + m), i \notin 1..n PROVE \E j \in 1..m : i = n + j
      <3>1. i - n \in 1..m /\ i = n + (i - n)
        BY <2>1, <2>5
      <3>. QED BY <3>1
    <2>6. \A i \in 1..n : i \in 1..(n + m)
      BY <2>1
    <2>. QED BY <2>1, <2>2, <2>3, <2>4, <2>5, <2>6
  <1> HIDE DEF n, m, u
  <1>2. ASSUME NEW t \in Subscriptions
        PROVE  Leaves(u, s, t) <=> Leaves(r, After(q, s), t)
    <2>1. t \in After(q, s) <=> Leaves(q, s, t)
      BY Zenon DEF After
    <2>2. \A x : Enters(x, t) => Mentions(x, t)
      BY DEF Enters, Mentions
    <2>3. CASE \E j \in 1..m : Mentions(r[j], t)
      <3>1. PICK j \in 1..m : Mentions(r[j], t)
        BY <2>3
      <3>2. n + j \in 1..(n + m) /\ Mentions(u[n + j], t)
        BY <1>1, <3>1
      <3>3. ASSUME Leaves(u, s, t) PROVE Leaves(r, After(q, s), t)
        <4>1. PICK i \in 1..(n + m) : Enters(u[i], t) /\ \A k \in 1..(n + m) : k > i => ~Mentions(u[k], t)
          BY <1>1, <3>2, <3>3, Zenon DEF Leaves
        <4>2. i \notin 1..n
          BY <1>1, <3>2, <4>1
        <4>3. PICK i2 \in 1..m : i = n + i2
          BY <1>1, <4>1, <4>2, Zenon
        <4>4. Enters(r[i2], t)
          BY <1>1, <4>1, <4>3
        <4>5. ASSUME NEW k \in 1..m, k > i2 PROVE ~Mentions(r[k], t)
          <5>1. n + k \in 1..(n + m) /\ n + k > i /\ u[n + k] = r[k]
            BY <1>1, <4>3, <4>5
          <5>. QED BY <4>1, <5>1
        <4>. QED BY <1>1, <4>4, <4>5 DEF Leaves
      <3>4. ASSUME Leaves(r, After(q, s), t) PROVE Leaves(u, s, t)
        <4>1. PICK i \in 1..m : Enters(r[i], t) /\ \A k \in 1..m : k > i => ~Mentions(r[k], t)
          BY <1>1, <3>1, <3>4, Zenon DEF Leaves
        <4>2. n + i \in 1..(n + m) /\ Enters(u[n + i], t)
          BY <1>1, <4>1
        <4>3. ASSUME NEW k \in 1..(n + m), k > n + i PROVE ~Mentions(u[k], t)
          <5>1. k \notin 1..n
            BY <1>1, <4>3
          <5>2. PICK k2 \in 1..m : k = n + k2
            BY <1>1, <5>1, Zenon
          <5>3. k2 > i /\ u[k] = r[k2]
            BY <1>1, <4>3, <5>2
          <5>. QED BY <4>1, <5>3
        <4>. QED BY <1>1, <4>2, <4>3 DEF Leaves
      <3>. QED BY <3>3, <3>4
    <2>4. CASE \A j \in 1..m : ~Mentions(r[j], t)
      <3>1. Leaves(r, After(q, s), t) <=> Leaves(q, s, t)
        BY <1>1, <2>1, <2>2, <2>4, Zenon DEF Leaves
      <3>2. ASSUME NEW k \in 1..(n + m), Mentions(u[k], t)
            PROVE  k \in 1..n /\ Mentions(q[k], t)
        BY <1>1, <2>4, <3>2
      <3>3. ASSUME Leaves(u, s, t) PROVE Leaves(q, s, t)
        <4>1. CASE t \in s /\ \A i \in 1..(n + m) : ~Mentions(u[i], t)
          BY <1>1, <4>1 DEF Leaves
        <4>2. CASE \E i \in 1..(n + m) : Enters(u[i], t) /\ \A k \in 1..(n + m) : k > i => ~Mentions(u[k], t)
          <5>1. PICK i \in 1..(n + m) : Enters(u[i], t) /\ \A k \in 1..(n + m) : k > i => ~Mentions(u[k], t)
            BY <4>2
          <5>2. i \in 1..n /\ Enters(q[i], t)
            BY <1>1, <2>2, <3>2, <5>1
          <5>3. \A k \in 1..n : k > i => ~Mentions(q[k], t)
            BY <1>1, <5>1
          <5>. QED BY <1>1, <5>2, <5>3 DEF Leaves
        <4>. QED BY <1>1, <3>3, <4>1, <4>2 DEF Leaves
      <3>4. ASSUME Leaves(q, s, t) PROVE Leaves(u, s, t)
        <4>1. CASE t \in s /\ \A i \in 1..n : ~Mentions(q[i], t)
          <5>1. \A i \in 1..(n + m) : ~Mentions(u[i], t)
            BY <3>2, <4>1
          <5>. QED BY <1>1, <4>1, <5>1 DEF Leaves
        <4>2. CASE \E i \in 1..n : Enters(q[i], t) /\ \A k \in 1..n : k > i => ~Mentions(q[k], t)
          <5>1. PICK i \in 1..n : Enters(q[i], t) /\ \A k \in 1..n : k > i => ~Mentions(q[k], t)
            BY <4>2
          <5>2. i \in 1..(n + m) /\ Enters(u[i], t)
            BY <1>1, <5>1
          <5>3. \A k \in 1..(n + m) : k > i => ~Mentions(u[k], t)
            BY <3>2, <5>1
          <5>. QED BY <1>1, <5>2, <5>3 DEF Leaves
        <4>. QED BY <1>1, <3>4, <4>1, <4>2 DEF Leaves
      <3>. QED BY <3>1, <3>3, <3>4
    <2>. QED BY <2>3, <2>4
  <1>. QED BY <1>2 DEF After, u

\* No queue, and a queue of one command.
LEMMA AfterOne ==
  ASSUME NEW s \in SUBSET Subscriptions, NEW x \in QueueItem
  PROVE  /\ After(<<>>, s) = s
         /\ After(<<x>>, s) = Effect(x.command, s)
         /\ x.command.name \in Enter \cup Exit => Named(x.command) \subseteq Subscriptions
PROOF
  <1>1. After(<<>>, s) = s
    BY DEF After, Leaves
  <1>2. x.command.args \in Seq(Channels) /\ x.command.name \in Names
    BY DEF QueueItem, Asked, Command
  <1>3. x.command.name \in Enter \cup Exit => Named(x.command) \subseteq Subscriptions
    <2>1. x.command.name \in Enter \cup Exit => Kind(x.command.name) \in Enter
      BY DEF Enter, Exit, Kind
    <2>. QED BY <1>2, <2>1 DEF Named, Subscriptions
  <1>4. ASSUME NEW t \in Subscriptions
        PROVE  Leaves(<<x>>, s, t) <=> t \in Effect(x.command, s)
    <2>1. Leaves(<<x>>, s, t) <=> (t \in s /\ ~Mentions(x, t)) \/ Enters(x, t)
      BY DEF Leaves
    <2>2. x.command.name \in Exit => x.command.name \notin Enter
      BY DEF Enter, Exit
    <2>. QED BY <2>1, <2>2 DEF Mentions, Enters, Effect
  <1>5. Effect(x.command, s) \subseteq Subscriptions
    BY <1>3 DEF Effect
  <1>6. After(<<x>>, s) = Effect(x.command, s)
    BY <1>4, <1>5 DEF After
  <1>. QED BY <1>1, <1>3, <1>6

\* A command at the end of a queue, and one at its head.
LEMMA AfterEnds ==
  ASSUME NEW q \in Seq(QueueItem), NEW s \in SUBSET Subscriptions, NEW x \in QueueItem
  PROVE  /\ After(Append(q, x), s) = Effect(x.command, After(q, s))
         /\ After(<<x>> \o q, s) = After(q, Effect(x.command, s))
PROOF
  <1>1. Append(q, x) = q \o <<x>> /\ <<x>> \in Seq(QueueItem)
    OBVIOUS
  <1>2. After(q, s) \in SUBSET Subscriptions
    BY DEF After
  <1>3. After(<<x>>, After(q, s)) = Effect(x.command, After(q, s)) /\ After(<<x>>, s) = Effect(x.command, s)
    BY <1>2, AfterOne
  <1>4. After(q \o <<x>>, s) = After(<<x>>, After(q, s)) /\ After(<<x>> \o q, s) = After(q, After(<<x>>, s))
    BY <1>1, AfterConcat
  <1>. QED BY <1>1, <1>3, <1>4

\* A frame that is read rightly does not change what is to come of the queue.
LEMMA ReadsInStep ==
  ASSUME NEW f, NEW q \in Seq(QueueItem), NEW s \in Subs, NEW q2, NEW s2 \in Subs,
         Reads(f, q, s, q2, s2), PartDone(q, s)
  PROVE  PartDone(q2, s2) /\ After(q2, s2) = After(q, s)
PROOF
  <1>0. s \in SUBSET Subscriptions /\ s2 \in SUBSET Subscriptions
    BY SubsAreSets
  <1>1. CASE f.type = "message" /\ s # {} /\ q2 = q /\ s2 = s
    BY <1>1
  <1> DEFINE h == Head(q)
             r == Tail(q)
  <1>2. ASSUME q # <<>>
        PROVE  /\ h \in QueueItem /\ r \in Seq(QueueItem) /\ q = <<h>> \o r
               /\ \A i \in 1..Len(r) : r[i] \in Fresh
    <2>1. h \in QueueItem /\ r \in Seq(QueueItem) /\ q = <<h>> \o r
      BY <1>2, HeadTailProperties, HeadThenTail
    <2>2. \A i \in 1..Len(r) : r[i] = q[i + 1] /\ i + 1 \in 2..Len(q)
      BY <1>2, HeadTailProperties
    <2>. QED BY <2>1, <2>2 DEF PartDone
  <1>3. ASSUME q # <<>> PROVE PartDone(r, s2)
    <2>1. r \in Seq(Fresh)
      <3>1. r \in Seq(QueueItem) /\ \A i \in 1..Len(r) : r[i] \in Fresh
        BY <1>2, <1>3
      <3> HIDE DEF r
      <3>. QED BY <3>1
    <2>2. \A i \in 2..Len(r) : r[i] \in Fresh
      BY <2>1
    <2>3. r # <<>> => 1..(Len(Head(r).command.args) - Head(r).remaining) = {}
      BY <2>1 DEF Fresh, QueueItem, Asked, Command
    <2> HIDE DEF r
    <2>. QED BY <2>2, <2>3 DEF PartDone
  <1>4. CASE /\ f.type \in {"reply", "error"} /\ q # <<>> /\ Head(q).command = f.command
             /\ f.command.name = "get"
             /\ q2 = Tail(q) /\ s2 = s
    <2>1. Effect(h.command, s) = s
      BY <1>4 DEF Effect, Enter, Exit
    <2>2. After(<<h>> \o r, s) = After(r, Effect(h.command, s))
      <3> HIDE DEF h, r
      <3>. QED BY <1>0, <1>2, <1>4, AfterEnds
    <2>3. After(q, s) = After(r, s)
      <3> HIDE DEF h, r
      <3>. QED BY <1>2, <1>4, <2>1, <2>2
    <2>. QED BY <1>3, <1>4, <2>3
  <1>5. CASE Confirms(f, q, s, s2) /\ q2 = Served(q)
    <2> DEFINE x == h.command
               n == Len(x.args)
               k == h.remaining
               t == <<Kind(x.name), x.args[n - k + 1]>>
    <2>1. /\ q # <<>> /\ k \in 1..n /\ n \in Nat /\ h \in QueueItem
          /\ x.args \in Seq(Channels) /\ x.name \in Names
          /\ \/ x.name \in Enter /\ s2 = s \cup {t}
             \/ x.name \in Exit /\ x.name \notin Enter /\ s2 = s \ {t}
      <3>1. q # <<>> /\ h \in QueueItem /\ f.type = x.name /\ f.channel = x.args[n - k + 1] /\ k \in 1..n
        BY <1>2, <1>5 DEF Confirms, Due
      <3>2. x.args \in Seq(Channels) /\ x.name \in Names
        BY <3>1 DEF QueueItem, Asked, Command
      <3>3. x.name \in Enter => Kind(x.name) = x.name /\ x.name \notin Exit
        BY DEF Enter, Exit, Kind
      <3>. QED BY <1>5, <3>1, <3>2, <3>3 DEF Confirms
    <2>2. t \in Named(x) /\ n - k + 1 \in 1..n
      <3>1. n - k + 1 \in 1..n /\ DOMAIN x.args = 1..n
        BY <2>1
      <3>. QED BY <3>1, Zenon DEF Named
    <2>3. Effect(x, s2) = Effect(x, s)
      BY <2>1, <2>2 DEF Effect
    <2>4. After(q, s) = After(r, Effect(x, s2))
      <3>1. After(<<h>> \o r, s) = After(r, Effect(h.command, s))
        <4> HIDE DEF h, r
        <4>. QED BY <1>0, <1>2, <1>5, AfterEnds DEF Confirms
      <3>2. q = <<h>> \o r
        BY <1>2, <2>1
      <3>. QED BY <2>3, <3>1, <3>2
    <2>5. \A i \in 1..(n - k) : /\ x.name \in Enter => <<x.name, x.args[i]>> \in s2
                                /\ x.name \in Exit => <<Kind(x.name), x.args[i]>> \notin s2
      <3>1. \A i \in 1..(n - k) : /\ x.name \in Enter => <<x.name, x.args[i]>> \in s
                                  /\ x.name \in Exit => <<Kind(x.name), x.args[i]>> \notin s
        BY <2>1 DEF PartDone
      <3>2. x.name \in Enter => x.name \notin Exit
        BY DEF Enter, Exit
      <3> HIDE DEF x, n, k, t
      <3>. QED BY <2>1, <3>1, <3>2
    <2>6. \A i \in 1..(n - k + 1) : /\ x.name \in Enter => <<x.name, x.args[i]>> \in s2
                                    /\ x.name \in Exit => <<Kind(x.name), x.args[i]>> \notin s2
      <3>1. /\ x.name \in Enter => <<x.name, x.args[n - k + 1]>> \in s2
            /\ x.name \in Exit => <<Kind(x.name), x.args[n - k + 1]>> \notin s2
        <4>1. x.name \in Enter => Kind(x.name) = x.name /\ x.name \notin Exit
          BY DEF Enter, Exit, Kind
        <4>. QED BY <2>1, <4>1
      <3>2. \A i \in 1..(n - k + 1) : i \in 1..(n - k) \/ i = n - k + 1
        BY <2>1
      <3> HIDE DEF x, n, k, t
      <3>. QED BY <2>5, <3>1, <3>2
    <2>7. CASE k - 1 <= 0
      <3>1. q2 = r /\ n - k + 1 = n
        BY <1>5, <2>1, <2>7 DEF Served
      <3>2. Effect(x, s2) = s2
        <4>1. \A i \in 1..n : /\ x.name \in Enter => <<x.name, x.args[i]>> \in s2
                              /\ x.name \in Exit => <<Kind(x.name), x.args[i]>> \notin s2
          BY <2>6, <3>1
        <4>2. Named(x) = {<<Kind(x.name), x.args[i]>> : i \in 1..n}
          BY <2>1 DEF Named
        <4>3. x.name \in Enter => Kind(x.name) = x.name
          BY DEF Enter, Kind
        <4>4. x.name \in Enter => Named(x) \subseteq s2
          BY <4>1, <4>2, <4>3
        <4>5. x.name \in Exit => Named(x) \cap s2 = {}
          BY <4>1, <4>2
        <4>. QED BY <4>4, <4>5 DEF Effect
      <3>. QED BY <1>3, <2>1, <2>4, <3>1, <3>2
    <2>8. CASE ~(k - 1 <= 0)
      <3> DEFINE h2 == [h EXCEPT !.remaining = k - 1]
      <3>1. q2 = <<h2>> \o r
        BY <1>5, <2>8 DEF Served
      <3>2. h2 \in QueueItem /\ h2.command = x /\ h2.remaining = k - 1
        BY <2>1 DEF QueueItem
      <3> HIDE DEF h2
      <3>3. r \in Seq(QueueItem) /\ \A i \in 1..Len(r) : r[i] \in Fresh
        BY <1>2, <2>1
      <3>4. After(q2, s2) = After(q, s)
        <4>1. After(<<h2>> \o r, s2) = After(r, Effect(h2.command, s2))
          <5> HIDE DEF r
          <5>. QED BY <1>0, <3>2, <3>3, AfterEnds
        <4>. QED BY <2>4, <3>1, <3>2, <4>1
      <3>5. PartDone(q2, s2)
        <4>1. Head(q2) = h2 /\ \A i \in 2..Len(q2) : q2[i] \in Fresh
          <5> HIDE DEF r
          <5>1. q2 = <<h2>> \o r /\ r \in Seq(QueueItem) /\ h2 \in QueueItem
            BY <3>1, <3>2, <3>3
          <5>2. Head(q2) = h2 /\ Len(q2) = Len(r) + 1
            BY <5>1
          <5>3. \A i \in 2..Len(q2) : q2[i] = r[i - 1] /\ i - 1 \in 1..Len(r)
            BY <5>1
          <5>. QED BY <3>3, <5>2, <5>3
        <4>2. n - (k - 1) = n - k + 1
          BY <2>1
        <4> HIDE DEF x, n, k, h, r, t
        <4>. QED BY <2>6, <3>2, <4>1, <4>2 DEF PartDone, n, k
      <3>. QED BY <3>4, <3>5
    <2>. QED BY <2>7, <2>8
  <1>. QED BY <1>1, <1>4, <1>5 DEF Reads

\* Commands that subscribe, one after the other, on a connection without subscriptions.
LEMMA AfterEntering ==
  ASSUME NEW q \in Seq(QueueItem), AllEnter(q)
  PROVE  After(q, {}) = NamedBy(q)
PROOF
  <1>1. Len(q) \in Nat /\ DOMAIN q = 1..Len(q) /\ ToSet(q) = {q[i] : i \in 1..Len(q)}
        /\ \A i \in 1..Len(q) : q[i] \in QueueItem /\ q[i].command.name \in Enter
    BY DEF ToSet, AllEnter
  <1>2. \A i \in 1..Len(q) : \A t : (Mentions(q[i], t) <=> Enters(q[i], t)) /\ (Enters(q[i], t) <=> t \in Named(q[i].command))
    BY <1>1 DEF Mentions, Enters
  <1>3. NamedBy(q) \subseteq Subscriptions
    <2>1. \A i \in 1..Len(q) : Named(q[i].command) \subseteq Subscriptions
      BY <1>1, AfterOne
    <2>. QED BY <1>1, <2>1 DEF NamedBy
  <1>4. ASSUME NEW t, Leaves(q, {}, t) PROVE t \in NamedBy(q)
    BY <1>1, <1>2, <1>4 DEF Leaves, NamedBy
  <1>5. ASSUME NEW t \in NamedBy(q) PROVE Leaves(q, {}, t)
    <2> DEFINE I == {i \in 1..Len(q) : t \in Named(q[i].command)}
               D == {Len(q) - i : i \in I}
    <2>1. PICK i \in I : TRUE
      BY <1>1, <1>5 DEF NamedBy
    <2>2. D \subseteq Nat /\ D # {}
      BY <1>1, <2>1
    <2>3. PICK d \in D : \A e \in D : d <= e
      <3> HIDE DEF D
      <3>. QED BY <2>2, LeastNat
    <2>4. PICK k \in I : d = Len(q) - k
      BY <2>3
    <2>5. ASSUME NEW j \in 1..Len(q), j > k PROVE ~Mentions(q[j], t)
      <3>1. SUFFICES ASSUME j \in I PROVE FALSE
        BY <1>2
      <3>2. d <= Len(q) - j
        BY <2>3, <3>1
      <3>. QED BY <1>1, <2>4, <2>5, <3>2
    <2>6. Enters(q[k], t) /\ k \in 1..Len(q)
      BY <1>2, <2>4
    <2>. QED BY <1>1, <2>5, <2>6 DEF Leaves
  <1>. QED BY <1>3, <1>4, <1>5 DEF After

------------------------------------------------------------------------------
(* Client, server and application agree.                                     *)

\* A queue whose commands have received nothing.
LEMMA FreshPartDone ==
  ASSUME NEW q \in Seq(Fresh), NEW s
  PROVE  PartDone(q, s) /\ q \in Seq(QueueItem)
PROOF
  <1>1. \A i \in 2..Len(q) : q[i] \in Fresh
    OBVIOUS
  <1>2. q # <<>> => 1..(Len(Head(q).command.args) - Head(q).remaining) = {}
    BY DEF Fresh, QueueItem, Asked, Command
  <1>. QED BY <1>1, <1>2, FreshAreItems DEF PartDone

\* A command that is queued does to what is wanted what it will do to what is known.
LEMMA WantsEffect ==
  ASSUME NoBareCommand, NEW c \in Commands
  PROVE  Wants(c) = Effect(CommandOf(c), wanted)
PROOF
  <1>1. CommandOf(c).name = Name[c] /\ CommandOf(c).args = Args[c] /\ Args[c] # <<>> /\ Args[c] \in Seq(Channels)
    BY PubSubAssumption DEF NoBareCommand, CommandOf
  <1>2. Named(CommandOf(c)) = {<<Kind(Name[c]), ch>> : ch \in ToSet(Args[c])}
    <2>1. Named(CommandOf(c)) = {<<Kind(Name[c]), Args[c][i]>> : i \in DOMAIN Args[c]}
      BY <1>1 DEF Named
    <2>2. ToSet(Args[c]) = {Args[c][i] : i \in DOMAIN Args[c]}
      BY DEF ToSet
    <2>. QED BY <2>1, <2>2
  <1>3. Dropped(CommandOf(c), wanted) = Args[c]
    BY <1>1 DEF Dropped
  <1>. QED BY <1>1, <1>2, <1>3 DEF Wants, Effect, Enter, Exit

\* The application queues one more command.
LEMMA IssueInStep ==
  ASSUME NoBareCommand, Shapes, NEW c \in Commands, Issue(c), InStep
  PROVE  InStep'
PROOF
  <1> DEFINE x == CommandOf(c)
  <1>1. Item(x) \in Fresh /\ Item(x) \in QueueItem /\ Item(x).command = x
    BY CommandsAreAsked, FreshItem, FreshAreItems
  <1>2. wanted' = Effect(x, wanted) /\ status' = status /\ Known' = Known /\ Base' = Base
        /\ prevCommandQueue' = prevCommandQueue
    BY WantsEffect DEF Issue, client, Known, Base
  <1>3. CASE status = "ready"
    <2>1. commandQueue' = Append(commandQueue, Item(x)) /\ commandQueue \in Seq(QueueItem) /\ Known \in Subs
      BY <1>3, KnownType DEF Issue, Shapes
    <2> HIDE DEF x
    <2>2. Known \in SUBSET Subscriptions
      BY <2>1, SubsAreSets
    <2>3. After(commandQueue', Known) = Effect(x, After(commandQueue, Known))
      BY <1>1, <2>1, <2>2, AfterEnds
    <2>4. PartDone(commandQueue', Known)
      <3>1. CASE commandQueue = <<>>
        <4>1. commandQueue' \in Seq(Fresh)
          BY <1>1, <2>1, <3>1
        <4>. QED BY <4>1, FreshPartDone
      <3>2. CASE commandQueue # <<>>
        <4>1. PartDone(commandQueue, Known)
          BY <1>3 DEF InStep
        <4>2. Head(commandQueue') = Head(commandQueue) /\ commandQueue' # <<>>
              /\ Len(commandQueue') = Len(commandQueue) + 1 /\ Len(commandQueue) \in Nat
          BY <1>1, <2>1, <3>2
        <4>3. ASSUME NEW i \in 2..Len(commandQueue') PROVE commandQueue'[i] \in Fresh
          <5>1. CASE i = Len(commandQueue) + 1
            BY <1>1, <2>1, <5>1
          <5>2. CASE i # Len(commandQueue) + 1
            <6>1. i \in 2..Len(commandQueue) /\ i \in 1..Len(commandQueue)
              BY <4>2, <5>2
            <6>2. commandQueue'[i] = commandQueue[i]
              BY <1>1, <2>1, <6>1
            <6>. QED BY <4>1, <6>1, <6>2 DEF PartDone
          <5>. QED BY <5>1, <5>2
        <4>. QED BY <3>2, <4>1, <4>2, <4>3 DEF PartDone
      <3>. QED BY <3>1, <3>2
    <2>. QED BY <1>2, <1>3, <2>3, <2>4 DEF InStep
  <1>4. CASE status # "ready"
    <2>1. offlineQueue' = Append(offlineQueue, Item(x)) /\ offlineQueue \in Seq(Fresh) /\ prevCommandQueue \in Seq(Fresh)
      BY <1>4 DEF Issue, Shapes
    <2> HIDE DEF x
    <2>2. Base \in SUBSET Subscriptions
      BY SubsAreSets, NothingTyped DEF Base, Shapes
    <2> DEFINE q == prevCommandQueue \o offlineQueue
    <2>3. q \in Seq(QueueItem) /\ prevCommandQueue \o offlineQueue' = Append(q, Item(x))
      <3>1. q \in Seq(Fresh) /\ prevCommandQueue \o Append(offlineQueue, Item(x)) = Append(q, Item(x))
        BY <1>1, <2>1
      <3>. QED BY <2>1, <3>1, FreshPartDone
    <2> HIDE DEF q
    <2>4. After(Append(q, Item(x)), Base) = Effect(x, After(q, Base))
      <3> DEFINE y == Item(x)
                 b == Base
      <3>1. y \in QueueItem /\ y.command = x /\ b \in SUBSET Subscriptions /\ q \in Seq(QueueItem)
        BY <1>1, <2>2, <2>3
      <3> HIDE DEF y, b
      <3>2. After(Append(q, y), b) = Effect(x, After(q, b))
        BY <3>1, AfterEnds
      <3>. QED BY <3>2 DEF y, b
    <2>. QED BY <1>2, <1>4, <2>3, <2>4 DEF InStep, q
  <1>. QED BY <1>3, <1>4

\* A lost connection's subscriptions and unanswered commands are kept.
LEMMA LoseInStep ==
  ASSUME NothingIsCut, Shapes, Lose, InStep
  PROVE  InStep'
PROOF
  <1>1. /\ prevSubscriber' = PrevCondition /\ status' # "ready" /\ wanted' = wanted
        /\ offlineQueue' = offlineQueue
        /\ prevCommandQueue' = IF status = "ready" /\ commandQueue # <<>>
                               THEN commandQueue ELSE prevCommandQueue
    BY DEF Lose
  <1>2. CASE status = "ready"
    <2>1. prevSubscriber' = subscriber /\ prevCommandQueue' = commandQueue /\ offlineQueue' = <<>>
          /\ commandQueue \in Seq(QueueItem)
      BY <1>1, <1>2 DEF Shapes, PrevCondition
    <2>2. Base' = Known
      BY <2>1, SubsAreSets DEF Base, Known, Shapes
    <2>3. prevCommandQueue' \o offlineQueue' = commandQueue
      BY <2>1
    <2>. QED BY <1>1, <1>2, <2>2, <2>3 DEF InStep
  <1>3. CASE status # "ready"
    <2>1. prevSubscriber' = prevSubscriber /\ prevCommandQueue' = prevCommandQueue
      BY <1>1, <1>3 DEF PrevCondition
    <2>. QED BY <1>1, <1>3, <2>1 DEF InStep, Base
  <1>. QED BY <1>2, <1>3

\* The new connection is asked for the old subscriptions first, then for what was queued.
LEMMA ReadyInStep ==
  ASSUME Shapes, Ready, InStep, AutoResubscribe, AutoResend
  PROVE  InStep'
PROOF
  <1> DEFINE r == IF prevSubscriber \in {NoCondition, NoSet} \/ ~AutoResubscribe
                  THEN <<>> ELSE Resubscriptions(prevSubscriber)
             p == prevCommandQueue
             o == offlineQueue
  <1>1. /\ commandQueue' = r \o p \o o /\ status # "ready" /\ status' = "ready" /\ subscriber' = NoSet /\ wanted' = wanted
        /\ p \in Seq(Fresh) /\ o \in Seq(Fresh) /\ wanted = After(p \o o, Base)
    BY DEF Ready, Shapes, InStep
  <1>2. r \in Seq(Fresh) /\ After(r, {}) = Base
    <2>1. CASE prevSubscriber \in {NoCondition, NoSet}
      <3>1. r = <<>> /\ Base = {}
        BY <2>1 DEF Base
      <3>2. After(<<>>, {}) = {}
        BY DEF After, Leaves
      <3>3. <<>> \in Seq(Fresh)
        BY NothingTyped
      <3> HIDE DEF r
      <3>. QED BY <3>1, <3>2, <3>3
    <2>2. CASE prevSubscriber \notin {NoCondition, NoSet}
      <3>1. r = Resubscriptions(prevSubscriber) /\ prevSubscriber \in Subs /\ Base = prevSubscriber
        BY <2>2 DEF Shapes, Base
      <3>2. r \in Seq(Fresh) /\ AllEnter(r) /\ NamedBy(r) = prevSubscriber
        BY <3>1, ResubscriptionsFacts
      <3>3. r \in Seq(QueueItem)
        BY <3>2, FreshPartDone
      <3>. QED BY <3>1, <3>2, <3>3, AfterEntering
    <2>. QED BY <2>1, <2>2
  <1> HIDE DEF r, p, o
  <1>3. r \o p \o o = r \o (p \o o) /\ p \o o \in Seq(Fresh) /\ r \o p \o o \in Seq(Fresh)
    <2>1. r \in Seq(Fresh) /\ p \in Seq(Fresh) /\ o \in Seq(Fresh)
      BY <1>1, <1>2
    <2>2. r \o p \o o = r \o (p \o o)
      BY <2>1, ConcatAssociative
    <2>. QED BY <2>1, <2>2
  <1>4. After(r \o p \o o, {}) = After(p \o o, Base)
    <2>1. r \in Seq(QueueItem) /\ p \o o \in Seq(QueueItem)
      BY <1>2, <1>3, FreshPartDone
    <2>2. After(r \o (p \o o), {}) = After(p \o o, After(r, {}))
      BY <2>1, AfterConcat
    <2>. QED BY <1>2, <1>3, <2>2
  <1>5. Known' = {}
    BY <1>1 DEF Known
  <1>6. PartDone(r \o p \o o, {})
    BY <1>3, FreshPartDone
  <1>. QED BY <1>1, <1>4, <1>5, <1>6 DEF InStep

\* What DataHandler reads, the client applies.
LEMMA DataHandlerInStep ==
  ASSUME Going, DataHandler, ~leftEarly', InStep
  PROVE  InStep'
PROOF
  <1>1. Going' /\ Reads(Arrived, commandQueue, Known, commandQueue', Known')
    BY ReturnMessageKeeps, ReturnSubscribedKeeps, ReturnUnsubscribedKeeps,
       ReturnReplyByCommandKeeps, ReturnReplyKeeps DEF DataHandler
  <1>2. commandQueue \in Seq(QueueItem) /\ Known \in Subs /\ status = "ready"
        /\ PartDone(commandQueue, Known) /\ wanted = After(commandQueue, Known)
    BY KnownType DEF Going, Shapes, InStep
  <1>3. Known' \in Subs /\ status' = "ready"
    <2>1. (Shapes => Known \in Subs)'
      BY NothingTyped DEF Shapes, Known
    <2>. QED BY <1>1, <2>1 DEF Going
  <1>4. PartDone(commandQueue', Known') /\ After(commandQueue', Known') = After(commandQueue, Known)
    BY <1>1, <1>2, <1>3, ReadsInStep
  <1>5. wanted' = wanted
    BY DEF DataHandler, ReturnMessage, ReturnSubscribed, ReturnUnsubscribed, ReturnReplyByCommand,
           ReturnReply, ReturnError, Receive
  <1>. QED BY <1>2, <1>3, <1>4, <1>5 DEF InStep

\* Every step keeps the invariant.
LEMMA SyncStep ==
  ASSUME NothingIsCut, NoBareCommand, SyncInv, [Next]_vars
  PROVE  SyncInv'
PROOF
  <1>1. PairInv'
    BY PairStep DEF SyncInv
  <1>2. SUFFICES ASSUME ~leftEarly', AutoResubscribe, AutoResend PROVE InStep'
    BY <1>1 DEF SyncInv
  <1>3. leftEarly => leftEarly'
    BY DEF Next, vars, Connection, Reconnect, Ready, ServerRuns, DataHandler, ReturnMessage,
           ReturnSubscribed, Add, ReturnUnsubscribed, Del, ReturnReplyByCommand, ReturnReply,
           ReturnError, Lose, Publish, Issue, IssueRefused
  <1>4. Shapes /\ InStep /\ (status = "ready" => Going)
    BY <1>2, <1>3 DEF SyncInv, PairInv, Going
  <1>5. ASSUME UNCHANGED <<status, subscriber, prevSubscriber, offlineQueue, commandQueue,
                           prevCommandQueue, wanted>>
        PROVE  InStep'
    BY <1>4, <1>5 DEF InStep, Known, Base
  <1>6. CASE UNCHANGED vars
    BY <1>5, <1>6 DEF vars, client, queues
  <1>7. CASE Reconnect
    BY <1>4, <1>7 DEF Reconnect, InStep, Base
  <1>8. CASE Ready
    BY <1>2, <1>4, <1>8, ReadyInStep
  <1>9. CASE ServerRuns
    BY <1>5, <1>9 DEF ServerRuns, client, queues
  <1>10. CASE DataHandler
    <2>1. status = "ready"
      BY <1>10 DEF DataHandler, ReturnMessage, ReturnSubscribed, ReturnUnsubscribed,
                   ReturnReplyByCommand, ReturnReply, ReturnError, Receive
    <2>. QED BY <1>2, <1>4, <1>10, <2>1, DataHandlerInStep
  <1>11. CASE Lose
    BY <1>4, <1>11, LoseInStep
  <1>12. CASE Publish
    BY <1>5, <1>12 DEF Publish, client, queues
  <1>13. ASSUME NEW c \in Commands, Issue(c) PROVE InStep'
    BY <1>4, <1>13, IssueInStep
  <1>14. ASSUME NEW c \in Commands, IssueRefused(c) PROVE InStep'
    BY <1>5, <1>14 DEF IssueRefused, client, queues
  <1>. QED BY <1>6, <1>7, <1>8, <1>9, <1>10, <1>11, <1>12, <1>13, <1>14 DEF Next, Connection

\* The invariant holds initially.
LEMMA SyncInit == Init => SyncInv
PROOF
  <1>1. SUFFICES ASSUME Init PROVE SyncInv
    OBVIOUS
  <1>2. prevCommandQueue \o offlineQueue = <<>> /\ Base = {} /\ wanted = {} /\ status # "ready"
    BY <1>1 DEF Init, Base
  <1>3. After(<<>>, {}) = {}
    BY DEF After, Leaves
  <1>. QED BY <1>1, <1>2, <1>3, PairInit DEF SyncInv, InStep

\* When nothing is under way the client takes itself to be subscribed to what the server has it
\* subscribed to, and to what the application asked for, however often the connection was lost.
THEOREM InSyncTheorem ==
  ASSUME NothingIsCut, NoBareCommand
  PROVE  Spec => []InSync
PROOF
  <1>1. Init => SyncInv
    BY SyncInit
  <1>2. SyncInv /\ [Next]_vars => SyncInv'
    BY SyncStep
  <1>3. SyncInv => InSync
    <2>1. SUFFICES ASSUME SyncInv, ~leftEarly, AutoResubscribe, AutoResend, status = "ready",
                          commandQueue = <<>>, replies = <<>>
                   PROVE  Known = serverSubs /\ serverSubs = wanted
      BY DEF InSync
    <2>2. Leads(<<>>, <<>>, Known, Items(sent), serverSubs) /\ InStep
      BY <2>1 DEF SyncInv, PairInv, Paired
    <2>3. PICK Q, S : IsRun(Q, S, <<>>, <<>>, Known, Items(sent), serverSubs)
      BY <2>2, Zenon DEF Leads
    <2>4. Known = serverSubs
      <3>1. Len(<<>>) = 0
        OBVIOUS
      <3>2. S[0] = Known /\ S[Len(<<>>)] = serverSubs
        BY <2>3, Zenon DEF IsRun
      <3>. QED BY <3>1, <3>2
    <2>5. wanted = Known
      <3>1. Known \in SUBSET Subscriptions
        BY <2>1, KnownType, SubsAreSets DEF SyncInv, PairInv
      <3>2. After(<<>>, Known) = Known
        BY <3>1 DEF After, Leaves
      <3>. QED BY <2>1, <2>2, <3>2 DEF InStep
    <2>. QED BY <2>4, <2>5
  <1>. QED BY <1>1, <1>2, <1>3, PTL DEF Spec
=============================================================================
