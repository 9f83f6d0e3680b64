----------------------------- MODULE ClusterProofs -----------------------------
(***************************************************************************)
(* Proofs about Cluster, for every value of its constants: every pending   *)
(* command is in one place, no command is sent more often than             *)
(* maxRedirections allows, and what waits is woken.                        *)
(***************************************************************************)
EXTENDS Cluster, SequenceFacts

------------------------------------------------------------------------------
(* The inductive invariant of the commands.                                  *)

\* Where command c waits, and where it has been sent to.
Queued(c) == c \in ToSet(offlineQueue)
DelayedIn(c, b) == c \in ToSet(queues[b])
Waits(c) == Queued(c) \/ \E b \in Buckets : DelayedIn(c, b)
FliesAt(c, n) == c \in inflight[n] \/ c \in dyingInflight[n]
Flies(c) == \E n \in Nodes : FliesAt(c, n)

\* What is in a queue or under way are commands, and no queue has one twice.
PlaceTypes ==
  /\ offlineQueue \in Seq(Commands) /\ IsInjective(offlineQueue)
  /\ queues \in [Buckets -> Seq(Commands)] /\ \A b \in Buckets : IsInjective(queues[b])
  /\ inflight \in [Nodes -> SUBSET (Commands \cup {Info})]
  /\ dyingInflight \in [Nodes -> SUBSET (Commands \cup {Info})]
  /\ outcome \in [Commands -> {"idle", "pending", "settled"}]
  /\ sends \in [Commands -> Nat] /\ ttl \in [Commands -> Int]
  /\ owner \in Nodes

\* The commands that could be in a queue at all are finitely many.
Pending == {c \in Commands : outcome[c] = "pending"}
PendingFinite == IsFiniteSet(Pending)

\* A command is in one place exactly as long as it is pending.
InOnePlace(c) ==
  /\ outcome[c] = "pending" <=> Waits(c) \/ Flies(c)
  /\ Queued(c) => \A b \in Buckets : ~DelayedIn(c, b)
  /\ \A b, d \in Buckets : DelayedIn(c, b) /\ DelayedIn(c, d) => b = d
  /\ Waits(c) => ~Flies(c)
  /\ \A n, m \in Nodes : FliesAt(c, n) /\ FliesAt(c, m) => n = m
  /\ \A n \in Nodes : ~(c \in inflight[n] /\ c \in dyingInflight[n])

\* How much of its redirections command c has used up.
Used(c) == IF ttl[c] = NoTtl THEN 0 ELSE MaxRedirections - ttl[c] + 1

\* It has been sent at most once for each of them, and once more if it is under way; once the
\* countdown is over it is settled.
WithinBudget(c) ==
  /\ sends[c] <= MaxRedirections + 1
  /\ outcome[c] # "settled" => ttl[c] = NoTtl \/ ttl[c] \in 1..MaxRedirections
  /\ outcome[c] = "pending" => sends[c] <= Used(c) + (IF Flies(c) THEN 1 ELSE 0)
  /\ outcome[c] = "idle" => ttl[c] = NoTtl /\ sends[c] = 0

CommandInv(c) == InOnePlace(c) /\ WithinBudget(c)

CommandsInv == PlaceTypes /\ PendingFinite /\ \A c \in Commands : CommandInv(c)

------------------------------------------------------------------------------
(* What may become of one command in a step.                                 *)

\* It stays where it is; an instance it was sent to may leave the pool.
Stays(c) ==
  /\ Queued(c)' <=> Queued(c)
  /\ \A b \in Buckets : DelayedIn(c, b)' <=> DelayedIn(c, b)
  /\ \A n \in Nodes : /\ FliesAt(c, n)' <=> FliesAt(c, n)
                      /\ ~(c \in inflight'[n] /\ c \in dyingInflight'[n])
  /\ outcome'[c] = outcome[c] /\ sends'[c] = sends[c] /\ ttl'[c] = ttl[c]

\* It is in no place after the step.
Leaves(c) ==
  /\ ~Queued(c)'
  /\ \A b \in Buckets : ~DelayedIn(c, b)'
  /\ \A n \in Nodes : ~FliesAt(c, n)'

\* A command that stays keeps its invariant.
LEMMA StaysKeeps ==
  ASSUME NEW c \in Commands, CommandInv(c), Stays(c)
  PROVE  CommandInv(c)'
PROOF
  BY DEF CommandInv, InOnePlace, WithinBudget, Stays, Waits, Flies, Used

\* A command that is settled may have been anywhere before.
LEMMA SettledKeeps ==
  ASSUME NEW c \in Commands, CommandInv(c), Leaves(c), outcome'[c] = "settled", sends'[c] = sends[c]
  PROVE  CommandInv(c)'
PROOF
  BY DEF CommandInv, InOnePlace, WithinBudget, Leaves, Waits, Flies, FliesAt, Used

\* The pending commands of the next state are finitely many if at most one command is new.
LEMMA PendingStaysFinite ==
  ASSUME PendingFinite, NEW d, \A c \in Commands : outcome'[c] = "pending" => outcome[c] = "pending" \/ c = d
  PROVE  PendingFinite'
PROOF
  <1>1. IsFiniteSet(Pending \cup {d})
    BY FS_AddElement DEF PendingFinite
  <1>2. Pending' \in SUBSET (Pending \cup {d})
    BY DEF Pending
  <1>. QED
    BY <1>1, <1>2, FS_Subset DEF PendingFinite

\* It waits for a connection, or is sent to one instance.
Goes(c) ==
  /\ outcome'[c] = "pending"
  /\ \A b \in Buckets : ~DelayedIn(c, b)'
  /\ \A n \in Nodes : c \notin dyingInflight'[n]
  /\ \/ Queued(c)' /\ sends'[c] = sends[c] /\ \A n \in Nodes : c \notin inflight'[n]
     \/ /\ ~Queued(c)' /\ sends'[c] = sends[c] + 1
        /\ \E n \in Nodes : \A m \in Nodes : c \in inflight'[m] <=> m = n

\* It is delayed in one bucket.
IsDelayed(c) ==
  /\ outcome'[c] = "pending" /\ sends'[c] = sends[c]
  /\ \E b \in Buckets : \A d \in Buckets : DelayedIn(c, d)' <=> d = b
  /\ ~Queued(c)' /\ \A n \in Nodes : ~FliesAt(c, n)'

\* It may be sent once more.
MayBeSent(c) == sends[c] <= Used(c)' /\ (ttl'[c] = NoTtl \/ ttl'[c] \in 1..MaxRedirections)

\* A command that may be sent once more keeps its invariant when it goes or is delayed.
LEMMA MovesKeep ==
  ASSUME NEW c \in Commands, PlaceTypes, Goes(c) \/ IsDelayed(c), MayBeSent(c)
  PROVE  CommandInv(c)'
PROOF
  <1> USE ClusterAssumption
  <1>1. sends[c] \in Nat
    BY DEF PlaceTypes
  <1>2. Used(c)' \in 0..MaxRedirections
    BY DEF MayBeSent, Used, NoTtl
  <1>3. CASE Goes(c)
    <2>1. InOnePlace(c)'
      BY <1>3 DEF Goes, InOnePlace, Waits, Flies, FliesAt
    <2>2. sends'[c] <= Used(c)' + (IF Flies(c)' THEN 1 ELSE 0)
      BY <1>1, <1>2, <1>3 DEF Goes, MayBeSent, Flies, FliesAt
    <2>. QED BY <1>1, <1>2, <1>3, <2>1, <2>2 DEF CommandInv, WithinBudget, MayBeSent, Goes
  <1>4. CASE IsDelayed(c)
    <2>1. InOnePlace(c)'
      BY <1>4 DEF IsDelayed, InOnePlace, Waits, Flies, FliesAt
    <2>2. sends'[c] <= Used(c)' + (IF Flies(c)' THEN 1 ELSE 0)
      BY <1>1, <1>2, <1>4 DEF IsDelayed, MayBeSent
    <2>. QED BY <1>1, <1>2, <1>4, <2>1, <2>2 DEF CommandInv, WithinBudget, MayBeSent, IsDelayed
  <1>. QED BY <1>3, <1>4

\* A waiting command, and one that is sent back with a countdown that is not over, may be sent.
LEMMA WaitingMayBeSent ==
  ASSUME NEW c \in Commands, PlaceTypes, CommandInv(c), Waits(c), ttl'[c] = ttl[c]
  PROVE  MayBeSent(c)
PROOF
  <1>1. outcome[c] = "pending" /\ ~Flies(c)
    BY DEF CommandInv, InOnePlace
  <1>2. sends[c] <= Used(c) + 0 /\ (ttl[c] = NoTtl \/ ttl[c] \in 1..MaxRedirections)
    BY <1>1 DEF CommandInv, WithinBudget
  <1>3. sends[c] \in Nat /\ Used(c) \in Int
    BY ClusterAssumption DEF PlaceTypes, Used
  <1>. QED BY <1>2, <1>3 DEF MayBeSent, Used

\* A command that is redirected with some of its countdown left may be sent once more.
LEMMA RedirectedMayBeSent ==
  ASSUME NEW c \in Commands, PlaceTypes, CommandInv(c), Flies(c), ttl'[c] = CountDown(c), CountDown(c) > 0
  PROVE  MayBeSent(c)
PROOF
  <1> USE ClusterAssumption
  <1>1. sends[c] \in Nat /\ ttl[c] \in Int
    BY DEF PlaceTypes
  <1>2. ttl[c] = NoTtl \/ ttl[c] \in 1..MaxRedirections
    BY DEF CommandInv, InOnePlace, WithinBudget
  <1>3. sends[c] <= Used(c) + 1
    BY DEF CommandInv, InOnePlace, WithinBudget
  <1>4. CASE ttl[c] = NoTtl
    BY <1>1, <1>3, <1>4 DEF MayBeSent, Used, CountDown, NoTtl
  <1>5. CASE ttl[c] \in 1..MaxRedirections
    BY <1>1, <1>3, <1>5 DEF MayBeSent, Used, CountDown, NoTtl
  <1>. QED BY <1>2, <1>4, <1>5

------------------------------------------------------------------------------
(* What the shared parts of the actions do.                                  *)

\* What Send does to what is queued and under way: the commands cs join the queue, or each
\* is in flight on one more node.
Sent(cs, inf, queue) ==
  /\ offlineQueue' \in Seq(Commands) /\ IsInjective(offlineQueue')
  /\ inflight' \in [Nodes -> SUBSET (Commands \cup {Info})]
  /\ sends' \in [Commands -> Nat]
  /\ \A c \in Commands \ cs :
       /\ Queued(c)' <=> c \in ToSet(queue)
       /\ \A n \in Nodes : c \in inflight'[n] <=> c \in inf[n]
       /\ sends'[c] = sends[c]
  /\ \A c \in cs :
       \/ /\ Queued(c)' /\ sends'[c] = sends[c]
          /\ \A n \in Nodes : c \in inflight'[n] <=> c \in inf[n]
       \/ /\ ~Queued(c)' /\ sends'[c] = sends[c] + 1
          /\ \E n \in Nodes : \A m \in Nodes : c \in inflight'[m] <=> c \in inf[m] \/ m = n

\* It does this whenever the commands are not in the queue yet.
LEMMA SendFacts ==
  ASSUME PlaceTypes, NEW cs \in SUBSET Commands, IsFiniteSet(cs), NEW ts \in SUBSET Nodes, NEW pl,
         NEW queue \in Seq(Commands), IsInjective(queue), cs \cap ToSet(queue) = {},
         NEW inf \in [Nodes -> SUBSET (Commands \cup {Info})],
         Send(cs, ts, pl, inf, queue)
  PROVE  Sent(cs, inf, queue)
PROOF
  <1> USE DEF Sent
  <1>1. CASE ts = {}
    <2>1. offlineQueue' = queue \o SetToSeq(cs) /\ inflight' = inf /\ sends' = sends
      BY <1>1 DEF Send
    <2>2. SetToSeq(cs) \in Seq(cs) /\ ToSet(SetToSeq(cs)) = cs /\ IsInjective(SetToSeq(cs))
      BY SetToSeqFacts
    <2>3. SetToSeq(cs) \in Seq(Commands)
      BY <2>2
    <2>4. offlineQueue' \in Seq(Commands) /\ ToSet(offlineQueue') = ToSet(queue) \cup cs
      BY <2>1, <2>2, <2>3, ConcatElements
    <2>5. IsInjective(offlineQueue')
      BY <2>1, <2>2, <2>3, ConcatInjective
    <2>. QED BY <2>1, <2>4, <2>5 DEF Queued, PlaceTypes
  <1>2. CASE ts # {}
    <2>1. PICK to \in [cs -> ts] :
            /\ inflight' = [n \in Nodes |-> inf[n] \cup {c \in cs : to[c] = n}]
            /\ sends' = [c \in Commands |-> IF c \in cs THEN sends[c] + 1 ELSE sends[c]]
            /\ offlineQueue' = queue
      BY <1>2 DEF Send
    <2>2. \A c \in cs : to[c] \in Nodes
      BY <2>1
    <2>3. sends' \in [Commands -> Nat]
      BY <2>1 DEF PlaceTypes
    <2>4. inflight' \in [Nodes -> SUBSET (Commands \cup {Info})]
      BY <2>1
    <2>5. \A c \in Commands, n \in Nodes : c \in inflight'[n] <=> c \in inf[n] \/ (c \in cs /\ to[c] = n)
      BY <2>1
    <2>6. ASSUME NEW c \in cs
          PROVE  /\ ~Queued(c)' /\ sends'[c] = sends[c] + 1
                 /\ \E n \in Nodes : \A m \in Nodes : c \in inflight'[m] <=> c \in inf[m] \/ m = n
      BY <2>1, <2>2, <2>5 DEF Queued
    <2>7. ASSUME NEW c \in Commands \ cs
          PROVE  /\ Queued(c)' <=> c \in ToSet(queue)
                 /\ \A n \in Nodes : c \in inflight'[n] <=> c \in inf[n]
                 /\ sends'[c] = sends[c]
      BY <2>1, <2>5 DEF Queued
    <2>. QED BY <2>1, <2>3, <2>4, <2>6, <2>7
  <1>. QED BY <1>1, <1>2

\* handleCloseEvent: the queue is kept, or all of it is settled.
LEMMA CloseEventKeeps ==
  ASSUME CommandsInv, NEW k, HandleCloseEvent(k),
         UNCHANGED <<queues, sends, ttl, owner, inflight, dyingInflight>>
  PROVE  CommandsInv'
PROOF
  <1>1. CASE UNCHANGED <<outcome, offlineQueue>>
    <2>1. \A c \in Commands : Stays(c)
      BY <1>1 DEF CommandsInv, CommandInv, InOnePlace, Stays, Queued, DelayedIn, FliesAt
    <2>2. PlaceTypes' /\ PendingFinite'
      BY <1>1 DEF CommandsInv, PlaceTypes, PendingFinite, Pending
    <2>. QED BY <2>1, <2>2, StaysKeeps DEF CommandsInv
  <1>2. CASE Settle(ToSet(offlineQueue)) /\ offlineQueue' = <<>>
    <2>1. PlaceTypes'
      BY <1>2 DEF CommandsInv, PlaceTypes, Settle, IsInjective
    <2>2. PendingFinite'
      BY <1>2, PendingStaysFinite DEF CommandsInv, Settle
    <2>3. ASSUME NEW c \in Commands PROVE CommandInv(c)'
      <3>1. ~Queued(c)'
        BY <1>2 DEF Queued, ToSet
      <3>2. CASE Queued(c)
        <4>1. Leaves(c)
          BY <3>1, <3>2 DEF CommandsInv, CommandInv, InOnePlace, Leaves, Waits, Flies, DelayedIn, FliesAt
        <4>2. outcome'[c] = "settled"
          BY <1>2, <3>2 DEF Settle, Queued
        <4>. QED BY <4>1, <4>2, SettledKeeps DEF CommandsInv
      <3>3. CASE ~Queued(c)
        <4>1. outcome'[c] = outcome[c]
          BY <1>2, <3>3 DEF Settle, Queued
        <4>2. Stays(c)
          BY <3>1, <3>3, <4>1 DEF CommandsInv, CommandInv, InOnePlace, Stays, DelayedIn, FliesAt
        <4>. QED BY <4>2, StaysKeeps DEF CommandsInv
      <3>. QED BY <3>2, <3>3
    <2>. QED BY <2>1, <2>2, <2>3 DEF CommandsInv
  <1>. QED BY <1>1, <1>2 DEF HandleCloseEvent

\* What is in flight in the pool, and in instances that left it, holds the same commands as
\* before, each on its node: inf and dyingInflight' after instances have left the pool.
Shifted(inf) ==
  \A c \in Commands, n \in Nodes :
    /\ (c \in inf[n] \/ c \in dyingInflight'[n]) <=> FliesAt(c, n)
    /\ ~(c \in inf[n] /\ c \in dyingInflight'[n])

\* Instances that leave the pool take what was sent to them along.
LEMMA LeaveShifts ==
  ASSUME CommandsInv, NEW R,
         dyingInflight' = [n \in Nodes |-> IF n \in R THEN dyingInflight[n] \cup inflight[n] ELSE dyingInflight[n]]
  PROVE  /\ Shifted(InflightAfter(R))
         /\ InflightAfter(R) \in [Nodes -> SUBSET (Commands \cup {Info})]
         /\ dyingInflight' \in [Nodes -> SUBSET (Commands \cup {Info})]
PROOF
  <1>1. ASSUME NEW c \in Commands, NEW n \in Nodes
        PROVE  ~(c \in inflight[n] /\ c \in dyingInflight[n])
    BY DEF CommandsInv, CommandInv, InOnePlace
  <1>. QED
    BY <1>1 DEF CommandsInv, PlaceTypes, Shifted, InflightAfter, FliesAt

\* Nothing but that happens.
LEMMA ShiftKeeps ==
  ASSUME CommandsInv, UNCHANGED <<offlineQueue, queues, outcome, sends, ttl>>, owner' \in Nodes,
         inflight' \in [Nodes -> SUBSET (Commands \cup {Info})],
         dyingInflight' \in [Nodes -> SUBSET (Commands \cup {Info})],
         Shifted(inflight')
  PROVE  CommandsInv'
PROOF
  <1>1. PlaceTypes' /\ PendingFinite'
    BY DEF CommandsInv, PlaceTypes, PendingFinite, Pending
  <1>2. \A c \in Commands : Stays(c)
    BY DEF Shifted, Stays, Queued, DelayedIn, FliesAt
  <1>. QED BY <1>1, <1>2, StaysKeeps DEF CommandsInv

\* DelayQueue#execute: what was delayed is sent, queued or, after the end, settled.
LEMMA ExecuteKeeps ==
  ASSUME CommandsInv, NEW bs \in SUBSET Buckets, NEW pl,
         NEW inf \in [Nodes -> SUBSET (Commands \cup {Info})], Shifted(inf),
         dyingInflight' \in [Nodes -> SUBSET (Commands \cup {Info})],
         Execute(bs, pl, inf), UNCHANGED <<ttl, owner>>
  PROVE  CommandsInv'
PROOF
  <1> DEFINE run == UNION {ToSet(queues[b]) : b \in bs}
             ts == IF status' = "ready" THEN Targets(TRUE, pl) ELSE {}
  <1>1. /\ run \subseteq Pending
        /\ \A c \in Commands : c \in run <=> \E b \in bs : DelayedIn(c, b)
    <2>1. ASSUME NEW b \in bs, NEW c \in ToSet(queues[b]) PROVE c \in Pending
      <3>1. c \in Commands
        BY DEF CommandsInv, PlaceTypes, ToSet
      <3>. QED BY <3>1 DEF CommandsInv, CommandInv, InOnePlace, Waits, DelayedIn, Pending
    <2>. QED BY <2>1 DEF DelayedIn
  <1>2. queues' = [b \in Buckets |-> IF b \in bs THEN <<>> ELSE queues[b]]
    BY DEF Execute
  <1>3. IF status' = "end"
        THEN Settle(run) /\ inflight' = inf /\ UNCHANGED <<offlineQueue, sends>>
        ELSE Send(run, ts, pl, inf, offlineQueue) /\ UNCHANGED outcome
    BY DEF Execute
  <1>4. IsFiniteSet(run) /\ run \subseteq Commands /\ ts \subseteq Nodes
    BY <1>1, FS_Subset DEF CommandsInv, PendingFinite, Pending, Targets
  <1> HIDE DEF run, ts
  <1>5. queues' \in [Buckets -> Seq(Commands)] /\ \A b \in Buckets : IsInjective(queues'[b])
    BY <1>2 DEF CommandsInv, PlaceTypes, IsInjective
  <1>6. \A c \in Commands, b \in Buckets : DelayedIn(c, b)' <=> DelayedIn(c, b) /\ b \notin bs
    BY <1>2 DEF DelayedIn, ToSet
  <1>7. \A c \in run : Waits(c) /\ ~Flies(c) /\ ~Queued(c) /\ \A b \in Buckets : ~DelayedIn(c, b)'
    BY <1>1, <1>4, <1>6 DEF CommandsInv, CommandInv, InOnePlace, Waits
  <1>8. \A c \in Commands \ run, b \in Buckets : DelayedIn(c, b)' <=> DelayedIn(c, b)
    BY <1>1, <1>6
  <1>9. \A c \in run, n \in Nodes : c \notin inf[n] /\ c \notin dyingInflight'[n]
    BY <1>4, <1>7 DEF Shifted, Flies
  <1>10. CASE status' = "end"
    <2>1. Settle(run) /\ inflight' = inf /\ UNCHANGED <<offlineQueue, sends>>
      BY <1>3, <1>10
    <2>2. PlaceTypes'
      BY <1>5, <2>1 DEF CommandsInv, PlaceTypes, Settle
    <2>3. PendingFinite'
      BY <2>1, PendingStaysFinite DEF CommandsInv, Settle
    <2>4. ASSUME NEW c \in run PROVE CommandInv(c)'
      <3>1. Leaves(c) /\ outcome'[c] = "settled" /\ sends'[c] = sends[c]
        BY <1>4, <1>7, <1>9, <2>1 DEF Leaves, Settle, Queued, FliesAt
      <3>. QED BY <1>4, <3>1, SettledKeeps DEF CommandsInv
    <2>5. ASSUME NEW c \in Commands \ run PROVE CommandInv(c)'
      <3>1. Stays(c)
        BY <1>8, <2>1 DEF Stays, Shifted, Settle, Queued, FliesAt
      <3>. QED BY <3>1, StaysKeeps DEF CommandsInv
    <2>. QED BY <2>2, <2>3, <2>4, <2>5 DEF CommandsInv
  <1>11. CASE status' # "end"
    <2>1. Send(run, ts, pl, inf, offlineQueue) /\ UNCHANGED outcome
      BY <1>3, <1>11
    <2>2. run \cap ToSet(offlineQueue) = {}
      BY <1>7 DEF Queued
    <2>3. Sent(run, inf, offlineQueue)
      <3>1. PlaceTypes
        BY DEF CommandsInv
      <3>2. offlineQueue \in Seq(Commands) /\ IsInjective(offlineQueue)
        BY <3>1 DEF PlaceTypes
      <3>3. run \in SUBSET Commands /\ IsFiniteSet(run) /\ ts \in SUBSET Nodes
        BY <1>4
      <3>. QED BY <2>1, <2>2, <3>1, <3>2, <3>3, SendFacts
    <2>4. PlaceTypes'
      BY <1>5, <2>1, <2>3 DEF CommandsInv, PlaceTypes, Sent
    <2>5. PendingFinite'
      BY <2>1 DEF CommandsInv, PendingFinite, Pending
    <2>6. ASSUME NEW c \in run PROVE CommandInv(c)'
      <3>1. outcome[c] = "pending"
        BY <1>1 DEF Pending
      <3>2. Goes(c)
        BY <1>7, <1>9, <2>1, <2>3, <3>1 DEF Goes, Sent
      <3>3. MayBeSent(c)
        BY <1>4, <1>7, WaitingMayBeSent DEF CommandsInv
      <3>. QED BY <1>4, <3>2, <3>3, MovesKeep DEF CommandsInv
    <2>7. ASSUME NEW c \in Commands \ run PROVE CommandInv(c)'
      <3>1. Stays(c)
        BY <1>8, <2>1, <2>3 DEF Stays, Shifted, Queued, FliesAt, Sent
      <3>. QED BY <3>1, StaysKeeps DEF CommandsInv
    <2>. QED BY <2>4, <2>5, <2>6, <2>7 DEF CommandsInv
  <1>. QED BY <1>10, <1>11

\* The commands outside cs are under way where they were.
OthersFly(cs) ==
  /\ inflight' \in [Nodes -> SUBSET (Commands \cup {Info})]
  /\ dyingInflight' \in [Nodes -> SUBSET (Commands \cup {Info})]
  /\ \A c \in Commands \ cs, n \in Nodes :
       /\ FliesAt(c, n)' <=> FliesAt(c, n)
       /\ ~(c \in inflight'[n] /\ c \in dyingInflight'[n])

\* handleError of every command of a connection that was closed: it is delayed or settled.
LEMMA ClosedKeeps ==
  ASSUME CommandsInv, NEW cs \in SUBSET Commands, \A c \in cs : Flies(c), ConnectionClosed(cs),
         OthersFly(cs), \A c \in cs, n \in Nodes : ~FliesAt(c, n)',
         UNCHANGED <<offlineQueue, sends, owner>>
  PROVE  CommandsInv'
PROOF
  <1> DEFINE again == {c \in cs : status = "ready" /\ CountDown(c) > 0}
  <1>1. /\ ttl' = [c \in Commands |-> IF c \in cs THEN CountDown(c) ELSE ttl[c]]
        /\ Settle(cs \ again)
        /\ queues' = [queues EXCEPT !["failover"] = @ \o SetToSeq(again)]
    BY DEF ConnectionClosed
  <1>2. PlaceTypes /\ "failover" \in Buckets
    BY DEF CommandsInv, Buckets
  <1>3. \A c \in cs : outcome[c] = "pending" /\ ~Waits(c)
    BY DEF CommandsInv, CommandInv, InOnePlace
  <1>4. IsFiniteSet(again) /\ again \subseteq cs
    <2>1. again \in SUBSET Pending
      BY <1>3 DEF Pending
    <2>. QED BY <2>1, FS_Subset DEF CommandsInv, PendingFinite
  <1>5. /\ SetToSeq(again) \in Seq(Commands)
        /\ ToSet(SetToSeq(again)) = again /\ IsInjective(SetToSeq(again))
    <2>1. SetToSeq(again) \in Seq(again)
      BY <1>4, SetToSeqFacts
    <2>2. SetToSeq(again) \in Seq(Commands)
      BY <1>4, <2>1
    <2>. QED BY <1>4, <2>2, SetToSeqFacts
  <1>6. \A c \in again : CountDown(c) > 0
    OBVIOUS
  <1> HIDE DEF again
  <1> DEFINE late == queues["failover"] \o SetToSeq(again)
  <1>7. late \in Seq(Commands) /\ ToSet(late) = ToSet(queues["failover"]) \cup again /\ IsInjective(late)
    <2>1. queues["failover"] \in Seq(Commands) /\ IsInjective(queues["failover"])
      BY <1>2 DEF PlaceTypes
    <2>2. ToSet(queues["failover"]) \cap again = {}
      BY <1>2, <1>3, <1>4 DEF Waits, DelayedIn
    <2>. QED BY <1>5, <2>1, <2>2, ConcatElements, ConcatInjective
  <1>8. queues' = [queues EXCEPT !["failover"] = late]
    BY <1>1
  <1> HIDE DEF late
  <1>9. \A c \in Commands, b \in Buckets :
          DelayedIn(c, b)' <=> DelayedIn(c, b) \/ (b = "failover" /\ c \in again)
    BY <1>2, <1>7, <1>8 DEF DelayedIn, PlaceTypes
  <1>10. PlaceTypes'
    <2>1. queues' \in [Buckets -> Seq(Commands)] /\ \A b \in Buckets : IsInjective(queues'[b])
      BY <1>2, <1>7, <1>8 DEF PlaceTypes
    <2>2. ttl' \in [Commands -> Int]
      BY <1>1, <1>2, ClusterAssumption DEF PlaceTypes, CountDown
    <2>3. outcome' \in [Commands -> {"idle", "pending", "settled"}]
      BY <1>1, <1>2 DEF PlaceTypes, Settle
    <2>. QED BY <1>2, <2>1, <2>2, <2>3 DEF PlaceTypes, OthersFly
  <1>11. PendingFinite'
    BY <1>1, PendingStaysFinite DEF CommandsInv, Settle
  <1>12. ASSUME NEW c \in again PROVE CommandInv(c)'
    <2>1. IsDelayed(c)
      BY <1>1, <1>2, <1>3, <1>4, <1>9 DEF IsDelayed, Settle, Queued, Waits
    <2>2. MayBeSent(c)
      BY <1>1, <1>2, <1>4, <1>6, RedirectedMayBeSent DEF CommandsInv
    <2>. QED BY <1>2, <1>4, <2>1, <2>2, MovesKeep
  <1>13. ASSUME NEW c \in cs \ again PROVE CommandInv(c)'
    <2>1. Leaves(c) /\ outcome'[c] = "settled" /\ sends'[c] = sends[c]
      BY <1>1, <1>3, <1>9 DEF Leaves, Settle, Queued, Waits
    <2>. QED BY <2>1, SettledKeeps DEF CommandsInv
  <1>14. ASSUME NEW c \in Commands \ cs PROVE CommandInv(c)'
    <2>1. Stays(c)
      BY <1>1, <1>4, <1>9 DEF Stays, OthersFly, Settle, Queued
    <2>. QED BY <2>1, StaysKeeps DEF CommandsInv
  <1>. QED BY <1>10, <1>11, <1>12, <1>13, <1>14 DEF CommandsInv

\* A reply is read: its command is not under way any more, the others are.
LEMMA TakenFacts ==
  ASSUME CommandsInv, NEW c \in Commands \cup {Info}, NEW n \in Nodes, NEW dead \in BOOLEAN,
         InFlight(c, n, dead)
  PROVE  /\ TakenIf(~dead, inflight, c, n) \in [Nodes -> SUBSET (Commands \cup {Info})]
         /\ TakenIf(dead, dyingInflight, c, n) \in [Nodes -> SUBSET (Commands \cup {Info})]
         /\ \A d \in Commands \ {c}, m \in Nodes :
              /\ d \in TakenIf(~dead, inflight, c, n)[m] <=> d \in inflight[m]
              /\ d \in TakenIf(dead, dyingInflight, c, n)[m] <=> d \in dyingInflight[m]
         /\ c \in Commands =>
              /\ Flies(c)
              /\ \A m \in Nodes : /\ c \notin TakenIf(~dead, inflight, c, n)[m]
                                  /\ c \notin TakenIf(dead, dyingInflight, c, n)[m]
PROOF
  <1>1. PlaceTypes
    BY DEF CommandsInv
  <1>2. /\ TakenIf(~dead, inflight, c, n) \in [Nodes -> SUBSET (Commands \cup {Info})]
        /\ TakenIf(dead, dyingInflight, c, n) \in [Nodes -> SUBSET (Commands \cup {Info})]
    BY <1>1 DEF PlaceTypes, TakenIf, Taken
  <1>3. \A d \in Commands \ {c}, m \in Nodes :
          /\ d \in TakenIf(~dead, inflight, c, n)[m] <=> d \in inflight[m]
          /\ d \in TakenIf(dead, dyingInflight, c, n)[m] <=> d \in dyingInflight[m]
    BY <1>1 DEF PlaceTypes, TakenIf, Taken
  <1>4. ASSUME c \in Commands PROVE Flies(c)
    BY DEF InFlight, Flies, FliesAt
  <1>5. ASSUME c \in Commands, NEW m \in Nodes
        PROVE  /\ c \notin TakenIf(~dead, inflight, c, n)[m]
               /\ c \notin TakenIf(dead, dyingInflight, c, n)[m]
    <2>1. FliesAt(c, n) /\ ~(c \in inflight[n] /\ c \in dyingInflight[n])
      BY <1>5 DEF InFlight, FliesAt, CommandsInv, CommandInv, InOnePlace
    <2>2. m # n => ~FliesAt(c, m)
      BY <1>5, <2>1 DEF CommandsInv, CommandInv, InOnePlace
    <2>. QED BY <1>1, <2>1, <2>2 DEF PlaceTypes, TakenIf, Taken, InFlight, FliesAt
  <1>. QED BY <1>2, <1>3, <1>4, <1>5

\* Only one command moves.
LEMMA OneKeeps ==
  ASSUME CommandsInv, NEW c \in Commands, PlaceTypes', CommandInv(c)', \A d \in Commands \ {c} : Stays(d)
  PROVE  CommandsInv'
PROOF
  <1>1. PendingFinite'
    BY PendingStaysFinite DEF CommandsInv, Stays
  <1>2. \A d \in Commands \ {c} : CommandInv(d)'
    BY StaysKeeps DEF CommandsInv
  <1>. QED BY <1>1, <1>2 DEF CommandsInv

\* Command c is under way nowhere, and the others where they were: inf and dyingInflight'.
Elsewhere(c, inf) ==
  /\ \A n \in Nodes : c \notin inf[n] /\ c \notin dyingInflight'[n]
  /\ \A d \in Commands \ {c}, n \in Nodes :
       /\ (d \in inf[n] \/ d \in dyingInflight'[n]) <=> FliesAt(d, n)
       /\ ~(d \in inf[n] /\ d \in dyingInflight'[n])

\* Only command c has another countdown or outcome.
OnlyOne(c) ==
  /\ outcome' \in [Commands -> {"idle", "pending", "settled"}]
  /\ ttl' \in [Commands -> Int]
  /\ dyingInflight' \in [Nodes -> SUBSET (Commands \cup {Info})]
  /\ \A d \in Commands \ {c} : outcome'[d] = outcome[d] /\ ttl'[d] = ttl[d]

\* Send, for one command that does not wait.
LEMMA SendOneKeeps ==
  ASSUME CommandsInv, NEW c \in Commands, ~Waits(c), NEW ts \in SUBSET Nodes, NEW pl,
         NEW inf \in [Nodes -> SUBSET (Commands \cup {Info})], Elsewhere(c, inf),
         Send({c}, ts, pl, inf, offlineQueue), OnlyOne(c), outcome'[c] = "pending", MayBeSent(c),
         UNCHANGED <<queues, owner>>
  PROVE  CommandsInv'
PROOF
  <1>1. PlaceTypes
    BY DEF CommandsInv
  <1>2. Sent({c}, inf, offlineQueue)
    <2>1. offlineQueue \in Seq(Commands) /\ IsInjective(offlineQueue)
      BY <1>1 DEF PlaceTypes
    <2>2. {c} \in SUBSET Commands /\ IsFiniteSet({c}) /\ {c} \cap ToSet(offlineQueue) = {}
      BY FS_Singleton DEF Waits, Queued
    <2>. QED BY <1>1, <2>1, <2>2, SendFacts
  <1>3. PlaceTypes'
    BY <1>1, <1>2 DEF PlaceTypes, Sent, OnlyOne
  <1>4. Goes(c)
    BY <1>2 DEF Goes, Sent, Elsewhere, Waits, DelayedIn
  <1>5. CommandInv(c)'
    BY <1>1, <1>4, MovesKeep
  <1>6. ASSUME NEW d \in Commands \ {c} PROVE Stays(d)
    BY <1>2 DEF Stays, Sent, Elsewhere, OnlyOne, Queued, DelayedIn, FliesAt
  <1>. QED BY <1>3, <1>5, <1>6, OneKeeps

\* A command that was under way is settled.
LEMMA SettleOneKeeps ==
  ASSUME CommandsInv, NEW c \in Commands, Flies(c), Settle({c}), OnlyOne(c),
         inflight' \in [Nodes -> SUBSET (Commands \cup {Info})], Elsewhere(c, inflight'),
         UNCHANGED <<offlineQueue, queues, sends, owner>>
  PROVE  CommandsInv'
PROOF
  <1>1. PlaceTypes'
    BY DEF CommandsInv, PlaceTypes, OnlyOne
  <1>2. ~Waits(c)
    BY DEF CommandsInv, CommandInv, InOnePlace
  <1>3. Leaves(c) /\ outcome'[c] = "settled" /\ sends'[c] = sends[c]
    BY <1>2 DEF Leaves, Elsewhere, Settle, Waits, Queued, DelayedIn, FliesAt
  <1>4. CommandInv(c)'
    BY <1>3, SettledKeeps DEF CommandsInv
  <1>5. ASSUME NEW d \in Commands \ {c} PROVE Stays(d)
    BY DEF Stays, Elsewhere, OnlyOne, Queued, DelayedIn, FliesAt
  <1>. QED BY <1>1, <1>4, <1>5, OneKeeps

\* tryConnection for a command that was sent back with a countdown that is not over.
LEMMA TryKeeps ==
  ASSUME CommandsInv, NEW c \in Commands, Flies(c), NEW t \in Nodes, NEW pl,
         NEW inf \in [Nodes -> SUBSET (Commands \cup {Info})], Elsewhere(c, inf),
         dyingInflight' \in [Nodes -> SUBSET (Commands \cup {Info})],
         ttl' = [ttl EXCEPT ![c] = CountDown(c)], CountDown(c) > 0,
         TryOn(c, t, pl, inf), UNCHANGED <<queues, owner>>
  PROVE  CommandsInv'
PROOF
  <1>1. PlaceTypes
    BY DEF CommandsInv
  <1>2. ttl' \in [Commands -> Int] /\ ttl'[c] = CountDown(c) /\ \A d \in Commands \ {c} : ttl'[d] = ttl[d]
    BY <1>1, ClusterAssumption DEF PlaceTypes, CountDown
  <1>3. outcome[c] = "pending" /\ ~Waits(c)
    BY DEF CommandsInv, CommandInv, InOnePlace
  <1>4. CASE status = "end"
    <2>1. Settle({c}) /\ inflight' = inf /\ UNCHANGED <<offlineQueue, sends>>
      BY <1>4 DEF TryOn
    <2>2. OnlyOne(c)
      BY <1>1, <1>2, <2>1 DEF OnlyOne, Settle, PlaceTypes
    <2>. QED BY <2>1, <2>2, SettleOneKeeps
  <1>5. CASE status # "end"
    <2>1. PICK ts \in SUBSET Nodes : Send({c}, ts, pl, inf, offlineQueue) /\ UNCHANGED outcome
      BY <1>5 DEF TryOn
    <2>2. OnlyOne(c) /\ outcome'[c] = "pending"
      BY <1>1, <1>2, <1>3, <2>1 DEF OnlyOne, PlaceTypes
    <2>3. MayBeSent(c)
      BY <1>1, <1>2, RedirectedMayBeSent DEF CommandsInv
    <2>4. Send({c}, ts, pl, inf, offlineQueue)
      BY <2>1
    <2>. QED BY <1>3, <2>2, <2>3, <2>4, SendOneKeeps
  <1>. QED BY <1>4, <1>5

------------------------------------------------------------------------------
(* The actions.                                                              *)

\* Nothing happens to the commands.
LEMMA FrameKeeps ==
  ASSUME CommandsInv, owner' \in Nodes,
         UNCHANGED <<offlineQueue, queues, inflight, dyingInflight, outcome, sends, ttl>>
  PROVE  CommandsInv'
PROOF
  <1>1. Shifted(inflight')
    BY DEF CommandsInv, CommandInv, InOnePlace, Shifted, FliesAt
  <1>. QED BY <1>1, ShiftKeeps DEF CommandsInv, PlaceTypes

\* ConnectionPool#reset: what was sent stays under way.
LEMMA ResetKeeps ==
  ASSUME CommandsInv, NEW ns, Reset(ns), UNCHANGED <<offlineQueue, queues, outcome, sends, ttl, owner>>
  PROVE  CommandsInv'
PROOF
  <1>1. inflight' = InflightAfter(Nodes \ ns)
    BY DEF Reset
  <1>2. dyingInflight' = [n \in Nodes |->
          IF n \in Nodes \ ns THEN dyingInflight[n] \cup inflight[n] ELSE dyingInflight[n]]
    BY DEF Reset, Leave
  <1>3. /\ Shifted(inflight') /\ inflight' \in [Nodes -> SUBSET (Commands \cup {Info})]
        /\ dyingInflight' \in [Nodes -> SUBSET (Commands \cup {Info})]
    BY <1>1, <1>2, LeaveShifts
  <1>. QED BY <1>3, ShiftKeeps DEF CommandsInv, PlaceTypes

\* The "close" event and its listeners.
LEMMA EmitCloseKeeps ==
  ASSUME CommandsInv, EmitClose
  PROVE  CommandsInv'
PROOF
  <1>1. UNCHANGED <<queues, sends, ttl, owner, inflight, dyingInflight>>
    BY DEF EmitClose, delays, errors, topology, nodes
  <1>2. CASE unrefreshed + refreshed > 0
    BY <1>1, <1>2, CloseEventKeeps DEF EmitClose
  <1>3. CASE ~(unrefreshed + refreshed > 0)
    <2>1. UNCHANGED <<outcome, offlineQueue>>
      BY <1>3 DEF EmitClose
    <2>. QED BY <1>1, <2>1, FrameKeeps DEF CommandsInv, PlaceTypes
  <1>. QED BY <1>2, <1>3

\* The addresses of an attempt are known: connectHandler, or disconnect() came first.
LEMMA ResolvedKeeps ==
  ASSUME CommandsInv, Resolved
  PROVE  CommandsInv'
PROOF
  <1>1. UNCHANGED <<offlineQueue, queues, outcome, sends, ttl, owner>>
    BY DEF Resolved, delays, errors, topology
  <1>2. CASE status = "connecting"
    BY <1>1, <1>2, ResetKeeps DEF Resolved
  <1>3. CASE status # "connecting"
    <2>1. UNCHANGED <<inflight, dyingInflight>>
      BY <1>3 DEF Resolved, nodes
    <2>. QED BY <1>1, <2>1, FrameKeeps DEF CommandsInv, PlaceTypes
  <1>. QED BY <1>2, <1>3

\* DNS fails: the attempt ends as a closed connection does.
LEMMA ResolveFailsKeeps ==
  ASSUME CommandsInv, ResolveFails
  PROVE  CommandsInv'
PROOF
  <1>1. UNCHANGED <<queues, sends, ttl, owner, inflight, dyingInflight>> /\ HandleCloseEvent(1)
    BY DEF ResolveFails, delays, errors, topology, nodes
  <1>. QED BY <1>1, CloseEventKeeps

\* disconnect() settles nothing itself: the nodes end later.
LEMMA DisconnectKeeps ==
  ASSUME CommandsInv, NEW reconnect \in BOOLEAN, Disconnect(reconnect)
  PROVE  CommandsInv'
PROOF
  <1>1. UNCHANGED <<queues, sends, ttl, owner>>
    BY DEF Disconnect, delays, errors, topology
  <1>2. CASE status = "wait"
    <2>1. HandleCloseEvent(1) /\ UNCHANGED <<inflight, dyingInflight>>
      BY <1>2 DEF Disconnect, nodes
    <2>. QED BY <1>1, <2>1, CloseEventKeeps
  <1>3. CASE status # "wait"
    <2>1. Reset({}) /\ UNCHANGED <<outcome, offlineQueue>>
      BY <1>3 DEF Disconnect, DisconnectToReconnect
    <2>. QED BY <1>1, <2>1, ResetKeeps
  <1>. QED BY <1>2, <1>3

\* The actions that touch no command.
LEMMA FramesKeep ==
  ASSUME CommandsInv,
         \/ Connect \/ Quit \/ ReconnectTimer \/ SlotsTimer \/ ResolvedLate \/ ClusterChanges
         \/ UNCHANGED vars
  PROVE  CommandsInv'
PROOF
  <1>1. UNCHANGED <<offlineQueue, queues, inflight, dyingInflight, outcome, sends, ttl>>
    BY DEF Connect, Quit, ReconnectTimer, SlotsTimer, ResolvedLate, ClusterChanges, vars,
           delays, nodes, errors, lifecycle
  <1>2. owner' \in Nodes
    BY DEF Connect, Quit, ReconnectTimer, SlotsTimer, ResolvedLate, ClusterChanges, vars,
           topology, CommandsInv, PlaceTypes
  <1>. QED BY <1>1, <1>2, FrameKeeps

\* A command that was never issued is in no place; its call sends or queues it, or settles it.
LEMMA IssueKeeps ==
  ASSUME CommandsInv, NEW c \in Commands, Issue(c)
  PROVE  CommandsInv'
PROOF
  <1> DEFINE ts == IF status = "ready" THEN Targets(FALSE, pool) ELSE {}
  <1>1. PlaceTypes
    BY DEF CommandsInv
  <1>2. outcome[c] = "idle" /\ outcome' = [outcome EXCEPT ![c] = "pending"]
    BY DEF Issue
  <1>3. UNCHANGED <<queues, owner, ttl, dyingInflight>>
    BY DEF Issue, delays, topology
  <1>4. ~Waits(c) /\ ~Flies(c) /\ sends[c] = 0 /\ ttl[c] = NoTtl
    BY <1>2 DEF CommandsInv, CommandInv, InOnePlace, WithinBudget
  <1>5. Send({c}, ts, pool, inflight, offlineQueue)
    BY DEF Issue
  <1>6. ts \in SUBSET Nodes
    <2>1. Targets(FALSE, pool) \in SUBSET Nodes
      BY DEF Targets
    <2>. QED BY <2>1
  <1> HIDE DEF ts
  <1>7. Elsewhere(c, inflight)
    BY <1>3, <1>4 DEF Elsewhere, Flies, FliesAt, CommandsInv, CommandInv, InOnePlace
  <1>8. OnlyOne(c) /\ outcome'[c] = "pending"
    BY <1>1, <1>2, <1>3 DEF OnlyOne, PlaceTypes
  <1>9. MayBeSent(c)
    BY <1>3, <1>4 DEF MayBeSent, Used
  <1>10. inflight \in [Nodes -> SUBSET (Commands \cup {Info})]
    BY <1>1 DEF PlaceTypes
  <1>. QED BY <1>3, <1>4, <1>5, <1>6, <1>7, <1>8, <1>9, <1>10, SendOneKeeps

\* A command issued after the end is refused at once.
LEMMA IssueAfterEndKeeps ==
  ASSUME CommandsInv, NEW c \in Commands, IssueAfterEnd(c)
  PROVE  CommandsInv'
PROOF
  <1>1. UNCHANGED <<offlineQueue, queues, inflight, dyingInflight, sends, ttl, owner>>
    BY DEF IssueAfterEnd, delays, nodes, errors, topology
  <1>2. outcome[c] = "idle" /\ outcome' = [outcome EXCEPT ![c] = "settled"]
    BY DEF IssueAfterEnd
  <1>3. PlaceTypes'
    BY <1>1, <1>2 DEF CommandsInv, PlaceTypes
  <1>4. ~Waits(c) /\ ~Flies(c)
    BY <1>2 DEF CommandsInv, CommandInv, InOnePlace
  <1>5. Leaves(c) /\ outcome'[c] = "settled" /\ sends'[c] = sends[c]
    BY <1>1, <1>2, <1>4 DEF Leaves, Waits, Flies, Queued, DelayedIn, FliesAt, CommandsInv, PlaceTypes
  <1>6. CommandInv(c)'
    BY <1>5, SettledKeeps DEF CommandsInv
  <1>7. ASSUME NEW d \in Commands \ {c} PROVE Stays(d)
    BY <1>1, <1>2 DEF Stays, Queued, DelayedIn, FliesAt, CommandsInv, CommandInv, InOnePlace, PlaceTypes
  <1>. QED BY <1>3, <1>6, <1>7, OneKeeps

\* The end of refreshSlotsCache: the buckets that waited for it are run.
LEMMA RefreshStoppedKeeps ==
  ASSUME CommandsInv, RefreshStopped
  PROVE  CommandsInv'
PROOF
  <1>1. Execute(callbacks \cap Buckets, pool, inflight) /\ UNCHANGED <<ttl, owner, dyingInflight>>
    BY DEF RefreshStopped, Called, topology
  <1>2. /\ inflight \in [Nodes -> SUBSET (Commands \cup {Info})]
        /\ dyingInflight' \in [Nodes -> SUBSET (Commands \cup {Info})] /\ Shifted(inflight)
    BY <1>1 DEF CommandsInv, PlaceTypes, CommandInv, InOnePlace, Shifted, FliesAt
  <1>3. callbacks \cap Buckets \in SUBSET Buckets
    OBVIOUS
  <1>. QED BY <1>1, <1>2, <1>3, ExecuteKeeps

\* CLUSTER SLOTS fails: the next node, or the waiting buckets run as they are.
LEMMA RefreshErrorKeeps ==
  ASSUME CommandsInv, NEW n \in Nodes, RefreshError(n)
  PROVE  CommandsInv'
PROOF
  <1>1. UNCHANGED <<ttl, owner>>
    BY DEF RefreshError, topology
  <1>2. callbacks \cap Buckets \in SUBSET Buckets
    OBVIOUS
  <1>3. CASE untried # {n}
    <2>1. UNCHANGED <<offlineQueue, queues, inflight, dyingInflight, outcome, sends>>
      BY <1>3 DEF RefreshError, delays
    <2>. QED BY <1>1, <2>1, FrameKeeps DEF CommandsInv, PlaceTypes
  <1>4. CASE untried = {n} /\ "connect" \in callbacks
    <2>1. Execute(callbacks \cap Buckets, PoolAfter(Nodes, {}), NoCommands)
      BY <1>4 DEF RefreshError, Called
    <2>2. dyingInflight' = [m \in Nodes |->
            IF m \in Nodes THEN dyingInflight[m] \cup inflight[m] ELSE dyingInflight[m]]
      BY <1>4 DEF RefreshError, Leave
    <2>3. NoCommands = InflightAfter(Nodes)
      BY DEF NoCommands, InflightAfter
    <2>4. /\ Shifted(NoCommands) /\ NoCommands \in [Nodes -> SUBSET (Commands \cup {Info})]
          /\ dyingInflight' \in [Nodes -> SUBSET (Commands \cup {Info})]
      BY <2>2, <2>3, LeaveShifts
    <2>. QED BY <1>1, <1>2, <2>1, <2>4, ExecuteKeeps
  <1>5. CASE untried = {n} /\ "connect" \notin callbacks
    <2>1. Execute(callbacks \cap Buckets, pool, inflight) /\ UNCHANGED dyingInflight
      BY <1>5 DEF RefreshError, Called
    <2>2. /\ inflight \in [Nodes -> SUBSET (Commands \cup {Info})]
          /\ dyingInflight' \in [Nodes -> SUBSET (Commands \cup {Info})] /\ Shifted(inflight)
      BY <2>1 DEF CommandsInv, PlaceTypes, CommandInv, InOnePlace, Shifted, FliesAt
    <2>. QED BY <1>1, <1>2, <2>1, <2>2, ExecuteKeeps
  <1>. QED BY <1>3, <1>4, <1>5

\* CLUSTER SLOTS is answered: the pool is reset, and the waiting buckets run.
LEMMA RefreshDoneKeeps ==
  ASSUME CommandsInv, NEW n \in Nodes, RefreshDone(n)
  PROVE  CommandsInv'
PROOF
  <1> DEFINE R == Nodes \ members
  <1>1. UNCHANGED <<ttl, owner>>
    BY DEF RefreshDone, topology
  <1>2. callbacks \cap Buckets \in SUBSET Buckets
    OBVIOUS
  <1>3. dyingInflight' = [m \in Nodes |->
          IF m \in R THEN dyingInflight[m] \cup inflight[m] ELSE dyingInflight[m]]
    BY DEF RefreshDone, Leave
  <1>4. /\ Shifted(InflightAfter(R)) /\ InflightAfter(R) \in [Nodes -> SUBSET (Commands \cup {Info})]
        /\ dyingInflight' \in [Nodes -> SUBSET (Commands \cup {Info})]
    BY <1>3, LeaveShifts
  <1>5. CASE unrefreshed = 0
    <2>1. Execute(callbacks \cap Buckets, PoolAfter(R, members), InflightAfter(R))
      BY <1>5 DEF RefreshDone, Called
    <2>. QED BY <1>1, <1>2, <1>4, <2>1, ExecuteKeeps
  <1>6. CASE unrefreshed # 0
    <2>1. PICK m \in members :
            Called(callbacks,
                   [PoolAfter(R, members) EXCEPT ![m] = IF @ = "wait" THEN "live" ELSE @],
                   [InflightAfter(R) EXCEPT ![m] = @ \cup {Info}])
      BY <1>6 DEF RefreshDone
    <2> DEFINE pl == [PoolAfter(R, members) EXCEPT ![m] = IF @ = "wait" THEN "live" ELSE @]
               inf == [InflightAfter(R) EXCEPT ![m] = @ \cup {Info}]
    <2>2. Execute(callbacks \cap Buckets, pl, inf)
      BY <2>1 DEF Called
    <2>3. inf \in [Nodes -> SUBSET (Commands \cup {Info})]
      BY <1>4
    <2>4. Shifted(inf)
      <3>1. \A c \in Commands, k \in Nodes : c \in inf[k] <=> c \in InflightAfter(R)[k]
        BY <1>4, ClusterAssumption
      <3> HIDE DEF inf
      <3>. QED BY <1>4, <3>1 DEF Shifted
    <2> HIDE DEF pl, inf
    <2>. QED BY <1>1, <1>2, <1>4, <2>2, <2>3, <2>4, ExecuteKeeps
  <1>. QED BY <1>5, <1>6

\* The timer of a bucket runs it, or starts a refresh.
LEMMA DelayTimerKeeps ==
  ASSUME CommandsInv, NEW b \in Buckets, DelayTimer(b)
  PROVE  CommandsInv'
PROOF
  <1>1. UNCHANGED <<ttl, owner, dyingInflight>>
    BY DEF DelayTimer, topology
  <1>2. /\ inflight \in [Nodes -> SUBSET (Commands \cup {Info})]
        /\ dyingInflight' \in [Nodes -> SUBSET (Commands \cup {Info})] /\ Shifted(inflight)
    BY <1>1 DEF CommandsInv, PlaceTypes, CommandInv, InOnePlace, Shifted, FliesAt
  <1>3. CASE Execute({b}, pool, inflight)
    <2>1. {b} \in SUBSET Buckets
      OBVIOUS
    <2>. QED BY <1>1, <1>2, <1>3, <2>1, ExecuteKeeps
  <1>4. CASE Called({b}, pool, inflight)
    <2>1. {b} \cap Buckets \in SUBSET Buckets /\ Execute({b} \cap Buckets, pool, inflight)
      BY <1>4 DEF Called
    <2>. QED BY <1>1, <1>2, <2>1, ExecuteKeeps
  <1>5. CASE UNCHANGED <<queues, inflight, offlineQueue, sends, outcome>>
    BY <1>1, <1>5, FrameKeeps DEF CommandsInv, PlaceTypes
  <1>. QED BY <1>3, <1>4, <1>5 DEF DelayTimer

\* The commands of a connection that ended are delayed or settled.
LEMMA NodeEndsKeeps ==
  ASSUME CommandsInv, NEW n \in Nodes, NodeEnds(n)
  PROVE  CommandsInv'
PROOF
  <1> DEFINE cs == inflight[n] \ {Info}
             R == DisconnectedWith(n, inflight[n])
  <1>1. UNCHANGED <<offlineQueue, sends, owner>> /\ ConnectionClosed(cs)
    BY DEF NodeEnds, topology, Ended
  <1>2. inflight' = [InflightAfter(R) EXCEPT ![n] = {}]
    BY DEF NodeEnds
  <1>3. dyingInflight' = [m \in Nodes |-> IF m \in R THEN dyingInflight[m] \cup inflight[m] ELSE dyingInflight[m]]
    BY DEF NodeEnds, Leave
  <1>4. PlaceTypes /\ n \notin R
    BY DEF CommandsInv, DisconnectedWith
  <1>5. cs \in SUBSET Commands /\ \A c \in cs : Flies(c)
    BY <1>4 DEF PlaceTypes, Flies, FliesAt
  <1> HIDE DEF R
  <1>6. \A c \in cs, m \in Nodes : c \notin dyingInflight[m] /\ (c \in inflight[m] => m = n)
    BY <1>5 DEF CommandsInv, CommandInv, InOnePlace, FliesAt
  <1>7. \A c \in cs, m \in Nodes : ~FliesAt(c, m)'
    BY <1>2, <1>3, <1>4, <1>6 DEF InflightAfter, FliesAt
  <1>8. OthersFly(cs)
    <2>1. /\ inflight' \in [Nodes -> SUBSET (Commands \cup {Info})]
          /\ dyingInflight' \in [Nodes -> SUBSET (Commands \cup {Info})]
      BY <1>2, <1>3, <1>4 DEF PlaceTypes, InflightAfter
    <2>2. ASSUME NEW c \in Commands \ cs, NEW m \in Nodes
          PROVE  /\ FliesAt(c, m)' <=> FliesAt(c, m)
                 /\ ~(c \in inflight'[m] /\ c \in dyingInflight'[m])
      <3>1. c \notin inflight[n] /\ ~(c \in inflight[m] /\ c \in dyingInflight[m])
        BY ClusterAssumption DEF CommandsInv, CommandInv, InOnePlace
      <3>. QED BY <1>2, <1>3, <1>4, <3>1 DEF InflightAfter, FliesAt
    <2>. QED BY <2>1, <2>2 DEF OthersFly
  <1> HIDE DEF cs
  <1>. QED BY <1>1, <1>5, <1>7, <1>8, ClosedKeeps

\* An instance that has left the pool ends: its commands are settled or redirected, or fail
\* with the cluster, if the pool is empty.
LEMMA DyingEndsKeeps ==
  ASSUME CommandsInv, NEW n \in Nodes, DyingEnds(n)
  PROVE  CommandsInv'
PROOF
  <1>1. PICK es \in SUBSET dyingInflight[n] :
          /\ Ended(InPool, es, pool[n] = "none")
          /\ LET R == IF CheckLost(es) THEN InPool ELSE {}
             IN  /\ inflight' = InflightAfter(R)
                 /\ dyingInflight' = [m \in Nodes |->
                      (IF m = n THEN dyingInflight[m] \ es ELSE dyingInflight[m])
                      \cup (IF m \in R THEN inflight[m] ELSE {})]
    BY DEF DyingEnds
  <1> DEFINE cs == es \ {Info}
             R == IF CheckLost(es) THEN InPool ELSE {}
  <1>2. UNCHANGED <<offlineQueue, sends, owner>>
    BY DEF DyingEnds, topology
  <1>3. ConnectionClosed(cs)
    BY <1>1 DEF Ended
  <1>4. /\ inflight' = InflightAfter(R)
        /\ dyingInflight' = [m \in Nodes |->
             (IF m = n THEN dyingInflight[m] \ es ELSE dyingInflight[m])
             \cup (IF m \in R THEN inflight[m] ELSE {})]
    BY <1>1
  <1>5. PlaceTypes
    BY DEF CommandsInv
  <1>6. cs \in SUBSET Commands /\ \A c \in cs : Flies(c)
    BY <1>5 DEF PlaceTypes, Flies, FliesAt
  <1> HIDE DEF R
  <1>7. \A c \in cs, m \in Nodes : c \notin inflight[m] /\ (c \in dyingInflight[m] => m = n)
    BY <1>6 DEF CommandsInv, CommandInv, InOnePlace, FliesAt
  <1>8. \A c \in cs, m \in Nodes : ~FliesAt(c, m)'
    BY <1>4, <1>7 DEF InflightAfter, FliesAt
  <1>9. OthersFly(cs)
    <2>1. /\ inflight' \in [Nodes -> SUBSET (Commands \cup {Info})]
          /\ dyingInflight' \in [Nodes -> SUBSET (Commands \cup {Info})]
      BY <1>4, <1>5 DEF PlaceTypes, InflightAfter
    <2>2. ASSUME NEW c \in Commands \ cs, NEW m \in Nodes
          PROVE  /\ FliesAt(c, m)' <=> FliesAt(c, m)
                 /\ ~(c \in inflight'[m] /\ c \in dyingInflight'[m])
      <3>1. c \notin es /\ ~(c \in inflight[m] /\ c \in dyingInflight[m])
        BY ClusterAssumption DEF CommandsInv, CommandInv, InOnePlace
      <3>. QED BY <1>4, <3>1 DEF InflightAfter, FliesAt
    <2>. QED BY <2>1, <2>2 DEF OthersFly
  <1> HIDE DEF cs
  <1>. QED BY <1>2, <1>3, <1>6, <1>8, <1>9, ClosedKeeps

\* readyHandler: the ready check was answered, and all of the offline queue is sent.
LEMMA CheckOkKeeps ==
  ASSUME CommandsInv, NEW n \in Nodes, NEW dead \in BOOLEAN, CheckOk(n, dead)
  PROVE  CommandsInv'
PROOF
  <1> DEFINE cs == ToSet(offlineQueue)
             inf == TakenIf(~dead, inflight, Info, n)
             ts == Targets(FALSE, pool)
  <1>1. UNCHANGED <<queues, ttl, owner, outcome>> /\ dyingInflight' = TakenIf(dead, dyingInflight, Info, n)
    BY DEF CheckOk, delays, topology
  <1>2. Send(cs, ts, pool, inf, <<>>) /\ InFlight(Info, n, dead)
    BY DEF CheckOk
  <1>3. PlaceTypes
    BY DEF CommandsInv
  <1>4. /\ inf \in [Nodes -> SUBSET (Commands \cup {Info})]
        /\ dyingInflight' \in [Nodes -> SUBSET (Commands \cup {Info})]
        /\ \A d \in Commands, m \in Nodes :
             (d \in inf[m] <=> d \in inflight[m]) /\ (d \in dyingInflight'[m] <=> d \in dyingInflight[m])
    BY <1>1, <1>2, TakenFacts, ClusterAssumption
  <1>5. cs \in SUBSET Commands /\ IsFiniteSet(cs) /\ ts \in SUBSET Nodes
    <2>1. cs \in SUBSET Commands
      BY <1>3 DEF PlaceTypes, ToSet
    <2>2. cs \in SUBSET Pending
      BY <2>1 DEF CommandsInv, CommandInv, InOnePlace, Waits, Queued, Pending
    <2>3. ts \in SUBSET Nodes
      BY DEF Targets
    <2>. QED BY <2>1, <2>2, <2>3, FS_Subset DEF CommandsInv, PendingFinite
  <1> HIDE DEF inf, ts
  <1>6. <<>> \in Seq(Commands) /\ IsInjective(<<>>) /\ ToSet(<<>>) = {}
    BY DEF IsInjective, ToSet
  <1>7. Sent(cs, inf, <<>>)
    <2> HIDE DEF cs
    <2>1. cs \cap ToSet(<<>>) = {}
      BY <1>6
    <2>. QED BY <1>2, <1>3, <1>4, <1>5, <1>6, <2>1, SendFacts
  <1>8. PlaceTypes' /\ PendingFinite'
    BY <1>1, <1>3, <1>4, <1>7 DEF PlaceTypes, Sent, CommandsInv, PendingFinite, Pending
  <1>9. ASSUME NEW c \in cs PROVE CommandInv(c)'
    <2>1. c \in Commands /\ Waits(c) /\ CommandInv(c)
      BY <1>5 DEF Waits, Queued, CommandsInv
    <2>2. outcome[c] = "pending" /\ ~Flies(c) /\ \A b \in Buckets : ~DelayedIn(c, b)
      BY <2>1 DEF CommandInv, InOnePlace, Queued
    <2>3. \A m \in Nodes : c \notin inf[m] /\ c \notin dyingInflight'[m]
      BY <1>4, <2>1, <2>2 DEF Flies, FliesAt
    <2>4. Goes(c)
      BY <1>1, <1>7, <2>2, <2>3 DEF Goes, Sent, DelayedIn
    <2>5. MayBeSent(c)
      BY <1>1, <1>3, <2>1, WaitingMayBeSent
    <2>. QED BY <1>3, <2>1, <2>4, <2>5, MovesKeep
  <1>10. ASSUME NEW c \in Commands \ cs PROVE CommandInv(c)'
    <2>1. ~Queued(c)
      BY DEF Queued
    <2>2. \A m \in Nodes : ~(c \in inflight[m] /\ c \in dyingInflight[m])
      BY DEF CommandsInv, CommandInv, InOnePlace
    <2> HIDE DEF cs
    <2>3. Stays(c)
      BY <1>1, <1>4, <1>6, <1>7, <2>1, <2>2 DEF Stays, Sent, DelayedIn, FliesAt
    <2>. QED BY <2>3, StaysKeeps DEF CommandsInv
  <1>. QED BY <1>8, <1>9, <1>10 DEF CommandsInv

\* CLUSTER INFO fails: the cluster disconnects, to connect again.
LEMMA CheckFailsKeeps ==
  ASSUME CommandsInv, NEW n \in Nodes, NEW dead \in BOOLEAN, CheckFails(n, dead)
  PROVE  CommandsInv'
PROOF
  <1> DEFINE inf == TakenIf(~dead, inflight, Info, n)
             dyingInf == TakenIf(dead, dyingInflight, Info, n)
  <1>1. UNCHANGED <<offlineQueue, queues, outcome, sends, ttl, owner>>
    BY DEF CheckFails, delays, errors, topology
  <1>2. \/ inflight' = NoCommands /\ dyingInflight' = [m \in Nodes |-> dyingInf[m] \cup inf[m]]
        \/ inflight' = inf /\ dyingInflight' = dyingInf
    BY DEF CheckFails
  <1>3. /\ inf \in [Nodes -> SUBSET (Commands \cup {Info})]
        /\ dyingInf \in [Nodes -> SUBSET (Commands \cup {Info})]
        /\ \A d \in Commands, m \in Nodes :
             (d \in inf[m] <=> d \in inflight[m]) /\ (d \in dyingInf[m] <=> d \in dyingInflight[m])
    BY TakenFacts, ClusterAssumption DEF CheckFails
  <1> HIDE DEF inf, dyingInf
  <1>4. /\ inflight' \in [Nodes -> SUBSET (Commands \cup {Info})]
        /\ dyingInflight' \in [Nodes -> SUBSET (Commands \cup {Info})]
    BY <1>2, <1>3 DEF NoCommands
  <1>5. ASSUME NEW c \in Commands, NEW m \in Nodes
        PROVE  /\ (c \in inflight'[m] \/ c \in dyingInflight'[m]) <=> FliesAt(c, m)
               /\ ~(c \in inflight'[m] /\ c \in dyingInflight'[m])
    <2>1. ~(c \in inflight[m] /\ c \in dyingInflight[m])
      BY DEF CommandsInv, CommandInv, InOnePlace
    <2>. QED BY <1>2, <1>3, <2>1 DEF NoCommands, FliesAt
  <1>6. Shifted(inflight')
    BY <1>5 DEF Shifted
  <1>. QED BY <1>1, <1>4, <1>6, ShiftKeeps DEF CommandsInv, PlaceTypes

\* A reply to command c is read, on the pool's connection or on one that left it.
LEMMA TakenElsewhere ==
  ASSUME CommandsInv, NEW c \in Commands, NEW n \in Nodes, NEW dead \in BOOLEAN, InFlight(c, n, dead),
         dyingInflight' = TakenIf(dead, dyingInflight, c, n)
  PROVE  /\ Flies(c) /\ Elsewhere(c, TakenIf(~dead, inflight, c, n))
         /\ TakenIf(~dead, inflight, c, n) \in [Nodes -> SUBSET (Commands \cup {Info})]
         /\ dyingInflight' \in [Nodes -> SUBSET (Commands \cup {Info})]
PROOF
  <1>1. \A d \in Commands, m \in Nodes : ~(d \in inflight[m] /\ d \in dyingInflight[m])
    BY DEF CommandsInv, CommandInv, InOnePlace
  <1>. QED BY <1>1, TakenFacts DEF Elsewhere, FliesAt

\* The reply of the node that runs the command settles it.
LEMMA ReplyKeeps ==
  ASSUME CommandsInv, NEW c \in Commands, NEW n \in Nodes, NEW dead \in BOOLEAN, Reply(c, n, dead)
  PROVE  CommandsInv'
PROOF
  <1>1. UNCHANGED <<offlineQueue, queues, sends, owner, ttl>> /\ Settle({c}) /\ InFlight(c, n, dead)
    BY DEF Reply, delays, topology, errors
  <1>2. /\ inflight' = TakenIf(~dead, inflight, c, n)
        /\ dyingInflight' = TakenIf(dead, dyingInflight, c, n)
    BY DEF Reply
  <1>3. /\ Flies(c) /\ Elsewhere(c, inflight')
        /\ inflight' \in [Nodes -> SUBSET (Commands \cup {Info})]
        /\ dyingInflight' \in [Nodes -> SUBSET (Commands \cup {Info})]
    BY <1>1, <1>2, TakenElsewhere
  <1>4. OnlyOne(c)
    BY <1>1, <1>3 DEF OnlyOne, Settle, CommandsInv, PlaceTypes
  <1>. QED BY <1>1, <1>3, <1>4, SettleOneKeeps

\* The last error reply that is allowed settles the command.
LEMMA TooManyKeeps ==
  ASSUME CommandsInv, NEW c \in Commands, NEW n \in Nodes, NEW dead \in BOOLEAN, TooMany(c, n, dead)
  PROVE  CommandsInv'
PROOF
  <1>1. /\ UNCHANGED <<offlineQueue, queues, sends, owner>> /\ Settle({c}) /\ InFlight(c, n, dead)
        /\ ttl' = [ttl EXCEPT ![c] = CountDown(c)]
    BY DEF TooMany, ErrorReply, delays, topology
  <1>2. /\ inflight' = TakenIf(~dead, inflight, c, n)
        /\ dyingInflight' = TakenIf(dead, dyingInflight, c, n)
    BY DEF TooMany
  <1>3. /\ Flies(c) /\ Elsewhere(c, inflight')
        /\ inflight' \in [Nodes -> SUBSET (Commands \cup {Info})]
        /\ dyingInflight' \in [Nodes -> SUBSET (Commands \cup {Info})]
    BY <1>1, <1>2, TakenElsewhere
  <1>4. OnlyOne(c)
    BY <1>1, <1>3, ClusterAssumption DEF OnlyOne, Settle, CommandsInv, PlaceTypes, CountDown
  <1>. QED BY <1>1, <1>3, <1>4, SettleOneKeeps

\* MOVED: the command is sent to the owner of the slot, or settled when the countdown is over.
LEMMA ReplyMovedKeeps ==
  ASSUME CommandsInv, NEW c \in Commands, NEW n \in Nodes, NEW dead \in BOOLEAN, ReplyMoved(c, n, dead)
  PROVE  CommandsInv'
PROOF
  <1> DEFINE inf == TakenIf(~dead, inflight, c, n)
             recreated == IF n = owner /\ ~dead /\ direct[c] THEN {n} ELSE {}
             left == [m \in Nodes |-> IF m \in recreated THEN {} ELSE inf[m]]
  <1>1. /\ UNCHANGED <<queues, owner>> /\ InFlight(c, n, dead)
        /\ ttl' = [ttl EXCEPT ![c] = CountDown(c)] /\ CountDown(c) > 0
    BY DEF ReplyMoved, ErrorReply, delays, topology
  <1>2. TryOn(c, owner, PoolAfter(recreated, {owner}), left)
    BY DEF ReplyMoved
  <1>3. dyingInflight' = [m \in Nodes |->
          TakenIf(dead, dyingInflight, c, n)[m] \cup (IF m \in recreated THEN inf[m] ELSE {})]
    BY DEF ReplyMoved
  <1>4. /\ inf \in [Nodes -> SUBSET (Commands \cup {Info})]
        /\ TakenIf(dead, dyingInflight, c, n) \in [Nodes -> SUBSET (Commands \cup {Info})]
        /\ Flies(c)
        /\ \A m \in Nodes : c \notin inf[m] /\ c \notin TakenIf(dead, dyingInflight, c, n)[m]
        /\ \A d \in Commands \ {c}, m \in Nodes :
             /\ d \in inf[m] <=> d \in inflight[m]
             /\ d \in TakenIf(dead, dyingInflight, c, n)[m] <=> d \in dyingInflight[m]
    BY <1>1, TakenFacts
  <1> HIDE DEF inf, recreated
  <1>5. /\ left \in [Nodes -> SUBSET (Commands \cup {Info})]
        /\ dyingInflight' \in [Nodes -> SUBSET (Commands \cup {Info})]
    BY <1>3, <1>4
  <1>6. Elsewhere(c, left)
    <2>1. \A d \in Commands, m \in Nodes : ~(d \in inflight[m] /\ d \in dyingInflight[m])
      BY DEF CommandsInv, CommandInv, InOnePlace
    <2>. QED BY <1>3, <1>4, <2>1 DEF Elsewhere, FliesAt
  <1>7. owner \in Nodes
    BY DEF CommandsInv, PlaceTypes
  <1> HIDE DEF left
  <1>. QED BY <1>1, <1>2, <1>4, <1>5, <1>6, <1>7, TryKeeps

\* ASK: the command is sent to the node asked for, once.
LEMMA ReplyAskKeeps ==
  ASSUME CommandsInv, NEW c \in Commands, NEW n \in Nodes, NEW dead \in BOOLEAN, NEW t \in Nodes,
         ReplyAsk(c, n, dead, t)
  PROVE  CommandsInv'
PROOF
  <1> DEFINE inf == TakenIf(~dead, inflight, c, n)
  <1>1. /\ UNCHANGED <<queues, owner>> /\ InFlight(c, n, dead)
        /\ ttl' = [ttl EXCEPT ![c] = CountDown(c)] /\ CountDown(c) > 0
        /\ dyingInflight' = TakenIf(dead, dyingInflight, c, n)
    BY DEF ReplyAsk, ErrorReply, delays, topology
  <1>2. TryOn(c, t, PoolAfter({}, {t}), inf)
    BY DEF ReplyAsk
  <1>3. /\ Flies(c) /\ Elsewhere(c, inf) /\ inf \in [Nodes -> SUBSET (Commands \cup {Info})]
        /\ dyingInflight' \in [Nodes -> SUBSET (Commands \cup {Info})]
    BY <1>1, TakenElsewhere
  <1> HIDE DEF inf
  <1>. QED BY <1>1, <1>2, <1>3, TryKeeps

\* TRYAGAIN and CLUSTERDOWN delay the command.
LEMMA ReplyLaterKeeps ==
  ASSUME CommandsInv, NEW c \in Commands, NEW n \in Nodes, NEW dead \in BOOLEAN, NEW b \in Buckets,
         ReplyLater(c, n, dead, b)
  PROVE  CommandsInv'
PROOF
  <1>1. /\ UNCHANGED <<offlineQueue, sends, owner, outcome>> /\ InFlight(c, n, dead)
        /\ ttl' = [ttl EXCEPT ![c] = CountDown(c)] /\ CountDown(c) > 0
        /\ queues' = [queues EXCEPT ![b] = Append(@, c)]
    BY DEF ReplyLater, ErrorReply, topology
  <1>2. /\ inflight' = TakenIf(~dead, inflight, c, n)
        /\ dyingInflight' = TakenIf(dead, dyingInflight, c, n)
    BY DEF ReplyLater
  <1>3. /\ Flies(c) /\ Elsewhere(c, inflight')
        /\ inflight' \in [Nodes -> SUBSET (Commands \cup {Info})]
        /\ dyingInflight' \in [Nodes -> SUBSET (Commands \cup {Info})]
    BY <1>1, <1>2, TakenElsewhere
  <1>4. PlaceTypes
    BY DEF CommandsInv
  <1>5. outcome[c] = "pending" /\ ~Waits(c)
    BY <1>3 DEF CommandsInv, CommandInv, InOnePlace
  <1> DEFINE late == queues[b] \o <<c>>
  <1>6. late \in Seq(Commands) /\ ToSet(late) = ToSet(queues[b]) \cup {c} /\ IsInjective(late)
    <2>1. queues[b] \in Seq(Commands) /\ IsInjective(queues[b])
      BY <1>4 DEF PlaceTypes
    <2>2. <<c>> \in Seq(Commands) /\ ToSet(<<c>>) = {c} /\ IsInjective(<<c>>)
      BY DEF IsInjective, ToSet
    <2>3. ToSet(queues[b]) \cap ToSet(<<c>>) = {}
      BY <1>5, <2>2 DEF Waits, DelayedIn
    <2>4. late \in Seq(Commands) /\ ToSet(late) = ToSet(queues[b]) \cup ToSet(<<c>>)
      BY <2>1, <2>2, ConcatElements
    <2>5. IsInjective(late)
      BY <2>1, <2>2, <2>3, ConcatInjective
    <2>. QED BY <2>2, <2>4, <2>5
  <1>7. queues' = [queues EXCEPT ![b] = late]
    <2>1. queues[b] \in Seq(Commands)
      BY <1>4 DEF PlaceTypes
    <2>2. Append(queues[b], c) = late
      BY <2>1
    <2>. QED BY <1>1, <2>2
  <1> HIDE DEF late
  <1>8. \A d \in Commands, x \in Buckets : DelayedIn(d, x)' <=> DelayedIn(d, x) \/ (x = b /\ d = c)
    BY <1>4, <1>6, <1>7 DEF DelayedIn, PlaceTypes
  <1>9. PlaceTypes'
    <2>1. queues' \in [Buckets -> Seq(Commands)] /\ \A x \in Buckets : IsInjective(queues'[x])
      BY <1>4, <1>6, <1>7 DEF PlaceTypes
    <2>2. ttl' \in [Commands -> Int]
      BY <1>1, <1>4, ClusterAssumption DEF PlaceTypes, CountDown
    <2>. QED BY <1>1, <1>3, <1>4, <2>1, <2>2 DEF PlaceTypes
  <1>10. IsDelayed(c)
    BY <1>1, <1>3, <1>5, <1>8 DEF IsDelayed, Elsewhere, Waits, Queued, FliesAt
  <1>11. MayBeSent(c)
    <2>1. ttl'[c] = CountDown(c)
      BY <1>1, <1>4 DEF PlaceTypes
    <2>. QED BY <1>1, <1>3, <1>4, <2>1, RedirectedMayBeSent DEF CommandsInv
  <1>12. CommandInv(c)'
    BY <1>4, <1>10, <1>11, MovesKeep
  <1>13. ASSUME NEW d \in Commands \ {c} PROVE Stays(d)
    BY <1>1, <1>3, <1>4, <1>8 DEF Stays, Elsewhere, Queued, FliesAt, PlaceTypes
  <1>. QED BY <1>9, <1>12, <1>13, OneKeeps

------------------------------------------------------------------------------
(* The theorems.                                                             *)

\* At first no command has been issued.
LEMMA CommandsInit ==
  ASSUME Init
  PROVE  CommandsInv
PROOF
  <1>1. PlaceTypes
    BY ClusterAssumption DEF Init, PlaceTypes, NoCommands, NoTtl, IsInjective
  <1>2. PendingFinite
    <2>1. Pending = {}
      BY DEF Init, Pending
    <2>. QED BY <2>1, FS_EmptySet DEF PendingFinite
  <1>3. ASSUME NEW c \in Commands PROVE CommandInv(c)
    <2>1. ~Waits(c) /\ ~Flies(c)
      BY DEF Init, Waits, Queued, DelayedIn, Flies, FliesAt, NoCommands, ToSet
    <2>2. InOnePlace(c)
      BY <2>1 DEF InOnePlace, Init, NoCommands, Waits, Flies
    <2>3. WithinBudget(c)
      BY ClusterAssumption DEF WithinBudget, Init
    <2>. QED BY <2>2, <2>3 DEF CommandInv
  <1>. QED BY <1>1, <1>2, <1>3 DEF CommandsInv

\* Every step keeps the invariant of the commands.
LEMMA CommandsKeep ==
  ASSUME CommandsInv, [Next]_vars
  PROVE  CommandsInv'
PROOF
  <1>1. CASE Application
    <2>1. CASE Connect \/ Quit
      BY <2>1, FramesKeep
    <2>2. CASE Disconnect(FALSE) \/ Disconnect(TRUE)
      BY <2>2, DisconnectKeeps
    <2>3. CASE \E c \in Commands : Issue(c) \/ IssueAfterEnd(c)
      BY <2>3, IssueKeeps, IssueAfterEndKeeps
    <2>. QED BY <1>1, <2>1, <2>2, <2>3 DEF Application
  <1>2. CASE EmitClose
    BY <1>2, EmitCloseKeeps
  <1>3. CASE Timers
    BY <1>3, FramesKeep, DelayTimerKeeps DEF Timers
  <1>4. CASE Resolving
    BY <1>4, FramesKeep, ResolvedKeeps, ResolveFailsKeeps DEF Resolving
  <1>5. CASE Refreshing
    BY <1>5, RefreshStoppedKeeps, RefreshErrorKeeps, RefreshDoneKeeps DEF Refreshing
  <1>6. CASE Ending
    BY <1>6, DyingEndsKeeps, NodeEndsKeeps DEF Ending, NodeQuits
  <1>7. CASE Checks
    BY <1>7, CheckOkKeeps, CheckFailsKeeps DEF Checks
  <1>8. CASE \E c \in Commands : Replies(c)
    <2>1. PICK c \in Commands, n \in Nodes, dead \in BOOLEAN :
            \/ Reply(c, n, dead) \/ TooMany(c, n, dead) \/ ReplyMoved(c, n, dead)
            \/ \E t \in Nodes : ReplyAsk(c, n, dead, t)
            \/ \E b \in {"tryagain", "clusterdown"} : ReplyLater(c, n, dead, b)
      BY <1>8 DEF Replies
    <2>2. {"tryagain", "clusterdown"} \subseteq Buckets
      BY DEF Buckets
    <2>. QED BY <2>1, <2>2, ReplyKeeps, TooManyKeeps, ReplyMovedKeeps, ReplyAskKeeps, ReplyLaterKeeps
  <1>9. CASE Environment
    BY <1>9, FramesKeep, NodeEndsKeeps DEF Environment, NodeLost
  <1>10. CASE UNCHANGED vars
    BY <1>10, FramesKeep
  <1>. QED BY <1>1, <1>2, <1>3, <1>4, <1>5, <1>6, <1>7, <1>8, <1>9, <1>10 DEF Next

\* Where element c of sequence s is, in the terms of Places.
At(tag, s, c) == {<<tag, i>> : i \in {j \in DOMAIN s : s[j] = c}}

\* An element of a sequence without repetition is at one index, any other at none.
LEMMA IndexFacts ==
  ASSUME NEW s \in Seq(Commands), IsInjective(s), NEW c, NEW tag
  PROVE  /\ c \in ToSet(s) => \E x : At(tag, s, c) = {x}
         /\ c \notin ToSet(s) => At(tag, s, c) = {}
PROOF
  <1>1. ASSUME c \in ToSet(s) PROVE \E x : At(tag, s, c) = {x}
    <2>1. PICK i \in DOMAIN s : s[i] = c
      BY <1>1 DEF ToSet
    <2>2. {k \in DOMAIN s : s[k] = c} = {i}
      BY <2>1 DEF IsInjective
    <2>3. At(tag, s, c) = {<<tag, i>>}
      BY <2>2 DEF At
    <2>. QED BY <2>3
  <1>2. ASSUME c \notin ToSet(s) PROVE At(tag, s, c) = {}
    BY <1>2 DEF At, ToSet
  <1>. QED BY <1>1, <1>2

\* The places of a command are as many as its invariant says.
LEMMA OnePlace ==
  ASSUME CommandsInv, NEW c \in Commands
  PROVE  Cardinality(Places(c)) = IF outcome[c] = "pending" THEN 1 ELSE 0
PROOF
  <1> DEFINE offline == At("offline", offlineQueue, c)
             delayed(b) == At(b, queues[b], c)
             delayedAnywhere == UNION {delayed(b) : b \in Buckets}
             alive == {<<"pool", n>> : n \in {m \in Nodes : c \in inflight[m]}}
             dead == {<<"dying", n>> : n \in {m \in Nodes : c \in dyingInflight[m]}}
  <1>1. Places(c) = offline \cup delayedAnywhere \cup alive \cup dead
    BY DEF Places, At
  <1>2. InOnePlace(c) /\ PlaceTypes
    BY DEF CommandsInv, CommandInv
  <1>3. /\ Queued(c) => \E x : offline = {x}
        /\ ~Queued(c) => offline = {}
    <2>1. offlineQueue \in Seq(Commands) /\ IsInjective(offlineQueue)
      BY <1>2 DEF PlaceTypes
    <2>. QED BY <2>1, IndexFacts DEF Queued
  <1>4. \A b \in Buckets : /\ DelayedIn(c, b) => \E x : delayed(b) = {x}
                           /\ ~DelayedIn(c, b) => delayed(b) = {}
    <2>1. \A b \in Buckets : queues[b] \in Seq(Commands) /\ IsInjective(queues[b])
      BY <1>2 DEF PlaceTypes
    <2>. QED BY <2>1, IndexFacts DEF DelayedIn
  <1>5. ASSUME NEW n \in Nodes, c \in inflight[n] PROVE alive = {<<"pool", n>>} /\ dead = {}
    <2>1. \A m \in Nodes : (c \in inflight[m] <=> m = n) /\ c \notin dyingInflight[m]
      BY <1>2, <1>5 DEF InOnePlace, FliesAt
    <2>. QED BY <2>1
  <1>6. ASSUME NEW n \in Nodes, c \in dyingInflight[n] PROVE alive = {} /\ dead = {<<"dying", n>>}
    <2>1. \A m \in Nodes : (c \in dyingInflight[m] <=> m = n) /\ c \notin inflight[m]
      BY <1>2, <1>6 DEF InOnePlace, FliesAt
    <2>. QED BY <2>1
  <1>7. ~Flies(c) => alive = {} /\ dead = {}
    BY DEF Flies, FliesAt
  <1> HIDE DEF offline, delayed, alive, dead
  <1>10. \A x : x \in delayedAnywhere <=> \E b \in Buckets : x \in delayed(b)
    OBVIOUS
  <1> HIDE DEF delayedAnywhere
  <1>8. CASE outcome[c] # "pending"
    <2>1. ~Queued(c) /\ ~Flies(c) /\ \A b \in Buckets : ~DelayedIn(c, b)
      BY <1>2, <1>8 DEF InOnePlace, Waits
    <2>2. Places(c) = {}
      BY <1>1, <1>3, <1>4, <1>7, <1>10, <2>1
    <2>. QED BY <1>8, <2>2, FS_EmptySet
  <1>9. CASE outcome[c] = "pending"
    <2>1. CASE Queued(c)
      <3>1. ~Flies(c) /\ \A b \in Buckets : ~DelayedIn(c, b)
        BY <1>2, <2>1 DEF InOnePlace, Waits
      <3>2. Places(c) = offline
        BY <1>1, <1>4, <1>7, <1>10, <3>1
      <3>. QED BY <1>3, <1>9, <2>1, <3>2, FS_Singleton
    <2>2. CASE \E b \in Buckets : DelayedIn(c, b)
      <3>1. PICK b \in Buckets : DelayedIn(c, b)
        BY <2>2
      <3>2. ~Flies(c) /\ ~Queued(c) /\ \A d \in Buckets : DelayedIn(c, d) => d = b
        BY <1>2, <3>1 DEF InOnePlace, Waits
      <3>3. Places(c) = delayed(b)
        BY <1>1, <1>3, <1>4, <1>7, <1>10, <3>1, <3>2
      <3>. QED BY <1>4, <1>9, <3>1, <3>3, FS_Singleton
    <2>3. CASE Flies(c)
      <3>1. ~Queued(c) /\ \A b \in Buckets : ~DelayedIn(c, b)
        BY <1>2, <2>3 DEF InOnePlace, Waits
      <3>2. Places(c) = alive \cup dead
        <4>1. delayedAnywhere = {} /\ offline = {}
          BY <1>3, <1>4, <1>10, <3>1
        <4>. QED BY <1>1, <4>1
      <3>3. \E x : alive \cup dead = {x}
        BY <1>5, <1>6, <2>3 DEF Flies, FliesAt
      <3>. QED BY <1>9, <3>2, <3>3, FS_Singleton
    <2>. QED BY <1>2, <1>9, <2>1, <2>2, <2>3 DEF InOnePlace, Waits
  <1>. QED BY <1>8, <1>9

\* The invariant of the commands holds in every behaviour.
THEOREM CommandsTheorem == Spec => []CommandsInv
PROOF
  <1>1. Init => CommandsInv
    BY CommandsInit
  <1>2. CommandsInv /\ [Next]_vars => CommandsInv'
    BY CommandsKeep
  <1>. QED BY <1>1, <1>2, PTL DEF Spec

\* Every pending command is in exactly one place, and any other command in none, whatever
\* is lost, redirected, delayed or closed.
THEOREM HeldOnceTheorem == Spec => []HeldOnce
PROOF
  <1>1. CommandsInv => HeldOnce
    BY OnePlace DEF HeldOnce
  <1>. QED BY <1>1, CommandsTheorem, PTL

\* A command is sent at most maxRedirections + 1 times.
THEOREM RedirectionsTheorem == Spec => []RedirectionsBounded
PROOF
  <1>1. CommandsInv => RedirectionsBounded
    BY DEF CommandsInv, CommandInv, WithinBudget, RedirectionsBounded
  <1>. QED BY <1>1, CommandsTheorem, PTL

------------------------------------------------------------------------------
(* What waits is woken.                                                      *)

\* A bucket that waits for a refresh is among those the refresh calls back.
WakeInv ==
  /\ timeouts \in [Buckets -> {"none", "pending", "refreshing"}]
  /\ \A b \in Buckets : timeouts[b] = "refreshing" => b \in callbacks
  /\ WaitersAreWoken

\* The end of a refresh runs every bucket that waited for it.
LEMMA CalledWakes ==
  ASSUME WakeInv, NEW cbs, callbacks \subseteq cbs, NEW pl, NEW inf, Called(cbs, pl, inf)
  PROVE  WakeInv'
PROOF
  <1>1. /\ isRefreshing' = FALSE /\ callbacks' = {}
        /\ timeouts' = [b \in Buckets |-> IF b \in cbs \cap Buckets THEN "none" ELSE timeouts[b]]
        /\ queues' = [b \in Buckets |-> IF b \in cbs \cap Buckets THEN <<>> ELSE queues[b]]
    BY DEF Called, Execute
  <1>. QED BY <1>1 DEF WakeInv, WaitersAreWoken

\* refreshSlotsCache keeps the callbacks it was given before, and adds one.
LEMMA RefreshWakes ==
  ASSUME WakeInv, NEW waiting, NEW pl, Refresh(waiting, pl), UNCHANGED queues,
         \/ UNCHANGED timeouts
         \/ \E b \in Buckets \cap waiting : timeouts' = [timeouts EXCEPT ![b] = "refreshing"]
  PROVE  WakeInv'
PROOF
  BY DEF WakeInv, WaitersAreWoken, Refresh

\* DelayQueue#push: the timer of the bucket is set unless it is.
LEMMA DelayWakes ==
  ASSUME WakeInv, NEW b \in Buckets, UNCHANGED refresh,
         \A d \in Buckets \ {b} : queues'[d] = queues[d],
         NEW more \in BOOLEAN, ~more => queues'[b] = queues[b],
         timeouts' = [timeouts EXCEPT ![b] = IF more /\ @ = "none" THEN "pending" ELSE @]
  PROVE  WakeInv'
PROOF
  BY DEF WakeInv, WaitersAreWoken, refresh

\* What the actions do to the queues and the timers.
LEMMA WakesKeep ==
  ASSUME CommandsInv, WakeInv, [Next]_vars
  PROVE  WakeInv'
PROOF
  <1> DEFINE Frame == UNCHANGED <<queues, timeouts, callbacks, isRefreshing>>
  <1>1. Frame => WakeInv'
    BY DEF WakeInv, WaitersAreWoken
  <1>2. CASE \/ Application \/ EmitClose \/ Checks \/ ReconnectTimer \/ ResolvedLate \/ ResolveFails
             \/ ClusterChanges \/ UNCHANGED vars
    <2>1. Frame
      BY <1>2 DEF Application, Connect, Disconnect, Quit, Issue, IssueAfterEnd, EmitClose, Checks,
                  CheckOk, CheckFails, ReconnectTimer, ResolvedLate, ResolveFails, ClusterChanges,
                  vars, delays, refresh
    <2>. QED BY <1>1, <2>1
  <1>3. CASE Resolved
    <2>1. CASE Frame
      BY <1>1, <2>1
    <2>2. CASE callbacks' = callbacks \cup {"connect"} /\ isRefreshing' = TRUE
      BY <1>3, <2>2 DEF Resolved, WakeInv, WaitersAreWoken, delays
    <2>. QED BY <1>3, <2>1, <2>2 DEF Resolved, refresh, delays
  <1>4. CASE SlotsTimer
    <2>1. CASE Frame
      BY <1>1, <2>1
    <2>2. CASE Refresh({"interval"}, pool)
      BY <1>4, <2>2, RefreshWakes DEF SlotsTimer, delays
    <2>. QED BY <1>4, <2>1, <2>2 DEF SlotsTimer, refresh, delays
  <1>5. ASSUME NEW b \in Buckets, DelayTimer(b) PROVE WakeInv'
    <2>1. CASE b = "tryagain"
      <3>1. /\ UNCHANGED <<callbacks, isRefreshing>>
            /\ timeouts' = [d \in Buckets |-> IF d \in {b} THEN "none" ELSE timeouts[d]]
            /\ queues' = [d \in Buckets |-> IF d \in {b} THEN <<>> ELSE queues[d]]
        BY <1>5, <2>1 DEF DelayTimer, Execute, refresh
      <3>. QED BY <3>1 DEF WakeInv, WaitersAreWoken
    <2>2. CASE b # "tryagain" /\ ~isRefreshing /\ InPool = {}
      <3>1. Called({b}, pool, inflight)
        BY <1>5, <2>2 DEF DelayTimer
      <3>2. callbacks \subseteq {b}
        BY <2>2 DEF WakeInv, WaitersAreWoken
      <3>. QED BY <3>1, <3>2, CalledWakes
    <2>3. CASE b # "tryagain" /\ ~(~isRefreshing /\ InPool = {})
      <3>1. Refresh({b}, pool) /\ timeouts' = [timeouts EXCEPT ![b] = "refreshing"] /\ UNCHANGED queues
        BY <1>5, <2>3 DEF DelayTimer
      <3>. QED BY <3>1, RefreshWakes
    <2>. QED BY <2>1, <2>2, <2>3
  <1>6. CASE RefreshStopped
    BY <1>6, CalledWakes DEF RefreshStopped
  <1>7. ASSUME NEW n \in Nodes, RefreshDone(n) PROVE WakeInv'
    <2>1. \E pl, inf : Called(callbacks, pl, inf)
      BY <1>7 DEF RefreshDone
    <2>. QED BY <2>1, CalledWakes
  <1>8. ASSUME NEW n \in Nodes, RefreshError(n) PROVE WakeInv'
    <2>1. CASE untried # {n}
      BY <1>1, <1>8, <2>1 DEF RefreshError, delays
    <2>2. CASE untried = {n}
      <3>1. \E pl, inf : Called(callbacks, pl, inf)
        BY <1>8, <2>2 DEF RefreshError
      <3>. QED BY <3>1, CalledWakes
    <2>. QED BY <2>1, <2>2
  <1>9. ASSUME NEW n \in Nodes, NodeEnds(n) \/ DyingEnds(n) PROVE WakeInv'
    <2>1. UNCHANGED refresh
      BY <1>9 DEF NodeEnds, DyingEnds
    <2>2. \E cs \in SUBSET Pending : ConnectionClosed(cs)
      <3>1. CASE NodeEnds(n)
        <4>1. ConnectionClosed(inflight[n] \ {Info})
          BY <3>1 DEF NodeEnds, Ended
        <4>2. inflight[n] \ {Info} \in SUBSET Pending
          BY DEF CommandsInv, PlaceTypes, CommandInv, InOnePlace, Flies, FliesAt, Pending
        <4>. QED BY <4>1, <4>2
      <3>2. CASE DyingEnds(n)
        <4>1. PICK es \in SUBSET dyingInflight[n] : ConnectionClosed(es \ {Info})
          BY <3>2 DEF DyingEnds, Ended
        <4>2. es \ {Info} \in SUBSET Pending
          BY DEF CommandsInv, PlaceTypes, CommandInv, InOnePlace, Flies, FliesAt, Pending
        <4>. QED BY <4>1, <4>2
      <3>. QED BY <1>9, <3>1, <3>2
    <2>3. PICK cs \in SUBSET Pending : ConnectionClosed(cs)
      BY <2>2
    <2> DEFINE again == {c \in cs : status = "ready" /\ CountDown(c) > 0}
               more == again # {}
    <2>4. /\ queues' = [queues EXCEPT !["failover"] = @ \o SetToSeq(again)]
          /\ timeouts' = [timeouts EXCEPT !["failover"] = IF more /\ @ = "none" THEN "pending" ELSE @]
      BY <2>3 DEF ConnectionClosed
    <2>5. IsFiniteSet(again) /\ "failover" \in Buckets /\ queues \in [Buckets -> Seq(Commands)]
      <3>1. again \in SUBSET Pending
        OBVIOUS
      <3>. QED BY <3>1, FS_Subset DEF CommandsInv, PendingFinite, PlaceTypes, Buckets
    <2> HIDE DEF again
    <2>6. ~more => queues'["failover"] = queues["failover"]
      <3>1. ~more => SetToSeq(again) = <<>>
        BY <2>5, SetToSeqFacts
      <3>. QED BY <2>4, <2>5, <3>1
    <2>7. \A d \in Buckets \ {"failover"} : queues'[d] = queues[d]
      BY <2>4, <2>5
    <2>8. more \in BOOLEAN
      OBVIOUS
    <2> HIDE DEF more
    <2>. QED BY <2>1, <2>4, <2>5, <2>6, <2>7, <2>8, DelayWakes
  <1>10. ASSUME NEW c \in Commands, Replies(c) PROVE WakeInv'
    <2>1. PICK n \in Nodes, dead \in BOOLEAN :
            \/ Reply(c, n, dead) \/ TooMany(c, n, dead) \/ ReplyMoved(c, n, dead)
            \/ \E t \in Nodes : ReplyAsk(c, n, dead, t)
            \/ \E b \in {"tryagain", "clusterdown"} : ReplyLater(c, n, dead, b)
      BY <1>10 DEF Replies
    <2>2. CASE Reply(c, n, dead) \/ TooMany(c, n, dead) \/ \E t \in Nodes : ReplyAsk(c, n, dead, t)
      <3>1. Frame
        BY <2>2 DEF Reply, TooMany, ReplyAsk, delays, refresh
      <3>. QED BY <1>1, <3>1
    <2>3. CASE ReplyMoved(c, n, dead)
      <3>1. UNCHANGED <<queues, timeouts>> /\ \E pl : Refresh({}, pl)
        BY <2>3 DEF ReplyMoved, delays
      <3>. QED BY <3>1, RefreshWakes
    <2>4. ASSUME NEW b \in {"tryagain", "clusterdown"}, ReplyLater(c, n, dead, b) PROVE WakeInv'
      <3>1. /\ UNCHANGED refresh
            /\ queues' = [queues EXCEPT ![b] = Append(@, c)]
            /\ timeouts' = [timeouts EXCEPT ![b] = IF TRUE /\ @ = "none" THEN "pending" ELSE @]
        BY <2>4 DEF ReplyLater
      <3>2. b \in Buckets /\ queues \in [Buckets -> Seq(Commands)]
        BY DEF Buckets, CommandsInv, PlaceTypes
      <3>3. \A d \in Buckets \ {b} : queues'[d] = queues[d]
        BY <3>1, <3>2
      <3>. QED BY <3>1, <3>2, <3>3, DelayWakes
    <2>. QED BY <2>1, <2>2, <2>3, <2>4
  <1>. QED
    BY <1>2, <1>3, <1>4, <1>5, <1>6, <1>7, <1>8, <1>9, <1>10
       DEF Next, Timers, Resolving, Refreshing, Ending, NodeQuits, Environment, NodeLost

\* A delayed command has the timer of its bucket or a refresh that will call the bucket
\* back, and whoever waits for a refresh has one that runs.
THEOREM WaitersTheorem == Spec => []WaitersAreWoken
PROOF
  <1>1. Init => WakeInv
    BY DEF Init, WakeInv, WaitersAreWoken
  <1>2. CommandsInv /\ WakeInv /\ [Next]_vars => WakeInv'
    BY WakesKeep
  <1>3. WakeInv => WaitersAreWoken
    BY DEF WakeInv
  <1>. QED BY <1>1, <1>2, <1>3, CommandsTheorem, PTL DEF Spec
=============================================================================
