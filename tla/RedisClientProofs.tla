-------------------------- MODULE RedisClientProofs --------------------------
(***************************************************************************)
(* Proofs about RedisClient, for every value of its constants:             *)
(*   - the types;                                                          *)
(*   - the socket invariant, and that the client implements                *)
(*     ConnectionLifecycle;                                                *)
(*   - that it matches replies to commands;                                *)
(*   - that a client that was closed stays closed;                         *)
(*   - about the commands it holds, that none is lost while its caller     *)
(*     waits and none is queued twice (HeldOnce), that without             *)
(*     autoResendUnfulfilledCommands the server runs each at most once     *)
(*     (AtMostOnce), and that whether or not, it runs none whose caller    *)
(*     has the reply (ResolvedIsDone);                                     *)
(*   - that the server runs every command in the database the client       *)
(*     recorded for it when no pipeline has a SELECT (with one it is not   *)
(*     so: see README.md);                                                 *)
(*   - that it runs the commands of a pipeline one right after the other.  *)
(***************************************************************************)
EXTENDS RedisClient, SequenceFacts, SequenceTheorems, TLAPS

------------------------------------------------------------------------------
(* Types: what the operators on queues return.                              *)

\* A filtered queue is a queue of the same items.
LEMMA KeepType ==
  ASSUME NEW S, NEW q \in Seq(S), NEW keep
  PROVE  Keep(q, keep) \in Seq(S)
PROOF
  <1>1. ASSUME NEW i \in DOMAIN q
        PROVE  (IF i \in keep THEN <<q[i]>> ELSE <<>>) \in Seq(S)
    OBVIOUS
  <1>2. [i \in DOMAIN q |-> IF i \in keep THEN <<q[i]>> ELSE <<>>] \in [1..Len(q) -> Seq(S)]
    BY <1>1
  <1>3. [i \in DOMAIN q |-> IF i \in keep THEN <<q[i]>> ELSE <<>>] \in Seq(Seq(S))
    BY <1>2, SeqDef
  <1>. QED
    BY <1>3, FlattenSeqType DEF Keep

\* One continuation wakes at most, with a result it knows.
LEMMA WokenType ==
  ASSUME NEW item \in Item, NEW result \in HelloReplies \cup InfoReplies \cup {"ok", "error", "flushed"}
  PROVE  Woken(item, result) \in Seq(Microtask)
PROOF
  <1>1. CASE item.cmd = NoCmd /\ item.name \in {"hello", "info"}
    <2>1. [kind |-> item.name, epoch |-> item.epoch, result |-> result] \in Microtask
      BY <1>1 DEF Item, Microtask
    <2>. QED BY <1>1, <2>1 DEF Woken
  <1>2. CASE ~(item.cmd = NoCmd /\ item.name \in {"hello", "info"})
    BY <1>2 DEF Woken
  <1>. QED
    BY <1>1, <1>2

\* Rejecting the commands of a queue wakes continuations only.
LEMMA WakenedType ==
  ASSUME NEW q \in Seq(Item)
  PROVE  Wakened(q) \in Seq(Microtask)
PROOF
  <1>1. ASSUME NEW i \in DOMAIN q
        PROVE  Woken(q[i], IF q[i].name = "hello" THEN "flushed" ELSE "error") \in Seq(Microtask)
    BY WokenType
  <1>2. [i \in DOMAIN q |-> Woken(q[i], IF q[i].name = "hello" THEN "flushed" ELSE "error")]
          \in Seq(Seq(Microtask))
    BY <1>1
  <1>. QED
    BY <1>2, FlattenSeqType DEF Wakened

\* A command of the client itself is an item.
LEMMA InternalType ==
  ASSUME NEW name \in ItemNames, NEW db \in Dbs, NEW sel \in Dbs, NEW e \in Nat
  PROVE  Internal(name, db, sel, e) \in Item
PROOF
  BY DEF Internal, Item

\* Replaying a queue sends items, and leaves the connection in some database.
LEMMA ResendType ==
  ASSUME NEW q \in Seq(Item), NEW db \in Dbs
  PROVE  Resend(q, db) \in Seq(Item) /\ DbAfter(q, db) \in Dbs
PROOF
  <1>1. ASSUME NEW i \in DOMAIN q
        PROVE  q[i] \in Item /\ DbAfterItem(q[i]) \in Dbs /\ DbBefore(q, i, db) \in Dbs
    <2>1. ASSUME NEW item \in Item PROVE DbAfterItem(item) \in Dbs
      BY <2>1 DEF DbAfterItem, Item
    <2>2. i = 1 \/ q[i - 1] \in Item
      OBVIOUS
    <2>. QED BY <2>1, <2>2 DEF DbBefore
  <1> DEFINE step(i) ==
    IF q[i].name = "select" THEN <<[q[i] EXCEPT !.select = DbBefore(q, i, db)]>>
    ELSE IF q[i].select = DbBefore(q, i, db) THEN <<q[i]>>
    ELSE <<SelectItem(q[i].select, DbBefore(q, i, db)), q[i]>>
  <1>2. ASSUME NEW i \in DOMAIN q PROVE step(i) \in Seq(Item)
    <2>1. [q[i] EXCEPT !.select = DbBefore(q, i, db)] \in Item
      BY <1>1 DEF Item
    <2>2. SelectItem(q[i].select, DbBefore(q, i, db)) \in Item
      BY <1>1, OptionsAssumption DEF SelectItem, Internal, Item, ItemNames, Names
    <2>. QED BY <1>1, <2>1, <2>2
  <1>3. [i \in DOMAIN q |-> step(i)] \in Seq(Seq(Item))
    <2> HIDE DEF step
    <2>1. [i \in DOMAIN q |-> step(i)] \in [1..Len(q) -> Seq(Item)]
      BY <1>2
    <2>. QED BY <2>1, SeqDef
  <1>4. FlattenSeq([i \in DOMAIN q |-> step(i)]) \in Seq(Item)
    BY <1>3, FlattenSeqType
  <1>5. DbAfter(q, db) \in Dbs
    BY <1>1 DEF DbAfter
  <1>. QED
    BY <1>4, <1>5 DEF Resend

\* SelectedAfter takes the last SELECT among the first n commands.
LEMMA SelectedAfterType ==
  ASSUME NEW b \in Batches, NEW n \in 0..Len(b), NEW db \in Dbs
  PROVE  SelectedAfter(b, n, db) \in Dbs
PROOF
  <1> DEFINE selects == {i \in 1..n : Name[b[i]] = "select"}
  <1>1. b \in Seq(Commands)
    BY CommandsAssumption
  <1>2. ASSUME selects # {}
        PROVE  \E i \in selects : \A j \in selects : j <= i
    <2> DEFINE T == {n - i : i \in selects}
    <2>1. T \subseteq Nat /\ T # {}
      BY <1>2, <1>1
    <2>2. PICK x \in T : \A y \in T : x <= y
      <3> HIDE DEF T
      <3>. QED BY <2>1, LeastNat
    <2>3. PICK i \in selects : x = n - i
      OBVIOUS
    <2>4. ASSUME NEW j \in selects PROVE j <= i
      <3>1. n - i <= n - j
        BY <2>2, <2>3
      <3>2. i \in Nat /\ j \in Nat /\ n \in Nat
        BY <1>1
      <3>. QED BY <3>1, <3>2
    <2>. QED BY <2>4
  <1>3. ASSUME NEW i \in selects PROVE Argument[b[i]] \in Dbs
    BY <1>1, CommandsAssumption
  <1>. QED
    BY <1>2, <1>3 DEF SelectedAfter

\* A batch becomes items: each command carries a database that exists.
LEMMA ItemsOfType ==
  ASSUME TypeOK, NEW b \in Batches, NEW sel \in Dbs
  PROVE  ItemsOf(b, sel) \in Seq(Item)
PROOF
  <1>1. b \in Seq(Commands)
    BY CommandsAssumption
  <1> DEFINE item(i) ==
    [name |-> Name[b[i]], cmd |-> b[i],
     db |-> IF Name[b[i]] = "select" THEN Argument[b[i]] ELSE SelectedAfter(b, i, userDb),
     select |-> SelectedAfter(b, i - 1, sel), epoch |-> 0]
  <1>2. ASSUME NEW i \in DOMAIN b PROVE item(i) \in Item
    <2>1. SelectedAfter(b, i, userDb) \in Dbs /\ SelectedAfter(b, i - 1, sel) \in Dbs
      <3>1. i \in 0..Len(b) /\ i - 1 \in 0..Len(b) /\ userDb \in Dbs
        BY <1>1 DEF TypeOK, LifecycleTypes, DatabaseTypes, QueueTypes, WireTypes, HistoryTypes
      <3>. QED BY <3>1, SelectedAfterType
    <2>2. Name[b[i]] \in ItemNames /\ b[i] \in Commands /\ Argument[b[i]] \in Dbs
      BY <1>1, CommandsAssumption DEF ItemNames
    <2>. QED BY <2>1, <2>2 DEF Item
  <1>3. [i \in DOMAIN b |-> item(i)] \in Seq(Item)
    <2> HIDE DEF item
    <2>1. [i \in DOMAIN b |-> item(i)] \in [1..Len(b) -> Item]
      BY <1>1, <1>2
    <2>. QED BY <1>1, <2>1, SeqDef
  <1>. QED
    BY <1>3 DEF ItemsOf

\* Rejecting a set of callers leaves every outcome an outcome.
LEMMA SettleType ==
  ASSUME TypeOK, NEW S, NEW result \in {"ok", "error"}
  PROVE  Settle(S, result) \in [Commands -> {"idle", "pending", "ok", "error"}]
PROOF
  BY DEF Settle, TypeOK, LifecycleTypes, DatabaseTypes, QueueTypes, WireTypes, HistoryTypes

\* The handshake's own items.
LEMMA HandshakeItemTypes ==
  ASSUME TypeOK
  PROVE  /\ HelloItem \in Item
         /\ \A e \in Nat : InfoItem(e) \in Item
         /\ \A db, sel \in Dbs : SelectItem(db, sel) \in Item
PROOF
  BY OptionsAssumption
     DEF HelloItem, InfoItem, SelectItem, Internal, Item, ItemNames, Names, TypeOK, LifecycleTypes, DatabaseTypes, QueueTypes, WireTypes, HistoryTypes

------------------------------------------------------------------------------
(* What the shared parts of the actions leave of the types.                  *)

\* flushQueue leaves queues, outcomes and continuations of their types.
LEMMA FlushQueuesType ==
  ASSUME TypeOK, NEW oq \in Seq(Item), NEW cq \in Seq(Item), NEW tasks \in Seq(Microtask),
         FlushQueues(oq, cq, tasks)
  PROVE  /\ {offlineQueue', commandQueue', prevCommandQueue'} \subseteq Seq(Item)
         /\ outcome' \in [Commands -> {"idle", "pending", "ok", "error"}]
         /\ microtasks' \in Seq(Microtask)
PROOF
  <1>1. Wakened(oq) \in Seq(Microtask) /\ Wakened(cq) \in Seq(Microtask)
    BY WakenedType
  <1>2. outcome' \in [Commands -> {"idle", "pending", "ok", "error"}]
    BY SettleType DEF FlushQueues
  <1>3. {offlineQueue', commandQueue', prevCommandQueue'} \subseteq Seq(Item)
    BY DEF FlushQueues, TypeOK, LifecycleTypes, DatabaseTypes, QueueTypes, WireTypes, HistoryTypes
  <1>4. microtasks' \in Seq(Microtask)
    BY <1>1 DEF FlushQueues
  <1>. QED BY <1>2, <1>3, <1>4

\* A handshake command is written, queued or rejected; the types are kept in each case.
LEMMA SendHandshakeType ==
  ASSUME TypeOK, NEW item \in Item, NEW tasks \in Seq(Microtask), SendHandshake(item, tasks)
  PROVE  /\ {offlineQueue', commandQueue', sent'} \subseteq Seq(Item)
         /\ microtasks' \in Seq(Microtask)
PROOF
  <1>1. <<item>> \in Seq(Item)
    OBVIOUS
  <1>2. Wakened(<<item>>) \in Seq(Microtask)
    BY <1>1, WakenedType
  <1>t. commandQueue \in Seq(Item) /\ sent \in Seq(Item) /\ offlineQueue \in Seq(Item)
    BY DEF TypeOK, LifecycleTypes, DatabaseTypes, QueueTypes, WireTypes, HistoryTypes
  <1>3. CASE Writable(item.name, FALSE)
    <2>1. /\ commandQueue' = commandQueue \o <<item>> /\ sent' = sent \o <<item>>
          /\ microtasks' = tasks /\ offlineQueue' = offlineQueue
      BY <1>3 DEF SendHandshake, Write
    <2>. QED BY <2>1, <1>1, <1>t
  <1>4. CASE ~Writable(item.name, FALSE)
    <2>1. /\ commandQueue' = commandQueue /\ sent' = sent
          /\ \/ offlineQueue' = Append(offlineQueue, item) /\ microtasks' = tasks
             \/ offlineQueue' = offlineQueue /\ microtasks' = tasks \o Wakened(<<item>>)
      BY <1>4 DEF SendHandshake
    <2>2. tasks \o Wakened(<<item>>) \in Seq(Microtask)
      BY <1>2
    <2>3. Append(offlineQueue, item) \in Seq(Item)
      BY <1>t
    <2>. QED BY <2>1, <2>2, <2>3, <1>t
  <1>. QED BY <1>3, <1>4

\* closeHandler keeps the types, on each of its ways out.
LEMMA CloseHandlerType ==
  ASSUME TypeOK, NEW manual \in BOOLEAN, CloseHandler(manual)
  PROVE  /\ status' \in Statuses /\ retryAttempts' \in Nat /\ manuallyClosing' \in BOOLEAN
         /\ timers' \in Nat /\ timerHandle' \in BOOLEAN /\ (timerHandle' => timers' > 0)
         /\ prevSelect' \in Dbs \cup {NoDb} /\ prevShared' \in BOOLEAN /\ queueShared' \in BOOLEAN
         /\ {offlineQueue', commandQueue', prevCommandQueue'} \subseteq Seq(Item)
         /\ outcome' \in [Commands -> {"idle", "pending", "ok", "error"}]
         /\ microtasks' \in Seq(Microtask)
PROOF
  <1>1. AbortIncompletePipelines(commandQueue) \in Seq(Item)
    BY KeepType DEF AbortIncompletePipelines, TypeOK, LifecycleTypes, DatabaseTypes, QueueTypes, WireTypes, HistoryTypes
  <1>2. AbortTransactionFragments(offlineQueue) \in Seq(Item)
    BY KeepType DEF AbortTransactionFragments, TypeOK, LifecycleTypes, DatabaseTypes, QueueTypes, WireTypes, HistoryTypes
  <1>3. /\ Wakened(AbortIncompletePipelines(commandQueue)) \in Seq(Microtask)
        /\ Wakened(AbortTransactionFragments(offlineQueue)) \in Seq(Microtask)
    BY <1>1, <1>2, WakenedType
  <1>4. \A S : Settle(S, "error") \in [Commands -> {"idle", "pending", "ok", "error"}]
    BY SettleType
  <1>5. /\ status' \in Statuses /\ retryAttempts' \in Nat /\ manuallyClosing' \in BOOLEAN
        /\ timers' \in Nat /\ timerHandle' \in BOOLEAN /\ (timerHandle' => timers' > 0)
    <2> DEFINE givesUp == manual \/ retryAttempts + 1 > RetryLimit
    <2>1. /\ status' = IF givesUp THEN "end" ELSE "reconnecting"
          /\ retryAttempts' = IF manual THEN retryAttempts ELSE retryAttempts + 1
          /\ manuallyClosing' = FALSE
          /\ timers' = IF givesUp THEN timers ELSE timers + 1
          /\ timerHandle' = (timerHandle \/ ~givesUp)
      BY Zenon DEF CloseHandler
    <2>2. retryAttempts \in Nat /\ timers \in Nat /\ timerHandle \in BOOLEAN /\ (timerHandle => timers > 0)
      BY DEF TypeOK, LifecycleTypes, DatabaseTypes, QueueTypes, WireTypes, HistoryTypes
    <2>3. givesUp \in BOOLEAN
      OBVIOUS
    <2> HIDE DEF givesUp
    <2>4. status' \in Statuses /\ retryAttempts' \in Nat /\ timers' \in Nat
      BY <2>1, <2>2 DEF Statuses
    <2>5. manuallyClosing' \in BOOLEAN /\ timerHandle' \in BOOLEAN
      BY <2>1, Zenon
    <2>6. ASSUME timerHandle' PROVE timers' > 0
      <3>1. timerHandle \/ ~givesUp
        BY <2>1, <2>6, Zenon
      <3>. QED BY <2>1, <2>2, <3>1
    <2>. QED BY <2>4, <2>5, <2>6
  <1>6. prevSelect' \in Dbs \cup {NoDb} /\ prevShared' \in BOOLEAN /\ queueShared' \in BOOLEAN
    BY DEF CloseHandler, TypeOK, LifecycleTypes, DatabaseTypes, QueueTypes, WireTypes, HistoryTypes
  <1>7. {offlineQueue', commandQueue', prevCommandQueue'} \subseteq Seq(Item)
    BY <1>1, <1>2 DEF CloseHandler, TypeOK, LifecycleTypes, DatabaseTypes, QueueTypes, WireTypes, HistoryTypes
  <1>8. outcome' \in [Commands -> {"idle", "pending", "ok", "error"}]
    BY <1>4 DEF CloseHandler
  <1>9. microtasks' \in Seq(Microtask)
    BY <1>3 DEF CloseHandler
  <1>. QED BY <1>5, <1>6, <1>7, <1>8, <1>9

------------------------------------------------------------------------------
(* The actions.                                                              *)

\* A group of variables that does not change keeps its types.
LEMMA TypesStable ==
  ASSUME TypeOK
  PROVE  /\ UNCHANGED lifecycle => LifecycleTypes'
         /\ UNCHANGED databases => DatabaseTypes'
         /\ UNCHANGED queues => QueueTypes'
         /\ UNCHANGED link => LinkTypes'
         /\ UNCHANGED loop => LoopTypes'
         /\ UNCHANGED wire => WireTypes'
         /\ UNCHANGED history => HistoryTypes'
         /\ UNCHANGED budget => BudgetTypes'
PROOF
  <1>1. UNCHANGED lifecycle => LifecycleTypes'
    BY DEF TypeOK, LifecycleTypes, lifecycle
  <1>2. UNCHANGED databases => DatabaseTypes'
    BY DEF TypeOK, DatabaseTypes, databases
  <1>3. UNCHANGED queues => QueueTypes'
    BY DEF TypeOK, QueueTypes, queues
  <1>4. UNCHANGED link => LinkTypes'
    BY DEF TypeOK, LinkTypes, link
  <1>5. UNCHANGED loop => LoopTypes'
    BY DEF TypeOK, LoopTypes, loop
  <1>6. UNCHANGED wire => WireTypes'
    BY DEF TypeOK, WireTypes, wire, Reply
  <1>7. UNCHANGED history => HistoryTypes'
    BY DEF TypeOK, HistoryTypes, history
  <1>8. UNCHANGED budget => BudgetTypes'
    BY DEF TypeOK, BudgetTypes, budget
  <1>. QED
    BY <1>1, <1>2, <1>3, <1>4, <1>5, <1>6, <1>7, <1>8

\* An attempt starts: the part shared by connect(), the timer and sendCommand.
LEMMA StartConnectingTypes ==
  ASSUME TypeOK, StartConnecting,
         retryAttempts' = retryAttempts,
         condition' \in [select: Dbs, protocol: {2, 3}, handshake: BOOLEAN],
         prevSelect' = prevSelect, socket' = socket, ended' = ended, listening' = listening
  PROVE  /\ status' \in Statuses /\ epoch' \in Nat /\ retryAttempts' \in Nat
         /\ DatabaseTypes' /\ LinkTypes'
PROOF
  <1>1. status' \in Statuses /\ epoch' \in Nat /\ retryAttempts' \in Nat
    BY DEF TypeOK, LifecycleTypes, StartConnecting, Statuses
  <1>2. DatabaseTypes'
    BY DEF TypeOK, DatabaseTypes, StartConnecting
  <1>3. LinkTypes'
    BY DEF TypeOK, LinkTypes, StartConnecting
  <1>. QED BY <1>1, <1>2, <1>3

\* The condition of a new attempt is a condition.
LEMMA FreshConditionType ==
  FreshCondition \in [select: Dbs, protocol: {2, 3}, handshake: BOOLEAN]
PROOF
  BY OptionsAssumption DEF FreshCondition

\* connect() keeps the types.
LEMMA ConnectTypes ==
  ASSUME TypeOK, Connect
  PROVE  TypeOK'
PROOF
  <1>1. LifecycleTypes' /\ DatabaseTypes' /\ LinkTypes'
    BY StartConnectingTypes, FreshConditionType
       DEF Connect, TypeOK, LifecycleTypes
  <1>2. QueueTypes' /\ LoopTypes' /\ WireTypes'
    BY TypesStable DEF Connect
  <1>3. HistoryTypes' /\ BudgetTypes'
    BY DEF Connect, TypeOK, HistoryTypes, BudgetTypes
  <1>. QED
    BY <1>1, <1>2, <1>3 DEF TypeOK

\* The reconnection timer clears the handle that refers to it.
LEMMA ReconnectTimerTypes ==
  ASSUME TypeOK, ReconnectTimer
  PROVE  TypeOK'
PROOF
  <1>1. timers' \in Nat /\ timerHandle' = FALSE /\ manuallyClosing' \in BOOLEAN
    BY DEF ReconnectTimer, TypeOK, LifecycleTypes
  <1>2. /\ status' \in Statuses /\ epoch' \in Nat /\ retryAttempts' \in Nat
        /\ DatabaseTypes' /\ LinkTypes'
    <2>1. CASE MayConnect
      BY <2>1, StartConnectingTypes, FreshConditionType DEF ReconnectTimer
    <2>2. CASE ~MayConnect
      BY <2>2 DEF ReconnectTimer, TypeOK, LifecycleTypes, DatabaseTypes, LinkTypes
    <2>. QED BY <2>1, <2>2
  <1>3. LifecycleTypes'
    BY <1>1, <1>2 DEF LifecycleTypes
  <1>4. QueueTypes' /\ LoopTypes' /\ WireTypes' /\ HistoryTypes' /\ BudgetTypes'
    BY TypesStable DEF ReconnectTimer
  <1>. QED
    BY <1>2, <1>3, <1>4 DEF TypeOK

\* Creating the socket keeps the types.
LEMMA CreateSocketTypes ==
  ASSUME TypeOK, CreateSocket
  PROVE  TypeOK'
PROOF
  <1>1. LinkTypes'
    BY DEF CreateSocket, TypeOK, LinkTypes
  <1>. QED
    BY <1>1, TypesStable DEF CreateSocket, TypeOK

\* An attempt that is called off keeps the types.
LEMMA AbortConnectingTypes ==
  ASSUME TypeOK, AbortConnecting
  PROVE  TypeOK'
PROOF
  <1>1. /\ {offlineQueue', commandQueue', prevCommandQueue'} \subseteq Seq(Item)
        /\ outcome' \in [Commands -> {"idle", "pending", "ok", "error"}]
        /\ microtasks' \in Seq(Microtask)
    <2>1. offlineQueue \in Seq(Item) /\ commandQueue \in Seq(Item) /\ <<>> \in Seq(Microtask)
      BY DEF TypeOK, QueueTypes
    <2>. QED BY <2>1, FlushQueuesType DEF AbortConnecting
  <1>2. LifecycleTypes'
    BY DEF AbortConnecting, TypeOK, LifecycleTypes, Statuses
  <1>3. QueueTypes' /\ LoopTypes' /\ HistoryTypes'
    BY <1>1 DEF AbortConnecting, TypeOK, QueueTypes, LoopTypes, HistoryTypes
  <1>. QED
    BY <1>2, <1>3, TypesStable DEF AbortConnecting, TypeOK

\* connectHandler keeps the types.
LEMMA ConnectHandlerTypes ==
  ASSUME TypeOK, ConnectHandler
  PROVE  TypeOK'
PROOF
  <1>1. HelloItem \in Item
    BY HandshakeItemTypes
  <1>2. /\ <<HelloItem>> \in Seq(Item) /\ Append(offlineQueue, HelloItem) \in Seq(Item)
        /\ Wakened(<<HelloItem>>) \in Seq(Microtask)
    <2>1. <<HelloItem>> \in Seq(Item) /\ Append(offlineQueue, HelloItem) \in Seq(Item)
      BY <1>1 DEF TypeOK, QueueTypes
    <2>. QED BY <2>1, WakenedType
  <1>3. LifecycleTypes'
    BY DEF ConnectHandler, TypeOK, LifecycleTypes, Statuses
  <1>4. DatabaseTypes'
    BY DEF ConnectHandler, TypeOK, DatabaseTypes
  <1>5. QueueTypes'
    <2>1. commandQueue' \in Seq(Item)
      <3>1. commandQueue' = IF ended THEN <<>> ELSE <<HelloItem>>
        BY Zenon DEF ConnectHandler, ResetCommandQueue
      <3>. QED BY <1>2, <3>1
    <2>2. offlineQueue' \in Seq(Item) /\ prevCommandQueue' \in Seq(Item)
      BY <1>2 DEF ConnectHandler, TypeOK, QueueTypes
    <2>3. queueShared' \in BOOLEAN
      BY Zenon DEF ConnectHandler, ResetCommandQueue
    <2>. QED BY <2>1, <2>2, <2>3 DEF QueueTypes
  <1>6. LinkTypes' /\ LoopTypes'
    BY <1>2 DEF ConnectHandler, TypeOK, LinkTypes, LoopTypes
  <1>7. WireTypes'
    BY <1>2, OptionsAssumption DEF ConnectHandler, TypeOK, WireTypes
  <1>. QED
    BY <1>3, <1>4, <1>5, <1>6, <1>7, TypesStable DEF ConnectHandler, TypeOK

\* The close event keeps the types.
LEMMA CloseTypes ==
  ASSUME TypeOK, Close, faults' \in Nat
  PROVE  TypeOK'
PROOF
  <1>1. manuallyClosing \in BOOLEAN /\ CloseHandler(manuallyClosing)
    BY DEF Close, TypeOK, LifecycleTypes
  <1>2. /\ status' \in Statuses /\ retryAttempts' \in Nat /\ manuallyClosing' \in BOOLEAN
        /\ timers' \in Nat /\ timerHandle' \in BOOLEAN /\ (timerHandle' => timers' > 0)
        /\ prevSelect' \in Dbs \cup {NoDb} /\ prevShared' \in BOOLEAN /\ queueShared' \in BOOLEAN
        /\ {offlineQueue', commandQueue', prevCommandQueue'} \subseteq Seq(Item)
        /\ outcome' \in [Commands -> {"idle", "pending", "ok", "error"}]
        /\ microtasks' \in Seq(Microtask)
    BY <1>1, CloseHandlerType
  <1>3. LifecycleTypes' /\ DatabaseTypes' /\ QueueTypes'
    BY <1>2 DEF Close, TypeOK, LifecycleTypes, DatabaseTypes, QueueTypes
  <1>4. LinkTypes' /\ LoopTypes' /\ BudgetTypes'
    BY <1>2 DEF Close, TypeOK, LinkTypes, LoopTypes, BudgetTypes
  <1>5. WireTypes' /\ HistoryTypes'
    BY <1>2 DEF Close, TypeOK, WireTypes, HistoryTypes
  <1>. QED
    BY <1>3, <1>4, <1>5 DEF TypeOK

\* An expected close and a lost connection are both close events.
LEMMA StreamTypes ==
  ASSUME TypeOK, StreamClosed \/ StreamLost
  PROVE  TypeOK'
PROOF
  BY CloseTypes DEF StreamClosed, StreamLost, TypeOK, BudgetTypes

\* disconnect() clears the timer the handle refers to, and ends the stream.
LEMMA CloseManuallyTypes ==
  ASSUME TypeOK, CloseManually
  PROVE  manuallyClosing' \in BOOLEAN /\ timers' \in Nat /\ timerHandle' = FALSE
PROOF
  <1>1. manuallyClosing' \in BOOLEAN /\ timerHandle' = FALSE
    BY Zenon DEF CloseManually
  <1>2. timers' = (IF timerHandle THEN timers - 1 ELSE timers)
    BY Zenon DEF CloseManually
  <1>3. timers' \in Nat
    BY <1>2 DEF TypeOK, LifecycleTypes
  <1>. QED BY <1>1, <1>3

\* Ending the stream keeps the types.
LEMMA EndStreamTypes ==
  ASSUME TypeOK, EndStream, UNCHANGED socket, listening' \in BOOLEAN
  PROVE  LinkTypes'
PROOF
  <1>1. connecting' \in BOOLEAN /\ ended' \in BOOLEAN
    BY Zenon DEF EndStream
  <1>2. socket' \in {"none", "opening", "open"}
    BY DEF TypeOK, LinkTypes
  <1>. QED BY <1>1, <1>2 DEF LinkTypes

\* disconnect() clears a timer only if the handle refers to a pending one.
LEMMA DisconnectTypes ==
  ASSUME TypeOK, NEW reconnect \in BOOLEAN, Disconnect(reconnect)
  PROVE  TypeOK'
PROOF
  <1>1. CASE status = "wait"
    <2>1. /\ status' \in Statuses /\ retryAttempts' \in Nat /\ manuallyClosing' \in BOOLEAN
          /\ timers' \in Nat /\ timerHandle' \in BOOLEAN /\ (timerHandle' => timers' > 0)
          /\ prevSelect' \in Dbs \cup {NoDb} /\ prevShared' \in BOOLEAN /\ queueShared' \in BOOLEAN
          /\ {offlineQueue', commandQueue', prevCommandQueue'} \subseteq Seq(Item)
          /\ outcome' \in [Commands -> {"idle", "pending", "ok", "error"}]
          /\ microtasks' \in Seq(Microtask)
      BY <1>1, CloseHandlerType DEF Disconnect
    <2>2. LifecycleTypes' /\ DatabaseTypes' /\ QueueTypes'
      BY <2>1 DEF Disconnect, TypeOK, LifecycleTypes, DatabaseTypes, QueueTypes
    <2>3. LinkTypes' /\ LoopTypes' /\ BudgetTypes'
      BY <1>1, <2>1 DEF Disconnect, TypeOK, LinkTypes, LoopTypes, BudgetTypes
    <2>4. WireTypes' /\ HistoryTypes'
      BY <2>1, TypesStable DEF Disconnect, TypeOK, HistoryTypes
    <2>. QED BY <2>2, <2>3, <2>4 DEF TypeOK
  <1>2. CASE status # "wait"
    <2>1. LifecycleTypes'
      <3>1. CASE reconnect
        BY <1>2, <3>1 DEF Disconnect, TypeOK, LifecycleTypes
      <3>2. CASE ~reconnect
        <4>1. CloseManually /\ UNCHANGED <<status, epoch, retryAttempts>>
          BY <1>2, <3>2, Zenon DEF Disconnect
        <4>. QED BY <4>1, CloseManuallyTypes DEF TypeOK, LifecycleTypes
      <3>. QED BY <3>1, <3>2
    <2>2. LoopTypes' /\ BudgetTypes'
      BY <1>2 DEF Disconnect, TypeOK, LoopTypes, BudgetTypes
    <2>5. LinkTypes'
      <3>1. EndStream /\ UNCHANGED <<socket, listening>>
        BY <1>2, Zenon DEF Disconnect
      <3>2. UNCHANGED socket /\ listening' \in BOOLEAN
        BY <3>1 DEF TypeOK, LinkTypes
      <3>. QED BY <3>1, <3>2, EndStreamTypes
    <2>3. DatabaseTypes' /\ QueueTypes' /\ WireTypes'
      BY <1>2, TypesStable DEF Disconnect, databases, queues
    <2>4. HistoryTypes'
      BY <1>2 DEF Disconnect, TypeOK, HistoryTypes
    <2>. QED BY <2>1, <2>2, <2>3, <2>4, <2>5 DEF TypeOK
  <1>. QED
    BY <1>1, <1>2

------------------------------------------------------------------------------
(* The continuations of the handshake.                                       *)

\* The continuation that runs next is one, and what remains are continuations.
LEMMA HeadMicrotask ==
  ASSUME TypeOK, microtasks # <<>>
  PROVE  /\ Tail(microtasks) \in Seq(Microtask)
         /\ Head(microtasks).epoch \in Nat
PROOF
  <1>1. microtasks \in Seq(Microtask)
    BY DEF TypeOK, LoopTypes
  <1>2. Head(microtasks) \in Microtask /\ Tail(microtasks) \in Seq(Microtask)
    BY <1>1, HeadTailProperties
  <1>. QED BY <1>2 DEF Microtask

\* What a continuation leaves alone.
LEMMA ContinuationFrameTypes ==
  ASSUME TypeOK, ContinuationFrame, sent' \in Seq(Item),
         outcome' \in [Commands -> {"idle", "pending", "ok", "error"}], wantsOpen' \in BOOLEAN
  PROVE  WireTypes' /\ HistoryTypes' /\ BudgetTypes'
PROOF
  <1>1. WireTypes'
    BY DEF ContinuationFrame, TypeOK, WireTypes, Reply
  <1>2. HistoryTypes' /\ BudgetTypes'
    BY DEF ContinuationFrame, TypeOK, HistoryTypes, BudgetTypes, budget
  <1>. QED BY <1>1, <1>2

\* A stale continuation keeps the types.
LEMMA StaleContinuationTypes ==
  ASSUME TypeOK, StaleContinuation
  PROVE  TypeOK'
PROOF
  <1>1. LoopTypes'
    BY HeadMicrotask DEF StaleContinuation, TypeOK, LoopTypes
  <1>. QED
    BY <1>1, TypesStable DEF StaleContinuation, TypeOK

\* The downgrade to RESP2 keeps the types.
LEMMA DowngradeTypes ==
  ASSUME TypeOK, Downgrade
  PROVE  TypeOK'
PROOF
  <1>1. /\ {offlineQueue', commandQueue', sent'} \subseteq Seq(Item)
        /\ microtasks' \in Seq(Microtask)
    BY HeadMicrotask, HandshakeItemTypes, SendHandshakeType DEF Downgrade
  <1>2. LoopTypes'
    BY <1>1 DEF Downgrade, TypeOK, LoopTypes
  <1>3. DatabaseTypes'
    BY DEF Downgrade, TypeOK, DatabaseTypes
  <1>4. QueueTypes'
    BY <1>1 DEF Downgrade, TypeOK, QueueTypes
  <1>5. WireTypes' /\ HistoryTypes' /\ BudgetTypes'
    BY <1>1, ContinuationFrameTypes DEF Downgrade, TypeOK, HistoryTypes
  <1>. QED
    BY <1>2, <1>3, <1>4, <1>5, TypesStable DEF Downgrade, TypeOK

\* Sending INFO keeps the types.
LEMMA ReadyCheckTypes ==
  ASSUME TypeOK, ReadyCheck
  PROVE  TypeOK'
PROOF
  <1>1. InfoItem(epoch) \in Item
    BY HandshakeItemTypes DEF TypeOK, LifecycleTypes
  <1>2. /\ {offlineQueue', commandQueue', sent'} \subseteq Seq(Item)
        /\ microtasks' \in Seq(Microtask)
    BY <1>1, HeadMicrotask, SendHandshakeType DEF ReadyCheck
  <1>3. LoopTypes' /\ QueueTypes'
    BY <1>2 DEF ReadyCheck, TypeOK, LoopTypes, QueueTypes
  <1>4. WireTypes' /\ HistoryTypes' /\ BudgetTypes'
    BY <1>2, ContinuationFrameTypes DEF ReadyCheck, TypeOK, HistoryTypes
  <1>. QED
    BY <1>3, <1>4, TypesStable DEF ReadyCheck, TypeOK

\* A refusal by the connector keeps the types.
LEMMA WrongRoleTypes ==
  ASSUME TypeOK, WrongRole
  PROVE  TypeOK'
PROOF
  <1>1. LoopTypes' /\ QueueTypes'
    BY HeadMicrotask DEF WrongRole, NothingSent, TypeOK, LoopTypes, QueueTypes
  <1>2. LinkTypes'
    <2>1. EndStream /\ UNCHANGED socket /\ listening' \in BOOLEAN
      BY DEF WrongRole, ContinuationFrame, TypeOK, LinkTypes
    <2>. QED BY <2>1, EndStreamTypes
  <1>3. WireTypes' /\ HistoryTypes' /\ BudgetTypes'
    BY ContinuationFrameTypes DEF WrongRole, NothingSent, TypeOK, WireTypes, HistoryTypes
  <1>. QED
    BY <1>1, <1>2, <1>3, TypesStable DEF WrongRole, TypeOK

\* A failed handshake keeps the types.
LEMMA HandshakeFailedTypes ==
  ASSUME TypeOK, HandshakeFailed
  PROVE  TypeOK'
PROOF
  <1>1. /\ {offlineQueue', commandQueue', prevCommandQueue'} \subseteq Seq(Item)
        /\ outcome' \in [Commands -> {"idle", "pending", "ok", "error"}]
        /\ microtasks' \in Seq(Microtask)
    <2>1. offlineQueue \in Seq(Item) /\ commandQueue \in Seq(Item)
      BY DEF TypeOK, QueueTypes
    <2>. QED BY <2>1, HeadMicrotask, FlushQueuesType DEF HandshakeFailed, RecoverFromFatalError
  <1>2. LoopTypes' /\ QueueTypes'
    BY <1>1 DEF HandshakeFailed, TypeOK, LoopTypes, QueueTypes
  <1>3. LinkTypes'
    <2>1. EndStream /\ UNCHANGED socket
      BY DEF HandshakeFailed, RecoverFromFatalError, ContinuationFrame
    <2>2. listening' \in BOOLEAN
      BY Zenon DEF HandshakeFailed, RecoverFromFatalError
    <2>. QED BY <2>1, <2>2, EndStreamTypes
  <1>4. WireTypes' /\ HistoryTypes' /\ BudgetTypes'
    BY <1>1, ContinuationFrameTypes DEF HandshakeFailed, TypeOK, WireTypes, HistoryTypes
  <1>. QED
    BY <1>2, <1>3, <1>4, TypesStable DEF HandshakeFailed, TypeOK

\* Waiting for a loading server keeps the types.
LEMMA StillLoadingTypes ==
  ASSUME TypeOK, StillLoading
  PROVE  TypeOK'
PROOF
  <1>1. LoopTypes'
    BY HeadMicrotask DEF StillLoading, TypeOK, LoopTypes
  <1>. QED
    BY <1>1, TypesStable DEF StillLoading, TypeOK

\* Asking a loading server again keeps the types.
LEMMA LoadingTimerTypes ==
  ASSUME TypeOK, LoadingTimer
  PROVE  TypeOK'
PROOF
  <1>1. PICK e \in loadingTimers : /\ loadingTimers' = loadingTimers \ {e}
                                   /\ SendHandshake(InfoItem(e), <<>>)
    BY DEF LoadingTimer
  <1>2. InfoItem(e) \in Item /\ <<>> \in Seq(Microtask)
    BY HandshakeItemTypes DEF TypeOK, LoopTypes
  <1>3. /\ {offlineQueue', commandQueue', sent'} \subseteq Seq(Item)
        /\ microtasks' \in Seq(Microtask)
    BY <1>1, <1>2, SendHandshakeType
  <1>4. LoopTypes' /\ QueueTypes'
    BY <1>1, <1>3 DEF LoadingTimer, TypeOK, LoopTypes, QueueTypes
  <1>5. WireTypes'
    BY <1>3 DEF LoadingTimer, TypeOK, WireTypes, Reply
  <1>. QED
    BY <1>4, <1>5, TypesStable DEF LoadingTimer, TypeOK

\* Becoming ready: both replays and the last SELECT are queues of items.
LEMMA BecomeReadyTypes ==
  ASSUME TypeOK, BecomeReady
  PROVE  TypeOK'
PROOF
  <1> DEFINE
    finalSelect == IF prevSelect = NoDb THEN condition.select ELSE prevSelect
    first == Resend(Unfulfilled, condition.select)
    afterPrev == DbAfter(Unfulfilled, condition.select)
    stays == ~StreamWritable /\ EnableOfflineQueue
    waiting == IF stays THEN offlineQueue \o first ELSE offlineQueue
    second == Resend(waiting, afterPrev)
    afterAll == DbAfter(waiting, afterPrev)
    last == IF afterAll = finalSelect THEN <<>> ELSE <<SelectItem(finalSelect, afterAll)>>
    quits == stays /\ second # <<>> /\ Head(second).name = "quit"
    resent == first \o second \o last
    tasks == Tail(microtasks)
  <1>r. ReadyHandler(tasks)
    BY DEF BecomeReady
  <1>1. /\ condition.select \in Dbs /\ finalSelect \in Dbs
        /\ offlineQueue \in Seq(Item) /\ Unfulfilled \in Seq(Item)
        /\ commandQueue \in Seq(Item) /\ sent \in Seq(Item)
    BY DEF TypeOK, DatabaseTypes, QueueTypes, WireTypes, Unfulfilled
  <1>2. first \in Seq(Item) /\ afterPrev \in Dbs
    BY <1>1, ResendType
  <1>3. waiting \in Seq(Item)
    BY <1>1, <1>2
  <1>4. second \in Seq(Item) /\ afterAll \in Dbs
    BY <1>2, <1>3, ResendType
  <1>5. last \in Seq(Item)
    <2>1. SelectItem(finalSelect, afterAll) \in Item
      BY <1>1, <1>4, HandshakeItemTypes
    <2>. QED BY <2>1
  <1>6. resent \in Seq(Item)
    BY <1>2, <1>4, <1>5
  <1>7. Wakened(resent) \in Seq(Microtask)
    BY <1>6, WakenedType
  <1>8. tasks \in Seq(Microtask)
    BY HeadMicrotask DEF BecomeReady
  <1>9. second # <<>> => Tail(second) \o last \in Seq(Item)
    <2>1. second # <<>> => Tail(second) \in Seq(Item)
      BY <1>4, HeadTailProperties
    <2>. QED BY <2>1, <1>5
  <1>10. ASSUME NEW S, NEW result \in {"ok", "error"}
         PROVE  Settle(S, result) \in [Commands -> {"idle", "pending", "ok", "error"}]
    BY SettleType
  <1>e. /\ status' = "ready" /\ retryAttempts' = 0 /\ prevSelect' = NoDb /\ prevCommandQueue' = <<>>
        /\ condition' = [condition EXCEPT !.handshake = FALSE, !.select =
                           IF StreamWritable \/ stays THEN finalSelect ELSE condition.select]
        /\ UNCHANGED <<queueShared, listening, connecting, ended>>
    BY <1>r, Zenon DEF ReadyHandler
  <1>w. StreamWritable =>
          /\ commandQueue' = commandQueue \o resent /\ sent' = sent \o resent
          /\ offlineQueue' = <<>> /\ microtasks' = tasks
          /\ UNCHANGED <<outcome, timers, timerHandle>>
    BY <1>r, Zenon DEF ReadyHandler, Write
  <1>u. ~StreamWritable =>
          /\ UNCHANGED <<commandQueue, sent>>
          /\ offlineQueue' = IF quits THEN Tail(second) \o last
                             ELSE IF stays THEN second \o last ELSE <<>>
          /\ outcome' = IF quits THEN Settle({Head(second).cmd}, "ok")
                        ELSE IF stays THEN outcome ELSE Settle(Callers(resent), "error")
          /\ microtasks' = IF stays THEN tasks ELSE tasks \o Wakened(resent)
          /\ IF quits THEN CloseManually ELSE UNCHANGED <<manuallyClosing, timers, timerHandle>>
    BY <1>r, Zenon DEF ReadyHandler
  <1>m. StreamWritable => manuallyClosing' \in BOOLEAN
    BY <1>r, Zenon DEF ReadyHandler
  <1>f. prevShared' \in BOOLEAN /\ wantsOpen' \in BOOLEAN
    BY <1>r, Zenon DEF ReadyHandler
  <1>q. quits => Head(second).name = "quit" /\ second # <<>>
    OBVIOUS
  <1> HIDE DEF finalSelect, first, afterPrev, waiting, second, afterAll, last, quits, resent, tasks,
               stays
  <1>11. LifecycleTypes'
    <2>1. status' \in Statuses /\ retryAttempts' \in Nat
      BY <1>e DEF Statuses
    <2>2. epoch' \in Nat
      BY DEF BecomeReady, ContinuationFrame, TypeOK, LifecycleTypes
    <2>3. /\ manuallyClosing' \in BOOLEAN /\ timers' \in Nat /\ timerHandle' \in BOOLEAN
          /\ timerHandle' => timers' > 0
      <3>1. CASE StreamWritable
        BY <1>w, <1>m, <3>1 DEF TypeOK, LifecycleTypes
      <3>2. CASE ~StreamWritable /\ quits
        <4>1. CloseManually
          BY <1>u, <3>2, Zenon
        <4>. QED BY <4>1, CloseManuallyTypes
      <3>3. CASE ~StreamWritable /\ ~quits
        BY <1>u, <3>3 DEF TypeOK, LifecycleTypes
      <3>. QED BY <3>1, <3>2, <3>3
    <2>. QED BY <2>1, <2>2, <2>3 DEF LifecycleTypes
  <1>12. DatabaseTypes'
    BY <1>e, <1>f, <1>1 DEF TypeOK, DatabaseTypes
  <1>13. QueueTypes' /\ sent' \in Seq(Item)
    <2>1. commandQueue' \in Seq(Item) /\ sent' \in Seq(Item)
      <3>1. \/ commandQueue' = commandQueue \o resent /\ sent' = sent \o resent
            \/ commandQueue' = commandQueue /\ sent' = sent
        BY <1>w, <1>u, Zenon
      <3>2. commandQueue \o resent \in Seq(Item) /\ sent \o resent \in Seq(Item)
        BY <1>1, <1>6
      <3>. QED BY <3>1, <3>2, <1>1, Zenon
    <2>2. offlineQueue' \in Seq(Item)
      <3>1. second \o last \in Seq(Item)
        BY <1>4, <1>5
      <3>2. \/ quits /\ offlineQueue' = Tail(second) \o last
            \/ offlineQueue' = second \o last
            \/ offlineQueue' = <<>>
        BY <1>w, <1>u, Zenon
      <3>3. <<>> \in Seq(Item)
        OBVIOUS
      <3>. QED BY <3>1, <3>2, <3>3, <1>9, <1>q, Zenon
    <2>3. prevCommandQueue' \in Seq(Item) /\ queueShared' \in BOOLEAN
      BY <1>e DEF TypeOK, QueueTypes
    <2>. QED BY <2>1, <2>2, <2>3 DEF QueueTypes
  <1>14. LinkTypes'
    BY <1>e DEF BecomeReady, ContinuationFrame, TypeOK, LinkTypes
  <1>15. LoopTypes'
    <2>1. tasks \o Wakened(resent) \in Seq(Microtask)
      BY <1>7, <1>8
    <2>2. microtasks' \in Seq(Microtask)
      BY <2>1, <1>8, <1>w, <1>u
    <2>. QED BY <2>2 DEF BecomeReady, TypeOK, LoopTypes
  <1>16. outcome' \in [Commands -> {"idle", "pending", "ok", "error"}]
    <2>1. outcome \in [Commands -> {"idle", "pending", "ok", "error"}]
      BY DEF TypeOK, HistoryTypes
    <2>. QED BY <2>1, <1>w, <1>u, <1>10
  <1>17. WireTypes' /\ HistoryTypes' /\ BudgetTypes'
    BY <1>13, <1>16, <1>f, ContinuationFrameTypes DEF BecomeReady
  <1>. QED
    BY <1>11, <1>12, <1>13, <1>14, <1>15, <1>17 DEF TypeOK

------------------------------------------------------------------------------
(* The server, and what it answered.                                         *)

\* What the server does keeps the types.
LEMMA ServerTypes ==
  ASSUME TypeOK, ServerHandshake \/ ServerCommand
  PROVE  TypeOK'
PROOF
  <1>1. Head(sent) \in Item /\ Tail(sent) \in Seq(Item)
    BY HeadTailProperties DEF TypeOK, WireTypes, ServerHandshake, ServerCommand, ServerActive
  <1>2. ASSUME NEW reply \in RepliesTo(Head(sent)), Answer(Head(sent), reply)
        PROVE  sent' \in Seq(Item) /\ replies' \in Seq(Reply)
    <2>1. [item |-> Head(sent), reply |-> reply] \in Reply
      BY <1>1 DEF RepliesTo, Reply
    <2>2. replies' = Append(replies, [item |-> Head(sent), reply |-> reply])
      BY <1>2 DEF Answer
    <2>3. replies \in Seq(Reply)
      BY DEF TypeOK, WireTypes
    <2>4. replies' \in Seq(Reply)
      BY <2>1, <2>2, <2>3
    <2>. QED BY <1>1, <1>2, <2>4 DEF Answer
  <1>3. serverDb' \in Dbs \cup {NoDb}
    <2>1. Head(sent).db \in Dbs /\ serverDb \in Dbs \cup {NoDb}
      BY <1>1 DEF Item, TypeOK, WireTypes
    <2>. QED BY <2>1 DEF ServerHandshake, ServerCommand
  <1>4. WireTypes'
    <2>1. \E reply \in RepliesTo(Head(sent)) : Answer(Head(sent), reply)
      BY Zenon DEF ServerHandshake, ServerCommand
    <2>. QED BY <1>2, <1>3, <2>1 DEF WireTypes
  <1>5. faults' \in Nat /\ calls' \in Nat
    <2>1. \E reply \in RepliesTo(Head(sent)) : SpendFor(reply)
      BY Zenon DEF ServerHandshake, ServerCommand
    <2>2. UNCHANGED calls
      BY DEF ServerHandshake, ServerCommand, ServerFrame
    <2>. QED BY <2>1, <2>2 DEF SpendFor, TypeOK, BudgetTypes
  <1>6. runs' \in [Commands -> Nat] /\ lastRun' \in Commands \cup {NoCmd}
    <2>1. CASE ServerHandshake
      BY <2>1 DEF ServerHandshake, TypeOK, HistoryTypes
    <2>2. CASE ServerCommand
      <3>1. Head(sent).cmd \in Commands /\ lastRun' = Head(sent).cmd
        BY <1>1, <2>2 DEF ServerCommand, Item
      <3>2. \/ runs' = [runs EXCEPT ![Head(sent).cmd] = @ + 1]
            \/ runs' = runs
        BY <2>2 DEF ServerCommand
      <3>. QED BY <3>1, <3>2 DEF TypeOK, HistoryTypes
    <2>. QED BY <2>1, <2>2
  <1>7. HistoryTypes'
    BY <1>6 DEF ServerHandshake, ServerCommand, ServerFrame, TypeOK, HistoryTypes
  <1>. QED
    BY <1>4, <1>5, <1>7, TypesStable DEF ServerHandshake, ServerCommand, ServerFrame, TypeOK, BudgetTypes

\* The command that the next reply settles, and that reply.
LEMMA NextReply ==
  ASSUME TypeOK, ReplyArrives
  PROVE  /\ commandQueue # <<>> => Head(commandQueue) \in Item /\ Tail(commandQueue) \in Seq(Item)
         /\ Head(replies).reply \in HelloReplies \cup InfoReplies \cup {"ok", "error"}
         /\ Tail(replies) \in Seq(Reply)
PROOF
  <1>1. replies \in Seq(Reply) /\ commandQueue \in Seq(Item) /\ replies # <<>>
    BY DEF TypeOK, WireTypes, QueueTypes, ReplyArrives
  <1>2. Head(replies) \in Reply /\ Tail(replies) \in Seq(Reply)
    BY <1>1, HeadTailProperties
  <1>3. commandQueue # <<>> => Head(commandQueue) \in Item /\ Tail(commandQueue) \in Seq(Item)
    BY <1>1, HeadTailProperties
  <1>. QED BY <1>2, <1>3 DEF Reply

\* returnReply keeps the types.
LEMMA ReturnReplyTypes ==
  ASSUME TypeOK, ReturnReply
  PROVE  TypeOK'
PROOF
  <1>1. /\ Head(commandQueue) \in Item /\ Tail(commandQueue) \in Seq(Item)
        /\ Head(replies).reply \in HelloReplies \cup InfoReplies \cup {"ok", "error"}
        /\ Tail(replies) \in Seq(Reply)
    BY NextReply DEF ReturnReply
  <1>2. outcome' \in [Commands -> {"idle", "pending", "ok", "error"}]
    BY SettleType DEF ReturnReply
  <1>3. LoopTypes'
    <2>1. Woken(Head(commandQueue), Head(replies).reply) \in Seq(Microtask)
      BY <1>1, WokenType
    <2>2. microtasks' = microtasks \o Woken(Head(commandQueue), Head(replies).reply)
          /\ UNCHANGED loadingTimers
      BY DEF ReturnReply
    <2>. QED BY <2>1, <2>2 DEF TypeOK, LoopTypes
  <1>4. QueueTypes' /\ WireTypes'
    <2>1. commandQueue' \in Seq(Item) /\ replies' \in Seq(Reply)
      BY <1>1 DEF ReturnReply, ShiftCommand
    <2>2. offlineQueue' \in Seq(Item) /\ prevCommandQueue' \in Seq(Item) /\ sent' \in Seq(Item)
          /\ queueShared' \in BOOLEAN /\ serverDb' \in Dbs \cup {NoDb}
      BY DEF ReturnReply, TypeOK, QueueTypes, WireTypes
    <2>. QED BY <2>1, <2>2 DEF QueueTypes, WireTypes, Reply
  <1>5. HistoryTypes'
    BY <1>2 DEF ReturnReply, TypeOK, HistoryTypes
  <1>. QED
    BY <1>3, <1>4, <1>5, TypesStable DEF ReturnReply, TypeOK

\* returnError and handleReconnection keep the types.
LEMMA ReturnErrorTypes ==
  ASSUME TypeOK, ReturnError
  PROVE  TypeOK'
PROOF
  <1> DEFINE item == Head(commandQueue)
  <1>1. /\ item \in Item /\ Tail(commandQueue) \in Seq(Item)
        /\ Tail(replies) \in Seq(Reply)
    BY NextReply DEF ReturnError
  <1>2. condition.select \in Dbs /\ offlineQueue \in Seq(Item) /\ microtasks \in Seq(Microtask)
    BY DEF TypeOK, DatabaseTypes, QueueTypes, LoopTypes
  <1>3. Resend(<<item>>, condition.select) \in Seq(Item) /\ DbAfterItem(item) \in Dbs
    <2>1. <<item>> \in Seq(Item)
      BY <1>1
    <2>. QED BY <1>1, <1>2, <2>1, ResendType DEF DbAfterItem, Item
  <1>4. Woken(item, "error") \in Seq(Microtask)
    BY <1>1, WokenType
  <1>5. PICK answer \in ErrorAnswers(item) :
          /\ IF answer = "reject" THEN UNCHANGED <<connecting, ended>> ELSE EndStream
          /\ IF answer = "resend" /\ EnableOfflineQueue
             THEN /\ offlineQueue' = offlineQueue \o Resend(<<item>>, condition.select)
                  /\ SelectDb(DbAfterItem(item))
                  /\ UNCHANGED <<outcome, microtasks>>
             ELSE /\ outcome' = Settle({item.cmd}, "error")
                  /\ microtasks' = microtasks \o Woken(item, "error")
                  /\ UNCHANGED <<offlineQueue, condition, prevSelect>>
    BY Zenon DEF ReturnError
  <1> HIDE DEF item
  <1>6. offlineQueue' \in Seq(Item)
    <2>1. \/ offlineQueue' = offlineQueue \o Resend(<<item>>, condition.select)
          \/ offlineQueue' = offlineQueue
      BY <1>5, Zenon
    <2>2. offlineQueue \o Resend(<<item>>, condition.select) \in Seq(Item)
      BY <1>2, <1>3
    <2>. QED BY <1>2, <2>1, <2>2, Zenon
  <1>7. microtasks' \in Seq(Microtask)
    <2>1. microtasks' = microtasks \o Woken(item, "error") \/ microtasks' = microtasks
      BY <1>5, Zenon
    <2>2. microtasks \o Woken(item, "error") \in Seq(Microtask)
      BY <1>2, <1>4
    <2>. QED BY <1>2, <2>1, <2>2, Zenon
  <1>8. outcome' \in [Commands -> {"idle", "pending", "ok", "error"}]
    <2>1. outcome' = Settle({item.cmd}, "error") \/ outcome' = outcome
      BY <1>5, Zenon
    <2>. QED BY <2>1, SettleType DEF TypeOK, HistoryTypes
  <1>9. DatabaseTypes'
    <2>1. SelectDb(DbAfterItem(item)) \/ UNCHANGED <<condition, prevSelect>>
      BY <1>5, Zenon
    <2>2. UNCHANGED prevShared
      BY DEF ReturnError
    <2>. QED BY <1>3, <2>1, <2>2 DEF SelectDb, TypeOK, DatabaseTypes
  <1>10. LinkTypes'
    <2>1. EndStream \/ UNCHANGED <<connecting, ended>>
      BY <1>5, Zenon
    <2>2. UNCHANGED socket /\ UNCHANGED listening
      BY DEF ReturnError
    <2>3. listening' \in BOOLEAN
      BY <2>2 DEF TypeOK, LinkTypes
    <2>4. CASE UNCHANGED <<connecting, ended>>
      BY <2>2, <2>4 DEF TypeOK, LinkTypes
    <2>. QED BY <2>1, <2>2, <2>3, <2>4, EndStreamTypes
  <1>11. QueueTypes' /\ WireTypes'
    <2>1. commandQueue' \in Seq(Item) /\ replies' \in Seq(Reply)
      BY <1>1 DEF ReturnError, ShiftCommand
    <2>2. prevCommandQueue' \in Seq(Item) /\ sent' \in Seq(Item)
          /\ queueShared' \in BOOLEAN /\ serverDb' \in Dbs \cup {NoDb}
      BY DEF ReturnError, TypeOK, QueueTypes, WireTypes
    <2>. QED BY <1>6, <2>1, <2>2 DEF QueueTypes, WireTypes, Reply
  <1>12. LoopTypes'
    BY <1>7 DEF ReturnError, TypeOK, LoopTypes
  <1>13. HistoryTypes'
    BY <1>8 DEF ReturnError, TypeOK, HistoryTypes
  <1>. QED
    BY <1>9, <1>10, <1>11, <1>12, <1>13, TypesStable DEF ReturnError, TypeOK

\* returnFatalError keeps the types.
LEMMA ReturnFatalErrorTypes ==
  ASSUME TypeOK, ReturnFatalError
  PROVE  TypeOK'
PROOF
  <1>1. LoopTypes'
    <2>1. Wakened(commandQueue) \in Seq(Microtask) /\ microtasks \in Seq(Microtask)
      BY WakenedType DEF TypeOK, QueueTypes, LoopTypes
    <2>2. microtasks' \in Seq(Microtask)
      BY <2>1 DEF ReturnFatalError
    <2>. QED BY <2>2 DEF ReturnFatalError, TypeOK, LoopTypes
  <1>2. QueueTypes'
    BY DEF ReturnFatalError, TypeOK, QueueTypes
  <1>3. LinkTypes'
    <2>1. EndStream /\ UNCHANGED socket
      BY DEF ReturnFatalError
    <2>2. listening' \in BOOLEAN
      BY Zenon DEF ReturnFatalError
    <2>. QED BY <2>1, <2>2, EndStreamTypes
  <1>4. HistoryTypes'
    <2>1. outcome' \in [Commands -> {"idle", "pending", "ok", "error"}]
      BY SettleType DEF ReturnFatalError
    <2>. QED BY <2>1 DEF ReturnFatalError, TypeOK, HistoryTypes
  <1>5. BudgetTypes'
    BY DEF ReturnFatalError, TypeOK, BudgetTypes
  <1>. QED
    BY <1>1, <1>2, <1>3, <1>4, <1>5, TypesStable DEF ReturnFatalError, TypeOK

------------------------------------------------------------------------------
(* Commands of the application.                                              *)

\* What becomes of the caller's view and of the caller's database.
LEMMA IssueHistoryTypes ==
  ASSUME TypeOK, NEW b \in Batches, NEW result \in {"pending", "ok", "error"}, Told(b, result),
         userDb' \in {userDb, SelectedAfter(b, Len(b), userDb)}, wantsOpen' \in BOOLEAN,
         UNCHANGED <<runs, lastRun>>
  PROVE  HistoryTypes'
PROOF
  <1>1. outcome' \in [Commands -> {"idle", "pending", "ok", "error"}]
    BY DEF Told, TypeOK, HistoryTypes
  <1>2. userDb' \in Dbs
    <2>1. Len(b) \in 0..Len(b)
      BY CommandsAssumption
    <2>. QED BY <2>1, SelectedAfterType DEF TypeOK, HistoryTypes
  <1>. QED BY <1>1, <1>2 DEF TypeOK, HistoryTypes

\* sendCommand in status wait connects; in another status it may select.
LEMMA WakeUpTypes ==
  ASSUME TypeOK, NEW db \in Dbs, WakeUp(db),
         UNCHANGED <<retryAttempts, manuallyClosing, timers, timerHandle, socket, ended, listening>>
  PROVE  LifecycleTypes' /\ DatabaseTypes' /\ LinkTypes'
PROOF
  <1>1. CASE status = "wait"
    <2>1. /\ StartConnecting /\ condition' = [FreshCondition EXCEPT !.select = db]
          /\ UNCHANGED prevSelect
      BY <1>1, Zenon DEF WakeUp
    <2>2. condition' \in [select: Dbs, protocol: {2, 3}, handshake: BOOLEAN]
      BY <2>1 DEF FreshCondition
    <2>3. /\ status' \in Statuses /\ epoch' \in Nat /\ retryAttempts' \in Nat
          /\ DatabaseTypes' /\ LinkTypes'
      BY <2>1, <2>2, StartConnectingTypes
    <2>. QED BY <2>3 DEF TypeOK, LifecycleTypes
  <1>2. CASE status # "wait"
    <2>1. SelectDb(db) /\ UNCHANGED <<status, epoch, connecting, prevShared>>
      BY <1>2, Zenon DEF WakeUp
    <2>2. DatabaseTypes'
      BY <2>1 DEF SelectDb, TypeOK, DatabaseTypes
    <2>3. LifecycleTypes'
      BY <2>1 DEF TypeOK, LifecycleTypes
    <2>4. LinkTypes'
      BY <2>1 DEF TypeOK, LinkTypes
    <2>. QED BY <2>2, <2>3, <2>4
  <1>. QED BY <1>1, <1>2

\* The databases a batch leaves selected.
LEMMA BatchDbTypes ==
  ASSUME TypeOK, NEW b \in Batches
  PROVE  /\ condition.select \in Dbs /\ CurrentDb \in Dbs
         /\ \A db \in Dbs : SelectedAfter(b, Len(b), db) \in Dbs
PROOF
  <1>1. Len(b) \in 0..Len(b)
    BY CommandsAssumption
  <1>2. \A db \in Dbs : SelectedAfter(b, Len(b), db) \in Dbs
    BY <1>1, SelectedAfterType
  <1>. QED BY <1>2, OptionsAssumption DEF CurrentDb, TypeOK, DatabaseTypes

\* A batch that is written keeps the types.
LEMMA IssueWrittenTypes ==
  ASSUME TypeOK, NEW b \in Batches, IssueWritten(b)
  PROVE  TypeOK'
PROOF
  <1>1. /\ ItemsOf(b, condition.select) \in Seq(Item)
        /\ SelectedAfter(b, Len(b), condition.select) \in Dbs
    BY BatchDbTypes, ItemsOfType
  <1>2. LifecycleTypes'
    <2>1. manuallyClosing' \in BOOLEAN
      BY Zenon DEF IssueWritten
    <2>. QED BY <2>1 DEF IssueWritten, TypeOK, LifecycleTypes
  <1>3. DatabaseTypes'
    BY <1>1 DEF IssueWritten, SelectDb, TypeOK, DatabaseTypes
  <1>4. QueueTypes' /\ WireTypes'
    <2>1. commandQueue \in Seq(Item) /\ sent \in Seq(Item)
      BY DEF TypeOK, QueueTypes, WireTypes
    <2>2. /\ commandQueue \o ItemsOf(b, condition.select) \in Seq(Item)
          /\ sent \o ItemsOf(b, condition.select) \in Seq(Item)
      BY <1>1, <2>1
    <2>3. commandQueue' \in Seq(Item) /\ sent' \in Seq(Item)
      BY <2>2, Zenon DEF IssueWritten, Write
    <2>. QED BY <2>3 DEF IssueWritten, TypeOK, QueueTypes, WireTypes, Reply
  <1>5. HistoryTypes'
    <2>1. Told(b, "pending") /\ userDb' = SelectedAfter(b, Len(b), userDb) /\ UNCHANGED <<runs, lastRun>>
      BY DEF IssueWritten
    <2>2. wantsOpen' \in BOOLEAN
      BY Zenon DEF IssueWritten
    <2>. QED BY <2>1, <2>2, IssueHistoryTypes
  <1>. QED
    BY <1>2, <1>3, <1>4, <1>5, TypesStable DEF IssueWritten, TypeOK

\* A batch that is queued keeps the types.
LEMMA IssueQueuedTypes ==
  ASSUME TypeOK, NEW b \in Batches, IssueQueued(b)
  PROVE  TypeOK'
PROOF
  <1>1. /\ ItemsOf(b, CurrentDb) \in Seq(Item)
        /\ SelectedAfter(b, Len(b), CurrentDb) \in Dbs
    BY BatchDbTypes, ItemsOfType
  <1>2. LifecycleTypes' /\ DatabaseTypes' /\ LinkTypes'
    BY <1>1, WakeUpTypes DEF IssueQueued
  <1>3. QueueTypes'
    <2>1. offlineQueue \in Seq(Item)
      BY DEF TypeOK, QueueTypes
    <2>2. offlineQueue \o ItemsOf(b, CurrentDb) \in Seq(Item)
      BY <1>1, <2>1
    <2>. QED BY <2>2 DEF IssueQueued, TypeOK, QueueTypes
  <1>4. HistoryTypes'
    <2>1. Told(b, "pending") /\ userDb' = SelectedAfter(b, Len(b), userDb) /\ UNCHANGED <<runs, lastRun>>
      BY DEF IssueQueued
    <2>2. wantsOpen' \in BOOLEAN
      BY DEF IssueQueued, TypeOK, HistoryTypes
    <2>. QED BY <2>1, <2>2, IssueHistoryTypes
  <1>. QED
    BY <1>2, <1>3, <1>4, TypesStable DEF IssueQueued, TypeOK

\* A QUIT answered offline keeps the types.
LEMMA IssueQuitOfflineTypes ==
  ASSUME TypeOK, NEW b \in Batches, IssueQuitOffline(b)
  PROVE  TypeOK'
PROOF
  <1>1. status' \in Statuses /\ epoch' \in Nat
    BY DEF IssueQuitOffline, TypeOK, LifecycleTypes, Statuses
  <1>2. LifecycleTypes'
    <2>1. CloseManually
      BY DEF IssueQuitOffline
    <2>2. retryAttempts' \in Nat
      BY DEF IssueQuitOffline, TypeOK, LifecycleTypes
    <2>. QED BY <1>1, <2>1, <2>2, CloseManuallyTypes DEF LifecycleTypes
  <1>3. DatabaseTypes'
    BY FreshConditionType DEF IssueQuitOffline, TypeOK, DatabaseTypes
  <1>4. LinkTypes'
    <2>1. connecting' \in BOOLEAN /\ ended' \in BOOLEAN
      BY Zenon DEF IssueQuitOffline
    <2>. QED BY <2>1 DEF IssueQuitOffline, TypeOK, LinkTypes
  <1>5. HistoryTypes'
    <2>1. Told(b, "ok") /\ UNCHANGED userDb /\ wantsOpen' = FALSE /\ UNCHANGED <<runs, lastRun>>
      BY DEF IssueQuitOffline
    <2>. QED BY <2>1, IssueHistoryTypes
  <1>. QED
    BY <1>2, <1>3, <1>4, <1>5, TypesStable DEF IssueQuitOffline, TypeOK

\* A batch that is refused keeps the types.
LEMMA IssueRefusedTypes ==
  ASSUME TypeOK, NEW b \in Batches, IssueRefused(b)
  PROVE  TypeOK'
PROOF
  <1>1. LifecycleTypes' /\ DatabaseTypes' /\ LinkTypes'
    BY BatchDbTypes, WakeUpTypes DEF IssueRefused
  <1>2. HistoryTypes'
    <2>1. Told(b, "error") /\ UNCHANGED userDb /\ UNCHANGED <<runs, lastRun>>
      BY DEF IssueRefused
    <2>2. wantsOpen' \in BOOLEAN
      BY DEF IssueRefused, TypeOK, HistoryTypes
    <2>. QED BY <2>1, <2>2, IssueHistoryTypes
  <1>. QED
    BY <1>1, <1>2, TypesStable DEF IssueRefused, TypeOK

\* A command timeout keeps the types.
LEMMA TimeOutTypes ==
  ASSUME TypeOK, NEW c \in Commands, TimeOut(c)
  PROVE  TypeOK'
PROOF
  <1>1. HistoryTypes'
    BY DEF TimeOut, TypeOK, HistoryTypes
  <1>. QED
    BY <1>1, TypesStable DEF TimeOut, TypeOK

------------------------------------------------------------------------------
\* The constructor gives every variable a value of its type.
LEMMA InitTypes ==
  Init => TypeOK
PROOF
  <1> SUFFICES ASSUME Init PROVE TypeOK
    OBVIOUS
  <1>1. LifecycleTypes
    BY DEF Init, LifecycleTypes, Statuses
  <1>2. DatabaseTypes
    BY FreshConditionType DEF Init, DatabaseTypes
  <1>3. QueueTypes /\ LoopTypes
    <2>1. <<>> \in Seq(Item) /\ <<>> \in Seq(Microtask)
      OBVIOUS
    <2>2. queueShared \in BOOLEAN
      BY Zenon DEF Init
    <2>. QED BY <2>1, <2>2 DEF Init, QueueTypes, LoopTypes
  <1>4. LinkTypes
    <2>1. connecting \in BOOLEAN
      BY OptionsAssumption, Zenon DEF Init
    <2>. QED BY <2>1 DEF Init, LinkTypes
  <1>5. WireTypes /\ HistoryTypes /\ BudgetTypes
    BY OptionsAssumption DEF Init, WireTypes, HistoryTypes, BudgetTypes
  <1>. QED
    BY <1>1, <1>2, <1>3, <1>4, <1>5 DEF TypeOK

\* Every step keeps the types: one case per action.
LEMMA StepTypes ==
  TypeOK /\ [Next]_vars => TypeOK'
PROOF
  <1> SUFFICES ASSUME TypeOK, [Next]_vars PROVE TypeOK'
    OBVIOUS
  <1>1. CASE Application
    <2>1. CASE Connect
      BY <2>1, ConnectTypes
    <2>2. CASE \E reconnect \in BOOLEAN : Disconnect(reconnect)
      BY <2>2, DisconnectTypes
    <2>3. CASE \E b \in Batches : IssueWritten(b) \/ IssueQueued(b) \/ IssueQuitOffline(b) \/ IssueRefused(b)
      BY <2>3, IssueWrittenTypes, IssueQueuedTypes, IssueQuitOfflineTypes, IssueRefusedTypes
    <2>. QED BY <1>1, <2>1, <2>2, <2>3 DEF Application
  <1>2. CASE Continuation
    BY <1>2, StaleContinuationTypes, DowngradeTypes, ReadyCheckTypes, BecomeReadyTypes,
       WrongRoleTypes, HandshakeFailedTypes, StillLoadingTypes DEF Continuation
  <1>3. CASE ReconnectTimer \/ CreateSocket \/ AbortConnecting \/ ConnectHandler
    BY <1>3, ReconnectTimerTypes, CreateSocketTypes, AbortConnectingTypes, ConnectHandlerTypes
  <1>4. CASE StreamClosed \/ StreamLost
    BY <1>4, StreamTypes
  <1>5. CASE LoadingTimer \/ ServerHandshake \/ ServerCommand
    BY <1>5, LoadingTimerTypes, ServerTypes
  <1>6. CASE ReturnReply \/ ReturnError \/ ReturnFatalError
    BY <1>6, ReturnReplyTypes, ReturnErrorTypes, ReturnFatalErrorTypes
  <1>7. CASE \E c \in Commands : TimeOut(c)
    BY <1>7, TimeOutTypes
  <1>8. CASE UNCHANGED vars
    BY <1>8, TypesStable DEF vars, TypeOK
  <1>. QED
    BY <1>1, <1>2, <1>3, <1>4, <1>5, <1>6, <1>7, <1>8 DEF Next, System

\* Type correctness: for any commands, options and bounds the variables keep their
\* types; reconnectTimeout refers to a timer that is pending, so that disconnect()
\* never clears one that has already fired.
THEOREM TypeTheorem == Spec => []TypeOK
PROOF
  <1>. QED
    BY InitTypes, StepTypes, PTL DEF Spec

------------------------------------------------------------------------------
(* The inductive invariant: SocketMatchesStatus, with the statuses the       *)
(* client can have (MayConnect is stated by exclusion).                      *)

LifecycleInv ==
  /\ status \in Statuses
  /\ socket \in {"none", "opening", "open"}
  /\ SocketMatchesStatus

\* What a step may do to the three variables of the lifecycle.
LifecycleStep == Lifecycle!Next \/ UNCHANGED <<status, socket, epoch>>

\* The constructed client satisfies the invariant and starts the abstract lifecycle.
LEMMA LifecycleInit == Init => LifecycleInv /\ Lifecycle!Init
PROOF
  BY DEF Init, LifecycleInv, SocketMatchesStatus, Statuses, Lifecycle!Init

\* The lifecycle keeps its own invariant: no action of the client needs to be looked at.
LEMMA LifecycleKeeps ==
  ASSUME LifecycleInv, LifecycleStep
  PROVE  LifecycleInv'
PROOF
  <1> USE DEF LifecycleInv, SocketMatchesStatus, Statuses
  <1>1. CASE Lifecycle!Next
    BY <1>1 DEF Lifecycle!Next, Lifecycle!Start, Lifecycle!Dial, Lifecycle!CallOff, Lifecycle!Up,
                Lifecycle!Ready, Lifecycle!Down, Lifecycle!Discard
  <1>2. CASE UNCHANGED <<status, socket, epoch>>
    BY <1>2
  <1>. QED
    BY <1>1, <1>2 DEF LifecycleStep

\* A call of the application starts an attempt, discards a client that never connected,
\* or leaves the lifecycle alone.
LEMMA ApplicationRefines ==
  ASSUME LifecycleInv, Application
  PROVE  LifecycleStep
PROOF
  <1> USE DEF LifecycleInv, SocketMatchesStatus, Statuses, LifecycleStep, Lifecycle!Next
  <1>1. CASE Connect
    BY <1>1 DEF Connect, MayConnect, StartConnecting, Lifecycle!Start
  <1>2. ASSUME NEW reconnect \in BOOLEAN, Disconnect(reconnect)
        PROVE  LifecycleStep
    <2>1. CASE status = "wait"
      BY <1>2, <2>1 DEF Disconnect, CloseHandler, Lifecycle!Discard
    <2>2. CASE status # "wait"
      BY <1>2, <2>2 DEF Disconnect
    <2>. QED BY <2>1, <2>2
  <1>3. ASSUME NEW b \in Batches, IssueWritten(b)
        PROVE  LifecycleStep
    BY <1>3 DEF IssueWritten, link
  <1>4. ASSUME NEW b \in Batches, IssueQueued(b)
        PROVE  LifecycleStep
    BY <1>4 DEF IssueQueued, WakeUp, StartConnecting, Lifecycle!Start
  <1>5. ASSUME NEW b \in Batches, IssueQuitOffline(b)
        PROVE  LifecycleStep
    BY <1>5 DEF IssueQuitOffline, Lifecycle!Start
  <1>6. ASSUME NEW b \in Batches, IssueRefused(b)
        PROVE  LifecycleStep
    BY <1>6 DEF IssueRefused, WakeUp, StartConnecting, Lifecycle!Start
  <1>. QED
    BY <1>1, <1>2, <1>3, <1>4, <1>5, <1>6 DEF Application

\* A continuation of the handshake can only complete it, and only on the connection it
\* was started for (isActiveConnect).
LEMMA ContinuationRefines ==
  ASSUME LifecycleInv, Continuation
  PROVE  LifecycleStep
PROOF
  <1> USE DEF LifecycleInv, SocketMatchesStatus, Statuses, LifecycleStep, Lifecycle!Next
  <1>1. CASE StaleContinuation
    BY <1>1 DEF StaleContinuation, lifecycle, link
  <1>2. CASE Downgrade
    BY <1>2 DEF Downgrade, lifecycle, link
  <1>3. CASE ReadyCheck
    BY <1>3 DEF ReadyCheck, lifecycle, link
  <1>4. CASE BecomeReady
    BY <1>4 DEF BecomeReady, IsActiveConnect, ReadyHandler, ContinuationFrame, Lifecycle!Ready
  <1>5. CASE WrongRole
    BY <1>5 DEF WrongRole, ContinuationFrame, lifecycle
  <1>6. CASE HandshakeFailed
    BY <1>6 DEF HandshakeFailed, ContinuationFrame, lifecycle
  <1>7. CASE StillLoading
    BY <1>7 DEF StillLoading, lifecycle, link
  <1>. QED
    BY <1>1, <1>2, <1>3, <1>4, <1>5, <1>6, <1>7 DEF Continuation

\* Closing is a step down, in whatever phase the socket is.
LEMMA CloseRefines ==
  ASSUME LifecycleInv, Close
  PROVE  LifecycleStep
PROOF
  BY DEF LifecycleStep, Lifecycle!Next, Lifecycle!Down, Close, CloseHandler

\* Every step of the client is a step of its lifecycle, or leaves it alone.
LEMMA NextRefines ==
  ASSUME LifecycleInv, [Next]_vars
  PROVE  LifecycleStep
PROOF
  <1> USE DEF LifecycleStep
  <1>1. CASE Application
    BY <1>1, ApplicationRefines
  <1>2. CASE Continuation
    BY <1>2, ContinuationRefines
  <1>3. CASE ReconnectTimer
    BY <1>3 DEF ReconnectTimer, MayConnect, StartConnecting, LifecycleInv, SocketMatchesStatus,
                Statuses, Lifecycle!Next, Lifecycle!Start
  <1>4. CASE CreateSocket
    BY <1>4 DEF CreateSocket, lifecycle, Lifecycle!Next, Lifecycle!Dial
  <1>5. CASE AbortConnecting
    BY <1>5 DEF AbortConnecting, link, Lifecycle!Next, Lifecycle!CallOff
  <1>6. CASE ConnectHandler
    BY <1>6 DEF ConnectHandler, LifecycleInv, SocketMatchesStatus, Lifecycle!Next, Lifecycle!Up
  <1>7. CASE StreamClosed \/ StreamLost
    BY <1>7, CloseRefines DEF StreamClosed, StreamLost
  <1>8. CASE LoadingTimer
    BY <1>8 DEF LoadingTimer, lifecycle, link
  <1>9. CASE ServerHandshake \/ ServerCommand
    BY <1>9 DEF ServerHandshake, ServerCommand, ServerFrame, lifecycle, link
  <1>10. CASE ReturnReply \/ ReturnError \/ ReturnFatalError
    BY <1>10 DEF ReturnReply, ReturnError, ReturnFatalError, lifecycle, link
  <1>11. CASE \E c \in Commands : TimeOut(c)
    BY <1>11 DEF TimeOut, lifecycle, link
  <1>12. CASE UNCHANGED vars
    BY <1>12 DEF vars, lifecycle, link
  <1>. QED
    BY <1>1, <1>2, <1>3, <1>4, <1>5, <1>6, <1>7, <1>8, <1>9, <1>10, <1>11, <1>12
       DEF Next, System

\* The invariant holds in every reachable state.
LEMMA LifecycleInvariant == Spec => []LifecycleInv
PROOF
  <1>1. Init => LifecycleInv
    BY LifecycleInit
  <1>2. LifecycleInv /\ [Next]_vars => LifecycleInv'
    BY NextRefines, LifecycleKeeps
  <1>. QED
    BY <1>1, <1>2, PTL DEF Spec

\* A client that is connected has an open socket, and no connection is opened beside
\* another (connectHandler's isActiveConnect, _connect's check of the status).
THEOREM SocketTheorem == Spec => []SocketMatchesStatus
PROOF
  <1>1. LifecycleInv => SocketMatchesStatus
    BY DEF LifecycleInv
  <1>. QED
    BY <1>1, LifecycleInvariant, PTL

\* The client implements the promise about its status, whatever it is configured to do,
\* whatever the application calls and whatever fails (setStatus and all its callers).
THEOREM LifecycleTheorem == Spec => ImplementsLifecycle
PROOF
  <1>1. Init => Lifecycle!Init
    BY LifecycleInit
  <1>2. LifecycleInv /\ [Next]_vars => [Lifecycle!Next]_Lifecycle!vars
    BY NextRefines DEF LifecycleStep, Lifecycle!vars
  <1>. QED
    BY <1>1, <1>2, LifecycleInvariant, PTL DEF Spec, Lifecycle!Spec, ImplementsLifecycle

------------------------------------------------------------------------------
(* The replies, and the commands they are for.                               *)

\* The commands that the replies of r answer.
ItemsIn(r) == [i \in DOMAIN r |-> r[i].item]

\* The inductive invariant: with every reply that is read paired with a command, a
\* new connection starts with nothing on the wire and nobody reading.
ReplyInv ==
  /\ socket # "open" => ~listening /\ sent = <<>> /\ replies = <<>>
  /\ RepliesMatchQueue

------------------------------------------------------------------------------
(* Sequences.                                                                *)

\* The commands that replies answer form a sequence of items as long as the replies.
LEMMA ItemsInType ==
  ASSUME NEW r \in Seq(Reply)
  PROVE  ItemsIn(r) \in Seq(Item) /\ Len(ItemsIn(r)) = Len(r)
PROOF
  <1>1. ASSUME NEW i \in 1..Len(r) PROVE r[i].item \in Item
    <2>1. r[i] \in Reply
      BY ElementOfSeq
    <2>. QED BY <2>1 DEF Reply
  <1>2. [i \in 1..Len(r) |-> r[i].item] \in Seq(Item)
    BY <1>1
  <1>. QED BY <1>2 DEF ItemsIn

\* Taking the first element off again gives back the rest.
LEMMA TailOfCons ==
  ASSUME NEW S, NEW x \in S, NEW s \in Seq(S)
  PROVE  Tail(<<x>> \o s) = s
PROOF
  <1> DEFINE t == <<x>> \o s
  <1>1. t \in Seq(S) /\ Len(t) = Len(s) + 1 /\ t # <<>> /\ Len(s) \in Nat
    OBVIOUS
  <1>2. \A i \in 1..Len(s) : t[i + 1] = s[i]
    OBVIOUS
  <1> HIDE DEF t
  <1>3. Tail(t) \in Seq(S) /\ Len(Tail(t)) = Len(s) /\ \A i \in 1..Len(s) : Tail(t)[i] = s[i]
    BY <1>1, <1>2, HeadTailProperties
  <1>4. Tail(t) = s
    BY <1>3, SeqEqual
  <1>. QED BY <1>4 DEF t

\* A reply that is appended answers one more command, at the end.
LEMMA ItemsInAppend ==
  ASSUME NEW r \in Seq(Reply), NEW x \in Reply
  PROVE  ItemsIn(Append(r, x)) = ItemsIn(r) \o <<x.item>>
PROOF
  <1>1. Append(r, x) \in Seq(Reply) /\ Len(Append(r, x)) = Len(r) + 1 /\ x.item \in Item
    BY DEF Reply
  <1>2. /\ ItemsIn(Append(r, x)) \in Seq(Item) /\ Len(ItemsIn(Append(r, x))) = Len(r) + 1
        /\ ItemsIn(r) \in Seq(Item) /\ Len(ItemsIn(r)) = Len(r)
    BY <1>1, ItemsInType
  <1>3. ItemsIn(r) \o <<x.item>> \in Seq(Item) /\ Len(ItemsIn(r) \o <<x.item>>) = Len(r) + 1
    BY <1>1, <1>2
  <1>4. ASSUME NEW i \in 1..(Len(r) + 1)
        PROVE  ItemsIn(Append(r, x))[i] = (ItemsIn(r) \o <<x.item>>)[i]
    <2>1. ItemsIn(Append(r, x))[i] = Append(r, x)[i].item
      BY <1>1 DEF ItemsIn
    <2>2. CASE i <= Len(r)
      <3>1. Append(r, x)[i] = r[i] /\ ItemsIn(r)[i] = r[i].item
        BY <2>2 DEF ItemsIn
      <3>2. (ItemsIn(r) \o <<x.item>>)[i] = ItemsIn(r)[i]
        BY <1>1, <1>2, <2>2
      <3>. QED BY <2>1, <3>1, <3>2
    <2>3. CASE i = Len(r) + 1
      <3>1. Append(r, x)[i] = x
        BY <2>3
      <3>2. (ItemsIn(r) \o <<x.item>>)[i] = x.item
        BY <1>1, <1>2, <2>3
      <3>. QED BY <2>1, <3>1, <3>2
    <2>4. i <= Len(r) \/ i = Len(r) + 1
      OBVIOUS
    <2>. QED BY <2>2, <2>3, <2>4, Zenon
  <1>. QED BY <1>2, <1>3, <1>4, SeqEqual

\* The server takes the first command and adds its reply.
LEMMA AnswerKeepsOrder ==
  ASSUME NEW r \in Seq(Reply), NEW s \in Seq(Item), s # <<>>, NEW x \in Reply, x.item = Head(s)
  PROVE  ItemsIn(Append(r, x)) \o Tail(s) = ItemsIn(r) \o s
PROOF
  <1>1. ItemsIn(r) \in Seq(Item) /\ Head(s) \in Item /\ Tail(s) \in Seq(Item)
    BY ItemsInType, HeadTailProperties
  <1>2. <<Head(s)>> \in Seq(Item)
    BY <1>1
  <1>3. ItemsIn(Append(r, x)) \o Tail(s) = (ItemsIn(r) \o <<Head(s)>>) \o Tail(s)
    BY ItemsInAppend
  <1>4. (ItemsIn(r) \o <<Head(s)>>) \o Tail(s) = ItemsIn(r) \o (<<Head(s)>> \o Tail(s))
    BY <1>1, <1>2, ConcatAssociative
  <1>. QED BY <1>3, <1>4, HeadThenTail

\* The client takes the first reply and the first command.
LEMMA ShiftKeepsOrder ==
  ASSUME NEW r \in Seq(Reply), r # <<>>, NEW s \in Seq(Item)
  PROVE  Tail(ItemsIn(r) \o s) = ItemsIn(Tail(r)) \o s
PROOF
  <1> DEFINE x == Head(r).item
  <1>1. /\ Tail(r) \in Seq(Reply) /\ Len(Tail(r)) = Len(r) - 1
        /\ \A i \in 1..Len(Tail(r)) : Tail(r)[i] = r[i + 1]
        /\ x \in Item
    <2>1. Head(r) \in Reply
      BY HeadTailProperties
    <2>. QED BY <2>1, HeadTailProperties DEF Reply
  <1>2. /\ ItemsIn(r) \in Seq(Item) /\ Len(ItemsIn(r)) = Len(r)
        /\ ItemsIn(Tail(r)) \in Seq(Item) /\ Len(ItemsIn(Tail(r))) = Len(r) - 1
    BY <1>1, ItemsInType
  <1>3. ItemsIn(r) # <<>> /\ Head(ItemsIn(r)) = x
    <2>1. Len(ItemsIn(r)) # 0 /\ 1 \in DOMAIN r
      BY <1>2
    <2>. QED BY <2>1 DEF ItemsIn
  <1>4. Tail(ItemsIn(r)) = ItemsIn(Tail(r))
    <2>1. /\ Tail(ItemsIn(r)) \in Seq(Item) /\ Len(Tail(ItemsIn(r))) = Len(r) - 1
          /\ \A i \in 1..(Len(r) - 1) : Tail(ItemsIn(r))[i] = ItemsIn(r)[i + 1]
      BY <1>2, <1>3, HeadTailProperties
    <2>2. ASSUME NEW i \in 1..(Len(r) - 1) PROVE Tail(ItemsIn(r))[i] = ItemsIn(Tail(r))[i]
      <3>1. i \in DOMAIN Tail(r) /\ i + 1 \in DOMAIN r
        BY <1>1
      <3>2. ItemsIn(Tail(r))[i] = Tail(r)[i].item /\ ItemsIn(r)[i + 1] = r[i + 1].item
        BY <3>1 DEF ItemsIn
      <3>3. i \in 1..Len(Tail(r))
        BY <1>1
      <3>. QED BY <1>1, <2>1, <3>2, <3>3
    <2>. QED BY <1>2, <2>1, <2>2, SeqEqual
  <1>5. ItemsIn(r) = <<x>> \o ItemsIn(Tail(r))
    BY <1>2, <1>3, <1>4, HeadThenTail
  <1> HIDE DEF x
  <1>6. <<x>> \in Seq(Item)
    BY <1>1
  <1>7. ItemsIn(r) \o s = <<x>> \o (ItemsIn(Tail(r)) \o s)
    BY <1>2, <1>5, <1>6, ConcatAssociative
  <1>8. ItemsIn(Tail(r)) \o s \in Seq(Item)
    BY <1>2
  <1>. QED BY <1>1, <1>7, <1>8, TailOfCons

------------------------------------------------------------------------------
(* What the steps do to the queue and the wire.                              *)

\* Writing appends the same items to the command queue and to the wire.
LEMMA WriteKeeps ==
  ASSUME TypeOK, ReplyInv, NEW items \in Seq(Item), StreamWritable,
         commandQueue' = commandQueue \o items, sent' = sent \o items,
         UNCHANGED <<replies, socket>>, listening' = listening
  PROVE  ReplyInv'
PROOF
  <1>1. socket' = "open"
    BY DEF StreamWritable
  <1>2. ASSUME listening' PROVE commandQueue' = ItemsIn(replies)' \o sent'
    <2>1. commandQueue = ItemsIn(replies) \o sent
      BY <1>2 DEF ReplyInv, RepliesMatchQueue, ItemsIn
    <2>2. ItemsIn(replies) \in Seq(Item) /\ sent \in Seq(Item)
      BY ItemsInType DEF TypeOK, WireTypes
    <2>3. (ItemsIn(replies) \o sent) \o items = ItemsIn(replies) \o (sent \o items)
      BY <2>2, ConcatAssociative
    <2>. QED BY <2>1, <2>3 DEF ItemsIn
  <1>. QED BY <1>1, <1>2 DEF ReplyInv, RepliesMatchQueue, ItemsIn

\* Nothing that matters changes.
LEMMA IdleKeeps ==
  ASSUME ReplyInv, UNCHANGED <<commandQueue, sent, replies, socket>>, listening' = listening
  PROVE  ReplyInv'
PROOF
  BY DEF ReplyInv, RepliesMatchQueue

\* Once nobody reads, the queue may be emptied.
LEMMA DeafKeeps ==
  ASSUME ReplyInv, UNCHANGED <<sent, replies, socket>>, ~listening'
  PROVE  ReplyInv'
PROOF
  BY DEF ReplyInv, RepliesMatchQueue

\* A handshake command is written to both queues or to neither.
LEMMA SendHandshakeKeeps ==
  ASSUME TypeOK, ReplyInv, NEW item \in Item, NEW tasks, SendHandshake(item, tasks),
         UNCHANGED <<replies, socket>>, listening' = listening
  PROVE  ReplyInv'
PROOF
  <1>1. CASE Writable(item.name, FALSE)
    <2>1. <<item>> \in Seq(Item)
      OBVIOUS
    <2>2. StreamWritable /\ commandQueue' = commandQueue \o <<item>> /\ sent' = sent \o <<item>>
      BY <1>1, Zenon DEF SendHandshake, Writable, Write
    <2>. QED BY <2>1, <2>2, WriteKeeps
  <1>2. CASE ~Writable(item.name, FALSE)
    <2>1. UNCHANGED <<commandQueue, sent>>
      BY <1>2, Zenon DEF SendHandshake
    <2>. QED BY <2>1, IdleKeeps
  <1>. QED BY <1>1, <1>2

\* A queue is emptied only together with the listeners (resetQueue of the fatal path).
LEMMA FatalKeeps ==
  ASSUME ReplyInv, UNCHANGED <<sent, replies, socket>>, commandQueue' = <<>>,
         listening' = (listening /\ commandQueue = <<>>)
  PROVE  ReplyInv'
PROOF
  <1>1. CASE listening /\ commandQueue = <<>>
    <2>1. listening' = listening /\ commandQueue' = commandQueue
      BY <1>1, Zenon
    <2>. QED BY <2>1, IdleKeeps
  <1>2. CASE ~(listening /\ commandQueue = <<>>)
    <2>1. ~listening'
      BY <1>2, Zenon
    <2>. QED BY <2>1, DeafKeeps
  <1>. QED BY <1>1, <1>2

\* The server answers the oldest command it has: the pairing is kept.
LEMMA ServerKeeps ==
  ASSUME TypeOK, ReplyInv, ServerHandshake \/ ServerCommand
  PROVE  ReplyInv'
PROOF
  <1>1. ServerActive /\ UNCHANGED <<commandQueue, socket>> /\ listening' = listening
    BY Zenon DEF ServerHandshake, ServerCommand, ServerFrame, queues, link
  <1>2. PICK reply \in RepliesTo(Head(sent)) : Answer(Head(sent), reply)
    BY Zenon DEF ServerHandshake, ServerCommand
  <1>3. sent # <<>> /\ socket = "open" /\ sent \in Seq(Item) /\ replies \in Seq(Reply)
    BY <1>1 DEF ServerActive, TypeOK, WireTypes
  <1> DEFINE x == [item |-> Head(sent), reply |-> reply]
  <1>4. x \in Reply /\ x.item = Head(sent)
    <2>1. Head(sent) \in Item
      BY <1>3, HeadTailProperties
    <2>. QED BY <2>1 DEF Reply, RepliesTo
  <1>5. sent' = Tail(sent) /\ replies' = Append(replies, x)
    BY <1>2 DEF Answer
  <1> HIDE DEF x
  <1>6. ItemsIn(replies') \o sent' = ItemsIn(replies) \o sent
    BY <1>3, <1>4, <1>5, AnswerKeepsOrder
  <1>7. listening' => commandQueue' = ItemsIn(replies') \o sent'
    BY <1>1, <1>6 DEF ReplyInv, RepliesMatchQueue, ItemsIn
  <1>. QED BY <1>1, <1>3, <1>7 DEF ReplyInv, RepliesMatchQueue, ItemsIn

\* A reply that is read takes the oldest command along: the pairing is kept.
LEMMA ShiftKeeps ==
  ASSUME TypeOK, ReplyInv, ReplyArrives, ShiftCommand, UNCHANGED <<sent, socket>>, listening' = listening
  PROVE  ReplyInv'
PROOF
  <1>1. /\ replies \in Seq(Reply) /\ replies # <<>> /\ sent \in Seq(Item)
        /\ listening /\ socket = "open"
    BY DEF ReplyArrives, TypeOK, WireTypes
  <1>2. commandQueue = ItemsIn(replies) \o sent
    BY <1>1 DEF ReplyInv, RepliesMatchQueue, ItemsIn
  <1>3. commandQueue' = ItemsIn(replies') \o sent'
    BY <1>1, <1>2, ShiftKeepsOrder DEF ShiftCommand
  <1>. QED BY <1>1, <1>3 DEF ReplyInv, RepliesMatchQueue, ItemsIn

\* On a new connection the queue is what was written on it.
LEMMA ConnectHandlerKeeps ==
  ASSUME TypeOK, ReplyInv, ConnectHandler
  PROVE  ReplyInv'
PROOF
  <1>1. socket' = "open" /\ replies' = <<>>
    BY DEF ConnectHandler, ReplyInv
  <1>2. commandQueue' = sent' /\ sent' \in Seq(Item)
    BY ConnectHandlerTypes DEF ConnectHandler, ResetCommandQueue, TypeOK, WireTypes
  <1>3. [i \in DOMAIN replies' |-> replies'[i].item] = <<>>
    BY <1>1
  <1>4. commandQueue' = [i \in DOMAIN replies' |-> replies'[i].item] \o sent'
    BY <1>2, <1>3, ConcatEmptySeq
  <1>. QED BY <1>1, <1>4 DEF ReplyInv, RepliesMatchQueue

\* No call of the application disturbs the pairing.
LEMMA ApplicationKeeps ==
  ASSUME TypeOK, LifecycleInv, ReplyInv, Application
  PROVE  ReplyInv'
PROOF
  <1>1. CASE Connect
    <2>1. UNCHANGED <<commandQueue, sent, replies, socket>> /\ listening' = listening
      BY <1>1, Zenon DEF Connect, queues, wire
    <2>. QED BY <2>1, IdleKeeps
  <1>2. ASSUME NEW reconnect \in BOOLEAN, Disconnect(reconnect)
        PROVE  ReplyInv'
    <2>1. UNCHANGED <<sent, replies, socket>> /\ listening' = listening
      BY <1>2, Zenon DEF Disconnect, wire
    <2>2. CASE status = "wait"
      <3>1. socket # "open"
        BY <2>2 DEF LifecycleInv, SocketMatchesStatus
      <3>2. ~listening'
        BY <2>1, <3>1 DEF ReplyInv
      <3>. QED BY <2>1, <3>2, DeafKeeps
    <2>3. CASE status # "wait"
      <3>1. UNCHANGED commandQueue
        BY <1>2, <2>3, Zenon DEF Disconnect, queues
      <3>. QED BY <2>1, <3>1, IdleKeeps
    <2>. QED BY <2>2, <2>3
  <1>3. ASSUME NEW b \in Batches, IssueWritten(b)
        PROVE  ReplyInv'
    <2>1. /\ StreamWritable
          /\ commandQueue' = commandQueue \o ItemsOf(b, condition.select)
          /\ sent' = sent \o ItemsOf(b, condition.select)
          /\ UNCHANGED <<replies, socket>> /\ listening' = listening
      BY <1>3, Zenon DEF IssueWritten, BatchWritable, Writable, Write, link
    <2>2. ItemsOf(b, condition.select) \in Seq(Item)
      BY BatchDbTypes, ItemsOfType
    <2>. QED BY <2>1, <2>2, WriteKeeps
  <1>4. ASSUME NEW b \in Batches, IssueQueued(b) \/ IssueQuitOffline(b) \/ IssueRefused(b)
        PROVE  ReplyInv'
    <2>1. UNCHANGED <<commandQueue, sent, replies, socket>> /\ listening' = listening
      BY <1>4, Zenon DEF IssueQueued, IssueQuitOffline, IssueRefused, queues, wire
    <2>. QED BY <2>1, IdleKeeps
  <1>. QED
    BY <1>1, <1>2, <1>3, <1>4 DEF Application

\* The items of readyHandler: what it writes it writes in one piece.
LEMMA BecomeReadyKeeps ==
  ASSUME TypeOK, ReplyInv, BecomeReady
  PROVE  ReplyInv'
PROOF
  <1>1. UNCHANGED <<replies, socket>> /\ listening' = listening
    BY Zenon DEF BecomeReady, ReadyHandler, ContinuationFrame
  <1>2. ~StreamWritable => UNCHANGED <<commandQueue, sent>>
    BY Zenon DEF BecomeReady, ReadyHandler
  <1>3. StreamWritable =>
          \E items \in Seq(Item) : commandQueue' = commandQueue \o items /\ sent' = sent \o items
    <2> DEFINE
      finalSelect == IF prevSelect = NoDb THEN condition.select ELSE prevSelect
      first == Resend(Unfulfilled, condition.select)
      afterPrev == DbAfter(Unfulfilled, condition.select)
      stays == ~StreamWritable /\ EnableOfflineQueue
      waiting == IF stays THEN offlineQueue \o first ELSE offlineQueue
      second == Resend(waiting, afterPrev)
      afterAll == DbAfter(waiting, afterPrev)
      last == IF afterAll = finalSelect THEN <<>> ELSE <<SelectItem(finalSelect, afterAll)>>
      resent == first \o second \o last
    <2>1. /\ condition.select \in Dbs /\ finalSelect \in Dbs
          /\ offlineQueue \in Seq(Item) /\ Unfulfilled \in Seq(Item)
      BY DEF TypeOK, DatabaseTypes, QueueTypes, Unfulfilled
    <2>2. first \in Seq(Item) /\ afterPrev \in Dbs
      BY <2>1, ResendType
    <2>3. waiting \in Seq(Item)
      BY <2>1, <2>2
    <2>4. second \in Seq(Item) /\ afterAll \in Dbs
      BY <2>2, <2>3, ResendType
    <2>5. last \in Seq(Item)
      <3>1. SelectItem(finalSelect, afterAll) \in Item
        BY <2>1, <2>4, HandshakeItemTypes
      <3>. QED BY <3>1
    <2>6. resent \in Seq(Item)
      BY <2>2, <2>4, <2>5
    <2>7. StreamWritable => commandQueue' = commandQueue \o resent /\ sent' = sent \o resent
      BY Zenon DEF BecomeReady, ReadyHandler, Write
    <2>. QED BY <2>6, <2>7
  <1>. QED
    BY <1>1, <1>2, <1>3, WriteKeeps, IdleKeeps

\* No continuation of a handshake disturbs the pairing.
LEMMA ContinuationKeeps ==
  ASSUME TypeOK, LifecycleInv, ReplyInv, Continuation
  PROVE  ReplyInv'
PROOF
  <1>1. CASE StaleContinuation \/ WrongRole \/ StillLoading
    <2>1. UNCHANGED <<commandQueue, sent, replies, socket>> /\ listening' = listening
      BY <1>1, Zenon DEF StaleContinuation, WrongRole, StillLoading, NothingSent, ContinuationFrame,
                         queues, link, wire
    <2>. QED BY <2>1, IdleKeeps
  <1>2. CASE Downgrade
    <2>1. UNCHANGED <<replies, socket>> /\ listening' = listening
      BY <1>2, Zenon DEF Downgrade, ContinuationFrame, link
    <2>. QED BY <1>2, <2>1, HandshakeItemTypes, SendHandshakeKeeps DEF Downgrade
  <1>3. CASE ReadyCheck
    <2>1. UNCHANGED <<replies, socket>> /\ listening' = listening
      BY <1>3, Zenon DEF ReadyCheck, ContinuationFrame, link
    <2>2. InfoItem(epoch) \in Item
      BY HandshakeItemTypes DEF TypeOK, LifecycleTypes
    <2>. QED BY <1>3, <2>1, <2>2, SendHandshakeKeeps DEF ReadyCheck
  <1>4. CASE BecomeReady
    BY <1>4, BecomeReadyKeeps
  <1>5. CASE HandshakeFailed
    <2>1. /\ UNCHANGED <<sent, replies, socket>> /\ commandQueue' = <<>>
          /\ listening' = (listening /\ commandQueue = <<>>)
      BY <1>5, Zenon DEF HandshakeFailed, RecoverFromFatalError, FlushQueues, ContinuationFrame
    <2>. QED BY <2>1, FatalKeeps
  <1>. QED
    BY <1>1, <1>2, <1>3, <1>4, <1>5 DEF Continuation

\* The invariant is inductive: one case per action.
LEMMA NextKeeps ==
  ASSUME TypeOK, LifecycleInv, ReplyInv, [Next]_vars
  PROVE  ReplyInv'
PROOF
  <1>1. CASE Application
    BY <1>1, ApplicationKeeps
  <1>2. CASE Continuation
    BY <1>2, ContinuationKeeps
  <1>3. CASE ReconnectTimer \/ \E c \in Commands : TimeOut(c)
    <2>1. UNCHANGED <<commandQueue, sent, replies, socket>> /\ listening' = listening
      BY <1>3, Zenon DEF ReconnectTimer, TimeOut, queues, link, wire
    <2>. QED BY <2>1, IdleKeeps
  <1>4. CASE CreateSocket
    <2>1. socket # "open" /\ socket' # "open"
      BY <1>4 DEF CreateSocket
    <2>2. UNCHANGED <<sent, replies>> /\ listening' = listening
      BY <1>4, Zenon DEF CreateSocket, wire
    <2>. QED BY <2>1, <2>2 DEF ReplyInv, RepliesMatchQueue
  <1>5. CASE AbortConnecting
    <2>1. UNCHANGED <<sent, replies, socket>> /\ listening' = listening
      BY <1>5, Zenon DEF AbortConnecting, link, wire
    <2>2. ~listening
      BY <1>5 DEF AbortConnecting, ReplyInv
    <2>. QED BY <2>1, <2>2, DeafKeeps
  <1>6. CASE ConnectHandler
    BY <1>6, ConnectHandlerKeeps
  <1>7. CASE StreamClosed \/ StreamLost
    <2>1. ~listening' /\ sent' = <<>> /\ replies' = <<>>
      BY <1>7 DEF StreamClosed, StreamLost, Close
    <2>. QED BY <2>1 DEF ReplyInv, RepliesMatchQueue
  <1>8. CASE LoadingTimer
    <2>1. UNCHANGED <<replies, socket>> /\ listening' = listening
      BY <1>8, Zenon DEF LoadingTimer, link
    <2>2. PICK e \in loadingTimers : SendHandshake(InfoItem(e), <<>>)
      BY <1>8, Zenon DEF LoadingTimer
    <2>3. InfoItem(e) \in Item
      BY HandshakeItemTypes DEF TypeOK, LoopTypes
    <2>. QED BY <2>1, <2>2, <2>3, SendHandshakeKeeps
  <1>9. CASE ServerHandshake \/ ServerCommand
    BY <1>9, ServerKeeps
  <1>10. CASE ReturnReply \/ ReturnError
    <2>1. ReplyArrives /\ ShiftCommand /\ UNCHANGED <<sent, socket>> /\ listening' = listening
      BY <1>10, Zenon DEF ReturnReply, ReturnError, link
    <2>. QED BY <2>1, ShiftKeeps
  <1>11. CASE ReturnFatalError
    <2>1. /\ UNCHANGED <<sent, replies, socket>> /\ commandQueue' = <<>> /\ listening
          /\ listening' = (commandQueue = <<>>)
      BY <1>11, Zenon DEF ReturnFatalError, ReplyArrives, wire
    <2>. QED BY <2>1, FatalKeeps
  <1>12. CASE UNCHANGED vars
    <2>1. UNCHANGED <<commandQueue, sent, replies, socket>> /\ listening' = listening
      BY <1>12, Zenon DEF vars, queues, link, wire
    <2>. QED BY <2>1, IdleKeeps
  <1>. QED
    BY <1>1, <1>2, <1>3, <1>4, <1>5, <1>6, <1>7, <1>8, <1>9, <1>10, <1>11, <1>12 DEF Next, System

\* Every reply that is read settles the command it answers, whatever was lost, flushed,
\* replayed or timed out before (the pairing of DataHandler.shiftCommand).
THEOREM ReplyTheorem == Spec => []RepliesMatchQueue
PROOF
  <1>1. Init => ReplyInv
    BY DEF Init, ReplyInv, RepliesMatchQueue
  <1>2. TypeOK /\ LifecycleInv /\ ReplyInv /\ [Next]_vars => ReplyInv'
    BY NextKeeps
  <1>3. ReplyInv => RepliesMatchQueue
    BY DEF ReplyInv
  <1>. QED
    BY <1>1, <1>2, <1>3, TypeTheorem, LifecycleInvariant, PTL DEF Spec

------------------------------------------------------------------------------
(* ClosedStaysClosed.  When connect() is called while a timer is pending, and *)
(* the attempt fails before it fires, there are two timers and                *)
(* reconnectTimeout refers to the second only: disconnect() leaves the first. *)

NoConnectInBetween == "reconnecting" \notin ConnectFrom

\* There is one timer at most, and disconnect() can clear it.
OneTimer ==
  /\ timers = (IF timerHandle THEN 1 ELSE 0)
  /\ timerHandle => status = "reconnecting"

\* A client the application closed has no timer, and takes the end of a connection
\* that is still there, or still being made, for the end.
ClosedIsClosing ==
  ~wantsOpen => /\ timers = 0 /\ status # "wait"
                /\ status \in {"connecting", "connect", "ready"} => manuallyClosing

ClosedInv == OneTimer /\ ClosedIsClosing

\* What a step must not do.
NoUnwantedAttempt == epoch' > epoch => wantsOpen \/ wantsOpen'

\* Steps that neither start nor end anything.
LEMMA ClosedStable ==
  ASSUME TypeOK, ClosedInv, UNCHANGED <<lifecycle, wantsOpen>>
  PROVE  ClosedInv' /\ NoUnwantedAttempt
PROOF
  <1>1. UNCHANGED <<status, epoch, manuallyClosing, timers, timerHandle, wantsOpen>>
    BY DEF lifecycle
  <1>2. epoch \in Nat
    BY DEF TypeOK, LifecycleTypes
  <1>. QED BY <1>1, <1>2 DEF ClosedInv, OneTimer, ClosedIsClosing, NoUnwantedAttempt

\* The end of a connection: a client that was closed gets no timer.
LEMMA CloseHandlerClosed ==
  ASSUME TypeOK, ClosedInv, NEW manual \in BOOLEAN, CloseHandler(manual), status # "reconnecting",
         epoch' = epoch, wantsOpen' \in BOOLEAN, ~wantsOpen' => manual
  PROVE  ClosedInv' /\ NoUnwantedAttempt
PROOF
  <1>1. timers = 0 /\ timerHandle = FALSE /\ timers \in Nat /\ epoch \in Nat
    BY DEF TypeOK, LifecycleTypes, ClosedInv, OneTimer
  <1>2. \/ /\ status' = "end" /\ timers' = timers /\ timerHandle' = timerHandle
        \/ /\ ~manual /\ status' = "reconnecting" /\ timers' = timers + 1 /\ timerHandle' = TRUE
    BY <1>1 DEF CloseHandler
  <1>. QED BY <1>1, <1>2 DEF ClosedInv, OneTimer, ClosedIsClosing, NoUnwantedAttempt

\* Redis#disconnect clears the timer.
LEMMA CloseManuallyClosed ==
  ASSUME TypeOK, ClosedInv, CloseManually
  PROVE  timers' = 0 /\ timerHandle' = FALSE /\ manuallyClosing' = TRUE
PROOF
  BY DEF TypeOK, LifecycleTypes, ClosedInv, OneTimer, CloseManually

\* The calls of the application.
LEMMA ApplicationClosed ==
  ASSUME TypeOK, LifecycleInv, ClosedInv, NoConnectInBetween, Application
  PROVE  ClosedInv' /\ NoUnwantedAttempt
PROOF
  <1>0. /\ status \in Statuses /\ timers \in Nat /\ epoch \in Nat /\ wantsOpen \in BOOLEAN
        /\ manuallyClosing \in BOOLEAN /\ timerHandle \in BOOLEAN
    BY DEF TypeOK, LifecycleTypes, HistoryTypes
  <1>1. CASE Connect
    <2>1. /\ status # "reconnecting" /\ status' = "connecting" /\ wantsOpen' = TRUE
          /\ UNCHANGED <<manuallyClosing, timers, timerHandle>>
      BY <1>1 DEF Connect, NoConnectInBetween, StartConnecting
    <2>. QED BY <1>0, <2>1 DEF ClosedInv, OneTimer, ClosedIsClosing, NoUnwantedAttempt
  <1>2. ASSUME NEW reconnect \in BOOLEAN, Disconnect(reconnect)
        PROVE  ClosedInv' /\ NoUnwantedAttempt
    <2>1. epoch' = epoch /\ wantsOpen' = (wantsOpen /\ reconnect)
      BY <1>2, Zenon DEF Disconnect
    <2>2. CASE status = "wait"
      <3>1. CloseHandler(manuallyClosing \/ ~reconnect)
        BY <1>2, <2>2 DEF Disconnect
      <3>2. wantsOpen
        BY <1>0, <2>2 DEF ClosedInv, ClosedIsClosing
      <3>3. (manuallyClosing \/ ~reconnect) \in BOOLEAN /\ status # "reconnecting"
        BY <2>2
      <3>4. ~wantsOpen' => (manuallyClosing \/ ~reconnect)
        BY <2>1, <3>2, Zenon
      <3>5. wantsOpen' \in BOOLEAN
        BY <2>1, Zenon
      <3>. QED BY <2>1, <3>1, <3>3, <3>4, <3>5, CloseHandlerClosed
    <2>3. CASE status # "wait" /\ reconnect
      <3>1. UNCHANGED <<status, epoch, manuallyClosing, timers, timerHandle>>
        BY <1>2, <2>3, Zenon DEF Disconnect
      <3>2. ~wantsOpen' => ~wantsOpen
        BY <2>1, <2>3, Zenon
      <3>. QED BY <1>0, <3>1, <3>2 DEF ClosedInv, OneTimer, ClosedIsClosing, NoUnwantedAttempt
    <2>4. CASE status # "wait" /\ ~reconnect
      <3>1. CloseManually /\ status' = status
        BY <1>2, <2>4, Zenon DEF Disconnect
      <3>2. timers' = 0 /\ timerHandle' = FALSE /\ manuallyClosing' = TRUE
        BY <3>1, CloseManuallyClosed
      <3>. QED BY <1>0, <2>1, <2>4, <3>1, <3>2 DEF ClosedInv, OneTimer, ClosedIsClosing, NoUnwantedAttempt
    <2>. QED BY <2>2, <2>3, <2>4
  <1>3. ASSUME NEW b \in Batches, IssueWritten(b) PROVE ClosedInv' /\ NoUnwantedAttempt
    <2> DEFINE quits == \E i \in DOMAIN b : Name[b[i]] = "quit"
    <2>1. UNCHANGED <<status, epoch, timers, timerHandle>>
      BY <1>3, Zenon DEF IssueWritten
    <2>2. /\ manuallyClosing' = (manuallyClosing \/ quits)
          /\ wantsOpen' = (wantsOpen /\ \A i \in DOMAIN b : Name[b[i]] # "quit")
      BY <1>3, Zenon DEF IssueWritten
    <2>3. status = "ready" \/ status = "connect"
      BY <1>3 DEF IssueWritten, BatchWritable, Writable
    <2>4. ~wantsOpen' => manuallyClosing'
      <3>1. ~wantsOpen => manuallyClosing
        BY <2>3 DEF ClosedInv, ClosedIsClosing
      <3>. QED BY <2>2, <3>1, Zenon
    <2>. QED BY <1>0, <2>1, <2>3, <2>4 DEF ClosedInv, OneTimer, ClosedIsClosing, NoUnwantedAttempt
  <1>4. ASSUME NEW b \in Batches, IssueQueued(b) \/ IssueRefused(b)
        PROVE  ClosedInv' /\ NoUnwantedAttempt
    <2>1. /\ UNCHANGED <<timers, timerHandle, manuallyClosing>> /\ wantsOpen' = wantsOpen
          /\ \/ status = "wait" /\ status' = "connecting"
             \/ UNCHANGED <<status, epoch>>
      BY <1>4, Zenon DEF IssueQueued, IssueRefused, WakeUp, StartConnecting
    <2>. QED BY <1>0, <2>1 DEF ClosedInv, OneTimer, ClosedIsClosing, NoUnwantedAttempt
  <1>5. ASSUME NEW b \in Batches, IssueQuitOffline(b) PROVE ClosedInv' /\ NoUnwantedAttempt
    <2>1. /\ CloseManually /\ wantsOpen' = FALSE
          /\ \/ status = "wait" /\ status' = "connecting"
             \/ status # "wait" /\ UNCHANGED <<status, epoch>>
      BY <1>5, Zenon DEF IssueQuitOffline
    <2>2. timers' = 0 /\ timerHandle' = FALSE /\ manuallyClosing' = TRUE
      BY <2>1, CloseManuallyClosed
    <2>. QED BY <1>0, <2>1, <2>2 DEF ClosedInv, OneTimer, ClosedIsClosing, NoUnwantedAttempt
  <1>. QED BY <1>1, <1>2, <1>3, <1>4, <1>5 DEF Application

\* A QUIT that is replayed closes the client.
LEMMA BecomeReadyClosed ==
  ASSUME TypeOK, ClosedInv, BecomeReady
  PROVE  ClosedInv' /\ NoUnwantedAttempt
PROOF
  <1>1. /\ status = "connect" /\ status' = "ready" /\ epoch' = epoch
        /\ \/ UNCHANGED <<timers, timerHandle>>
           \/ CloseManually
    BY Zenon DEF BecomeReady, IsActiveConnect, ReadyHandler, ContinuationFrame
  <1>2. ~wantsOpen => manuallyClosing
    BY <1>1 DEF ClosedInv, ClosedIsClosing
  <1>3. timers' = 0 /\ timerHandle' = FALSE
    <2>1. timers = 0 /\ timerHandle = FALSE
      BY <1>1 DEF ClosedInv, OneTimer, TypeOK, LifecycleTypes
    <2>2. CASE CloseManually
      BY <2>2, CloseManuallyClosed
    <2>3. CASE UNCHANGED <<timers, timerHandle>>
      BY <2>1, <2>3, Zenon
    <2>. QED BY <1>1, <2>2, <2>3
  <1>4. ~wantsOpen' => manuallyClosing'
    BY <1>2, Zenon DEF BecomeReady, ReadyHandler, CloseManually
  <1>5. epoch \in Nat
    BY DEF TypeOK, LifecycleTypes
  <1>. QED BY <1>1, <1>3, <1>4, <1>5 DEF ClosedInv, OneTimer, ClosedIsClosing, NoUnwantedAttempt

\* The steps that start, open, end or call off an attempt.
LEMMA ConnectingClosed ==
  ASSUME TypeOK, LifecycleInv, ClosedInv,
         ReconnectTimer \/ ConnectHandler \/ AbortConnecting \/ StreamClosed \/ StreamLost
  PROVE  ClosedInv' /\ NoUnwantedAttempt
PROOF
  <1>0. /\ status \in Statuses /\ timers \in Nat /\ epoch \in Nat /\ wantsOpen \in BOOLEAN
        /\ manuallyClosing \in BOOLEAN /\ timerHandle \in BOOLEAN
    BY DEF TypeOK, LifecycleTypes, HistoryTypes
  <1>1. CASE ReconnectTimer
    <2>1. timers > 0 /\ timers' = timers - 1 /\ timerHandle' = FALSE /\ wantsOpen' = wantsOpen
      BY <1>1 DEF ReconnectTimer, history
    <2>2. timers = 1 /\ status = "reconnecting" /\ wantsOpen
      BY <1>0, <2>1 DEF ClosedInv, OneTimer, ClosedIsClosing
    <2>. QED BY <1>0, <2>1, <2>2 DEF ClosedInv, OneTimer, ClosedIsClosing, NoUnwantedAttempt
  <1>2. CASE ConnectHandler \/ AbortConnecting
    <2>1. /\ status = "connecting" /\ status' \in {"connect", "end"}
          /\ UNCHANGED <<epoch, manuallyClosing, timers, timerHandle>> /\ wantsOpen' = wantsOpen
      BY <1>2 DEF ConnectHandler, AbortConnecting, history, LifecycleInv, SocketMatchesStatus
    <2>. QED BY <1>0, <2>1 DEF ClosedInv, OneTimer, ClosedIsClosing, NoUnwantedAttempt
  <1>3. CASE StreamClosed \/ StreamLost
    <2>1. /\ CloseHandler(manuallyClosing) /\ socket # "none" /\ epoch' = epoch /\ wantsOpen' = wantsOpen
      BY <1>3, Zenon DEF StreamClosed, StreamLost, Close
    <2>2. status \in {"connecting", "connect", "ready"}
      BY <2>1 DEF LifecycleInv, SocketMatchesStatus
    <2>3. ~wantsOpen' => manuallyClosing
      <3>1. ~wantsOpen => manuallyClosing
        BY <2>2 DEF ClosedInv, ClosedIsClosing
      <3>. QED BY <2>1, <3>1, Zenon
    <2>4. wantsOpen' \in BOOLEAN
      BY <1>0, <2>1
    <2>. QED BY <1>0, <2>1, <2>2, <2>3, <2>4, CloseHandlerClosed
  <1>. QED BY <1>1, <1>2, <1>3

\* The invariant is inductive, and no step breaks the promise: one case per action.
LEMMA ClosedKeeps ==
  ASSUME TypeOK, LifecycleInv, ClosedInv, NoConnectInBetween, [Next]_vars
  PROVE  ClosedInv' /\ NoUnwantedAttempt
PROOF
  <1>1. CASE Application
    BY <1>1, ApplicationClosed
  <1>2. CASE BecomeReady
    BY <1>2, BecomeReadyClosed
  <1>3. CASE ReconnectTimer \/ ConnectHandler \/ AbortConnecting \/ StreamClosed \/ StreamLost
    BY <1>3, ConnectingClosed
  <1>4. CASE \/ StaleContinuation \/ Downgrade \/ ReadyCheck \/ WrongRole \/ HandshakeFailed
             \/ StillLoading \/ LoadingTimer \/ CreateSocket
    <2>1. UNCHANGED <<lifecycle, wantsOpen>>
      BY <1>4, Zenon DEF StaleContinuation, Downgrade, ReadyCheck, WrongRole, HandshakeFailed,
                         StillLoading, LoadingTimer, CreateSocket, history
    <2>. QED BY <2>1, ClosedStable
  <1>5. CASE \/ ServerHandshake \/ ServerCommand \/ ReturnReply \/ ReturnError \/ ReturnFatalError
             \/ (\E c \in Commands : TimeOut(c)) \/ UNCHANGED vars
    <2>1. UNCHANGED <<lifecycle, wantsOpen>>
      BY <1>5, Zenon DEF ServerHandshake, ServerCommand, ServerFrame, ReturnReply, ReturnError,
                         ReturnFatalError, TimeOut, vars, history
    <2>. QED BY <2>1, ClosedStable
  <1>. QED BY <1>1, <1>2, <1>3, <1>4, <1>5 DEF Next, System, Continuation

\* After disconnect() or quit() no attempt begins until connect() is called: the timer is
\* cleared and manuallyClosing outlives whatever the connection still goes through
\* (Redis#disconnect, closeHandler), if connect() is never called in between.
THEOREM ClosedStaysClosedTheorem ==
  ASSUME "reconnecting" \notin ConnectFrom
  PROVE  Spec => ClosedStaysClosed
PROOF
  <1>0. NoConnectInBetween
    BY DEF NoConnectInBetween
  <1>1. Init => ClosedInv
    BY DEF Init, ClosedInv, OneTimer, ClosedIsClosing
  <1>2. TypeOK /\ LifecycleInv /\ ClosedInv /\ [Next]_vars => ClosedInv'
    BY <1>0, ClosedKeeps
  <1>3. TypeOK /\ LifecycleInv /\ ClosedInv /\ [Next]_vars
          => [epoch' > epoch => wantsOpen \/ wantsOpen']_vars
    BY <1>0, ClosedKeeps DEF NoUnwantedAttempt
  <1>. QED
    BY <1>1, <1>2, <1>3, TypeTheorem, LifecycleInvariant, PTL DEF Spec, ClosedStaysClosed

------------------------------------------------------------------------------
(***************************************************************************)
(* The commands the client holds.                                          *)
(***************************************************************************)

------------------------------------------------------------------------------
(* Queues.                                                                   *)

\* An item of the application carries the name of its command.
NamedItem == {x \in Item : x.cmd # NoCmd => x.name = Name[x.cmd]}
HandshakeItem == {x \in Item : x.name \in HandshakeCommands}

\* No command of the application occurs twice in q.
Once(q) == \A i, j \in DOMAIN q : q[i].cmd # NoCmd /\ q[i].cmd = q[j].cmd => i = j

\* The callers of a queue are read off its elements.
LEMMA CallersOfElements ==
  ASSUME NEW q \in Seq(Item)
  PROVE  Callers(q) = {x.cmd : x \in ToSet(q)} \ {NoCmd}
PROOF
  BY DEF Callers, ToSet

\* The callers of a concatenation.
LEMMA CallersConcat ==
  ASSUME NEW s \in Seq(Item), NEW t \in Seq(Item)
  PROVE  s \o t \in Seq(Item) /\ Callers(s \o t) = Callers(s) \cup Callers(t)
PROOF
  <1>1. s \o t \in Seq(Item) /\ ToSet(s \o t) = ToSet(s) \cup ToSet(t)
    BY ConcatElements
  <1>. QED BY <1>1, CallersOfElements

\* Queues without a common caller, each holding a command once, make one that does.
LEMMA OnceConcat ==
  ASSUME NEW s \in Seq(Item), NEW t \in Seq(Item), Once(s), Once(t),
         Callers(s) \cap Callers(t) = {}
  PROVE  Once(s \o t)
PROOF
  <1> DEFINE u == s \o t
  <1>1. Len(u) = Len(s) + Len(t) /\ Len(s) \in Nat /\ Len(t) \in Nat
    OBVIOUS
  <1>2. DOMAIN s = 1..Len(s) /\ DOMAIN t = 1..Len(t) /\ DOMAIN u = 1..(Len(s) + Len(t))
    OBVIOUS
  <1>3. ASSUME NEW i \in DOMAIN u, i <= Len(s) PROVE i \in DOMAIN s /\ u[i] = s[i]
    BY <1>1, <1>2, <1>3
  <1>4. ASSUME NEW i \in DOMAIN u, i > Len(s) PROVE i - Len(s) \in DOMAIN t /\ u[i] = t[i - Len(s)]
    BY <1>1, <1>2, <1>4
  <1> HIDE DEF u
  <1>5. ASSUME NEW i \in DOMAIN u, NEW j \in DOMAIN u, u[i].cmd # NoCmd, u[i].cmd = u[j].cmd
        PROVE  i = j
    <2>1. CASE i <= Len(s) /\ j <= Len(s)
      BY <1>3, <1>5, <2>1 DEF Once
    <2>2. CASE i > Len(s) /\ j > Len(s)
      <3>1. i - Len(s) = j - Len(s)
        BY <1>4, <1>5, <2>2 DEF Once
      <3>. QED BY <1>1, <1>2, <3>1
    <2>3. CASE i <= Len(s) /\ j > Len(s)
      BY <1>3, <1>4, <1>5, <2>3 DEF Callers
    <2>4. CASE i > Len(s) /\ j <= Len(s)
      BY <1>3, <1>4, <1>5, <2>4 DEF Callers
    <2>5. i \in Int /\ j \in Int
      BY <1>1, <1>2
    <2>. QED BY <1>1, <2>1, <2>2, <2>3, <2>4, <2>5
  <1>6. Once(u)
    BY <1>5 DEF Once
  <1>. QED BY <1>6 DEF u

\* The callers of a flattened sequence of queues are those of its parts ...
LEMMA CallersFlatten ==
  ASSUME NEW ss \in Seq(Seq(Item))
  PROVE  /\ FlattenSeq(ss) \in Seq(Item)
         /\ Callers(FlattenSeq(ss)) = UNION {Callers(ss[i]) : i \in DOMAIN ss}
PROOF
  <1>1. FlattenSeq(ss) \in Seq(Item)
    BY FlattenSeqType
  <1>2. ToSet(FlattenSeq(ss)) = UNION {ToSet(ss[i]) : i \in DOMAIN ss}
    BY FlattenElements
  <1>3. \A i \in DOMAIN ss : ss[i] \in Seq(Item) /\ Callers(ss[i]) = {x.cmd : x \in ToSet(ss[i])} \ {NoCmd}
    BY CallersOfElements
  <1>4. Callers(FlattenSeq(ss)) = {x.cmd : x \in ToSet(FlattenSeq(ss))} \ {NoCmd}
    BY <1>1, CallersOfElements
  <1>. QED BY <1>1, <1>2, <1>3, <1>4

\* ... and when no two parts share a caller, it holds a command once if they do.
LEMMA OnceFlatten ==
  ASSUME NEW ss \in Seq(Seq(Item)), \A i \in DOMAIN ss : Once(ss[i]),
         \A i, j \in DOMAIN ss : i # j => Callers(ss[i]) \cap Callers(ss[j]) = {}
  PROVE  Once(FlattenSeq(ss))
PROOF
  <1>1. CASE ss = <<>>
    BY <1>1 DEF FlattenSeq, Once
  <1>2. CASE ss # <<>>
    <2>1. PICK f : /\ IsPrefixSums(f, ss, Len(ss)) /\ FlattenSeq(ss) = f[Len(ss)]
                   /\ \A i \in 1..Len(ss) : f[i] \in Seq(Item)
      BY <1>2, FlattenIsLastPrefix
    <2> DEFINE Parts(i) == UNION {Callers(ss[k]) : k \in 1..i}
               Bad == {i \in 1..Len(ss) : ~(Once(f[i]) /\ Callers(f[i]) = Parts(i))}
    <2>2. DOMAIN ss = 1..Len(ss) /\ Len(ss) \in Nat /\ Len(ss) \in 1..Len(ss)
      BY <1>2
    <2>3. Bad = {}
      <3>1. SUFFICES ASSUME Bad # {} PROVE FALSE
        OBVIOUS
      <3>2. PICK m \in Bad : \A k \in Bad : m <= k
        <4>1. Bad \subseteq Nat
          BY <2>2
        <4> HIDE DEF Bad
        <4>. QED BY <3>1, <4>1, LeastNat
      <3>3. f[m] = IF m = 1 THEN ss[m] ELSE f[m - 1] \o ss[m]
        BY <2>1 DEF IsPrefixSums
      <3>4. CASE m = 1
        <4>1. Parts(1) = Callers(ss[1])
          <5>1. \A x : x \in Parts(1) <=> x \in Callers(ss[1])
            OBVIOUS
          <5>. QED BY <5>1
        <4>2. Once(ss[1])
          BY <2>2, <3>4
        <4>. QED BY <3>3, <3>4, <4>1, <4>2
      <3>5. CASE m # 1
        <4>0. m \in 1..Len(ss) /\ m \in Nat /\ m - 1 \in 1..Len(ss) /\ ~(m <= m - 1)
          BY <2>2, <3>5
        <4>1. m - 1 \notin Bad
          <5> HIDE DEF Bad
          <5>. QED BY <3>2, <4>0
        <4>2. Once(f[m - 1]) /\ Callers(f[m - 1]) = Parts(m - 1)
          BY <4>0, <4>1
        <4>3. f[m - 1] \in Seq(Item) /\ ss[m] \in Seq(Item) /\ Once(ss[m])
          BY <2>1, <2>2, <4>0
        <4>4. Parts(m - 1) \cap Callers(ss[m]) = {}
          <5>1. ASSUME NEW k \in 1..(m - 1) PROVE Callers(ss[k]) \cap Callers(ss[m]) = {}
            <6>1. k \in 1..Len(ss) /\ k # m
              BY <2>2, <4>0
            <6>. QED BY <2>2, <4>0, <6>1
          <5>. QED BY <5>1
        <4>5. Once(f[m]) /\ Callers(f[m]) = Parts(m - 1) \cup Callers(ss[m])
          <5>1. f[m] = f[m - 1] \o ss[m]
            BY <3>3, <3>5
          <5> HIDE DEF Parts, Bad
          <5>2. Callers(f[m - 1]) \cap Callers(ss[m]) = {}
            BY <4>2, <4>4
          <5>. QED BY <4>2, <4>3, <5>1, <5>2, OnceConcat, CallersConcat
        <4>6. 1..m = 1..(m - 1) \cup {m}
          BY <4>0
        <4>7. Parts(m) = Parts(m - 1) \cup Callers(ss[m])
          BY <4>6
        <4>. QED BY <4>5, <4>7
      <3>. QED BY <3>4, <3>5
    <2>. QED BY <2>1, <2>2, <2>3
  <1>. QED BY <1>1, <1>2

\* A queue of one item.
LEMMA OneItem ==
  ASSUME NEW x \in Item
  PROVE  /\ <<x>> \in Seq(Item) /\ Once(<<x>>) /\ Callers(<<x>>) = {x.cmd} \ {NoCmd}
         /\ x \in NamedItem => <<x>> \in Seq(NamedItem)
PROOF
  <1>1. DOMAIN <<x>> = {1} /\ <<x>>[1] = x
    OBVIOUS
  <1>2. Callers(<<x>>) = {x.cmd} \ {NoCmd}
    BY <1>1 DEF Callers
  <1>. QED BY <1>1, <1>2 DEF Once

\* An empty queue.
LEMMA NoItem ==
  <<>> \in Seq(Item) /\ <<>> \in Seq(NamedItem) /\ Once(<<>>) /\ Callers(<<>>) = {}
PROOF
  BY DEF Once, Callers

\* A filtered queue holds nothing else, and nothing twice.
LEMMA KeepFacts ==
  ASSUME NEW q \in Seq(Item), NEW keep, Once(q)
  PROVE  Keep(q, keep) \in Seq(Item) /\ Callers(Keep(q, keep)) \subseteq Callers(q) /\ Once(Keep(q, keep))
PROOF
  <1> DEFINE ss == [i \in DOMAIN q |-> IF i \in keep THEN <<q[i]>> ELSE <<>>]
  <1>1. DOMAIN ss = DOMAIN q /\ DOMAIN q = 1..Len(q)
    OBVIOUS
  <1>2. ASSUME NEW i \in DOMAIN q
        PROVE  /\ ss[i] \in Seq(Item) /\ Once(ss[i])
               /\ Callers(ss[i]) \subseteq {q[i].cmd} \ {NoCmd}
    <2>1. q[i] \in Item
      OBVIOUS
    <2>2. CASE i \in keep
      <3>1. ss[i] = <<q[i]>>
        BY <2>2
      <3>. QED BY <2>1, <3>1, OneItem
    <2>3. CASE i \notin keep
      <3>1. ss[i] = <<>>
        BY <2>3
      <3>. QED BY <3>1, NoItem
    <2>. QED BY <2>2, <2>3
  <1>3. Keep(q, keep) = FlattenSeq(ss)
    BY DEF Keep
  <1>4. ss \in Seq(Seq(Item))
    <2>1. ss = [i \in 1..Len(q) |-> ss[i]]
      BY <1>1
    <2> HIDE DEF ss
    <2>2. ss \in [1..Len(q) -> Seq(Item)]
      BY <1>1, <1>2, <2>1
    <2>. QED BY <2>2, SeqDef
  <1> HIDE DEF ss
  <1>5. \A i, j \in DOMAIN ss : i # j => Callers(ss[i]) \cap Callers(ss[j]) = {}
    <2> SUFFICES ASSUME NEW i \in DOMAIN q, NEW j \in DOMAIN q, i # j
                 PROVE  Callers(ss[i]) \cap Callers(ss[j]) = {}
      BY <1>1
    <2>1. Callers(ss[i]) \subseteq {q[i].cmd} \ {NoCmd} /\ Callers(ss[j]) \subseteq {q[j].cmd} \ {NoCmd}
      BY <1>2
    <2>2. q[i].cmd = NoCmd \/ q[i].cmd # q[j].cmd
      BY DEF Once
    <2>. QED BY <2>1, <2>2
  <1>6. Once(FlattenSeq(ss))
    BY <1>1, <1>2, <1>4, <1>5, OnceFlatten
  <1>7. Callers(FlattenSeq(ss)) \subseteq Callers(q)
    <2>1. \A i \in DOMAIN q : Callers(ss[i]) \subseteq Callers(q)
      BY <1>2 DEF Callers
    <2>2. Callers(FlattenSeq(ss)) = UNION {Callers(ss[i]) : i \in DOMAIN ss}
      BY <1>4, CallersFlatten
    <2>. QED BY <1>1, <2>1, <2>2
  <1>. QED BY <1>3, <1>4, <1>6, <1>7, CallersFlatten

\* Re-sending a queue adds SELECTs of the client and keeps every command once.
LEMMA ResendFacts ==
  ASSUME NEW q \in Seq(NamedItem), NEW db \in Dbs, Once(q)
  PROVE  Resend(q, db) \in Seq(NamedItem) /\ Callers(Resend(q, db)) = Callers(q) /\ Once(Resend(q, db))
PROOF
  <1> DEFINE
    before(i) == DbBefore(q, i, db)
    step(i) == IF q[i].name = "select" THEN <<[q[i] EXCEPT !.select = before(i)]>>
               ELSE IF q[i].select = before(i) THEN <<q[i]>>
               ELSE <<SelectItem(q[i].select, before(i)), q[i]>>
    ss == [i \in DOMAIN q |-> step(i)]
  <1>0. q \in Seq(Item) /\ DOMAIN q = 1..Len(q) /\ NoCmd \notin Commands
    BY CommandsAssumption DEF NamedItem
  <1>1. ASSUME NEW i \in DOMAIN q
        PROVE  /\ step(i) \in Seq(NamedItem) /\ step(i) \in Seq(Item) /\ Once(step(i))
               /\ Callers(step(i)) = {q[i].cmd} \ {NoCmd}
    <2>1. q[i] \in NamedItem /\ q[i] \in Item /\ q[i].select \in Dbs
      <3>1. q[i] \in NamedItem
        BY ElementOfSeq
      <3>. QED BY <3>1 DEF NamedItem, Item
    <2>2. before(i) \in Dbs
      <3>1. i = 1 \/ q[i - 1] \in Item
        BY <1>0
      <3>2. \A item \in Item : DbAfterItem(item) \in Dbs
        BY DEF DbAfterItem, Item
      <3>. QED BY <3>1, <3>2 DEF DbBefore
    <2> HIDE DEF before
    <2>3. CASE q[i].name = "select"
      <3> DEFINE x == [q[i] EXCEPT !.select = before(i)]
      <3>1. x \in Item /\ x.cmd = q[i].cmd /\ x.name = q[i].name
        BY <2>1, <2>2 DEF Item
      <3>2. step(i) = <<x>>
        BY <2>3
      <3> HIDE DEF x, step
      <3>3. x \in NamedItem
        BY <2>1, <3>1 DEF NamedItem
      <3>. QED BY <3>1, <3>2, <3>3, OneItem
    <2>4. CASE q[i].name # "select" /\ q[i].select = before(i)
      <3>1. step(i) = <<q[i]>>
        BY <2>4
      <3> HIDE DEF step
      <3>. QED BY <2>1, <3>1, OneItem
    <2>5. CASE q[i].name # "select" /\ q[i].select # before(i)
      <3> DEFINE x == SelectItem(q[i].select, before(i))
      <3>1. x \in Item /\ x.cmd = NoCmd
        BY <2>1, <2>2, InternalType DEF SelectItem, Internal, ItemNames, Names
      <3>2. x \in NamedItem
        BY <3>1 DEF NamedItem
      <3>3. step(i) = <<x, q[i]>>
        BY <2>5
      <3> HIDE DEF x, step
      <3>4. step(i) = <<x>> \o <<q[i]>>
        BY <3>3
      <3>5. step(i) \in Seq(NamedItem)
        BY <2>1, <3>2, <3>3
      <3>6. /\ <<x>> \in Seq(Item) /\ Once(<<x>>) /\ Callers(<<x>>) = {}
            /\ <<q[i]>> \in Seq(Item) /\ Once(<<q[i]>>) /\ Callers(<<q[i]>>) = {q[i].cmd} \ {NoCmd}
        BY <2>1, <3>1, OneItem
      <3>7. step(i) \in Seq(Item) /\ Callers(step(i)) = {q[i].cmd} \ {NoCmd}
        BY <3>4, <3>6, CallersConcat
      <3>8. Once(step(i))
        BY <3>4, <3>6, OnceConcat
      <3>. QED BY <3>5, <3>7, <3>8
    <2>. QED BY <2>3, <2>4, <2>5
  <1> HIDE DEF step
  <1>2. DOMAIN ss = DOMAIN q /\ \A i \in DOMAIN q : ss[i] = step(i)
    OBVIOUS
  <1>3. ss \in Seq(Seq(NamedItem)) /\ ss \in Seq(Seq(Item))
    <2>1. ss \in [1..Len(q) -> Seq(NamedItem)] /\ ss \in [1..Len(q) -> Seq(Item)]
      BY <1>0, <1>1
    <2>. QED BY <2>1, SeqDef
  <1>4. Resend(q, db) = FlattenSeq(ss)
    BY DEF Resend, step, before
  <1> HIDE DEF ss
  <1>5. FlattenSeq(ss) \in Seq(NamedItem)
    BY <1>3, FlattenSeqType
  <1>6. \A i, j \in DOMAIN ss : i # j => Callers(ss[i]) \cap Callers(ss[j]) = {}
    <2> SUFFICES ASSUME NEW i \in DOMAIN q, NEW j \in DOMAIN q, i # j
                 PROVE  Callers(ss[i]) \cap Callers(ss[j]) = {}
      BY <1>2
    <2>. QED BY <1>1, <1>2 DEF Once
  <1>7. Once(FlattenSeq(ss))
    BY <1>1, <1>2, <1>3, <1>6, OnceFlatten
  <1>8. Callers(FlattenSeq(ss)) = Callers(q)
    <2>1. Callers(FlattenSeq(ss)) = UNION {Callers(ss[i]) : i \in DOMAIN ss}
      BY <1>3, CallersFlatten
    <2>2. \A i \in DOMAIN ss : Callers(ss[i]) = {q[i].cmd} \ {NoCmd}
      BY <1>1, <1>2
    <2>3. UNION {Callers(ss[i]) : i \in DOMAIN ss} = UNION {{q[i].cmd} \ {NoCmd} : i \in DOMAIN q}
      BY <1>2, <2>2
    <2>4. UNION {{q[i].cmd} \ {NoCmd} : i \in DOMAIN q} = {q[i].cmd : i \in DOMAIN q} \ {NoCmd}
      OBVIOUS
    <2>. QED BY <2>1, <2>3, <2>4 DEF Callers
  <1>. QED BY <1>4, <1>5, <1>7, <1>8

\* Taking the first item off.
LEMMA TailFacts ==
  ASSUME NEW q \in Seq(Item), q # <<>>, Once(q)
  PROVE  /\ Tail(q) \in Seq(Item) /\ Once(Tail(q)) /\ Head(q) \in Item
         /\ Callers(q) = Callers(Tail(q)) \cup ({Head(q).cmd} \ {NoCmd})
         /\ Head(q).cmd \notin Callers(Tail(q))
         /\ q \in Seq(NamedItem) => Tail(q) \in Seq(NamedItem)
         /\ q \in Seq(HandshakeItem) => Tail(q) \in Seq(HandshakeItem)
PROOF
  <1>1. /\ Tail(q) \in Seq(Item) /\ Head(q) \in Item /\ Head(q) = q[1]
        /\ Len(Tail(q)) = Len(q) - 1 /\ \A i \in 1..Len(Tail(q)) : Tail(q)[i] = q[i + 1]
    BY HeadTailProperties
  <1>2. DOMAIN q = 1..Len(q) /\ DOMAIN Tail(q) = 1..(Len(q) - 1) /\ Len(q) \in Nat /\ 1 \in DOMAIN q
    BY <1>1
  <1>3. Once(Tail(q))
    <2> SUFFICES ASSUME NEW i \in DOMAIN Tail(q), NEW j \in DOMAIN Tail(q),
                        Tail(q)[i].cmd # NoCmd, Tail(q)[i].cmd = Tail(q)[j].cmd
                 PROVE  i = j
      BY DEF Once
    <2>1. i + 1 \in DOMAIN q /\ j + 1 \in DOMAIN q /\ i \in Int /\ j \in Int
      BY <1>2
    <2>2. Tail(q)[i] = q[i + 1] /\ Tail(q)[j] = q[j + 1]
      BY <1>1, <1>2
    <2>3. i + 1 = j + 1
      BY <2>1, <2>2 DEF Once
    <2>. QED BY <2>1, <2>3
  <1>4. Callers(q) = Callers(<<Head(q)>> \o Tail(q))
    BY HeadThenTail
  <1>5. Callers(q) = Callers(Tail(q)) \cup ({Head(q).cmd} \ {NoCmd})
    <2>1. <<Head(q)>> \in Seq(Item) /\ Callers(<<Head(q)>>) = {Head(q).cmd} \ {NoCmd}
      BY <1>1, OneItem
    <2>2. Callers(<<Head(q)>> \o Tail(q)) = Callers(<<Head(q)>>) \cup Callers(Tail(q))
      BY <1>1, <2>1, CallersConcat
    <2>. QED BY <1>4, <2>1, <2>2
  <1>6. Head(q).cmd \notin Callers(Tail(q))
    <2> SUFFICES ASSUME NEW i \in DOMAIN Tail(q), Tail(q)[i].cmd = Head(q).cmd, Head(q).cmd # NoCmd
                 PROVE  FALSE
      BY DEF Callers
    <2>1. i + 1 \in DOMAIN q /\ Tail(q)[i] = q[i + 1] /\ i + 1 # 1
      BY <1>1, <1>2
    <2>. QED BY <1>1, <1>2, <2>1 DEF Once
  <1>7. q \in Seq(NamedItem) => Tail(q) \in Seq(NamedItem)
    BY HeadTailProperties
  <1>8. q \in Seq(HandshakeItem) => Tail(q) \in Seq(HandshakeItem)
    BY HeadTailProperties
  <1>. QED BY <1>1, <1>3, <1>5, <1>6, <1>7, <1>8

\* A batch becomes one item for each of its commands.
LEMMA ItemsOfFacts ==
  ASSUME TypeOK, NEW b \in Batches, NEW sel \in Dbs
  PROVE  /\ ItemsOf(b, sel) \in Seq(NamedItem) /\ Once(ItemsOf(b, sel))
         /\ Callers(ItemsOf(b, sel)) = {b[i] : i \in DOMAIN b}
         /\ b # <<>> /\ {b[i] : i \in DOMAIN b} \subseteq Commands
PROOF
  <1> DEFINE q == ItemsOf(b, sel)
  <1>1. b \in Seq(Commands) /\ IsInjective(b) /\ NoCmd \notin Commands /\ b # <<>>
    BY CommandsAssumption
  <1>2. q \in Seq(Item)
    BY ItemsOfType
  <1>3. DOMAIN q = DOMAIN b /\ \A i \in DOMAIN b : q[i].cmd = b[i] /\ q[i].name = Name[b[i]] /\ b[i] \in Commands
    BY <1>1 DEF ItemsOf
  <1> HIDE DEF q
  <1>4. q \in Seq(NamedItem)
    <2>1. \A i \in 1..Len(q) : q[i] \in NamedItem
      <3>1. \A i \in 1..Len(q) : q[i] \in Item /\ i \in DOMAIN b
        BY <1>2, <1>3
      <3>. QED BY <1>3, <3>1 DEF NamedItem
    <2>. QED BY <1>2, <2>1
  <1>5. Once(q)
    BY <1>1, <1>3 DEF Once, IsInjective
  <1>6. Callers(q) = {b[i] : i \in DOMAIN b}
    BY <1>1, <1>3 DEF Callers
  <1>. QED BY <1>1, <1>3, <1>4, <1>5, <1>6 DEF q

------------------------------------------------------------------------------
(* The commands that are held.                                               *)

\* The third queue is looked at again only when it is another than the command queue.
PrevHeld == IF queueShared THEN <<>> ELSE prevCommandQueue

Holding == Callers(offlineQueue) \cup Callers(commandQueue) \cup Callers(PrevHeld)

\* Between connections prevCommandQueue is the command queue itself, or the command
\* queue has only the handshake of a connection that never became ready, which may
\* be dropped; and readyHandler replays the third queue completely.
QueueShapes ==
  /\ {offlineQueue, commandQueue, prevCommandQueue} \subseteq Seq(NamedItem)
  /\ queueShared => socket # "open" /\ prevCommandQueue = commandQueue
  /\ ~queueShared /\ status # "ready" => commandQueue \in Seq(HandshakeItem)
  /\ status = "ready" => prevCommandQueue = <<>>

\* No queue holds a command twice, and no two hold the same.
Apart ==
  /\ Once(offlineQueue) /\ Once(commandQueue) /\ Once(PrevHeld)
  /\ Callers(offlineQueue) \cap Callers(commandQueue) = {}
  /\ Callers(offlineQueue) \cap Callers(PrevHeld) = {}
  /\ Callers(commandQueue) \cap Callers(PrevHeld) = {}

\* A command whose caller waits is held; one that was not issued is not, nor one whose
\* caller got its reply.
Accounted ==
  \A c \in Commands :
    /\ outcome[c] \in {"idle", "ok"} => c \notin Holding
    /\ AutoResend /\ outcome[c] = "pending" /\ Name[c] \notin HandshakeCommands => c \in Holding

\* The inductive invariant behind HeldOnce.
HeldInv == QueueShapes /\ Apart /\ Accounted

\* The state the invariant is about, with what the other invariants say of it.
Sound == TypeOK /\ LifecycleInv /\ ReplyInv /\ HeldInv

\* Callers already told are not told otherwise, and nobody who was not issued begins to wait.
OutcomesSettle ==
  \A c \in Commands :
    /\ outcome'[c] = "idle" => outcome[c] = "idle"
    /\ outcome'[c] = "pending" => outcome[c] = "pending"

\* Whoever is no longer held was told, was part of a handshake, or AutoResend is off; and
\* whoever is given a reply is no longer held.
AccountsKept ==
  /\ \A c \in Holding \ Holding' :
       AutoResend => outcome'[c] # "pending" \/ Name[c] \in HandshakeCommands
  /\ \A c \in Commands : c \in Holding' /\ outcome'[c] = "ok" => outcome[c] = "ok"

\* Nobody is given a reply; nobody who is held is.
NoneDone == \A c \in Commands : outcome'[c] = "ok" => outcome[c] = "ok"
NoneHeldDone == \A c \in Commands : c \in Holding /\ outcome'[c] = "ok" => outcome[c] = "ok"

\* Settling callers tells them, and only them.
LEMMA SettleFacts ==
  ASSUME NEW S, NEW result \in {"ok", "error"}, outcome' = Settle(S, result)
  PROVE  /\ OutcomesSettle /\ (result = "error" => NoneDone)
         /\ \A c \in Commands : c \in S => outcome'[c] # "pending"
         /\ \A c \in Commands : c \notin S => outcome'[c] = outcome[c]
PROOF
  BY DEF Settle, OutcomesSettle, NoneDone

\* The queues hold the application's commands.
LEMMA CallersAreCommands ==
  ASSUME NEW q \in Seq(Item)
  PROVE  Callers(q) \subseteq Commands
PROOF
  <1>1. \A i \in DOMAIN q : q[i] \in Item
    OBVIOUS
  <1>. QED BY <1>1 DEF Callers, Item

\* A queue of handshake commands holds commands with the names of a handshake.
LEMMA HandshakeCallers ==
  ASSUME NEW q \in Seq(NamedItem), q \in Seq(HandshakeItem), NEW c \in Callers(q)
  PROVE  Name[c] \in HandshakeCommands
PROOF
  <1>1. PICK i \in DOMAIN q : q[i].cmd = c /\ c # NoCmd
    BY DEF Callers
  <1>2. q[i] \in NamedItem /\ q[i] \in HandshakeItem
    BY ElementOfSeq
  <1>. QED BY <1>1, <1>2 DEF NamedItem, HandshakeItem

\* Steps in which the queues only lose commands keep the accounts.
LEMMA LosingKeepsAccounts ==
  ASSUME Accounted, OutcomesSettle, AccountsKept, Holding' \subseteq Holding
  PROVE  Accounted'
PROOF
  BY DEF Accounted, OutcomesSettle, AccountsKept

\* Steps that leave the three queues alone keep the invariant.
LEMMA QueuesStable ==
  ASSUME HeldInv, UNCHANGED queues, OutcomesSettle, NoneHeldDone,
         socket' = "open" => socket = "open", status' = "ready" <=> status = "ready"
  PROVE  HeldInv'
PROOF
  <1>1. /\ UNCHANGED <<offlineQueue, commandQueue, prevCommandQueue>>
        /\ queueShared' = queueShared
    BY Zenon DEF queues
  <1>2. PrevHeld' = PrevHeld
    BY <1>1, Zenon DEF PrevHeld
  <1>3. Holding' = Holding /\ Apart'
    BY <1>1, <1>2 DEF Holding, HeldInv, Apart
  <1>4. AccountsKept
    BY <1>3 DEF AccountsKept, NoneHeldDone
  <1>5. Accounted'
    BY <1>3, <1>4, LosingKeepsAccounts DEF HeldInv
  <1>6. QueueShapes'
    <2>1. queueShared' => queueShared
      BY <1>1, Zenon
    <2>2. ~queueShared' => ~queueShared
      BY <1>1, Zenon
    <2>. QED BY <1>1, <2>1, <2>2 DEF HeldInv, QueueShapes
  <1>. QED BY <1>3, <1>5, <1>6 DEF HeldInv

------------------------------------------------------------------------------
(* The actions and the invariant behind HeldOnce.                            *)

\* Callers that are told at once, before anything of theirs is held.
LEMMA ToldSettles ==
  ASSUME Sound, NEW b \in Batches, Issuable(b), NEW result \in {"ok", "error"}, Told(b, result)
  PROVE  OutcomesSettle /\ NoneHeldDone
PROOF
  BY DEF Sound, HeldInv, Accounted, Issuable, Told, OutcomesSettle, NoneHeldDone

\* The calls that touch no queue.
LEMMA CallsKeepHeld ==
  ASSUME Sound, \/ Connect
                \/ \E reconnect \in BOOLEAN : Disconnect(reconnect) /\ status # "wait"
                \/ \E b \in Batches : IssueQuitOffline(b) \/ IssueRefused(b)
  PROVE  HeldInv'
PROOF
  <1> USE DEF Sound
  <1>1. CASE Connect
    <2>1. UNCHANGED <<queues, socket, outcome>> /\ status # "ready" /\ status' # "ready"
      BY <1>1 DEF Connect, MayConnect, StartConnecting
    <2>2. OutcomesSettle /\ NoneHeldDone
      BY <2>1 DEF OutcomesSettle, NoneHeldDone
    <2>. QED BY <2>1, <2>2, QueuesStable
  <1>2. ASSUME NEW reconnect \in BOOLEAN, Disconnect(reconnect), status # "wait"
        PROVE  HeldInv'
    <2>1. UNCHANGED <<queues, socket, outcome, status>>
      BY <1>2 DEF Disconnect
    <2>2. OutcomesSettle /\ NoneHeldDone
      BY <2>1 DEF OutcomesSettle, NoneHeldDone
    <2>. QED BY <2>1, <2>2, QueuesStable
  <1>3. ASSUME NEW b \in Batches, IssueQuitOffline(b) \/ IssueRefused(b)
        PROVE  HeldInv'
    <2>1. UNCHANGED <<queues, socket>> /\ (status' = "ready" <=> status = "ready")
      BY <1>3 DEF IssueQuitOffline, IssueRefused, WakeUp, StartConnecting
    <2>2. OutcomesSettle /\ NoneHeldDone
      BY <1>3, ToldSettles DEF IssueQuitOffline, IssueRefused
    <2>. QED BY <2>1, <2>2, QueuesStable
  <1>. QED BY <1>1, <1>2, <1>3

\* The steps of the system that touch no queue, and timeouts.
LEMMA OthersKeepHeld ==
  ASSUME Sound, \/ ReconnectTimer \/ CreateSocket \/ StaleContinuation \/ WrongRole \/ StillLoading
                \/ ServerHandshake \/ ServerCommand \/ \E c \in Commands : TimeOut(c)
                \/ UNCHANGED vars
  PROVE  HeldInv'
PROOF
  <1> USE DEF Sound
  <1>1. CASE ReconnectTimer \/ CreateSocket
    <2>1. UNCHANGED <<queues, outcome>> /\ (socket' = "open" => socket = "open")
          /\ (status' = "ready" <=> status = "ready")
      BY <1>1 DEF ReconnectTimer, MayConnect, StartConnecting, CreateSocket, lifecycle, history
    <2>2. OutcomesSettle /\ NoneHeldDone
      BY <2>1 DEF OutcomesSettle, NoneHeldDone
    <2>. QED BY <2>1, <2>2, QueuesStable
  <1>2. CASE StaleContinuation \/ WrongRole \/ StillLoading \/ ServerHandshake \/ ServerCommand
    <2>1. UNCHANGED <<queues, outcome, socket, status>>
      BY <1>2 DEF StaleContinuation, WrongRole, NothingSent, StillLoading, ServerHandshake,
                  ServerCommand, ServerFrame, ContinuationFrame, lifecycle, link, history, queues
    <2>2. OutcomesSettle /\ NoneHeldDone
      BY <2>1 DEF OutcomesSettle, NoneHeldDone
    <2>. QED BY <2>1, <2>2, QueuesStable
  <1>3. CASE UNCHANGED vars \/ \E c \in Commands : TimeOut(c)
    <2>1. UNCHANGED <<queues, socket, status>>
      BY <1>3 DEF vars, TimeOut, lifecycle, link
    <2>2. OutcomesSettle /\ NoneHeldDone
      BY <1>3 DEF vars, history, TimeOut, OutcomesSettle, NoneHeldDone, TypeOK, HistoryTypes
    <2>. QED BY <2>1, <2>2, QueuesStable
  <1>. QED BY <1>1, <1>2, <1>3

\* flushQueue: what was held in the two queues is told, the third stays.
LEMMA FlushKeepsHeld ==
  ASSUME Sound, NEW tasks, FlushQueues(offlineQueue, commandQueue, tasks),
         queueShared' = queueShared, socket' = socket, status' # "ready" \/ status' = status
  PROVE  HeldInv'
PROOF
  <1> USE DEF Sound
  <1>1. /\ offlineQueue' = <<>> /\ commandQueue' = <<>>
        /\ prevCommandQueue' = (IF queueShared THEN <<>> ELSE prevCommandQueue)
        /\ outcome' = Settle(Callers(offlineQueue) \cup Callers(commandQueue), "error")
    BY DEF FlushQueues
  <1>2. Once(<<>>) /\ Callers(<<>>) = {} /\ <<>> \in Seq(NamedItem) /\ <<>> \in Seq(HandshakeItem)
    BY NoItem
  <1>3. PrevHeld' = PrevHeld
    <2>1. CASE queueShared
      <3>1. queueShared'
        BY <2>1, Zenon
      <3>. QED BY <2>1, <3>1, Zenon DEF PrevHeld
    <2>2. CASE ~queueShared
      <3>1. ~queueShared' /\ prevCommandQueue' = prevCommandQueue
        BY <1>1, <2>2, Zenon
      <3>. QED BY <2>2, <3>1, Zenon DEF PrevHeld
    <2>. QED BY <2>1, <2>2
  <1>4. Apart'
    BY <1>1, <1>2, <1>3 DEF HeldInv, Apart
  <1>5. QueueShapes'
    <2>1. CASE queueShared
      <3>1. queueShared' /\ prevCommandQueue' = <<>>
        BY <1>1, <2>1, Zenon
      <3>. QED BY <1>1, <1>2, <2>1, <3>1 DEF HeldInv, QueueShapes
    <2>2. CASE ~queueShared
      <3>1. ~queueShared' /\ prevCommandQueue' = prevCommandQueue
        BY <1>1, <2>2, Zenon
      <3>. QED BY <1>1, <1>2, <2>2, <3>1 DEF HeldInv, QueueShapes
    <2>. QED BY <2>1, <2>2
  <1>6. Holding' = Callers(PrevHeld)
    BY <1>1, <1>2, <1>3 DEF Holding
  <1>7. /\ OutcomesSettle /\ NoneDone
        /\ \A c \in Commands : c \in Callers(offlineQueue) \cup Callers(commandQueue) => outcome'[c] # "pending"
    BY <1>1, SettleFacts
  <1>8. Callers(offlineQueue) \subseteq Commands /\ Callers(commandQueue) \subseteq Commands
    BY CallersAreCommands DEF TypeOK, QueueTypes
  <1>9. AccountsKept /\ Holding' \subseteq Holding
    BY <1>6, <1>7, <1>8 DEF AccountsKept, NoneDone, Holding
  <1>10. Accounted'
    BY <1>7, <1>9, LosingKeepsAccounts DEF HeldInv
  <1>. QED BY <1>4, <1>5, <1>10 DEF HeldInv

\* A connection is open: what the last one left is in a queue of its own.
LEMMA OpenNotShared ==
  ASSUME Sound, socket = "open" \/ status = "ready" \/ status = "connect"
  PROVE  socket = "open" /\ ~queueShared /\ PrevHeld = prevCommandQueue
PROOF
  <1>1. socket = "open"
    BY DEF Sound, LifecycleInv, SocketMatchesStatus
  <1>2. ~queueShared
    BY <1>1 DEF Sound, HeldInv, QueueShapes
  <1>. QED BY <1>1, <1>2, Zenon DEF PrevHeld

\* A filtered queue keeps the kinds of its items.
LEMMA AbortedTypes ==
  ASSUME Sound, NEW keep
  PROVE  /\ Keep(offlineQueue, keep) \in Seq(NamedItem)
         /\ Keep(commandQueue, keep) \in Seq(NamedItem)
         /\ commandQueue \in Seq(HandshakeItem) => Keep(commandQueue, keep) \in Seq(HandshakeItem)
PROOF
  BY KeepType DEF Sound, HeldInv, QueueShapes

\* closeHandler: the command queue is kept as prevCommandQueue when the client was ready,
\* when it already is that queue, or when it is empty; whoever it drops is told.
LEMMA CloseHandlerKeepsHeld ==
  ASSUME Sound, NEW manual \in BOOLEAN, CloseHandler(manual), socket' # "open"
  PROVE  HeldInv'
PROOF
  <1> USE DEF Sound
  <1> DEFINE
    cq == AbortIncompletePipelines(commandQueue)
    oq == AbortTransactionFragments(offlineQueue)
    shares == queueShared \/ (status = "ready" /\ cq # <<>>)
    givesUp == manual \/ retryAttempts + 1 > RetryLimit
    flush == givesUp \/ (MaxRetriesPerRequest >= 0
                           /\ (retryAttempts + 1) % (MaxRetriesPerRequest + 1) = 0)
    aborted == (Callers(commandQueue) \ Callers(cq)) \cup (Callers(offlineQueue) \ Callers(oq))
    flushed == IF flush THEN Callers(cq) \cup Callers(oq) ELSE {}
  <1>1. /\ status' = (IF givesUp THEN "end" ELSE "reconnecting")
        /\ offlineQueue' = (IF flush THEN <<>> ELSE oq)
        /\ commandQueue' = (IF flush THEN <<>> ELSE cq)
        /\ prevCommandQueue' = (IF shares THEN commandQueue' ELSE prevCommandQueue)
        /\ queueShared' = shares
        /\ outcome' = Settle(aborted \cup flushed, "error")
    BY Zenon DEF CloseHandler
  <1>2. /\ cq \in Seq(Item) /\ Callers(cq) \subseteq Callers(commandQueue) /\ Once(cq)
        /\ oq \in Seq(Item) /\ Callers(oq) \subseteq Callers(offlineQueue) /\ Once(oq)
    <2>1. /\ commandQueue \in Seq(Item) /\ offlineQueue \in Seq(Item)
          /\ Once(commandQueue) /\ Once(offlineQueue)
      BY DEF TypeOK, QueueTypes, HeldInv, Apart
    <2>. QED BY <2>1, KeepFacts DEF AbortIncompletePipelines, AbortTransactionFragments
  <1>3. /\ cq \in Seq(NamedItem) /\ oq \in Seq(NamedItem)
        /\ commandQueue \in Seq(HandshakeItem) => cq \in Seq(HandshakeItem)
    BY AbortedTypes DEF AbortIncompletePipelines, AbortTransactionFragments
  <1>4. Once(<<>>) /\ Callers(<<>>) = {} /\ <<>> \in Seq(NamedItem) /\ <<>> \in Seq(HandshakeItem)
    BY NoItem
  <1>5. Callers(offlineQueue) \subseteq Commands /\ Callers(commandQueue) \subseteq Commands
    BY CallersAreCommands DEF TypeOK, QueueTypes
  <1> HIDE DEF cq, oq, flush, givesUp
  <1>6. /\ Callers(commandQueue') \subseteq Callers(commandQueue) /\ Once(commandQueue')
        /\ Callers(offlineQueue') \subseteq Callers(offlineQueue) /\ Once(offlineQueue')
        /\ commandQueue' \in Seq(NamedItem) /\ offlineQueue' \in Seq(NamedItem)
        /\ commandQueue \in Seq(HandshakeItem) \/ cq = <<>> => commandQueue' \in Seq(HandshakeItem)
    BY <1>1, <1>2, <1>3, <1>4
  <1>7. status = "ready" => prevCommandQueue = <<>> /\ ~queueShared
    BY OpenNotShared DEF HeldInv, QueueShapes
  <1>8. PrevHeld' = PrevHeld
    <2>1. CASE queueShared
      <3>1. queueShared' /\ PrevHeld = <<>>
        BY <1>1, <2>1, Zenon DEF PrevHeld
      <3>. QED BY <3>1, Zenon DEF PrevHeld
    <2>2. CASE ~queueShared /\ status = "ready" /\ cq # <<>>
      <3>1. queueShared' /\ PrevHeld = <<>>
        BY <1>1, <1>7, <2>2, Zenon DEF PrevHeld
      <3>. QED BY <3>1, Zenon DEF PrevHeld
    <2>3. CASE ~shares
      <3>1. ~queueShared' /\ prevCommandQueue' = prevCommandQueue /\ ~queueShared
        BY <1>1, <2>3, Zenon
      <3>. QED BY <3>1, Zenon DEF PrevHeld
    <2>. QED BY <2>1, <2>2, <2>3
  <1>9. Apart'
    BY <1>6, <1>8 DEF HeldInv, Apart
  <1>10. QueueShapes'
    <2>1. prevCommandQueue' \in Seq(NamedItem) /\ status' # "ready"
      BY <1>1, <1>6 DEF HeldInv, QueueShapes
    <2>2. CASE shares
      <3>1. queueShared' /\ prevCommandQueue' = commandQueue'
        BY <1>1, <2>2, Zenon
      <3>. QED BY <1>6, <2>1, <3>1 DEF QueueShapes
    <2>3. CASE ~shares
      <3>1. ~queueShared' /\ ~queueShared /\ (status # "ready" \/ cq = <<>>)
        BY <1>1, <2>3, Zenon
      <3>2. commandQueue' \in Seq(HandshakeItem)
        BY <1>6, <3>1 DEF HeldInv, QueueShapes
      <3>. QED BY <1>6, <2>1, <3>1, <3>2 DEF QueueShapes
    <2>. QED BY <2>2, <2>3
  <1>11. Holding' \subseteq Holding
    BY <1>6, <1>8 DEF Holding
  <1>12. OutcomesSettle /\ NoneDone /\ \A c \in Commands : c \in aborted \cup flushed => outcome'[c] # "pending"
    <2> HIDE DEF aborted, flushed
    <2>. QED BY <1>1, SettleFacts
  <1>13. Holding \ Holding' \subseteq aborted \cup flushed
    <2>1. CASE flush
      BY <2>1, <1>8 DEF Holding
    <2>2. CASE ~flush
      <3>1. offlineQueue' = oq /\ commandQueue' = cq
        BY <1>1, <2>2
      <3>. QED BY <3>1, <1>8 DEF Holding
    <2>. QED BY <2>1, <2>2
  <1>14. AccountsKept
    <2>1. aborted \cup flushed \subseteq Commands
      BY <1>2, <1>5
    <2> HIDE DEF aborted, flushed
    <2>. QED BY <1>12, <1>13, <2>1 DEF AccountsKept, NoneDone
  <1>15. Accounted'
    BY <1>11, <1>12, <1>14, LosingKeepsAccounts DEF HeldInv
  <1>. QED BY <1>9, <1>10, <1>15 DEF HeldInv

\* The steps in which an attempt, a connection or its handshake ends.
LEMMA EndingsKeepHeld ==
  ASSUME Sound, \/ AbortConnecting \/ HandshakeFailed \/ StreamClosed \/ StreamLost
                \/ \E reconnect \in BOOLEAN : Disconnect(reconnect) /\ status = "wait"
  PROVE  HeldInv'
PROOF
  <1>1. CASE AbortConnecting
    <2>1. /\ FlushQueues(offlineQueue, commandQueue, <<>>) /\ status' = "end" /\ socket' = socket
          /\ queueShared' = queueShared
      BY <1>1, Zenon DEF AbortConnecting, link
    <2>2. status' # "ready"
      BY <2>1
    <2>. QED BY <2>1, <2>2, FlushKeepsHeld
  <1>2. CASE HandshakeFailed
    <2>1. /\ FlushQueues(offlineQueue, commandQueue, Tail(microtasks))
          /\ queueShared' = queueShared /\ socket' = socket /\ status' = status
      BY <1>2, Zenon DEF HandshakeFailed, RecoverFromFatalError, ContinuationFrame, lifecycle
    <2>. QED BY <2>1, FlushKeepsHeld
  <1>3. CASE StreamClosed \/ StreamLost
    <2>1. CloseHandler(manuallyClosing) /\ socket' = "none"
      BY <1>3 DEF StreamClosed, StreamLost, Close
    <2>2. manuallyClosing \in BOOLEAN /\ socket' # "open"
      BY <2>1 DEF Sound, TypeOK, LifecycleTypes
    <2>. QED BY <2>1, <2>2, CloseHandlerKeepsHeld
  <1>4. ASSUME NEW reconnect \in BOOLEAN, Disconnect(reconnect), status = "wait"
        PROVE  HeldInv'
    <2>1. CloseHandler(manuallyClosing \/ ~reconnect) /\ socket' = socket
      BY <1>4 DEF Disconnect
    <2>2. socket' # "open"
      BY <1>4, <2>1 DEF Sound, LifecycleInv, SocketMatchesStatus
    <2>3. (manuallyClosing \/ ~reconnect) \in BOOLEAN
      OBVIOUS
    <2>. QED BY <2>1, <2>2, <2>3, CloseHandlerKeepsHeld
  <1>. QED BY <1>1, <1>2, <1>3, <1>4

\* Steps that change the first two queues only, with what they must see to.
LEMMA TwoQueuesChange ==
  ASSUME Sound, queueShared' = queueShared, prevCommandQueue' = prevCommandQueue,
         socket' = socket, status' = "ready" <=> status = "ready",
         queueShared => commandQueue' = commandQueue,
         offlineQueue' \in Seq(NamedItem), commandQueue' \in Seq(NamedItem),
         status # "ready" /\ commandQueue \in Seq(HandshakeItem) => commandQueue' \in Seq(HandshakeItem),
         Once(offlineQueue'), Once(commandQueue'),
         Callers(offlineQueue') \cap Callers(commandQueue') = {},
         Callers(offlineQueue') \cap Callers(PrevHeld) = {},
         Callers(commandQueue') \cap Callers(PrevHeld) = {}
  PROVE  QueueShapes' /\ Apart' /\ PrevHeld' = PrevHeld
PROOF
  <1>1. PrevHeld' = PrevHeld
    BY Zenon DEF PrevHeld
  <1>2. Apart'
    BY <1>1 DEF Sound, HeldInv, Apart
  <1>3. QueueShapes'
    <2>1. CASE queueShared
      <3>1. queueShared'
        BY <2>1, Zenon
      <3>. QED BY <2>1, <3>1 DEF Sound, HeldInv, QueueShapes
    <2>2. CASE ~queueShared
      <3>1. ~queueShared'
        BY <2>2, Zenon
      <3>. QED BY <2>2, <3>1 DEF Sound, HeldInv, QueueShapes
    <2>. QED BY <2>1, <2>2
  <1>. QED BY <1>1, <1>2, <1>3

\* An item of the client itself does not change who is held.
LEMMA AppendInternal ==
  ASSUME NEW q \in Seq(Item), Once(q), NEW item \in Item, item.cmd = NoCmd
  PROVE  /\ Append(q, item) \in Seq(Item) /\ Once(Append(q, item))
         /\ Callers(Append(q, item)) = Callers(q)
         /\ q \in Seq(NamedItem) => Append(q, item) \in Seq(NamedItem)
         /\ q \in Seq(HandshakeItem) /\ item \in HandshakeItem => Append(q, item) \in Seq(HandshakeItem)
         /\ Append(q, item) = q \o <<item>>
PROOF
  <1>1. item \in NamedItem
    BY DEF NamedItem
  <1>2. Append(q, item) = q \o <<item>>
    BY <1>1
  <1>3. <<item>> \in Seq(Item) /\ Once(<<item>>) /\ Callers(<<item>>) = {}
    BY OneItem
  <1>4. Callers(q \o <<item>>) = Callers(q)
    <2>1. Callers(q \o <<item>>) = Callers(q) \cup Callers(<<item>>)
      BY <1>1, <1>3, CallersConcat
    <2>. QED BY <1>3, <2>1
  <1>5. Callers(q) \cap Callers(<<item>>) = {}
    BY <1>3
  <1>6. Once(q \o <<item>>)
    BY <1>1, <1>3, <1>5, OnceConcat
  <1>. QED BY <1>1, <1>2, <1>4, <1>6

\* A handshake command changes no queue but for an item of the client itself.
LEMMA SendHandshakeKeepsHeld ==
  ASSUME Sound, NEW item \in Item, item.cmd = NoCmd, item.name \in HandshakeCommands,
         NEW tasks, SendHandshake(item, tasks),
         UNCHANGED <<prevCommandQueue, socket, status, outcome>>, queueShared' = queueShared
  PROVE  HeldInv'
PROOF
  <1> USE DEF Sound
  <1>1. /\ offlineQueue \in Seq(NamedItem) /\ commandQueue \in Seq(NamedItem)
        /\ offlineQueue \in Seq(Item) /\ commandQueue \in Seq(Item)
        /\ Once(offlineQueue) /\ Once(commandQueue) /\ item \in HandshakeItem
    BY DEF HeldInv, QueueShapes, Apart, HandshakeItem, TypeOK, QueueTypes
  <1>2. \/ Writable(item.name, FALSE) /\ commandQueue' = commandQueue \o <<item>> /\ UNCHANGED offlineQueue
        \/ UNCHANGED commandQueue /\ offlineQueue' = Append(offlineQueue, item)
        \/ UNCHANGED <<commandQueue, offlineQueue>>
    BY Zenon DEF SendHandshake, Write
  <1>3. /\ offlineQueue' \in Seq(NamedItem) /\ Once(offlineQueue') /\ Callers(offlineQueue') = Callers(offlineQueue)
        /\ commandQueue' \in Seq(NamedItem) /\ Once(commandQueue') /\ Callers(commandQueue') = Callers(commandQueue)
        /\ commandQueue \in Seq(HandshakeItem) => commandQueue' \in Seq(HandshakeItem)
    BY <1>1, <1>2, AppendInternal
  <1>4. queueShared => commandQueue' = commandQueue
    <2>1. Writable(item.name, FALSE) => ~queueShared
      BY OpenNotShared DEF Writable, StreamWritable
    <2>. QED BY <1>2, <2>1
  <1>5. QueueShapes' /\ Apart' /\ PrevHeld' = PrevHeld
    BY <1>3, <1>4, TwoQueuesChange DEF HeldInv, Apart
  <1>6. Holding' = Holding
    BY <1>3, <1>5 DEF Holding
  <1>7. Accounted'
    BY <1>6 DEF HeldInv, Accounted
  <1>. QED BY <1>5, <1>7 DEF HeldInv

\* The continuations and the timer that send a handshake command.
LEMMA HandshakeKeepsHeld ==
  ASSUME Sound, Downgrade \/ ReadyCheck \/ LoadingTimer
  PROVE  HeldInv'
PROOF
  <1>1. CASE Downgrade
    <2>1. HelloItem \in Item /\ HelloItem.cmd = NoCmd /\ HelloItem.name \in HandshakeCommands
      BY HandshakeItemTypes DEF Sound, HelloItem, Internal, HandshakeCommands
    <2>2. /\ SendHandshake(HelloItem, Tail(microtasks))
          /\ UNCHANGED <<prevCommandQueue, socket, status, outcome>> /\ queueShared' = queueShared
      BY <1>1, Zenon DEF Downgrade, ContinuationFrame, lifecycle
    <2>. QED BY <2>1, <2>2, SendHandshakeKeepsHeld
  <1>2. \A e \in Nat : /\ InfoItem(e) \in Item /\ InfoItem(e).cmd = NoCmd
                       /\ InfoItem(e).name \in HandshakeCommands
    BY HandshakeItemTypes DEF Sound, InfoItem, Internal, HandshakeCommands
  <1>3. CASE ReadyCheck
    <2>1. epoch \in Nat
      BY DEF Sound, TypeOK, LifecycleTypes
    <2>2. /\ SendHandshake(InfoItem(epoch), Tail(microtasks))
          /\ UNCHANGED <<prevCommandQueue, socket, status, outcome>> /\ queueShared' = queueShared
      BY <1>3, Zenon DEF ReadyCheck, ContinuationFrame, lifecycle
    <2>. QED BY <1>2, <2>1, <2>2, SendHandshakeKeepsHeld
  <1>4. CASE LoadingTimer
    <2>1. PICK e \in loadingTimers : SendHandshake(InfoItem(e), <<>>)
      BY <1>4, Zenon DEF LoadingTimer
    <2>2. e \in Nat
      BY DEF Sound, TypeOK, LoopTypes
    <2>3. UNCHANGED <<prevCommandQueue, socket, status, outcome>> /\ queueShared' = queueShared
      BY <1>4, Zenon DEF LoadingTimer, lifecycle, link, history
    <2>. QED BY <1>2, <2>1, <2>2, <2>3, SendHandshakeKeepsHeld
  <1>. QED BY <1>1, <1>3, <1>4

\* resetCommandQueue: what the last connection left is in prevCommandQueue, or was only
\* the handshake of a connection that never became ready.
LEMMA ConnectHandlerKeepsHeld ==
  ASSUME Sound, ConnectHandler
  PROVE  HeldInv'
PROOF
  <1> USE DEF Sound
  <1> DEFINE first == IF ended THEN <<>> ELSE <<HelloItem>>
  <1>1. /\ socket = "opening" /\ socket' = "open" /\ status' = "connect"
        /\ commandQueue' = first /\ queueShared' = FALSE
        /\ offlineQueue' = (IF ended /\ EnableOfflineQueue THEN Append(offlineQueue, HelloItem) ELSE offlineQueue)
        /\ UNCHANGED <<prevCommandQueue, outcome>>
    BY Zenon DEF ConnectHandler, ResetCommandQueue, history
  <1>2. HelloItem \in Item /\ HelloItem.cmd = NoCmd /\ HelloItem \in NamedItem /\ HelloItem \in HandshakeItem
    BY HandshakeItemTypes DEF HelloItem, Internal, HandshakeCommands, NamedItem, HandshakeItem
  <1>3. /\ first \in Seq(NamedItem) /\ first \in Seq(HandshakeItem) /\ Once(first) /\ Callers(first) = {}
    BY <1>2, OneItem, NoItem
  <1> HIDE DEF first
  <1>4. offlineQueue \in Seq(NamedItem) /\ offlineQueue \in Seq(Item) /\ Once(offlineQueue)
    BY DEF HeldInv, QueueShapes, Apart, TypeOK, QueueTypes
  <1>5. offlineQueue' \in Seq(NamedItem) /\ Once(offlineQueue') /\ Callers(offlineQueue') = Callers(offlineQueue)
    BY <1>1, <1>2, <1>4, AppendInternal
  <1>6. PrevHeld' = prevCommandQueue /\ ~queueShared'
    BY <1>1, Zenon DEF PrevHeld
  <1>7. status # "ready"
    BY <1>1 DEF LifecycleInv, SocketMatchesStatus
  <1>8. QueueShapes'
    BY <1>1, <1>3, <1>5, <1>6 DEF HeldInv, QueueShapes
  <1>9. CASE queueShared
    <2>1. prevCommandQueue = commandQueue /\ PrevHeld = <<>> /\ Callers(<<>>) = {}
      BY <1>9, NoItem DEF HeldInv, QueueShapes, PrevHeld
    <2>2. Holding' = Holding /\ Apart'
      BY <1>1, <1>3, <1>5, <1>6, <2>1 DEF HeldInv, Apart, Holding
    <2>3. Accounted'
      BY <1>1, <2>2 DEF HeldInv, Accounted
    <2>. QED BY <1>8, <2>2, <2>3 DEF HeldInv
  <1>10. CASE ~queueShared
    <2>1. PrevHeld = prevCommandQueue /\ commandQueue \in Seq(HandshakeItem)
      BY <1>7, <1>10 DEF HeldInv, QueueShapes, PrevHeld
    <2>2. Apart' /\ Holding' \subseteq Holding /\ Holding \ Holding' \subseteq Callers(commandQueue)
      BY <1>1, <1>3, <1>5, <1>6, <2>1 DEF HeldInv, Apart, Holding
    <2>3. \A c \in Callers(commandQueue) : Name[c] \in HandshakeCommands
      BY <2>1, HandshakeCallers DEF HeldInv, QueueShapes
    <2>4. AccountsKept /\ OutcomesSettle
      BY <1>1, <2>2, <2>3 DEF AccountsKept, OutcomesSettle
    <2>5. Accounted'
      BY <2>2, <2>4, LosingKeepsAccounts DEF HeldInv
    <2>. QED BY <1>8, <2>2, <2>5 DEF HeldInv
  <1>. QED BY <1>9, <1>10

\* A command the server answered with an error: kept offline, or told.
LEMMA ReturnErrorKeepsHeld ==
  ASSUME Sound, ReturnError
  PROVE  HeldInv'
PROOF
  <1> USE DEF Sound
  <1> DEFINE item == Head(commandQueue)
  <1>1. /\ socket = "open" /\ commandQueue # <<>> /\ commandQueue' = Tail(commandQueue)
        /\ UNCHANGED <<prevCommandQueue, socket, status>> /\ queueShared' = queueShared
        /\ \/ offlineQueue' = offlineQueue \o Resend(<<item>>, condition.select) /\ outcome' = outcome
           \/ offlineQueue' = offlineQueue /\ outcome' = Settle({item.cmd}, "error")
    BY Zenon DEF ReturnError, ReplyArrives, ShiftCommand, lifecycle
  <1>2. ~queueShared
    BY <1>1, OpenNotShared
  <1>3. /\ offlineQueue \in Seq(NamedItem) /\ commandQueue \in Seq(NamedItem)
        /\ offlineQueue \in Seq(Item) /\ commandQueue \in Seq(Item)
        /\ Once(offlineQueue) /\ Once(commandQueue)
    BY DEF HeldInv, QueueShapes, Apart, TypeOK, QueueTypes
  <1>4. /\ commandQueue' \in Seq(NamedItem) /\ Once(commandQueue') /\ item \in NamedItem /\ item \in Item
        /\ Callers(commandQueue) = Callers(commandQueue') \cup ({item.cmd} \ {NoCmd})
        /\ item.cmd \notin Callers(commandQueue')
        /\ commandQueue \in Seq(HandshakeItem) => commandQueue' \in Seq(HandshakeItem)
    <2>1. item \in NamedItem
      BY <1>1, <1>3, HeadTailProperties
    <2>. QED BY <1>1, <1>3, <2>1, TailFacts
  <1> HIDE DEF item
  <1>5. CASE offlineQueue' = offlineQueue \o Resend(<<item>>, condition.select) /\ outcome' = outcome
    <2> DEFINE again == Resend(<<item>>, condition.select)
    <2>1. again \in Seq(NamedItem) /\ Callers(again) = {item.cmd} \ {NoCmd} /\ Once(again)
      <3>1. <<item>> \in Seq(NamedItem) /\ Once(<<item>>) /\ Callers(<<item>>) = {item.cmd} \ {NoCmd}
        BY <1>4, OneItem
      <3>2. condition.select \in Dbs
        BY DEF TypeOK, DatabaseTypes
      <3>. QED BY <3>1, <3>2, ResendFacts
    <2>2. again \in Seq(Item)
      BY <2>1 DEF NamedItem
    <2>3. Callers(again) \cap Callers(offlineQueue) = {}
      BY <1>4, <2>1 DEF HeldInv, Apart
    <2> HIDE DEF again
    <2>4. offlineQueue' = offlineQueue \o again
      BY <1>5 DEF again
    <2>5. offlineQueue' \in Seq(NamedItem) /\ Once(offlineQueue')
      BY <1>3, <2>1, <2>2, <2>3, <2>4, OnceConcat
    <2>6. Callers(offlineQueue') = Callers(offlineQueue) \cup ({item.cmd} \ {NoCmd})
      BY <1>3, <2>1, <2>2, <2>4, CallersConcat
    <2>7. /\ Callers(offlineQueue') \cap Callers(commandQueue') = {}
          /\ Callers(offlineQueue') \cap Callers(PrevHeld) = {}
          /\ Callers(commandQueue') \cap Callers(PrevHeld) = {}
      BY <1>4, <2>6 DEF HeldInv, Apart
    <2>8. QueueShapes' /\ Apart' /\ PrevHeld' = PrevHeld
      BY <1>1, <1>2, <1>4, <2>5, <2>7, TwoQueuesChange
    <2>9. Holding' = Holding
      BY <1>4, <2>6, <2>8 DEF Holding
    <2>10. Accounted'
      BY <1>5, <2>9 DEF HeldInv, Accounted
    <2>. QED BY <2>8, <2>10 DEF HeldInv
  <1>6. CASE offlineQueue' = offlineQueue /\ outcome' = Settle({item.cmd}, "error")
    <2>1. /\ Callers(offlineQueue') \cap Callers(commandQueue') = {}
          /\ Callers(offlineQueue') \cap Callers(PrevHeld) = {}
          /\ Callers(commandQueue') \cap Callers(PrevHeld) = {}
      BY <1>4, <1>6 DEF HeldInv, Apart
    <2>2. QueueShapes' /\ Apart' /\ PrevHeld' = PrevHeld
      BY <1>1, <1>2, <1>3, <1>4, <1>6, <2>1, TwoQueuesChange
    <2>3. OutcomesSettle /\ NoneDone /\ \A c \in Commands : c \in {item.cmd} => outcome'[c] # "pending"
      BY <1>6, SettleFacts
    <2>4. Callers(commandQueue) \subseteq Commands
      BY <1>3, CallersAreCommands
    <2>5. Holding' \subseteq Holding /\ AccountsKept
      BY <1>4, <1>6, <2>2, <2>3, <2>4 DEF Holding, AccountsKept, NoneDone
    <2>6. Accounted'
      BY <2>3, <2>5, LosingKeepsAccounts DEF HeldInv
    <2>. QED BY <2>2, <2>6 DEF HeldInv
  <1>. QED BY <1>1, <1>5, <1>6

\* A command that is answered leaves the command queue, and its caller is told.
LEMMA ReturnReplyKeepsHeld ==
  ASSUME Sound, ReturnReply
  PROVE  HeldInv'
PROOF
  <1> USE DEF Sound
  <1> DEFINE item == Head(commandQueue)
  <1>1. /\ socket = "open" /\ commandQueue # <<>> /\ commandQueue' = Tail(commandQueue)
        /\ UNCHANGED <<offlineQueue, prevCommandQueue, socket, status>> /\ queueShared' = queueShared
        /\ outcome' = Settle({item.cmd}, "ok")
    BY Zenon DEF ReturnReply, ReplyArrives, ShiftCommand, lifecycle, link
  <1>2. ~queueShared
    BY <1>1, OpenNotShared
  <1>3. /\ offlineQueue \in Seq(NamedItem) /\ commandQueue \in Seq(NamedItem) /\ commandQueue \in Seq(Item)
        /\ Once(offlineQueue) /\ Once(commandQueue)
    BY DEF HeldInv, QueueShapes, Apart, TypeOK, QueueTypes
  <1>4. /\ commandQueue' \in Seq(NamedItem) /\ Once(commandQueue')
        /\ Callers(commandQueue) = Callers(commandQueue') \cup ({item.cmd} \ {NoCmd})
        /\ item.cmd \notin Callers(commandQueue')
        /\ commandQueue \in Seq(HandshakeItem) => commandQueue' \in Seq(HandshakeItem)
    BY <1>1, <1>3, TailFacts
  <1> HIDE DEF item
  <1>5. /\ Callers(offlineQueue') \cap Callers(commandQueue') = {}
        /\ Callers(offlineQueue') \cap Callers(PrevHeld) = {}
        /\ Callers(commandQueue') \cap Callers(PrevHeld) = {}
    BY <1>1, <1>4 DEF HeldInv, Apart
  <1>6. QueueShapes' /\ Apart' /\ PrevHeld' = PrevHeld
    BY <1>1, <1>2, <1>3, <1>4, <1>5, TwoQueuesChange
  <1>7. /\ OutcomesSettle
        /\ \A c \in Commands : c \in {item.cmd} => outcome'[c] # "pending"
        /\ \A c \in Commands : c \notin {item.cmd} => outcome'[c] = outcome[c]
    BY <1>1, SettleFacts
  <1>8. Callers(commandQueue) \subseteq Commands
    BY <1>3, CallersAreCommands
  <1>9. Holding' \subseteq Holding /\ \A c \in Commands : c = item.cmd => c \notin Holding'
    BY <1>1, <1>4, <1>6, CommandsAssumption DEF HeldInv, Apart, Holding
  <1>0. AccountsKept
    BY <1>1, <1>4, <1>6, <1>7, <1>8, <1>9 DEF Holding, AccountsKept
  <1>10. Accounted'
    BY <1>7, <1>9, <1>0, LosingKeepsAccounts DEF HeldInv
  <1>. QED BY <1>6, <1>10 DEF HeldInv

\* returnFatalError tells everybody in the command queue.
LEMMA ReturnFatalErrorKeepsHeld ==
  ASSUME Sound, ReturnFatalError
  PROVE  HeldInv'
PROOF
  <1> USE DEF Sound
  <1>1. /\ socket = "open" /\ commandQueue' = <<>>
        /\ UNCHANGED <<offlineQueue, prevCommandQueue, socket, status>> /\ queueShared' = queueShared
        /\ outcome' = Settle(Callers(commandQueue), "error")
    BY Zenon DEF ReturnFatalError, ReplyArrives, lifecycle
  <1>2. ~queueShared
    BY <1>1, OpenNotShared
  <1>3. /\ offlineQueue \in Seq(NamedItem) /\ Once(offlineQueue)
        /\ <<>> \in Seq(NamedItem) /\ <<>> \in Seq(HandshakeItem) /\ Once(<<>>) /\ Callers(<<>>) = {}
    BY NoItem DEF HeldInv, QueueShapes, Apart
  <1>4. QueueShapes' /\ Apart' /\ PrevHeld' = PrevHeld
    <2>1. /\ Callers(offlineQueue') \cap Callers(commandQueue') = {}
          /\ Callers(offlineQueue') \cap Callers(PrevHeld) = {}
          /\ Callers(commandQueue') \cap Callers(PrevHeld) = {}
      BY <1>1, <1>3 DEF HeldInv, Apart
    <2>. QED BY <1>1, <1>2, <1>3, <2>1, TwoQueuesChange
  <1>5. OutcomesSettle /\ NoneDone /\ \A c \in Commands : c \in Callers(commandQueue) => outcome'[c] # "pending"
    BY <1>1, SettleFacts
  <1>6. Callers(commandQueue) \subseteq Commands
    BY CallersAreCommands DEF TypeOK, QueueTypes
  <1>7. Holding' \subseteq Holding /\ AccountsKept
    BY <1>1, <1>3, <1>4, <1>5, <1>6 DEF Holding, AccountsKept, NoneDone
  <1>8. Accounted'
    BY <1>5, <1>7, LosingKeepsAccounts DEF HeldInv
  <1>. QED BY <1>4, <1>8 DEF HeldInv

\* A call that is queued: its commands are held, and were not before.
LEMMA NewCallsHeld ==
  ASSUME Sound, NEW b \in Batches, Issuable(b), Told(b, "pending"),
         Holding' = Holding \cup {b[i] : i \in DOMAIN b}
  PROVE  Accounted'
PROOF
  BY DEF Sound, HeldInv, Accounted, Issuable, Told

\* Redis#sendCommand puts the commands of a call in one of two queues.
LEMMA IssueKeepsHeld ==
  ASSUME Sound, NEW b \in Batches, IssueWritten(b) \/ IssueQueued(b)
  PROVE  HeldInv'
PROOF
  <1> USE DEF Sound
  <1>1. /\ condition.select \in Dbs /\ CurrentDb \in Dbs
        /\ {b[i] : i \in DOMAIN b} \subseteq Commands /\ b # <<>> /\ Issuable(b) /\ Told(b, "pending")
    BY BatchDbTypes, ItemsOfFacts DEF IssueWritten, IssueQueued
  <1>2. {b[i] : i \in DOMAIN b} \cap Holding = {}
    BY <1>1 DEF Issuable, HeldInv, Accounted
  <1>3. /\ offlineQueue \in Seq(NamedItem) /\ commandQueue \in Seq(NamedItem)
        /\ offlineQueue \in Seq(Item) /\ commandQueue \in Seq(Item)
        /\ Once(offlineQueue) /\ Once(commandQueue)
    BY DEF HeldInv, QueueShapes, Apart, TypeOK, QueueTypes
  <1>4. CASE IssueWritten(b)
    <2> DEFINE new == ItemsOf(b, condition.select)
    <2>1. /\ BatchWritable(b) /\ commandQueue' = commandQueue \o new /\ queueShared' = queueShared
          /\ UNCHANGED <<offlineQueue, prevCommandQueue, socket, status>>
      BY <1>4, Zenon DEF IssueWritten, Write, link
    <2>2. new \in Seq(NamedItem) /\ Once(new) /\ Callers(new) = {b[i] : i \in DOMAIN b}
      BY <1>1, ItemsOfFacts
    <2>3. ~queueShared
      BY <2>1, OpenNotShared DEF BatchWritable, Writable, StreamWritable
    <2>4. status # "ready" => new \in Seq(HandshakeItem)
      <3> SUFFICES ASSUME status # "ready" PROVE new \in Seq(HandshakeItem)
        OBVIOUS
      <3>1. ~(Len(b) > 1) /\ Name[b[1]] \in HandshakeCommands
        BY <2>1, Zenon DEF BatchWritable, Writable
      <3>2. b \in Seq(Commands)
        BY CommandsAssumption
      <3>3. \A i \in DOMAIN b : i = 1
        BY <3>1, <3>2
      <3>4. DOMAIN new = DOMAIN b /\ \A i \in DOMAIN b : new[i].name = Name[b[i]]
        BY DEF ItemsOf
      <3> HIDE DEF new
      <3>5. \A i \in 1..Len(new) : new[i] \in Item /\ i \in DOMAIN b
        BY <2>2, <3>4 DEF NamedItem
      <3>6. \A i \in 1..Len(new) : new[i] \in HandshakeItem
        BY <3>1, <3>3, <3>4, <3>5 DEF HandshakeItem
      <3>. QED BY <2>2, <3>6
    <2>5. new \in Seq(Item)
      BY <2>2 DEF NamedItem
    <2> HIDE DEF new
    <2>6. Callers(commandQueue) \cap Callers(new) = {}
      BY <1>2, <2>2 DEF Holding
    <2>7. commandQueue' \in Seq(NamedItem) /\ Once(commandQueue')
      BY <1>3, <2>1, <2>2, <2>5, <2>6, OnceConcat
    <2>8. Callers(commandQueue') = Callers(commandQueue) \cup {b[i] : i \in DOMAIN b}
      BY <1>3, <2>1, <2>2, <2>5, CallersConcat
    <2>9. /\ Callers(offlineQueue') \cap Callers(commandQueue') = {}
          /\ Callers(offlineQueue') \cap Callers(PrevHeld) = {}
          /\ Callers(commandQueue') \cap Callers(PrevHeld) = {}
      BY <1>2, <2>1, <2>8 DEF HeldInv, Apart, Holding
    <2>10. status # "ready" /\ commandQueue \in Seq(HandshakeItem) => commandQueue' \in Seq(HandshakeItem)
      BY <2>1, <2>4
    <2>11. QueueShapes' /\ Apart' /\ PrevHeld' = PrevHeld
      BY <1>3, <2>1, <2>3, <2>7, <2>9, <2>10, TwoQueuesChange
    <2>12. Holding' = Holding \cup {b[i] : i \in DOMAIN b}
      BY <2>1, <2>8, <2>11 DEF Holding
    <2>13. Accounted'
      BY <1>1, <2>12, NewCallsHeld
    <2>. QED BY <2>11, <2>13 DEF HeldInv
  <1>5. CASE IssueQueued(b)
    <2> DEFINE new == ItemsOf(b, CurrentDb)
    <2>1. /\ offlineQueue' = offlineQueue \o new /\ queueShared' = queueShared
          /\ UNCHANGED <<commandQueue, prevCommandQueue, socket>>
      BY <1>5, Zenon DEF IssueQueued
    <2>2. new \in Seq(NamedItem) /\ Once(new) /\ Callers(new) = {b[i] : i \in DOMAIN b}
      BY <1>1, ItemsOfFacts
    <2>3. status' = "ready" <=> status = "ready"
      BY <1>5 DEF IssueQueued, WakeUp, StartConnecting
    <2>4. new \in Seq(Item)
      BY <2>2 DEF NamedItem
    <2> HIDE DEF new
    <2>5. Callers(offlineQueue) \cap Callers(new) = {}
      BY <1>2, <2>2 DEF Holding
    <2>6. offlineQueue' \in Seq(NamedItem) /\ Once(offlineQueue')
      BY <1>3, <2>1, <2>2, <2>4, <2>5, OnceConcat
    <2>7. Callers(offlineQueue') = Callers(offlineQueue) \cup {b[i] : i \in DOMAIN b}
      BY <1>3, <2>1, <2>2, <2>4, CallersConcat
    <2>8. /\ Callers(offlineQueue') \cap Callers(commandQueue') = {}
          /\ Callers(offlineQueue') \cap Callers(PrevHeld) = {}
          /\ Callers(commandQueue') \cap Callers(PrevHeld) = {}
      BY <1>2, <2>1, <2>7 DEF HeldInv, Apart, Holding
    <2>9. QueueShapes' /\ Apart' /\ PrevHeld' = PrevHeld
      BY <1>3, <2>1, <2>3, <2>6, <2>8, TwoQueuesChange
    <2>10. Holding' = Holding \cup {b[i] : i \in DOMAIN b}
      BY <2>1, <2>7, <2>9 DEF Holding
    <2>11. Accounted'
      BY <1>1, <2>10, NewCallsHeld
    <2>. QED BY <2>9, <2>11 DEF HeldInv
  <1>. QED BY <1>4, <1>5

------------------------------------------------------------------------------
(* readyHandler: what it replays, under the names its definition uses.       *)

ReplayFirst == Resend(Unfulfilled, condition.select)
ReplayStays == ~StreamWritable /\ EnableOfflineQueue
ReplayWaiting == IF ReplayStays THEN offlineQueue \o ReplayFirst ELSE offlineQueue
ReplaySecond == Resend(ReplayWaiting, DbAfter(Unfulfilled, condition.select))
ReplayLast ==
  LET afterAll == DbAfter(ReplayWaiting, DbAfter(Unfulfilled, condition.select))
      finalSelect == IF prevSelect = NoDb THEN condition.select ELSE prevSelect
  IN  IF afterAll = finalSelect THEN <<>> ELSE <<SelectItem(finalSelect, afterAll)>>
ReplayQuits == ReplayStays /\ ReplaySecond # <<>> /\ Head(ReplaySecond).name = "quit"
ReplayAll == ReplayFirst \o ReplaySecond \o ReplayLast

\* The ways readyHandler can go: everything is written, or it stays offline (but for a
\* QUIT, which is answered), or it is rejected.
ReplayWritten ==
  /\ commandQueue' = commandQueue \o ReplayAll /\ sent' = sent \o ReplayAll
  /\ ~ReplayStays /\ offlineQueue' = <<>> /\ outcome' = outcome
ReplayKept ==
  /\ UNCHANGED <<commandQueue, sent, outcome>>
  /\ ReplayStays /\ offlineQueue' = ReplaySecond \o ReplayLast
ReplayQuit ==
  /\ UNCHANGED <<commandQueue, sent>>
  /\ ReplayStays /\ ReplaySecond # <<>> /\ Head(ReplaySecond).name = "quit"
  /\ offlineQueue' = Tail(ReplaySecond) \o ReplayLast
  /\ outcome' = Settle({Head(ReplaySecond).cmd}, "ok")
ReplayRejected ==
  /\ UNCHANGED <<commandQueue, sent>>
  /\ ~ReplayStays /\ offlineQueue' = <<>> /\ outcome' = Settle(Callers(ReplayAll), "error")

\* BecomeReady goes one of these ways.
LEMMA ReplayWays ==
  ASSUME BecomeReady
  PROVE  /\ status = "connect" /\ status' = "ready" /\ socket' = socket
         /\ prevCommandQueue' = <<>> /\ queueShared' = queueShared
         /\ UNCHANGED <<replies, runs>>
         /\ ReplayWritten \/ ReplayKept \/ ReplayQuit \/ ReplayRejected
PROOF
  <1>1. /\ status = "connect" /\ status' = "ready" /\ socket' = socket
        /\ prevCommandQueue' = <<>> /\ queueShared' = queueShared /\ UNCHANGED <<replies, runs>>
    BY Zenon DEF BecomeReady, IsActiveConnect, ReadyHandler, ContinuationFrame
  <1>2. IF StreamWritable
        THEN Write(ReplayAll) /\ offlineQueue' = <<>> /\ outcome' = outcome
        ELSE /\ UNCHANGED <<commandQueue, sent>>
             /\ offlineQueue' = (IF ReplayQuits THEN Tail(ReplaySecond) \o ReplayLast
                                 ELSE IF ReplayStays THEN ReplaySecond \o ReplayLast ELSE <<>>)
             /\ outcome' = (IF ReplayQuits THEN Settle({Head(ReplaySecond).cmd}, "ok")
                            ELSE IF ReplayStays THEN outcome ELSE Settle(Callers(ReplayAll), "error"))
    <2>1. ReadyHandler(Tail(microtasks))
      BY Zenon DEF BecomeReady
    <2>. QED BY <2>1, Zenon DEF ReadyHandler, ReplayAll, ReplayFirst, ReplayQuits,
                                ReplaySecond, ReplayWaiting, ReplayLast, ReplayStays
  <1>3. CASE StreamWritable
    BY <1>1, <1>2, <1>3, Zenon DEF Write, ReplayWritten, ReplayStays
  <1>4. CASE ~StreamWritable /\ ReplayQuits
    <2>1. ReplayStays /\ ReplaySecond # <<>> /\ Head(ReplaySecond).name = "quit"
      BY <1>4, Zenon DEF ReplayQuits
    <2>. QED BY <1>1, <1>2, <1>4, <2>1, Zenon DEF ReplayQuit
  <1>5. CASE ~StreamWritable /\ ~ReplayQuits /\ ReplayStays
    BY <1>1, <1>2, <1>5, Zenon DEF ReplayKept
  <1>6. CASE ~StreamWritable /\ ~ReplayQuits /\ ~ReplayStays
    BY <1>1, <1>2, <1>6, Zenon DEF ReplayRejected
  <1>. QED BY <1>1, <1>3, <1>4, <1>5, <1>6, Zenon

\* What it replays: each command of the offline queue, and each that the last connection
\* left unanswered when the option asks for it, once.
LEMMA ReplayFacts ==
  ASSUME Sound, status = "connect"
  PROVE  /\ ReplayFirst \in Seq(NamedItem) /\ Once(ReplayFirst) /\ Callers(ReplayFirst) = Callers(Unfulfilled)
         /\ ReplaySecond \in Seq(NamedItem) /\ Once(ReplaySecond)
         /\ Callers(ReplaySecond) =
              Callers(offlineQueue) \cup (IF ReplayStays THEN Callers(Unfulfilled) ELSE {})
         /\ ReplayLast \in Seq(NamedItem) /\ Once(ReplayLast) /\ Callers(ReplayLast) = {}
         /\ Callers(Unfulfilled) \subseteq Callers(prevCommandQueue)
         /\ AutoResend => Callers(Unfulfilled) = Callers(prevCommandQueue)
         /\ ~AutoResend => Callers(Unfulfilled) = {}
PROOF
  <1> USE DEF Sound
  <1>1. PrevHeld = prevCommandQueue
    BY OpenNotShared
  <1>2. /\ prevCommandQueue \in Seq(NamedItem) /\ Once(prevCommandQueue)
        /\ offlineQueue \in Seq(NamedItem) /\ Once(offlineQueue) /\ offlineQueue \in Seq(Item)
        /\ Callers(offlineQueue) \cap Callers(prevCommandQueue) = {}
    BY <1>1 DEF HeldInv, QueueShapes, Apart, TypeOK, QueueTypes
  <1>3. /\ Unfulfilled \in Seq(NamedItem) /\ Once(Unfulfilled)
        /\ Callers(Unfulfilled) \subseteq Callers(prevCommandQueue)
        /\ AutoResend => Callers(Unfulfilled) = Callers(prevCommandQueue)
        /\ ~AutoResend => Callers(Unfulfilled) = {}
    BY <1>2, NoItem DEF Unfulfilled
  <1>4. condition.select \in Dbs /\ (prevSelect = NoDb \/ prevSelect \in Dbs)
    BY DEF TypeOK, DatabaseTypes
  <1>5. ReplayFirst \in Seq(NamedItem) /\ Once(ReplayFirst) /\ Callers(ReplayFirst) = Callers(Unfulfilled)
    BY <1>3, <1>4, ResendFacts DEF ReplayFirst
  <1>6. Unfulfilled \in Seq(Item) /\ ReplayFirst \in Seq(Item)
    BY <1>3, <1>5 DEF NamedItem
  <1>7. DbAfter(Unfulfilled, condition.select) \in Dbs
    BY <1>4, <1>6, ResendType
  <1>8. /\ ReplayWaiting \in Seq(NamedItem) /\ Once(ReplayWaiting)
        /\ Callers(ReplayWaiting) = Callers(offlineQueue) \cup (IF ReplayStays THEN Callers(Unfulfilled) ELSE {})
    <2>1. CASE ReplayStays
      <3>1. ReplayWaiting = offlineQueue \o ReplayFirst
        BY <2>1 DEF ReplayWaiting
      <3>2. Callers(offlineQueue) \cap Callers(ReplayFirst) = {}
        BY <1>2, <1>3, <1>5
      <3>3. Once(ReplayWaiting)
        BY <1>2, <1>5, <1>6, <3>1, <3>2, OnceConcat
      <3>4. Callers(ReplayWaiting) = Callers(offlineQueue) \cup Callers(ReplayFirst)
        BY <1>2, <1>6, <3>1, CallersConcat
      <3>. QED BY <1>2, <1>5, <2>1, <3>1, <3>3, <3>4
    <2>2. CASE ~ReplayStays
      BY <1>2, <2>2 DEF ReplayWaiting
    <2>. QED BY <2>1, <2>2
  <1>9. ReplaySecond \in Seq(NamedItem) /\ Once(ReplaySecond) /\ Callers(ReplaySecond) = Callers(ReplayWaiting)
    BY <1>7, <1>8, ResendFacts DEF ReplaySecond
  <1>10. ReplayLast \in Seq(NamedItem) /\ Once(ReplayLast) /\ Callers(ReplayLast) = {}
    <2> DEFINE
      afterAll == DbAfter(ReplayWaiting, DbAfter(Unfulfilled, condition.select))
      finalSelect == IF prevSelect = NoDb THEN condition.select ELSE prevSelect
      x == SelectItem(finalSelect, afterAll)
    <2>1. ReplayWaiting \in Seq(Item)
      BY <1>8 DEF NamedItem
    <2>2. afterAll \in Dbs /\ finalSelect \in Dbs
      BY <1>4, <1>7, <2>1, ResendType
    <2> HIDE DEF afterAll, finalSelect
    <2>3. x \in Item /\ x.cmd = NoCmd
      BY <2>2, HandshakeItemTypes DEF SelectItem, Internal
    <2>4. x \in NamedItem
      BY <2>3 DEF NamedItem
    <2>5. ReplayLast = <<>> \/ ReplayLast = <<x>>
      BY DEF ReplayLast, afterAll, finalSelect
    <2> HIDE DEF x
    <2>. QED BY <2>3, <2>4, <2>5, OneItem, NoItem
  <1>. QED BY <1>3, <1>5, <1>8, <1>9, <1>10

\* Put together, they hold each of these commands once.
LEMMA ReplayAllFacts ==
  ASSUME Sound, status = "connect"
  PROVE  /\ ReplaySecond \o ReplayLast \in Seq(NamedItem) /\ Once(ReplaySecond \o ReplayLast)
         /\ Callers(ReplaySecond \o ReplayLast) = Callers(ReplaySecond)
         /\ ~ReplayStays => /\ ReplayAll \in Seq(NamedItem) /\ Once(ReplayAll)
                            /\ Callers(ReplayAll) = Callers(offlineQueue) \cup Callers(Unfulfilled)
PROOF
  <1> DEFINE rest == ReplaySecond \o ReplayLast
  <1>1. /\ ReplayFirst \in Seq(NamedItem) /\ Once(ReplayFirst) /\ Callers(ReplayFirst) = Callers(Unfulfilled)
        /\ ReplaySecond \in Seq(NamedItem) /\ Once(ReplaySecond)
        /\ Callers(ReplaySecond) =
              Callers(offlineQueue) \cup (IF ReplayStays THEN Callers(Unfulfilled) ELSE {})
        /\ ReplayLast \in Seq(NamedItem) /\ Once(ReplayLast) /\ Callers(ReplayLast) = {}
        /\ Callers(Unfulfilled) \subseteq Callers(prevCommandQueue)
    BY ReplayFacts
  <1>2. ReplayFirst \in Seq(Item) /\ ReplaySecond \in Seq(Item) /\ ReplayLast \in Seq(Item)
    BY <1>1 DEF NamedItem
  <1>3. Callers(ReplaySecond) \cap Callers(ReplayLast) = {}
    BY <1>1
  <1>4. Once(rest)
    BY <1>1, <1>2, <1>3, OnceConcat
  <1>5. rest \in Seq(Item) /\ Callers(rest) = Callers(ReplaySecond) \cup Callers(ReplayLast)
    BY <1>2, CallersConcat
  <1>6. rest \in Seq(NamedItem)
    BY <1>1
  <1>7. ASSUME ~ReplayStays
        PROVE  /\ ReplayAll \in Seq(NamedItem) /\ Once(ReplayAll)
               /\ Callers(ReplayAll) = Callers(offlineQueue) \cup Callers(Unfulfilled)
    <2>1. ReplayAll = ReplayFirst \o rest
      BY <1>2, ConcatAssociative DEF ReplayAll
    <2>2. PrevHeld = prevCommandQueue
      BY OpenNotShared
    <2>3. Callers(offlineQueue) \cap Callers(prevCommandQueue) = {}
      BY <2>2 DEF Sound, HeldInv, Apart
    <2> HIDE DEF rest
    <2>4. Callers(ReplayFirst) \cap Callers(rest) = {}
      BY <1>1, <1>5, <1>7, <2>3
    <2>5. Once(ReplayAll)
      BY <1>1, <1>2, <1>4, <1>5, <2>1, <2>4, OnceConcat
    <2>6. Callers(ReplayAll) = Callers(ReplayFirst) \cup Callers(rest)
      BY <1>2, <1>5, <2>1, CallersConcat
    <2>7. ReplayAll \in Seq(NamedItem)
      BY <1>1, <1>6, <2>1
    <2>. QED BY <1>1, <1>5, <1>7, <2>5, <2>6, <2>7
  <1>. QED BY <1>1, <1>4, <1>5, <1>6, <1>7

\* readyHandler keeps the invariant, whichever way it goes.
LEMMA BecomeReadyKeepsHeld ==
  ASSUME Sound, BecomeReady
  PROVE  HeldInv'
PROOF
  <1>1. /\ status = "connect" /\ status' = "ready" /\ socket' = socket
        /\ prevCommandQueue' = <<>> /\ queueShared' = queueShared
        /\ ReplayWritten \/ ReplayKept \/ ReplayQuit \/ ReplayRejected
    BY ReplayWays
  <1>2. ~queueShared /\ PrevHeld = prevCommandQueue
    BY <1>1, OpenNotShared
  <1>3. ~queueShared' /\ PrevHeld' = <<>>
    BY <1>1, <1>2, Zenon DEF PrevHeld
  <1>4. /\ commandQueue \in Seq(NamedItem) /\ commandQueue \in Seq(Item) /\ Once(commandQueue)
        /\ Callers(offlineQueue) \cap Callers(commandQueue) = {}
        /\ Callers(commandQueue) \cap Callers(prevCommandQueue) = {}
        /\ Holding = Callers(offlineQueue) \cup Callers(commandQueue) \cup Callers(prevCommandQueue)
    BY <1>2 DEF Sound, HeldInv, QueueShapes, Apart, TypeOK, QueueTypes, Holding
  <1>5. /\ ReplaySecond \in Seq(NamedItem) /\ Once(ReplaySecond)
        /\ Callers(ReplaySecond) =
             Callers(offlineQueue) \cup (IF ReplayStays THEN Callers(Unfulfilled) ELSE {})
        /\ ReplayLast \in Seq(NamedItem) /\ Once(ReplayLast) /\ Callers(ReplayLast) = {}
        /\ Callers(Unfulfilled) \subseteq Callers(prevCommandQueue)
        /\ AutoResend => Callers(Unfulfilled) = Callers(prevCommandQueue)
    BY <1>1, ReplayFacts
  <1>6. /\ ReplaySecond \o ReplayLast \in Seq(NamedItem) /\ Once(ReplaySecond \o ReplayLast)
        /\ Callers(ReplaySecond \o ReplayLast) = Callers(ReplaySecond)
        /\ ~ReplayStays => /\ ReplayAll \in Seq(NamedItem) /\ Once(ReplayAll)
                           /\ Callers(ReplayAll) = Callers(offlineQueue) \cup Callers(Unfulfilled)
    BY <1>1, ReplayAllFacts
  <1>7. <<>> \in Seq(NamedItem) /\ Once(<<>>) /\ Callers(<<>>) = {}
    BY NoItem
  <1>8. Callers(prevCommandQueue) \subseteq Commands /\ Callers(offlineQueue) \subseteq Commands
    BY CallersAreCommands DEF Sound, TypeOK, QueueTypes
  \* What remains to be shown on each way.
  <1> DEFINE Kept ==
    /\ offlineQueue' \in Seq(NamedItem) /\ commandQueue' \in Seq(NamedItem)
    /\ Once(offlineQueue') /\ Once(commandQueue')
    /\ Callers(offlineQueue') \cap Callers(commandQueue') = {}
    /\ Holding' \subseteq Holding /\ AccountsKept /\ OutcomesSettle
  <1>9. ASSUME Kept PROVE HeldInv'
    <2>1. QueueShapes' /\ Apart'
      BY <1>1, <1>3, <1>7, <1>9 DEF QueueShapes, Apart
    <2>2. Accounted'
      BY <1>9, LosingKeepsAccounts DEF Sound, HeldInv
    <2>. QED BY <2>1, <2>2 DEF HeldInv
  <1>10. CASE ReplayWritten
    <2>1. commandQueue' = commandQueue \o ReplayAll /\ offlineQueue' = <<>> /\ outcome' = outcome /\ ~ReplayStays
      BY <1>10 DEF ReplayWritten
    <2>2. ReplayAll \in Seq(Item) /\ Callers(commandQueue) \cap Callers(ReplayAll) = {}
      BY <1>4, <1>5, <1>6, <2>1 DEF NamedItem
    <2>3. Once(commandQueue')
      BY <1>4, <1>6, <2>1, <2>2, OnceConcat
    <2>4. Callers(commandQueue') = Callers(commandQueue) \cup Callers(offlineQueue) \cup Callers(Unfulfilled)
      <3>1. Callers(commandQueue') = Callers(commandQueue) \cup Callers(ReplayAll)
        BY <1>4, <2>1, <2>2, CallersConcat
      <3>. QED BY <1>6, <2>1, <3>1
    <2>5. Holding' \subseteq Holding /\ (AutoResend => Holding' = Holding)
      BY <1>3, <1>4, <1>5, <1>7, <2>1, <2>4 DEF Holding
    <2>6. AccountsKept /\ OutcomesSettle
      BY <2>1, <2>5 DEF AccountsKept, OutcomesSettle
    <2>7. commandQueue' \in Seq(NamedItem)
      BY <1>4, <1>6, <2>1
    <2>. QED BY <1>7, <1>9, <2>1, <2>3, <2>5, <2>6, <2>7
  <1>11. CASE ReplayKept
    <2>1. commandQueue' = commandQueue /\ offlineQueue' = ReplaySecond \o ReplayLast /\ outcome' = outcome /\ ReplayStays
      BY <1>11 DEF ReplayKept
    <2>2. Callers(offlineQueue') = Callers(offlineQueue) \cup Callers(Unfulfilled)
      BY <1>5, <1>6, <2>1
    <2>3. Holding' \subseteq Holding /\ (AutoResend => Holding' = Holding)
      BY <1>3, <1>4, <1>5, <1>7, <2>1, <2>2 DEF Holding
    <2>4. AccountsKept /\ OutcomesSettle
      BY <2>1, <2>3 DEF AccountsKept, OutcomesSettle
    <2>. QED BY <1>4, <1>5, <1>6, <1>9, <2>1, <2>2, <2>3, <2>4
  <1>12. CASE ReplayQuit
    <2> DEFINE rest == Tail(ReplaySecond)
    <2>1. /\ commandQueue' = commandQueue /\ offlineQueue' = rest \o ReplayLast /\ ReplayStays
          /\ ReplaySecond # <<>> /\ outcome' = Settle({Head(ReplaySecond).cmd}, "ok")
      BY <1>12 DEF ReplayQuit
    <2>2. ReplaySecond \in Seq(Item) /\ ReplayLast \in Seq(Item)
      BY <1>5 DEF NamedItem
    <2>3. /\ rest \in Seq(Item) /\ rest \in Seq(NamedItem) /\ Once(rest)
          /\ Callers(ReplaySecond) = Callers(rest) \cup ({Head(ReplaySecond).cmd} \ {NoCmd})
          /\ Head(ReplaySecond).cmd \notin Callers(rest)
      BY <1>5, <2>1, <2>2, TailFacts
    <2> HIDE DEF rest
    <2>4. Once(offlineQueue')
      <3>1. Callers(rest) \cap Callers(ReplayLast) = {}
        BY <1>5
      <3>. QED BY <1>5, <2>1, <2>2, <2>3, <3>1, OnceConcat
    <2>5. Callers(offlineQueue') = Callers(rest)
      <3>1. Callers(offlineQueue') = Callers(rest) \cup Callers(ReplayLast)
        BY <2>1, <2>2, <2>3, CallersConcat
      <3>. QED BY <1>5, <3>1
    <2>6. offlineQueue' \in Seq(NamedItem)
      BY <1>5, <2>1, <2>3
    <2>7. Callers(ReplaySecond) = Callers(offlineQueue) \cup Callers(Unfulfilled)
      BY <1>5, <2>1
    <2>8. /\ Holding' \subseteq Holding
          /\ AutoResend => Holding \ Holding' \subseteq {Head(ReplaySecond).cmd}
          /\ \A c \in Commands : c = Head(ReplaySecond).cmd => c \notin Holding'
      BY CommandsAssumption, <1>3, <1>4, <1>5, <1>7, <2>1, <2>3, <2>5, <2>7 DEF Holding
    <2>9. /\ OutcomesSettle
          /\ \A c \in Commands : c \in {Head(ReplaySecond).cmd} => outcome'[c] # "pending"
          /\ \A c \in Commands : c \notin {Head(ReplaySecond).cmd} => outcome'[c] = outcome[c]
      BY <2>1, SettleFacts
    <2>10. Holding \subseteq Commands
      <3>1. Callers(commandQueue) \subseteq Commands
        BY <1>4, CallersAreCommands
      <3>. QED BY <1>4, <1>8, <3>1
    <2>11. AccountsKept
      BY <2>8, <2>9, <2>10 DEF AccountsKept
    <2>12. Callers(offlineQueue') \cap Callers(commandQueue') = {}
      BY <1>4, <1>5, <2>1, <2>3, <2>5, <2>7
    <2>. QED BY <1>4, <1>9, <2>1, <2>4, <2>6, <2>8, <2>9, <2>11, <2>12
  <1>13. CASE ReplayRejected
    <2>1. /\ commandQueue' = commandQueue /\ offlineQueue' = <<>> /\ ~ReplayStays
          /\ outcome' = Settle(Callers(ReplayAll), "error")
      BY <1>13 DEF ReplayRejected
    <2>2. OutcomesSettle /\ NoneDone /\ \A c \in Commands : c \in Callers(ReplayAll) => outcome'[c] # "pending"
      BY <2>1, SettleFacts
    <2>3. /\ Holding' \subseteq Holding
          /\ AutoResend => Holding \ Holding' \subseteq Callers(ReplayAll)
      BY <1>3, <1>4, <1>5, <1>6, <1>7, <2>1 DEF Holding
    <2>4. AutoResend => Callers(ReplayAll) \subseteq Commands
      BY <1>5, <1>6, <1>8, <2>1
    <2>5. AccountsKept
      BY <2>2, <2>3, <2>4 DEF AccountsKept, NoneDone
    <2>. QED BY <1>4, <1>7, <1>9, <2>1, <2>2, <2>3, <2>5
  <1>. QED BY <1>1, <1>10, <1>11, <1>12, <1>13

------------------------------------------------------------------------------
(* HeldOnce.                                                                 *)

\* A new client holds nothing.
LEMMA HeldInit == Init => HeldInv
PROOF
  <1> SUFFICES ASSUME Init PROVE HeldInv
    OBVIOUS
  <1>1. /\ offlineQueue = <<>> /\ commandQueue = <<>> /\ prevCommandQueue = <<>>
        /\ socket = "none" /\ status # "ready" /\ \A c \in Commands : outcome[c] = "idle"
    BY DEF Init
  <1>2. ~queueShared /\ PrevHeld = <<>>
    BY Zenon DEF Init, PrevHeld
  <1>3. <<>> \in Seq(NamedItem) /\ <<>> \in Seq(HandshakeItem) /\ Once(<<>>) /\ Callers(<<>>) = {}
    BY NoItem
  <1>. QED BY <1>1, <1>2, <1>3 DEF HeldInv, QueueShapes, Apart, Accounted, Holding

\* The invariant is inductive: one case per action.
LEMMA HeldKeeps ==
  ASSUME Sound, [Next]_vars
  PROVE  HeldInv'
PROOF
  <1>1. CASE Application
    <2>1. CASE Connect
      BY <2>1, CallsKeepHeld
    <2>2. ASSUME NEW reconnect \in BOOLEAN, Disconnect(reconnect) PROVE HeldInv'
      BY <2>2, CallsKeepHeld, EndingsKeepHeld
    <2>3. ASSUME NEW b \in Batches,
                 IssueWritten(b) \/ IssueQueued(b) \/ IssueQuitOffline(b) \/ IssueRefused(b)
          PROVE  HeldInv'
      BY <2>3, CallsKeepHeld, IssueKeepsHeld
    <2>. QED BY <1>1, <2>1, <2>2, <2>3 DEF Application
  <1>2. CASE Continuation
    BY <1>2, OthersKeepHeld, HandshakeKeepsHeld, BecomeReadyKeepsHeld, EndingsKeepHeld DEF Continuation
  <1>3. CASE \/ ReconnectTimer \/ CreateSocket \/ ServerHandshake \/ ServerCommand
             \/ (\E c \in Commands : TimeOut(c)) \/ UNCHANGED vars
    BY <1>3, OthersKeepHeld
  <1>4. CASE AbortConnecting \/ StreamClosed \/ StreamLost
    BY <1>4, EndingsKeepHeld
  <1>5. CASE ConnectHandler
    BY <1>5, ConnectHandlerKeepsHeld
  <1>6. CASE LoadingTimer
    BY <1>6, HandshakeKeepsHeld
  <1>7. CASE ReturnReply \/ ReturnError \/ ReturnFatalError
    BY <1>7, ReturnReplyKeepsHeld, ReturnErrorKeepsHeld, ReturnFatalErrorKeepsHeld
  <1>. QED
    BY <1>1, <1>2, <1>3, <1>4, <1>5, <1>6, <1>7 DEF Next, System

\* All the invariants hold in every reachable state.
LEMMA SoundInvariant == Spec => []Sound
PROOF
  <1>1. Init => ReplyInv
    BY DEF Init, ReplyInv, RepliesMatchQueue
  <1>2. TypeOK /\ LifecycleInv /\ ReplyInv /\ [Next]_vars => ReplyInv'
    BY NextKeeps
  <1>3. TypeOK /\ LifecycleInv /\ ReplyInv /\ HeldInv /\ [Next]_vars => HeldInv'
    BY HeldKeeps DEF Sound
  <1>4. TypeOK /\ LifecycleInv /\ ReplyInv /\ HeldInv => Sound
    BY DEF Sound
  <1>. QED
    BY <1>1, <1>2, <1>3, <1>4, HeldInit, TypeTheorem, LifecycleInvariant, PTL DEF Spec

\* The three queues put together hold each command once.
LEMMA SoundHeldOnce == Sound => HeldOnce
PROOF
  <1> SUFFICES ASSUME Sound PROVE HeldOnce
    OBVIOUS
  <1> USE DEF Sound
  <1>1. /\ offlineQueue \in Seq(Item) /\ commandQueue \in Seq(Item) /\ PrevHeld \in Seq(Item)
        /\ Once(offlineQueue) /\ Once(commandQueue) /\ Once(PrevHeld)
        /\ Callers(offlineQueue) \cap Callers(commandQueue) = {}
        /\ Callers(offlineQueue) \cap Callers(PrevHeld) = {}
        /\ Callers(commandQueue) \cap Callers(PrevHeld) = {}
    BY NoItem DEF HeldInv, Apart, TypeOK, QueueTypes, PrevHeld
  <1> DEFINE two == offlineQueue \o commandQueue
  <1>2. Once(two)
    BY <1>1, OnceConcat
  <1>3. two \in Seq(Item) /\ Callers(two) = Callers(offlineQueue) \cup Callers(commandQueue)
    BY <1>1, CallersConcat
  <1> HIDE DEF two
  <1>4. Callers(two) \cap Callers(PrevHeld) = {}
    BY <1>1, <1>3
  <1>5. Held = two \o PrevHeld
    BY <1>1, ConcatAssociative DEF Held, two, PrevHeld
  <1>6. Once(Held)
    BY <1>1, <1>2, <1>3, <1>4, <1>5, OnceConcat
  <1>7. Callers(Held) = Holding
    BY <1>1, <1>3, <1>5, CallersConcat DEF Holding
  <1>8. AutoResend => \A c \in Commands :
          outcome[c] = "pending" /\ Name[c] \notin HandshakeCommands => c \in Callers(Held)
    BY <1>7 DEF HeldInv, Accounted
  <1>9. \A i, j \in DOMAIN Held : Held[i].cmd # NoCmd /\ i # j => Held[i].cmd # Held[j].cmd
    BY <1>6 DEF Once
  <1>. QED BY <1>8, <1>9 DEF HeldOnce

\* A command whose caller still waits is in one of the three queues, and in one place
\* only, through every loss, replay and flush (closeHandler, resetCommandQueue,
\* readyHandler, handleReconnection).
THEOREM HeldOnceTheorem == Spec => []HeldOnce
PROOF
  BY SoundInvariant, SoundHeldOnce, PTL

------------------------------------------------------------------------------
(* AtMostOnce.                                                               *)

\* The commands the server refused, among the replies of r.
Errors(r) == {r[i].item.cmd : i \in {j \in DOMAIN r : r[j].reply = "error"}} \ {NoCmd}

\* The commands that may still be run, or sent, on the connections to come.
Waiting == Callers(sent) \cup Callers(offlineQueue) \cup Errors(replies)

\* A command that may still be run was not run, and is in one of the three places.
RunsOnce ==
  /\ Once(sent)
  /\ Callers(sent) \cap Callers(offlineQueue) = {}
  /\ Callers(sent) \cap Errors(replies) = {}
  /\ Callers(offlineQueue) \cap Errors(replies) = {}
  /\ \A c \in Commands : runs[c] <= 1 /\ (outcome[c] = "idle" => runs[c] = 0)
  /\ \A c \in Waiting : runs[c] = 0 /\ outcome[c] # "idle"

\* With the commands of a lost connection resent there is no such bound.
RunInv == ~AutoResend => RunsOnce

\* Nobody is un-issued.
NoNewIdle == \A c \in Commands : outcome'[c] = "idle" => outcome[c] = "idle"

\* Commands may move among the three places.
LEMMA WaitingMoves ==
  ASSUME RunsOnce, Waiting \subseteq Commands, runs' = runs, NoNewIdle, Once(sent'),
         Callers(sent') \cap Callers(offlineQueue') = {},
         Callers(sent') \cap Errors(replies') = {},
         Callers(offlineQueue') \cap Errors(replies') = {},
         Callers(sent') \subseteq Waiting, Callers(offlineQueue') \subseteq Waiting,
         Errors(replies') \subseteq Waiting
  PROVE  RunsOnce'
PROOF
  <1>1. Waiting' \subseteq Waiting
    BY DEF Waiting
  <1>. QED BY <1>1 DEF RunsOnce, NoNewIdle

\* Commands may leave their places.
LEMMA WaitingShrinks ==
  ASSUME RunsOnce, Waiting \subseteq Commands, runs' = runs, NoNewIdle, Once(sent'),
         Callers(sent') \subseteq Callers(sent), Callers(offlineQueue') \subseteq Callers(offlineQueue),
         Errors(replies') \subseteq Errors(replies)
  PROVE  RunsOnce'
PROOF
  <1>1. /\ Callers(sent') \cap Callers(offlineQueue') = {}
        /\ Callers(sent') \cap Errors(replies') = {}
        /\ Callers(offlineQueue') \cap Errors(replies') = {}
    BY DEF RunsOnce
  <1>2. /\ Callers(sent') \subseteq Waiting /\ Callers(offlineQueue') \subseteq Waiting
        /\ Errors(replies') \subseteq Waiting
    BY DEF Waiting
  <1>. QED BY <1>1, <1>2, WaitingMoves

\* The refused commands are commands.
LEMMA WaitingType ==
  ASSUME TypeOK
  PROVE  Waiting \subseteq Commands
PROOF
  <1>1. Errors(replies) \subseteq Commands
    <2>1. replies \in Seq(Reply)
      BY DEF TypeOK, WireTypes
    <2>2. \A i \in DOMAIN replies : replies[i] \in Reply
      BY <2>1
    <2>3. \A x \in Reply : x.item.cmd \in Commands \cup {NoCmd}
      BY DEF Reply, Item
    <2>. QED BY <2>2, <2>3 DEF Errors
  <1>. QED BY <1>1, CallersAreCommands DEF Waiting, TypeOK, QueueTypes, WireTypes

\* A reply that is read is no longer among the replies.
LEMMA ErrorsTail ==
  ASSUME NEW r \in Seq(Reply), r # <<>>
  PROVE  Errors(Tail(r)) \subseteq Errors(r)
PROOF
  <1>1. /\ Len(Tail(r)) = Len(r) - 1 /\ Tail(r) \in Seq(Reply)
        /\ \A i \in 1..Len(Tail(r)) : Tail(r)[i] = r[i + 1]
    BY HeadTailProperties
  <1>2. \A i \in DOMAIN Tail(r) : i + 1 \in DOMAIN r /\ Tail(r)[i] = r[i + 1]
    BY <1>1
  <1>. QED BY <1>2 DEF Errors

\* A reply that is added adds its command if it is an error.
LEMMA ErrorsAppend ==
  ASSUME NEW r \in Seq(Reply), NEW x \in Reply
  PROVE  /\ Errors(Append(r, x)) \subseteq Errors(r) \cup ({x.item.cmd} \ {NoCmd})
         /\ x.reply # "error" => Errors(Append(r, x)) \subseteq Errors(r)
PROOF
  <1>1. DOMAIN Append(r, x) = 1..(Len(r) + 1) /\ DOMAIN r = 1..Len(r) /\ Len(r) \in Nat
    OBVIOUS
  <1>2. \A i \in DOMAIN Append(r, x) :
          \/ i \in DOMAIN r /\ Append(r, x)[i] = r[i]
          \/ Append(r, x)[i] = x
    BY <1>1
  <1>. QED BY <1>2 DEF Errors

\* The steps that touch neither the wire nor the offline queue.
LEMMA RunsStable ==
  ASSUME Sound, RunsOnce, UNCHANGED <<sent, replies, offlineQueue, runs>>, NoNewIdle
  PROVE  RunsOnce'
PROOF
  <1>1. Waiting \subseteq Commands
    BY WaitingType DEF Sound
  <1>2. Once(sent')
    BY DEF RunsOnce
  <1>. QED BY <1>1, <1>2, WaitingShrinks

\* Those steps, and the replies that settle a caller.
LEMMA QuietKeepsRuns ==
  ASSUME Sound, RunsOnce,
         \/ Connect \/ \E b \in Batches : IssueQuitOffline(b) \/ IssueRefused(b)
         \/ \E reconnect \in BOOLEAN : Disconnect(reconnect) /\ status # "wait"
         \/ ReconnectTimer \/ CreateSocket \/ StaleContinuation \/ WrongRole \/ StillLoading
         \/ (\E c \in Commands : TimeOut(c)) \/ ReturnReply \/ ReturnFatalError \/ UNCHANGED vars
  PROVE  RunsOnce'
PROOF
  <1>1. CASE \/ Connect \/ \E reconnect \in BOOLEAN : Disconnect(reconnect) /\ status # "wait"
             \/ ReconnectTimer \/ CreateSocket \/ StaleContinuation \/ WrongRole \/ StillLoading
             \/ UNCHANGED vars
    <2>1. UNCHANGED <<sent, replies, offlineQueue, runs, outcome>>
      BY <1>1 DEF Connect, Disconnect, ReconnectTimer, CreateSocket, StaleContinuation, WrongRole,
                  NothingSent, ContinuationFrame, StillLoading, vars, queues, wire, history
    <2>2. NoNewIdle
      BY <2>1 DEF NoNewIdle
    <2>. QED BY <2>1, <2>2, RunsStable
  <1>2. ASSUME NEW b \in Batches, IssueQuitOffline(b) \/ IssueRefused(b) PROVE RunsOnce'
    <2>1. UNCHANGED <<sent, replies, offlineQueue, runs>>
      BY <1>2 DEF IssueQuitOffline, IssueRefused, queues, wire
    <2>2. NoNewIdle
      BY <1>2, ToldSettles DEF IssueQuitOffline, IssueRefused, OutcomesSettle, NoNewIdle
    <2>. QED BY <2>1, <2>2, RunsStable
  <1>3. ASSUME NEW c \in Commands, TimeOut(c) PROVE RunsOnce'
    <2>1. UNCHANGED <<sent, replies, offlineQueue, runs>>
      BY <1>3 DEF TimeOut, queues, wire
    <2>2. NoNewIdle
      BY <1>3 DEF TimeOut, NoNewIdle, Sound, TypeOK, HistoryTypes
    <2>. QED BY <2>1, <2>2, RunsStable
  <1>4. CASE ReturnFatalError
    <2>1. UNCHANGED <<sent, replies, offlineQueue, runs>> /\ outcome' = Settle(Callers(commandQueue), "error")
      BY <1>4 DEF ReturnFatalError, wire
    <2>2. NoNewIdle
      BY <2>1, SettleFacts DEF OutcomesSettle, NoNewIdle
    <2>. QED BY <2>1, <2>2, RunsStable
  <1>5. CASE ReturnReply
    <2>1. /\ UNCHANGED <<sent, offlineQueue, runs>> /\ replies' = Tail(replies) /\ replies # <<>>
          /\ outcome' = Settle({Head(commandQueue).cmd}, "ok")
      BY <1>5 DEF ReturnReply, ReplyArrives, ShiftCommand
    <2>2. NoNewIdle
      BY <2>1, SettleFacts DEF OutcomesSettle, NoNewIdle
    <2>3. Errors(replies') \subseteq Errors(replies)
      BY <2>1, ErrorsTail DEF Sound, TypeOK, WireTypes
    <2>4. Once(sent') /\ Waiting \subseteq Commands
      BY <2>1, WaitingType DEF Sound, RunsOnce
    <2>. QED BY <2>1, <2>2, <2>3, <2>4, WaitingShrinks
  <1>. QED BY <1>1, <1>2, <1>3, <1>4, <1>5

\* closeHandler only takes commands out of the offline queue.
LEMMA CloseHandlerLoses ==
  ASSUME Sound, NEW manual \in BOOLEAN, CloseHandler(manual)
  PROVE  Callers(offlineQueue') \subseteq Callers(offlineQueue) /\ NoNewIdle
PROOF
  <1> DEFINE oq == AbortTransactionFragments(offlineQueue)
  <1>1. offlineQueue' = <<>> \/ offlineQueue' = oq
    BY DEF CloseHandler
  <1>2. \E S : outcome' = Settle(S, "error")
    BY Zenon DEF CloseHandler
  <1>3. Callers(oq) \subseteq Callers(offlineQueue)
    BY KeepFacts DEF AbortTransactionFragments, Sound, HeldInv, Apart, TypeOK, QueueTypes
  <1> HIDE DEF oq
  <1>4. Callers(offlineQueue') \subseteq Callers(offlineQueue)
    BY <1>1, <1>3, NoItem
  <1>5. NoNewIdle
    BY <1>2, SettleFacts DEF OutcomesSettle, NoNewIdle
  <1>. QED BY <1>4, <1>5

\* The steps that end an attempt, a connection or its handshake.
LEMMA EndingsKeepRuns ==
  ASSUME Sound, RunsOnce,
         \/ AbortConnecting \/ HandshakeFailed \/ StreamClosed \/ StreamLost
         \/ \E reconnect \in BOOLEAN : Disconnect(reconnect) /\ status = "wait"
  PROVE  RunsOnce'
PROOF
  <1>0. Waiting \subseteq Commands /\ Once(sent)
    BY WaitingType DEF Sound, RunsOnce
  <1>1. CASE AbortConnecting \/ HandshakeFailed
    <2>1. /\ UNCHANGED <<sent, replies, runs>> /\ offlineQueue' = <<>>
          /\ \E S : outcome' = Settle(S, "error")
      BY <1>1, Zenon DEF AbortConnecting, HandshakeFailed, RecoverFromFatalError, FlushQueues,
                         ContinuationFrame, wire
    <2>2. NoNewIdle
      BY <2>1, SettleFacts DEF OutcomesSettle, NoNewIdle
    <2>3. Callers(offlineQueue') = {}
      BY <2>1, NoItem
    <2>. QED BY <1>0, <2>1, <2>2, <2>3, WaitingShrinks
  <1>2. CASE StreamClosed \/ StreamLost
    <2>1. CloseHandler(manuallyClosing) /\ sent' = <<>> /\ replies' = <<>> /\ runs' = runs
      BY <1>2 DEF StreamClosed, StreamLost, Close
    <2>2. manuallyClosing \in BOOLEAN
      BY DEF Sound, TypeOK, LifecycleTypes
    <2>3. Callers(offlineQueue') \subseteq Callers(offlineQueue) /\ NoNewIdle
      BY <2>1, <2>2, CloseHandlerLoses
    <2>4. Errors(replies') = {} /\ Once(sent') /\ Callers(sent') = {}
      BY <2>1, NoItem DEF Errors
    <2>. QED BY <1>0, <2>1, <2>3, <2>4, WaitingShrinks
  <1>3. ASSUME NEW reconnect \in BOOLEAN, Disconnect(reconnect), status = "wait"
        PROVE  RunsOnce'
    <2>1. CloseHandler(manuallyClosing \/ ~reconnect) /\ UNCHANGED <<sent, replies, runs>>
      BY <1>3 DEF Disconnect, wire
    <2>2. (manuallyClosing \/ ~reconnect) \in BOOLEAN
      OBVIOUS
    <2>3. Callers(offlineQueue') \subseteq Callers(offlineQueue) /\ NoNewIdle
      BY <2>1, <2>2, CloseHandlerLoses
    <2>. QED BY <1>0, <2>1, <2>3, WaitingShrinks
  <1>. QED BY <1>1, <1>2, <1>3

\* A handshake command is the client's own, wherever it goes.
LEMMA SendHandshakeKeepsRuns ==
  ASSUME Sound, RunsOnce, NEW item \in Item, item.cmd = NoCmd, NEW tasks, SendHandshake(item, tasks),
         UNCHANGED <<replies, runs, outcome>>
  PROVE  RunsOnce'
PROOF
  <1>1. \/ sent' = sent \o <<item>> /\ UNCHANGED offlineQueue
        \/ UNCHANGED sent /\ offlineQueue' = Append(offlineQueue, item)
        \/ UNCHANGED <<sent, offlineQueue>>
    BY Zenon DEF SendHandshake, Write
  <1>2. /\ sent \in Seq(Item) /\ offlineQueue \in Seq(Item) /\ Once(sent) /\ Once(offlineQueue)
    BY DEF Sound, TypeOK, WireTypes, QueueTypes, RunsOnce, HeldInv, Apart
  <1>3. Once(sent') /\ Callers(sent') = Callers(sent) /\ Callers(offlineQueue') = Callers(offlineQueue)
    BY <1>1, <1>2, AppendInternal
  <1>4. Waiting \subseteq Commands /\ NoNewIdle
    BY WaitingType DEF Sound, NoNewIdle
  <1>. QED BY <1>3, <1>4, WaitingShrinks

\* A new connection, and the continuations and the timer that send a handshake command.
LEMMA HandshakeKeepsRuns ==
  ASSUME Sound, RunsOnce, ConnectHandler \/ Downgrade \/ ReadyCheck \/ LoadingTimer
  PROVE  RunsOnce'
PROOF
  <1>1. HelloItem \in Item /\ HelloItem.cmd = NoCmd
    BY HandshakeItemTypes DEF Sound, HelloItem, Internal
  <1>2. \A e \in Nat : InfoItem(e) \in Item /\ InfoItem(e).cmd = NoCmd
    BY HandshakeItemTypes DEF Sound, InfoItem, Internal
  <1>3. CASE ConnectHandler
    <2>1. /\ socket = "opening" /\ UNCHANGED <<replies, runs, outcome>>
          /\ sent' = <<>> \/ sent' = <<HelloItem>>
          /\ offlineQueue' = Append(offlineQueue, HelloItem) \/ offlineQueue' = offlineQueue
      BY <1>3 DEF ConnectHandler, history
    <2>2. offlineQueue \in Seq(Item) /\ Once(offlineQueue)
      BY DEF Sound, TypeOK, QueueTypes, HeldInv, Apart
    <2>3. Once(sent') /\ Callers(sent') = {} /\ Callers(offlineQueue') = Callers(offlineQueue)
      BY <1>1, <2>1, <2>2, OneItem, NoItem, AppendInternal
    <2>4. Waiting \subseteq Commands /\ NoNewIdle
      BY <2>1, WaitingType DEF Sound, NoNewIdle
    <2>. QED BY <2>1, <2>3, <2>4, WaitingShrinks
  <1>4. CASE Downgrade
    <2>1. SendHandshake(HelloItem, Tail(microtasks)) /\ UNCHANGED <<replies, runs, outcome>>
      BY <1>4, Zenon DEF Downgrade, ContinuationFrame
    <2>. QED BY <1>1, <2>1, SendHandshakeKeepsRuns
  <1>5. CASE ReadyCheck
    <2>1. SendHandshake(InfoItem(epoch), Tail(microtasks)) /\ UNCHANGED <<replies, runs, outcome>>
      BY <1>5, Zenon DEF ReadyCheck, ContinuationFrame
    <2>2. epoch \in Nat
      BY DEF Sound, TypeOK, LifecycleTypes
    <2>. QED BY <1>2, <2>1, <2>2, SendHandshakeKeepsRuns
  <1>6. CASE LoadingTimer
    <2>1. PICK e \in loadingTimers : SendHandshake(InfoItem(e), <<>>)
      BY <1>6, Zenon DEF LoadingTimer
    <2>2. e \in Nat
      BY DEF Sound, TypeOK, LoopTypes
    <2>3. UNCHANGED <<replies, runs, outcome>>
      BY <1>6, Zenon DEF LoadingTimer, history
    <2>. QED BY <1>2, <2>1, <2>2, <2>3, SendHandshakeKeepsRuns
  <1>. QED BY <1>3, <1>4, <1>5, <1>6

\* readyHandler moves the offline queue to the wire; what the last connection left it drops.
LEMMA BecomeReadyKeepsRuns ==
  ASSUME Sound, RunsOnce, ~AutoResend, BecomeReady
  PROVE  RunsOnce'
PROOF
  <1>1. /\ status = "connect" /\ UNCHANGED <<replies, runs>>
        /\ ReplayWritten \/ ReplayKept \/ ReplayQuit \/ ReplayRejected
    BY ReplayWays
  <1>2. /\ ReplaySecond \in Seq(NamedItem) /\ Once(ReplaySecond) /\ Callers(Unfulfilled) = {}
        /\ Callers(ReplaySecond) =
             Callers(offlineQueue) \cup (IF ReplayStays THEN Callers(Unfulfilled) ELSE {})
        /\ ReplayLast \in Seq(NamedItem) /\ Callers(ReplayLast) = {}
    BY <1>1, ReplayFacts
  <1>3. /\ Callers(ReplaySecond \o ReplayLast) = Callers(ReplaySecond)
        /\ ~ReplayStays => /\ ReplayAll \in Seq(NamedItem) /\ Once(ReplayAll)
                           /\ Callers(ReplayAll) = Callers(offlineQueue) \cup Callers(Unfulfilled)
    BY <1>1, ReplayAllFacts
  <1>4. Waiting \subseteq Commands /\ sent \in Seq(Item) /\ Once(sent)
    BY WaitingType DEF Sound, TypeOK, WireTypes, RunsOnce
  <1>5. CASE ReplayWritten
    <2>1. sent' = sent \o ReplayAll /\ ~ReplayStays /\ offlineQueue' = <<>> /\ outcome' = outcome
      BY <1>5 DEF ReplayWritten
    <2>2. ReplayAll \in Seq(Item) /\ Once(ReplayAll) /\ Callers(ReplayAll) = Callers(offlineQueue)
      BY <1>2, <1>3, <2>1 DEF NamedItem
    <2>3. Callers(sent) \cap Callers(ReplayAll) = {}
      BY <2>2 DEF RunsOnce
    <2>4. Once(sent')
      BY <1>4, <2>1, <2>2, <2>3, OnceConcat
    <2>5. Callers(sent') = Callers(sent) \cup Callers(offlineQueue)
      <3>1. Callers(sent') = Callers(sent) \cup Callers(ReplayAll)
        BY <1>4, <2>1, <2>2, CallersConcat
      <3>. QED BY <2>2, <3>1
    <2>6. Callers(offlineQueue') = {} /\ NoNewIdle
      BY <2>1, NoItem DEF NoNewIdle
    <2>7. /\ Callers(sent') \cap Callers(offlineQueue') = {}
          /\ Callers(sent') \cap Errors(replies') = {}
          /\ Callers(offlineQueue') \cap Errors(replies') = {}
          /\ Callers(sent') \subseteq Waiting /\ Callers(offlineQueue') \subseteq Waiting
          /\ Errors(replies') \subseteq Waiting
      BY <1>1, <2>5, <2>6 DEF RunsOnce, Waiting
    <2>. QED BY <1>1, <1>4, <2>4, <2>6, <2>7, WaitingMoves
  <1>6. CASE ReplayKept \/ ReplayQuit \/ ReplayRejected
    <2>1. Callers(ReplaySecond) = Callers(offlineQueue)
      BY <1>2
    <2>2. Callers(offlineQueue') \subseteq Callers(offlineQueue)
      <3>1. CASE ReplayKept
        BY <1>3, <2>1, <3>1 DEF ReplayKept
      <3>2. CASE ReplayRejected
        BY <3>2, NoItem DEF ReplayRejected
      <3>3. CASE ReplayQuit
        <4>1. ReplaySecond # <<>> /\ offlineQueue' = Tail(ReplaySecond) \o ReplayLast
          BY <3>3 DEF ReplayQuit
        <4>2. ReplaySecond \in Seq(Item) /\ ReplayLast \in Seq(Item)
          BY <1>2 DEF NamedItem
        <4>3. Tail(ReplaySecond) \in Seq(Item) /\ Callers(Tail(ReplaySecond)) \subseteq Callers(ReplaySecond)
          BY <1>2, <4>1, <4>2, TailFacts
        <4>4. Callers(offlineQueue') = Callers(Tail(ReplaySecond)) \cup Callers(ReplayLast)
          BY <4>1, <4>2, <4>3, CallersConcat
        <4>. QED BY <1>2, <2>1, <4>3, <4>4
      <3>. QED BY <1>6, <3>1, <3>2, <3>3
    <2>3. sent' = sent
      BY <1>6 DEF ReplayKept, ReplayQuit, ReplayRejected
    <2>4. NoNewIdle
      BY <1>6, SettleFacts DEF ReplayKept, ReplayQuit, ReplayRejected, OutcomesSettle, NoNewIdle
    <2>. QED BY <1>1, <1>4, <2>2, <2>3, <2>4, WaitingShrinks
  <1>. QED BY <1>1, <1>5, <1>6

\* A call adds commands that nobody ran, to the wire or to the offline queue.
LEMMA IssueKeepsRuns ==
  ASSUME Sound, RunsOnce, NEW b \in Batches, IssueWritten(b) \/ IssueQueued(b)
  PROVE  RunsOnce'
PROOF
  <1> DEFINE fresh == {b[i] : i \in DOMAIN b}
  <1>1. /\ condition.select \in Dbs /\ CurrentDb \in Dbs
        /\ fresh \subseteq Commands /\ Issuable(b) /\ Told(b, "pending") /\ UNCHANGED <<replies, runs>>
    BY BatchDbTypes, ItemsOfFacts DEF IssueWritten, IssueQueued, Sound, wire
  <1>2. /\ \A sel \in Dbs : /\ ItemsOf(b, sel) \in Seq(NamedItem) /\ Once(ItemsOf(b, sel))
                            /\ Callers(ItemsOf(b, sel)) = fresh
    BY ItemsOfFacts DEF Sound
  <1>3. \A c \in fresh : outcome[c] = "idle"
    BY <1>1 DEF Issuable
  <1>4. fresh \cap Waiting = {}
    BY <1>3 DEF RunsOnce
  <1>5. \A c \in Commands : outcome'[c] = (IF c \in fresh THEN "pending" ELSE outcome[c])
    BY <1>1 DEF Told
  <1>6. /\ sent \in Seq(Item) /\ Once(sent) /\ offlineQueue \in Seq(Item) /\ Waiting \subseteq Commands
    BY WaitingType DEF Sound, TypeOK, WireTypes, QueueTypes, RunsOnce
  <1> HIDE DEF fresh
  <1>7. ASSUME Once(sent'),
               \/ Callers(sent') = Callers(sent) \cup fresh /\ Callers(offlineQueue') = Callers(offlineQueue)
               \/ Callers(sent') = Callers(sent) /\ Callers(offlineQueue') = Callers(offlineQueue) \cup fresh
        PROVE  RunsOnce'
    <2>1. /\ Callers(sent') \cap Callers(offlineQueue') = {}
          /\ Callers(sent') \cap Errors(replies') = {}
          /\ Callers(offlineQueue') \cap Errors(replies') = {}
      BY <1>1, <1>4, <1>7 DEF RunsOnce, Waiting
    <2>2. Waiting' = Waiting \cup fresh
      BY <1>1, <1>7 DEF Waiting
    <2>3. \A c \in Commands : runs'[c] <= 1 /\ (outcome'[c] = "idle" => runs'[c] = 0)
      BY <1>1, <1>5 DEF RunsOnce
    <2>4. \A c \in Waiting' : runs'[c] = 0 /\ outcome'[c] # "idle"
      BY <1>1, <1>3, <1>5, <1>6, <2>2 DEF RunsOnce
    <2>. QED BY <1>7, <2>1, <2>3, <2>4 DEF RunsOnce
  <1>8. CASE IssueWritten(b)
    <2> DEFINE new == ItemsOf(b, condition.select)
    <2>1. sent' = sent \o new /\ offlineQueue' = offlineQueue
      BY <1>8, Zenon DEF IssueWritten, Write
    <2>0. new \in Seq(NamedItem) /\ Once(new) /\ Callers(new) = fresh
      BY <1>1, <1>2
    <2> HIDE DEF new
    <2>2. new \in Seq(Item) /\ Once(new) /\ Callers(new) = fresh
      BY <2>0 DEF NamedItem
    <2>3. Callers(sent) \cap Callers(new) = {}
      BY <1>4, <2>2 DEF Waiting
    <2>4. Once(sent')
      BY <1>6, <2>1, <2>2, <2>3, OnceConcat
    <2>5. Callers(sent') = Callers(sent) \cup Callers(new)
      BY <1>6, <2>1, <2>2, CallersConcat
    <2>. QED BY <1>7, <2>1, <2>2, <2>4, <2>5
  <1>9. CASE IssueQueued(b)
    <2> DEFINE new == ItemsOf(b, CurrentDb)
    <2>1. offlineQueue' = offlineQueue \o new /\ sent' = sent
      BY <1>9, Zenon DEF IssueQueued, wire
    <2>0. new \in Seq(NamedItem) /\ Callers(new) = fresh
      BY <1>1, <1>2
    <2> HIDE DEF new
    <2>2. new \in Seq(Item) /\ Callers(new) = fresh
      BY <2>0 DEF NamedItem
    <2>3. Callers(offlineQueue') = Callers(offlineQueue) \cup Callers(new)
      BY <1>6, <2>1, <2>2, CallersConcat
    <2>4. Once(sent') /\ Callers(sent') = Callers(sent)
      BY <1>6, <2>1
    <2>. QED BY <1>7, <2>2, <2>3, <2>4
  <1>. QED BY <1>8, <1>9

\* The server runs a command or refuses it: in both cases it is no longer on the wire.
LEMMA ServerKeepsRuns ==
  ASSUME Sound, RunsOnce, ServerHandshake \/ ServerCommand
  PROVE  RunsOnce'
PROOF
  <1> DEFINE item == Head(sent)
  <1>1. /\ sent # <<>> /\ sent \in Seq(Item) /\ replies \in Seq(Reply) /\ Waiting \subseteq Commands
        /\ UNCHANGED <<offlineQueue, outcome>> /\ runs \in [Commands -> Nat]
    BY WaitingType DEF ServerHandshake, ServerCommand, ServerActive, ServerFrame, queues,
                       Sound, TypeOK, WireTypes, HistoryTypes
  <1>2. PICK reply \in RepliesTo(item) :
          /\ Answer(item, reply)
          /\ \/ runs' = runs
             \/ item.cmd # NoCmd /\ reply = "ok" /\ runs' = [runs EXCEPT ![item.cmd] = @ + 1]
    BY Zenon DEF ServerHandshake, ServerCommand
  <1>3. /\ item \in Item /\ sent' = Tail(sent) /\ Once(sent')
        /\ Callers(sent) = Callers(sent') \cup ({item.cmd} \ {NoCmd})
        /\ item.cmd \notin Callers(sent')
    BY <1>1, <1>2, TailFacts DEF Answer, RunsOnce
  <1> DEFINE x == [item |-> item, reply |-> reply]
  <1>4. x \in Reply /\ x.item = item /\ x.reply = reply /\ replies' = Append(replies, x)
    BY <1>2, <1>3 DEF Answer, Reply, RepliesTo
  <1> HIDE DEF item, x
  <1>5. /\ Errors(replies') \subseteq Errors(replies) \cup ({item.cmd} \ {NoCmd})
        /\ reply # "error" => Errors(replies') \subseteq Errors(replies)
    BY <1>1, <1>4, ErrorsAppend
  <1>6. /\ Callers(sent') \cap Callers(offlineQueue') = {}
        /\ Callers(sent') \cap Errors(replies') = {}
        /\ Callers(offlineQueue') \cap Errors(replies') = {}
    BY <1>1, <1>3, <1>5 DEF RunsOnce
  <1>7. /\ Callers(sent') \subseteq Waiting /\ Callers(offlineQueue') \subseteq Waiting
        /\ Errors(replies') \subseteq Waiting
    BY <1>1, <1>3, <1>5 DEF Waiting
  <1>8. CASE runs' = runs
    <2>1. NoNewIdle
      BY <1>1 DEF NoNewIdle
    <2>. QED BY <1>1, <1>3, <1>6, <1>7, <1>8, <2>1, WaitingMoves
  <1>9. CASE item.cmd # NoCmd /\ reply = "ok" /\ runs' = [runs EXCEPT ![item.cmd] = @ + 1]
    <2>1. item.cmd \in Waiting /\ item.cmd \in Commands
      BY <1>1, <1>3, <1>9 DEF Waiting
    <2>2. item.cmd \notin Waiting'
      BY <1>1, <1>3, <1>5, <1>9 DEF RunsOnce, Waiting
    <2>3. runs[item.cmd] = 0 /\ outcome[item.cmd] # "idle"
      BY <2>1 DEF RunsOnce
    <2>4. \A c \in Commands : runs'[c] = IF c = item.cmd THEN 1 ELSE runs[c]
      BY <1>1, <1>9, <2>1, <2>3
    <2>5. \A c \in Commands : runs'[c] <= 1 /\ (outcome'[c] = "idle" => runs'[c] = 0)
      BY <1>1, <2>3, <2>4 DEF RunsOnce
    <2>6. Waiting' \subseteq Waiting
      BY <1>7 DEF Waiting
    <2>7. \A c \in Waiting' : runs'[c] = 0 /\ outcome'[c] # "idle"
      BY <1>1, <2>2, <2>4, <2>6 DEF RunsOnce
    <2>. QED BY <1>3, <1>6, <2>5, <2>7 DEF RunsOnce
  <1>. QED BY <1>2, <1>8, <1>9

\* A refused command is the one the reply was for: it was not run, and may be sent again.
LEMMA ReturnErrorKeepsRuns ==
  ASSUME Sound, RunsOnce, ReturnError
  PROVE  RunsOnce'
PROOF
  <1> DEFINE item == Head(commandQueue)
  <1>1. /\ listening /\ replies # <<>> /\ commandQueue # <<>> /\ Head(replies).reply = "error"
        /\ replies' = Tail(replies) /\ UNCHANGED <<sent, runs>>
        /\ \/ offlineQueue' = offlineQueue \o Resend(<<item>>, condition.select) /\ outcome' = outcome
           \/ offlineQueue' = offlineQueue /\ outcome' = Settle({item.cmd}, "error")
    BY Zenon DEF ReturnError, ReplyArrives, ShiftCommand
  <1>2. /\ Waiting \subseteq Commands /\ Once(sent) /\ replies \in Seq(Reply) /\ sent \in Seq(Item)
        /\ commandQueue \in Seq(Item) /\ commandQueue \in Seq(NamedItem) /\ Once(commandQueue)
        /\ offlineQueue \in Seq(Item)
    BY WaitingType DEF Sound, RunsOnce, TypeOK, WireTypes, QueueTypes, HeldInv, QueueShapes, Apart
  <1>3. Errors(replies') \subseteq Errors(replies)
    BY <1>1, <1>2, ErrorsTail
  <1>4. CASE offlineQueue' = offlineQueue /\ outcome' = Settle({item.cmd}, "error")
    <2>1. NoNewIdle
      <3> HIDE DEF item
      <3>. QED BY <1>4, SettleFacts DEF OutcomesSettle, NoNewIdle
    <2>. QED BY <1>1, <1>2, <1>3, <1>4, <2>1, WaitingShrinks
  <1>5. CASE offlineQueue' = offlineQueue \o Resend(<<item>>, condition.select) /\ outcome' = outcome
    <2>1. \A i \in DOMAIN replies : i \in DOMAIN commandQueue /\ commandQueue[i] = replies[i].item
      <3>1. commandQueue = ItemsIn(replies) \o sent
        BY <1>1 DEF Sound, ReplyInv, RepliesMatchQueue, ItemsIn
      <3>2. ItemsIn(replies) \in Seq(Item) /\ Len(ItemsIn(replies)) = Len(replies)
        BY <1>2, ItemsInType
      <3>3. \A i \in DOMAIN replies : ItemsIn(replies)[i] = replies[i].item
        BY DEF ItemsIn
      <3>4. \A i \in 1..Len(replies) : /\ i \in 1..Len(ItemsIn(replies) \o sent)
                                       /\ (ItemsIn(replies) \o sent)[i] = ItemsIn(replies)[i]
        <4> DEFINE t == ItemsIn(replies)
        <4>1. t \in Seq(Item) /\ Len(t) = Len(replies)
          BY <3>2
        <4> HIDE DEF t
        <4>2. \A i \in 1..Len(t) : i \in 1..Len(t \o sent) /\ (t \o sent)[i] = t[i]
          BY <1>2, <4>1
        <4>. QED BY <4>1, <4>2 DEF t
      <3>5. DOMAIN replies = 1..Len(replies) /\ DOMAIN commandQueue = 1..Len(commandQueue)
        BY <1>2
      <3>. QED BY <3>1, <3>3, <3>4, <3>5
    <2>2. 1 \in DOMAIN replies /\ item = commandQueue[1] /\ replies[1].reply = "error"
      BY <1>1, <1>2
    <2>3. \A i \in DOMAIN Tail(replies) : i + 1 \in DOMAIN replies /\ Tail(replies)[i] = replies[i + 1] /\ i + 1 # 1
      <3>1. /\ Len(Tail(replies)) = Len(replies) - 1 /\ Tail(replies) \in Seq(Reply)
            /\ \A i \in 1..Len(Tail(replies)) : Tail(replies)[i] = replies[i + 1]
        BY <1>1, <1>2, HeadTailProperties
      <3>. QED BY <1>2, <3>1
    <2>4. item \in NamedItem /\ item \in Item
      BY <1>1, <1>2, HeadTailProperties
    <2> HIDE DEF item
    <2>5. item.cmd # NoCmd => item.cmd \in Errors(replies)
      BY <2>1, <2>2 DEF Errors
    <2>6. item.cmd \notin Errors(replies')
      <3> SUFFICES ASSUME NEW i \in DOMAIN Tail(replies), Tail(replies)[i].item.cmd = item.cmd, item.cmd # NoCmd
                   PROVE  FALSE
        BY <1>1 DEF Errors
      <3>1. i + 1 \in DOMAIN commandQueue /\ commandQueue[i + 1].cmd = item.cmd /\ i + 1 # 1
        BY <2>1, <2>3
      <3>2. 1 \in DOMAIN commandQueue /\ commandQueue[1].cmd = item.cmd
        BY <2>1, <2>2
      <3>. QED BY <1>2, <3>1, <3>2 DEF Once
    <2>7. Callers(offlineQueue') = Callers(offlineQueue) \cup ({item.cmd} \ {NoCmd})
      <3> DEFINE again == Resend(<<item>>, condition.select)
      <3>1. <<item>> \in Seq(NamedItem) /\ Once(<<item>>) /\ Callers(<<item>>) = {item.cmd} \ {NoCmd}
        BY <2>4, OneItem
      <3>2. condition.select \in Dbs
        BY DEF Sound, TypeOK, DatabaseTypes
      <3>3. again \in Seq(NamedItem) /\ Callers(again) = {item.cmd} \ {NoCmd}
        BY <3>1, <3>2, ResendFacts
      <3>4. again \in Seq(Item)
        BY <3>3 DEF NamedItem
      <3>5. offlineQueue' = offlineQueue \o again
        BY <1>5
      <3> HIDE DEF again
      <3>6. Callers(offlineQueue') = Callers(offlineQueue) \cup Callers(again)
        BY <1>2, <3>4, <3>5, CallersConcat
      <3>. QED BY <3>3, <3>6
    <2>8. /\ Callers(sent') \cap Callers(offlineQueue') = {}
          /\ Callers(sent') \cap Errors(replies') = {}
          /\ Callers(offlineQueue') \cap Errors(replies') = {}
      BY <1>1, <1>3, <2>5, <2>6, <2>7 DEF RunsOnce
    <2>9. /\ Callers(sent') \subseteq Waiting /\ Callers(offlineQueue') \subseteq Waiting
          /\ Errors(replies') \subseteq Waiting
      BY <1>1, <1>3, <2>5, <2>7 DEF Waiting
    <2>10. NoNewIdle /\ Once(sent')
      BY <1>1, <1>2, <1>5 DEF NoNewIdle
    <2>. QED BY <1>1, <1>2, <2>8, <2>9, <2>10, WaitingMoves
  <1>. QED BY <1>1, <1>4, <1>5

\* A new client ran nothing.
LEMMA RunsInit == Init => RunsOnce
PROOF
  <1> SUFFICES ASSUME Init PROVE RunsOnce
    OBVIOUS
  <1>1. /\ sent = <<>> /\ offlineQueue = <<>> /\ replies = <<>> /\ \A c \in Commands : runs[c] = 0
    BY DEF Init
  <1>2. Once(sent) /\ Callers(sent) = {} /\ Callers(offlineQueue) = {} /\ Errors(replies) = {}
    BY <1>1, NoItem DEF Errors
  <1>. QED BY <1>1, <1>2 DEF RunsOnce, Waiting

\* The invariant is inductive: one case per action.
LEMMA RunsKeep ==
  ASSUME Sound, RunInv, [Next]_vars
  PROVE  RunInv'
PROOF
  <1> SUFFICES ASSUME ~AutoResend PROVE RunsOnce'
    BY DEF RunInv
  <1>0. RunsOnce
    BY DEF RunInv
  <1>1. CASE Application
    <2>1. CASE Connect
      BY <1>0, <2>1, QuietKeepsRuns
    <2>2. ASSUME NEW reconnect \in BOOLEAN, Disconnect(reconnect) PROVE RunsOnce'
      BY <1>0, <2>2, QuietKeepsRuns, EndingsKeepRuns
    <2>3. ASSUME NEW b \in Batches,
                 IssueWritten(b) \/ IssueQueued(b) \/ IssueQuitOffline(b) \/ IssueRefused(b)
          PROVE  RunsOnce'
      BY <1>0, <2>3, QuietKeepsRuns, IssueKeepsRuns
    <2>. QED BY <1>1, <2>1, <2>2, <2>3 DEF Application
  <1>2. CASE Continuation
    BY <1>0, <1>2, QuietKeepsRuns, HandshakeKeepsRuns, BecomeReadyKeepsRuns, EndingsKeepRuns DEF Continuation
  <1>3. CASE \/ ReconnectTimer \/ CreateSocket \/ ReturnReply \/ ReturnFatalError
             \/ (\E c \in Commands : TimeOut(c)) \/ UNCHANGED vars
    BY <1>0, <1>3, QuietKeepsRuns
  <1>4. CASE AbortConnecting \/ StreamClosed \/ StreamLost
    BY <1>0, <1>4, EndingsKeepRuns
  <1>5. CASE ConnectHandler \/ LoadingTimer
    BY <1>0, <1>5, HandshakeKeepsRuns
  <1>6. CASE ServerHandshake \/ ServerCommand
    BY <1>0, <1>6, ServerKeepsRuns
  <1>7. CASE ReturnError
    BY <1>0, <1>7, ReturnErrorKeepsRuns
  <1>. QED
    BY <1>1, <1>2, <1>3, <1>4, <1>5, <1>6, <1>7 DEF Next, System

\* Without autoResendUnfulfilledCommands a command that was refused or never sent may be
\* sent again, and one that the server ran may not (readyHandler, handleReconnection).
THEOREM AtMostOnceTheorem == Spec => []AtMostOnce
PROOF
  <1>1. Init => RunInv
    BY RunsInit DEF RunInv
  <1>2. Sound /\ RunInv /\ [Next]_vars => RunInv'
    BY RunsKeep
  <1>3. RunInv => AtMostOnce
    BY DEF RunInv, RunsOnce, AtMostOnce
  <1>. QED
    BY <1>1, <1>2, <1>3, SoundInvariant, PTL DEF Spec

------------------------------------------------------------------------------
(* ResolvedIsDone.                                                           *)

\* A command that is on the wire, though nobody expects its reply any more, was
\* rejected: its caller was told an error when the command queue was emptied.
Abandoned == \A c \in Callers(sent) : c \notin Callers(commandQueue) => outcome[c] = "error"

\* Who was told an error is told nothing else.
ErrorsStay == \A c \in Commands : outcome[c] = "error" => outcome'[c] = "error"

\* Nothing is added to the wire that is not added to the command queue too.
LEMMA AbandonedStable ==
  ASSUME Sound, Abandoned, ErrorsStay, NEW S, Callers(sent') \subseteq Callers(sent) \cup S,
         Callers(commandQueue) \cup S \subseteq Callers(commandQueue')
  PROVE  Abandoned'
PROOF
  <1>1. Callers(sent) \subseteq Commands
    BY CallersAreCommands DEF Sound, TypeOK, WireTypes
  <1>. QED BY <1>1 DEF Abandoned, ErrorsStay

\* A reply is for a command that is not on the wire any more.
LEMMA AnsweredNotSent ==
  ASSUME Sound, ReplyArrives
  PROVE  Head(commandQueue).cmd \notin Callers(sent)
PROOF
  <1>1. /\ commandQueue \in Seq(Item) /\ Once(commandQueue) /\ sent \in Seq(Item)
        /\ replies \in Seq(Reply) /\ replies # <<>> /\ Len(replies) \in Nat /\ Len(replies) > 0
    BY DEF Sound, TypeOK, WireTypes, QueueTypes, HeldInv, Apart, ReplyArrives
  <1>2. commandQueue = ItemsIn(replies) \o sent
    BY DEF Sound, ReplyInv, RepliesMatchQueue, ItemsIn, ReplyArrives
  <1>3. ItemsIn(replies) \in Seq(Item) /\ Len(ItemsIn(replies)) = Len(replies)
    BY <1>1, ItemsInType
  <1>4. SUFFICES ASSUME NEW i \in DOMAIN sent, sent[i].cmd = Head(commandQueue).cmd, sent[i].cmd # NoCmd
                 PROVE  FALSE
    BY DEF Callers
  <1>5. /\ Len(replies) + i \in DOMAIN commandQueue /\ commandQueue[Len(replies) + i] = sent[i]
        /\ 1 \in DOMAIN commandQueue
    <2> DEFINE t == ItemsIn(replies)
    <2>1. t \in Seq(Item) /\ Len(t) = Len(replies) /\ commandQueue = t \o sent
      BY <1>2, <1>3
    <2> HIDE DEF t
    <2>2. i \in 1..Len(sent) /\ Len(sent) \in Nat
      BY <1>1
    <2>3. Len(t \o sent) = Len(t) + Len(sent)
      BY <1>1, <2>1, ConcatProperties
    <2>4. Len(t) + i \in 1..Len(t \o sent)
      BY <1>1, <2>1, <2>2, <2>3
    <2>5. (t \o sent)[Len(t) + i] = sent[i]
      BY <1>1, <2>1, <2>2, <2>4
    <2>6. Len(replies) + i \in 1..Len(commandQueue) /\ 1 \in 1..Len(commandQueue)
      BY <1>1, <2>1, <2>2, <2>3
    <2>. QED BY <1>1, <2>1, <2>5, <2>6
  <1>6. Head(commandQueue) = commandQueue[1]
    BY <1>1, <1>5
  <1>7. 1 = Len(replies) + i
    BY <1>1, <1>4, <1>5, <1>6 DEF Once
  <1>. QED BY <1>1, <1>7

\* What the server took off the wire is gone from it.
LEMMA TailCallers ==
  ASSUME NEW q \in Seq(Item), q # <<>>
  PROVE  Callers(Tail(q)) \subseteq Callers(q)
PROOF
  <1>1. /\ Len(Tail(q)) = Len(q) - 1 /\ Tail(q) \in Seq(Item)
        /\ \A i \in 1..Len(Tail(q)) : Tail(q)[i] = q[i + 1]
    BY HeadTailProperties
  <1>2. \A i \in DOMAIN Tail(q) : i + 1 \in DOMAIN q /\ Tail(q)[i] = q[i + 1]
    BY <1>1
  <1>. QED BY <1>2 DEF Callers

\* The steps that leave the command queue alone and send nothing.
LEMMA QuietKeepsAbandoned ==
  ASSUME Sound, Abandoned,
         \/ Connect \/ \E b \in Batches : IssueQueued(b) \/ IssueQuitOffline(b) \/ IssueRefused(b)
         \/ \E reconnect \in BOOLEAN : Disconnect(reconnect) /\ status # "wait"
         \/ ReconnectTimer \/ CreateSocket \/ StaleContinuation \/ WrongRole \/ StillLoading
         \/ ServerHandshake \/ ServerCommand \/ (\E c \in Commands : TimeOut(c)) \/ UNCHANGED vars
  PROVE  Abandoned'
PROOF
  <1>1. CASE \/ Connect \/ \E reconnect \in BOOLEAN : Disconnect(reconnect) /\ status # "wait"
             \/ ReconnectTimer \/ CreateSocket \/ StaleContinuation \/ WrongRole \/ StillLoading
             \/ UNCHANGED vars
    <2>1. UNCHANGED <<sent, commandQueue, outcome>>
      BY <1>1 DEF Connect, Disconnect, ReconnectTimer, CreateSocket, StaleContinuation, WrongRole,
                  NothingSent, ContinuationFrame, StillLoading, vars, queues, wire, history
    <2>. QED BY <2>1 DEF Abandoned
  <1>2. ASSUME NEW b \in Batches, IssueQueued(b) \/ IssueQuitOffline(b) \/ IssueRefused(b)
        PROVE  Abandoned'
    <2>1. UNCHANGED <<sent, commandQueue>> /\ Issuable(b) /\ \E result : Told(b, result)
      BY <1>2 DEF IssueQueued, IssueQuitOffline, IssueRefused, queues, wire
    <2>2. ErrorsStay
      BY <2>1 DEF Issuable, Told, ErrorsStay
    <2>. QED BY <2>1, <2>2, AbandonedStable
  <1>3. ASSUME NEW c \in Commands, TimeOut(c) PROVE Abandoned'
    <2>1. UNCHANGED <<sent, commandQueue>>
      BY <1>3 DEF TimeOut, queues, wire
    <2>2. ErrorsStay
      BY <1>3 DEF TimeOut, ErrorsStay, Sound, TypeOK, HistoryTypes
    <2>. QED BY <2>1, <2>2, AbandonedStable
  <1>4. CASE ServerHandshake \/ ServerCommand
    <2>1. sent' = Tail(sent) /\ UNCHANGED <<commandQueue, outcome>> /\ sent # <<>>
      BY <1>4, Zenon DEF ServerHandshake, ServerCommand, ServerFrame, ServerActive, Answer, queues
    <2>2. Callers(sent') \subseteq Callers(sent)
      <3>1. sent \in Seq(Item)
        BY DEF Sound, TypeOK, WireTypes
      <3>. QED BY <2>1, <3>1, TailCallers
    <2>3. ErrorsStay
      BY <2>1 DEF ErrorsStay
    <2>. QED BY <2>1, <2>2, <2>3, AbandonedStable
  <1>. QED BY <1>1, <1>2, <1>3, <1>4

\* Connections begin and end with nothing of the application's on the wire.
LEMMA EndingsKeepAbandoned ==
  ASSUME Sound, Abandoned,
         \/ AbortConnecting \/ ConnectHandler \/ StreamClosed \/ StreamLost
         \/ \E reconnect \in BOOLEAN : Disconnect(reconnect) /\ status = "wait"
  PROVE  Abandoned'
PROOF
  <1>1. CASE AbortConnecting \/ \E reconnect \in BOOLEAN : Disconnect(reconnect) /\ status = "wait"
    <2>1. socket # "open" /\ sent' = sent
      BY <1>1 DEF AbortConnecting, Disconnect, wire, Sound, LifecycleInv, SocketMatchesStatus
    <2>2. sent' = <<>>
      BY <2>1 DEF Sound, ReplyInv
    <2>. QED BY <2>2, NoItem DEF Abandoned
  <1>2. CASE StreamClosed \/ StreamLost
    <2>1. sent' = <<>>
      BY <1>2 DEF StreamClosed, StreamLost, Close
    <2>. QED BY <2>1, NoItem DEF Abandoned
  <1>3. CASE ConnectHandler
    <2>1. HelloItem \in Item /\ HelloItem.cmd = NoCmd
      BY HandshakeItemTypes DEF Sound, HelloItem, Internal
    <2>2. sent' = <<>> \/ sent' = <<HelloItem>>
      BY <1>3 DEF ConnectHandler
    <2>3. Callers(sent') = {}
      BY <2>1, <2>2, NoItem, OneItem
    <2>. QED BY <2>3 DEF Abandoned
  <1>. QED BY <1>1, <1>2, <1>3

\* The command queue is emptied and whoever was in it is told.
LEMMA FlushKeepsAbandoned ==
  ASSUME Sound, Abandoned, HandshakeFailed \/ ReturnFatalError
  PROVE  Abandoned'
PROOF
  <1>1. PICK S : outcome' = Settle(S, "error") /\ Callers(commandQueue) \subseteq S /\ sent' = sent
    BY Zenon DEF HandshakeFailed, RecoverFromFatalError, FlushQueues, ReturnFatalError, wire
  <1>2. /\ Callers(sent) \subseteq Commands /\ outcome \in [Commands -> {"idle", "pending", "ok", "error"}]
        /\ \A c \in Callers(commandQueue) : c \in Commands => outcome[c] \in {"pending", "error"}
    <2>1. Callers(sent) \subseteq Commands /\ outcome \in [Commands -> {"idle", "pending", "ok", "error"}]
      BY CallersAreCommands DEF Sound, TypeOK, WireTypes, HistoryTypes
    <2>. QED BY <2>1 DEF Sound, HeldInv, Accounted, Holding
  <1>3. \A c \in Callers(sent) : outcome'[c] = "error"
    BY <1>1, <1>2 DEF Settle, Abandoned
  <1>. QED BY <1>1, <1>3 DEF Abandoned

\* What is written is written to the command queue and to the wire.
LEMMA WriteKeepsAbandoned ==
  ASSUME Sound, Abandoned, NEW items \in Seq(Item), Write(items), ErrorsStay
  PROVE  Abandoned'
PROOF
  <1>1. sent \in Seq(Item) /\ commandQueue \in Seq(Item)
    BY DEF Sound, TypeOK, WireTypes, QueueTypes
  <1>2. sent' = sent \o items /\ commandQueue' = commandQueue \o items
    BY DEF Write
  <1>3. Callers(sent') = Callers(sent) \cup Callers(items)
    BY <1>1, <1>2, CallersConcat
  <1>4. Callers(commandQueue') = Callers(commandQueue) \cup Callers(items)
    BY <1>1, <1>2, CallersConcat
  <1>. QED BY <1>3, <1>4, AbandonedStable

\* The continuations and the timer that send a handshake command, or all that was kept.
LEMMA SendingKeepsAbandoned ==
  ASSUME Sound, Abandoned,
         \/ Downgrade \/ ReadyCheck \/ LoadingTimer \/ BecomeReady
         \/ \E b \in Batches : IssueWritten(b)
  PROVE  Abandoned'
PROOF
  <1>1. ASSUME NEW item \in Item, NEW tasks, SendHandshake(item, tasks), outcome' = outcome
        PROVE  Abandoned'
    <2>1. Write(<<item>>) \/ UNCHANGED <<commandQueue, sent>>
      BY <1>1, Zenon DEF SendHandshake
    <2>2. ErrorsStay /\ <<item>> \in Seq(Item)
      BY <1>1 DEF ErrorsStay
    <2>3. CASE Write(<<item>>)
      BY <2>2, <2>3, WriteKeepsAbandoned
    <2>4. CASE UNCHANGED <<commandQueue, sent>>
      BY <2>2, <2>4, AbandonedStable
    <2>. QED BY <2>1, <2>3, <2>4
  <1>2. HelloItem \in Item /\ \A e \in Nat : InfoItem(e) \in Item
    BY HandshakeItemTypes DEF Sound
  <1>3. CASE Downgrade
    <2>1. SendHandshake(HelloItem, Tail(microtasks)) /\ outcome' = outcome
      BY <1>3, Zenon DEF Downgrade
    <2>. QED BY <1>1, <1>2, <2>1
  <1>4. CASE ReadyCheck
    <2>1. SendHandshake(InfoItem(epoch), Tail(microtasks)) /\ outcome' = outcome
      BY <1>4, Zenon DEF ReadyCheck
    <2>2. epoch \in Nat
      BY DEF Sound, TypeOK, LifecycleTypes
    <2>. QED BY <1>1, <1>2, <2>1, <2>2
  <1>5. CASE LoadingTimer
    <2>1. PICK e \in loadingTimers : SendHandshake(InfoItem(e), <<>>)
      BY <1>5, Zenon DEF LoadingTimer
    <2>2. e \in Nat
      BY DEF Sound, TypeOK, LoopTypes
    <2>3. outcome' = outcome
      BY <1>5, Zenon DEF LoadingTimer, history
    <2>. QED BY <1>1, <1>2, <2>1, <2>2, <2>3
  <1>6. CASE BecomeReady
    <2>1. status = "connect" /\ (ReplayWritten \/ ReplayKept \/ ReplayQuit \/ ReplayRejected)
      BY <1>6, ReplayWays
    <2>2. ~ReplayStays => ReplayAll \in Seq(NamedItem)
      BY <2>1, ReplayAllFacts
    <2>3. CASE ReplayWritten
      <3>1. /\ sent' = sent \o ReplayAll /\ commandQueue' = commandQueue \o ReplayAll
            /\ ~ReplayStays /\ outcome' = outcome
        BY <2>3 DEF ReplayWritten
      <3>2. ReplayAll \in Seq(Item) /\ ErrorsStay
        BY <2>2, <3>1 DEF NamedItem, ErrorsStay
      <3>3. Write(ReplayAll)
        BY <3>1 DEF Write
      <3>. QED BY <3>2, <3>3, WriteKeepsAbandoned
    <2>4. CASE ReplayKept \/ ReplayQuit \/ ReplayRejected
      <3>1. UNCHANGED <<commandQueue, sent>>
        BY <2>4 DEF ReplayKept, ReplayQuit, ReplayRejected
      <3>2. ErrorsStay
        BY <2>4 DEF ReplayKept, ReplayQuit, ReplayRejected, Settle, ErrorsStay
      <3>. QED BY <3>1, <3>2, AbandonedStable
    <2>. QED BY <2>1, <2>3, <2>4
  <1>7. ASSUME NEW b \in Batches, IssueWritten(b) PROVE Abandoned'
    <2>1. /\ Issuable(b) /\ Told(b, "pending") /\ Write(ItemsOf(b, condition.select))
      BY <1>7 DEF IssueWritten
    <2>2. ErrorsStay
      BY <2>1 DEF Issuable, Told, ErrorsStay
    <2>3. ItemsOf(b, condition.select) \in Seq(NamedItem)
      BY BatchDbTypes, ItemsOfFacts DEF Sound
    <2>4. ItemsOf(b, condition.select) \in Seq(Item)
      BY <2>3 DEF NamedItem
    <2>. QED BY <2>1, <2>2, <2>4, WriteKeepsAbandoned
  <1>. QED BY <1>3, <1>4, <1>5, <1>6, <1>7

\* The command a reply is for leaves the queue, and was not on the wire.
LEMMA RepliesKeepAbandoned ==
  ASSUME Sound, Abandoned, ReturnReply \/ ReturnError
  PROVE  Abandoned'
PROOF
  <1>1. /\ ReplyArrives /\ commandQueue # <<>> /\ commandQueue' = Tail(commandQueue) /\ sent' = sent
        /\ outcome' = outcome \/ \E S, result : outcome' = Settle(S, result)
    BY Zenon DEF ReturnReply, ReturnError, ShiftCommand
  <1>2. ErrorsStay
    BY <1>1 DEF Settle, ErrorsStay
  <1>3. Callers(commandQueue) = Callers(commandQueue') \cup ({Head(commandQueue).cmd} \ {NoCmd})
    BY <1>1, TailFacts DEF Sound, TypeOK, QueueTypes, HeldInv, Apart
  <1>4. Head(commandQueue).cmd \notin Callers(sent) /\ Callers(sent) \subseteq Commands
    BY <1>1, AnsweredNotSent, CallersAreCommands DEF Sound, TypeOK, WireTypes
  <1>. QED BY <1>1, <1>2, <1>3, <1>4 DEF Abandoned, ErrorsStay

\* The invariant is inductive: one case per action.
LEMMA AbandonedKeep ==
  ASSUME Sound, Abandoned, [Next]_vars
  PROVE  Abandoned'
PROOF
  <1>1. CASE Application
    <2>1. CASE Connect
      BY <2>1, QuietKeepsAbandoned
    <2>2. ASSUME NEW reconnect \in BOOLEAN, Disconnect(reconnect) PROVE Abandoned'
      BY <2>2, QuietKeepsAbandoned, EndingsKeepAbandoned
    <2>3. ASSUME NEW b \in Batches,
                 IssueWritten(b) \/ IssueQueued(b) \/ IssueQuitOffline(b) \/ IssueRefused(b)
          PROVE  Abandoned'
      BY <2>3, QuietKeepsAbandoned, SendingKeepsAbandoned
    <2>. QED BY <1>1, <2>1, <2>2, <2>3 DEF Application
  <1>2. CASE Continuation
    BY <1>2, QuietKeepsAbandoned, SendingKeepsAbandoned, FlushKeepsAbandoned DEF Continuation
  <1>3. CASE \/ ReconnectTimer \/ CreateSocket \/ ServerHandshake \/ ServerCommand
             \/ (\E c \in Commands : TimeOut(c)) \/ UNCHANGED vars
    BY <1>3, QuietKeepsAbandoned
  <1>4. CASE AbortConnecting \/ ConnectHandler \/ StreamClosed \/ StreamLost
    BY <1>4, EndingsKeepAbandoned
  <1>5. CASE LoadingTimer
    BY <1>5, SendingKeepsAbandoned
  <1>6. CASE ReturnReply \/ ReturnError
    BY <1>6, RepliesKeepAbandoned
  <1>7. CASE ReturnFatalError
    BY <1>7, FlushKeepsAbandoned
  <1>. QED
    BY <1>1, <1>2, <1>3, <1>4, <1>5, <1>6, <1>7 DEF Next, System

\* Only the server's step runs a command, the one at the head of the wire.
LEMMA OnlyServerRuns ==
  ASSUME TypeOK, [Next]_vars, runs' # runs
  PROVE  /\ sent # <<>> /\ Head(sent).cmd # NoCmd
         /\ runs' = [runs EXCEPT ![Head(sent).cmd] = @ + 1]
PROOF
  <1>2. ~Application
    <2>1. ~Connect /\ \A reconnect \in BOOLEAN : ~Disconnect(reconnect)
      BY DEF Connect, Disconnect, history
    <2>2. \A b \in Batches : /\ ~IssueWritten(b) /\ ~IssueQueued(b)
                             /\ ~IssueQuitOffline(b) /\ ~IssueRefused(b)
      BY Zenon DEF IssueWritten, IssueQueued, IssueQuitOffline, IssueRefused
    <2>. QED BY <2>1, <2>2, Zenon DEF Application
  <1>3. ~Continuation
    BY Zenon DEF Continuation, StaleContinuation, Downgrade, ReadyCheck, BecomeReady, WrongRole,
                 HandshakeFailed, StillLoading, ContinuationFrame, history
  <1>4. /\ ~ReconnectTimer /\ ~CreateSocket /\ ~AbortConnecting /\ ~ConnectHandler /\ ~LoadingTimer
        /\ ~StreamClosed /\ ~StreamLost
    BY Zenon DEF ReconnectTimer, CreateSocket, AbortConnecting, ConnectHandler, LoadingTimer,
                 StreamClosed, StreamLost, Close, history
  <1>5. /\ ~ServerHandshake /\ ~ReturnReply /\ ~ReturnError /\ ~ReturnFatalError
        /\ ~(\E c \in Commands : TimeOut(c)) /\ ~UNCHANGED vars
    BY Zenon DEF ServerHandshake, ReturnReply, ReturnError, ReturnFatalError, TimeOut, vars, history
  <1>6. ServerCommand
    BY <1>2, <1>3, <1>4, <1>5, Zenon DEF Next, System
  <1>. QED BY <1>6, Zenon DEF ServerCommand, ServerActive

\* A command whose caller got its reply is never run again, with or without
\* autoResendUnfulfilledCommands (readyHandler, shiftCommand, flushQueue).
THEOREM ResolvedIsDoneTheorem == Spec => ResolvedIsDone
PROOF
  <1>1. Init => Abandoned
    BY NoItem DEF Init, Abandoned
  <1>2. Sound /\ Abandoned /\ [Next]_vars => Abandoned'
    BY AbandonedKeep
  <1>3. Sound /\ Abandoned /\ [Next]_vars
          => [\A c \in Commands : outcome[c] = "ok" => runs'[c] = runs[c]]_vars
    <2> SUFFICES ASSUME Sound, Abandoned, [Next]_vars, NEW c \in Commands, outcome[c] = "ok", runs' # runs
                 PROVE  runs'[c] = runs[c]
      OBVIOUS
    <2>1. /\ sent # <<>> /\ Head(sent).cmd # NoCmd
          /\ runs' = [runs EXCEPT ![Head(sent).cmd] = @ + 1]
      BY OnlyServerRuns DEF Sound
    <2>2. c \notin Callers(sent)
      BY DEF Abandoned, Sound, HeldInv, Accounted, Holding
    <2>3. Head(sent).cmd \in Callers(sent)
      BY <2>1 DEF Sound, TypeOK, WireTypes, Callers
    <2>. QED BY <2>1, <2>2, <2>3 DEF Sound, TypeOK, HistoryTypes
  <1>. QED
    BY <1>1, <1>2, <1>3, SoundInvariant, PTL DEF Spec, ResolvedIsDone

------------------------------------------------------------------------------
(***************************************************************************)
(* The databases the commands run in.                                      *)
(***************************************************************************)

\* Every item of q but a SELECT is recorded in the database it finds when q is run on a
\* connection on which db is selected.
Chained(q, db) == \A i \in DOMAIN q : q[i].name = "select" \/ q[i].select = DbBefore(q, i, db)

------------------------------------------------------------------------------
(* Chains.                                                                   *)

\* Nothing to run.
LEMMA ChainedNone ==
  ASSUME NEW db
  PROVE  Chained(<<>>, db) /\ DbAfter(<<>>, db) = db
PROOF
  BY DEF Chained, DbAfter

\* One item.
LEMMA ChainedOne ==
  ASSUME NEW x \in Item, NEW db, x.name = "select" \/ x.select = db
  PROVE  /\ <<x>> \in Seq(Item)
         /\ Chained(<<x>>, db) /\ DbAfter(<<x>>, db) = DbAfterItem(x)
PROOF
  <1>1. DOMAIN <<x>> = {1} /\ <<x>>[1] = x /\ Len(<<x>>) = 1 /\ <<x>> # <<>>
    OBVIOUS
  <1>. QED BY <1>1 DEF Chained, DbAfter, DbBefore

\* What is run after a chain starts where the chain ends.
LEMMA ChainedConcat ==
  ASSUME NEW s \in Seq(Item), NEW t \in Seq(Item), NEW db,
         Chained(s, db), Chained(t, DbAfter(s, db))
  PROVE  /\ s \o t \in Seq(Item)
         /\ Chained(s \o t, db) /\ DbAfter(s \o t, db) = DbAfter(t, DbAfter(s, db))
PROOF
  <1> DEFINE u == s \o t
  <1>1. /\ u \in Seq(Item) /\ Len(u) = Len(s) + Len(t) /\ Len(s) \in Nat /\ Len(t) \in Nat
        /\ DOMAIN u = 1..(Len(s) + Len(t)) /\ DOMAIN s = 1..Len(s) /\ DOMAIN t = 1..Len(t)
        /\ (u = <<>> <=> s = <<>> /\ t = <<>>)
        /\ (s = <<>> <=> Len(s) = 0) /\ (t = <<>> <=> Len(t) = 0)
    OBVIOUS
  <1>2. /\ \A i \in 1..Len(s) : u[i] = s[i]
        /\ \A i \in 1..Len(t) : u[Len(s) + i] = t[i]
    OBVIOUS
  <1> HIDE DEF u
  <1>3. ASSUME NEW i \in 1..Len(s)
        PROVE  u[i].name = "select" \/ u[i].select = DbBefore(u, i, db)
    <2>1. s[i].name = "select" \/ s[i].select = DbBefore(s, i, db)
      BY <1>1 DEF Chained
    <2>2. DbBefore(u, i, db) = DbBefore(s, i, db)
      <3>1. CASE i = 1
        BY <3>1 DEF DbBefore
      <3>2. CASE i # 1
        <4>1. i - 1 \in 1..Len(s)
          BY <1>1, <3>2
        <4>. QED BY <1>2, <3>2, <4>1 DEF DbBefore
      <3>. QED BY <3>1, <3>2
    <2>. QED BY <1>2, <2>1, <2>2
  <1>4. ASSUME NEW i \in 1..Len(t)
        PROVE  u[Len(s) + i].name = "select" \/ u[Len(s) + i].select = DbBefore(u, Len(s) + i, db)
    <2>1. t[i].name = "select" \/ t[i].select = DbBefore(t, i, DbAfter(s, db))
      BY <1>1 DEF Chained
    <2>2. DbBefore(u, Len(s) + i, db) = DbBefore(t, i, DbAfter(s, db))
      <3>1. CASE i # 1
        <4>1. i - 1 \in 1..Len(t) /\ Len(s) + i # 1 /\ (Len(s) + i) - 1 = Len(s) + (i - 1)
          BY <1>1, <3>1
        <4>. QED BY <1>2, <3>1, <4>1 DEF DbBefore
      <3>2. CASE i = 1 /\ Len(s) # 0
        <4>1. Len(s) + 1 # 1 /\ (Len(s) + 1) - 1 = Len(s) /\ Len(s) \in 1..Len(s) /\ s # <<>>
          BY <1>1, <3>2
        <4>. QED BY <1>2, <3>2, <4>1 DEF DbBefore, DbAfter
      <3>3. CASE i = 1 /\ Len(s) = 0
        <4>1. Len(s) + i = 1 /\ s = <<>>
          BY <1>1, <3>3
        <4>. QED BY <3>3, <4>1 DEF DbBefore, DbAfter
      <3>. QED BY <3>1, <3>2, <3>3
    <2>. QED BY <1>2, <2>1, <2>2
  <1>5. Chained(u, db)
    <2> SUFFICES ASSUME NEW i \in DOMAIN u
                 PROVE  u[i].name = "select" \/ u[i].select = DbBefore(u, i, db)
      BY DEF Chained
    <2>1. CASE i <= Len(s)
      <3>1. i \in 1..Len(s)
        BY <1>1, <2>1
      <3>. QED BY <1>3, <3>1
    <2>2. CASE i > Len(s)
      <3>1. i - Len(s) \in 1..Len(t) /\ Len(s) + (i - Len(s)) = i
        BY <1>1, <2>2
      <3>. QED BY <1>4, <3>1
    <2>. QED BY <1>1, <2>1, <2>2
  <1>6. DbAfter(u, db) = DbAfter(t, DbAfter(s, db))
    <2>1. CASE t = <<>>
      <3>1. CASE s = <<>>
        BY <1>1, <2>1, <3>1 DEF DbAfter
      <3>2. CASE s # <<>>
        <4>1. Len(u) = Len(s) /\ Len(s) \in 1..Len(s) /\ u # <<>>
          BY <1>1, <2>1, <3>2
        <4>. QED BY <1>2, <2>1, <3>2, <4>1 DEF DbAfter
      <3>. QED BY <3>1, <3>2
    <2>2. CASE t # <<>>
      <3>1. Len(t) \in 1..Len(t) /\ u # <<>>
        BY <1>1, <2>2
      <3>2. u[Len(u)] = t[Len(t)]
        BY <1>1, <1>2, <3>1
      <3>. QED BY <2>2, <3>1, <3>2 DEF DbAfter
    <2>. QED BY <2>1, <2>2
  <1>. QED BY <1>1, <1>5, <1>6 DEF u

\* Running the first item of a chain leaves a chain.
LEMMA ChainedTail ==
  ASSUME NEW q \in Seq(Item), q # <<>>, NEW db, Chained(q, db)
  PROVE  /\ Head(q) \in Item /\ Tail(q) \in Seq(Item)
         /\ Head(q).name = "select" \/ Head(q).select = db
         /\ Chained(Tail(q), DbAfterItem(Head(q)))
         /\ DbAfter(Tail(q), DbAfterItem(Head(q))) = DbAfter(q, db)
PROOF
  <1>1. /\ Tail(q) \in Seq(Item) /\ Head(q) \in Item /\ Head(q) = q[1]
        /\ Len(Tail(q)) = Len(q) - 1 /\ \A i \in 1..Len(Tail(q)) : Tail(q)[i] = q[i + 1]
    BY HeadTailProperties
  <1>2. /\ DOMAIN q = 1..Len(q) /\ DOMAIN Tail(q) = 1..(Len(q) - 1)
        /\ Len(q) \in Nat /\ Len(q) >= 1 /\ 1 \in DOMAIN q
    BY <1>1
  <1>3. Head(q).name = "select" \/ Head(q).select = db
    BY <1>1, <1>2 DEF Chained, DbBefore
  <1>4. Chained(Tail(q), DbAfterItem(Head(q)))
    <2> SUFFICES ASSUME NEW i \in DOMAIN Tail(q)
                 PROVE  \/ Tail(q)[i].name = "select"
                        \/ Tail(q)[i].select = DbBefore(Tail(q), i, DbAfterItem(Head(q)))
      BY DEF Chained
    <2>1. i + 1 \in DOMAIN q /\ Tail(q)[i] = q[i + 1] /\ i + 1 # 1 /\ (i + 1) - 1 = i
      BY <1>1, <1>2
    <2>2. q[i + 1].name = "select" \/ q[i + 1].select = DbAfterItem(q[i])
      BY <2>1 DEF Chained, DbBefore
    <2>3. DbBefore(Tail(q), i, DbAfterItem(Head(q))) = DbAfterItem(q[i])
      <3>1. CASE i = 1
        BY <1>1, <3>1 DEF DbBefore
      <3>2. CASE i # 1
        <4>1. i - 1 \in 1..Len(Tail(q)) /\ (i - 1) + 1 = i
          BY <1>1, <1>2, <3>2
        <4>. QED BY <1>1, <3>2, <4>1 DEF DbBefore
      <3>. QED BY <3>1, <3>2
    <2>. QED BY <2>1, <2>2, <2>3
  <1>5. DbAfter(Tail(q), DbAfterItem(Head(q))) = DbAfter(q, db)
    <2>1. CASE Tail(q) = <<>>
      <3>1. Len(q) = 1
        BY <1>1, <1>2, <2>1
      <3>. QED BY <1>1, <2>1, <3>1 DEF DbAfter
    <2>2. CASE Tail(q) # <<>>
      <3>1. Len(Tail(q)) \in 1..Len(Tail(q)) /\ Len(Tail(q)) + 1 = Len(q)
        BY <1>1, <1>2, <2>2
      <3>2. Tail(q)[Len(Tail(q))] = q[Len(q)]
        BY <1>1, <3>1
      <3>. QED BY <2>2, <3>2 DEF DbAfter
    <2>. QED BY <2>1, <2>2
  <1>. QED BY <1>1, <1>3, <1>4, <1>5

\* readyHandler and handleReconnection: what is sent again is a chain from the database
\* that is selected, and leaves the connection where the items themselves would.
LEMMA ResendChained ==
  ASSUME NEW q \in Seq(Item), NEW db \in Dbs
  PROVE  /\ Resend(q, db) \in Seq(Item)
         /\ Chained(Resend(q, db), db) /\ DbAfter(Resend(q, db), db) = DbAfter(q, db)
PROOF
  <1> DEFINE
    before(i) == DbBefore(q, i, db)
    step(i) == IF q[i].name = "select" THEN <<[q[i] EXCEPT !.select = before(i)]>>
               ELSE IF q[i].select = before(i) THEN <<q[i]>>
               ELSE <<SelectItem(q[i].select, before(i)), q[i]>>
    ss == [i \in DOMAIN q |-> step(i)]
  <1>0. DOMAIN q = 1..Len(q) /\ Len(q) \in Nat
    OBVIOUS
  <1>1. ASSUME NEW i \in DOMAIN q
        PROVE  /\ step(i) \in Seq(Item)
               /\ Chained(step(i), before(i)) /\ DbAfter(step(i), before(i)) = DbAfterItem(q[i])
    <2>1. q[i] \in Item /\ q[i].select \in Dbs /\ q[i].db \in Dbs
      <3>1. q[i] \in Item
        BY ElementOfSeq
      <3>. QED BY <3>1 DEF Item
    <2>2. before(i) \in Dbs
      <3>1. i = 1 \/ q[i - 1] \in Item
        BY <1>0
      <3>2. \A item \in Item : DbAfterItem(item) \in Dbs
        BY DEF DbAfterItem, Item
      <3>. QED BY <3>1, <3>2 DEF DbBefore
    <2> HIDE DEF before
    <2>3. CASE q[i].name = "select"
      <3> DEFINE x == [q[i] EXCEPT !.select = before(i)]
      <3>1. x \in Item /\ x.name = q[i].name /\ x.db = q[i].db
        BY <2>1, <2>2 DEF Item
      <3>2. step(i) = <<x>>
        BY <2>3
      <3> HIDE DEF x, step
      <3>3. DbAfterItem(x) = DbAfterItem(q[i])
        BY <2>3, <3>1 DEF DbAfterItem
      <3>. QED BY <2>3, <3>1, <3>2, <3>3, ChainedOne
    <2>4. CASE q[i].name # "select" /\ q[i].select = before(i)
      <3>1. step(i) = <<q[i]>>
        BY <2>4
      <3> HIDE DEF step
      <3>. QED BY <2>1, <2>4, <3>1, ChainedOne
    <2>5. CASE q[i].name # "select" /\ q[i].select # before(i)
      <3> DEFINE x == SelectItem(q[i].select, before(i))
      <3>1. /\ x \in Item /\ x.name = "select" /\ DbAfterItem(x) = q[i].select
        BY <2>1, <2>2, InternalType DEF SelectItem, Internal, ItemNames, Names, DbAfterItem
      <3>2. step(i) = <<x, q[i]>>
        BY <2>5
      <3> HIDE DEF x, step
      <3>3. step(i) = <<x>> \o <<q[i]>>
        BY <3>2
      <3>4. <<x>> \in Seq(Item) /\ Chained(<<x>>, before(i)) /\ DbAfter(<<x>>, before(i)) = q[i].select
        BY <3>1, ChainedOne
      <3>5. /\ <<q[i]>> \in Seq(Item) /\ Chained(<<q[i]>>, q[i].select)
            /\ DbAfter(<<q[i]>>, q[i].select) = DbAfterItem(q[i])
        BY <2>1, ChainedOne
      <3>6. /\ Chained(<<q[i]>>, DbAfter(<<x>>, before(i)))
            /\ DbAfter(<<q[i]>>, DbAfter(<<x>>, before(i))) = DbAfterItem(q[i])
        BY <3>4, <3>5
      <3>7. /\ <<x>> \o <<q[i]>> \in Seq(Item)
            /\ Chained(<<x>> \o <<q[i]>>, before(i))
            /\ DbAfter(<<x>> \o <<q[i]>>, before(i)) = DbAfter(<<q[i]>>, DbAfter(<<x>>, before(i)))
        BY <3>4, <3>5, <3>6, ChainedConcat
      <3>. QED BY <3>3, <3>6, <3>7
    <2>. QED BY <2>3, <2>4, <2>5
  <1> HIDE DEF step
  <1>2. DOMAIN ss = DOMAIN q /\ \A i \in DOMAIN q : ss[i] = step(i)
    OBVIOUS
  <1>3. ss \in Seq(Seq(Item)) /\ Len(ss) = Len(q)
    <2>1. ss \in [1..Len(q) -> Seq(Item)]
      BY <1>0, <1>1
    <2>. QED BY <2>1, SeqDef
  <1>4. Resend(q, db) = FlattenSeq(ss)
    BY DEF Resend, step, before
  <1> HIDE DEF ss
  <1>5. CASE q = <<>>
    <2>1. ss = <<>> /\ FlattenSeq(ss) \in Seq(Item)
      <3>1. FlattenSeq(ss) \in Seq(Item)
        BY <1>3, FlattenSeqType
      <3>2. Len(q) = 0
        BY <1>5
      <3>. QED BY <1>3, <3>1, <3>2, EmptySeq
    <2>2. FlattenSeq(ss) = <<>>
      BY <2>1 DEF FlattenSeq
    <2>. QED BY <1>4, <1>5, <2>1, <2>2, ChainedNone
  <1>6. CASE q # <<>>
    <2>1. PICK f : /\ IsPrefixSums(f, ss, Len(ss)) /\ FlattenSeq(ss) = f[Len(ss)]
                   /\ \A i \in 1..Len(ss) : f[i] \in Seq(Item)
      <3>1. ss # <<>>
        BY <1>3, <1>6
      <3>. QED BY <1>3, <3>1, FlattenIsLastPrefix
    <2> DEFINE Good(i) == Chained(f[i], db) /\ DbAfter(f[i], db) = DbAfterItem(q[i])
               Bad == {i \in 1..Len(q) : ~Good(i)}
    <2>2. Bad = {}
      <3>1. SUFFICES ASSUME Bad # {} PROVE FALSE
        OBVIOUS
      <3>2. PICK m \in Bad : \A k \in Bad : m <= k
        <4>1. Bad \subseteq Nat
          BY <1>0
        <4> HIDE DEF Bad
        <4>. QED BY <3>1, <4>1, LeastNat
      <3>3. m \in 1..Len(q) /\ f[m] = (IF m = 1 THEN ss[m] ELSE f[m - 1] \o ss[m])
        BY <1>3, <2>1 DEF IsPrefixSums
      <3>4. CASE m = 1
        <4>1. before(m) = db
          BY <3>4 DEF before, DbBefore
        <4> HIDE DEF before
        <4>2. f[m] = step(m)
          BY <1>0, <1>2, <3>3, <3>4
        <4>. QED BY <1>0, <1>1, <3>3, <4>1, <4>2
      <3>5. CASE m # 1
        <4>0. m - 1 \in 1..Len(q) /\ ~(m <= m - 1)
          BY <1>0, <3>3, <3>5
        <4>1. m - 1 \notin Bad
          <5> HIDE DEF Bad
          <5>. QED BY <3>2, <4>0
        <4>2. Good(m - 1)
          BY <4>0, <4>1
        <4>3. before(m) = DbAfterItem(q[m - 1])
          BY <3>5 DEF before, DbBefore
        <4> HIDE DEF before, Bad
        <4>4. f[m] = f[m - 1] \o step(m) /\ f[m - 1] \in Seq(Item) /\ step(m) \in Seq(Item)
          BY <1>0, <1>1, <1>2, <1>3, <2>1, <3>3, <3>5, <4>0
        <4>5. /\ Chained(step(m), DbAfter(f[m - 1], db))
              /\ DbAfter(step(m), DbAfter(f[m - 1], db)) = DbAfterItem(q[m])
          BY <1>0, <1>1, <3>3, <4>2, <4>3
        <4>6. Good(m)
          BY <4>2, <4>4, <4>5, ChainedConcat
        <4>. QED BY <3>2, <4>6 DEF Bad
      <3>. QED BY <3>4, <3>5
    <2>3. Len(q) \in 1..Len(q)
      BY <1>0, <1>6
    <2>4. Good(Len(q))
      BY <2>2, <2>3
    <2>5. Resend(q, db) = f[Len(q)] /\ f[Len(q)] \in Seq(Item)
      BY <1>3, <1>4, <2>1, <2>3
    <2>. QED BY <1>6, <2>4, <2>5 DEF DbAfter
  <1>. QED BY <1>5, <1>6

\* A batch selects databases one command after the other.
LEMMA SelectedAfterStep ==
  ASSUME NEW b \in Batches, NEW db
  PROVE  /\ SelectedAfter(b, 0, db) = db
         /\ \A n \in 1..Len(b) :
              SelectedAfter(b, n, db) =
                (IF Name[b[n]] = "select" THEN Argument[b[n]] ELSE SelectedAfter(b, n - 1, db))
PROOF
  <1>1. b \in Seq(Commands) /\ Len(b) \in Nat
    BY CommandsAssumption
  <1>2. SelectedAfter(b, 0, db) = db
    <2>1. {i \in 1..0 : Name[b[i]] = "select"} = {}
      OBVIOUS
    <2>. QED BY <2>1 DEF SelectedAfter
  <1>3. ASSUME NEW n \in 1..Len(b)
        PROVE  SelectedAfter(b, n, db) =
                 (IF Name[b[n]] = "select" THEN Argument[b[n]] ELSE SelectedAfter(b, n - 1, db))
    <2> DEFINE upto(k) == {i \in 1..k : Name[b[i]] = "select"}
               last(k) == CHOOSE i \in upto(k) : \A j \in upto(k) : j <= i
    <2>1. 1..n = 1..(n - 1) \cup {n} /\ n \in Nat
      BY <1>1
    <2>2. CASE Name[b[n]] = "select"
      <3>1. n \in upto(n) /\ \A j \in upto(n) : j <= n
        BY <2>1, <2>2
      <3>2. \A i \in upto(n) : (\A j \in upto(n) : j <= i) => i = n
        BY <2>1, <3>1
      <3> HIDE DEF upto
      <3>3. last(n) = n
        BY <3>1, <3>2
      <3>4. SelectedAfter(b, n, db) = IF upto(n) = {} THEN db ELSE Argument[b[last(n)]]
        BY DEF SelectedAfter, upto
      <3>. QED BY <2>2, <3>1, <3>3, <3>4
    <2>3. CASE Name[b[n]] # "select"
      <3>1. upto(n) = upto(n - 1)
        BY <2>1, <2>3
      <3>2. \A k : SelectedAfter(b, k, db) = IF upto(k) = {} THEN db ELSE Argument[b[last(k)]]
        BY DEF SelectedAfter
      <3> HIDE DEF upto
      <3>3. last(n) = last(n - 1)
        BY <3>1
      <3>. QED BY <2>3, <3>1, <3>2, <3>3
    <2>. QED BY <2>2, <2>3
  <1>. QED BY <1>2, <1>3

\* Redis#sendCommand for a batch: its items are a chain from the database that is selected.
LEMMA ItemsOfChained ==
  ASSUME TypeOK, NEW b \in Batches, NEW sel \in Dbs
  PROVE  /\ ItemsOf(b, sel) \in Seq(Item)
         /\ Chained(ItemsOf(b, sel), sel)
         /\ DbAfter(ItemsOf(b, sel), sel) = SelectedAfter(b, Len(b), sel)
PROOF
  <1> DEFINE q == ItemsOf(b, sel)
  <1>1. b \in Seq(Commands) /\ b # <<>> /\ Len(b) \in 1..Len(b) /\ DOMAIN b = 1..Len(b)
    BY CommandsAssumption
  <1>2. q \in Seq(Item)
    BY ItemsOfType
  <1>3. /\ DOMAIN q = DOMAIN b /\ Len(q) = Len(b) /\ q # <<>>
        /\ \A i \in DOMAIN b : /\ q[i].name = Name[b[i]]
                               /\ q[i].select = SelectedAfter(b, i - 1, sel)
                               /\ Name[b[i]] = "select" => q[i].db = Argument[b[i]]
    BY <1>1, <1>2 DEF ItemsOf
  <1> HIDE DEF q
  <1>4. ASSUME NEW i \in 1..Len(b) PROVE DbAfterItem(q[i]) = SelectedAfter(b, i, sel)
    BY <1>1, <1>3, SelectedAfterStep DEF DbAfterItem
  <1>5. ASSUME NEW i \in 1..Len(b) PROVE q[i].select = DbBefore(q, i, sel)
    <2>1. CASE i = 1
      BY <1>1, <1>3, <2>1, SelectedAfterStep DEF DbBefore
    <2>2. CASE i # 1
      <3>1. i - 1 \in 1..Len(b)
        BY <1>1, <2>2
      <3>. QED BY <1>1, <1>3, <1>4, <2>2, <3>1 DEF DbBefore
    <2>. QED BY <2>1, <2>2
  <1>6. Chained(q, sel) /\ DbAfter(q, sel) = SelectedAfter(b, Len(b), sel)
    BY <1>1, <1>3, <1>4, <1>5 DEF Chained, DbAfter
  <1>. QED BY <1>2, <1>6 DEF q

\* A batch without a SELECT leaves the database selected.
LEMMA NoSelectNoChange ==
  ASSUME NEW b \in Batches, NEW db, \A i \in DOMAIN b : Name[b[i]] # "select"
  PROVE  SelectedAfter(b, Len(b), db) = db
PROOF
  <1>1. b \in Seq(Commands) /\ DOMAIN b = 1..Len(b)
    BY CommandsAssumption
  <1>2. {i \in 1..Len(b) : Name[b[i]] = "select"} = {}
    BY <1>1
  <1>. QED BY <1>2 DEF SelectedAfter

------------------------------------------------------------------------------
(* Whatever belongs to a handshake carries the number of its attempt, and    *)
(* nothing carries the number of an attempt that has not connected.          *)

Handshaking(x) == x.cmd = NoCmd /\ x.name \in {"hello", "info"}

\* Items, replies and continuations of attempts before the n-th.
TimedItem(n) ==
  {x \in Item : /\ Handshaking(x) => x.epoch < n
                /\ x.name = "hello" => x.cmd = NoCmd /\ x.db = x.select}
TimedReply(n) == {r \in Reply : r.item \in TimedItem(n)}
TimedTask(n) == {m \in Microtask : m.epoch < n}

\* Everything the client and the wire hold is of attempts before the n-th.
AllTimed(n) ==
  /\ offlineQueue \in Seq(TimedItem(n)) /\ commandQueue \in Seq(TimedItem(n))
  /\ prevCommandQueue \in Seq(TimedItem(n)) /\ sent \in Seq(TimedItem(n))
  /\ replies \in Seq(TimedReply(n))
  /\ microtasks \in Seq(TimedTask(n))
  /\ \A e \in loadingTimers : e \in Nat /\ e < n

\* The first attempt that has not sent anything.
NextAttempt == IF status = "connecting" THEN epoch ELSE epoch + 1

TimeInv == AllTimed(NextAttempt)

\* Sequences over a set are closed under concatenation, and the empty one is among them.
LEMMA SeqClosed ==
  ASSUME NEW S, NEW s \in Seq(S), NEW t \in Seq(S)
  PROVE  <<>> \in Seq(S) /\ s \o t \in Seq(S)
PROOF
  OBVIOUS

\* What is of earlier attempts still is when more attempts have been made.
LEMMA TimedGrows ==
  ASSUME NEW n \in Nat, NEW m \in Nat, n <= m, AllTimed(n)
  PROVE  AllTimed(m)
PROOF
  <1>1. TimedItem(n) \subseteq TimedItem(m)
    <2>1. \A x \in Item : x.epoch \in Nat
      BY DEF Item
    <2>. QED BY <2>1 DEF TimedItem
  <1>2. TimedReply(n) \subseteq TimedReply(m)
    BY <1>1 DEF TimedReply
  <1>3. TimedTask(n) \subseteq TimedTask(m)
    <2>1. \A t \in Microtask : t.epoch \in Nat
      BY DEF Microtask
    <2>. QED BY <2>1 DEF TimedTask
  <1>4. /\ offlineQueue \in Seq(TimedItem(m)) /\ commandQueue \in Seq(TimedItem(m))
        /\ prevCommandQueue \in Seq(TimedItem(m)) /\ sent \in Seq(TimedItem(m))
    BY <1>1 DEF AllTimed
  <1>5. replies \in Seq(TimedReply(m)) /\ microtasks \in Seq(TimedTask(m))
    BY <1>2, <1>3 DEF AllTimed
  <1>6. \A e \in loadingTimers : e \in Nat /\ e < m
    BY DEF AllTimed
  <1>. QED BY <1>4, <1>5, <1>6 DEF AllTimed

\* The number of attempts only grows, by the lifecycle the client implements.
LEMMA AttemptsGrow ==
  ASSUME TypeOK, LifecycleInv, [Next]_vars
  PROVE  NextAttempt \in Nat /\ NextAttempt' \in Nat /\ NextAttempt <= NextAttempt'
PROOF
  <1>1. epoch \in Nat /\ epoch' \in Nat
    BY StepTypes DEF TypeOK, LifecycleTypes
  <1>2. LifecycleStep
    BY NextRefines
  <1>3. CASE UNCHANGED <<status, socket, epoch>>
    BY <1>1, <1>3 DEF NextAttempt
  <1>4. CASE Lifecycle!Next
    <2>1. CASE Lifecycle!Start
      <3>1. status # "connecting" /\ status' = "connecting" /\ epoch' = epoch + 1
        BY <2>1 DEF Lifecycle!Start
      <3>. QED BY <1>1, <3>1 DEF NextAttempt
    <2>2. CASE ~Lifecycle!Start
      <3>1. epoch' = epoch /\ (status' = "connecting" => status = "connecting")
        BY <1>4, <2>2 DEF Lifecycle!Next, Lifecycle!Dial, Lifecycle!CallOff, Lifecycle!Up,
                          Lifecycle!Ready, Lifecycle!Down, Lifecycle!Discard
      <3>. QED BY <1>1, <3>1 DEF NextAttempt
    <2>. QED BY <2>1, <2>2
  <1>. QED BY <1>2, <1>3, <1>4 DEF LifecycleStep

\* A command of an earlier attempt wakes a continuation of that attempt ...
LEMMA WokenTimed ==
  ASSUME NEW n \in Nat, NEW item \in TimedItem(n),
         NEW result \in HelloReplies \cup InfoReplies \cup {"ok", "error", "flushed"}
  PROVE  Woken(item, result) \in Seq(TimedTask(n))
PROOF
  <1>1. item \in Item /\ (Handshaking(item) => item.epoch < n)
    BY DEF TimedItem
  <1>2. CASE Handshaking(item)
    <2>1. [kind |-> item.name, epoch |-> item.epoch, result |-> result] \in Microtask
      BY <1>1, <1>2 DEF Item, Microtask, Handshaking
    <2>2. [kind |-> item.name, epoch |-> item.epoch, result |-> result] \in TimedTask(n)
      BY <1>1, <1>2, <2>1 DEF TimedTask
    <2>3. Woken(item, result) = <<[kind |-> item.name, epoch |-> item.epoch, result |-> result]>>
      BY <1>2 DEF Woken, Handshaking
    <2>. QED BY <2>2, <2>3
  <1>3. CASE ~Handshaking(item)
    <2>1. Woken(item, result) = <<>>
      BY <1>3 DEF Woken, Handshaking
    <2>. QED BY <2>1
  <1>. QED BY <1>2, <1>3

\* ... and so does a flushed queue of them.
LEMMA WakenedTimed ==
  ASSUME NEW n \in Nat, NEW q \in Seq(TimedItem(n))
  PROVE  Wakened(q) \in Seq(TimedTask(n))
PROOF
  <1>1. ASSUME NEW i \in DOMAIN q
        PROVE  Woken(q[i], IF q[i].name = "hello" THEN "flushed" ELSE "error") \in Seq(TimedTask(n))
    <2>1. q[i] \in TimedItem(n)
      BY ElementOfSeq
    <2>. QED BY <2>1, WokenTimed
  <1>2. [i \in DOMAIN q |-> Woken(q[i], IF q[i].name = "hello" THEN "flushed" ELSE "error")]
          \in Seq(Seq(TimedTask(n)))
    BY <1>1
  <1>. QED BY <1>2, FlattenSeqType DEF Wakened

\* A SELECT of the client belongs to no attempt.
LEMMA SelectTimed ==
  ASSUME NEW n \in Nat, NEW db \in Dbs, NEW sel \in Dbs
  PROVE  SelectItem(db, sel) \in TimedItem(n)
PROOF
  <1>1. SelectItem(db, sel) \in Item
    BY InternalType DEF SelectItem, ItemNames, Names
  <1>. QED BY <1>1 DEF SelectItem, Internal, TimedItem, Handshaking

\* What is sent again is of the attempts it was of.
LEMMA ResendTimed ==
  ASSUME NEW n \in Nat, NEW q \in Seq(TimedItem(n)), NEW db \in Dbs
  PROVE  Resend(q, db) \in Seq(TimedItem(n)) /\ DbAfter(q, db) \in Dbs
PROOF
  <1> DEFINE
    before(i) == DbBefore(q, i, db)
    step(i) == IF q[i].name = "select" THEN <<[q[i] EXCEPT !.select = before(i)]>>
               ELSE IF q[i].select = before(i) THEN <<q[i]>>
               ELSE <<SelectItem(q[i].select, before(i)), q[i]>>
    ss == [i \in DOMAIN q |-> step(i)]
  <1>0. DOMAIN q = 1..Len(q) /\ Len(q) \in Nat /\ q \in Seq(Item)
    BY DEF TimedItem
  <1>1. ASSUME NEW i \in DOMAIN q
        PROVE  step(i) \in Seq(TimedItem(n))
    <2>1. q[i] \in TimedItem(n) /\ q[i] \in Item /\ q[i].select \in Dbs
      <3>1. q[i] \in TimedItem(n)
        BY ElementOfSeq
      <3>. QED BY <3>1 DEF TimedItem, Item
    <2>2. before(i) \in Dbs
      <3>1. i = 1 \/ q[i - 1] \in Item
        BY <1>0
      <3>2. \A item \in Item : DbAfterItem(item) \in Dbs
        BY DEF DbAfterItem, Item
      <3>. QED BY <3>1, <3>2 DEF DbBefore
    <2> HIDE DEF before
    <2>3. CASE q[i].name = "select"
      <3> DEFINE x == [q[i] EXCEPT !.select = before(i)]
      <3>1. x \in Item /\ x.name = q[i].name
        BY <2>1, <2>2 DEF Item
      <3>2. x \in TimedItem(n)
        <4> HIDE DEF x
        <4>. QED BY <2>3, <3>1 DEF TimedItem, Handshaking
      <3>3. step(i) = <<x>>
        BY <2>3
      <3> HIDE DEF x, step
      <3>. QED BY <3>2, <3>3
    <2>4. CASE q[i].name # "select" /\ q[i].select = before(i)
      BY <2>1, <2>4
    <2>5. CASE q[i].name # "select" /\ q[i].select # before(i)
      <3>1. SelectItem(q[i].select, before(i)) \in TimedItem(n)
        BY <2>1, <2>2, SelectTimed
      <3>2. step(i) = <<SelectItem(q[i].select, before(i)), q[i]>>
        BY <2>5
      <3>. QED BY <2>1, <3>1, <3>2
    <2>. QED BY <2>3, <2>4, <2>5
  <1> HIDE DEF step
  <1>2. ss \in [1..Len(q) -> Seq(TimedItem(n))]
    BY <1>0, <1>1
  <1>3. ss \in Seq(Seq(TimedItem(n)))
    BY <1>0, <1>2, SeqDef
  <1>4. Resend(q, db) = FlattenSeq(ss)
    BY DEF Resend, step, before
  <1> HIDE DEF ss
  <1>5. FlattenSeq(ss) \in Seq(TimedItem(n))
    BY <1>3, FlattenSeqType
  <1>6. DbAfter(q, db) \in Dbs
    BY <1>0, ResendType
  <1>. QED BY <1>4, <1>5, <1>6

\* The application's commands belong to no attempt.
LEMMA ItemsOfTimed ==
  ASSUME TypeOK, NEW n \in Nat, NEW b \in Batches, NEW sel \in Dbs
  PROVE  ItemsOf(b, sel) \in Seq(TimedItem(n))
PROOF
  <1> DEFINE q == ItemsOf(b, sel)
  <1>1. q \in Seq(Item) /\ b \in Seq(Commands) /\ NoCmd \notin Commands
    BY ItemsOfType, CommandsAssumption
  <1>2. DOMAIN q = DOMAIN b /\ \A i \in DOMAIN b : q[i].cmd = b[i] /\ q[i].name = Name[b[i]]
    BY DEF ItemsOf
  <1>3. \A i \in DOMAIN b : b[i] \in Commands /\ Name[b[i]] \in Names
    BY <1>1, CommandsAssumption
  <1> HIDE DEF q
  <1>4. \A i \in 1..Len(q) : q[i] \in TimedItem(n)
    <2> SUFFICES ASSUME NEW i \in 1..Len(q) PROVE q[i] \in TimedItem(n)
      OBVIOUS
    <2>1. q[i] \in Item /\ i \in DOMAIN b
      BY <1>1, <1>2
    <2>2. q[i].cmd # NoCmd /\ q[i].name # "hello"
      BY <1>1, <1>2, <1>3, <2>1 DEF Names
    <2>. QED BY <2>1, <2>2 DEF TimedItem, Handshaking
  <1>5. q \in Seq(TimedItem(n))
    BY <1>1, <1>4
  <1>. QED BY <1>5 DEF q

\* Steps that change no queue, nothing on the wire and no continuation.
LEMMA QuietKeepsTimed ==
  ASSUME NEW n \in Nat, AllTimed(n),
         UNCHANGED <<offlineQueue, commandQueue, prevCommandQueue, sent, replies, microtasks, loadingTimers>>
  PROVE  AllTimed(n)'
PROOF
  BY DEF AllTimed

\* A flush: two queues are emptied and their continuations woken.
LEMMA FlushKeepsTimed ==
  ASSUME NEW n \in Nat, AllTimed(n), NEW tasks \in Seq(TimedTask(n)),
         FlushQueues(offlineQueue, commandQueue, tasks),
         UNCHANGED <<sent, replies, loadingTimers>>
  PROVE  AllTimed(n)'
PROOF
  <1>1. Wakened(offlineQueue) \in Seq(TimedTask(n)) /\ Wakened(commandQueue) \in Seq(TimedTask(n))
    BY WakenedTimed DEF AllTimed
  <1>2. microtasks' \in Seq(TimedTask(n))
    <2>1. microtasks' = (tasks \o Wakened(offlineQueue)) \o Wakened(commandQueue)
      BY DEF FlushQueues
    <2>. QED BY <1>1, <2>1
  <1>3. /\ offlineQueue' = <<>> /\ commandQueue' = <<>>
        /\ prevCommandQueue' = <<>> \/ prevCommandQueue' = prevCommandQueue
    BY Zenon DEF FlushQueues
  <1>4. /\ offlineQueue' \in Seq(TimedItem(n)) /\ commandQueue' \in Seq(TimedItem(n))
        /\ prevCommandQueue' \in Seq(TimedItem(n))
    <2>1. <<>> \in Seq(TimedItem(n))
      OBVIOUS
    <2>. QED BY <1>3, <2>1, Zenon DEF AllTimed
  <1>. QED BY <1>2, <1>4 DEF AllTimed

\* closeHandler drops items and keeps what is left.
LEMMA CloseHandlerKeepsTimed ==
  ASSUME NEW n \in Nat, AllTimed(n), NEW manual \in BOOLEAN, CloseHandler(manual),
         sent' \in Seq(TimedItem(n)), replies' \in Seq(TimedReply(n)), UNCHANGED loadingTimers
  PROVE  AllTimed(n)'
PROOF
  <1> DEFINE
    cq == AbortIncompletePipelines(commandQueue)
    oq == AbortTransactionFragments(offlineQueue)
  <1>1. cq \in Seq(TimedItem(n)) /\ oq \in Seq(TimedItem(n))
    BY KeepType DEF AllTimed, AbortIncompletePipelines, AbortTransactionFragments
  <1>2. /\ offlineQueue' = <<>> \/ offlineQueue' = oq
        /\ commandQueue' = <<>> \/ commandQueue' = cq
        /\ prevCommandQueue' = commandQueue' \/ prevCommandQueue' = prevCommandQueue
        /\ microtasks' = Wakened(oq) \o Wakened(cq) \/ microtasks' = <<>>
    BY Zenon DEF CloseHandler
  <1> HIDE DEF cq, oq
  <1>3. Wakened(oq) \in Seq(TimedTask(n)) /\ Wakened(cq) \in Seq(TimedTask(n))
    BY <1>1, WakenedTimed
  <1>4. microtasks' \in Seq(TimedTask(n))
    <2>1. <<>> \in Seq(TimedTask(n)) /\ Wakened(oq) \o Wakened(cq) \in Seq(TimedTask(n))
      BY <1>3, SeqClosed
    <2>. QED BY <1>2, <2>1, Zenon
  <1>5. /\ offlineQueue' \in Seq(TimedItem(n)) /\ commandQueue' \in Seq(TimedItem(n))
        /\ prevCommandQueue' \in Seq(TimedItem(n))
    <2>1. <<>> \in Seq(TimedItem(n))
      OBVIOUS
    <2>. QED BY <1>1, <1>2, <2>1, Zenon DEF AllTimed
  <1>. QED BY <1>4, <1>5 DEF AllTimed

\* A handshake command is sent, waits, or fails.
LEMMA SendHandshakeKeepsTimed ==
  ASSUME NEW n \in Nat, AllTimed(n), NEW item \in TimedItem(n), NEW tasks \in Seq(TimedTask(n)),
         SendHandshake(item, tasks), UNCHANGED prevCommandQueue, UNCHANGED replies,
         \A e \in loadingTimers' : e \in Nat /\ e < n
  PROVE  AllTimed(n)'
PROOF
  <1>1. /\ \/ commandQueue' = commandQueue \o <<item>> /\ sent' = sent \o <<item>>
           \/ UNCHANGED <<commandQueue, sent>>
        /\ offlineQueue' = Append(offlineQueue, item) \/ UNCHANGED offlineQueue
        /\ microtasks' = tasks \/ microtasks' = tasks \o Wakened(<<item>>)
    BY Zenon DEF SendHandshake, Write
  <1>2. <<item>> \in Seq(TimedItem(n))
    OBVIOUS
  <1>3. Wakened(<<item>>) \in Seq(TimedTask(n))
    BY <1>2, WakenedTimed
  <1>4. microtasks' \in Seq(TimedTask(n))
    <2>1. tasks \o Wakened(<<item>>) \in Seq(TimedTask(n))
      BY <1>3, SeqClosed
    <2>. QED BY <1>1, <2>1, Zenon
  <1>5. /\ offlineQueue' \in Seq(TimedItem(n)) /\ commandQueue' \in Seq(TimedItem(n))
        /\ prevCommandQueue' \in Seq(TimedItem(n)) /\ sent' \in Seq(TimedItem(n))
    <2>1. /\ commandQueue \in Seq(TimedItem(n)) /\ sent \in Seq(TimedItem(n))
          /\ offlineQueue \in Seq(TimedItem(n)) /\ prevCommandQueue \in Seq(TimedItem(n))
      BY DEF AllTimed
    <2>2. /\ commandQueue \o <<item>> \in Seq(TimedItem(n)) /\ sent \o <<item>> \in Seq(TimedItem(n))
          /\ Append(offlineQueue, item) \in Seq(TimedItem(n))
      BY <2>1
    <2>. QED BY <1>1, <2>1, <2>2, Zenon
  <1>. QED BY <1>4, <1>5 DEF AllTimed

\* The handshake's own items are of the attempt they are sent for.
LEMMA HandshakeTimed ==
  ASSUME TypeOK, NEW n \in Nat
  PROVE  /\ epoch < n => HelloItem \in TimedItem(n)
         /\ \A e \in Nat : e < n => InfoItem(e) \in TimedItem(n)
PROOF
  <1>1. HelloItem \in Item /\ \A e \in Nat : InfoItem(e) \in Item
    BY HandshakeItemTypes
  <1>. QED BY <1>1 DEF HelloItem, InfoItem, Internal, TimedItem, Handshaking

\* The continuations of a handshake: each takes itself off, and may send a command.
LEMMA ContinuationKeepsTimed ==
  ASSUME Sound, NEW n \in Nat, AllTimed(n), Continuation, ~BecomeReady
  PROVE  AllTimed(n)'
PROOF
  <1> DEFINE rest == Tail(microtasks)
  <1>1. microtasks # <<>>
    BY Zenon DEF Continuation, StaleContinuation, Downgrade, ReadyCheck, BecomeReady, WrongRole,
                 HandshakeFailed, StillLoading
  <1>2. rest \in Seq(TimedTask(n)) /\ Head(microtasks) \in TimedTask(n)
    BY <1>1, HeadTailProperties DEF AllTimed
  <1>3. Head(microtasks).epoch \in Nat /\ Head(microtasks).epoch < n
    BY <1>2 DEF TimedTask, Microtask
  <1>4. CASE StaleContinuation \/ WrongRole \/ StillLoading
    <2>1. /\ microtasks' = rest
          /\ UNCHANGED <<offlineQueue, commandQueue, prevCommandQueue, sent, replies>>
          /\ \/ loadingTimers' = loadingTimers
             \/ loadingTimers' = loadingTimers \cup {Head(microtasks).epoch}
      BY <1>4, Zenon DEF StaleContinuation, WrongRole, StillLoading, NothingSent, ContinuationFrame,
                         queues, wire
    <2>2. \A e \in loadingTimers' : e \in Nat /\ e < n
      BY <1>3, <2>1 DEF AllTimed
    <2> HIDE DEF rest
    <2>. QED BY <1>2, <2>1, <2>2 DEF AllTimed
  <1>5. CASE HandshakeFailed
    <2>1. /\ FlushQueues(offlineQueue, commandQueue, rest)
          /\ UNCHANGED <<sent, replies, loadingTimers>>
      BY <1>5, Zenon DEF HandshakeFailed, RecoverFromFatalError, ContinuationFrame
    <2>. QED BY <1>2, <2>1, FlushKeepsTimed
  <1>6. CASE Downgrade \/ ReadyCheck
    <2>1. PICK item \in {HelloItem, InfoItem(epoch)} : SendHandshake(item, rest)
      BY <1>6, Zenon DEF Downgrade, ReadyCheck
    <2>2. UNCHANGED <<prevCommandQueue, replies, loadingTimers>> /\ Head(microtasks).epoch = epoch
      BY <1>6, Zenon DEF Downgrade, ReadyCheck, ContinuationFrame, IsActiveConnect
    <2>3. item \in TimedItem(n)
      BY <1>3, <2>1, <2>2, HandshakeTimed DEF Sound
    <2>4. \A e \in loadingTimers' : e \in Nat /\ e < n
      BY <2>2 DEF AllTimed
    <2> HIDE DEF rest
    <2>. QED BY <1>2, <2>1, <2>2, <2>3, <2>4, SendHandshakeKeepsTimed
  <1>. QED BY <1>4, <1>5, <1>6 DEF Continuation

\* What readyHandler leaves of the continuations.
LEMMA ReplayTasks ==
  ASSUME BecomeReady
  PROVE  /\ microtasks # <<>> /\ UNCHANGED loadingTimers
         /\ microtasks' = Tail(microtasks) \/ microtasks' = Tail(microtasks) \o Wakened(ReplayAll)
PROOF
  <1>1. ReadyHandler(Tail(microtasks)) /\ microtasks # <<>> /\ UNCHANGED loadingTimers
    BY Zenon DEF BecomeReady
  <1>2. \/ microtasks' = Tail(microtasks)
        \/ microtasks' = (IF ReplayStays THEN Tail(microtasks) ELSE Tail(microtasks) \o Wakened(ReplayAll))
    BY <1>1, Zenon DEF ReadyHandler, ReplayAll, ReplayFirst, ReplaySecond, ReplayWaiting, ReplayLast,
                       ReplayStays
  <1>. QED BY <1>1, <1>2, Zenon

\* What readyHandler sends again.
LEMMA BecomeReadyKeepsTimed ==
  ASSUME Sound, NEW n \in Nat, AllTimed(n), BecomeReady
  PROVE  AllTimed(n)'
PROOF
  <1>1. condition.select \in Dbs /\ (prevSelect = NoDb \/ prevSelect \in Dbs)
    BY DEF Sound, TypeOK, DatabaseTypes
  <1>2. Unfulfilled \in Seq(TimedItem(n)) /\ offlineQueue \in Seq(TimedItem(n))
    BY DEF Unfulfilled, AllTimed
  <1>3. ReplayFirst \in Seq(TimedItem(n)) /\ DbAfter(Unfulfilled, condition.select) \in Dbs
    BY <1>1, <1>2, ResendTimed DEF ReplayFirst
  <1>4. ReplayWaiting \in Seq(TimedItem(n))
    BY <1>2, <1>3 DEF ReplayWaiting
  <1>5. /\ ReplaySecond \in Seq(TimedItem(n))
        /\ DbAfter(ReplayWaiting, DbAfter(Unfulfilled, condition.select)) \in Dbs
    BY <1>3, <1>4, ResendTimed DEF ReplaySecond
  <1>6. ReplayLast \in Seq(TimedItem(n))
    <2> DEFINE
      afterAll == DbAfter(ReplayWaiting, DbAfter(Unfulfilled, condition.select))
      finalSelect == IF prevSelect = NoDb THEN condition.select ELSE prevSelect
    <2>1. finalSelect \in Dbs
      BY <1>1
    <2> HIDE DEF finalSelect
    <2>2. SelectItem(finalSelect, afterAll) \in TimedItem(n)
      BY <1>5, <2>1, SelectTimed
    <2>3. ReplayLast = <<>> \/ ReplayLast = <<SelectItem(finalSelect, afterAll)>>
      BY DEF ReplayLast, finalSelect
    <2>4. <<>> \in Seq(TimedItem(n)) /\ <<SelectItem(finalSelect, afterAll)>> \in Seq(TimedItem(n))
      BY <2>2
    <2>. QED BY <2>3, <2>4, Zenon
  <1>7. ReplayAll \in Seq(TimedItem(n))
    BY <1>3, <1>5, <1>6 DEF ReplayAll
  <1>8. /\ prevCommandQueue' = <<>> /\ UNCHANGED replies
        /\ ReplayWritten \/ ReplayKept \/ ReplayQuit \/ ReplayRejected
    BY ReplayWays
  <1>9. commandQueue' \in Seq(TimedItem(n)) /\ sent' \in Seq(TimedItem(n))
    <2>1. \/ commandQueue' = commandQueue \o ReplayAll /\ sent' = sent \o ReplayAll
          \/ UNCHANGED <<commandQueue, sent>>
      BY <1>8, Zenon DEF ReplayWritten, ReplayKept, ReplayQuit, ReplayRejected
    <2>2. commandQueue \in Seq(TimedItem(n)) /\ sent \in Seq(TimedItem(n))
      BY DEF AllTimed
    <2>3. commandQueue \o ReplayAll \in Seq(TimedItem(n)) /\ sent \o ReplayAll \in Seq(TimedItem(n))
      BY <1>7, <2>2
    <2>. QED BY <2>1, <2>2, <2>3, Zenon
  <1>10. offlineQueue' \in Seq(TimedItem(n))
    <2>1. \/ offlineQueue' = <<>> \/ offlineQueue' = ReplaySecond \o ReplayLast
          \/ ReplaySecond # <<>> /\ offlineQueue' = Tail(ReplaySecond) \o ReplayLast
      BY <1>8, Zenon DEF ReplayWritten, ReplayKept, ReplayQuit, ReplayRejected
    <2>2. ReplaySecond # <<>> => Tail(ReplaySecond) \in Seq(TimedItem(n))
      BY <1>5, HeadTailProperties
    <2>3. /\ <<>> \in Seq(TimedItem(n)) /\ ReplaySecond \o ReplayLast \in Seq(TimedItem(n))
          /\ ReplaySecond # <<>> => Tail(ReplaySecond) \o ReplayLast \in Seq(TimedItem(n))
      BY <1>5, <1>6, <2>2
    <2>. QED BY <2>1, <2>3, Zenon
  <1>11. microtasks' \in Seq(TimedTask(n)) /\ UNCHANGED loadingTimers
    <2>1. /\ microtasks # <<>> /\ UNCHANGED loadingTimers
          /\ microtasks' = Tail(microtasks) \/ microtasks' = Tail(microtasks) \o Wakened(ReplayAll)
      BY ReplayTasks
    <2>2. Tail(microtasks) \in Seq(TimedTask(n)) /\ Wakened(ReplayAll) \in Seq(TimedTask(n))
      BY <1>7, <2>1, WakenedTimed, HeadTailProperties DEF AllTimed
    <2>3. Tail(microtasks) \o Wakened(ReplayAll) \in Seq(TimedTask(n))
      BY <2>2
    <2>. QED BY <2>1, <2>2, <2>3, Zenon
  <1>. QED BY <1>8, <1>9, <1>10, <1>11 DEF AllTimed

\* The application's commands join the command queue or the offline queue.
LEMMA IssueKeepsTimed ==
  ASSUME Sound, NEW n \in Nat, AllTimed(n), NEW b \in Batches, IssueWritten(b) \/ IssueQueued(b)
  PROVE  AllTimed(n)'
PROOF
  <1>1. /\ condition.select \in Dbs /\ CurrentDb \in Dbs
        /\ \A sel \in Dbs : ItemsOf(b, sel) \in Seq(TimedItem(n))
    BY BatchDbTypes, ItemsOfTimed DEF Sound
  <1>2. /\ commandQueue \in Seq(TimedItem(n)) /\ sent \in Seq(TimedItem(n))
        /\ offlineQueue \in Seq(TimedItem(n))
    BY DEF AllTimed
  <1>3. CASE IssueWritten(b)
    <2> DEFINE new == ItemsOf(b, condition.select)
    <2>1. /\ commandQueue' = commandQueue \o new /\ sent' = sent \o new
          /\ UNCHANGED <<offlineQueue, prevCommandQueue, replies, microtasks, loadingTimers>>
      BY <1>3, Zenon DEF IssueWritten, Write, loop
    <2>2. new \in Seq(TimedItem(n))
      BY <1>1
    <2> HIDE DEF new
    <2>3. commandQueue \o new \in Seq(TimedItem(n)) /\ sent \o new \in Seq(TimedItem(n))
      BY <1>2, <2>2, SeqClosed
    <2>. QED BY <2>1, <2>3 DEF AllTimed
  <1>4. CASE IssueQueued(b)
    <2> DEFINE new == ItemsOf(b, CurrentDb)
    <2>1. /\ offlineQueue' = offlineQueue \o new
          /\ UNCHANGED <<commandQueue, sent, prevCommandQueue, replies, microtasks, loadingTimers>>
      BY <1>4, Zenon DEF IssueQueued, loop, wire
    <2>2. new \in Seq(TimedItem(n))
      BY <1>1
    <2> HIDE DEF new
    <2>3. offlineQueue \o new \in Seq(TimedItem(n))
      BY <1>2, <2>2, SeqClosed
    <2>. QED BY <2>1, <2>3 DEF AllTimed
  <1>. QED BY <1>3, <1>4

\* The other calls, timers and steps that touch no queue; and the ends of connections.
LEMMA OthersKeepTimed ==
  ASSUME NEW n \in Nat, AllTimed(n), TypeOK,
         \/ Connect \/ (\E reconnect \in BOOLEAN : Disconnect(reconnect))
         \/ (\E b \in Batches : IssueQuitOffline(b) \/ IssueRefused(b))
         \/ ReconnectTimer \/ CreateSocket \/ AbortConnecting
         \/ StreamClosed \/ StreamLost \/ (\E c \in Commands : TimeOut(c)) \/ UNCHANGED vars
  PROVE  AllTimed(n)'
PROOF
  <1>1. CASE \E reconnect \in BOOLEAN : Disconnect(reconnect)
    <2>1. PICK reconnect \in BOOLEAN : Disconnect(reconnect)
      BY <1>1
    <2>2. UNCHANGED <<sent, replies, loadingTimers>>
      BY <2>1, Zenon DEF Disconnect, wire
    <2>3. CASE status = "wait"
      <3>1. CloseHandler(manuallyClosing \/ ~reconnect)
        BY <2>1, <2>3, Zenon DEF Disconnect
      <3>2. (manuallyClosing \/ ~reconnect) \in BOOLEAN
        OBVIOUS
      <3>3. sent' \in Seq(TimedItem(n)) /\ replies' \in Seq(TimedReply(n))
        BY <2>2 DEF AllTimed
      <3>. QED BY <2>2, <3>1, <3>2, <3>3, CloseHandlerKeepsTimed
    <2>4. CASE status # "wait"
      <3>1. UNCHANGED <<offlineQueue, commandQueue, prevCommandQueue, microtasks>>
        BY <2>1, <2>4, Zenon DEF Disconnect, queues
      <3>. QED BY <2>2, <3>1, QuietKeepsTimed
    <2>. QED BY <2>3, <2>4
  <1>2. CASE StreamClosed \/ StreamLost
    <2>1. Close
      BY <1>2, Zenon DEF StreamClosed, StreamLost
    <2>2. /\ CloseHandler(manuallyClosing) /\ sent' = <<>> /\ replies' = <<>>
          /\ UNCHANGED loadingTimers
      BY <2>1, Zenon DEF Close
    <2>3. sent' \in Seq(TimedItem(n)) /\ replies' \in Seq(TimedReply(n)) /\ manuallyClosing \in BOOLEAN
      BY <2>2 DEF TypeOK, LifecycleTypes
    <2>. QED BY <2>2, <2>3, CloseHandlerKeepsTimed
  <1>3. CASE AbortConnecting
    <2>1. FlushQueues(offlineQueue, commandQueue, <<>>) /\ UNCHANGED <<sent, replies, loadingTimers>>
      BY <1>3, Zenon DEF AbortConnecting, wire
    <2>2. <<>> \in Seq(TimedTask(n))
      OBVIOUS
    <2>. QED BY <2>1, <2>2, FlushKeepsTimed
  <1>4. CASE \/ Connect
             \/ \E b \in Batches : IssueQuitOffline(b) \/ IssueRefused(b)
             \/ ReconnectTimer \/ CreateSocket
             \/ (\E c \in Commands : TimeOut(c)) \/ UNCHANGED vars
    <2>1. UNCHANGED <<offlineQueue, commandQueue, prevCommandQueue, sent, replies, microtasks, loadingTimers>>
      BY <1>4, Zenon DEF Connect, IssueQuitOffline, IssueRefused, ReconnectTimer, CreateSocket, TimeOut,
                         vars, queues, wire, loop
    <2>. QED BY <2>1, QuietKeepsTimed
  <1>. QED BY <1>1, <1>2, <1>3, <1>4

\* The handshake of an attempt begins: it is the last attempt from now on.
LEMMA ConnectHandlerKeepsTimed ==
  ASSUME Sound, NEW n \in Nat, AllTimed(n), epoch < n, ConnectHandler
  PROVE  AllTimed(n)'
PROOF
  <1>1. HelloItem \in TimedItem(n)
    BY HandshakeTimed DEF Sound
  <1>2. <<HelloItem>> \in Seq(TimedItem(n)) /\ <<>> \in Seq(TimedItem(n)) /\ <<>> \in Seq(TimedTask(n))
    BY <1>1
  <1>3. Wakened(<<HelloItem>>) \in Seq(TimedTask(n))
    BY <1>2, WakenedTimed
  <1>4. /\ commandQueue' = <<>> \/ commandQueue' = <<HelloItem>>
        /\ sent' = <<>> \/ sent' = <<HelloItem>>
        /\ offlineQueue' = Append(offlineQueue, HelloItem) \/ offlineQueue' = offlineQueue
        /\ microtasks' = <<>> \/ microtasks' = Wakened(<<HelloItem>>)
        /\ UNCHANGED <<prevCommandQueue, replies, loadingTimers>>
    BY Zenon DEF ConnectHandler, ResetCommandQueue
  <1>5. Append(offlineQueue, HelloItem) \in Seq(TimedItem(n)) /\ offlineQueue \in Seq(TimedItem(n))
    BY <1>1 DEF AllTimed
  <1>6. /\ commandQueue' \in Seq(TimedItem(n)) /\ sent' \in Seq(TimedItem(n))
        /\ offlineQueue' \in Seq(TimedItem(n)) /\ microtasks' \in Seq(TimedTask(n))
    BY <1>2, <1>3, <1>4, <1>5, Zenon
  <1>. QED BY <1>4, <1>6 DEF AllTimed

\* The ready check is asked again.
LEMMA LoadingTimerKeepsTimed ==
  ASSUME Sound, NEW n \in Nat, AllTimed(n), LoadingTimer
  PROVE  AllTimed(n)'
PROOF
  <1>1. PICK e \in loadingTimers : loadingTimers' = loadingTimers \ {e} /\ SendHandshake(InfoItem(e), <<>>)
    BY Zenon DEF LoadingTimer
  <1>2. e \in Nat /\ e < n /\ \A f \in loadingTimers' : f \in Nat /\ f < n
    BY <1>1 DEF AllTimed
  <1>3. InfoItem(e) \in TimedItem(n) /\ <<>> \in Seq(TimedTask(n))
    BY <1>2, HandshakeTimed DEF Sound
  <1>4. UNCHANGED prevCommandQueue /\ UNCHANGED replies
    BY Zenon DEF LoadingTimer
  <1>. QED BY <1>1, <1>2, <1>3, <1>4, SendHandshakeKeepsTimed

\* A command leaves the wire, its reply sets out.
LEMMA ServerKeepsTimed ==
  ASSUME Sound, NEW n \in Nat, AllTimed(n), ServerHandshake \/ ServerCommand
  PROVE  AllTimed(n)'
PROOF
  <1>1. /\ sent # <<>> /\ sent \in Seq(TimedItem(n)) /\ replies \in Seq(TimedReply(n))
        /\ UNCHANGED <<offlineQueue, commandQueue, prevCommandQueue, microtasks, loadingTimers>>
    BY DEF ServerHandshake, ServerCommand, ServerActive, ServerFrame, queues, loop, AllTimed
  <1>2. PICK reply \in RepliesTo(Head(sent)) : Answer(Head(sent), reply)
    BY Zenon DEF ServerHandshake, ServerCommand
  <1>3. Head(sent) \in TimedItem(n) /\ Tail(sent) \in Seq(TimedItem(n))
    BY <1>1, HeadTailProperties
  <1> DEFINE x == [item |-> Head(sent), reply |-> reply]
  <1>4. x \in TimedReply(n)
    <2>1. Head(sent) \in Item
      BY <1>3 DEF TimedItem
    <2>2. x \in Reply /\ x.item = Head(sent)
      BY <1>2, <2>1 DEF Reply, RepliesTo
    <2> HIDE DEF x
    <2>. QED BY <1>3, <2>2 DEF TimedReply
  <1>5. sent' = Tail(sent) /\ replies' = Append(replies, x)
    BY <1>2 DEF Answer
  <1> HIDE DEF x
  <1>6. Append(replies, x) \in Seq(TimedReply(n))
    BY <1>1, <1>4
  <1>. QED BY <1>1, <1>3, <1>5, <1>6 DEF AllTimed

\* A reply settles a command and wakes its continuation, or the command is sent again.
LEMMA RepliesKeepTimed ==
  ASSUME Sound, NEW n \in Nat, AllTimed(n), ReturnReply \/ ReturnError \/ ReturnFatalError
  PROVE  AllTimed(n)'
PROOF
  <1>1. /\ replies # <<>> /\ UNCHANGED <<prevCommandQueue, sent, loadingTimers>>
    BY Zenon DEF ReturnReply, ReturnError, ReturnFatalError, ReplyArrives, wire
  <1>2. /\ commandQueue \in Seq(TimedItem(n)) /\ offlineQueue \in Seq(TimedItem(n))
        /\ replies \in Seq(TimedReply(n)) /\ microtasks \in Seq(TimedTask(n))
    BY DEF AllTimed
  <1>3. Tail(replies) \in Seq(TimedReply(n)) /\ Head(replies) \in TimedReply(n)
    BY <1>1, <1>2, HeadTailProperties
  <1>4. CASE ReturnFatalError
    <2>1. /\ microtasks' = microtasks \o Wakened(commandQueue) /\ commandQueue' = <<>>
          /\ UNCHANGED <<offlineQueue, replies>>
      BY <1>4, Zenon DEF ReturnFatalError, wire
    <2>2. Wakened(commandQueue) \in Seq(TimedTask(n)) /\ <<>> \in Seq(TimedItem(n))
      BY <1>2, WakenedTimed
    <2>3. microtasks \o Wakened(commandQueue) \in Seq(TimedTask(n))
      BY <1>2, <2>2, SeqClosed
    <2>. QED BY <1>1, <2>1, <2>2, <2>3 DEF AllTimed
  <1>5. CASE ReturnReply \/ ReturnError
    <2> DEFINE item == Head(commandQueue)
               reply == Head(replies).reply
    <2>1. commandQueue # <<>> /\ commandQueue' = Tail(commandQueue) /\ replies' = Tail(replies)
      BY <1>5, Zenon DEF ReturnReply, ReturnError, ShiftCommand
    <2>2. \/ offlineQueue' = offlineQueue
          \/ offlineQueue' = offlineQueue \o Resend(<<item>>, condition.select)
      BY <1>5, Zenon DEF ReturnReply, ReturnError
    <2>3. \/ microtasks' = microtasks
          \/ microtasks' = microtasks \o Woken(item, reply)
          \/ microtasks' = microtasks \o Woken(item, "error")
      BY <1>5, Zenon DEF ReturnReply, ReturnError
    <2>4. item \in TimedItem(n) /\ Tail(commandQueue) \in Seq(TimedItem(n))
      BY <1>2, <2>1, HeadTailProperties
    <2>5. reply \in HelloReplies \cup InfoReplies \cup {"ok", "error"}
      BY <1>3 DEF TimedReply, Reply
    <2> HIDE DEF item, reply
    <2>6. Woken(item, reply) \in Seq(TimedTask(n)) /\ Woken(item, "error") \in Seq(TimedTask(n))
      <3>1. \A r \in HelloReplies \cup InfoReplies \cup {"ok", "error", "flushed"} :
              Woken(item, r) \in Seq(TimedTask(n))
        BY <2>4, WokenTimed
      <3>. QED BY <2>5, <3>1
    <2>7. microtasks' \in Seq(TimedTask(n))
      <3>1. /\ microtasks \o Woken(item, reply) \in Seq(TimedTask(n))
            /\ microtasks \o Woken(item, "error") \in Seq(TimedTask(n))
        BY <1>2, <2>6
      <3>. QED BY <1>2, <2>3, <3>1, Zenon
    <2>8. offlineQueue' \in Seq(TimedItem(n))
      <3>1. condition.select \in Dbs /\ <<item>> \in Seq(TimedItem(n))
        BY <2>4 DEF Sound, TypeOK, DatabaseTypes
      <3>2. Resend(<<item>>, condition.select) \in Seq(TimedItem(n))
        BY <3>1, ResendTimed
      <3>3. offlineQueue \o Resend(<<item>>, condition.select) \in Seq(TimedItem(n))
        BY <1>2, <3>2, SeqClosed
      <3>. QED BY <1>2, <2>2, <3>3, Zenon
    <2>. QED BY <1>1, <1>3, <2>1, <2>4, <2>7, <2>8 DEF AllTimed
  <1>. QED BY <1>4, <1>5

\* Put together: what is held is always of attempts that have connected.
LEMMA TimeKeeps ==
  ASSUME Sound, TimeInv, [Next]_vars
  PROVE  TimeInv'
PROOF
  <1> USE DEF Sound
  <1>1. NextAttempt \in Nat /\ NextAttempt' \in Nat /\ NextAttempt <= NextAttempt'
    BY AttemptsGrow
  <1>2. PICK n \in Nat : n = NextAttempt'
    BY <1>1
  <1>3. AllTimed(n)
    BY <1>1, <1>2, TimedGrows DEF TimeInv
  <1>4. AllTimed(n)'
    <2>1. CASE \E b \in Batches : IssueWritten(b) \/ IssueQueued(b)
      BY <1>3, <2>1, IssueKeepsTimed
    <2>2. CASE \/ Connect \/ (\E reconnect \in BOOLEAN : Disconnect(reconnect))
               \/ (\E b \in Batches : IssueQuitOffline(b) \/ IssueRefused(b))
               \/ ReconnectTimer \/ CreateSocket \/ AbortConnecting
               \/ StreamClosed \/ StreamLost \/ (\E c \in Commands : TimeOut(c)) \/ UNCHANGED vars
      BY <1>3, <2>2, OthersKeepTimed
    <2>3. CASE ConnectHandler
      <3>1. n = epoch + 1 /\ epoch \in Nat
        BY <1>2, <2>3 DEF ConnectHandler, NextAttempt, TypeOK, LifecycleTypes
      <3>2. epoch < n
        BY <3>1
      <3>. QED BY <1>3, <2>3, <3>2, ConnectHandlerKeepsTimed
    <2>4. CASE LoadingTimer
      BY <1>3, <2>4, LoadingTimerKeepsTimed
    <2>5. CASE Continuation
      BY <1>3, <2>5, ContinuationKeepsTimed, BecomeReadyKeepsTimed
    <2>6. CASE ServerHandshake \/ ServerCommand
      BY <1>3, <2>6, ServerKeepsTimed
    <2>7. CASE ReturnReply \/ ReturnError \/ ReturnFatalError
      BY <1>3, <2>7, RepliesKeepTimed
    <2>. QED
      BY <2>1, <2>2, <2>3, <2>4, <2>5, <2>6, <2>7, Zenon DEF Next, System, Application
  <1>. QED BY <1>2, <1>4 DEF TimeInv

\* Nothing is held before the first attempt.
LEMMA TimeInit == Init => TimeInv
PROOF
  <1> SUFFICES ASSUME Init PROVE TimeInv
    OBVIOUS
  <1>1. /\ offlineQueue = <<>> /\ commandQueue = <<>> /\ prevCommandQueue = <<>>
        /\ sent = <<>> /\ replies = <<>> /\ microtasks = <<>> /\ loadingTimers = {}
    BY DEF Init
  <1>. QED BY <1>1 DEF TimeInv, AllTimed

------------------------------------------------------------------------------
(* The connection and the database the client has recorded.                  *)

\* What the server runs on a connection that the client still writes to ends in the
\* database condition.select records, and each command finds the database recorded for it ...
Live == StreamWritable /\ serverDb # NoDb
InStep == Chained(sent, serverDb) /\ DbAfter(sent, serverDb) = condition.select

\* ... but for the time until the server has run HELLO, which selects the database, and,
\* once it refused HELLO, until the client closes the connection.  No command of the
\* application but a SELECT or INFO is written in that time, and nothing of this
\* handshake succeeds after the refusal.
Quiet(e) == {x \in Item : x.name # "get" /\ ~(Handshaking(x) /\ x.epoch = e)}
FailedReply(e) == {r \in Reply : Handshaking(r.item) /\ r.item.epoch = e => r.reply = "error"}
FailedTask(e) == {m \in Microtask : m.epoch = e => m.result = "error"}

Failing ==
  /\ status = "connect" /\ epoch \notin loadingTimers
  /\ microtasks \in Seq(FailedTask(epoch)) /\ replies \in Seq(FailedReply(epoch))
Greeting ==
  /\ sent # <<>> /\ Head(sent).name = "hello" /\ Head(sent).cmd = NoCmd
  /\ Tail(sent) \in Seq(Quiet(epoch))
  /\ Chained(Tail(sent), Head(sent).db)
  /\ DbAfter(Tail(sent), Head(sent).db) = condition.select
Early == Greeting \/ sent \in Seq(Quiet(epoch))

NoGet(q) == \A i \in DOMAIN q : q[i].name # "get"

\* The inductive invariant behind RunsInRecordedDb.
StepInv ==
  /\ status = "connect" => condition.handshake
  /\ serverDb # NoDb => Chained(sent, serverDb) \/ NoGet(sent)
  /\ Live => InStep \/ (Failing /\ Early)

\* Early there is no GET on the wire.
LEMMA EarlyNoGet ==
  ASSUME TypeOK, Early
  PROVE  NoGet(sent)
PROOF
  <1>1. sent \in Seq(Item)
    BY DEF TypeOK, WireTypes
  <1>2. CASE sent \in Seq(Quiet(epoch))
    <2>1. \A i \in DOMAIN sent : sent[i] \in Quiet(epoch)
      BY <1>2
    <2>. QED BY <2>1 DEF Quiet, NoGet
  <1>3. CASE Greeting
    <2>1. sent # <<>> /\ Head(sent).name = "hello" /\ Tail(sent) \in Seq(Quiet(epoch))
      BY <1>3 DEF Greeting
    <2> DEFINE t == Tail(sent)
    <2>2. /\ Head(sent) = sent[1] /\ Len(t) = Len(sent) - 1
          /\ \A i \in 1..Len(t) : t[i] = sent[i + 1]
      BY <1>1, <2>1, HeadTailProperties
    <2>3. t \in Seq(Quiet(epoch)) /\ Len(sent) \in Nat /\ DOMAIN sent = 1..Len(sent)
      BY <1>1, <2>1
    <2> HIDE DEF t
    <2>4. \A i \in 1..Len(t) : t[i].name # "get"
      BY <2>3 DEF Quiet
    <2> SUFFICES ASSUME NEW i \in DOMAIN sent PROVE sent[i].name # "get"
      BY DEF NoGet
    <2>5. CASE i = 1
      BY <2>1, <2>2, <2>5
    <2>6. CASE i # 1
      <3>1. i - 1 \in 1..Len(t) /\ (i - 1) + 1 = i
        BY <2>2, <2>3, <2>6
      <3>. QED BY <2>2, <2>4, <3>1
    <2>. QED BY <2>5, <2>6
  <1>. QED BY <1>2, <1>3 DEF Early

\* A command whose handshake is over wakes nothing of this one, a failed one an error.
LEMMA WokenFails ==
  ASSUME NEW e \in Nat, NEW item \in Item,
         NEW result \in HelloReplies \cup InfoReplies \cup {"ok", "error", "flushed"},
         Handshaking(item) /\ item.epoch = e => result = "error"
  PROVE  Woken(item, result) \in Seq(FailedTask(e))
PROOF
  <1>1. CASE Handshaking(item)
    <2> DEFINE m == [kind |-> item.name, epoch |-> item.epoch, result |-> result]
    <2>1. m \in Microtask /\ m.epoch = item.epoch /\ m.result = result
      BY <1>1 DEF Item, Microtask, Handshaking
    <2>2. Woken(item, result) = <<m>>
      BY <1>1 DEF Woken, Handshaking
    <2> HIDE DEF m
    <2>3. m \in FailedTask(e)
      BY <1>1, <2>1 DEF FailedTask
    <2>. QED BY <2>2, <2>3
  <1>2. CASE ~Handshaking(item)
    <2>1. Woken(item, result) = <<>>
      BY <1>2 DEF Woken, Handshaking
    <2>. QED BY <2>1
  <1>. QED BY <1>1, <1>2

\* The client ends the stream, or has none: what the server runs is what was written.
LEMMA EndedKeepsStep ==
  ASSUME StepInv, UNCHANGED <<sent, serverDb>>, ~StreamWritable',
         status' = "connect" => condition'.handshake
  PROVE  StepInv'
PROOF
  <1>1. ~Live'
    BY DEF Live
  <1>2. serverDb' # NoDb => Chained(sent, serverDb)' \/ NoGet(sent)'
    BY DEF StepInv, Chained, NoGet, DbBefore
  <1>. QED BY <1>1, <1>2 DEF StepInv

\* Nothing is written, run or answered.
LEMMA QuietKeepsStep ==
  ASSUME StepInv,
         UNCHANGED <<sent, serverDb, socket, ended, status, epoch>>,
         condition'.handshake = condition.handshake,
         Live => condition'.select = condition.select,
         Failing => Failing'
  PROVE  StepInv'
PROOF
  <1>1. (Chained(sent, serverDb) => Chained(sent, serverDb)') /\ (NoGet(sent) => NoGet(sent)')
    BY DEF Chained, NoGet, DbBefore
  <1>2. Live' <=> Live
    BY DEF Live, StreamWritable
  <1>3. Live /\ InStep => InStep'
    BY <1>1 DEF InStep, DbAfter
  <1>4. Live /\ Early => Early'
    BY DEF Early, Greeting, Quiet, Chained, DbAfter, DbBefore
  <1>. QED BY <1>1, <1>2, <1>3, <1>4 DEF StepInv

\* Writing a chain of commands to a connection that is in step, or early the commands
\* that do not belong to this handshake.
LEMMA WriteKeepsStep ==
  ASSUME Sound, StepInv, StreamWritable,
         NEW items \in Seq(Item), Chained(items, condition.select),
         sent' = sent \o items, serverDb' = serverDb, epoch' = epoch,
         condition'.select = DbAfter(items, condition.select),
         status' = "connect" => condition'.handshake,
         Failing /\ Early => Failing' /\ items \in Seq(Quiet(epoch))
  PROVE  StepInv'
PROOF
  <1>1. sent \in Seq(Item)
    BY DEF Sound, TypeOK, WireTypes
  <1>2. CASE serverDb = NoDb
    BY <1>2 DEF StepInv, Live
  <1>3. CASE serverDb # NoDb /\ InStep
    <2>1. /\ Chained(sent, serverDb) /\ DbAfter(sent, serverDb) = condition.select
          /\ Chained(items, DbAfter(sent, serverDb))
      BY <1>3 DEF InStep
    <2>2. /\ Chained(sent \o items, serverDb)
          /\ DbAfter(sent \o items, serverDb) = DbAfter(items, condition.select)
      BY <1>1, <2>1, ChainedConcat
    <2>3. InStep'
      BY <2>2 DEF InStep, Chained, DbBefore, DbAfter
    <2>. QED BY <2>3 DEF StepInv, InStep
  <1>4. CASE serverDb # NoDb /\ Failing /\ Early
    <2>1. Failing' /\ items \in Seq(Quiet(epoch))
      BY <1>4
    <2>2. Early'
      <3>1. CASE sent \in Seq(Quiet(epoch))
        <4>1. sent \o items \in Seq(Quiet(epoch))
          BY <2>1, <3>1, SeqClosed
        <4>. QED BY <4>1 DEF Early, Quiet
      <3>2. CASE Greeting
        <4> DEFINE h == Head(sent)
                   t == Tail(sent)
        <4>1. /\ sent # <<>> /\ h.name = "hello" /\ h.cmd = NoCmd /\ t \in Seq(Quiet(epoch))
              /\ Chained(t, h.db) /\ DbAfter(t, h.db) = condition.select
          BY <3>2 DEF Greeting
        <4>2. sent \o items # <<>> /\ Head(sent \o items) = h /\ Tail(sent \o items) = t \o items
          <5>1. h \in Item /\ t \in Seq(Item) /\ sent = <<h>> \o t
            BY <1>1, <4>1, HeadThenTail, HeadTailProperties
          <5> HIDE DEF h, t
          <5>2. /\ (<<h>> \o t) \o items = <<h>> \o (t \o items)
                /\ t \o items \in Seq(Item)
            BY <5>1
          <5>3. sent \o items = <<h>> \o (t \o items)
            BY <5>1, <5>2
          <5>4. /\ Head(<<h>> \o (t \o items)) = h /\ Tail(<<h>> \o (t \o items)) = t \o items
                /\ <<h>> \o (t \o items) # <<>>
            BY <5>1, <5>2, TailOfCons
          <5>. QED BY <5>3, <5>4
        <4> HIDE DEF h, t
        <4>3. t \o items \in Seq(Quiet(epoch)) /\ t \in Seq(Item)
          <5>1. t \o items \in Seq(Quiet(epoch))
            BY <2>1, <4>1, SeqClosed
          <5>. QED BY <4>1, <5>1 DEF Quiet
        <4>4. Chained(items, DbAfter(t, h.db))
          BY <4>1
        <4>5. Chained(t \o items, h.db) /\ DbAfter(t \o items, h.db) = DbAfter(items, condition.select)
          BY <4>1, <4>3, <4>4, ChainedConcat
        <4>6. Greeting'
          BY <4>1, <4>2, <4>3, <4>5 DEF Greeting, Quiet, Chained, DbBefore, DbAfter
        <4>. QED BY <4>6 DEF Early
      <3>. QED BY <1>4, <3>1, <3>2 DEF Early
    <2>3. NoGet(sent)'
      <3>1. NoGet(sent)
        BY <1>4, EarlyNoGet DEF Sound
      <3>2. \A i \in DOMAIN items : items[i].name # "get"
        <4>1. \A i \in DOMAIN items : items[i] \in Quiet(epoch)
          BY <2>1
        <4>. QED BY <4>1 DEF Quiet
      <3>3. \A i \in DOMAIN (sent \o items) :
               \/ \E j \in DOMAIN sent : (sent \o items)[i] = sent[j]
               \/ \E j \in DOMAIN items : (sent \o items)[i] = items[j]
        <4>1. ToSet(sent \o items) = ToSet(sent) \cup ToSet(items)
          BY <1>1, ConcatElements
        <4>. QED BY <4>1 DEF ToSet
      <3>. QED BY <3>1, <3>2, <3>3 DEF NoGet
    <2>. QED BY <2>1, <2>2, <2>3 DEF StepInv
  <1>. QED BY <1>2, <1>3, <1>4 DEF StepInv, Live

\* No pipeline has a SELECT.
NoPipelinedSelect == \A b \in Batches : Len(b) > 1 => \A i \in DOMAIN b : Name[b[i]] # "select"

\* A call of a command that is not written while the connection is up changes no database.
LEMMA QueuedSelectsNothing ==
  ASSUME Sound, StepInv, NoPipelinedSelect, NEW b \in Batches, ~BatchWritable(b), StreamWritable
  PROVE  \A db : SelectedAfter(b, Len(b), db) = db
PROOF
  <1>1. b \in Seq(Commands) /\ b # <<>> /\ Len(b) \in Nat /\ Len(b) >= 1 /\ DOMAIN b = 1..Len(b)
    BY CommandsAssumption
  <1>2. status = "connect" /\ condition.handshake
    BY DEF BatchWritable, Writable, StreamWritable, Sound, LifecycleInv, SocketMatchesStatus, StepInv
  <1>3. Len(b) > 1 \/ Name[b[1]] \notin HandshakeCommands
    BY <1>2 DEF BatchWritable, Writable
  <1>4. \A i \in DOMAIN b : Name[b[i]] # "select"
    <2>1. CASE Len(b) > 1
      BY <2>1 DEF NoPipelinedSelect
    <2>2. CASE ~(Len(b) > 1)
      <3>1. Len(b) = 1
        BY <1>1, <2>2
      <3>. QED BY <1>1, <1>3, <2>2, <3>1 DEF HandshakeCommands
    <2>. QED BY <2>1, <2>2
  <1>. QED BY <1>4, NoSelectNoChange

\* The application's commands.
LEMMA IssueKeepsStep ==
  ASSUME Sound, StepInv, NoPipelinedSelect, NEW b \in Batches,
         IssueWritten(b) \/ IssueQueued(b) \/ IssueRefused(b) \/ IssueQuitOffline(b)
  PROVE  StepInv'
PROOF
  <1>1. condition \in [select: Dbs, protocol: {2, 3}, handshake: BOOLEAN] /\ condition.select \in Dbs
    BY DEF Sound, TypeOK, DatabaseTypes
  <1>2. socket = "open" <=> status \in {"connect", "ready"}
    BY DEF Sound, LifecycleInv, SocketMatchesStatus
  <1>3. CASE IssueWritten(b)
    <2> DEFINE items == ItemsOf(b, condition.select)
    <2>1. /\ BatchWritable(b) /\ sent' = sent \o items
          /\ condition' = [condition EXCEPT !.select = SelectedAfter(b, Len(b), condition.select)]
          /\ UNCHANGED <<serverDb, epoch, status, microtasks, loadingTimers, replies>>
      BY <1>3, Zenon DEF IssueWritten, Write, SelectDb, loop
    <2>2. /\ items \in Seq(Item) /\ Chained(items, condition.select)
          /\ DbAfter(items, condition.select) = SelectedAfter(b, Len(b), condition.select)
      BY <1>1, ItemsOfChained DEF Sound
    <2>3. /\ condition'.select = DbAfter(items, condition.select)
          /\ condition'.handshake = condition.handshake
      BY <1>1, <2>1, <2>2
    <2>4. Failing /\ Early => Failing' /\ items \in Seq(Quiet(epoch))
      <3> SUFFICES ASSUME Failing PROVE Failing' /\ items \in Seq(Quiet(epoch))
        OBVIOUS
      <3>1. Failing'
        BY <2>1 DEF Failing, FailedTask, FailedReply
      <3>2. ~(Len(b) > 1) /\ Name[b[1]] \in HandshakeCommands
        BY <2>1 DEF BatchWritable, Writable, Failing
      <3>3. /\ b \in Seq(Commands) /\ Len(b) = 1 /\ DOMAIN items = DOMAIN b /\ b[1] \in Commands
        <4>1. b \in Seq(Commands) /\ Len(b) \in Nat /\ Len(b) >= 1
          BY CommandsAssumption
        <4>2. DOMAIN items = DOMAIN b
          BY DEF ItemsOf
        <4>3. Len(b) = 1 /\ b[1] \in Commands
          <5>1. ~(Len(b) > 1)
            BY <3>2
          <5>2. Len(b) = 1 /\ DOMAIN b = 1..Len(b)
            <6>1. DOMAIN b = 1..Len(b)
              BY <4>1
            <6>2. PICK n \in Nat : n = Len(b)
              BY <4>1
            <6>3. n >= 1 /\ ~(n > 1)
              BY <4>1, <5>1, <6>2
            <6>4. n = 1
              BY <6>3
            <6>. QED BY <6>1, <6>2, <6>4
          <5>3. 1 \in DOMAIN b
            BY <5>2
          <5>. QED BY <4>1, <5>2, <5>3, ElementOfSeq
        <4>. QED BY <4>1, <4>2, <4>3
      <3>4. DOMAIN items = 1..1 /\ items[1].name = Name[b[1]] /\ items[1].cmd = b[1]
        BY <3>3 DEF ItemsOf
      <3> HIDE DEF items
      <3>5. items[1] \in Item /\ items[1].name # "get" /\ items[1].cmd # NoCmd
        BY <2>2, <3>2, <3>3, <3>4, CommandsAssumption DEF HandshakeCommands
      <3>6. items[1] \in Quiet(epoch)
        BY <3>5 DEF Quiet, Handshaking
      <3>7. items \in Seq(Quiet(epoch))
        <4>1. Len(items) = 1
          BY <2>2, <3>4
        <4>2. \A i \in 1..Len(items) : items[i] \in Quiet(epoch)
          BY <3>6, <4>1
        <4>. QED BY <2>2, <4>2
      <3>. QED BY <3>1, <3>7
    <2>5. StreamWritable /\ (status' = "connect" => condition'.handshake)
      BY <2>1, <2>3 DEF BatchWritable, Writable, StepInv
    <2> HIDE DEF items
    <2>. QED BY <2>1, <2>2, <2>3, <2>4, <2>5, WriteKeepsStep
  <1>4. CASE (IssueQueued(b) \/ IssueRefused(b)) /\ status = "wait"
    <2>1. UNCHANGED <<sent, serverDb, socket>> /\ status' = "connecting"
      BY <1>4, Zenon DEF IssueQueued, IssueRefused, WakeUp, StartConnecting, wire
    <2>2. ~StreamWritable'
      BY <1>2, <1>4, <2>1 DEF StreamWritable
    <2>. QED BY <2>1, <2>2, EndedKeepsStep
  <1>5. CASE (IssueQueued(b) \/ IssueRefused(b)) /\ status # "wait"
    <2>1. /\ UNCHANGED <<sent, serverDb, socket, ended, status, epoch, replies, microtasks, loadingTimers>>
          /\ \/ ~BatchWritable(b) /\ condition' = [condition EXCEPT !.select = SelectedAfter(b, Len(b), CurrentDb)]
             \/ condition' = [condition EXCEPT !.select = CurrentDb]
      BY <1>5, Zenon DEF IssueQueued, IssueRefused, WakeUp, SelectDb, loop, wire
    <2>2. CurrentDb = condition.select
      BY <1>5 DEF CurrentDb
    <2>3. Live => condition'.select = condition.select
      BY <1>1, <2>1, <2>2, QueuedSelectsNothing DEF Live
    <2>4. condition'.handshake = condition.handshake
      BY <1>1, <2>1
    <2>5. Failing => Failing'
      BY <2>1 DEF Failing, FailedTask, FailedReply
    <2>. QED BY <2>1, <2>3, <2>4, <2>5, QuietKeepsStep
  <1>6. CASE IssueQuitOffline(b)
    <2>1. /\ UNCHANGED <<sent, serverDb, socket>> /\ ended' = (socket # "none")
          /\ \/ status' = "connecting"
             \/ UNCHANGED <<status, condition>>
      BY <1>6, Zenon DEF IssueQuitOffline, wire
    <2>2. ~StreamWritable'
      BY <2>1 DEF StreamWritable
    <2>3. status' = "connect" => condition'.handshake
      BY <2>1 DEF StepInv
    <2>. QED BY <2>1, <2>2, <2>3, EndedKeepsStep
  <1>. QED BY <1>3, <1>4, <1>5, <1>6

\* The other calls, timers, and steps that end a connection.
LEMMA OthersKeepStep ==
  ASSUME Sound, StepInv,
         \/ Connect \/ (\E reconnect \in BOOLEAN : Disconnect(reconnect))
         \/ ReconnectTimer \/ CreateSocket \/ AbortConnecting
         \/ StreamClosed \/ StreamLost \/ (\E c \in Commands : TimeOut(c)) \/ UNCHANGED vars
         \/ WrongRole \/ HandshakeFailed \/ ReturnFatalError
  PROVE  StepInv'
PROOF
  <1>1. socket = "open" <=> status \in {"connect", "ready"}
    BY DEF Sound, LifecycleInv, SocketMatchesStatus
  <1>2. CASE Connect
    <2>1. UNCHANGED <<sent, serverDb, socket>> /\ status' = "connecting" /\ MayConnect
      BY <1>2, Zenon DEF Connect, StartConnecting, wire
    <2>2. ~StreamWritable'
      BY <1>1, <2>1 DEF StreamWritable, MayConnect
    <2>. QED BY <2>1, <2>2, EndedKeepsStep
  <1>3. CASE \E reconnect \in BOOLEAN : Disconnect(reconnect)
    <2>1. PICK reconnect \in BOOLEAN : Disconnect(reconnect)
      BY <1>3
    <2>2. /\ UNCHANGED <<sent, serverDb, socket, condition>>
          /\ \/ status = "wait" /\ (status' = "end" \/ status' = "reconnecting")
             \/ EndStream /\ UNCHANGED status
      <3>1. UNCHANGED <<sent, serverDb, socket, condition>>
        BY <2>1, Zenon DEF Disconnect, wire
      <3>2. CASE status = "wait"
        <4>1. CloseHandler(manuallyClosing \/ ~reconnect)
          BY <2>1, <3>2, Zenon DEF Disconnect
        <4>2. status' = "end" \/ status' = "reconnecting"
          BY <4>1, Zenon DEF CloseHandler
        <4>. QED BY <3>1, <3>2, <4>2, Zenon
      <3>3. CASE status # "wait"
        BY <2>1, <3>1, <3>3, Zenon DEF Disconnect
      <3>. QED BY <3>2, <3>3
    <2>3. ~StreamWritable' /\ (status' = "connect" => condition'.handshake)
      BY <1>1, <2>2 DEF StreamWritable, EndStream, StepInv
    <2>. QED BY <2>2, <2>3, EndedKeepsStep
  <1>4. CASE ReconnectTimer
    <2>1. UNCHANGED <<sent, serverDb, socket, ended, replies, microtasks, loadingTimers>>
      BY <1>4, Zenon DEF ReconnectTimer, wire, loop
    <2>2. CASE MayConnect
      <3>1. status' = "connecting"
        BY <1>4, <2>2, Zenon DEF ReconnectTimer, StartConnecting
      <3>2. ~StreamWritable'
        BY <1>1, <2>1, <2>2 DEF StreamWritable, MayConnect
      <3>. QED BY <2>1, <3>1, <3>2, EndedKeepsStep
    <2>3. CASE ~MayConnect
      <3>1. UNCHANGED <<status, epoch, condition>>
        BY <1>4, <2>3, Zenon DEF ReconnectTimer
      <3>2. Failing => Failing'
        BY <2>1, <3>1 DEF Failing, FailedTask, FailedReply
      <3>. QED BY <2>1, <3>1, <3>2, QuietKeepsStep
    <2>. QED BY <2>2, <2>3
  <1>5. CASE CreateSocket \/ AbortConnecting
    <2>1. /\ UNCHANGED <<sent, serverDb>> /\ socket' # "open" /\ status' # "connect"
      BY <1>5 DEF CreateSocket, AbortConnecting, wire, link, lifecycle
    <2>2. ~StreamWritable'
      BY <2>1 DEF StreamWritable
    <2>. QED BY <2>1, <2>2, EndedKeepsStep
  <1>6. CASE StreamClosed \/ StreamLost
    <2>1. Close
      BY <1>6, Zenon DEF StreamClosed, StreamLost
    <2>2. serverDb' = NoDb /\ (status' = "end" \/ status' = "reconnecting")
      BY <2>1, Zenon DEF Close, CloseHandler
    <2>. QED BY <2>2 DEF StepInv, Live
  <1>7. CASE (\E c \in Commands : TimeOut(c)) \/ UNCHANGED vars
    <2>1. UNCHANGED <<sent, serverDb, socket, ended, status, epoch, replies, microtasks,
                      loadingTimers, condition>>
      BY <1>7, Zenon DEF TimeOut, vars, lifecycle, databases, link, loop, wire
    <2>2. Failing => Failing'
      BY <2>1 DEF Failing, FailedTask, FailedReply
    <2>. QED BY <2>1, <2>2, QuietKeepsStep
  <1>8. CASE WrongRole \/ HandshakeFailed \/ ReturnFatalError
    <2>1. EndStream /\ UNCHANGED <<sent, serverDb, socket, status, condition>>
      BY <1>8, Zenon DEF WrongRole, HandshakeFailed, RecoverFromFatalError, ReturnFatalError,
                         NothingSent, ContinuationFrame, lifecycle, databases, wire, link
    <2>2. ~StreamWritable' /\ (status' = "connect" => condition'.handshake)
      BY <2>1 DEF StreamWritable, EndStream, StepInv
    <2>. QED BY <2>1, <2>2, EndedKeepsStep
  <1>. QED BY <1>2, <1>3, <1>4, <1>5, <1>6, <1>7, <1>8

\* A new connection: nothing is on the wire but HELLO.
LEMMA ConnectHandlerKeepsStep ==
  ASSUME Sound, TimeInv, ConnectHandler
  PROVE  StepInv'
PROOF
  <1>1. /\ condition \in [select: Dbs, protocol: {2, 3}, handshake: BOOLEAN]
        /\ status = "connecting" /\ replies = <<>>
    BY DEF Sound, TypeOK, DatabaseTypes, LifecycleInv, SocketMatchesStatus, ReplyInv, ConnectHandler
  <1>2. /\ status' = "connect" /\ condition' = [condition EXCEPT !.handshake = TRUE]
        /\ sent' = (IF ended THEN <<>> ELSE <<HelloItem>>)
        /\ microtasks' = (IF ended /\ ~EnableOfflineQueue THEN Wakened(<<HelloItem>>) ELSE <<>>)
        /\ UNCHANGED <<epoch, ended, loadingTimers, replies>>
    BY Zenon DEF ConnectHandler
  <1>3. condition'.handshake /\ condition'.select = condition.select
    BY <1>1, <1>2
  <1>4. CASE ended
    <2>1. sent' = <<>> /\ ~StreamWritable'
      BY <1>2, <1>4 DEF StreamWritable
    <2>2. NoGet(sent')
      BY <2>1 DEF NoGet
    <2>3. NoGet(sent)' /\ ~Live'
      BY <2>1, <2>2 DEF Live, NoGet
    <2>. QED BY <1>3, <2>3 DEF StepInv
  <1>5. CASE ~ended
    <2> DEFINE h == HelloItem
    <2>1. /\ sent' = <<h>> /\ h.name = "hello" /\ h.cmd = NoCmd /\ h.db = condition.select
          /\ microtasks' = <<>> /\ replies' = <<>>
      BY <1>1, <1>2, <1>5 DEF HelloItem, Internal
    <2> HIDE DEF h
    <2>2. epoch' \notin loadingTimers'
      <3>1. epoch \in Nat /\ ~(epoch < epoch)
        BY DEF Sound, TypeOK, LifecycleTypes
      <3>2. epoch \notin loadingTimers
        BY <1>1, <3>1 DEF TimeInv, AllTimed, NextAttempt
      <3>. QED BY <1>2, <3>2
    <2>3. Failing'
      <3>1. <<>> \in Seq(FailedTask(epoch')) /\ <<>> \in Seq(FailedReply(epoch'))
        OBVIOUS
      <3>. QED BY <1>2, <2>1, <2>2, <3>1 DEF Failing, FailedTask, FailedReply
    <2>4. Greeting'
      <3>1. sent' # <<>> /\ Head(sent') = h /\ Tail(sent') = <<>> /\ <<>> \in Seq(Quiet(epoch'))
        BY <2>1
      <3>2. Chained(Tail(sent'), h.db) /\ DbAfter(Tail(sent'), h.db) = h.db
        BY <3>1, ChainedNone
      <3>. QED BY <1>3, <2>1, <3>1, <3>2 DEF Greeting, Quiet, Chained, DbAfter, DbBefore
    <2>5. NoGet(sent)'
      <3>1. DOMAIN sent' = {1} /\ sent'[1] = h
        BY <2>1
      <3>. QED BY <2>1, <3>1 DEF NoGet
    <2>. QED BY <1>3, <2>3, <2>4, <2>5 DEF StepInv, Early
  <1>. QED BY <1>4, <1>5

\* The continuations of a handshake that is over, and those that send a command.
LEMMA HandshakeKeepsStep ==
  ASSUME Sound, StepInv, StaleContinuation \/ StillLoading \/ Downgrade \/ ReadyCheck
  PROVE  StepInv'
PROOF
  <1>1. /\ microtasks # <<>> /\ microtasks \in Seq(Microtask)
        /\ condition \in [select: Dbs, protocol: {2, 3}, handshake: BOOLEAN]
    BY DEF StaleContinuation, StillLoading, Downgrade, ReadyCheck, Sound, TypeOK, LoopTypes, DatabaseTypes
  <1>2. Failing => /\ Tail(microtasks) \in Seq(FailedTask(epoch))
                   /\ Head(microtasks).epoch = epoch => Head(microtasks).result = "error"
    <2> SUFFICES ASSUME Failing
                 PROVE  /\ Tail(microtasks) \in Seq(FailedTask(epoch))
                        /\ Head(microtasks).epoch = epoch => Head(microtasks).result = "error"
      OBVIOUS
    <2>1. microtasks \in Seq(FailedTask(epoch))
      BY DEF Failing
    <2>2. Tail(microtasks) \in Seq(FailedTask(epoch)) /\ Head(microtasks) \in FailedTask(epoch)
      BY <1>1, <2>1, HeadTailProperties
    <2>. QED BY <2>2 DEF FailedTask
  <1>3. CASE StaleContinuation \/ StillLoading
    <2>1. /\ UNCHANGED <<sent, serverDb, socket, ended, status, epoch, replies, condition>>
          /\ microtasks' = Tail(microtasks)
          /\ \/ loadingTimers' = loadingTimers
             \/ /\ loadingTimers' = loadingTimers \cup {Head(microtasks).epoch}
                /\ Head(microtasks).result = "loading"
      BY <1>3, Zenon DEF StaleContinuation, StillLoading, lifecycle, databases, link, wire
    <2>2. Failing => Failing'
      <3> SUFFICES ASSUME Failing PROVE Failing'
        OBVIOUS
      <3>1. epoch \notin loadingTimers'
        BY <1>2, <2>1 DEF Failing
      <3>. QED BY <1>2, <2>1, <3>1 DEF Failing, FailedTask, FailedReply
    <2>. QED BY <2>1, <2>2, QuietKeepsStep
  <1>4. CASE Downgrade \/ ReadyCheck
    <2>1. PICK item \in {HelloItem, InfoItem(epoch)} : SendHandshake(item, Tail(microtasks))
      BY <1>4, Zenon DEF Downgrade, ReadyCheck
    <2>2. /\ UNCHANGED <<status, socket, ended, epoch, serverDb, replies>>
          /\ Head(microtasks).epoch = epoch /\ Head(microtasks).result # "error"
          /\ condition' = condition \/ condition' = [condition EXCEPT !.protocol = 2]
      BY <1>4 DEF Downgrade, ReadyCheck, ContinuationFrame, IsActiveConnect, lifecycle, link, databases
    <2>3. condition'.select = condition.select /\ condition'.handshake = condition.handshake
      BY <1>1, <2>2
    <2>4. ~Failing
      BY <1>2, <2>2
    <2>5. item \in Item /\ item.select = condition.select /\ item.name # "select"
      <3>1. /\ HelloItem \in Item /\ HelloItem.select = condition.select /\ HelloItem.name = "hello"
            /\ InfoItem(epoch) \in Item /\ InfoItem(epoch).select = condition.select
            /\ InfoItem(epoch).name = "info"
        BY HandshakeItemTypes DEF HelloItem, InfoItem, Internal, Sound, TypeOK, LifecycleTypes
      <3>. QED BY <2>1, <3>1
    <2>6. CASE Writable(item.name, FALSE)
      <3>1. sent' = sent \o <<item>> /\ StreamWritable
        BY <2>1, <2>6 DEF SendHandshake, Write, Writable
      <3>2. /\ <<item>> \in Seq(Item) /\ Chained(<<item>>, condition.select)
            /\ DbAfter(<<item>>, condition.select) = condition.select
        BY <2>5, ChainedOne DEF DbAfterItem
      <3>3. status' = "connect" => condition'.handshake
        BY <2>2, <2>3 DEF StepInv
      <3>. QED BY <2>2, <2>3, <2>4, <3>1, <3>2, <3>3, WriteKeepsStep
    <2>7. CASE ~Writable(item.name, FALSE)
      <3>1. UNCHANGED sent
        BY <2>1, <2>7 DEF SendHandshake
      <3>. QED BY <2>2, <2>3, <2>4, <3>1, QuietKeepsStep
    <2>. QED BY <2>6, <2>7
  <1>. QED BY <1>3, <1>4

\* The ready check is asked again: not for a handshake that failed.
LEMMA LoadingTimerKeepsStep ==
  ASSUME Sound, StepInv, LoadingTimer
  PROVE  StepInv'
PROOF
  <1>1. PICK e \in loadingTimers : loadingTimers' = loadingTimers \ {e} /\ SendHandshake(InfoItem(e), <<>>)
    BY Zenon DEF LoadingTimer
  <1>2. UNCHANGED <<status, socket, ended, epoch, serverDb, replies, condition>>
    BY Zenon DEF LoadingTimer, lifecycle, databases, link
  <1> DEFINE item == InfoItem(e)
  <1>3. /\ item \in Item /\ item.select = condition.select /\ item.name = "info" /\ item.epoch = e
    <2>1. e \in Nat
      BY DEF Sound, TypeOK, LoopTypes
    <2>. QED BY <2>1, HandshakeItemTypes DEF InfoItem, Internal, Sound
  <1>4. SendHandshake(item, <<>>)
    BY <1>1
  <1> HIDE DEF item
  <1>5. Failing => item \in Quiet(epoch)
    BY <1>3 DEF Failing, Quiet
  <1>6. Failing => Failing'
    <2>1. microtasks' = <<>> \/ microtasks' = <<>> \o Wakened(<<item>>)
      BY <1>4, Zenon DEF SendHandshake
    <2>2. Failing => Wakened(<<item>>) \in Seq(FailedTask(epoch))
      <3> DEFINE w == Woken(item, "error")
      <3>1. w \in Seq(FailedTask(epoch))
        <4>1. epoch \in Nat
          BY DEF Sound, TypeOK, LifecycleTypes
        <4>. QED BY <1>3, <4>1, WokenFails
      <3>2. [i \in DOMAIN <<item>> |->
               Woken(<<item>>[i], IF <<item>>[i].name = "hello" THEN "flushed" ELSE "error")]
              \in Seq(Seq(FailedTask(epoch)))
        <4>1. DOMAIN <<item>> = {1} /\ <<item>>[1] = item
          OBVIOUS
        <4>. QED BY <1>3, <3>1, <4>1
      <3>. QED BY <3>2, FlattenSeqType DEF Wakened
    <2>3. <<>> \in Seq(FailedTask(epoch))
      OBVIOUS
    <2> SUFFICES ASSUME Failing PROVE Failing'
      OBVIOUS
    <2>4. <<>> \o Wakened(<<item>>) \in Seq(FailedTask(epoch))
      BY <2>2, <2>3, SeqClosed
    <2>5. microtasks' \in Seq(FailedTask(epoch))
      BY <2>1, <2>3, <2>4, Zenon
    <2>. QED BY <1>1, <1>2, <2>5 DEF Failing, FailedTask, FailedReply
  <1>7. CASE Writable(item.name, FALSE)
    <2>1. sent' = sent \o <<item>> /\ StreamWritable
      BY <1>4, <1>7 DEF SendHandshake, Write, Writable
    <2>2. /\ <<item>> \in Seq(Item) /\ Chained(<<item>>, condition.select)
          /\ DbAfter(<<item>>, condition.select) = condition.select
      BY <1>3, ChainedOne DEF DbAfterItem
    <2>3. Failing => <<item>> \in Seq(Quiet(epoch))
      BY <1>5
    <2>4. status' = "connect" => condition'.handshake
      BY <1>2 DEF StepInv
    <2>. QED BY <1>2, <1>6, <2>1, <2>2, <2>3, <2>4, WriteKeepsStep
  <1>8. CASE ~Writable(item.name, FALSE)
    <2>1. UNCHANGED sent
      BY <1>4, <1>8 DEF SendHandshake
    <2>. QED BY <1>2, <1>6, <2>1, QuietKeepsStep
  <1>. QED BY <1>7, <1>8

\* readyHandler: all that is sent again is one chain.
LEMMA BecomeReadyKeepsStep ==
  ASSUME Sound, StepInv, BecomeReady
  PROVE  StepInv'
PROOF
  <1>1. /\ condition \in [select: Dbs, protocol: {2, 3}, handshake: BOOLEAN] /\ condition.select \in Dbs
        /\ prevSelect = NoDb \/ prevSelect \in Dbs
        /\ microtasks \in Seq(Microtask) /\ offlineQueue \in Seq(Item) /\ Unfulfilled \in Seq(Item)
    BY DEF Sound, TypeOK, DatabaseTypes, LoopTypes, QueueTypes, Unfulfilled
  <1> DEFINE
    finalSelect == IF prevSelect = NoDb THEN condition.select ELSE prevSelect
    mid == DbAfter(Unfulfilled, condition.select)
    end == DbAfter(ReplayWaiting, mid)
  <1>2. /\ microtasks # <<>> /\ Head(microtasks).epoch = epoch /\ Head(microtasks).result # "error"
        /\ status' = "ready" /\ UNCHANGED <<epoch, socket, ended, serverDb>>
        /\ StreamWritable => condition' = [condition EXCEPT !.handshake = FALSE, !.select = finalSelect]
    <2>1. /\ microtasks # <<>> /\ ReadyHandler(Tail(microtasks)) /\ UNCHANGED <<epoch, socket, serverDb>>
          /\ IsActiveConnect(Head(microtasks).epoch) /\ Head(microtasks).result \in {"ok", "flushed"}
      BY Zenon DEF BecomeReady, ContinuationFrame
    <2>2. Head(microtasks).epoch = epoch /\ Head(microtasks).result # "error"
      BY <2>1 DEF IsActiveConnect
    <2>3. /\ status' = "ready" /\ UNCHANGED ended
          /\ condition' = [condition EXCEPT !.handshake = FALSE, !.select =
                             IF StreamWritable \/ (~StreamWritable /\ EnableOfflineQueue)
                             THEN finalSelect ELSE condition.select]
      BY <2>1, Zenon DEF ReadyHandler
    <2> HIDE DEF finalSelect
    <2>. QED BY <2>1, <2>2, <2>3
  <1>3. ~Failing
    <2> SUFFICES ASSUME Failing PROVE FALSE
      OBVIOUS
    <2>1. microtasks \in Seq(FailedTask(epoch))
      BY DEF Failing
    <2>2. Head(microtasks) \in FailedTask(epoch)
      BY <1>2, <2>1, HeadTailProperties
    <2>. QED BY <1>2, <2>2 DEF FailedTask
  <1>4. CASE ~StreamWritable
    <2>1. ReplayWritten \/ ReplayKept \/ ReplayQuit \/ ReplayRejected
      BY ReplayWays
    <2>2. \/ UNCHANGED sent
          \/ IF StreamWritable THEN TRUE ELSE UNCHANGED <<commandQueue, sent>>
      <3>1. ReadyHandler(Tail(microtasks))
        BY Zenon DEF BecomeReady
      <3>. QED BY <3>1, Zenon DEF ReadyHandler
    <2>3. UNCHANGED sent
      BY <1>4, <2>2
    <2>4. ~StreamWritable'
      BY <1>2, <1>4 DEF StreamWritable
    <2>. QED BY <1>2, <2>3, <2>4, EndedKeepsStep
  <1>5. CASE StreamWritable
    <2>1. sent' = sent \o ReplayAll
      <3>1. ReadyHandler(Tail(microtasks))
        BY Zenon DEF BecomeReady
      <3>2. IF StreamWritable THEN Write(ReplayAll) ELSE TRUE
        BY <3>1, Zenon DEF ReadyHandler, ReplayAll, ReplayFirst, ReplaySecond, ReplayWaiting,
                           ReplayLast, ReplayStays
      <3>. QED BY <1>5, <3>2, Zenon DEF Write
    <2>2. /\ ReplayFirst \in Seq(Item) /\ mid \in Dbs
          /\ Chained(ReplayFirst, condition.select) /\ DbAfter(ReplayFirst, condition.select) = mid
      BY <1>1, ResendChained, ResendType DEF ReplayFirst
    <2>3. ReplayWaiting \in Seq(Item)
      BY <1>1, <2>2 DEF ReplayWaiting
    <2>4. /\ ReplaySecond \in Seq(Item) /\ end \in Dbs
          /\ Chained(ReplaySecond, mid) /\ DbAfter(ReplaySecond, mid) = end
      BY <2>2, <2>3, ResendChained, ResendType DEF ReplaySecond
    <2>5. /\ ReplayLast \in Seq(Item) /\ Chained(ReplayLast, end)
          /\ DbAfter(ReplayLast, end) = finalSelect
      <3>1. finalSelect \in Dbs
        BY <1>1
      <3>2. ReplayLast = IF end = finalSelect THEN <<>> ELSE <<SelectItem(finalSelect, end)>>
        BY DEF ReplayLast
      <3> DEFINE x == SelectItem(finalSelect, end)
      <3> HIDE DEF finalSelect, end
      <3>3. x \in Item /\ x.name = "select" /\ DbAfterItem(x) = finalSelect
        BY <2>4, <3>1, HandshakeItemTypes DEF Sound, SelectItem, Internal, DbAfterItem
      <3> HIDE DEF x
      <3>4. /\ <<x>> \in Seq(Item) /\ Chained(<<x>>, end) /\ DbAfter(<<x>>, end) = finalSelect
        BY <3>3, ChainedOne
      <3>5. CASE end = finalSelect
        <4>1. ReplayLast = <<>> /\ <<>> \in Seq(Item)
          BY <3>2, <3>5
        <4>2. Chained(<<>>, end) /\ DbAfter(<<>>, end) = end
          BY ChainedNone
        <4>. QED BY <3>5, <4>1, <4>2
      <3>6. CASE end # finalSelect
        BY <3>2, <3>4, <3>6 DEF x
      <3>. QED BY <3>5, <3>6
    <2> HIDE DEF mid, end, finalSelect
    <2>6. /\ ReplaySecond \o ReplayLast \in Seq(Item) /\ Chained(ReplaySecond \o ReplayLast, mid)
          /\ DbAfter(ReplaySecond \o ReplayLast, mid) = finalSelect
      BY <2>4, <2>5, ChainedConcat
    <2>7. /\ ReplayFirst \o (ReplaySecond \o ReplayLast) \in Seq(Item)
          /\ Chained(ReplayFirst \o (ReplaySecond \o ReplayLast), condition.select)
          /\ DbAfter(ReplayFirst \o (ReplaySecond \o ReplayLast), condition.select) = finalSelect
      BY <2>2, <2>6, ChainedConcat
    <2>8. ReplayAll = ReplayFirst \o (ReplaySecond \o ReplayLast)
      BY <2>2, <2>4, <2>5, ConcatAssociative DEF ReplayAll
    <2>9. condition'.select = finalSelect
      BY <1>1, <1>2, <1>5
    <2>. QED BY <1>2, <1>3, <1>5, <2>1, <2>7, <2>8, <2>9, WriteKeepsStep
  <1>. QED BY <1>4, <1>5

\* A reply wakes the continuation of the command it is for, or that command is sent again
\* on another connection.
LEMMA RepliesKeepStep ==
  ASSUME Sound, StepInv, ReturnReply \/ ReturnError
  PROVE  StepInv'
PROOF
  <1> DEFINE item == Head(commandQueue)
             reply == Head(replies).reply
  <1>1. /\ listening /\ replies # <<>> /\ commandQueue # <<>> /\ replies' = Tail(replies)
        /\ UNCHANGED <<sent, serverDb, status, epoch, socket, loadingTimers>>
    BY Zenon DEF ReturnReply, ReturnError, ReplyArrives, ShiftCommand, lifecycle, link
  <1>2. /\ sent \in Seq(Item) /\ replies \in Seq(Reply) /\ commandQueue \in Seq(Item) /\ epoch \in Nat
        /\ condition \in [select: Dbs, protocol: {2, 3}, handshake: BOOLEAN]
    BY DEF Sound, TypeOK, WireTypes, QueueTypes, LifecycleTypes, DatabaseTypes
  <1>3. /\ Head(replies) \in Reply /\ Tail(replies) \in Seq(Reply) /\ Head(replies) = replies[1]
        /\ item \in Item
    BY <1>1, <1>2, HeadTailProperties
  <1>4. item = Head(replies).item
    <2> DEFINE r == ItemsIn(replies)
    <2>1. commandQueue = r \o sent
      BY <1>1 DEF Sound, ReplyInv, RepliesMatchQueue, ItemsIn
    <2>2. r \in Seq(Item) /\ Len(r) = Len(replies) /\ Len(replies) \in Nat /\ Len(replies) # 0
      BY <1>1, <1>2, ItemsInType
    <2>3. r[1] = replies[1].item
      <3>1. 1 \in DOMAIN replies
        BY <1>2, <2>2
      <3>. QED BY <3>1 DEF ItemsIn
    <2> HIDE DEF r
    <2>4. Head(r \o sent) = r[1]
      BY <1>2, <2>2
    <2>. QED BY <1>3, <2>1, <2>3, <2>4
  <1>5. ASSUME Failing
        PROVE  /\ Tail(replies) \in Seq(FailedReply(epoch))
               /\ Handshaking(item) /\ item.epoch = epoch => reply = "error"
               /\ microtasks \in Seq(FailedTask(epoch))
    <2>1. replies \in Seq(FailedReply(epoch)) /\ microtasks \in Seq(FailedTask(epoch))
      BY <1>5 DEF Failing
    <2>2. Tail(replies) \in Seq(FailedReply(epoch)) /\ Head(replies) \in FailedReply(epoch)
      BY <1>1, <2>1, HeadTailProperties
    <2>. QED BY <1>4, <2>1, <2>2 DEF FailedReply
  <1>6. reply \in HelloReplies \cup InfoReplies \cup {"ok", "error"}
    BY <1>3 DEF Reply
  <1> HIDE DEF item, reply
  <1>7. ASSUME UNCHANGED condition, UNCHANGED ended,
               microtasks' = microtasks \o Woken(item, reply)
        PROVE  StepInv'
    <2>1. Failing => Failing'
      <3> SUFFICES ASSUME Failing PROVE Failing'
        OBVIOUS
      <3>1. Woken(item, reply) \in Seq(FailedTask(epoch))
        BY <1>2, <1>3, <1>5, <1>6, WokenFails
      <3>2. microtasks' \in Seq(FailedTask(epoch))
        BY <1>5, <1>7, <3>1, SeqClosed
      <3>. QED BY <1>1, <1>5, <3>2 DEF Failing, FailedTask, FailedReply
    <2>2. condition'.handshake = condition.handshake /\ condition'.select = condition.select
      BY <1>7
    <2>. QED BY <1>1, <1>7, <2>1, <2>2, QuietKeepsStep
  <1>8. CASE ReturnReply
    <2>1. UNCHANGED condition /\ UNCHANGED ended /\ microtasks' = microtasks \o Woken(item, reply)
      BY <1>8, Zenon DEF ReturnReply, databases, link, item, reply
    <2>. QED BY <1>7, <2>1
  <1>9. CASE ReturnError
    <2>1. reply = "error"
      BY <1>9, Zenon DEF ReturnError, reply
    <2>2. \/ UNCHANGED condition /\ UNCHANGED ended /\ microtasks' = microtasks \o Woken(item, reply)
          \/ /\ EndStream
             /\ UNCHANGED condition \/ condition' = [condition EXCEPT !.select = DbAfterItem(item)]
      <3>1. PICK answer \in ErrorAnswers(item) :
              /\ IF answer = "reject" THEN UNCHANGED <<connecting, ended>> ELSE EndStream
              /\ IF answer = "resend" /\ EnableOfflineQueue
                 THEN SelectDb(DbAfterItem(item))
                 ELSE microtasks' = microtasks \o Woken(item, "error") /\ UNCHANGED condition
        BY <1>9, Zenon DEF ReturnError, item
      <3>2. CASE answer = "reject"
        <4>1. ~(answer = "resend" /\ EnableOfflineQueue)
          BY <3>2
        <4>. QED BY <2>1, <3>1, <3>2, <4>1, Zenon
      <3>3. CASE answer # "reject"
        BY <3>1, <3>3, Zenon DEF SelectDb
      <3>. QED BY <3>2, <3>3
    <2>3. CASE EndStream /\ (UNCHANGED condition \/ condition' = [condition EXCEPT !.select = DbAfterItem(item)])
      <3>1. ~StreamWritable'
        BY <1>1, <2>3 DEF EndStream, StreamWritable
      <3>2. condition'.handshake = condition.handshake
        BY <1>2, <2>3
      <3>3. status' = "connect" => condition'.handshake
        BY <1>1, <3>2 DEF StepInv
      <3>. QED BY <1>1, <3>1, <3>3, EndedKeepsStep
    <2>. QED BY <1>7, <2>2, <2>3
  <1>. QED BY <1>8, <1>9

\* The server runs a command: HELLO brings the connection in step, or its refusal keeps
\* everything after it waiting for the end.
LEMMA ServerKeepsStep ==
  ASSUME Sound, TimeInv, StepInv, ServerHandshake \/ ServerCommand
  PROVE  StepInv'
PROOF
  <1> DEFINE h == Head(sent)
             t == Tail(sent)
  <1>1. /\ socket = "open" /\ serverDb # NoDb /\ sent # <<>> /\ sent \in Seq(Item)
        /\ UNCHANGED <<status, epoch, condition, socket, ended, microtasks, loadingTimers>>
    BY DEF ServerHandshake, ServerCommand, ServerActive, ServerFrame, lifecycle, databases, link, loop,
           Sound, TypeOK, WireTypes
  <1>2. PICK reply \in RepliesTo(h) :
          /\ sent' = t /\ replies' = Append(replies, [item |-> h, reply |-> reply])
          /\ \/ h.cmd = NoCmd /\ serverDb' = (IF h.name \in {"hello", "select"} /\ reply # "error"
                                              THEN h.db ELSE serverDb)
             \/ h.cmd # NoCmd /\ serverDb' = (IF h.name = "select" THEN h.db
                                              ELSE IF h.name = "quit" THEN NoDb ELSE serverDb)
    BY Zenon DEF ServerHandshake, ServerCommand, Answer
  <1>3. h \in Item /\ t \in Seq(Item) /\ (h.name = "hello" => h.cmd = NoCmd /\ h.db = h.select)
    <2>1. sent \in Seq(TimedItem(NextAttempt))
      BY DEF TimeInv, AllTimed
    <2>2. h \in TimedItem(NextAttempt) /\ t \in Seq(Item)
      BY <1>1, <2>1, HeadTailProperties
    <2> HIDE DEF h, t
    <2>. QED BY <2>2 DEF TimedItem
  <1>4. h.cmd = NoCmd /\ h.name = "select" => reply # "error"
    BY <1>2 DEF RepliesTo
  <1> DEFINE x == [item |-> h, reply |-> reply]
  <1>5. x \in Reply /\ x.item = h /\ x.reply = reply /\ replies' = Append(replies, x)
    BY <1>2, <1>3 DEF Reply, RepliesTo
  <1> HIDE DEF x
  <1>6. ASSUME Chained(sent, serverDb), serverDb' # NoDb
        PROVE  Chained(sent', serverDb') /\ DbAfter(sent', serverDb') = DbAfter(sent, serverDb)
    <2>1. /\ h.name = "select" \/ h.select = serverDb
          /\ Chained(t, DbAfterItem(h)) /\ DbAfter(t, DbAfterItem(h)) = DbAfter(sent, serverDb)
      BY <1>1, <1>6, ChainedTail
    <2> HIDE DEF h, t
    <2>2. serverDb' = DbAfterItem(h)
      BY <1>2, <1>3, <1>4, <1>6, <2>1 DEF DbAfterItem
    <2>. QED BY <1>2, <2>1, <2>2 DEF Chained, DbBefore
  <1>7. ASSUME NoGet(sent) PROVE NoGet(sent')
    <2>1. \A i \in DOMAIN t : i + 1 \in DOMAIN sent /\ t[i] = sent[i + 1]
      <3>1. Len(t) = Len(sent) - 1 /\ \A i \in 1..Len(t) : t[i] = sent[i + 1]
        BY <1>1, HeadTailProperties
      <3>2. DOMAIN t = 1..Len(t) /\ DOMAIN sent = 1..Len(sent) /\ Len(sent) \in Nat
        BY <1>1, <1>3
      <3> HIDE DEF t
      <3>. QED BY <3>1, <3>2
    <2> HIDE DEF h, t
    <2>. QED BY <1>2, <1>7, <2>1 DEF NoGet
  <1>8. serverDb' # NoDb => Chained(sent', serverDb') \/ NoGet(sent')
    <2>1. Chained(sent, serverDb) \/ NoGet(sent)
      BY <1>1 DEF StepInv
    <2>. QED BY <1>6, <1>7, <2>1
  <1>9. Live' => InStep' \/ (Failing' /\ Early')
    <2> SUFFICES ASSUME Live' PROVE InStep' \/ (Failing' /\ Early')
      OBVIOUS
    <2>1. Live /\ serverDb' # NoDb
      BY <1>1 DEF Live, StreamWritable
    <2>2. CASE InStep
      <3>1. Chained(sent', serverDb') /\ DbAfter(sent', serverDb') = DbAfter(sent, serverDb)
        BY <1>6, <2>1, <2>2 DEF InStep
      <3>. QED BY <1>1, <2>2, <3>1 DEF InStep, DbAfter
    <2>3. CASE Failing /\ Early
      <3>1. ASSUME Handshaking(h) /\ h.epoch = epoch => reply = "error"
            PROVE  Failing'
        <4>1. x \in FailedReply(epoch)
          BY <1>5, <3>1 DEF FailedReply
        <4>2. replies \in Seq(FailedReply(epoch))
          BY <2>3 DEF Failing
        <4>3. Append(replies, x) \in Seq(FailedReply(epoch))
          BY <4>1, <4>2
        <4>. QED BY <1>1, <1>5, <2>3, <4>3 DEF Failing, FailedReply, FailedTask
      <3>2. CASE sent \in Seq(Quiet(epoch))
        <4>1. h \in Quiet(epoch) /\ t \in Seq(Quiet(epoch))
          BY <1>1, <3>2, HeadTailProperties
        <4>2. Failing'
          <5> HIDE DEF h
          <5>. QED BY <3>1, <4>1 DEF Quiet
        <4>3. Early'
          BY <1>1, <1>2, <4>1 DEF Early, Quiet
        <4>. QED BY <4>2, <4>3
      <3>3. CASE Greeting
        <4>1. /\ h.name = "hello" /\ h.cmd = NoCmd /\ t \in Seq(Quiet(epoch))
              /\ Chained(t, h.db) /\ DbAfter(t, h.db) = condition.select
          BY <3>3 DEF Greeting
        <4> HIDE DEF h, t
        <4>2. CASE reply = "error"
          <5>1. Failing'
            BY <3>1, <4>2
          <5>2. Early'
            BY <1>1, <1>2, <4>1 DEF Early, Quiet
          <5>. QED BY <5>1, <5>2
        <4>3. CASE reply # "error"
          <5>1. serverDb' = h.db
            BY <1>2, <4>1, <4>3
          <5>. QED BY <1>1, <1>2, <4>1, <5>1 DEF InStep, Chained, DbBefore, DbAfter
        <4>. QED BY <4>2, <4>3
      <3>. QED BY <2>3, <3>2, <3>3 DEF Early
    <2>. QED BY <2>1, <2>2, <2>3 DEF StepInv
  <1>10. status' = "connect" => condition'.handshake
    BY <1>1 DEF StepInv
  <1>. QED BY <1>8, <1>9, <1>10 DEF StepInv, Chained, NoGet, DbBefore

\* Put together: every step keeps it.
LEMMA StepKeeps ==
  ASSUME Sound, TimeInv, StepInv, NoPipelinedSelect, [Next]_vars
  PROVE  StepInv'
PROOF
  <1>1. CASE \E b \in Batches : IssueWritten(b) \/ IssueQueued(b) \/ IssueRefused(b) \/ IssueQuitOffline(b)
    BY <1>1, IssueKeepsStep
  <1>2. CASE \/ Connect \/ (\E reconnect \in BOOLEAN : Disconnect(reconnect))
             \/ ReconnectTimer \/ CreateSocket \/ AbortConnecting
             \/ StreamClosed \/ StreamLost \/ (\E c \in Commands : TimeOut(c)) \/ UNCHANGED vars
             \/ WrongRole \/ HandshakeFailed \/ ReturnFatalError
    BY <1>2, OthersKeepStep
  <1>3. CASE ConnectHandler
    BY <1>3, ConnectHandlerKeepsStep
  <1>4. CASE StaleContinuation \/ StillLoading \/ Downgrade \/ ReadyCheck
    BY <1>4, HandshakeKeepsStep
  <1>5. CASE LoadingTimer
    BY <1>5, LoadingTimerKeepsStep
  <1>6. CASE BecomeReady
    BY <1>6, BecomeReadyKeepsStep
  <1>7. CASE ReturnReply \/ ReturnError
    BY <1>7, RepliesKeepStep
  <1>8. CASE ServerHandshake \/ ServerCommand
    BY <1>8, ServerKeepsStep
  <1>. QED
    BY <1>1, <1>2, <1>3, <1>4, <1>5, <1>6, <1>7, <1>8, Zenon DEF Next, System, Application, Continuation

\* A client that has no connection is in step with it.
LEMMA StepInit == Init => StepInv
PROOF
  BY DEF Init, StepInv, Live

\* On a chain each command finds the database recorded for it.
LEMMA ChainRunsInRecordedDb ==
  ASSUME TypeOK, StepInv
  PROVE  RunsInRecordedDb
PROOF
  <1> SUFFICES ASSUME NEW i \in DOMAIN sent, serverDb # NoDb, sent[i].name = "get"
               PROVE  DbAfter(SubSeq(sent, 1, i - 1), serverDb) = sent[i].select
    BY DEF RunsInRecordedDb
  <1>1. sent \in Seq(Item) /\ DOMAIN sent = 1..Len(sent) /\ i \in Nat /\ Len(sent) \in Nat
    BY DEF TypeOK, WireTypes
  <1>2. sent[i].select = DbBefore(sent, i, serverDb)
    BY DEF StepInv, Chained, NoGet
  <1> DEFINE s == SubSeq(sent, 1, i - 1)
  <1>3. Len(s) = i - 1 /\ \A j \in 1..(i - 1) : s[j] = sent[j]
    BY <1>1
  <1>4. s \in Seq(Item)
    BY <1>1
  <1> HIDE DEF s
  <1>5. CASE i = 1
    <2>1. s = <<>>
      BY <1>3, <1>4, <1>5
    <2>. QED BY <1>2, <1>5, <2>1 DEF DbAfter, DbBefore, s
  <1>6. CASE i # 1
    <2>1. s # <<>> /\ Len(s) \in 1..(i - 1) /\ s[Len(s)] = sent[i - 1]
      BY <1>1, <1>3, <1>4, <1>6
    <2>. QED BY <1>2, <1>6, <2>1 DEF DbAfter, DbBefore, s
  <1>. QED BY <1>5, <1>6

\* Whatever was queued, resent or replayed, the server runs a command in the database the
\* client recorded for it, if no pipeline selects one.
THEOREM RunsInRecordedDbTheorem ==
  ASSUME NoPipelinedSelect
  PROVE  Spec => []RunsInRecordedDb
PROOF
  <1>1. Sound /\ TimeInv /\ StepInv /\ [Next]_vars => TimeInv'
    BY TimeKeeps
  <1>2. Sound /\ TimeInv /\ StepInv /\ [Next]_vars => StepInv'
    BY StepKeeps
  <1>3. Sound /\ StepInv => RunsInRecordedDb
    BY ChainRunsInRecordedDb DEF Sound
  <1>. QED BY <1>1, <1>2, <1>3, TimeInit, StepInit, SoundInvariant, PTL DEF Spec

------------------------------------------------------------------------------
(***************************************************************************)
(* The order in which the commands of a pipeline run.                      *)
(***************************************************************************)

\* A command of a pipeline that is not its first.
Later(x) == x.cmd # NoCmd /\ Position(x.cmd) > 1

\* y is the next command of the pipeline of x, recorded in the database that x leaves.
Follows(x, y) ==
  /\ x.cmd # NoCmd /\ BatchOf(x.cmd) = BatchOf(y.cmd) /\ Position(x.cmd) = Position(y.cmd) - 1
  /\ y.name = "select" \/ y.select = DbAfterItem(x)

\* No pipeline of q has a gap, though it may have lost its beginning ...
InOrder(q) == \A i \in 2..Len(q) : Later(q[i]) => Follows(q[i - 1], q[i])
\* ... or may not.
Whole(q) == InOrder(q) /\ (q # <<>> => ~Later(q[1]))

\* What is on the wire goes on where the server is.
GoesOn == sent # <<>> /\ Later(sent[1]) => lastRun = BatchOf(sent[1].cmd)[Position(sent[1].cmd) - 1]

OrderInv ==
  /\ Whole(offlineQueue) /\ Whole(prevCommandQueue) /\ InOrder(commandQueue)
  /\ InOrder(sent) /\ GoesOn

------------------------------------------------------------------------------
(* Pipelines and queues of them.                                             *)

\* A command is issued in one batch, at one place of it.
LEMMA BatchFacts ==
  ASSUME NEW b \in Batches, NEW i \in DOMAIN b
  PROVE  BatchOf(b[i]) = b /\ Position(b[i]) = i
PROOF
  <1>1. b \in Seq(Commands) /\ IsInjective(b) /\ b[i] \in Commands
    BY CommandsAssumption
  <1>2. \A d \in Batches : (\E k \in DOMAIN d : d[k] = b[i]) => d = b
    <2>1. PICK e \in Batches : \A d \in Batches : (\E k \in DOMAIN d : d[k] = b[i]) <=> d = e
      BY <1>1, CommandsAssumption
    <2>. QED BY <2>1
  <1>3. BatchOf(b[i]) = b
    BY <1>2 DEF BatchOf
  <1>4. \A k \in DOMAIN b : b[k] = b[i] => k = i
    BY <1>1 DEF IsInjective
  <1>. QED BY <1>3, <1>4 DEF Position

\* Every command of the application has its place.
LEMMA CommandFacts ==
  ASSUME NEW c \in Commands
  PROVE  /\ BatchOf(c) \in Batches /\ BatchOf(c) \in Seq(Commands)
         /\ Position(c) \in 1..Len(BatchOf(c)) /\ BatchOf(c)[Position(c)] = c
PROOF
  <1>1. PICK b \in Batches : \E i \in DOMAIN b : b[i] = c
    BY CommandsAssumption
  <1>2. PICK i \in DOMAIN b : b[i] = c
    BY <1>1
  <1>3. BatchOf(c) = b /\ Position(c) = i
    BY <1>2, BatchFacts
  <1>4. b \in Seq(Commands)
    BY CommandsAssumption
  <1>. QED BY <1>2, <1>3, <1>4

\* A command after the first of a pipeline has a pipelineIndex that says so.
LEMMA LaterFacts ==
  ASSUME NEW x \in Item, Later(x)
  PROVE  /\ x.cmd \in Commands /\ Position(x.cmd) \in Nat
         /\ PipelineIndex(x) = Position(x.cmd) - 1 /\ PipelineIndex(x) > 0
PROOF
  <1>1. x.cmd \in Commands /\ x.cmd # NoCmd
    BY DEF Later, Item
  <1>2. PICK n, p : n = Len(BatchOf(x.cmd)) /\ p = Position(x.cmd)
    OBVIOUS
  <1>3. p \in 1..n /\ n \in Nat /\ p > 1
    <2>1. BatchOf(x.cmd) \in Seq(Commands) /\ p \in 1..n
      BY <1>1, <1>2, CommandFacts
    <2>. QED BY <1>2, <2>1 DEF Later
  <1>4. n # 1 /\ p \in Nat /\ p - 1 > 0
    BY <1>3
  <1>. QED BY <1>1, <1>2, <1>4 DEF PipelineIndex

\* What a command of a pipeline follows is the command before it, with the index before.
LEMMA FollowsFacts ==
  ASSUME NEW x \in Item, NEW y \in Item, Later(y), Follows(x, y)
  PROVE  /\ x.cmd \in Commands /\ x.cmd = BatchOf(y.cmd)[Position(y.cmd) - 1]
         /\ PipelineIndex(x) = PipelineIndex(y) - 1
PROOF
  <1>1. x.cmd # NoCmd /\ BatchOf(x.cmd) = BatchOf(y.cmd) /\ Position(x.cmd) = Position(y.cmd) - 1
    BY DEF Follows
  <1>2. x.cmd \in Commands
    BY <1>1 DEF Item
  <1>3. BatchOf(x.cmd)[Position(x.cmd)] = x.cmd
    BY <1>2, CommandFacts
  <1>4. y.cmd \in Commands /\ Position(y.cmd) \in Nat /\ PipelineIndex(y) = Position(y.cmd) - 1
        /\ PipelineIndex(y) > 0
    BY LaterFacts
  <1>5. Len(BatchOf(y.cmd)) # 1
    BY <1>4 DEF PipelineIndex
  <1>6. PipelineIndex(x) = Position(x.cmd) - 1
    BY <1>1, <1>5 DEF PipelineIndex
  <1>. QED BY <1>1, <1>2, <1>3, <1>4, <1>6

\* Nothing to run is in order, and so is one item.
LEMMA OrderOfNone == InOrder(<<>>) /\ Whole(<<>>)
PROOF
  BY DEF InOrder, Whole

\* One item is in order.
LEMMA OrderOfOne ==
  ASSUME NEW x \in Item
  PROVE  <<x>> \in Seq(Item) /\ InOrder(<<x>>) /\ (~Later(x) => Whole(<<x>>))
PROOF
  <1>1. Len(<<x>>) = 1 /\ <<x>>[1] = x
    OBVIOUS
  <1>. QED BY <1>1 DEF InOrder, Whole

\* What the client sends by itself is of no pipeline.
LEMMA InternalOrder ==
  ASSUME NEW x \in Item, x.cmd = NoCmd
  PROVE  <<x>> \in Seq(Item) /\ Whole(<<x>>)
PROOF
  BY OrderOfOne DEF Later

\* Two queues that join keep their pipelines.
LEMMA OrderConcat ==
  ASSUME NEW s \in Seq(Item), NEW t \in Seq(Item), InOrder(s), InOrder(t),
         t # <<>> /\ Later(t[1]) => s # <<>> /\ Follows(s[Len(s)], t[1])
  PROVE  /\ InOrder(s \o t) /\ (Whole(s) => Whole(s \o t))
PROOF
  <1>1. /\ s \o t \in Seq(Item) /\ Len(s \o t) = Len(s) + Len(t) /\ Len(s) \in Nat /\ Len(t) \in Nat
        /\ \A i \in 1..Len(s) : (s \o t)[i] = s[i]
        /\ \A i \in 1..Len(t) : (s \o t)[Len(s) + i] = t[i]
    OBVIOUS
  <1>2. ASSUME NEW i \in 2..Len(s \o t), Later((s \o t)[i])
        PROVE  Follows((s \o t)[i - 1], (s \o t)[i])
    <2>1. CASE i <= Len(s)
      <3>1. i \in 2..Len(s) /\ i \in 1..Len(s) /\ i - 1 \in 1..Len(s)
        BY <1>1, <2>1
      <3>. QED BY <1>1, <1>2, <3>1 DEF InOrder
    <2>2. CASE i = Len(s) + 1
      <3>1. 1 \in 1..Len(t) /\ Len(s) \in 1..Len(s) /\ i - 1 = Len(s)
        BY <1>1, <2>2
      <3>2. (s \o t)[i] = t[1] /\ (s \o t)[i - 1] = s[Len(s)] /\ t # <<>>
        BY <1>1, <2>2, <3>1
      <3>. QED BY <1>2, <3>2
    <2>3. CASE i > Len(s) + 1
      <3> DEFINE k == i - Len(s)
      <3>1. k \in 2..Len(t) /\ k \in 1..Len(t) /\ k - 1 \in 1..Len(t) /\ i = Len(s) + k
            /\ i - 1 = Len(s) + (k - 1)
        BY <1>1, <2>3
      <3>2. (s \o t)[i] = t[k] /\ (s \o t)[i - 1] = t[k - 1]
        BY <1>1, <3>1
      <3>. QED BY <1>2, <3>1, <3>2 DEF InOrder
    <2>. QED BY <1>1, <2>1, <2>2, <2>3
  <1>3. InOrder(s \o t)
    BY <1>2 DEF InOrder
  <1>4. ASSUME Whole(s) PROVE s \o t # <<>> => ~Later((s \o t)[1])
    <2>1. CASE s = <<>>
      <3>1. s \o t = t
        BY <2>1
      <3>. QED BY <2>1, <3>1
    <2>2. CASE s # <<>>
      <3>1. 1 \in 1..Len(s)
        BY <1>1, <2>2
      <3>. QED BY <1>1, <1>4, <2>2, <3>1 DEF Whole
    <2>. QED BY <2>1, <2>2
  <1>. QED BY <1>3, <1>4 DEF Whole

\* A queue may be followed by another whose pipelines are whole.
LEMMA WholeConcat ==
  ASSUME NEW s \in Seq(Item), NEW t \in Seq(Item), InOrder(s), Whole(t)
  PROVE  InOrder(s \o t) /\ (Whole(s) => Whole(s \o t))
PROOF
  BY OrderConcat DEF Whole

\* Taking the head leaves the rest in order.
LEMMA OrderTail ==
  ASSUME NEW q \in Seq(Item), q # <<>>, InOrder(q)
  PROVE  InOrder(Tail(q))
PROOF
  <1>1. /\ Len(Tail(q)) = Len(q) - 1 /\ Len(q) \in Nat
        /\ \A i \in 1..Len(Tail(q)) : Tail(q)[i] = q[i + 1]
    BY HeadTailProperties
  <1>2. ASSUME NEW i \in 2..Len(Tail(q)) PROVE
          /\ i + 1 \in 2..Len(q) /\ Tail(q)[i] = q[i + 1] /\ Tail(q)[i - 1] = q[(i + 1) - 1]
    <2>1. i \in 1..Len(Tail(q)) /\ i - 1 \in 1..Len(Tail(q)) /\ i + 1 \in 2..Len(q) /\ (i - 1) + 1 = (i + 1) - 1
      BY <1>1
    <2>. QED BY <1>1, <2>1
  <1>. QED BY <1>2 DEF InOrder

\* A filtered queue keeps the order when every command that is kept has the one before it
\* kept, and then no pipeline has lost its beginning.
LEMMA KeepWhole ==
  ASSUME NEW q \in Seq(Item), InOrder(q), NEW keep,
         \A i \in DOMAIN q : i \in keep /\ Later(q[i]) => i > 1 /\ i - 1 \in keep
  PROVE  Keep(q, keep) \in Seq(Item) /\ Whole(Keep(q, keep))
PROOF
  <1> DEFINE step(i) == IF i \in keep THEN <<q[i]>> ELSE <<>>
             ss == [i \in DOMAIN q |-> step(i)]
  <1>0. DOMAIN q = 1..Len(q) /\ Len(q) \in Nat
    OBVIOUS
  <1>1. \A i \in DOMAIN q : step(i) \in Seq(Item)
    OBVIOUS
  <1>2. Keep(q, keep) = FlattenSeq(ss)
    BY DEF Keep
  <1>3. ss \in Seq(Seq(Item)) /\ Len(ss) = Len(q) /\ \A i \in 1..Len(q) : ss[i] = step(i)
    <2>1. ss \in [1..Len(q) -> Seq(Item)]
      BY <1>0, <1>1
    <2>. QED BY <1>0, <2>1, SeqDef
  <1> HIDE DEF ss
  <1>4. FlattenSeq(ss) \in Seq(Item)
    BY <1>3, FlattenSeqType
  <1>5. CASE q = <<>>
    <2>1. Len(ss) = 0
      BY <1>3, <1>5
    <2>2. ss = <<>>
      BY <1>3, <2>1, EmptySeq
    <2>3. FlattenSeq(ss) = <<>>
      BY <2>2 DEF FlattenSeq
    <2>. QED BY <1>2, <1>4, <2>3, OrderOfNone
  <1>6. CASE q # <<>>
    <2>1. PICK f : /\ IsPrefixSums(f, ss, Len(ss)) /\ FlattenSeq(ss) = f[Len(ss)]
                   /\ \A i \in 1..Len(ss) : f[i] \in Seq(Item)
      <3>1. ss # <<>>
        BY <1>3, <1>6
      <3>. QED BY <1>3, <3>1, FlattenIsLastPrefix
    <2> DEFINE Good(i) == Whole(f[i]) /\ (i \in keep => f[i] # <<>> /\ f[i][Len(f[i])] = q[i])
               Bad == {i \in 1..Len(q) : ~Good(i)}
    <2>2. Bad = {}
      <3>1. SUFFICES ASSUME Bad # {} PROVE FALSE
        OBVIOUS
      <3>2. PICK m \in Bad : \A k \in Bad : m <= k
        <4>1. Bad \subseteq Nat
          BY <1>0
        <4> HIDE DEF Bad
        <4>. QED BY <3>1, <4>1, LeastNat
      <3>3. m \in 1..Len(q) /\ f[m] = (IF m = 1 THEN ss[m] ELSE f[m - 1] \o ss[m]) /\ ~Good(m)
        BY <1>3, <2>1 DEF IsPrefixSums
      <3>4. ss[m] = step(m) /\ q[m] \in Item
        BY <1>0, <1>3, <3>3
      <3>5. m # 1 => m - 1 \in 1..Len(q) /\ Good(m - 1)
        <4>1. m # 1 => m - 1 \in 1..Len(q) /\ ~(m <= m - 1)
          BY <1>0, <3>3
        <4>2. m # 1 => m - 1 \notin Bad
          <5> HIDE DEF Bad
          <5>. QED BY <3>2, <4>1
        <4>. QED BY <4>1, <4>2
      <3>6. CASE m \notin keep
        <4>1. ss[m] = <<>>
          BY <3>4, <3>6
        <4>2. CASE m = 1
          BY <3>3, <3>6, <4>1, <4>2, OrderOfNone
        <4>3. CASE m # 1
          <5>1. f[m] = f[m - 1]
            BY <1>3, <2>1, <3>3, <3>5, <4>1, <4>3
          <5>. QED BY <3>3, <3>5, <3>6, <4>3, <5>1
        <4>. QED BY <4>2, <4>3
      <3>7. CASE m \in keep
        <4>1. ss[m] = <<q[m]>> /\ <<q[m]>> \in Seq(Item) /\ InOrder(<<q[m]>>)
          BY <3>4, <3>7, OrderOfOne
        <4>2. Later(q[m]) => m > 1 /\ m - 1 \in keep
          BY <1>0, <3>3, <3>7
        <4>3. CASE m = 1
          <5>1. ~Later(q[m])
            BY <4>2, <4>3
          <5>. QED BY <3>3, <3>4, <4>1, <4>3, <5>1, OrderOfOne
        <4>4. CASE m # 1
          <5>1. f[m] = f[m - 1] \o <<q[m]>> /\ f[m - 1] \in Seq(Item) /\ Whole(f[m - 1])
            BY <1>3, <2>1, <3>3, <3>5, <4>1, <4>4
          <5>2. ASSUME Later(q[m]) PROVE f[m - 1] # <<>> /\ Follows(f[m - 1][Len(f[m - 1])], q[m])
            <6>1. f[m - 1] # <<>> /\ f[m - 1][Len(f[m - 1])] = q[m - 1]
              BY <3>5, <4>2, <4>4, <5>2
            <6>2. m \in 2..Len(q)
              BY <1>0, <3>3, <4>4
            <6>. QED BY <5>2, <6>1, <6>2 DEF InOrder
          <5>3. Whole(f[m - 1] \o <<q[m]>>)
            <6>1. InOrder(f[m - 1]) /\ <<q[m]>>[1] = q[m]
              BY <5>1 DEF Whole
            <6>. QED BY <4>1, <5>1, <5>2, <6>1, OrderConcat
          <5>4. f[m] # <<>> /\ f[m][Len(f[m])] = q[m]
            BY <5>1
          <5>. QED BY <3>3, <5>1, <5>3, <5>4
        <4>. QED BY <4>3, <4>4
      <3>. QED BY <3>6, <3>7
    <2>3. Len(q) \in 1..Len(q)
      BY <1>0, <1>6
    <2>4. Good(Len(q))
      BY <2>2, <2>3
    <2>. QED BY <1>2, <1>3, <1>4, <2>1, <2>4
  <1>. QED BY <1>5, <1>6

\* readyHandler: a queue sent again keeps its pipelines; no SELECT comes in between, as a
\* command of a pipeline is recorded in the database that the one before it leaves.
LEMMA ResendWhole ==
  ASSUME NEW q \in Seq(Item), Whole(q), NEW db \in Dbs
  PROVE  Resend(q, db) \in Seq(Item) /\ Whole(Resend(q, db))
PROOF
  <1> DEFINE
    before(i) == DbBefore(q, i, db)
    step(i) == IF q[i].name = "select" THEN <<[q[i] EXCEPT !.select = before(i)]>>
               ELSE IF q[i].select = before(i) THEN <<q[i]>>
               ELSE <<SelectItem(q[i].select, before(i)), q[i]>>
    ss == [i \in DOMAIN q |-> step(i)]
    Like(x, y) == /\ x \in Item /\ x.cmd = y.cmd /\ x.name = y.name /\ DbAfterItem(x) = DbAfterItem(y)
                  /\ x.name = "select" \/ x.select = y.select
  <1>0. DOMAIN q = 1..Len(q) /\ Len(q) \in Nat
    OBVIOUS
  <1>1. ASSUME NEW i \in DOMAIN q
        PROVE  \E x : /\ Like(x, q[i])
                      /\ \/ step(i) = <<x>>
                         \/ /\ i > 1 => q[i].name # "select" /\ q[i].select # DbAfterItem(q[i - 1])
                            /\ \E y \in Item : y.cmd = NoCmd /\ step(i) = <<y>> \o <<x>>
    <2>1. q[i] \in Item /\ q[i].select \in Dbs /\ q[i].db \in Dbs
      <3>1. q[i] \in Item
        BY ElementOfSeq
      <3>. QED BY <3>1 DEF Item
    <2>2. before(i) \in Dbs /\ (i > 1 => before(i) = DbAfterItem(q[i - 1]))
      <3>1. i = 1 \/ (i > 1 /\ q[i - 1] \in Item)
        BY <1>0
      <3>2. \A item \in Item : DbAfterItem(item) \in Dbs
        BY DEF DbAfterItem, Item
      <3>. QED BY <1>0, <3>1, <3>2 DEF DbBefore
    <2> HIDE DEF before
    <2>3. CASE q[i].name = "select"
      <3> DEFINE x == [q[i] EXCEPT !.select = before(i)]
      <3>1. x \in Item /\ x.name = q[i].name /\ x.db = q[i].db /\ x.cmd = q[i].cmd
        BY <2>1, <2>2 DEF Item
      <3>2. step(i) = <<x>>
        BY <2>3
      <3> HIDE DEF x, step
      <3>3. DbAfterItem(x) = DbAfterItem(q[i])
        BY <2>3, <3>1 DEF DbAfterItem
      <3>. QED BY <2>3, <3>1, <3>2, <3>3
    <2>4. CASE q[i].name # "select" /\ q[i].select = before(i)
      <3>1. step(i) = <<q[i]>>
        BY <2>4
      <3> HIDE DEF step
      <3>. QED BY <2>1, <3>1
    <2>5. CASE q[i].name # "select" /\ q[i].select # before(i)
      <3> DEFINE y == SelectItem(q[i].select, before(i))
      <3>1. y \in Item /\ y.cmd = NoCmd
        BY <2>1, <2>2, InternalType DEF SelectItem, Internal, ItemNames, Names
      <3>2. step(i) = <<y, q[i]>>
        BY <2>5
      <3> HIDE DEF y, step
      <3>3. step(i) = <<y>> \o <<q[i]>>
        BY <3>2
      <3>. QED BY <2>1, <2>2, <2>5, <3>1, <3>3
    <2>. QED BY <2>3, <2>4, <2>5
  <1> HIDE DEF step
  <1>2. ASSUME NEW i \in DOMAIN q PROVE step(i) \in Seq(Item)
    <2>1. PICK x \in Item : step(i) = <<x>> \/ \E y \in Item : step(i) = <<y>> \o <<x>>
      BY <1>1
    <2>2. \A y \in Item : <<y>> \in Seq(Item) /\ <<y>> \o <<x>> \in Seq(Item)
      OBVIOUS
    <2>. QED BY <2>1, <2>2
  <1>3. ss \in Seq(Seq(Item)) /\ Len(ss) = Len(q) /\ \A i \in 1..Len(q) : ss[i] = step(i)
    <2>1. ss \in [1..Len(q) -> Seq(Item)]
      BY <1>0, <1>2
    <2>. QED BY <1>0, <2>1, SeqDef
  <1>4. Resend(q, db) = FlattenSeq(ss)
    BY DEF Resend, step, before
  <1> HIDE DEF ss
  <1>5. FlattenSeq(ss) \in Seq(Item)
    BY <1>3, FlattenSeqType
  <1>6. CASE q = <<>>
    <2>1. Len(ss) = 0
      BY <1>3, <1>6
    <2>2. ss = <<>>
      BY <1>3, <2>1, EmptySeq
    <2>3. FlattenSeq(ss) = <<>>
      BY <2>2 DEF FlattenSeq
    <2>. QED BY <1>4, <1>5, <2>3, OrderOfNone
  <1>7. CASE q # <<>>
    <2>1. PICK f : /\ IsPrefixSums(f, ss, Len(ss)) /\ FlattenSeq(ss) = f[Len(ss)]
                   /\ \A i \in 1..Len(ss) : f[i] \in Seq(Item)
      <3>1. ss # <<>>
        BY <1>3, <1>7
      <3>. QED BY <1>3, <3>1, FlattenIsLastPrefix
    <2> DEFINE Good(i) == Whole(f[i]) /\ f[i] # <<>> /\ Like(f[i][Len(f[i])], q[i])
               Bad == {i \in 1..Len(q) : ~Good(i)}
    <2>2. Bad = {}
      <3>1. SUFFICES ASSUME Bad # {} PROVE FALSE
        OBVIOUS
      <3>2. PICK m \in Bad : \A k \in Bad : m <= k
        <4>1. Bad \subseteq Nat
          BY <1>0
        <4> HIDE DEF Bad
        <4>. QED BY <3>1, <4>1, LeastNat
      <3>3. m \in 1..Len(q) /\ f[m] = (IF m = 1 THEN step(m) ELSE f[m - 1] \o step(m)) /\ ~Good(m)
        BY <1>3, <2>1 DEF IsPrefixSums
      <3>4. m # 1 => m - 1 \in 1..Len(q) /\ Good(m - 1)
        <4>1. m # 1 => m - 1 \in 1..Len(q) /\ ~(m <= m - 1)
          BY <1>0, <3>3
        <4>2. m # 1 => m - 1 \notin Bad
          <5> HIDE DEF Bad
          <5>. QED BY <3>2, <4>1
        <4>. QED BY <4>1, <4>2
      <3>5. PICK x : /\ Like(x, q[m])
                     /\ \/ step(m) = <<x>>
                        \/ /\ m > 1 => q[m].name # "select" /\ q[m].select # DbAfterItem(q[m - 1])
                           /\ \E y \in Item : y.cmd = NoCmd /\ step(m) = <<y>> \o <<x>>
        BY <1>0, <1>1, <3>3
      <3>6. /\ x \in Item /\ <<x>> \in Seq(Item) /\ InOrder(<<x>>) /\ <<x>>[1] = x
            /\ Later(x) <=> Later(q[m])
        BY <3>5, OrderOfOne DEF Later
      <3>7. Later(x) => m \in 2..Len(q) /\ Follows(q[m - 1], q[m])
        BY <1>0, <3>3, <3>6 DEF Whole, InOrder
      <3>8. CASE step(m) = <<x>>
        <4>1. CASE m = 1
          BY <3>3, <3>5, <3>6, <3>7, <3>8, <4>1, OrderOfOne
        <4>2. CASE m # 1
          <5>1. f[m] = f[m - 1] \o <<x>> /\ f[m - 1] \in Seq(Item) /\ Good(m - 1)
            BY <1>3, <2>1, <3>3, <3>4, <3>8, <4>2
          <5>2. ASSUME Later(x) PROVE Follows(f[m - 1][Len(f[m - 1])], x)
            BY <3>5, <3>7, <5>1, <5>2 DEF Follows
          <5>3. Whole(f[m - 1] \o <<x>>)
            BY <3>6, <5>1, <5>2, OrderConcat DEF Whole
          <5>4. f[m] # <<>> /\ f[m][Len(f[m])] = x
            BY <3>6, <5>1
          <5>. QED BY <3>3, <3>5, <5>1, <5>3, <5>4
        <4>. QED BY <4>1, <4>2
      <3>9. ASSUME NEW y \in Item, y.cmd = NoCmd, step(m) = <<y>> \o <<x>>,
                   m > 1 => q[m].name # "select" /\ q[m].select # DbAfterItem(q[m - 1])
            PROVE  FALSE
        <4>1. ~Later(x)
          BY <3>7, <3>9 DEF Follows
        <4>2. <<y>> \in Seq(Item) /\ Whole(<<y>>) /\ Whole(<<x>>)
          BY <3>6, <3>9, <4>1, OrderOfOne, InternalOrder
        <4>3. step(m) \in Seq(Item) /\ Whole(step(m)) /\ step(m) # <<>> /\ step(m)[Len(step(m))] = x
          <5>1. Whole(<<y>> \o <<x>>)
            BY <3>6, <4>2, WholeConcat DEF Whole
          <5>2. /\ <<y>> \o <<x>> \in Seq(Item) /\ <<y>> \o <<x>> # <<>>
                /\ (<<y>> \o <<x>>)[Len(<<y>> \o <<x>>)] = x
            BY <3>6, <3>9
          <5>. QED BY <3>9, <5>1, <5>2
        <4>4. CASE m = 1
          BY <3>3, <3>5, <4>3, <4>4
        <4>5. CASE m # 1
          <5>1. f[m] = f[m - 1] \o step(m) /\ f[m - 1] \in Seq(Item) /\ Good(m - 1)
            BY <1>3, <2>1, <3>3, <3>4, <4>5
          <5>2. Whole(f[m - 1] \o step(m))
            BY <4>3, <5>1, WholeConcat DEF Whole
          <5>3. f[m] # <<>> /\ f[m][Len(f[m])] = x
            <6>1. /\ Len(f[m]) = Len(f[m - 1]) + Len(step(m)) /\ Len(step(m)) \in 1..Len(step(m))
                  /\ Len(f[m - 1]) \in Nat
              BY <4>3, <5>1
            <6>. QED BY <4>3, <5>1, <6>1
          <5>. QED BY <3>3, <3>5, <5>1, <5>2, <5>3
        <4>. QED BY <4>4, <4>5
      <3>. QED BY <3>5, <3>8, <3>9
    <2>3. Len(q) \in 1..Len(q)
      BY <1>0, <1>7
    <2>4. Good(Len(q))
      BY <2>2, <2>3
    <2>. QED BY <1>3, <1>4, <1>5, <2>1, <2>4
  <1>. QED BY <1>6, <1>7

\* Redis#sendCommand for a batch: its commands follow one another.
LEMMA ItemsOfWhole ==
  ASSUME TypeOK, NEW b \in Batches, NEW sel \in Dbs
  PROVE  ItemsOf(b, sel) \in Seq(Item) /\ Whole(ItemsOf(b, sel))
PROOF
  <1> DEFINE q == ItemsOf(b, sel)
  <1>1. b \in Seq(Commands) /\ Len(b) \in Nat /\ DOMAIN b = 1..Len(b) /\ NoCmd \notin Commands
    BY CommandsAssumption
  <1>2. q \in Seq(Item)
    BY ItemsOfType
  <1>3. /\ Len(q) = Len(b)
        /\ \A i \in 1..Len(b) : /\ q[i].cmd = b[i] /\ q[i].name = Name[b[i]]
                                /\ q[i].select = SelectedAfter(b, i - 1, sel)
                                /\ Name[b[i]] = "select" => q[i].db = Argument[b[i]]
    BY <1>1, <1>2 DEF ItemsOf
  <1> HIDE DEF q
  <1>4. \A i \in 1..Len(b) : DbAfterItem(q[i]) = SelectedAfter(b, i, sel)
    BY <1>1, <1>3, SelectedAfterStep DEF DbAfterItem
  <1>5. \A i \in 1..Len(b) : b[i] # NoCmd /\ BatchOf(q[i].cmd) = b /\ Position(q[i].cmd) = i
    BY <1>1, <1>3, BatchFacts
  <1>6. ASSUME NEW i \in 2..Len(q), Later(q[i]) PROVE Follows(q[i - 1], q[i])
    <2>1. i \in 1..Len(b) /\ i - 1 \in 1..Len(b)
      BY <1>1, <1>3
    <2>2. q[i].select = DbAfterItem(q[i - 1])
      BY <1>3, <1>4, <2>1
    <2>3. q[i - 1].cmd # NoCmd
      BY <1>3, <1>5, <2>1
    <2>. QED BY <1>5, <2>1, <2>2, <2>3 DEF Follows
  <1>7. q # <<>> => ~Later(q[1])
    <2>1. q # <<>> => 1 \in 1..Len(b)
      BY <1>1, <1>2, <1>3
    <2>. QED BY <1>5, <2>1 DEF Later
  <1>. QED BY <1>2, <1>6, <1>7 DEF Whole, InOrder, q

\* abortIncompletePipelines: a pipeline that has lost its beginning is dropped, and the others
\* are kept as they are.
LEMMA AbortedWhole ==
  ASSUME NEW q \in Seq(Item), InOrder(q)
  PROVE  AbortIncompletePipelines(q) \in Seq(Item) /\ Whole(AbortIncompletePipelines(q))
PROOF
  <1> DEFINE keep == {i \in DOMAIN q : PipelineIndex(q[i]) \in {-1, ExpectedIndex(q, i)}}
             starts(i) == {j \in 1..i : PipelineIndex(q[j]) <= 0}
             last(i) == CHOOSE j \in starts(i) : \A k \in starts(i) : k <= j
  <1>0. DOMAIN q = 1..Len(q) /\ Len(q) \in Nat
    OBVIOUS
  <1>1. ASSUME NEW i \in DOMAIN q, i \in keep, Later(q[i]) PROVE i > 1 /\ i - 1 \in keep
    <2>1. /\ q[i] \in Item /\ i \in 1..Len(q) /\ PipelineIndex(q[i]) \in Nat
          /\ PipelineIndex(q[i]) > 0 /\ PipelineIndex(q[i]) = ExpectedIndex(q, i)
      <3>1. q[i] \in Item
        BY ElementOfSeq
      <3>2. PipelineIndex(q[i]) \in Nat /\ PipelineIndex(q[i]) > 0
        BY <1>1, <3>1, LaterFacts
      <3>. QED BY <1>0, <1>1, <3>1, <3>2
    <2>2. \A k : ExpectedIndex(q, k) =
                   IF starts(k) = {} THEN k - 1
                   ELSE IF PipelineIndex(q[last(k)]) = 0 THEN k - last(k) ELSE k - last(k) - 1
      BY DEF ExpectedIndex
    <2>3. i > 1
      <3>1. SUFFICES ASSUME i = 1 PROVE FALSE
        BY <2>1
      <3>2. starts(1) = {}
        BY <2>1, <3>1
      <3>3. ExpectedIndex(q, 1) = 0
        BY <2>2, <3>2
      <3>. QED BY <2>1, <3>1, <3>3
    <2>4. i - 1 \in 1..Len(q) /\ i \in 2..Len(q) /\ q[i - 1] \in Item
      <3>1. i - 1 \in 1..Len(q) /\ i \in 2..Len(q)
        BY <1>0, <2>1, <2>3
      <3>. QED BY <3>1, ElementOfSeq
    <2>5. starts(i) = starts(i - 1) /\ last(i) = last(i - 1)
      <3>1. 1..i = 1..(i - 1) \cup {i}
        BY <2>1
      <3>2. starts(i) = starts(i - 1)
        BY <2>1, <3>1
      <3> HIDE DEF starts
      <3>. QED BY <3>2
    <2>6. PipelineIndex(q[i - 1]) = PipelineIndex(q[i]) - 1
      BY <1>1, <2>1, <2>4, FollowsFacts DEF InOrder
    <2>7. starts(i) # {} => last(i) \in Int
      <3> DEFINE T == {i - j : j \in starts(i)}
      <3>1. SUFFICES ASSUME starts(i) # {} PROVE last(i) \in Int
        OBVIOUS
      <3>2. starts(i) \subseteq 1..i /\ i \in Nat
        BY <2>1
      <3> HIDE DEF starts
      <3>3. T \subseteq Nat /\ T # {}
        BY <3>1, <3>2
      <3>4. PICK t \in T : \A y \in T : t <= y
        <4> HIDE DEF T
        <4>. QED BY <3>3, LeastNat
      <3>5. PICK j \in starts(i) : t = i - j
        BY <3>4
      <3>6. \A k \in starts(i) : k <= j
        <4> TAKE k \in starts(i)
        <4>1. i - j <= i - k
          BY <3>4, <3>5
        <4>. QED BY <3>2, <4>1
      <3>7. last(i) \in starts(i)
        BY <3>6
      <3>. QED BY <3>2, <3>7
    <2> HIDE DEF starts, last
    <2>8. ExpectedIndex(q, i - 1) = ExpectedIndex(q, i) - 1
      <3>1. CASE starts(i) = {}
        <4>1. ExpectedIndex(q, i) = i - 1 /\ ExpectedIndex(q, i - 1) = i - 1 - 1
          BY <2>2, <2>5, <3>1
        <4>. QED BY <2>1, <4>1
      <3>2. CASE starts(i) # {} /\ PipelineIndex(q[last(i)]) = 0
        <4>1. ExpectedIndex(q, i) = i - last(i) /\ ExpectedIndex(q, i - 1) = i - 1 - last(i)
          BY <2>2, <2>5, <3>2
        <4>. QED BY <2>1, <2>7, <3>2, <4>1
      <3>3. CASE starts(i) # {} /\ PipelineIndex(q[last(i)]) # 0
        <4>1. ExpectedIndex(q, i) = i - last(i) - 1 /\ ExpectedIndex(q, i - 1) = i - 1 - last(i) - 1
          BY <2>2, <2>5, <3>3
        <4>. QED BY <2>1, <2>7, <3>3, <4>1
      <3>. QED BY <3>1, <3>2, <3>3
    <2>9. i - 1 \in keep
      BY <1>0, <2>1, <2>4, <2>6, <2>8
    <2>. QED BY <2>3, <2>9
  <1>2. AbortIncompletePipelines(q) = Keep(q, keep)
    BY DEF AbortIncompletePipelines
  <1> HIDE DEF keep
  <1>. QED BY <1>1, <1>2, KeepWhole

\* A command that has one before it in its pipeline has all of them, in the places before it.
LEMMA AllBefore ==
  ASSUME NEW q \in Seq(Item), Whole(q), NEW i \in DOMAIN q, q[i].cmd # NoCmd,
         NEW p \in 1..Position(q[i].cmd)
  PROVE  \E j \in 1..i : q[j].cmd = BatchOf(q[i].cmd)[p]
PROOF
  <1> DEFINE b == BatchOf(q[i].cmd)
             n == Position(q[i].cmd)
             There(d) == /\ i - d \in 1..i /\ q[i - d].cmd # NoCmd
                         /\ BatchOf(q[i - d].cmd) = b /\ Position(q[i - d].cmd) = n - d
             Bad == {d \in 0..(n - 1) : ~There(d)}
  <1>0. /\ DOMAIN q = 1..Len(q) /\ Len(q) \in Nat /\ q[i] \in Item /\ i \in 1..Len(q)
        /\ q[i].cmd \in Commands
    <2>1. q[i] \in Item
      BY ElementOfSeq
    <2>. QED BY <2>1 DEF Item
  <1>1. b \in Seq(Commands) /\ n \in 1..Len(b) /\ n \in Nat
    <2>1. b \in Seq(Commands) /\ n \in 1..Len(b)
      BY <1>0, CommandFacts
    <2>. QED BY <2>1
  <1>2. Bad = {}
    <2>1. SUFFICES ASSUME Bad # {} PROVE FALSE
      OBVIOUS
    <2>2. PICK m \in Bad : \A k \in Bad : m <= k
      <3>1. Bad \subseteq Nat
        BY <1>1
      <3> HIDE DEF Bad
      <3>. QED BY <2>1, <3>1, LeastNat
    <2>3. m \in 0..(n - 1) /\ ~There(m)
      OBVIOUS
    <2>4. m # 0
      BY <1>0, <1>1, <2>3
    <2>5. m - 1 \in 0..(n - 1) /\ ~(m <= m - 1)
      BY <1>1, <2>3, <2>4
    <2>6. There(m - 1)
      <3>1. m - 1 \notin Bad
        <4> HIDE DEF Bad
        <4>. QED BY <2>2, <2>5
      <3>. QED BY <2>5, <3>1
    <2>7. PICK k : k = i - (m - 1)
      OBVIOUS
    <2>8. /\ k \in 1..i /\ k \in 1..Len(q) /\ q[k].cmd # NoCmd /\ BatchOf(q[k].cmd) = b
          /\ Position(q[k].cmd) = n - (m - 1) /\ k - 1 = i - m
      BY <1>0, <2>3, <2>6, <2>7
    <2>9. Position(q[k].cmd) > 1 /\ Position(q[k].cmd) - 1 = n - m
      BY <1>1, <2>3, <2>8
    <2>10. Later(q[k])
      BY <2>8, <2>9 DEF Later
    <2>11. k # 1 /\ q # <<>>
      BY <1>0, <2>10 DEF Whole
    <2>12. k \in 2..Len(q) /\ k - 1 \in 1..i
      BY <1>0, <2>8, <2>11
    <2>13. Follows(q[k - 1], q[k])
      BY <2>10, <2>12 DEF Whole, InOrder
    <2>14. There(m)
      BY <2>8, <2>9, <2>12, <2>13 DEF Follows
    <2>. QED BY <2>3, <2>14
  <1>3. n - p \in 0..(n - 1)
    BY <1>1
  <1>4. There(n - p)
    BY <1>2, <1>3
  <1>5. PICK j : j = i - (n - p)
    OBVIOUS
  <1>6. j \in 1..i /\ q[j].cmd # NoCmd /\ BatchOf(q[j].cmd) = b /\ Position(q[j].cmd) = n - (n - p)
    BY <1>4, <1>5
  <1>7. n - (n - p) = p
    BY <1>1
  <1>8. q[j].cmd \in Commands
    <2>1. j \in 1..Len(q)
      BY <1>0, <1>6
    <2>2. q[j] \in Item
      BY <2>1, ElementOfSeq
    <2>. QED BY <1>6, <2>2 DEF Item
  <1>9. q[j].cmd = b[p]
    <2>1. BatchOf(q[j].cmd)[Position(q[j].cmd)] = q[j].cmd
      BY <1>8, CommandFacts
    <2>. QED BY <1>6, <1>7, <2>1
  <1>. QED BY <1>6, <1>9

\* A transaction sent as a pipeline begins with its MULTI.
ExecAfterMulti ==
  \A b \in Batches : \A i \in DOMAIN b :
    Len(b) > 1 /\ Name[b[i]] = "exec" => \E p \in 1..(i - 1) : Name[b[p]] = "multi"

\* abortTransactionFragments: no command of a whole pipeline is taken for a fragment, as the
\* MULTI of its transaction is ahead of it.
LEMMA FragmentsWhole ==
  ASSUME ExecAfterMulti, NEW q \in Seq(NamedItem), Whole(q)
  PROVE  AbortTransactionFragments(q) \in Seq(Item) /\ Whole(AbortTransactionFragments(q))
PROOF
  <1> DEFINE keep == {i \in DOMAIN q :
                        \/ \E j \in 1..i : /\ q[j].name = "multi"
                                           /\ \A k \in 1..(j - 1) : q[k].name # "exec"
                        \/ \E j \in 1..(i - 1) : q[j].name = "exec"
                        \/ q[i].name # "exec" /\ ~InTransaction(q[i])}
             Piped(x) == x.cmd # NoCmd /\ Len(BatchOf(x.cmd)) > 1
  <1>0. DOMAIN q = 1..Len(q) /\ Len(q) \in Nat /\ q \in Seq(Item)
    BY DEF NamedItem
  <1>1. \A i \in DOMAIN q : q[i] \in NamedItem /\ q[i] \in Item
    BY ElementOfSeq DEF NamedItem
  <1>2. ASSUME NEW i \in DOMAIN q, Piped(q[i]) PROVE i \in keep
    <2>1. SUFFICES ASSUME q[i].name = "exec" \/ InTransaction(q[i]) PROVE i \in keep
      OBVIOUS
    <2>2. /\ q[i].cmd \in Commands /\ q[i].name = Name[q[i].cmd] /\ BatchOf(q[i].cmd) \in Batches
          /\ Position(q[i].cmd) \in DOMAIN BatchOf(q[i].cmd) /\ Position(q[i].cmd) \in Nat
          /\ BatchOf(q[i].cmd)[Position(q[i].cmd)] = q[i].cmd
      <3>1. q[i].cmd \in Commands /\ q[i].name = Name[q[i].cmd]
        BY <1>1, <1>2 DEF NamedItem, Item
      <3>2. /\ BatchOf(q[i].cmd) \in Batches /\ BatchOf(q[i].cmd) \in Seq(Commands)
            /\ Position(q[i].cmd) \in 1..Len(BatchOf(q[i].cmd))
            /\ BatchOf(q[i].cmd)[Position(q[i].cmd)] = q[i].cmd
        BY <3>1, CommandFacts
      <3>. QED BY <3>1, <3>2
    <2>3. PICK p \in 1..Position(q[i].cmd) : Name[BatchOf(q[i].cmd)[p]] = "multi"
      <3>1. CASE q[i].name = "exec"
        <4>1. \E p \in 1..(Position(q[i].cmd) - 1) : Name[BatchOf(q[i].cmd)[p]] = "multi"
          BY <1>2, <2>2, <3>1 DEF ExecAfterMulti
        <4>. QED BY <2>2, <4>1
      <3>2. CASE InTransaction(q[i])
        BY <3>2 DEF InTransaction
      <3>. QED BY <2>1, <3>1, <3>2
    <2>4. PICK j \in 1..i : q[j].cmd = BatchOf(q[i].cmd)[p]
      BY <1>0, <1>2, <2>2, AllBefore
    <2>5. j \in 1..Len(q) /\ i \in 1..Len(q)
      BY <1>0
    <2>6. q[j].name = "multi"
      <3>1. q[j].cmd \in Commands
        BY <2>2, <2>4, CommandFacts
      <3>2. q[j] \in NamedItem /\ q[j].cmd # NoCmd
        BY <1>0, <1>1, <2>5, <3>1, CommandsAssumption
      <3>. QED BY <2>3, <2>4, <3>2 DEF NamedItem
    <2>7. CASE \A k \in 1..(j - 1) : q[k].name # "exec"
      BY <2>6, <2>7
    <2>8. CASE \E k \in 1..(j - 1) : q[k].name = "exec"
      <3>1. \E k \in 1..(i - 1) : q[k].name = "exec"
        BY <2>5, <2>8
      <3>. QED BY <3>1
    <2>. QED BY <2>7, <2>8
  <1>3. ASSUME NEW i \in DOMAIN q, Later(q[i]) PROVE i > 1 /\ i - 1 \in keep
    <2>1. i \in 2..Len(q) /\ i - 1 \in DOMAIN q
      BY <1>0, <1>3 DEF Whole
    <2>2. Follows(q[i - 1], q[i])
      BY <1>3, <2>1 DEF Whole, InOrder
    <2>3. q[i].cmd \in Commands /\ Position(q[i].cmd) > 1
      BY <1>1, <1>3, LaterFacts DEF Later
    <2>4. Len(BatchOf(q[i].cmd)) > 1
      <3>1. Position(q[i].cmd) \in 1..Len(BatchOf(q[i].cmd)) /\ BatchOf(q[i].cmd) \in Seq(Commands)
        BY <2>3, CommandFacts
      <3>. QED BY <2>3, <3>1
    <2>5. Piped(q[i - 1])
      BY <2>2, <2>4 DEF Follows
    <2>. QED BY <1>2, <2>1, <2>5
  <1>4. AbortTransactionFragments(q) = Keep(q, keep)
    BY DEF AbortTransactionFragments
  <1> HIDE DEF keep, Piped
  <1>. QED BY <1>0, <1>3, <1>4, KeepWhole DEF Whole

------------------------------------------------------------------------------
(* The actions and the order of pipelines.                                   *)

\* The queues hold commands under their names.
LEMMA OrderTypes ==
  ASSUME Sound
  PROVE  /\ {offlineQueue, commandQueue, prevCommandQueue} \subseteq Seq(NamedItem)
         /\ {offlineQueue, commandQueue, prevCommandQueue, sent} \subseteq Seq(Item)
PROOF
  BY DEF Sound, HeldInv, QueueShapes, TypeOK, QueueTypes, WireTypes

\* The steps that touch neither queue nor wire.
LEMMA QuietKeepsOrder ==
  ASSUME OrderInv,
         \/ Connect \/ \E b \in Batches : IssueQuitOffline(b) \/ IssueRefused(b)
         \/ \E reconnect \in BOOLEAN : Disconnect(reconnect) /\ status # "wait"
         \/ ReconnectTimer \/ CreateSocket \/ StaleContinuation \/ WrongRole \/ StillLoading
         \/ (\E c \in Commands : TimeOut(c)) \/ UNCHANGED vars
  PROVE  OrderInv'
PROOF
  <1>1. UNCHANGED <<offlineQueue, commandQueue, prevCommandQueue, sent, lastRun>>
    BY DEF Connect, Disconnect, IssueQuitOffline, IssueRefused, ReconnectTimer, CreateSocket,
           StaleContinuation, WrongRole, NothingSent, ContinuationFrame, StillLoading, TimeOut,
           vars, queues, wire, history
  <1>. QED BY <1>1 DEF OrderInv, GoesOn

\* The steps that drop queues.
LEMMA FlushKeepsOrder ==
  ASSUME OrderInv, AbortConnecting \/ HandshakeFailed \/ ReturnFatalError
  PROVE  OrderInv'
PROOF
  <1>1. /\ offlineQueue' \in {offlineQueue, <<>>} /\ commandQueue' = <<>>
        /\ prevCommandQueue' \in {prevCommandQueue, <<>>} /\ UNCHANGED <<sent, lastRun>>
    BY DEF AbortConnecting, HandshakeFailed, RecoverFromFatalError, FlushQueues, ReturnFatalError,
           ContinuationFrame, wire
  <1>. QED BY <1>1, OrderOfNone DEF OrderInv, GoesOn

\* closeHandler: what is kept of the two queues has no pipeline without its beginning.
LEMMA CloseHandlerKeepsOrder ==
  ASSUME Sound, ExecAfterMulti, OrderInv, NEW manual \in BOOLEAN, CloseHandler(manual)
  PROVE  Whole(offlineQueue') /\ Whole(prevCommandQueue') /\ InOrder(commandQueue')
PROOF
  <1>1. /\ offlineQueue' \in {AbortTransactionFragments(offlineQueue), <<>>}
        /\ commandQueue' \in {AbortIncompletePipelines(commandQueue), <<>>}
        /\ prevCommandQueue' \in {prevCommandQueue, commandQueue'}
    BY Zenon DEF CloseHandler
  <1>2. Whole(AbortTransactionFragments(offlineQueue))
    BY OrderTypes, FragmentsWhole DEF OrderInv
  <1>3. Whole(AbortIncompletePipelines(commandQueue))
    BY OrderTypes, AbortedWhole DEF OrderInv
  <1>4. Whole(offlineQueue') /\ Whole(commandQueue')
    BY <1>1, <1>2, <1>3, OrderOfNone
  <1>5. Whole(prevCommandQueue')
    BY <1>1, <1>4 DEF OrderInv
  <1>. QED BY <1>4, <1>5 DEF Whole

\* A connection is lost, and with it what was on the wire.
LEMMA EndingsKeepOrder ==
  ASSUME Sound, ExecAfterMulti, OrderInv,
         \/ StreamClosed \/ StreamLost
         \/ \E reconnect \in BOOLEAN : Disconnect(reconnect) /\ status = "wait"
  PROVE  OrderInv'
PROOF
  <1>1. manuallyClosing \in BOOLEAN
    BY DEF Sound, TypeOK, LifecycleTypes
  <1>2. CASE StreamClosed \/ StreamLost
    <2>1. CloseHandler(manuallyClosing) /\ sent' = <<>>
      BY <1>2, Zenon DEF StreamClosed, StreamLost, Close
    <2>2. GoesOn'
      BY <2>1 DEF GoesOn
    <2>. QED BY <1>1, <2>1, <2>2, CloseHandlerKeepsOrder, OrderOfNone DEF OrderInv
  <1>3. ASSUME NEW reconnect \in BOOLEAN, Disconnect(reconnect), status = "wait" PROVE OrderInv'
    <2>1. CloseHandler(manuallyClosing \/ ~reconnect) /\ UNCHANGED <<sent, lastRun>>
      BY <1>3, Zenon DEF Disconnect, wire
    <2>2. (manuallyClosing \/ ~reconnect) \in BOOLEAN
      BY <1>1
    <2>3. Whole(offlineQueue') /\ Whole(prevCommandQueue') /\ InOrder(commandQueue')
      BY <2>1, <2>2, CloseHandlerKeepsOrder
    <2>. QED BY <2>1, <2>3 DEF OrderInv, GoesOn
  <1>. QED BY <1>2, <1>3

\* What is written after the rest begins no pipeline in its middle.
LEMMA WriteKeepsOrder ==
  ASSUME Sound, OrderInv, NEW items \in Seq(Item), Whole(items), Write(items), lastRun' = lastRun,
         Whole(offlineQueue'), Whole(prevCommandQueue')
  PROVE  OrderInv'
PROOF
  <1>1. commandQueue' = commandQueue \o items /\ sent' = sent \o items
    BY DEF Write
  <1>2. commandQueue \in Seq(Item) /\ sent \in Seq(Item)
    BY OrderTypes
  <1>3. InOrder(commandQueue') /\ InOrder(sent')
    BY <1>1, <1>2, WholeConcat DEF OrderInv
  <1>4. GoesOn'
    <2>1. CASE sent = <<>>
      <3>1. sent' = items
        BY <1>1, <2>1
      <3>. QED BY <3>1 DEF GoesOn, Whole
    <2>2. CASE sent # <<>>
      <3>1. sent'[1] = sent[1]
        BY <1>1, <1>2, <2>2
      <3>. QED BY <2>2, <3>1 DEF GoesOn, OrderInv
    <2>. QED BY <2>1, <2>2
  <1>. QED BY <1>3, <1>4 DEF OrderInv

\* Something is appended to the offline queue, and nothing is written.
LEMMA QueueKeepsOrder ==
  ASSUME Sound, OrderInv, Whole(offlineQueue'), Whole(prevCommandQueue'),
         UNCHANGED <<commandQueue, sent, lastRun>>
  PROVE  OrderInv'
PROOF
  BY DEF OrderInv, GoesOn

\* The commands of the handshake.
LEMMA HandshakeKeepsOrder ==
  ASSUME Sound, OrderInv, Downgrade \/ ReadyCheck \/ LoadingTimer
  PROVE  OrderInv'
PROOF
  <1>1. ASSUME NEW item \in Item, item.cmd = NoCmd, NEW tasks, SendHandshake(item, tasks),
               prevCommandQueue' = prevCommandQueue, lastRun' = lastRun
        PROVE  OrderInv'
    <2>1. <<item>> \in Seq(Item) /\ Whole(<<item>>)
      BY <1>1, InternalOrder
    <2>2. \/ Write(<<item>>) /\ offlineQueue' = offlineQueue
          \/ UNCHANGED <<commandQueue, sent>> /\ offlineQueue' \in {offlineQueue, Append(offlineQueue, item)}
      BY <1>1, Zenon DEF SendHandshake
    <2>3. Append(offlineQueue, item) = offlineQueue \o <<item>> /\ offlineQueue \in Seq(Item)
      BY OrderTypes
    <2>4. Whole(Append(offlineQueue, item))
      BY <2>1, <2>3, WholeConcat DEF OrderInv, Whole
    <2>5. Whole(offlineQueue') /\ Whole(prevCommandQueue')
      BY <1>1, <2>2, <2>4 DEF OrderInv
    <2>. QED BY <1>1, <2>1, <2>2, <2>5, WriteKeepsOrder, QueueKeepsOrder
  <1>2. /\ HelloItem \in Item /\ HelloItem.cmd = NoCmd
        /\ \A e \in Nat : InfoItem(e) \in Item /\ InfoItem(e).cmd = NoCmd
    BY HandshakeItemTypes DEF Sound, HelloItem, InfoItem, Internal
  <1>3. CASE Downgrade
    <2>1. /\ SendHandshake(HelloItem, Tail(microtasks))
          /\ prevCommandQueue' = prevCommandQueue /\ lastRun' = lastRun
      BY <1>3, Zenon DEF Downgrade, ContinuationFrame
    <2>. QED BY <1>1, <1>2, <2>1
  <1>4. CASE ReadyCheck
    <2>1. /\ SendHandshake(InfoItem(epoch), Tail(microtasks)) /\ epoch \in Nat
          /\ prevCommandQueue' = prevCommandQueue /\ lastRun' = lastRun
      BY <1>4, Zenon DEF ReadyCheck, ContinuationFrame, Sound, TypeOK, LifecycleTypes
    <2>. QED BY <1>1, <1>2, <2>1
  <1>5. CASE LoadingTimer
    <2>1. PICK e \in loadingTimers : SendHandshake(InfoItem(e), <<>>)
      BY <1>5, Zenon DEF LoadingTimer
    <2>2. e \in Nat
      BY DEF Sound, TypeOK, LoopTypes
    <2>3. prevCommandQueue' = prevCommandQueue /\ lastRun' = lastRun
      BY <1>5, Zenon DEF LoadingTimer, history
    <2>. QED BY <1>1, <1>2, <2>1, <2>2, <2>3
  <1>. QED BY <1>3, <1>4, <1>5

\* connectHandler: nothing of the last connection is in the new command queue.
LEMMA ConnectHandlerKeepsOrder ==
  ASSUME Sound, OrderInv, ConnectHandler
  PROVE  OrderInv'
PROOF
  <1>1. HelloItem \in Item /\ HelloItem.cmd = NoCmd
    BY HandshakeItemTypes DEF Sound, HelloItem, Internal
  <1>2. <<HelloItem>> \in Seq(Item) /\ Whole(<<HelloItem>>)
    BY <1>1, InternalOrder
  <1>3. /\ commandQueue' \in {<<>>, <<HelloItem>>} /\ sent' \in {<<>>, <<HelloItem>>}
        /\ offlineQueue' \in {offlineQueue, Append(offlineQueue, HelloItem)}
        /\ prevCommandQueue' = prevCommandQueue
    BY Zenon DEF ConnectHandler, ResetCommandQueue
  <1>4. Append(offlineQueue, HelloItem) = offlineQueue \o <<HelloItem>> /\ offlineQueue \in Seq(Item)
    BY <1>1, OrderTypes
  <1>5. Whole(Append(offlineQueue, HelloItem))
    BY <1>2, <1>4, WholeConcat DEF OrderInv, Whole
  <1>6. Whole(offlineQueue') /\ Whole(prevCommandQueue')
    BY <1>3, <1>5 DEF OrderInv
  <1>7. Whole(commandQueue') /\ Whole(sent')
    BY <1>2, <1>3, OrderOfNone
  <1>. QED BY <1>6, <1>7 DEF OrderInv, GoesOn, Whole

\* What readyHandler replays has only whole pipelines.
LEMMA ReplayWhole ==
  ASSUME Sound, OrderInv, status = "connect"
  PROVE  /\ ReplaySecond \in Seq(NamedItem) /\ ReplaySecond \in Seq(Item) /\ Whole(ReplaySecond)
         /\ ReplayLast \in Seq(Item) /\ Whole(ReplayLast)
         /\ ReplayAll \in Seq(Item) /\ Whole(ReplayAll)
PROOF
  <1>1. condition.select \in Dbs /\ (prevSelect = NoDb \/ prevSelect \in Dbs)
    BY DEF Sound, TypeOK, DatabaseTypes
  <1>2. Unfulfilled \in Seq(Item) /\ Whole(Unfulfilled)
    BY OrderTypes, OrderOfNone DEF Unfulfilled, OrderInv
  <1>3. ReplayFirst \in Seq(Item) /\ Whole(ReplayFirst)
    BY <1>1, <1>2, ResendWhole DEF ReplayFirst
  <1>4. DbAfter(Unfulfilled, condition.select) \in Dbs
    BY <1>1, <1>2, ResendType
  <1>5. ReplayWaiting \in Seq(Item) /\ Whole(ReplayWaiting)
    <2>1. offlineQueue \in Seq(Item) /\ Whole(offlineQueue) /\ InOrder(offlineQueue)
      BY OrderTypes DEF OrderInv, Whole
    <2>2. offlineQueue \o ReplayFirst \in Seq(Item) /\ Whole(offlineQueue \o ReplayFirst)
      BY <1>3, <2>1, WholeConcat
    <2>. QED BY <2>1, <2>2 DEF ReplayWaiting
  <1>6. ReplaySecond \in Seq(Item) /\ Whole(ReplaySecond)
    BY <1>4, <1>5, ResendWhole DEF ReplaySecond
  <1>7. ReplayLast \in Seq(Item) /\ Whole(ReplayLast)
    <2> DEFINE
      afterAll == DbAfter(ReplayWaiting, DbAfter(Unfulfilled, condition.select))
      finalSelect == IF prevSelect = NoDb THEN condition.select ELSE prevSelect
      x == SelectItem(finalSelect, afterAll)
    <2>1. afterAll \in Dbs /\ finalSelect \in Dbs
      BY <1>1, <1>4, <1>5, ResendType
    <2> HIDE DEF afterAll, finalSelect
    <2>2. x \in Item /\ x.cmd = NoCmd
      BY <2>1, HandshakeItemTypes DEF SelectItem, Internal, Sound
    <2>3. ReplayLast = <<>> \/ ReplayLast = <<x>>
      BY DEF ReplayLast, afterAll, finalSelect
    <2> HIDE DEF x
    <2>4. <<x>> \in Seq(Item) /\ Whole(<<x>>)
      BY <2>2, InternalOrder
    <2>5. <<>> \in Seq(Item) /\ Whole(<<>>)
      BY OrderOfNone
    <2>. QED BY <2>3, <2>4, <2>5
  <1>8. ReplayAll \in Seq(Item) /\ Whole(ReplayAll)
    <2>1. ReplayFirst \o ReplaySecond \in Seq(Item) /\ Whole(ReplayFirst \o ReplaySecond)
      BY <1>3, <1>6, WholeConcat DEF Whole
    <2>2. InOrder(ReplayFirst \o ReplaySecond)
      BY <2>1 DEF Whole
    <2> DEFINE two == ReplayFirst \o ReplaySecond
    <2>3. ReplayAll = two \o ReplayLast
      BY DEF ReplayAll
    <2>4. two \in Seq(Item) /\ InOrder(two) /\ Whole(two)
      BY <2>1, <2>2
    <2> HIDE DEF two
    <2>5. two \o ReplayLast \in Seq(Item) /\ Whole(two \o ReplayLast)
      BY <1>7, <2>4, WholeConcat
    <2>. QED BY <2>3, <2>5
  <1>9. ReplaySecond \in Seq(NamedItem)
    BY ReplayFacts
  <1>. QED BY <1>6, <1>7, <1>8, <1>9

\* readyHandler keeps the order, whichever way it goes; no QUIT is of a pipeline.
LEMMA BecomeReadyKeepsOrder ==
  ASSUME Sound, OrderInv, BecomeReady
  PROVE  OrderInv'
PROOF
  <1>1. /\ status = "connect" /\ prevCommandQueue' = <<>>
        /\ ReplayWritten \/ ReplayKept \/ ReplayQuit \/ ReplayRejected
    BY ReplayWays
  <1>2. lastRun' = lastRun
    BY Zenon DEF BecomeReady, ContinuationFrame
  <1>3. /\ ReplaySecond \in Seq(NamedItem) /\ ReplaySecond \in Seq(Item) /\ Whole(ReplaySecond)
        /\ ReplayLast \in Seq(Item) /\ Whole(ReplayLast)
        /\ ReplayAll \in Seq(Item) /\ Whole(ReplayAll)
    BY <1>1, ReplayWhole
  <1>4. Whole(prevCommandQueue')
    BY <1>1, OrderOfNone
  <1>5. CASE ReplayWritten
    <2>1. Write(ReplayAll) /\ Whole(offlineQueue')
      BY <1>5, OrderOfNone DEF ReplayWritten, Write
    <2>. QED BY <1>2, <1>3, <1>4, <2>1, WriteKeepsOrder
  <1>6. CASE ReplayKept
    <2>1. UNCHANGED <<commandQueue, sent>> /\ offlineQueue' = ReplaySecond \o ReplayLast
      BY <1>6 DEF ReplayKept
    <2>2. Whole(offlineQueue')
      BY <1>3, <2>1, WholeConcat DEF Whole
    <2>. QED BY <1>2, <1>4, <2>1, <2>2, QueueKeepsOrder
  <1>7. CASE ReplayQuit
    <2>1. /\ UNCHANGED <<commandQueue, sent>> /\ offlineQueue' = Tail(ReplaySecond) \o ReplayLast
          /\ ReplaySecond # <<>> /\ Head(ReplaySecond).name = "quit"
      BY <1>7 DEF ReplayQuit
    <2>2. Tail(ReplaySecond) \in Seq(Item) /\ InOrder(Tail(ReplaySecond))
      BY <1>3, <2>1, OrderTail DEF Whole
    <2>3. Tail(ReplaySecond) # <<>> => ~Later(Tail(ReplaySecond)[1])
      <3>1. SUFFICES ASSUME Tail(ReplaySecond) # <<>>, Later(Tail(ReplaySecond)[1]) PROVE FALSE
        OBVIOUS
      <3> DEFINE x == ReplaySecond[1]
                 y == ReplaySecond[2]
      <3>2. 2 \in 2..Len(ReplaySecond) /\ Tail(ReplaySecond)[1] = y /\ x = Head(ReplaySecond)
        BY <1>3, <2>1, <3>1
      <3>3. x \in NamedItem /\ x \in Item /\ y \in Item /\ x.name = "quit"
        BY <1>3, <2>1, <3>2, ElementOfSeq DEF NamedItem
      <3>4. Follows(x, y) /\ Later(y)
        BY <1>3, <3>1, <3>2 DEF Whole, InOrder
      <3> HIDE DEF x, y
      <3>5. x.cmd \in Commands /\ PipelineIndex(x) = PipelineIndex(y) - 1 /\ PipelineIndex(y) \in Nat
            /\ PipelineIndex(y) > 0
        BY <3>3, <3>4, FollowsFacts, LaterFacts
      <3>6. Name[x.cmd] = "quit" /\ Len(BatchOf(x.cmd)) # 1
        <4>1. x.cmd # NoCmd
          BY <3>5, CommandsAssumption
        <4>. QED BY <3>3, <3>5, <4>1 DEF NamedItem, PipelineIndex
      <3>7. /\ BatchOf(x.cmd) \in Batches /\ Position(x.cmd) \in DOMAIN BatchOf(x.cmd)
            /\ BatchOf(x.cmd)[Position(x.cmd)] = x.cmd
        <4>1. /\ BatchOf(x.cmd) \in Batches /\ BatchOf(x.cmd) \in Seq(Commands)
              /\ Position(x.cmd) \in 1..Len(BatchOf(x.cmd))
              /\ BatchOf(x.cmd)[Position(x.cmd)] = x.cmd
          BY <3>5, CommandFacts
        <4>. QED BY <4>1
      <3>. QED BY <3>6, <3>7, CommandsAssumption
    <2>4. Whole(offlineQueue')
      BY <1>3, <2>1, <2>2, <2>3, WholeConcat DEF Whole
    <2>. QED BY <1>2, <1>4, <2>1, <2>4, QueueKeepsOrder
  <1>8. CASE ReplayRejected
    <2>1. UNCHANGED <<commandQueue, sent>> /\ Whole(offlineQueue')
      BY <1>8, OrderOfNone DEF ReplayRejected
    <2>. QED BY <1>2, <1>4, <2>1, QueueKeepsOrder
  <1>. QED BY <1>1, <1>5, <1>6, <1>7, <1>8

\* A pipeline is issued as a whole.
LEMMA IssueKeepsOrder ==
  ASSUME Sound, OrderInv, NEW b \in Batches, IssueWritten(b) \/ IssueQueued(b)
  PROVE  OrderInv'
PROOF
  <1>1. CASE IssueWritten(b)
    <2>1. /\ Write(ItemsOf(b, condition.select))
          /\ UNCHANGED <<offlineQueue, prevCommandQueue, lastRun>>
      BY <1>1, Zenon DEF IssueWritten
    <2>2. condition.select \in Dbs
      BY DEF Sound, TypeOK, DatabaseTypes
    <2>3. ItemsOf(b, condition.select) \in Seq(Item) /\ Whole(ItemsOf(b, condition.select))
      BY <2>2, ItemsOfWhole DEF Sound
    <2>. QED BY <2>1, <2>3, WriteKeepsOrder DEF OrderInv
  <1>2. CASE IssueQueued(b)
    <2>1. /\ offlineQueue' = offlineQueue \o ItemsOf(b, CurrentDb)
          /\ UNCHANGED <<commandQueue, prevCommandQueue, sent, lastRun>>
      BY <1>2, Zenon DEF IssueQueued, wire
    <2>2. CurrentDb \in Dbs
      BY OptionsAssumption DEF CurrentDb, Sound, TypeOK, DatabaseTypes
    <2>3. ItemsOf(b, CurrentDb) \in Seq(Item) /\ Whole(ItemsOf(b, CurrentDb))
      BY <2>2, ItemsOfWhole DEF Sound
    <2>4. Whole(offlineQueue')
      BY <2>1, <2>3, OrderTypes, WholeConcat DEF OrderInv, Whole
    <2>. QED BY <2>1, <2>4, QueueKeepsOrder DEF OrderInv
  <1>. QED BY <1>1, <1>2

\* A reply takes the head of the command queue, and no command is resent by itself.
LEMMA RepliesKeepOrder ==
  ASSUME Sound, OrderInv, "resend" \notin ReconnectOnError, ReturnReply \/ ReturnError
  PROVE  OrderInv'
PROOF
  <1>1. /\ commandQueue # <<>> /\ commandQueue' = Tail(commandQueue)
        /\ UNCHANGED <<prevCommandQueue, sent, lastRun>>
    BY Zenon DEF ReturnReply, ReturnError, ShiftCommand
  <1>2. offlineQueue' = offlineQueue
    <2>1. CASE ReturnReply
      BY <2>1, Zenon DEF ReturnReply
    <2>2. CASE ReturnError
      <3>1. PICK answer \in ErrorAnswers(Head(commandQueue)) :
              ~(answer = "resend" /\ EnableOfflineQueue) => offlineQueue' = offlineQueue
        BY <2>2, Zenon DEF ReturnError
      <3>2. answer # "resend"
        BY <3>1 DEF ErrorAnswers
      <3>. QED BY <3>1, <3>2
    <2>. QED BY <2>1, <2>2
  <1>3. InOrder(commandQueue')
    BY <1>1, OrderTypes, OrderTail DEF OrderInv
  <1>. QED BY <1>1, <1>2, <1>3 DEF OrderInv, GoesOn

\* The server takes the head of the wire, and what follows it goes on where it ends.
LEMMA ServerKeepsOrder ==
  ASSUME Sound, OrderInv, ServerHandshake \/ ServerCommand
  PROVE  OrderInv'
PROOF
  <1>1. /\ sent # <<>> /\ sent' = Tail(sent)
        /\ UNCHANGED <<offlineQueue, commandQueue, prevCommandQueue>>
        /\ IF Head(sent).cmd = NoCmd THEN lastRun' = lastRun ELSE lastRun' = Head(sent).cmd
    BY Zenon DEF ServerHandshake, ServerCommand, ServerFrame, ServerActive, Answer, queues
  <1>2. sent \in Seq(Item) /\ InOrder(sent') /\ InOrder(sent)
    BY <1>1, OrderTypes, OrderTail DEF OrderInv
  <1>3. GoesOn'
    <2>1. SUFFICES ASSUME Tail(sent) # <<>>, Later(Tail(sent)[1])
                   PROVE  lastRun' = BatchOf(Tail(sent)[1].cmd)[Position(Tail(sent)[1].cmd) - 1]
      BY <1>1 DEF GoesOn
    <2> DEFINE x == sent[1]
               y == sent[2]
    <2>2. /\ 2 \in 2..Len(sent) /\ Tail(sent)[1] = y /\ x = Head(sent)
          /\ x \in Item /\ y \in Item
      BY <1>1, <1>2, <2>1
    <2>3. Later(y) /\ Follows(x, y)
      BY <1>2, <2>1, <2>2 DEF InOrder
    <2>4. x.cmd # NoCmd
      BY <2>3 DEF Follows
    <2> HIDE DEF x, y
    <2>5. x.cmd = BatchOf(y.cmd)[Position(y.cmd) - 1]
      BY <2>2, <2>3, FollowsFacts
    <2>. QED BY <1>1, <2>2, <2>4, <2>5
  <1>. QED BY <1>1, <1>2, <1>3 DEF OrderInv

\* The invariant is inductive: one case per action.
LEMMA OrderKeeps ==
  ASSUME Sound, OrderInv, ExecAfterMulti, "resend" \notin ReconnectOnError, [Next]_vars
  PROVE  OrderInv'
PROOF
  <1>1. CASE Application
    <2>1. CASE Connect
      BY <2>1, QuietKeepsOrder
    <2>2. ASSUME NEW reconnect \in BOOLEAN, Disconnect(reconnect) PROVE OrderInv'
      BY <2>2, QuietKeepsOrder, EndingsKeepOrder
    <2>3. ASSUME NEW b \in Batches,
                 IssueWritten(b) \/ IssueQueued(b) \/ IssueQuitOffline(b) \/ IssueRefused(b)
          PROVE  OrderInv'
      BY <2>3, QuietKeepsOrder, IssueKeepsOrder
    <2>. QED BY <1>1, <2>1, <2>2, <2>3 DEF Application
  <1>2. CASE Continuation
    BY <1>2, QuietKeepsOrder, HandshakeKeepsOrder, BecomeReadyKeepsOrder, FlushKeepsOrder
       DEF Continuation
  <1>3. CASE ReconnectTimer \/ CreateSocket \/ (\E c \in Commands : TimeOut(c)) \/ UNCHANGED vars
    BY <1>3, QuietKeepsOrder
  <1>4. CASE StreamClosed \/ StreamLost
    BY <1>4, EndingsKeepOrder
  <1>5. CASE ConnectHandler
    BY <1>5, ConnectHandlerKeepsOrder
  <1>6. CASE LoadingTimer
    BY <1>6, HandshakeKeepsOrder
  <1>7. CASE ReturnReply \/ ReturnError
    BY <1>7, RepliesKeepOrder
  <1>8. CASE AbortConnecting \/ ReturnFatalError
    BY <1>8, FlushKeepsOrder
  <1>9. CASE ServerHandshake \/ ServerCommand
    BY <1>9, ServerKeepsOrder
  <1>. QED
    BY <1>1, <1>2, <1>3, <1>4, <1>5, <1>6, <1>7, <1>8, <1>9 DEF Next, System

\* Only the server's step changes the command that was run last, unless the connection ends.
LEMMA OnlyServerMovesOn ==
  ASSUME [Next]_vars, lastRun' # lastRun, lastRun' # NoCmd
  PROVE  sent # <<>> /\ Head(sent).cmd = lastRun'
PROOF
  <1>1. ~Application
    <2>1. ~Connect /\ \A reconnect \in BOOLEAN : ~Disconnect(reconnect)
      BY DEF Connect, Disconnect, history
    <2>2. \A b \in Batches : /\ ~IssueWritten(b) /\ ~IssueQueued(b)
                             /\ ~IssueQuitOffline(b) /\ ~IssueRefused(b)
      BY Zenon DEF IssueWritten, IssueQueued, IssueQuitOffline, IssueRefused
    <2>. QED BY <2>1, <2>2, Zenon DEF Application
  <1>2. ~Continuation
    BY Zenon DEF Continuation, StaleContinuation, Downgrade, ReadyCheck, BecomeReady, WrongRole,
                 HandshakeFailed, StillLoading, ContinuationFrame, history
  <1>3. /\ ~ReconnectTimer /\ ~CreateSocket /\ ~AbortConnecting /\ ~ConnectHandler /\ ~LoadingTimer
        /\ ~StreamClosed /\ ~StreamLost
    BY Zenon DEF ReconnectTimer, CreateSocket, AbortConnecting, ConnectHandler, LoadingTimer,
                 StreamClosed, StreamLost, Close, history
  <1>4. /\ ~ServerHandshake /\ ~ReturnReply /\ ~ReturnError /\ ~ReturnFatalError
        /\ ~(\E c \in Commands : TimeOut(c)) /\ ~UNCHANGED vars
    BY Zenon DEF ServerHandshake, ReturnReply, ReturnError, ReturnFatalError, TimeOut, vars, history
  <1>5. ServerCommand
    BY <1>1, <1>2, <1>3, <1>4, Zenon DEF Next, System
  <1>. QED BY <1>5, Zenon DEF ServerCommand, ServerActive

\* A command of a pipeline is run only right after the one before it, on the same connection
\* (abortIncompletePipelines, abortTransactionFragments, readyHandler), provided that no single
\* command is sent again (reconnectOnError never answers 2) and that a pipelined EXEC has its
\* MULTI ahead of it.
THEOREM PipelineInOrderTheorem ==
  ASSUME "resend" \notin ReconnectOnError, ExecAfterMulti
  PROVE  Spec => PipelineInOrder
PROOF
  <1>1. Init => OrderInv
    BY OrderOfNone DEF Init, OrderInv, GoesOn
  <1>2. Sound /\ OrderInv /\ [Next]_vars => OrderInv'
    BY OrderKeeps
  <1>3. Sound /\ OrderInv /\ [Next]_vars => [\A c \in Commands : RunsAfterPredecessor(c)]_vars
    <2> SUFFICES ASSUME Sound, OrderInv, [Next]_vars, NEW c \in Commands,
                        lastRun' = c, lastRun # c, Position(c) > 1
                 PROVE  lastRun = BatchOf(c)[Position(c) - 1]
      BY DEF RunsAfterPredecessor
    <2>1. c # NoCmd
      BY CommandsAssumption
    <2>2. sent # <<>> /\ Head(sent).cmd = c
      BY <2>1, OnlyServerMovesOn
    <2>3. sent[1].cmd = c
      BY <2>2
    <2>4. Later(sent[1])
      BY <2>1, <2>3 DEF Later
    <2>. QED BY <2>2, <2>3, <2>4 DEF OrderInv, GoesOn
  <1>. QED
    BY <1>1, <1>2, <1>3, SoundInvariant, PTL DEF Spec, PipelineInOrder

==============================================================================
