----------------------------- MODULE RedisClient -----------------------------
(***************************************************************************)
(* One standalone client of ioredis: lib/Redis.ts with the handlers of     *)
(* lib/redis/event_handler.ts, the standalone connector and the reply path *)
(* of lib/DataHandler.ts, together with the server at the other end of the *)
(* socket.                                                                 *)
(*                                                                         *)
(* An action is one turn of the event loop (a socket event, a timer, a     *)
(* call of the application) or one promise continuation of the handshake;  *)
(* continuations wait in microtasks and run before the next event.  What a *)
(* user callback might do in between is left out.                          *)
(*                                                                         *)
(* Abstractions.  The commands of one handshake (HELLO or AUTH, SELECT,    *)
(* CLIENT ..., READONLY) are one unit, "hello", answered as a whole.       *)
(* Pub/sub, MONITOR, HIMPORT and blocking timeouts are not in this module. *)
(* A SELECT names a database the server has.                               *)
(***************************************************************************)
EXTENDS Integers, Sequences, FiniteSets, SequencesExt

CONSTANTS
  Commands,        \* the application's commands
  Name,            \* their names, [Commands -> Names]
  Argument,        \* the database a SELECT names, [Commands -> Dbs]
  Batches,         \* what is sent as one call: <<c>> alone or <<c1, c2, ...>> a pipeline
  Dbs,             \* database numbers
  NoCmd, NoDb,
  \* options
  LazyConnect, EnableOfflineQueue, EnableReadyCheck, AutoResend,
  OptionsDb,
  MaxRetriesPerRequest,  \* negative stands for null: never flush
  RetryLimit,            \* retryStrategy gives up after this many attempts
  CommandTimeout,        \* is commandTimeout set
  ReconnectOnError,      \* the answers reconnectOnError may give
  \* the environment
  HelloReplies, InfoReplies,
  ConnectFrom,     \* statuses in which the application calls connect()
  DisconnectFrom,  \* statuses in which it calls disconnect()
  MaxCalls,        \* bound: calls of connect() and disconnect()
  MaxFaults        \* bound: refused or lost connections, error replies, parse errors

Names == {"get", "select", "info", "quit", "multi", "exec"}
Statuses == {"wait", "connecting", "connect", "ready", "reconnecting", "end"}

ASSUME CommandsAssumption ==
  /\ NoCmd \notin Commands
  /\ Name \in [Commands -> Names]
  /\ Argument \in [Commands -> Dbs]
  /\ Batches \subseteq Seq(Commands)
  /\ \A b \in Batches : b # <<>> /\ (Len(b) = 1 \/ \A i \in DOMAIN b : Name[b[i]] # "quit")
  \* every call makes a Command object of its own
  /\ \A b \in Batches : IsInjective(b)
  /\ \A c \in Commands : \E b \in Batches : \A d \in Batches : (\E i \in DOMAIN d : d[i] = c) <=> d = b

ASSUME OptionsAssumption ==
  /\ Dbs \subseteq Nat /\ NoDb \notin Dbs
  /\ 0 \in Dbs /\ OptionsDb \in Dbs
  /\ {LazyConnect, EnableOfflineQueue, EnableReadyCheck, AutoResend, CommandTimeout}
        \subseteq BOOLEAN
  /\ MaxRetriesPerRequest \in Int /\ RetryLimit \in Nat
  /\ ReconnectOnError \subseteq {"reject", "reconnect", "resend"}
  /\ HelloReplies \subseteq {"ok", "noproto", "error"}
  /\ InfoReplies \subseteq {"ok", "loading", "wrongrole", "error"}
  /\ ConnectFrom \subseteq Statuses /\ DisconnectFrom \subseteq Statuses
  /\ MaxCalls \in Nat /\ MaxFaults \in Nat

VARIABLES
  \* the Redis object
  status, epoch, retryAttempts, manuallyClosing,
  timers,            \* reconnection timers that have not fired or been cleared
  timerHandle,       \* is reconnectTimeout set (it refers to the newest timer)
  condition,         \* [select, protocol, handshake]
  prevSelect,        \* prevCondition.select, NoDb when prevCondition is null
  prevShared,        \* prevCondition is the object condition refers to
  offlineQueue, commandQueue, prevCommandQueue,
  queueShared,       \* prevCommandQueue is the deque commandQueue refers to
  \* its connector and socket
  connecting,        \* AbstractConnector.connecting
  socket,            \* "none", "opening", "open"
  ended,             \* stream.end() was called
  listening,         \* the data listeners of the DataHandler are attached
  \* event loop
  microtasks,        \* continuations of the handshake that are ready to run
  loadingTimers,     \* epochs of the ready checks waiting for a loading server
  \* the connection and the server
  sent,              \* commands written and not yet executed
  replies,           \* replies on their way back
  serverDb,          \* the connection's database; NoDb once the server is done with it
  \* history
  outcome,           \* what the caller was told
  runs,              \* how often the server executed a command
  lastRun,           \* the application's command executed last on this connection
  userDb,            \* the database the application selected last
  wantsOpen,         \* no disconnect() was called and no QUIT sent since the last connect()
  calls, faults

lifecycle == <<status, epoch, retryAttempts, manuallyClosing, timers, timerHandle>>
databases == <<condition, prevSelect, prevShared>>
queues == <<offlineQueue, commandQueue, prevCommandQueue, queueShared>>
link == <<connecting, socket, ended, listening>>
loop == <<microtasks, loadingTimers>>
wire == <<sent, replies, serverDb>>
history == <<outcome, runs, lastRun, userDb, wantsOpen>>
budget == <<calls, faults>>
vars == <<lifecycle, databases, queues, link, loop, wire, history, budget>>

------------------------------------------------------------------------------
(* Queue items.  db is the argument of a select, the database a hello       *)
(* selects, and for any other command the database its caller had selected  *)
(* when it was issued (history); select is what the client records.  epoch  *)
(* is the one captured by the ready check a hello or info belongs to.       *)

ItemNames == Names \cup {"hello"}
Item == [name: ItemNames, cmd: Commands \cup {NoCmd}, db: Dbs, select: Dbs, epoch: Nat]

Internal(name, db, sel, e) ==
  [name |-> name, cmd |-> NoCmd, db |-> db, select |-> sel, epoch |-> e]
SelectItem(db, sel) == Internal("select", db, sel, 0)

Callers(q) == {q[i].cmd : i \in DOMAIN q} \ {NoCmd}

BatchOf(c) == CHOOSE b \in Batches : \E i \in DOMAIN b : b[i] = c
Position(c) == CHOOSE i \in DOMAIN BatchOf(c) : BatchOf(c)[i] = c

\* Command.pipelineIndex; -1 stands for undefined.
PipelineIndex(item) ==
  IF item.cmd = NoCmd \/ Len(BatchOf(item.cmd)) = 1 THEN -1 ELSE Position(item.cmd) - 1

\* Command.inTransaction: from MULTI up to, not including, EXEC.
InTransaction(item) ==
  /\ item.cmd # NoCmd
  /\ Len(BatchOf(item.cmd)) > 1
  /\ \E i \in 1..Position(item.cmd) :
       /\ Name[BatchOf(item.cmd)[i]] = "multi"
       /\ \A j \in i..Position(item.cmd) : Name[BatchOf(item.cmd)[j]] # "exec"

\* The database selected after the first n commands of b, starting in db.
SelectedAfter(b, n, db) ==
  LET selects == {i \in 1..n : Name[b[i]] = "select"}
  IN  IF selects = {} THEN db ELSE Argument[b[CHOOSE i \in selects : \A j \in selects : j <= i]]

ItemsOf(b, sel) ==
  [i \in DOMAIN b |->
    [name |-> Name[b[i]], cmd |-> b[i],
     db |-> IF Name[b[i]] = "select" THEN Argument[b[i]] ELSE SelectedAfter(b, i, userDb),
     select |-> SelectedAfter(b, i - 1, sel), epoch |-> 0]]

\* The elements of q at the positions in keep, in order.
Keep(q, keep) == FlattenSeq([i \in DOMAIN q |-> IF i \in keep THEN <<q[i]>> ELSE <<>>])

\* What the callers of S see when their commands are rejected.  A promise
\* settles once.
Settle(S, result) ==
  [c \in Commands |-> IF c \in S /\ outcome[c] = "pending" THEN result ELSE outcome[c]]

\* The continuation that waits for a handshake command.
Woken(item, result) ==
  IF item.cmd = NoCmd /\ item.name \in {"hello", "info"}
  THEN <<[kind |-> item.name, epoch |-> item.epoch, result |-> result]>> ELSE <<>>

\* The continuations woken when the commands of q are rejected.  What was left of a
\* handshake may have been commands whose errors it swallows: "flushed" is either.
Wakened(q) ==
  FlattenSeq([i \in DOMAIN q |-> Woken(q[i], IF q[i].name = "hello" THEN "flushed" ELSE "error")])

------------------------------------------------------------------------------
(* Sending.                                                                 *)

HandshakeCommands == {"hello", "select", "info"}

StreamWritable == socket = "open" /\ ~ended

\* Redis#sendCommand's writable.
Writable(name, piped) ==
  /\ StreamWritable
  /\ \/ status = "ready"
     \/ ~piped /\ status = "connect" /\ condition.handshake /\ name \in HandshakeCommands

Write(items) ==
  /\ commandQueue' = commandQueue \o items
  /\ sent' = sent \o items

\* An internal command of the handshake goes through the same sendCommand: on a
\* socket that was ended it waits offline, or fails.
SendHandshake(item, tasks) ==
  IF Writable(item.name, FALSE)
  THEN Write(<<item>>) /\ microtasks' = tasks /\ UNCHANGED offlineQueue
  ELSE /\ UNCHANGED <<commandQueue, sent>>
       /\ IF status # "end" /\ EnableOfflineQueue
          THEN offlineQueue' = Append(offlineQueue, item) /\ microtasks' = tasks
          ELSE microtasks' = tasks \o Wakened(<<item>>) /\ UNCHANGED offlineQueue

\* condition.select := db; prevCondition may be the same object.
SelectDb(db) ==
  /\ condition' = [condition EXCEPT !.select = db]
  /\ prevSelect' = IF prevShared THEN db ELSE prevSelect

\* Re-sending the items of q to a connection on which database db is selected:
\* an item recorded in another database is preceded by a SELECT.
DbAfterItem(item) == IF item.name = "select" THEN item.db ELSE item.select
DbBefore(q, i, db) == IF i = 1 THEN db ELSE DbAfterItem(q[i - 1])
DbAfter(q, db) == IF q = <<>> THEN db ELSE DbAfterItem(q[Len(q)])

\* Mutant: items are sent to whatever database is selected.
Resend_NoSelect(q, db) == q


Resend(q, db) ==
  FlattenSeq([i \in DOMAIN q |->
    LET before == DbBefore(q, i, db)
    IN  IF q[i].name = "select" THEN <<[q[i] EXCEPT !.select = before]>>
        ELSE IF q[i].select = before THEN <<q[i]>>
        ELSE <<SelectItem(q[i].select, before), q[i]>>])

------------------------------------------------------------------------------
(* Connecting and disconnecting.                                            *)

FreshCondition == [select |-> OptionsDb, protocol |-> 3, handshake |-> FALSE]

StartConnecting ==
  /\ status' = "connecting"
  /\ epoch' = epoch + 1
  /\ connecting' = TRUE
  /\ prevShared' = FALSE

MayConnect == status \notin {"connecting", "connect", "ready"}

\* AbstractConnector#disconnect.
EndStream ==
  /\ connecting' = FALSE
  /\ ended' = (socket # "none")

\* Mutant: the reconnection timer survives.
CloseManually_KeepsTimer ==
  /\ manuallyClosing' = TRUE
  /\ UNCHANGED <<timers, timerHandle>>

\* Redis#disconnect(false), up to the call of the connector.
CloseManually ==
  /\ manuallyClosing' = TRUE
  /\ timers' = IF timerHandle THEN timers - 1 ELSE timers
  /\ timerHandle' = FALSE

FlushQueues(oq, cq, tasks) ==
  /\ offlineQueue' = <<>>
  /\ commandQueue' = <<>>
  /\ prevCommandQueue' = IF queueShared THEN <<>> ELSE prevCommandQueue
  /\ outcome' = Settle(Callers(oq) \cup Callers(cq), "error")
  /\ microtasks' = tasks \o Wakened(oq) \o Wakened(cq)

\* Mutants: the data listener stays attached; the connection stays open.
RecoverFromFatalError_StillListens(tasks) ==
  /\ FlushQueues(offlineQueue, commandQueue, tasks)
  /\ UNCHANGED listening
  /\ EndStream
RecoverFromFatalError_StaysOpen(tasks) ==
  /\ FlushQueues(offlineQueue, commandQueue, tasks)
  /\ listening' = (listening /\ commandQueue = <<>>)
  /\ UNCHANGED <<connecting, ended>>

\* Redis#recoverFromFatalError, flushing both queues.
RecoverFromFatalError(tasks) ==
  /\ FlushQueues(offlineQueue, commandQueue, tasks)
  /\ listening' = (listening /\ commandQueue = <<>>)
  /\ EndStream

\* Where abortIncompletePipelines expects the command at position i to be in its pipeline.
ExpectedIndex(q, i) ==
  LET starts == {j \in 1..i : PipelineIndex(q[j]) <= 0}
      last == CHOOSE j \in starts : \A k \in starts : k <= j
  IN  IF starts = {} THEN i - 1
      ELSE IF PipelineIndex(q[last]) = 0 THEN i - last ELSE i - last - 1

\* Mutant: whatever remains of a pipeline is kept.
AbortIncompletePipelines_None(q) == q


AbortIncompletePipelines(q) ==
  Keep(q, {i \in DOMAIN q : PipelineIndex(q[i]) \in {-1, ExpectedIndex(q, i)}})

\* Commands of a transaction ahead of any MULTI lost the start of it.
AbortTransactionFragments(q) ==
  Keep(q, {i \in DOMAIN q :
            \/ \E j \in 1..i : /\ q[j].name = "multi"
                               /\ \A k \in 1..(j - 1) : q[k].name # "exec"
            \/ \E j \in 1..(i - 1) : q[j].name = "exec"
            \/ q[i].name # "exec" /\ ~InTransaction(q[i])})

\* event_handler.closeHandler, manual being the value of manuallyClosing.
CloseHandler(manual) ==
  LET cq == AbortIncompletePipelines(commandQueue)
      oq == AbortTransactionFragments(offlineQueue)
      wasReady == status = "ready"
      shares == queueShared \/ (wasReady /\ cq # <<>>)
      attempts == retryAttempts + 1
      givesUp == manual \/ attempts > RetryLimit
      flush == givesUp \/ (MaxRetriesPerRequest >= 0 /\ attempts % (MaxRetriesPerRequest + 1) = 0)
      aborted == (Callers(commandQueue) \ Callers(cq)) \cup (Callers(offlineQueue) \ Callers(oq))
      flushed == IF flush THEN Callers(cq) \cup Callers(oq) ELSE {}
  IN  /\ prevSelect' = IF wasReady /\ prevSelect = NoDb THEN condition.select ELSE prevSelect
      /\ prevShared' = (prevShared \/ (wasReady /\ prevSelect = NoDb))
      /\ manuallyClosing' = FALSE
      /\ retryAttempts' = IF manual THEN retryAttempts ELSE attempts
      /\ status' = IF givesUp THEN "end" ELSE "reconnecting"
      /\ timers' = IF givesUp THEN timers ELSE timers + 1
      /\ timerHandle' = (timerHandle \/ ~givesUp)
      /\ offlineQueue' = IF flush THEN <<>> ELSE oq
      /\ commandQueue' = IF flush THEN <<>> ELSE cq
      /\ prevCommandQueue' = IF shares THEN commandQueue' ELSE prevCommandQueue
      /\ queueShared' = shares
      /\ outcome' = Settle(aborted \cup flushed, "error")
      /\ microtasks' = IF flush THEN Wakened(oq) \o Wakened(cq) ELSE <<>>

\* The application calls connect() ...
Connect ==
  /\ status \in ConnectFrom /\ MayConnect
  /\ calls < MaxCalls /\ calls' = calls + 1
  /\ wantsOpen' = TRUE
  /\ StartConnecting
  /\ condition' = FreshCondition
  /\ UNCHANGED <<retryAttempts, manuallyClosing, timers, timerHandle, prevSelect, queues,
                 socket, ended, listening, loop, wire, outcome, runs, lastRun, userDb, faults>>

\* ... or disconnect().
Disconnect(reconnect) ==
  /\ status \in DisconnectFrom
  /\ calls < MaxCalls /\ calls' = calls + 1
  /\ wantsOpen' = (wantsOpen /\ reconnect)
  /\ IF status = "wait"
     THEN /\ CloseHandler(manuallyClosing \/ ~reconnect)
          /\ UNCHANGED <<connecting, ended>>
     ELSE /\ IF reconnect THEN UNCHANGED <<manuallyClosing, timers, timerHandle>> ELSE CloseManually
          /\ EndStream
          /\ UNCHANGED <<status, retryAttempts, prevSelect, prevShared, queues, outcome, microtasks>>
  /\ UNCHANGED <<epoch, condition, socket, listening, loadingTimers, wire, runs, lastRun, userDb,
                 faults>>

\* Mutant: reconnectTimeout keeps referring to the timer that fired.
ReconnectTimer_KeepsHandle ==
  /\ microtasks = <<>>
  /\ timers > 0
  /\ timers' = timers - 1
  /\ UNCHANGED timerHandle
  /\ IF MayConnect
     THEN StartConnecting /\ condition' = FreshCondition
     ELSE UNCHANGED <<status, epoch, connecting, prevShared, condition>>
  /\ UNCHANGED <<retryAttempts, manuallyClosing, prevSelect, queues, socket, ended, listening,
                 loop, wire, history, budget>>

\* The timer of closeHandler fires; connect() refuses if a connection is under way.
ReconnectTimer ==
  /\ microtasks = <<>>
  /\ timers > 0
  /\ timers' = timers - 1
  /\ timerHandle' = FALSE
  /\ IF MayConnect
     THEN StartConnecting /\ condition' = FreshCondition
     ELSE UNCHANGED <<status, epoch, connecting, prevShared, condition>>
  /\ UNCHANGED <<retryAttempts, manuallyClosing, prevSelect, queues, socket, ended, listening,
                 loop, wire, history, budget>>

\* The connector's next tick creates the socket ...
CreateSocket ==
  /\ microtasks = <<>>
  /\ status = "connecting" /\ socket = "none" /\ connecting
  /\ socket' = "opening"
  /\ ended' = FALSE
  /\ UNCHANGED <<lifecycle, databases, queues, connecting, listening, loop, wire, history, budget>>

\* ... unless disconnect() came first.
AbortConnecting ==
  /\ microtasks = <<>>
  /\ status = "connecting" /\ socket = "none" /\ ~connecting
  /\ FlushQueues(offlineQueue, commandQueue, <<>>)
  /\ status' = "end"
  /\ UNCHANGED <<epoch, retryAttempts, manuallyClosing, timers, timerHandle, databases, queueShared,
                 link, loadingTimers, wire, runs, lastRun, userDb, wantsOpen, budget>>

HelloItem == Internal("hello", condition.select, condition.select, epoch)
InfoItem(e) == Internal("info", OptionsDb, condition.select, e)

\* Mutant: the command queue of the last connection is kept.
ResetCommandQueue_Keeps(items) ==
  /\ commandQueue' = commandQueue \o items
  /\ queueShared' = FALSE

\* Redis#resetCommandQueue, and what is written first on the new connection.
ResetCommandQueue(items) ==
  /\ commandQueue' = items
  /\ queueShared' = FALSE

\* event_handler.connectHandler: the socket is connected, the handshake is sent.
ConnectHandler ==
  /\ microtasks = <<>>
  /\ socket = "opening"
  /\ socket' = "open"
  /\ status' = "connect"
  /\ condition' = [condition EXCEPT !.handshake = TRUE]
  /\ listening' = TRUE
  /\ serverDb' = 0
  /\ ResetCommandQueue(IF ended THEN <<>> ELSE <<HelloItem>>)
  /\ sent' = IF ended THEN <<>> ELSE <<HelloItem>>
  /\ offlineQueue' = IF ended /\ EnableOfflineQueue THEN Append(offlineQueue, HelloItem)
                     ELSE offlineQueue
  /\ microtasks' = IF ended /\ ~EnableOfflineQueue THEN Wakened(<<HelloItem>>) ELSE <<>>
  /\ UNCHANGED <<epoch, retryAttempts, manuallyClosing, timers, timerHandle, prevSelect, prevShared,
                 prevCommandQueue, connecting, ended, loadingTimers, replies, history, budget>>

\* The socket closes: because a side asked for it ...
CloseExpected ==
  \/ socket # "none" /\ ended
  \/ socket = "open" /\ serverDb = NoDb /\ replies = <<>>

Close ==
  /\ microtasks = <<>>
  /\ socket # "none"
  /\ CloseHandler(manuallyClosing)
  /\ socket' = "none" /\ ended' = FALSE /\ listening' = FALSE
  /\ sent' = <<>> /\ replies' = <<>> /\ serverDb' = NoDb /\ lastRun' = NoCmd
  /\ UNCHANGED <<epoch, condition, connecting, loadingTimers, runs, userDb, wantsOpen, calls>>

StreamClosed == CloseExpected /\ Close /\ UNCHANGED faults

\* ... or because the connection was refused, timed out or was lost.
StreamLost ==
  /\ ~CloseExpected
  /\ faults < MaxFaults /\ faults' = faults + 1
  /\ Close

------------------------------------------------------------------------------
(* The handshake's continuations.                                           *)

\* Mutant: only the attempt is compared.
IsActiveConnect_EpochOnly(e) == e = epoch

\* isActiveConnect of connectHandler.
IsActiveConnect(e) == e = epoch /\ status = "connect"

\* Mutants: the option is ignored; the commands are dropped and nobody is told.
Unfulfilled_IgnoresOption == prevCommandQueue
Unfulfilled_Dropped == <<>>

\* The commands the last connection left unanswered.
Unfulfilled == IF AutoResend THEN prevCommandQueue ELSE <<>>

\* event_handler.readyHandler.
ReadyHandler(tasks) ==
  LET finalSelect == IF prevSelect = NoDb THEN condition.select ELSE prevSelect
      first == Resend(Unfulfilled, condition.select)
      afterPrev == DbAfter(Unfulfilled, condition.select)
      stays == ~StreamWritable /\ EnableOfflineQueue
      waiting == IF stays THEN offlineQueue \o first ELSE offlineQueue
      second == Resend(waiting, afterPrev)
      afterAll == DbAfter(waiting, afterPrev)
      last == IF afterAll = finalSelect THEN <<>> ELSE <<SelectItem(finalSelect, afterAll)>>
      quits == stays /\ second # <<>> /\ Head(second).name = "quit"
      resent == first \o second \o last
  IN  /\ status' = "ready"
      /\ retryAttempts' = 0
      /\ condition' = [condition EXCEPT !.handshake = FALSE, !.select =
                         IF StreamWritable \/ stays THEN finalSelect ELSE condition.select]
      /\ prevSelect' = NoDb
      /\ prevShared' = FALSE
      /\ prevCommandQueue' = <<>>
      /\ IF StreamWritable
         THEN /\ Write(resent)
              /\ offlineQueue' = <<>>
              /\ manuallyClosing' = (manuallyClosing \/ \E i \in DOMAIN resent : resent[i].name = "quit")
              /\ microtasks' = tasks
              /\ UNCHANGED <<outcome, timers, timerHandle>>
         ELSE /\ UNCHANGED <<commandQueue, sent>>
              /\ offlineQueue' = IF quits THEN Tail(second) \o last
                                 ELSE IF stays THEN second \o last ELSE <<>>
              /\ IF quits THEN CloseManually ELSE UNCHANGED <<manuallyClosing, timers, timerHandle>>
              /\ outcome' = IF quits THEN Settle({Head(second).cmd}, "ok")
                            ELSE IF stays THEN outcome ELSE Settle(Callers(resent), "error")
              /\ microtasks' = IF stays THEN tasks ELSE tasks \o Wakened(resent)
      /\ wantsOpen' = (wantsOpen /\ ~quits /\
                         ~(StreamWritable /\ \E i \in DOMAIN resent : resent[i].name = "quit"))
      /\ UNCHANGED <<queueShared, listening, connecting, ended>>

ContinuationFrame == UNCHANGED <<epoch, socket, replies, serverDb, runs, lastRun, userDb, budget>>

NothingSent == UNCHANGED <<commandQueue, sent, offlineQueue>>

\* A continuation of a connection that is no longer being set up does nothing.
StaleContinuation ==
  /\ microtasks # <<>>
  /\ ~IsActiveConnect(Head(microtasks).epoch)
  /\ Head(microtasks).result # "loading"
  /\ microtasks' = Tail(microtasks)
  /\ UNCHANGED <<lifecycle, databases, queues, link, loadingTimers, wire, history, budget>>

\* The server cannot speak RESP3: a second handshake, in RESP2.
Downgrade ==
  /\ microtasks # <<>>
  /\ IsActiveConnect(Head(microtasks).epoch)
  /\ Head(microtasks).kind = "hello" /\ Head(microtasks).result = "noproto"
  /\ condition' = [condition EXCEPT !.protocol = 2]
  /\ SendHandshake(HelloItem, Tail(microtasks))
  /\ UNCHANGED <<lifecycle, prevSelect, prevShared, prevCommandQueue, queueShared, link,
                 loadingTimers, outcome, wantsOpen>>
  /\ ContinuationFrame

ReadyCheck ==
  /\ microtasks # <<>> /\ EnableReadyCheck
  /\ IsActiveConnect(Head(microtasks).epoch)
  /\ Head(microtasks).kind = "hello" /\ Head(microtasks).result \in {"ok", "flushed"}
  /\ SendHandshake(InfoItem(epoch), Tail(microtasks))
  /\ UNCHANGED <<lifecycle, databases, prevCommandQueue, queueShared, link, loadingTimers, outcome,
                 wantsOpen>>
  /\ ContinuationFrame

\* The ready check passed, or there is none.
BecomeReady ==
  /\ microtasks # <<>>
  /\ IsActiveConnect(Head(microtasks).epoch)
  /\ Head(microtasks).kind = (IF EnableReadyCheck THEN "info" ELSE "hello")
  /\ Head(microtasks).result \in {"ok", "flushed"}
  /\ ReadyHandler(Tail(microtasks))
  /\ UNCHANGED loadingTimers
  /\ ContinuationFrame

\* The connector's check refused the server.
WrongRole ==
  /\ microtasks # <<>>
  /\ IsActiveConnect(Head(microtasks).epoch)
  /\ Head(microtasks).result = "wrongrole"
  /\ microtasks' = Tail(microtasks)
  /\ EndStream
  /\ NothingSent
  /\ UNCHANGED <<lifecycle, databases, prevCommandQueue, queueShared, listening, loadingTimers,
                 outcome, wantsOpen>>
  /\ ContinuationFrame

\* A handshake command failed: everything queued is rejected.
HandshakeFailed ==
  /\ microtasks # <<>>
  /\ IsActiveConnect(Head(microtasks).epoch)
  /\ Head(microtasks).result \in {"error", "flushed"}
  /\ RecoverFromFatalError(Tail(microtasks))
  /\ UNCHANGED <<lifecycle, databases, queueShared, loadingTimers, sent, wantsOpen>>
  /\ ContinuationFrame

\* The server is loading its data: ask again later, whatever became of the connection.
StillLoading ==
  /\ microtasks # <<>>
  /\ Head(microtasks).result = "loading"
  /\ loadingTimers' = loadingTimers \cup {Head(microtasks).epoch}
  /\ microtasks' = Tail(microtasks)
  /\ UNCHANGED <<lifecycle, databases, queues, link, wire, history, budget>>

LoadingTimer ==
  /\ microtasks = <<>>
  /\ \E e \in loadingTimers :
       /\ loadingTimers' = loadingTimers \ {e}
       /\ SendHandshake(InfoItem(e), <<>>)
  /\ UNCHANGED <<lifecycle, databases, prevCommandQueue, queueShared, link, replies, serverDb,
                 history, budget>>

------------------------------------------------------------------------------
(* The server.  It answers in order and closes the connection after QUIT.   *)

Answer(item, reply) ==
  /\ sent' = Tail(sent)
  /\ replies' = Append(replies, [item |-> item, reply |-> reply])

ServerActive == socket = "open" /\ serverDb # NoDb /\ sent # <<>>

ServerFrame == UNCHANGED <<lifecycle, databases, queues, link, loop, outcome, userDb, wantsOpen, calls>>

\* Anything but "ok" and "noproto" is a fault.
SpendFor(reply) ==
  IF reply \in {"ok", "noproto"} THEN UNCHANGED faults
  ELSE faults < MaxFaults /\ faults' = faults + 1

RepliesTo(item) ==
  IF item.cmd # NoCmd
  THEN IF item.name \in {"select", "multi", "quit"} THEN {"ok"} ELSE {"ok", "error"}
  ELSE IF item.name = "hello" THEN HelloReplies
  ELSE IF item.name = "info" THEN InfoReplies ELSE {"ok"}

ServerHandshake ==
  /\ ServerActive
  /\ Head(sent).cmd = NoCmd
  /\ \E reply \in RepliesTo(Head(sent)) :
       /\ reply = "noproto" => condition.protocol = 3
       /\ SpendFor(reply)
       /\ Answer(Head(sent), reply)
       /\ serverDb' = IF Head(sent).name \in {"hello", "select"} /\ reply # "error"
                      THEN Head(sent).db ELSE serverDb
  /\ UNCHANGED <<runs, lastRun>>
  /\ ServerFrame

ServerCommand ==
  /\ ServerActive
  /\ LET item == Head(sent)
     IN  /\ item.cmd # NoCmd
         /\ \E reply \in RepliesTo(item) :
              /\ SpendFor(reply)
              /\ Answer(item, reply)
              /\ runs' = IF reply = "ok" THEN [runs EXCEPT ![item.cmd] = @ + 1] ELSE runs
         /\ lastRun' = item.cmd
         /\ serverDb' = IF item.name = "select" THEN item.db
                        ELSE IF item.name = "quit" THEN NoDb ELSE serverDb
  /\ ServerFrame

------------------------------------------------------------------------------
(* Replies.                                                                 *)

ReplyArrives == socket = "open" /\ listening /\ replies # <<>>

\* Mutant: a command is taken from the wrong end.
ShiftCommand_Pops ==
  /\ commandQueue' = Front(commandQueue)
  /\ replies' = Tail(replies)

\* DataHandler.shiftCommand.
ShiftCommand ==
  /\ commandQueue' = Tail(commandQueue)
  /\ replies' = Tail(replies)

\* DataHandler.returnReply: the head of the command queue is settled.
ReturnReply ==
  /\ ReplyArrives
  /\ commandQueue # <<>>
  /\ Head(replies).reply # "error"
  /\ LET item == Head(commandQueue)
     IN  /\ outcome' = Settle({item.cmd}, "ok")
         /\ microtasks' = microtasks \o Woken(item, Head(replies).reply)
  /\ ShiftCommand
  /\ UNCHANGED <<lifecycle, databases, offlineQueue, prevCommandQueue, queueShared, link,
                 loadingTimers, sent, serverDb, runs, lastRun, userDb, wantsOpen, budget>>

\* DataHandler.returnError and Redis#handleReconnection, by the answer of reconnectOnError.
ErrorAnswers(item) ==
  IF condition.handshake /\ item.name \in HandshakeCommands THEN {"reject"}
  ELSE IF ReconnectOnError = {} THEN {"reject"} ELSE ReconnectOnError

ReturnError ==
  /\ ReplyArrives
  /\ commandQueue # <<>>
  /\ Head(replies).reply = "error"
  /\ ShiftCommand
  /\ LET item == Head(commandQueue)
     IN  \E answer \in ErrorAnswers(item) :
           /\ IF answer = "reject" THEN UNCHANGED <<connecting, ended>> ELSE EndStream
           /\ IF answer = "resend" /\ EnableOfflineQueue
              THEN /\ offlineQueue' = offlineQueue \o Resend(<<item>>, condition.select)
                   /\ SelectDb(DbAfterItem(item))
                   /\ UNCHANGED <<outcome, microtasks>>
              ELSE /\ outcome' = Settle({item.cmd}, "error")
                   /\ microtasks' = microtasks \o Woken(item, "error")
                   /\ UNCHANGED <<offlineQueue, condition, prevSelect>>
  /\ UNCHANGED <<lifecycle, prevShared, prevCommandQueue, queueShared, socket, listening,
                 loadingTimers, sent, serverDb, runs, lastRun, userDb, wantsOpen, budget>>

\* DataHandler.returnFatalError: what arrives is not RESP.
ReturnFatalError ==
  /\ ReplyArrives
  /\ faults < MaxFaults /\ faults' = faults + 1
  /\ outcome' = Settle(Callers(commandQueue), "error")
  /\ microtasks' = microtasks \o Wakened(commandQueue)
  /\ commandQueue' = <<>>
  /\ listening' = (commandQueue = <<>>)
  /\ EndStream
  /\ UNCHANGED <<lifecycle, databases, offlineQueue, prevCommandQueue, queueShared, socket,
                 loadingTimers, wire, runs, lastRun, userDb, wantsOpen, calls>>

------------------------------------------------------------------------------
(* The application sends a batch: Redis#sendCommand for each command of it. *)

Issuable(b) == \A i \in DOMAIN b : outcome[b[i]] = "idle"

\* In status wait the first command connects.
WakeUp(db) ==
  IF status = "wait"
  THEN /\ StartConnecting
       /\ condition' = [FreshCondition EXCEPT !.select = db]
       /\ UNCHANGED prevSelect
  ELSE /\ SelectDb(db)
       /\ UNCHANGED <<status, epoch, connecting, prevShared>>

CurrentDb == IF status = "wait" THEN OptionsDb ELSE condition.select

Told(b, result) == outcome' = [c \in Commands |-> IF \E i \in DOMAIN b : b[i] = c THEN result
                                                  ELSE outcome[c]]

\* The first command decides: all of a pipeline are writable or none is.
BatchWritable(b) == Writable(Name[b[1]], Len(b) > 1)

QuitsOffline(b) == Name[b[1]] = "quit" /\ offlineQueue = <<>>

IssueWritten(b) ==
  /\ Issuable(b)
  /\ BatchWritable(b)
  /\ Write(ItemsOf(b, condition.select))
  /\ manuallyClosing' = (manuallyClosing \/ \E i \in DOMAIN b : Name[b[i]] = "quit")
  /\ SelectDb(SelectedAfter(b, Len(b), condition.select))
  /\ Told(b, "pending")
  /\ userDb' = SelectedAfter(b, Len(b), userDb)
  /\ wantsOpen' = (wantsOpen /\ \A i \in DOMAIN b : Name[b[i]] # "quit")
  /\ UNCHANGED <<status, epoch, retryAttempts, timers, timerHandle, prevShared, offlineQueue,
                 prevCommandQueue, queueShared, link, loop, replies, serverDb, runs, lastRun, budget>>

IssueQueued(b) ==
  /\ Issuable(b)
  /\ status # "end" /\ ~BatchWritable(b) /\ EnableOfflineQueue /\ ~QuitsOffline(b)
  /\ offlineQueue' = offlineQueue \o ItemsOf(b, CurrentDb)
  /\ WakeUp(SelectedAfter(b, Len(b), CurrentDb))
  /\ Told(b, "pending")
  /\ userDb' = SelectedAfter(b, Len(b), userDb)
  /\ UNCHANGED <<retryAttempts, manuallyClosing, timers, timerHandle, commandQueue,
                 prevCommandQueue, queueShared, socket, ended, listening, loop, wire, runs, lastRun,
                 wantsOpen, budget>>

\* QUIT with nothing queued before it is answered without a server.
IssueQuitOffline(b) ==
  /\ Issuable(b)
  /\ status # "end" /\ ~BatchWritable(b) /\ EnableOfflineQueue /\ QuitsOffline(b)
  /\ CloseManually
  /\ connecting' = FALSE
  /\ ended' = (socket # "none")
  /\ IF status = "wait"
     THEN status' = "connecting" /\ epoch' = epoch + 1 /\ condition' = FreshCondition
     ELSE UNCHANGED <<status, epoch, condition>>
  /\ Told(b, "ok")
  /\ wantsOpen' = FALSE
  /\ UNCHANGED <<retryAttempts, prevSelect, prevShared, queues, socket, listening, loop, wire, runs,
                 lastRun, userDb, budget>>

\* The client ended, or has no offline queue.
IssueRefused(b) ==
  /\ Issuable(b)
  /\ status = "end" \/ (~BatchWritable(b) /\ ~EnableOfflineQueue)
  /\ WakeUp(CurrentDb)
  /\ Told(b, "error")
  /\ UNCHANGED <<retryAttempts, manuallyClosing, timers, timerHandle, queues, socket, ended,
                 listening, loop, wire, runs, lastRun, userDb, wantsOpen, budget>>

\* Command#setTimeout: the caller is told, the command stays where it is.  The timeouts of the
\* handshake's own commands are left out: HELLO, AUTH and INFO fail then as at an error reply.
TimeOut(c) ==
  /\ CommandTimeout
  /\ microtasks = <<>>
  /\ outcome[c] = "pending"
  /\ outcome' = [outcome EXCEPT ![c] = "error"]
  /\ UNCHANGED <<lifecycle, databases, queues, link, loop, wire, runs, lastRun, userDb, wantsOpen, budget>>

------------------------------------------------------------------------------
Init ==
  /\ status = (IF LazyConnect THEN "wait" ELSE "connecting")
  /\ epoch = (IF LazyConnect THEN 0 ELSE 1)
  /\ connecting = ~LazyConnect
  /\ retryAttempts = 0 /\ manuallyClosing = FALSE
  /\ timers = 0 /\ timerHandle = FALSE
  /\ condition = FreshCondition
  /\ prevSelect = NoDb /\ prevShared = FALSE
  /\ offlineQueue = <<>> /\ commandQueue = <<>> /\ prevCommandQueue = <<>> /\ queueShared = FALSE
  /\ socket = "none" /\ ended = FALSE /\ listening = FALSE
  /\ microtasks = <<>> /\ loadingTimers = {}
  /\ sent = <<>> /\ replies = <<>> /\ serverDb = NoDb
  /\ outcome = [c \in Commands |-> "idle"]
  /\ runs = [c \in Commands |-> 0]
  /\ lastRun = NoCmd
  /\ userDb = OptionsDb /\ wantsOpen = TRUE
  /\ calls = 0 /\ faults = 0

Application ==
  \/ Connect
  \/ \E reconnect \in BOOLEAN : Disconnect(reconnect)
  \/ \E b \in Batches : IssueWritten(b) \/ IssueQueued(b) \/ IssueQuitOffline(b) \/ IssueRefused(b)

Continuation ==
  \/ StaleContinuation \/ Downgrade \/ ReadyCheck \/ BecomeReady
  \/ WrongRole \/ HandshakeFailed \/ StillLoading

\* The steps that the event loop, the network and the server take in the end.
System ==
  \/ ReconnectTimer \/ CreateSocket \/ AbortConnecting \/ ConnectHandler \/ StreamClosed
  \/ Continuation \/ LoadingTimer
  \/ ServerHandshake \/ ServerCommand \/ ReturnReply \/ ReturnError

Next ==
  \/ Application
  \/ System
  \/ StreamLost \/ ReturnFatalError
  \/ \E c \in Commands : TimeOut(c)

Spec == Init /\ [][Next]_vars

\* Timers fire, pending continuations and events are run, a server that is up
\* connects and answers.  Nothing is assumed of the application, nor of faults.
FairSpec == Spec /\ WF_vars(System)

------------------------------------------------------------------------------
(* Properties.                                                              *)

Microtask == [kind: {"hello", "info"}, epoch: Nat, result: HelloReplies \cup InfoReplies \cup {"ok", "error", "flushed"}]
Reply == [item: Item, reply: HelloReplies \cup InfoReplies \cup {"ok", "error"}]

LifecycleTypes ==
  /\ status \in Statuses /\ epoch \in Nat /\ retryAttempts \in Nat
  /\ manuallyClosing \in BOOLEAN
  /\ timers \in Nat /\ timerHandle \in BOOLEAN /\ (timerHandle => timers > 0)
DatabaseTypes ==
  /\ condition \in [select: Dbs, protocol: {2, 3}, handshake: BOOLEAN]
  /\ prevSelect \in Dbs \cup {NoDb} /\ prevShared \in BOOLEAN
QueueTypes ==
  /\ {offlineQueue, commandQueue, prevCommandQueue} \subseteq Seq(Item)
  /\ queueShared \in BOOLEAN
LinkTypes ==
  /\ connecting \in BOOLEAN /\ ended \in BOOLEAN /\ listening \in BOOLEAN
  /\ socket \in {"none", "opening", "open"}
LoopTypes == microtasks \in Seq(Microtask) /\ loadingTimers \subseteq Nat
WireTypes == sent \in Seq(Item) /\ replies \in Seq(Reply) /\ serverDb \in Dbs \cup {NoDb}
HistoryTypes ==
  /\ outcome \in [Commands -> {"idle", "pending", "ok", "error"}]
  /\ runs \in [Commands -> Nat] /\ lastRun \in Commands \cup {NoCmd}
  /\ userDb \in Dbs /\ wantsOpen \in BOOLEAN
BudgetTypes == calls \in Nat /\ faults \in Nat

\* The values the variables take.  In particular reconnectTimeout never refers to a
\* timer that is gone: clearing it in disconnect() clears a pending one.
TypeOK ==
  /\ LifecycleTypes /\ DatabaseTypes /\ QueueTypes /\ LinkTypes
  /\ LoopTypes /\ WireTypes /\ HistoryTypes /\ BudgetTypes

\* A client that is connected (handshaking or ready) has an open socket, and a
\* socket exists only while the client is connecting or connected: no late
\* continuation of the handshake marks a dead connection ready, and no
\* connection is opened beside another (connectHandler's isActiveConnect).
SocketMatchesStatus ==
  /\ socket = "open" <=> status \in {"connect", "ready"}
  /\ socket = "opening" => status = "connecting"

\* While replies are read, the k-th reply to come answers the k-th command of the
\* command queue: nobody is given the reply to another command, and a reply never
\* meets an empty queue ("Command queue state error" in DataHandler.shiftCommand).
RepliesMatchQueue ==
  listening => commandQueue = [i \in DOMAIN replies |-> replies[i].item] \o sent

\* Whatever was queued, resent or replayed, the server runs a command in the
\* database the client recorded for it: the SELECTs of readyHandler and
\* handleReconnection keep the connection and condition.select in step.  (Not so with a
\* pipeline that has a SELECT and is issued during a handshake: README, section 3.)
RunsInRecordedDb ==
  \A i \in DOMAIN sent :
    serverDb # NoDb /\ sent[i].name = "get"
      => DbAfter(SubSeq(sent, 1, i - 1), serverDb) = sent[i].select

\* The queues that will be looked at again.
Held == offlineQueue \o commandQueue \o (IF queueShared THEN <<>> ELSE prevCommandQueue)

\* A command whose caller still waits is in one of the three queues (resetCommandQueue
\* drops a queue that closeHandler must have kept), handshake commands excepted and unless
\* autoResendUnfulfilledCommands is off; and no command is queued twice, so none is sent
\* twice on one connection.
HeldOnce ==
  /\ AutoResend => \A c \in Commands :
       outcome[c] = "pending" /\ Name[c] \notin HandshakeCommands => c \in Callers(Held)
  /\ \A i, j \in DOMAIN Held : Held[i].cmd # NoCmd /\ i # j => Held[i].cmd # Held[j].cmd

RunsAfterPredecessor(c) ==
  lastRun' = c /\ lastRun # c /\ Position(c) > 1 => lastRun = BatchOf(c)[Position(c) - 1]

\* A command of a pipeline is run only right after its predecessor, on the same
\* connection: a pipeline cut by a lost connection is resent whole or aborted
\* (abortIncompletePipelines), never continued in the middle.  An application
\* whose reconnectOnError asks for single commands to be resent gives that up.
PipelineInOrder == [][\A c \in Commands : RunsAfterPredecessor(c)]_vars

\* Without autoResendUnfulfilledCommands nothing the server ran is sent again.
AtMostOnce == ~AutoResend => \A c \in Commands : runs[c] <= 1

\* After disconnect() or quit() no connection attempt begins until the application
\* calls connect(): no timer survives, and no close is taken for a loss.  (Not so if
\* connect() was called while a timer was pending: README, section 3.)
ClosedStaysClosed == [][epoch' > epoch => wantsOpen \/ wantsOpen']_vars

\* A command whose caller got its reply is never run again.
ResolvedIsDone ==
  [][\A c \in Commands : outcome[c] = "ok" => runs'[c] = runs[c]]_vars

\* The client implements the promise about its status.
Lifecycle == INSTANCE ConnectionLifecycle WITH status <- status, socket <- socket, epoch <- epoch
ImplementsLifecycle == Lifecycle!Spec

\* A lost connection comes back: retryStrategy allows it and the application did not close.
Reconnects == status = "reconnecting" ~> status = "ready"

\* No caller waits for ever, the handshake commands excepted.
EveryCallerIsAnswered ==
  \A c \in Commands : Name[c] \notin HandshakeCommands =>
    (outcome[c] = "pending" ~> outcome[c] # "pending")

------------------------------------------------------------------------------
(* What the documents say and the code does not keep (README, section 3):    *)
(* these three do not hold, and no proof or property uses them.              *)

\* RedisOptions.ts: maxRetriesPerRequest is how many attempts are allowed before "the
\* commands that don't get a reply due to the connection to the server is lost" are flushed.
FlushedAfterRetries ==
  [][/\ status # "reconnecting" /\ status' = "reconnecting"
     /\ MaxRetriesPerRequest >= 0 /\ retryAttempts' % (MaxRetriesPerRequest + 1) = 0
     => \A c \in Commands : outcome'[c] # "pending"]_vars

\* A command runs in the database its caller had selected when issuing it.
RunsInSelectedDb ==
  \A i \in DOMAIN sent :
    serverDb # NoDb /\ sent[i].name = "get"
      => DbAfter(SubSeq(sent, 1, i - 1), serverDb) = sent[i].db

\* abortTransactionFragments: whatever is resent, a command of a transaction (EXEC
\* included) runs only after the ones before it.
TransactionInOrder ==
  [][\A c \in Commands :
       (\E i \in 1..Position(c) : Name[BatchOf(c)[i]] = "multi") => RunsAfterPredecessor(c)]_vars
=============================================================================
