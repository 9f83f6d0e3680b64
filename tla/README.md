# ioredis: a TLA+ model of the client

This directory holds TLA+ modules that model ioredis (`lib/`), the TLC
configurations that check them on small instances, and theorems about them
checked by TLAPS. Paths below are relative to the repository; `file.ts:n` is a
line of it.

    tlc -workers 2 -config RedisClientReplay.cfg MCRedisClient.tla   # a run
    tlapm RedisClientProofs.tla                                      # a proof

## 1. The system

| Part | State | Operations | Talks to |
|---|---|---|---|
| Redis client (`Redis.ts`, `redis/event_handler.ts`) | `status`, `connectionEpoch`, `retryAttempts`, `manuallyClosing`, `reconnectTimeout`, `condition` and `prevCondition`, `offlineQueue`, `commandQueue`, `prevCommandQueue` | `connect`, `disconnect`, `sendCommand`, `flushQueue`, `handleReconnection`, the handlers of *connect*, *close*, *ready*, the ready check | connector, stream, DataHandler, commands |
| Connector (`connectors/`) | `connecting`, `stream` | `connect` (the socket is created on the next tick), `disconnect` | the socket |
| Sentinel connector | sentinel list, iterator, failover detector | walk over the sentinels, resolve, check the role, watch `+switch-master` | its own Redis clients |
| Reply path (`DataHandler.ts`) | `remainingRepliesMap` | `returnReply`, `returnError`, `returnPush`, `returnFatalError` | head of `commandQueue`, subscriptions |
| RESP decoder (`resp/`) | a continuation and a cursor | `write(chunk)` | DataHandler |
| Command (`Command.ts`) | promise, `isSettled`, timers, `pipelineIndex`, `inTransaction` | write itself, resolve, reject, time out, transform arguments and reply | the caller |
| Script (`Script.ts`) | sockets a script was loaded on | EVALSHA, EVAL the first time, again after NOSCRIPT | `sendCommand` |
| Pipeline, `multi`, auto pipelining | `_queue`, `_result`, `replyPending`, `preferKey`; for each node the pipeline being filled and the one running | `exec`, `fillResult`, resend as a whole on a cluster | `sendCommand` of client or cluster |
| Pub/sub (`SubscriptionSet.ts`, `DataHandler`) | `condition.subscriber` | subscribe, unsubscribe, resubscribe on reconnect | readyHandler |
| Cluster client (`cluster/`) | `status`, `slots`, pool, offline queue, refresh callbacks, delay queue | `connect`, `refreshSlotsCache`, `sendCommand`, `handleError` (MOVED, ASK, TRYAGAIN, CLUSTERDOWN, connection loss) | the pool of Redis clients |
| Cluster subscribers | one subscriber and `lastActiveSubscriber`, or one for each node with `isResetting`, `pendingReset` | select, resubscribe; reset, start, stop | pool, cluster |
| HIMPORT coordinator | for each connection a session with its prepared fieldsets | prepare, intercept, recover | handshake, `sendCommand`, pipelines |
| ScanStream | a cursor | a read loop | `sendCommand` |

Everything runs on one JavaScript thread. What makes it hard is what can happen
*between* two turns: a handler suspended at an `await` resumes when the
connection it was about is gone; timers (reconnect, loading, command, blocking,
socket, delay queue) outlive the state they were set in; the connection is lost
with replies half-way; replies carry no identifier, so everything rests on the
order of a queue that is also flushed, replaced, aliased and replayed. On top of
that, the cluster, the sentinels and the sessions of HIMPORT have an idea of the
world (slots, master, fieldsets) that the world has changed meanwhile. The full
list, by line, is `hazards` in `PROJECT.json`.

What makes each part correct:

* **Client.** The status tells the truth about the socket; a closed client
  stays closed and a lost connection comes back; each reply goes to the command
  it answers; a command is neither lost, nor doubled, nor run in another
  database or out of its pipeline when it is replayed; every caller is answered.
* **Exchange.** The server reads what the caller meant, and the caller gets what
  the server answered, however the stream is cut and whichever protocol is
  spoken; no wait is longer than the option that bounds it.
* **Pub/sub.** After a reconnection the server's subscriptions are the ones the
  application asked for; replies are not taken for messages nor messages for replies.
* **Sentinel.** In the end the client is at a node of its role, and it never
  gives up by itself.
* **Pipeline.** `exec` resolves once, with one result for each command, in
  order; resending never repeats a write that has succeeded.
* **Cluster.** A command is in one place and is settled once; redirections are
  bounded; one refresh runs at a time and answers everyone who waits for it.
* **Subscribers.** The channels asked for survive the replacement of the
  subscriber; a failure or a reset during another reset is not lost.
* **HIMPORT.** A fieldset is taken for prepared only where it is prepared.

## 2. Modules

| Module | Is | Used by |
|---|---|---|
| `ConnectionLifecycle` | the abstract specification: status, socket and attempt number of a client, and the only ways they may change | `RedisClient` (refinement) |
| `RedisClient` | the standalone client: `Redis.ts`, `event_handler.ts`, the standalone connector, the reply path of `DataHandler.ts`, with the server at the other end | `MCRedisClient`, the proofs |
| `RedisClientProofs` | proofs about `RedisClient` (section 4): types, status, replies and closing; the commands held; the databases they run in; the order of pipelines | |
| `PubSubProofs`, `PipelineProofs`, `ClusterProofs`, `ClusterSubscriberProofs`, `ShardedSubscribersProofs`, `HimportProofs` | the proofs about the module of that name | |
| `SequenceFacts` | lemmas about sequences | the proofs, but for two |
| `PubSub` | the subscriptions of a client: the pub/sub half of `DataHandler.ts`, `SubscriptionSet.ts` and the resubscription of `readyHandler`, over a connection that is lost and comes back | `MCPubSub` |
| `RespDecoder` | the incremental parser of replies, `resp/decoder.ts` | `Command` |
| `Command` | pure operators: arguments, key prefixes, the request in bytes, blocking timeouts, reply transformers | `Exchange` |
| `Exchange` | the composition of the two with scripts, timers and a connection that is lost: a call from the caller to the server and back | `MCExchange` |
| `Pipeline` | `Pipeline.ts`, `transaction.ts`, `autoPipelining.ts` on a cluster | `MCPipeline` |
| `Cluster` | the cluster client: `cluster/index.ts`, `ConnectionPool.ts`, `DelayQueue.ts` | `MCCluster` |
| `ClusterSubscriber` | the one subscriber of a cluster | `MCClusterSubscriber` |
| `ShardedSubscribers` | the subscribers for sharded channels: `ClusterSubscriberGroup.ts`, `ShardedSubscriber.ts` | `MCShardedSubscribers` |
| `Sentinel` | the sentinel connector with its iterator and its failover detector | `MCSentinel` |
| `Himport` | the HIMPORT coordinator with the handshake, the queues and the pipelines it works on | `MCHimport` |

The `MC` modules give the instances their sets. A definition named after another
one with a suffix (`Resolved_KeepsIgnored`) and marked `Mutant` is that
definition with a plausible mistake: no specification uses it, and each property
is known to fail when one of them takes the place of its original.

### RedisClient and the code

*State.* The first three groups of variables are fields of the `Redis` object
under their own names (`epoch` is `connectionEpoch`). Three things are kept
explicit because the code's object references matter: `prevShared` says that
`prevCondition` **is** the object `condition` refers to (a SELECT changes both),
`queueShared` that `prevCommandQueue` **is** the deque `commandQueue` refers to
(flushing one empties the other), and `timerHandle` that `reconnectTimeout`
refers to a timer; `timers` counts the timers that are actually pending. `socket`, `ended`,
`listening` are the stream; `microtasks` and `loadingTimers` are what the event
loop still has to run; `sent`, `replies`, `serverDb` the wire and the server.
`outcome`, `runs`, `lastRun`, `userDb`, `wantsOpen` are history: no action of
the client reads them (`outcome` also stands for a promise's being settled).

*Actions.* One action is one turn of the event loop, and contains everything
its handler does:

| Code | Action |
|---|---|
| `connect()` / `_connect` | `Connect`, and inside `ReconnectTimer`, `IssueQueued`, ... |
| next tick of `StandaloneConnector.connect` | `CreateSocket`, `AbortConnecting` |
| *connect* event | `ConnectHandler` (reset of the command queue, handshake written) |
| continuations of `connectHandler` | `StaleContinuation`, `Downgrade`, `ReadyCheck`, `BecomeReady` (with the whole of `readyHandler`), `WrongRole`, `HandshakeFailed` |
| `_readyCheck` on a loading server | `StillLoading`, `LoadingTimer` |
| *close* event | `StreamClosed` (somebody asked for it) and `StreamLost` (refused, timed out, lost), both `CloseHandler` |
| `disconnect(reconnect)` | `Disconnect` |
| `sendCommand` | `IssueWritten`, `IssueQueued`, `IssueQuitOffline`, `IssueRefused`: the ways it can end |
| data | `ReturnReply`, `ReturnError` (with `handleReconnection`), `ReturnFatalError` |
| `Command#setTimeout` | `TimeOut` |

A pipeline is sent by one call of the application, so its commands are issued in
one step (all of them are writable or none is). Microtasks run before the next
event: an action that begins a turn which could observe the difference requires
`microtasks = <<>>`; replies do not (several arrive in one chunk, and `await`
continuations interleave with the chunks that follow).

*Abstractions.* The commands of one handshake (HELLO or AUTH, SELECT, CLIENT,
READONLY) travel as one item, `hello`; its reply is "ok", "the server cannot do
RESP3", or "failed". If the queue is flushed under it the continuation receives
`flushed`, which may turn out either way, since errors of some handshake
commands are swallowed. A SELECT names a database the server has. The branch of
`sendCommand` for loading-safe commands after the handshake
(`Redis.ts:552-557`) needs `connect` with `handshake` false, which
`finishHandshake` and `readyHandler` leave within one turn; it is left out.
Calls made by the application's own event listeners in the middle of a handler
are left out. `commandTimeout` times out commands of the application only: it covers those of
the handshake as well (`Redis.ts:523-525`), for which HELLO, AUTH and INFO then fail as at an
error reply. The server answers in order, runs a command when it answers it
without an error, and closes after QUIT.

### PubSub and the code

`subscriber` is `condition.subscriber`, with `NoSet` for the value `false` of a
client that is not in subscriber mode; `prevSubscriber` is the same field of
`prevCondition`, and `NoCondition` says that `prevCondition` is null. An item of
a queue carries `remaining`, what `remainingRepliesMap` holds for its command:
the map is keyed by the `Command` object, so the number moves with the command
from queue to queue. A frame carries its type, channel and count, which the
client reads, and the command it answers, which it cannot see and which only
`misdelivered` (history) looks at.

| Code | Action |
|---|---|
| `sendCommand` | `Issue`, `IssueRefused` (RESP2 subscriber mode) |
| `closeHandler`; `_connect` and `connectHandler`; `readyHandler` | `Lose`; `Reconnect`; `Ready` |
| `returnPush`, `handleSubscriberReply` | `ReturnMessage`, `ReturnSubscribed`, `ReturnUnsubscribed`, `ReturnReply` |
| `returnReply` outside the subscriber mode, RESP2 | `ReturnReplyByCommand` |
| `returnError` | `ReturnError` |

The status of the connection is reduced to the three values these handlers
distinguish; `RedisClient` has what happens in between, flushing and giving up
included. `Protocols` is what the handshake may have agreed on. The order in
which the channels of a set are resubscribed is left to `SetToSeq`: the client
sends one command for all of a kind, and one for each sharded channel.

`CutConfirmations` says whether a connection may be lost with some, but not
all, confirmations of one command read. A server writes them together, so that
this needs a reply cut in transit. With it the client resolves the resent
command too early (disagreement 5), which is why `pubsub_restore`, about
everything else, has it FALSE.

Left out of the run and of the theorems, though in the model: UNSUBSCRIBE without arguments.
`fillUnsubCommand` resolves it at the count 0, which the server does not send
while a pattern is still subscribed, so that it stays at the head of the queue
and every later reply goes to it or behind it. No document of the repository
says what it should do. Slots that migrate, for which a server unsubscribes
sharded channels unasked, are in `ShardedSubscribers`.

### RespDecoder, Command, Exchange and the code

The decoder of the source is a chain of functions: a function that runs out of
bytes returns a continuation bound to what it has read so far. In `RespDecoder`
the continuation is a stack of such functions, innermost first (`decoder.stack`
is `#next`), and what each of them does when the chunk ends is kept as it is
written: some ask `++cursor === length`, some `cursor >= length`, and those that
skip bytes they need not look at (`\r\n`, the format of a verbatim string) may
leave the cursor beyond the end of the chunk, which `write` carries over to the
next one. Bytes are one-character strings; the text of a double is not converted
to a number.

The requests a server should read are given in `MCExchange` as literal frames, one set of
byte sequences for each call, and are not computed from its arguments: `RequestsAreRead`
compares what `Command` makes of them, key prefixes and nested values included, with these.

`Command` has what the source computes from a call: `Transformed`,
`Stringified`, `Prefixed`, `Writable`, `ArgumentTimeout`, and `TransformReply`.
One character of two bytes stands for everything outside of ASCII, and a
JavaScript value is a record whose only field tells its type, so that comparing
values of different types is defined. `RESP_TYPES`, flags and tables of commands
are cut down to one command for each way of treating a command.

| Code | Action of `Exchange` |
|---|---|
| a call; `sendCommand`; `Script.execute` | `Issue` |
| `readyHandler`; `closeHandler` | `Open`, `Close` |
| the *data* listeners: the decoder, the DataHandler, the socket timer | `Receive(n)`, a chunk of `n` bytes |
| `Command.setTimeout`, `setBlockingTimeout`, `setSocketTimeout` | `CommandTimer`, `BlockingTimer`, `SocketTimer` |
| the server, the network, the clock | `Serve`, `Flush`, `Lost`, `Tick` |

`Scenarios` is what may happen: calls with the frames a server answers under each
protocol, options, and a bound on faults. A scenario is chosen in `Init`. Time
advances by whole seconds while a timer is armed, and a timer that is due fires
before time goes on.

### Pipeline and the code

`pipelines` holds a record for each `Pipeline` object, with its fields under
their names; `wire` is for each node what was sent and is not answered, as pairs
of a pipeline and a position, because the callback of a promise knows its
position at the time of sending. `failed` are rejections still to be delivered:
`Idle` makes promise callbacks and the next tick come before other events.

| Code | Action |
|---|---|
| `pipeline.exec()`, `multi().exec()` | `Send`, `Resumed` after `delayUntilReady` |
| `executeWithAutoPipelining`, `executeAutoPipeline` | `Issue`, `Woken`; `Immediate`, and inside `Callback` |
| `fillResult` and `handleError` | `FillResult` and `Complete`, inside `Answered`, `Refused`, `Fails` |
| the timer of the delay queue | `DelayTimer` |
| the cluster client, seen from a pipeline | `Connected`, `Ready`, `Refresh`, `NodeLost`, `Ends` |
| the cluster | `ClusterChanges` |

`AskAtLimit` FALSE leaves out that the redirection beyond `maxRedirections` is an
ASK (disagreement 6). Commands have one key; scripts, replicas and transactions
inside a longer pipeline are left out. A pipeline in the offline queue holds the instance
it prefers, which `NodeLost` marks as `Ended` even if the pool has its node again later
(`Pipeline.ts:370-375`). That takes more faults than the run has: there only the theorems
of section 4 cover it.

### Cluster and the code

The first variables are the fields of `Cluster`. A node of the pool is a whole
Redis client that does not reconnect, of which four states matter: not connected
yet (`wait`), `live`, `quitting`, and gone from the pool but not ended (`dying`),
which still reads replies and still emits *end*. `unrefreshed` and `refreshed`
count the attempts of `connect()` whose close listeners are registered: every one
of them calls `handleCloseEvent`. `resolving.stale` are older attempts that wait
for DNS: their `catch` does not look at `connectionEpoch`.

| Code | Action |
|---|---|
| `connect`, and what follows `resolveStartupNodeHostnames` | `Connect`, `ReconnectTimer`; `Resolved`, `ResolveFails`, `ResolvedLate` |
| `disconnect`, `quit`, the *close* event | `Disconnect`, `Quit`, `EmitClose` |
| `sendCommand` | `Issue`, `IssueAfterEnd` |
| `handleError` and the partial *ttl* | `ReplyMoved`, `ReplyAsk`, `ReplyLater`, `TooMany`, `ConnectionClosed` |
| `refreshSlotsCache`, `getInfoFromNode`, `slotsTimer` | `RefreshDone`, `RefreshError`, `RefreshStopped`, `SlotsTimer` |
| `readyCheck` and `readyHandler` | `CheckOk`, `CheckFails`, and inside what loses the connection it was sent on |
| `DelayQueue` | `DelayTimer` |
| the *end* listener of `ConnectionPool` | `NodeLost`, `NodeQuits`, `DyingEnds` |

`disturbed` is a history variable: one of the events happened after which the
source can be left in `close` or `disconnecting` for ever (section 3, *Also
visible*). The liveness properties exclude behaviours with such an event and
nothing else. There is one slot: what several slots add (a pipeline over two
nodes) is in `Pipeline`.

### ClusterSubscriber, ShardedSubscribers and the code

In `ClusterSubscriber` the instance in use is a record (node, connection,
channels, resubscription under way). Of instances before it all that matters is
whether `lastActiveSubscriber` is one of them, and its channels (`former`), and
how many may still read the reply to a resubscription (`stragglers`), as the
`then` of the source does not ask which instance it belongs to. `misjudged`
records that such a late reply, or a refused resubscription, has happened.
`Start`, `Stop`, `NodeJoins`, `NodeLeaves` and `SubscriberEnds` contain
`selectSubscriber`.

`StartAgain` is `start()` when a cluster that lost its nodes connects again: nothing has
stopped the subscriber then.

`ShardedSubscribers` has the group's table, its subscribers, `isResetting` and
`pendingReset`, and the promises a reset waits for (`awaited`, `rejecting`,
`hung`). `Reset` is inside `ClusterUp` and `SlotsArrived`, `ResetDone` is its second
half. A refresh has three moments:

| Code | Action |
|---|---|
| `refreshSlotsCache`, which makes no second request while one runs | `RefreshSlotsCache`, inside `ClusterUp`, `Redirected`, `TimerFires`, `Noticed`, `Answered`, `Migrate` |
| a node computes the answer to CLUSTER SLOTS, from what it knows | `SlotsAnswered` (`former` is the table of a node that does not know of the last move; `Learned`) |
| the answer is applied, to `Cluster.slots` and by `reset` of the group | `SlotsArrived` |
| no node answers | `RefreshFailed` |

`waited` says whether the group has a callback among those of the refresh, the one that
disconnects the cluster when it fails. `pendingReset` is a Boolean since the group keeps
the array `Cluster.slots` itself, so that a reset that was put off sees its latest
contents. All slots of a range share one array of keys (`index.ts:1157-1159`); a MOVED for
one writes into it (`:651-655`) and changes the others until the next table
(`Redirected`). `CutStarts` FALSE leaves out a stop while a subscriber opens its
connection (disagreement 7). `missed` are channels a node refused, or whose slot came
back before the client had seen it leave, `outdated` those whose slot had moved when the
last table arrived without it: nothing in the source would notice these. SUNSUBSCRIBE
ends either.

### Sentinel and the code

`asking` is what `connectToNext` waits for, `iterator` the `SentinelIterator`,
`connecting` and `stream` the connector's fields, `detector` the
`FailoverDetector` with the sentinels it has subscribed at. The environment has
a master and replicas, sentinels with views of their own, some of them down or
never informed; a former master may vanish instead of becoming a replica, but
only where something notices it.

| Code | Action |
|---|---|
| `connectToNext` | `Connect`, `Retry`, and inside the next three |
| `resolve`, `resolveMaster`, `updateSentinels`, `resolveSlave` | `MasterFound`, `SentinelsFound`, `SlaveFound` (with `SelectPreferred`), `SentinelFails` |
| `connect` once a node is known; `initFailoverDetector` | `Resolved`, `Opened` |
| the ready check and `SentinelConnector.check` | `InfoSent`, `InfoRead` |
| `FailoverDetector` | `Subscribed`, `Message` |
| `closeHandler` | `Closed`, `Lost` |

### Himport and the code

`client` is one record, so that each function of the source is an operator from
client to client and an action their composition. A command in a queue is a SET,
a PREPARE of the coordinator with its number and session, or one that forgets
(RESET, DISCARD). A SET sent alone is intercepted and recovers once; a pipeline
waits for the preparation before it is sent. `readyHandler` writes one command in
a step, as intercepting it may add another in between, with nothing else
happening meanwhile.

### Bounds

Every cfg names them. What they must reach:

| Module | Bounds | Enough for |
|---|---|---|
| `RedisClient` | `MaxFaults` 2 (refused or lost connections, error replies, protocol errors), `MaxCalls` 2 of `connect()` and `disconnect()`, each command issued once, `RetryLimit` above `MaxFaults` where giving up is not the subject | a loss, and a second loss or error while the first is being repaired: `prevCommandQueue` separated from `commandQueue`, a continuation of the first connection during the second, `maxRetriesPerRequest` (1) reached |
| `PubSub` | 2 losses, two channels and two sharded ones, one message on its way at a time | `prevCondition` separated from the last condition; a command with several confirmations; sharded channels resubscribed one by one, and counted apart |
| `Exchange` | 2 faults, 6 seconds (more than two timeouts of any kind), chunks up to 40 bytes (longer than a reply), two replies in a row | every reply of every type cut at every byte; a resent command; a script lost between its tries |
| `Pipeline` | 2 faults, `maxRedirections` 2, two nodes, two slots, three commands in a pipeline, a transaction and automatic pipelines | resent twice; a slot that migrates while another does not; a call that joins the pipeline behind a running one |
| `Cluster` | 2 faults, 1 call of the application, `maxRedirections` 1, `RetryLimit` 1, two nodes, one command | every kind of redirection and its excess; giving up; an instance that ends after its node was made anew |
| `ClusterSubscriber` | 5 faults, two nodes, two channels | a selection during a resubscription during a selection |
| `ShardedSubscribers` | 4 faults, of which a move, a refusal and a SUNSUBSCRIBE count two; two nodes, two channels | a reset asked for twice during a reset; two moves, or a move and two losses, while one answer to CLUSTER SLOTS is under way |
| `Sentinel` | 1 failover, 1 fault, three sentinels of which one to three are given | a walk over all of them, with one that is down, one that never learns and one that does |
| `Himport` | 3 faults, two SETs and a pipeline of one | two SETs that wait for one PREPARE, lost, resent and forgotten meanwhile |

## 3. Runs

| Run (distinct states) | Shows |
|---|---|
| `client_replay` (332 237) | a client that reconnects by itself, with ready check, database 1 selected by one command, a single command and a pipeline of two; the server may be loading, of the wrong role, reply errors, drop the connection. `TypeOK`, `RepliesMatchQueue`, `RunsInRecordedDb`, `HeldOnce`, `PipelineInOrder`, `ResolvedIsDone` |
| `client_calls` (299 101) | the application calls `disconnect()`, `disconnect(true)` and QUIT in any status, and `connect()` before the first connection and after the end, of a lazy client with a transaction, `commandTimeout`, downgrade to RESP2, `reconnectOnError` answering false or 2, no automatic resending. `SocketMatchesStatus`, `AtMostOnce`, `ClosedStaysClosed`, `ImplementsLifecycle` |
| `client_liveness` (11 692) | under fairness `Reconnects` and `EveryCallerIsAnswered` |
| `pubsub_restore` (47 476) | SUBSCRIBE of two channels, UNSUBSCRIBE of one, SSUBSCRIBE of two and GET in any order, over RESP2 or RESP3, with messages and two lost connections. `NothingMisdelivered`, `InSync`, and under fairness `Restored` and `Answered` |
| `exchange` (610 516) | calls from the arguments to the value the caller gets. Replies: `DecodesWhatWasSent`, however they are cut; `SameForBothProtocols`, whether RESP2 or RESP3 is spoken. Requests: `RequestsAreRead`. Timers: `SilenceIsNoticed`, `WaitsAreBounded`. Scripts the server loses: `ScriptsAreFound` |
| `pipeline_batches` (266 280) | calls made one by one under automatic pipelining, as pipelines and as transactions, on a cluster that moves slots, refuses, loses nodes and ends. `TypeOK`, `WritesNotRepeated`, `OwnResults`, and under fairness `CallsAreAnswered` |
| `cluster_faults` (100 816) | one command on a cluster of two nodes: lost connections, a moved slot, every redirection, failing DNS, a failing ready check, old instances that still answer; the application disconnects or quits. `HeldOnce`, `RedirectionsBounded`, `WaitersAreWoken`, and under fairness `Reconnects`, `Closes`, `EveryCallerIsAnswered` |
| `subscriber_restore` (10 978) | the subscriber of a cluster is selected again and again. `NothingForgotten`, and under fairness `SubscriptionsAreRestored` |
| `sharded_restore` (543 356) | slots move, subscribers fail, the cluster reconnects, while resets of the group overlap and tables of slots are under way. `FailuresAreNoticed`, and under fairness `ChannelsAreRestored` |
| `sentinel_failover` (211 585) | failovers, sentinels that are down or never informed, with and without the failover detector, for the master and for a replica. Under fairness `FindsItsNode` |
| `sentinel_end` (violated) | `NeverEnds`, disagreement 1 below |
| `himport_sets` (628 686) | HIMPORT SET alone and in pipelines, lost connections, timeouts, refusals, RESET and DISCARD. `BeliefIsRight`, `OnlyDisturbedSetsFail`, and under fairness `SetsAreAnswered` |

Deadlock is not checked: a client may end, and a run has finitely many commands,
calls and faults.

### Fairness

Fairness is assumed of three things only: of the Node process (timers fire,
pending continuations and events run), of a server that has received a command
(it answers), and of a dialled server (it accepts, or refuses). Nothing is
assumed of the application, and faults are bounded: they may happen and need not.

| Module | Weak fairness of | Why in this form |
|---|---|---|
| `RedisClient`, `Pipeline` | `System`, all of the above together | weaker than one condition per action, and enough |
| `PubSub` | the making of the connection; the server's working off what it was sent; the client's reading | others may publish for ever, and one condition could be met by their messages alone |
| `Cluster` | `EmitClose`, `ReconnectTimer`, each `DelayTimer`, DNS, the refresh, the ending of nodes, the ready check, the replies to each command | a slot refresh or a redirection may recur, and starve the rest |
| `ClusterSubscriber` | `Start`, a node joining, `Replies` | the pool refills after a loss, as `refreshSlotsCache` runs |
| `ShardedSubscribers` | `Connections`, `ResetDone`, `Reconnection`, `Refreshes` (the delay, the answer, its arrival), `Learned` | a refresh that nothing asks for is not assumed; the nodes of a cluster learn of a move from each other |
| `Sentinel` | `Proceed`; each sentinel's subscription, message and learning; each former master's demotion | the sentinels act on their own; those of `uninformed` never learn and are exempt |
| `Himport` | `SendBacklog` while there is a backlog, otherwise the connection and its answers | the backlog is written in one turn |

`Exchange` has no fairness: its properties about waiting are invariants over a
clock.

### What the properties leave out

Some properties would not hold of the code as it is. Where a document of the
repository states them, they are the disagreements below. Where none does, the
property has an exception that is a named variable or constant:

* `disturbed` (`Cluster`): `disconnect()` or `quit()` of a cluster without nodes
  or while host names are resolved; a redirection read while the cluster is
  closing; *close* when nobody listens. Each can leave the cluster in `close` or
  `disconnecting` for ever. For three of them see *Also visible*.
* `misjudged` (`ClusterSubscriber`): a late reply to, or a refusal of, a
  resubscription: `lastActiveSubscriber` then names a subscriber that lacks
  channels, or one that was thrown away.
* `missed` (`ShardedSubscribers`): a refused SSUBSCRIBE is not tried again, and a
  slot that left its node and came back between two refreshes was not seen to move.
* `outdated` (`ShardedSubscribers`): the table that arrived last did not have the move of
  the channel's slot (see *Also visible*).
* `disturbed`, `discarded` (`Himport`): a SET during which the application called
  RESET or DISCARD may fail.
* `leftEarly` (`PubSub`): a server counts shard channels apart from the others,
  and a count of 0 in an UNSUBSCRIBE or SUNSUBSCRIBE makes `DataHandler.ts:206-219`
  leave the subscriber mode with the other kind still subscribed: over RESP2 their
  messages are then taken for replies, and after a loss they are not restored.
* `CutConfirmations` (`PubSub`), `AskAtLimit` (`Pipeline`), `CutStarts`
  (`ShardedSubscribers`): FALSE in the run; disagreements 5, 6 and 7.

### Disagreements with the documentation

The first is a run. Of the others the modules have the behaviour and the
property, and the run can be made by changing the cfg as stated.

1. **A late failover message ends the client** (`sentinel_end`). The detector of
   a lost connection is not cleaned up in `closeHandler`. Its `+switch-master`
   that arrives while `connect()` asks the sentinels calls `disconnect()` of the
   connector; `connecting` becomes false, `SentinelConnector.connect` throws when
   the sentinel answers (`SentinelConnector/index.ts:163-165`), and
   `Redis.ts:279-284` flushes the queues and sets `end`. `README.md:1097`: "none
   of the commands will be lost".
2. **Flushing after `maxRetriesPerRequest`.** `flushQueue` empties the offline
   and the current command queue. After `connectHandler` replaced the command
   queue, the commands that lost their reply sit in `prevCommandQueue` alone, and
   the MaxRetriesPerRequestError promised by `RedisOptions.ts:187-190` does not
   reach them. `FlushedAfterRetries` of `RedisClient`: no ready check,
   `RetryLimit` 2, two gets; it takes a loss, a connection that opens and is lost
   in its handshake.
3. **The database selected before the first ready connection.** `_connect`
   starts every attempt with `options.db`, and only a connection that was ready
   saves its condition; a SELECT issued offline before that is replayed, but
   commands issued after the failed attempt are recorded with `options.db`.
   `RunsInSelectedDb` of `RedisClient`, in `RedisClientReplay.cfg`.
4. **Fragments of transactions.** `abortTransactionFragments` stops at the
   first MULTI or EXEC of the offline queue; with `reconnectOnError` answering 2,
   fragments behind it are resent. `TransactionInOrder` of `RedisClient`, with
   `ReconnectOnError` {"resend"}, the batch m1, t1, x1 and the batch m2, x2.
5. **A SUBSCRIBE of several channels cut half-way.** `remainingRepliesMap`
   belongs to the command and is not reset when the command is resent, which
   `README.md:890` announces. After one of two confirmations the resent command
   resolves at the first confirmation on the new connection; the second
   is given to the next command, or finds the queue empty, which
   `DataHandler.ts:379-380` reports as a "Command queue state error".
   `NothingMisdelivered` of `PubSub`, with `CutConfirmations` TRUE.
6. **An ASK at the limit of redirections in a pipeline.** `fillResult` decides
   that a pipeline is retried before `handleError` finds that `maxRedirections`
   is exceeded, and the queue has been rebuilt by then (`Pipeline.ts:136-157`,
   `201-208`): `exec` gives results that are not one for each command in order
   (`README.md:394-396`). `OwnResults` of `Pipeline`, with `AskAtLimit` TRUE.
7. **`stop` while a sharded subscriber starts.** `ShardedSubscriber.stop` drops
   the instance (`:124-136`); a `connect()` under way then never settles
   (`Redis.ts:362-371`), and the `Promise.all` of the reset that waits for
   it (`ClusterSubscriberGroup.ts:279`) leaves `isResetting` set: later resets are
   only noted. The comment "Channels are preserved for resubscription on
   reconnect" says otherwise. `ChannelsAreRestored` of `ShardedSubscribers`, with
   `CutStarts` TRUE.
8. **A pipeline waiting for a handshake's PREPARE.** The PREPARE of a handshake
   is dropped with the queue of its connection when that connection is lost
   (`event_handler.ts:375-382`, `156`) without being settled; a pipeline that
   waits for it (`HimportCoordinator.ts:382-384`, `Pipeline.ts:345-360`) waits for
   ever, where `README.md:328` has it wait for the preparation and then be sent.
   `PipelinesAreAnswered` of `Himport`, in `HimportSets.cfg`.

### Also visible, and stated by no document

* Client: one in `reconnecting` that is closed keeps that status, with no timer
  and no `end` event; `manuallyClosing` set while no socket exists is still set at
  the next loss; SELECT and INFO of the application written during a handshake
  are dropped with the queue of that connection (`HeldOnce` and
  `EveryCallerIsAnswered` leave these names out); commands that timed out in the
  offline queue are still sent.
* Client, two timers: `connect()` called in `reconnecting` does not clear
  `reconnectTimeout` (`Redis.ts:243-273`). If its attempt fails before the timer
  fires there are two, and `reconnectTimeout` refers to the second; `disconnect()`
  or an offline QUIT clears that one, the first fires and connects a client
  that was closed. `ClosedStaysClosed` of `RedisClient`, in `RedisClientCalls.cfg`
  with `ConnectFrom` {"reconnecting"}: seven states.
* Client, SELECT in a pipeline: a pipeline issued during a handshake is queued, but
  its SELECT changes `condition.select` at once (`Redis.ts:654-660`), while the
  connection stays in the database its handshake selected. `readyHandler` compares
  the commands queued before it with `condition.select`
  (`event_handler.ts:501-526`) and sends those of the new database without a SELECT.
  With `select 1` sent and lost in a handshake, a get queued, and on the next
  connection the pipeline `select 1`, get: the first get runs in database 0.
  `RunsInRecordedDb`, in `RedisClientReplay.cfg`. A SELECT called alone is written
  during the handshake, and has no such effect.
* Exchange: the deadline of a blocking command issued offline is fixed by
  `blockingTimeout` when it is queued, not by its own timeout (`Redis.ts:602-609`,
  `Command.ts:434-470`); a Buffer `keyPrefix` that is not UTF-8 is changed when
  it meets a string key (`bufferMode` is decided in `initPromise`, before the
  prefix is put on); the request is then cut wrongly.
* Cluster: `disconnect()` after *end* sets `close` again
  (`cluster/index.ts:243-245`); `disconnect()` while host names are resolved can
  leave `disconnecting`; a MOVED read while closing makes a node, so that *drain*
  does not come; a `delayUntilReady` of a pipeline after *end* waits for ever.
* Sharded subscribers: a slot moves while CLUSTER SLOTS is answered, or the node asked does
  not know of the move yet. The old node's "sunsubscribe" asks for a refresh, which the
  running one takes in (`cluster/index.ts:550`); then the table of before the move
  arrives, `reset()` finds nothing to do, and the channel stays lost until something else
  asks for a refresh. `slotsRefreshInterval` does so in the end, but is off by default.
  `ChannelsAreRestored` without `\cup outdated`, in `ShardedRestore.cfg`.
* Sentinel: without a detector the role check skips a sentinel on its next walk; a
  detector made after `disconnect()` is not cleaned up.

## 4. Proofs

The theorems hold for every value of the constants that satisfies the named
assumption of the module (`CommandsAssumption`, `OptionsAssumption`,
`ClusterAssumption`, ...): any number of commands, nodes, slots and channels, and
any number of faults. The assumptions say what the constants are (finite countdowns,
names of known commands, a nonempty set of slots, finitely many nodes, markers such as
`NoChannel` that are no channels) and that each call makes a `Command` of its own: a
batch has a command once (`IsInjective(b)`), and no two batches share one.
Six theorems have hypotheses of their own, stated below. Each excludes something
the code does otherwise, met in a run or when the invariant would not go through:

| Theorem | Hypothesis | What is excluded |
|---|---|---|
| `ClosedStaysClosedTheorem` | no `connect()` in `reconnecting` | two timers (section 3, *Also visible*) |
| `PipelineInOrderTheorem` | `"resend" \notin ReconnectOnError`, `ExecAfterMulti` | an application that has single commands sent again gives the order up; `abortTransactionFragments` takes an EXEC with no MULTI ahead of it for a fragment and drops it from the middle of a pipeline (found by TLC with the batch get, exec, get) |
| `RunsInRecordedDbTheorem` | no SELECT in a pipeline of several commands | section 3, *Also visible* |
| `OwnResultsTheorem` | `~AskAtLimit` | disagreement 6 |
| `NothingMisdeliveredTheorem`, `InSyncTheorem` | `NothingIsCut`, `NoBareCommand` | disagreement 5; UNSUBSCRIBE without arguments (section 2, *PubSub and the code*) |

Where a property is not inductive, the table has the invariant that is. Each was
checked by TLC on the run of its property before it was proved, with one exception
named under *PubSub*. A proof has one lemma for each action and, under it, one step
for each conjunct that the action disturbs.

### RedisClient

| Theorem | Of | Inductive invariant |
|---|---|---|
| `TypeTheorem` | `TypeOK` | itself |
| `SocketTheorem` | `SocketMatchesStatus` | `LifecycleInv` |
| `LifecycleTheorem` | `ImplementsLifecycle` | every step is a step of `ConnectionLifecycle` or a stutter (`NextRefines`) |
| `ReplyTheorem` | `RepliesMatchQueue` | `ReplyInv` |
| `ClosedStaysClosedTheorem` | `ClosedStaysClosed` | `ClosedInv` |
| `HeldOnceTheorem` | `HeldOnce` | `HeldInv` |
| `AtMostOnceTheorem` | `AtMostOnce` | `RunInv` |
| `ResolvedIsDoneTheorem` | `ResolvedIsDone` | from `HeldInv` and `ReplyInv` |
| `RunsInRecordedDbTheorem` | `RunsInRecordedDb` | `TimeInv`, `StepInv` |
| `PipelineInOrderTheorem` | `PipelineInOrder` | `OrderInv` |

* **Types.** The only relation between variables is that `reconnectTimeout` is set
  only if a timer is pending, which makes `timers - 1` a natural number in
  `disconnect()`.
* **Status.** `LifecycleInv` adds to `SocketMatchesStatus` the ranges of the two
  variables, needed because `_connect` refuses by listing statuses (`MayConnect`), so
  that what remains must be known. The invariant is then a matter of the abstract
  specification only.
* **Replies.** When a connection opens, the listener is attached to whatever is on
  the wire. `ReplyInv` adds that without an open socket nobody listens and
  nothing is on the wire. An answer moves the head of `sent` to the end of
  `replies`, and a reply that is read takes the head of the queue along, without
  disturbing the pairing in between.
* **Closing.** A closed client may still have a connection, or one in the making.
  `ClosedInv` says that `manuallyClosing` is then set, and that there are no more
  timers than `reconnectTimeout` refers to. Hypothesis: the application does not call
  `connect()` in `reconnecting`. With it there can be two timers (section 3, *Also
  visible*).
* **Held once.** The queues are aliased, swapped and partly dropped, and what makes it
  right is spread over the handlers. `HeldInv` has which queue may be which
  (`QueueShapes`: between connections the previous queue is the command queue itself,
  or the command queue has only a handshake, which may be dropped; a ready client
  has replayed it), that no two queues share a command (`Apart`), and that who waits is
  held (`Accounted`). `readyHandler` is a chain of replays, each of which may put a
  command into the queue it is being taken from if the stream cannot be written
  (`ReplayStays`); the lemmas about `ReplayFirst` to `ReplayLast` carry the
  invariant through it.
* **At most once, done once resolved.** Without automatic resending a command may be
  sent again only if the server refused it (`reconnectOnError` answering 2), or
  if it never was sent. `RunInv`: what may still be run was not run, and is in one of
  three places, the wire, the offline queue or among the refusals on their way.
  With automatic resending a command may run twice, but not once its caller has
  got its reply: it has then left every queue, and no handler puts it back.
* **Databases.** `StepInv`: on a connection that is written to, what is on the wire is a
  *chain*. Each command finds the database recorded for it, and the last
  leaves the one `condition.select` records. The exception is a handshake. Before
  HELLO has been run the chain starts at its database, and after it was refused
  there is no chain, but then nothing of the application other than SELECT and INFO
  is on the wire, and the client closes the connection before it becomes ready.
  That it does rests on `TimeInv`: whatever is left of an earlier attempt
  carries a smaller `epoch`, so that no late success of that one lets a refused
  handshake through. Hypothesis: no pipeline of several commands has a SELECT
  (section 3, *Also visible*).
* **Pipelines.** A loss may cut a pipeline on the wire, and its second half is then all
  that waits in the command queue. `OrderInv`: in every queue a command that is not the
  first of its pipeline is right behind the one before it (`InOrder`); the offline queue
  and the previous one have no pipeline without its beginning (`Whole`), while the
  command queue and the wire may; and where the wire goes on in the middle of a
  pipeline, the server has just run the command before (`GoesOn`).
  `abortIncompletePipelines` leaves only whole pipelines of the command queue
  (`AbortedWhole`): the index it expects grows by one with the `pipelineIndex`, so that it
  keeps a command only if it keeps the one before. `abortTransactionFragments` leaves
  whole pipelines alone, as the MULTI of each transaction is ahead of it
  (`FragmentsWhole`). `readyHandler` may put a SELECT between any two commands, but
  not into a pipeline, since `OrderInv` says as well that each of its
  commands is recorded in the database that the one before leaves (`ResendWhole`).
  Hypotheses: see the table above.

### The other modules

| Theorem | Of | Inductive invariant |
|---|---|---|
| `PipelineProofs!TypeOKTheorem`, `WritesNotRepeatedTheorem`, `OwnResultsTheorem` | `TypeOK`, `WritesNotRepeated`, `OwnResults` | `PipeInv` |
| `PubSubProofs!NothingMisdeliveredTheorem` | `NothingMisdelivered` | `PairInv` |
| `PubSubProofs!InSyncTheorem` | `InSync` | `SyncInv` |
| `ClusterProofs!HeldOnceTheorem`, `RedirectionsTheorem` | `HeldOnce`, `RedirectionsBounded` | `CommandsInv` |
| `ClusterProofs!WaitersTheorem` | `WaitersAreWoken` | `WakeInv` |
| `ClusterSubscriberProofs!NothingForgottenTheorem` | `NothingForgotten` | `SelectionInv` |
| `ShardedSubscribersProofs!FailuresTheorem` | `FailuresAreNoticed` | `NoticeInv` |
| `HimportProofs!BeliefIsRightTheorem`, `OnlyDisturbedSetsFailTheorem` | `BeliefIsRight`, `OnlyDisturbedSetsFail` | `HimportInv` |

* **Pipeline.** Replies come from one node in order, but a pipeline is told of a reply
  by the position it had when it was sent, and its queue is rebuilt in between. `PipeInv`
  is made of what each step disturbs one of. `Fine`, of each pipeline: its queue has one of four
  shapes (the calls, ASKING before each of them, or a transaction with or without an ASKING);
  what it has received is a prefix of it, each result is an error or answers the
  command at its position, and a call whose success was read has it there (`Told`). A
  pipeline that is put off has no such call (`Rest`), which is why it may be sent again:
  `fillResult` goes back only with an error in every place, or for a
  transaction with EXEC unsuccessful. `PlacesOK`, of the queues: all a
  pipeline waits for is in one place, in order, so that the queue is rebuilt only when
  nothing of it is under way. `CallsOK`: no call is in two pipelines. The remaining
  parts say that nothing is sent before the slots are known, and that the
  pipelines being filled are the ones the table has. One `exec()` may occur in eight
  actions, with a pipeline in hand that is not in order yet; `ExecWhole` is about
  pipelines that are in order *apart from* one (`Aside`, `Apart`), and so are the
  lemmas about `Complete`. The end of a connection or of the cluster moves any number
  of commands: the queues of all places may be permuted and concatenated
  as long as each pipeline stays in one piece.
* **PubSub.** A reply names no command, and how many frames a command takes is known only
  by counting. `PairInv`: there is a *run*, a queue and a set of subscriptions
  for each frame on the wire, in which each frame does what the handler of the client would
  do with it (`Reads`), from the client's queue and subscriptions to the
  server's subscriptions and the commands it has not read yet. Reading a frame drops the
  beginning of the run, answering a command extends it at the end (`RunConcat`), and
  issuing one appends to every queue of it (`RunSends`). That the handlers of the two
  protocols, which look at different things, do what `Reads` says is one lemma for
  each of them. `SyncInv` adds that what is queued turns what the
  client counts into what the application wants (`After`), over the previous and the offline
  queue while there is no connection, and that the confirmations the head of the queue has
  had are applied (`PartDone`). The run of `PairInv` is an
  existential statement over functions into queues, which TLC cannot enumerate: of `SyncInv`,
  TLC has checked the second conjunct and the types, and of `PairInv` what it implies.
* **Cluster.** `HeldOnce` counts places (positions of queues, pairs of a command and a
  node), which a proof can hardly add up. `CommandsInv` states for each command that
  it waits in one queue, or is under way to one node, exactly while it is pending, and
  `OnePlace` turns this into the number. `RedirectionsBounded` needs to know how often
  a command may have been sent for what is left of its `ttl`, and once more if it is
  under way (`WithinBudget`): a redirection uses up one, a loss of the connection uses
  up one, and a command that waits in a queue has none under way. One step may settle or
  queue any number of commands, those of a lost connection; `ClosedKeeps`,
  `ExecuteKeeps` and `CloseEventKeeps` are about what the handlers do to all of them.
  `WakeInv` adds that a bucket that waits for a refresh is among those it calls back.
* **ClusterSubscriber.** `SelectionInv`: an instance that does not count as active
  is being given the channels of the last one that did (`ActiveHasAll`).
* **ShardedSubscribers.** What ends a subscriber emits a notice: a refresh with a callback of
  the group, a delay that begins one, or both. A refresh that succeeds ends in `Reset`, which
  leaves no subscriber that has ended, or is put off; one that fails disconnects the cluster,
  and so does a delay that finds no node to ask. `NoticeInv` adds to
  `FailuresAreNoticed` the types (`GroupTypes`, `Clusters`), and that a cluster without nodes
  has no subscribers and no reset that would make some (`StoppedWithoutNodes`): a notice
  that is spent there has nobody to replace.
* **Himport.** The functions of the coordinator are operators from client to client, and
  `Good` is stated of a client, the SETs to except, and what is known of the server, so
  that it can be carried from one to the next within an action. The PREPAREs are
  numbered (`Numbered`); no PREPARE that could settle the entry is ahead
  of a RESET on the wire (`Unspoilt`); nothing is discarded behind a SET that must
  not fail (`Undiscarded`), and once it was answered "no such fieldset" nothing is at
  all, and it is sent only to a server that has the fieldset (`Recovering`): one
  recovery is enough.

`SequenceFacts` has what the provers lack about sequences: that flattening sequences of
items yields items (the community modules define `FlattenSeq` by partial sums), and
the elements of sequences without repetition.

### Only model-checked

* Liveness: fairness and ENABLED are out of the prover's reach.
* What `RespDecoder`, `Command` and `Exchange` compute: they follow recursive data with
  RECURSIVE operators, and need induction over data. This includes
  `DecodesWhatWasSent`, `RequestsAreRead`, `SameForBothProtocols`, and, as they are
  in a module with such operators, `SilenceIsNoticed`, `WaitsAreBounded` and
  `ScriptsAreFound`.
* `Sentinel`: its only property is liveness.

## 5. Plan

Done: all modules of section 2, and the theorems of section 4. What remains, in this order:

1. MONITOR: the status changes in a promise callback, one turn after the OK, while
   lines may follow in the same chunk (`event_handler.ts:448-452`,
   `DataHandler.ts:343-355`).
2. Replicas (`scaleReads`) in `Cluster` and `Pipeline`; `disconnect()` in
   `Sentinel`; redirections of HIMPORT commands.

## 6. Not modelled, and why

* `RedisCommander.ts`, the types and the option declarations: generated or
  without state.
* Tracing, debugging, TLS profiles, `utils/` other than what `Command` has: no
  control of their own.
* `ScanStream`: a loop over one cursor with one command at a time.
* `duplicate()`: makes an independent client. MONITOR: a mode of one connection,
  left for later.
* `natMap`, SRV records, `scaleReads`, a `preferredSlaves` given as a function:
  choose an address among several; which one does not matter to the properties.
* Sets, Maps, BigInts and verbatim formats as JavaScript values: mappings of the
  decoder that ioredis does not use.
* Timing other than of `Exchange`: a timer may fire at any time once set.
* What several servers agree on: the cluster and the sentinels are the
  environment, and answer what their configuration says.
