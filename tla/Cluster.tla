-------------------------------- MODULE Cluster --------------------------------
(***************************************************************************)
(* The cluster client: lib/cluster/index.ts with ConnectionPool.ts and     *)
(* DelayQueue.ts.                                                          *)
(*                                                                         *)
(* A node of the pool is a whole Redis client that does not reconnect      *)
(* (clusterNodeRetryStrategy is not set): it is made without a connection, *)
(* connects with its first command, and ends once.  From its removal from  *)
(* the pool to its "end" event an instance is dying, and still reads       *)
(* replies.  There is one hash slot; the other members of the cluster      *)
(* serve slots no command is about.                                        *)
(*                                                                         *)
(* Left out: replicas (scaleReads), subscribers, HIMPORT,                  *)
(* retryDelayOnMoved, enableReadyCheck = false, enableOfflineQueue = false *)
(* and natMap.                                                             *)
(***************************************************************************)
EXTENDS Integers, Sequences, FiniteSets, SequencesExt

CONSTANTS
  Commands, Info,        \* the application's commands, and CLUSTER INFO of the ready check
  Nodes, NoNode,
  StartupNodes,
  LazyConnect,
  RefreshInterval,       \* is slotsRefreshInterval set
  MaxRedirections,
  RetryLimit,            \* after how many attempts clusterRetryStrategy gives up
  Stragglers,              \* may instances that were disconnected together end apart, and
                         \* redirections be read while the client closes
  HostNames,             \* are startup nodes given by name: is there anything to resolve
  DisconnectFrom,        \* the statuses in which the application disconnects or quits
  MaxCalls,              \* bound: calls of connect(), disconnect() and quit()
  MaxFaults              \* bound: lost nodes, changes of the cluster, error replies

Statuses == {"wait", "connecting", "connect", "ready", "disconnecting", "close",
             "reconnecting", "end"}
Buckets == {"tryagain", "clusterdown", "failover"}
NoTtl == -1

ASSUME ClusterAssumption ==
  /\ Info \notin Commands /\ NoNode \notin Nodes
  /\ StartupNodes \in (SUBSET Nodes) \ {{}}
  /\ LazyConnect \in BOOLEAN /\ RefreshInterval \in BOOLEAN
  /\ Stragglers \in BOOLEAN /\ HostNames \in BOOLEAN
  /\ MaxRedirections \in Nat /\ RetryLimit \in Nat
  /\ DisconnectFrom \subseteq Statuses
  /\ MaxCalls \in Nat /\ MaxFaults \in Nat

VARIABLES
  \* fields of Cluster
  status, manuallyClosing, retryAttempts,
  timerHandle,       \* reconnectTimeout is not null
  slotsTimer,        \* "none", "pending", "fired" (and not replaced yet)
  slots,             \* the node that serves the slot, or NoNode
  offlineQueue,
  isRefreshing, untried, callbacks,   \* refreshSlotsCache
  queues, timeouts,  \* DelayQueue
  pool,              \* for each node its instance: "none", "wait", "live", "quitting"
  \* what is under way
  resolving,         \* connect() waits for host names: this attempt, and older ones
  unrefreshed, refreshed,  \* attempts whose listeners wait for "refresh"; for "close" alone
  timers,            \* pending reconnection timers
  closeEvents,       \* "close" events to be emitted on the next tick
  dying,             \* for each node how many instances have still to end
  unopened,          \* nodes of which one had not connected yet: it ends at once
  inflight, dyingInflight,  \* what was sent to the instance in the pool, to dying ones
  asked,             \* commands sent after ASKING
  direct,            \* the last send was made by the closure that handles the errors
  ttl,
  \* the cluster
  owner, members,
  \* history
  outcome, sends, wantsOpen, calls, faults,
  disturbed          \* something happened that nobody was ready for: the pool was drained
                     \* with no listener, or was empty when the client was closed, or a
                     \* redirection gave a closing client a new node

lifecycle == <<status, manuallyClosing, retryAttempts, timerHandle, resolving, unrefreshed,
               refreshed, timers, closeEvents>>
refresh == <<isRefreshing, untried, callbacks>>
delays == <<queues, timeouts>>
nodes == <<pool, dying, unopened, inflight, dyingInflight>>
errors == <<ttl, direct, asked>>
topology == <<owner, members>>
bounds == <<wantsOpen, calls, faults>>
vars == <<lifecycle, slotsTimer, slots, offlineQueue, refresh, delays, nodes, errors, topology, disturbed,
          outcome, sends, bounds>>

------------------------------------------------------------------------------
InPool == {n \in Nodes : pool[n] # "none"}
NoCommands == [n \in Nodes |-> {}]

\* Events of the next tick come before anything else.
Idle ==
  /\ closeEvents = 0 /\ unopened = {}
  /\ HostNames \/ ~resolving.current

Fault == faults < MaxFaults /\ faults' = faults + 1
Call == calls < MaxCalls /\ calls' = calls + 1

Closing == status \in {"disconnecting", "close", "end"}

Settle(cs) == outcome' = [c \in Commands |-> IF c \in cs THEN "settled" ELSE outcome[c]]

------------------------------------------------------------------------------
(* ConnectionPool.                                                           *)

\* Instances of the nodes in R leave the pool, and those in A are made.
PoolAfter(R, A) ==
  [n \in Nodes |-> IF n \in A /\ (n \in R \/ pool[n] = "none") THEN "wait"
                   ELSE IF n \in R THEN "none" ELSE pool[n]]
InflightAfter(R) == [n \in Nodes |-> IF n \in R THEN {} ELSE inflight[n]]

\* The instances that left are dying, with what was sent to them.
Leave(R) ==
  /\ unopened' = unopened \cup {n \in R : pool[n] = "wait"}
  /\ dying' = [n \in Nodes |-> IF n \in R /\ pool[n] # "none" THEN dying[n] + 1 ELSE dying[n]]
  /\ dyingInflight' = [n \in Nodes |->
       IF n \in R THEN dyingInflight[n] \cup inflight[n] ELSE dyingInflight[n]]

\* ConnectionPool#reset.
Reset(ns) ==
  /\ pool' = PoolAfter(Nodes \ ns, ns)
  /\ inflight' = InflightAfter(Nodes \ ns)
  /\ Leave(Nodes \ ns)

------------------------------------------------------------------------------
(* Close events.                                                             *)

\* Mutant: the offline queue is not flushed.
HandleCloseEvent_NoFlush(k) ==
  LET attempts == IF manuallyClosing' THEN retryAttempts ELSE retryAttempts + k
      ended == manuallyClosing' \/ attempts > RetryLimit
  IN  /\ retryAttempts' = attempts
      /\ status' = IF ended THEN "end" ELSE "reconnecting"
      /\ timers' = timers + IF ended THEN 0 ELSE k
      /\ timerHandle' = (~ended \/ timerHandle)
      /\ UNCHANGED <<outcome, offlineQueue>>

\* handleCloseEvent, called k times in a row (once for each attempt that listens).
HandleCloseEvent(k) ==
  LET attempts == IF manuallyClosing' THEN retryAttempts ELSE retryAttempts + k
      ended == manuallyClosing' \/ attempts > RetryLimit
      granted == IF manuallyClosing' THEN 0
                 ELSE Cardinality({i \in 1..k : retryAttempts + i <= RetryLimit})
  IN  /\ retryAttempts' = attempts
      /\ status' = IF ended THEN "end" ELSE "reconnecting"
      /\ timers' = timers + granted
      /\ timerHandle' = (granted > 0 \/ timerHandle)
      /\ IF ended THEN Settle(ToSet(offlineQueue)) /\ offlineQueue' = <<>>
                  ELSE UNCHANGED <<outcome, offlineQueue>>

\* The "close" event: closeListener and handleCloseEvent of every attempt.  Instances
\* disconnected together have ended by then, or not.
EmitClose ==
  /\ closeEvents > 0 /\ closeEvents' = closeEvents - 1
  /\ unopened = {}
  /\ Stragglers \/ \A n \in Nodes : dying[n] = 0
  /\ unrefreshed' = 0 /\ refreshed' = 0
  /\ UNCHANGED manuallyClosing
  /\ IF unrefreshed + refreshed > 0 THEN HandleCloseEvent(unrefreshed + refreshed)
     ELSE UNCHANGED <<retryAttempts, status, timers, timerHandle, outcome, offlineQueue>>
  /\ UNCHANGED <<resolving, slotsTimer, slots, refresh, delays, nodes, errors, topology, disturbed, sends, bounds>>

------------------------------------------------------------------------------
(* connect(), disconnect(), quit().                                          *)

MayConnect == status \notin {"connecting", "connect", "ready"}

\* connect() as far as its first await.
StartConnecting ==
  /\ status' = "connecting"
  /\ resolving' = [current |-> TRUE,
                   stale |-> IF resolving.current THEN resolving.stale + 1 ELSE resolving.stale]

Connect ==
  /\ Idle /\ Call /\ MayConnect
  /\ wantsOpen' = TRUE
  /\ StartConnecting
  /\ UNCHANGED <<manuallyClosing, retryAttempts, timerHandle, unrefreshed, refreshed, timers, closeEvents,
                 slotsTimer, slots, offlineQueue, refresh, delays, nodes, errors, topology, disturbed,
                 outcome, sends, faults>>

ReconnectTimer ==
  /\ Idle /\ timers > 0 /\ timers' = timers - 1
  /\ timerHandle' = FALSE
  /\ IF MayConnect THEN StartConnecting ELSE UNCHANGED <<status, resolving>>
  /\ UNCHANGED <<manuallyClosing, retryAttempts, unrefreshed, refreshed, closeEvents, slotsTimer,
                 slots, offlineQueue, refresh, delays, nodes, errors, topology, disturbed, outcome, sends,
                 bounds>>

\* The startup nodes are known.
Resolved ==
  /\ closeEvents = 0 /\ unopened = {}
  /\ resolving.current /\ resolving' = [resolving EXCEPT !.current = FALSE]
  /\ IF status = "connecting"
     THEN /\ Reset(StartupNodes)
          /\ unrefreshed' = unrefreshed + 1
          /\ callbacks' = callbacks \cup {"connect"}
          /\ isRefreshing' = TRUE
          /\ untried' = IF isRefreshing THEN untried ELSE StartupNodes
     ELSE UNCHANGED <<nodes, unrefreshed, refresh>>
  /\ UNCHANGED <<status, manuallyClosing, retryAttempts, timerHandle, refreshed, timers, closeEvents,
                 slotsTimer, slots, offlineQueue, delays, errors, topology, disturbed, outcome, sends, bounds>>

\* connect().catch, which looks neither at the status nor at the attempt.
ResolveFails ==
  /\ Idle /\ HostNames /\ Fault
  /\ \/ resolving.current /\ resolving' = [resolving EXCEPT !.current = FALSE]
     \/ resolving.stale > 0 /\ resolving' = [resolving EXCEPT !.stale = @ - 1]
  /\ closeEvents' = closeEvents + 1
  /\ UNCHANGED manuallyClosing
  /\ HandleCloseEvent(1)
  /\ UNCHANGED <<unrefreshed, refreshed, slotsTimer, slots, refresh, delays, nodes, errors, topology, disturbed, sends,
                 wantsOpen, calls>>

\* An attempt that was overtaken resolves its host names.
ResolvedLate ==
  /\ Idle /\ resolving.stale > 0 /\ resolving' = [resolving EXCEPT !.stale = @ - 1]
  /\ UNCHANGED <<status, manuallyClosing, retryAttempts, timerHandle, unrefreshed, refreshed, timers,
                 closeEvents, slotsTimer, slots, offlineQueue, refresh, delays, nodes, errors,
                 topology, disturbed, outcome, sends, bounds>>

ClearTimer ==
  /\ timers' = IF timerHandle THEN timers - 1 ELSE timers
  /\ timerHandle' = FALSE

\* disconnect(true), when status is not "wait".
DisconnectToReconnect ==
  /\ status' = "disconnecting"
  /\ slotsTimer' = "none"
  /\ Reset({})

Disconnect(reconnect) ==
  /\ Idle /\ Call /\ status \in DisconnectFrom
  /\ wantsOpen' = (reconnect /\ (wantsOpen \/ status = "wait"))
  /\ manuallyClosing' = (manuallyClosing \/ ~reconnect)
  /\ disturbed' = (disturbed \/ (status # "wait" /\ InPool = {}))
  /\ IF status = "wait"
     THEN /\ closeEvents' = closeEvents + 1
          /\ HandleCloseEvent(1)
          /\ UNCHANGED <<slotsTimer, nodes>>
     ELSE /\ DisconnectToReconnect
          /\ IF reconnect THEN UNCHANGED <<timers, timerHandle>> ELSE ClearTimer
          /\ UNCHANGED <<closeEvents, retryAttempts, outcome, offlineQueue>>
  /\ UNCHANGED <<resolving, unrefreshed, refreshed, slots, refresh, delays, errors, topology, sends, faults>>

\* (In status "wait" quit() does what disconnect() does.)
Quit ==
  /\ Idle /\ Call /\ status \in DisconnectFrom \ {"wait"}
  /\ wantsOpen' = FALSE /\ manuallyClosing' = TRUE
  /\ disturbed' = (disturbed \/ InPool = {})
  /\ status' = "disconnecting"
  /\ slotsTimer' = "none"
  /\ ClearTimer
  /\ pool' = [n \in Nodes |-> IF pool[n] = "none" THEN "none" ELSE "quitting"]
  /\ UNCHANGED <<retryAttempts, resolving, unrefreshed, refreshed, closeEvents, slots, offlineQueue,
                 refresh, delays, dying, unopened, inflight, dyingInflight, errors, topology, outcome, sends,
                 faults>>

------------------------------------------------------------------------------
(* Sending.                                                                  *)

\* tryConnection: the instances a command may be given to.  A key whose instance is gone
\* is undefined, and any instance is taken.
Targets(random, pl) ==
  LET known == {n \in Nodes : pl[n] # "none"}
  IN  IF random \/ slots \notin known THEN known ELSE {slots}

\* The commands in cs are sent, each to one of ts, or join the queue if there is none;
\* pl and inf are the pool and what is in flight in it, queue the offline queue.
Send(cs, ts, pl, inf, queue) ==
  IF ts = {}
  THEN /\ offlineQueue' = queue \o SetToSeq(cs)
       /\ pool' = pl /\ inflight' = inf
       /\ UNCHANGED sends
  ELSE \E to \in [cs -> ts] :
         LET sentTo(n) == {c \in cs : to[c] = n}
         IN  /\ inflight' = [n \in Nodes |-> inf[n] \cup sentTo(n)]
             /\ pool' = [n \in Nodes |->
                  IF sentTo(n) # {} /\ pl[n] = "wait" THEN "live" ELSE pl[n]]
             /\ sends' = [c \in Commands |-> IF c \in cs THEN sends[c] + 1 ELSE sends[c]]
             /\ offlineQueue' = queue

IssueAfterEnd(c) ==
  /\ Idle /\ outcome[c] = "idle" /\ status = "end"
  /\ outcome' = [outcome EXCEPT ![c] = "settled"]
  /\ UNCHANGED <<lifecycle, slotsTimer, slots, offlineQueue, refresh, delays, nodes, errors, topology, disturbed,
                 sends, bounds>>

Issue(c) ==
  /\ Idle /\ outcome[c] = "idle" /\ status # "end"
  /\ outcome' = [outcome EXCEPT ![c] = "pending"]
  /\ IF status = "wait" THEN StartConnecting /\ wantsOpen' = TRUE
     ELSE UNCHANGED <<status, resolving, wantsOpen>>
  /\ Send({c}, IF status = "ready" THEN Targets(FALSE, pool) ELSE {}, pool, inflight, offlineQueue)
  /\ direct' = [direct EXCEPT ![c] = TRUE]
  /\ UNCHANGED <<manuallyClosing, retryAttempts, timerHandle, unrefreshed, refreshed, timers, closeEvents,
                 slotsTimer, slots, refresh, delays, dying, unopened, dyingInflight, ttl, asked, topology, disturbed,
                 calls, faults>>

------------------------------------------------------------------------------
(* refreshSlotsCache.                                                        *)

\* Mutant: the queue of a bucket is run and kept.
Execute_Keeps(bs, pl, inf) ==
  LET run == UNION {ToSet(queues[b]) : b \in bs}
  IN  /\ timeouts' = [b \in Buckets |-> IF b \in bs THEN "none" ELSE timeouts[b]]
      /\ UNCHANGED <<queues, direct, outcome>>
      /\ Send(run, IF status' = "ready" THEN Targets(TRUE, pl) ELSE {}, pl, inf, offlineQueue)

\* DelayQueue#execute of the buckets bs: what was delayed is tried again on any node.
Execute(bs, pl, inf) ==
  LET run == UNION {ToSet(queues[b]) : b \in bs}
  IN  /\ timeouts' = [b \in Buckets |-> IF b \in bs THEN "none" ELSE timeouts[b]]
      /\ queues' = [b \in Buckets |-> IF b \in bs THEN <<>> ELSE queues[b]]
      /\ direct' = [c \in Commands |-> direct[c] \/ c \in run]
      /\ IF status' = "end"
         THEN /\ Settle(run)
              /\ pool' = pl /\ inflight' = inf
              /\ UNCHANGED <<offlineQueue, sends>>
         ELSE /\ Send(run, IF status' = "ready" THEN Targets(TRUE, pl) ELSE {}, pl, inf, offlineQueue)
              /\ UNCHANGED outcome

\* The wrapper: every callback is called, whether the refresh failed or not.
Called(cbs, pl, inf) ==
  /\ isRefreshing' = FALSE /\ untried' = {} /\ callbacks' = {}
  /\ slotsTimer' = IF "interval" \in cbs THEN "pending" ELSE slotsTimer
  /\ Execute(cbs \cap Buckets, pl, inf)

\* Mutant: a refresh that is stopped does not call back.
RefreshStopped_Silent ==
  /\ Idle /\ isRefreshing /\ Closing /\ untried # {}
  /\ untried' = {}
  /\ UNCHANGED <<lifecycle, slotsTimer, slots, offlineQueue, isRefreshing, callbacks, delays, nodes, errors,
                 topology, disturbed, outcome, sends, bounds>>

\* A node answers, or does not, when the client is closed.
RefreshStopped ==
  /\ Idle /\ isRefreshing /\ Closing
  /\ UNCHANGED status
  /\ Called(callbacks, pool, inflight)
  /\ UNCHANGED <<manuallyClosing, retryAttempts, timerHandle, resolving, unrefreshed, refreshed, timers,
                 closeEvents, slots, dying, unopened, dyingInflight, ttl, asked, topology, disturbed, bounds>>

\* No CLUSTER SLOTS from node n, by an error or by slotsRefreshTimeout; the next one is
\* tried.  After the last one, connect()'s callback resets the pool.
RefreshError(n) ==
  /\ Idle /\ isRefreshing /\ ~Closing
  /\ n \in untried /\ Fault
  /\ IF untried # {n}
     THEN /\ untried' = untried \ {n}
          /\ UNCHANGED <<isRefreshing, callbacks, slotsTimer, delays, direct, pool, inflight, dying,
                         unopened, dyingInflight, offlineQueue, sends, outcome, status>>
     ELSE /\ UNCHANGED status
          /\ IF "connect" \in callbacks
             THEN Leave(Nodes) /\ Called(callbacks, PoolAfter(Nodes, {}), NoCommands)
             ELSE UNCHANGED <<dying, unopened, dyingInflight>> /\ Called(callbacks, pool, inflight)
  /\ UNCHANGED <<manuallyClosing, retryAttempts, timerHandle, resolving, unrefreshed, refreshed, timers,
                 closeEvents, slots, ttl, asked, topology, disturbed, wantsOpen, calls>>

\* Node n answers.  "refresh" is emitted: the attempts that wait for it are connected and
\* send a ready check.
RefreshDone(n) ==
  /\ Idle /\ isRefreshing /\ ~Closing
  /\ n \in untried
  /\ slots' = owner
  /\ Leave(Nodes \ members)
  /\ refreshed' = refreshed + unrefreshed /\ unrefreshed' = 0
  /\ IF unrefreshed = 0
     THEN /\ UNCHANGED <<status, manuallyClosing>>
          /\ Called(callbacks, PoolAfter(Nodes \ members, members), InflightAfter(Nodes \ members))
     ELSE /\ status' = "connect" /\ manuallyClosing' = FALSE
          /\ \E m \in members :
               Called(callbacks,
                      [PoolAfter(Nodes \ members, members) EXCEPT ![m] = IF @ = "wait" THEN "live" ELSE @],
                      [InflightAfter(Nodes \ members) EXCEPT ![m] = @ \cup {Info}])
  /\ UNCHANGED <<retryAttempts, timerHandle, resolving, timers, closeEvents, ttl, asked, topology, disturbed,
                 bounds>>

\* Mutant: a callback that comes while a refresh runs is dropped.
Refresh_Drops(waiting, pl) ==
  /\ isRefreshing' = TRUE
  /\ untried' = IF isRefreshing THEN untried ELSE {n \in Nodes : pl[n] # "none"}
  /\ callbacks' = IF isRefreshing THEN callbacks ELSE callbacks \cup waiting

\* refreshSlotsCache(callback), when somebody is there to ask: waiting is the callback.
Refresh(waiting, pl) ==
  /\ isRefreshing' = TRUE
  /\ untried' = IF isRefreshing THEN untried ELSE {n \in Nodes : pl[n] # "none"}
  /\ callbacks' = callbacks \cup waiting

SlotsTimer ==
  /\ Idle /\ slotsTimer = "pending"
  /\ IF isRefreshing \/ InPool # {}
     THEN Refresh({"interval"}, pool) /\ slotsTimer' = "fired"
     ELSE UNCHANGED <<refresh, slotsTimer>>
  /\ UNCHANGED <<lifecycle, slots, offlineQueue, delays, nodes, errors, topology, disturbed, outcome, sends, bounds>>

------------------------------------------------------------------------------
(* Instances that end.                                                       *)

\* Mutant: the countdown starts again with every error.
CountDown_Restarts(c) == MaxRedirections

CountDown(c) == IF ttl[c] = NoTtl THEN MaxRedirections ELSE ttl[c] - 1

\* handleError, for commands whose connection was closed.
ConnectionClosed(cs) ==
  LET again == {c \in cs : status = "ready" /\ CountDown(c) > 0}
  IN  /\ ttl' = [c \in Commands |-> IF c \in cs THEN CountDown(c) ELSE ttl[c]]
      /\ Settle(cs \ again)
      /\ queues' = [queues EXCEPT !["failover"] = @ \o SetToSeq(again)]
      /\ asked' = asked \ cs
      /\ timeouts' = [timeouts EXCEPT !["failover"] = IF again # {} /\ @ = "none" THEN "pending" ELSE @]

\* A ready check that was in flight fails, and disconnects.
CheckLost(cs) == Info \in cs /\ status = "connect"
DisconnectedWith(n, cs) == IF CheckLost(cs) THEN InPool \ {n} ELSE {}

\* The next "close" has no listener: that of the last connection was emitted already, and
\* the next attempt does not listen yet.  (In "reconnecting" a timer goes on.)
Unheard == unrefreshed + refreshed = 0 /\ status # "reconnecting"

\* Mutant: "drain" is not emitted when the last instance was disconnected by the client.
Ended_NoDrain(pl, cs, left) ==
  LET drained == left /\ pl = {} /\ InPool # {}
  IN  /\ ConnectionClosed(cs \ {Info})
      /\ closeEvents' = IF drained THEN closeEvents + 1 ELSE closeEvents
      /\ status' = IF drained THEN "close" ELSE IF CheckLost(cs) THEN "disconnecting" ELSE status
      /\ slotsTimer' = IF CheckLost(cs) /\ ~drained THEN "none" ELSE slotsTimer
      /\ disturbed' = (disturbed \/ (drained /\ Unheard))

\* An instance with cs in flight ended and, if it was in the pool or nothing took its
\* place, left the pool with pl: "drain" if it is empty.
Ended(pl, cs, left) ==
  LET drained == left /\ pl = {}
  IN  /\ ConnectionClosed(cs \ {Info})
      /\ closeEvents' = IF drained THEN closeEvents + 1 ELSE closeEvents
      /\ status' = IF drained THEN "close" ELSE IF CheckLost(cs) THEN "disconnecting" ELSE status
      /\ slotsTimer' = IF CheckLost(cs) /\ ~drained THEN "none" ELSE slotsTimer
      /\ disturbed' = (disturbed \/ (drained /\ Unheard))

\* The connection of an instance in the pool ends: it is lost, or its QUIT was answered.
NodeEnds(n) ==
  /\ Idle /\ pool[n] \in {"live", "quitting"}
  /\ Ended(InPool \ {n}, inflight[n], TRUE)
  /\ LET R == DisconnectedWith(n, inflight[n])
     IN  /\ pool' = [PoolAfter(R, {}) EXCEPT ![n] = "none"]
         /\ inflight' = [InflightAfter(R) EXCEPT ![n] = {}]
         /\ Leave(R)
  /\ UNCHANGED <<manuallyClosing, retryAttempts, timerHandle, resolving, unrefreshed, refreshed, timers,
                 slots, offlineQueue, refresh, direct, topology, sends, wantsOpen, calls>>

NodeLost(n) == Fault /\ NodeEnds(n)
NodeQuits(n) == pool[n] = "quitting" /\ UNCHANGED faults /\ NodeEnds(n)

\* The end listener of an instance that is no longer in the pool does nothing if the
\* node has a new one.
DyingEnds(n) ==
  /\ dying[n] > 0
  /\ unopened # {} => n \in unopened
  /\ \E cs \in SUBSET dyingInflight[n] :
       /\ n \in unopened => cs = {}
       /\ dying[n] = 1 => cs = dyingInflight[n]
       /\ Ended(InPool, cs, pool[n] = "none")
       /\ LET R == IF CheckLost(cs) THEN InPool ELSE {}
          IN  /\ pool' = PoolAfter(R, {})
              /\ inflight' = InflightAfter(R)
              /\ unopened' = (unopened \ {n}) \cup {m \in R : pool[m] = "wait"}
              /\ dying' = [m \in Nodes |-> (IF m \in R THEN dying[m] + 1 ELSE dying[m])
                                           - (IF m = n THEN 1 ELSE 0)]
              /\ dyingInflight' = [m \in Nodes |-> (IF m = n THEN dyingInflight[m] \ cs ELSE dyingInflight[m])
                                                   \cup (IF m \in R THEN inflight[m] ELSE {})]
  /\ UNCHANGED <<manuallyClosing, retryAttempts, timerHandle, resolving, unrefreshed, refreshed, timers,
                 slots, offlineQueue, refresh, direct, topology, sends, bounds>>

------------------------------------------------------------------------------
(* Replies.  dead tells whether the instance that answers has left the pool. *)

InFlight(c, n, dead) == c \in IF dead THEN dyingInflight[n] ELSE inflight[n]

\* What is in flight without c, which node n answered.
Taken(inf, c, n) == [inf EXCEPT ![n] = @ \ {c}]
TakenIf(condition, inf, c, n) == IF condition THEN Taken(inf, c, n) ELSE inf

\* readyHandler, whatever the status is by now.
CheckOk(n, dead) ==
  /\ Idle /\ InFlight(Info, n, dead)
  /\ status' = "ready" /\ retryAttempts' = 0
  /\ slotsTimer' = IF RefreshInterval /\ slotsTimer = "none" THEN "pending" ELSE slotsTimer
  /\ dyingInflight' = TakenIf(dead, dyingInflight, Info, n)
  /\ Send(ToSet(offlineQueue), Targets(FALSE, pool), pool, TakenIf(~dead, inflight, Info, n), <<>>)
  /\ direct' = [c \in Commands |-> direct[c] /\ c \notin ToSet(offlineQueue)]
  /\ UNCHANGED <<manuallyClosing, timerHandle, resolving, unrefreshed, refreshed, timers,
                 closeEvents, slots, refresh, delays, dying, unopened, ttl, asked, topology, disturbed, outcome, bounds>>

\* An error, or cluster_state:fail.
CheckFails(n, dead) ==
  /\ Idle /\ InFlight(Info, n, dead) /\ Fault
  /\ LET inf == TakenIf(~dead, inflight, Info, n)
         dyingInf == TakenIf(dead, dyingInflight, Info, n)
     IN  IF status = "connect"
         THEN /\ status' = "disconnecting" /\ slotsTimer' = "none"
              /\ pool' = PoolAfter(Nodes, {}) /\ inflight' = NoCommands
              /\ unopened' = {m \in Nodes : pool[m] = "wait"}
              /\ dying' = [m \in Nodes |-> IF pool[m] # "none" THEN dying[m] + 1 ELSE dying[m]]
              /\ dyingInflight' = [m \in Nodes |-> dyingInf[m] \cup inf[m]]
         ELSE /\ inflight' = inf /\ dyingInflight' = dyingInf
              /\ UNCHANGED <<status, slotsTimer, pool, dying, unopened>>
  /\ UNCHANGED <<manuallyClosing, retryAttempts, timerHandle, resolving, unrefreshed, refreshed,
                 timers, closeEvents, slots, offlineQueue, refresh, delays, errors, topology, disturbed,
                 outcome, sends, wantsOpen, calls>>

\* Node n runs command c: it owns the slot, or was asked.
Reply(c, n, dead) ==
  /\ Idle /\ InFlight(c, n, dead)
  /\ n = owner \/ c \in asked
  /\ Settle({c})
  /\ inflight' = TakenIf(~dead, inflight, c, n)
  /\ dyingInflight' = TakenIf(dead, dyingInflight, c, n)
  /\ UNCHANGED <<lifecycle, slotsTimer, slots, offlineQueue, refresh, delays, pool, dying, unopened, errors,
                 topology, disturbed, sends, bounds>>

\* Any error reply counts, and the last one that is allowed settles the command.
ErrorReply(c, n, dead) ==
  /\ Idle /\ InFlight(c, n, dead) /\ (Closing => Stragglers)
  /\ ttl' = [ttl EXCEPT ![c] = CountDown(c)]

TooMany(c, n, dead) ==
  /\ ErrorReply(c, n, dead) /\ CountDown(c) <= 0
  /\ IF n = owner \/ c \in asked THEN Fault ELSE UNCHANGED faults
  /\ Settle({c})
  /\ inflight' = TakenIf(~dead, inflight, c, n)
  /\ dyingInflight' = TakenIf(dead, dyingInflight, c, n)
  /\ UNCHANGED <<lifecycle, slotsTimer, slots, offlineQueue, refresh, delays, pool, dying, unopened, direct, asked,
                 topology, disturbed, sends, wantsOpen, calls>>

\* tryConnection for c, which may be given to the instance of node t; pl and inf are the
\* pool and what is in flight in it.
TryOn(c, t, pl, inf) ==
  /\ direct' = [direct EXCEPT ![c] = TRUE]
  /\ IF status = "end"
     THEN /\ Settle({c})
          /\ pool' = pl /\ inflight' = inf
          /\ UNCHANGED <<offlineQueue, sends>>
     ELSE /\ Send({c}, IF status = "ready" THEN {t} ELSE {}, pl, inf, offlineQueue)
          /\ UNCHANGED outcome

\* MOVED.  Said by the owner itself (a proxy whose server changed) its connection is made
\* anew, unless another one has replaced it already.
ReplyMoved(c, n, dead) ==
  /\ ErrorReply(c, n, dead) /\ CountDown(c) > 0
  /\ asked' = asked \ {c}
  /\ IF n = owner THEN Fault ELSE UNCHANGED faults
  /\ slots' = owner
  /\ LET inf == TakenIf(~dead, inflight, c, n)
         recreated == IF n = owner /\ ~dead /\ direct[c] THEN {n} ELSE {}
         pl == PoolAfter(recreated, {owner})
     IN  /\ TryOn(c, owner, pl, [m \in Nodes |-> IF m \in recreated THEN {} ELSE inf[m]])
         /\ dying' = [m \in Nodes |-> IF m \in recreated THEN dying[m] + 1 ELSE dying[m]]
         /\ dyingInflight' = [m \in Nodes |->
              TakenIf(dead, dyingInflight, c, n)[m] \cup (IF m \in recreated THEN inf[m] ELSE {})]
         /\ Refresh({}, pl)
  /\ disturbed' = (disturbed \/ Closing)
  /\ UNCHANGED <<lifecycle, slotsTimer, delays, unopened, topology, wantsOpen, calls>>

\* ASK: one try on node t, which need not be in the pool.
ReplyAsk(c, n, dead, t) ==
  /\ ErrorReply(c, n, dead) /\ CountDown(c) > 0
  /\ n = owner /\ t # n /\ Fault
  /\ TryOn(c, t, PoolAfter({}, {t}), TakenIf(~dead, inflight, c, n))
  /\ dyingInflight' = TakenIf(dead, dyingInflight, c, n)
  /\ asked' = IF status = "ready" THEN asked \cup {c} ELSE asked
  /\ disturbed' = (disturbed \/ Closing)
  /\ UNCHANGED <<lifecycle, slotsTimer, slots, refresh, delays, dying, unopened, topology, wantsOpen, calls>>

\* TRYAGAIN and CLUSTERDOWN.
ReplyLater(c, n, dead, b) ==
  /\ ErrorReply(c, n, dead) /\ CountDown(c) > 0 /\ Fault
  /\ queues' = [queues EXCEPT ![b] = Append(@, c)]
  /\ timeouts' = [timeouts EXCEPT ![b] = IF @ = "none" THEN "pending" ELSE @]
  /\ inflight' = TakenIf(~dead, inflight, c, n)
  /\ dyingInflight' = TakenIf(dead, dyingInflight, c, n)
  /\ asked' = asked \ {c}
  /\ UNCHANGED <<lifecycle, slotsTimer, slots, offlineQueue, refresh, pool, dying, unopened, direct, topology, disturbed,
                 outcome, sends, wantsOpen, calls>>

\* The timer of a bucket: TRYAGAIN tries again at once, the others refresh the slots
\* first (a refresh with nobody to ask is over at once).
DelayTimer(b) ==
  /\ Idle /\ timeouts[b] = "pending"
  /\ UNCHANGED status
  /\ CASE b = "tryagain" ->
            Execute({b}, pool, inflight) /\ UNCHANGED <<refresh, slotsTimer>>
       [] b # "tryagain" /\ ~isRefreshing /\ InPool = {} ->
            Called({b}, pool, inflight)
       [] OTHER ->
            /\ Refresh({b}, pool)
            /\ timeouts' = [timeouts EXCEPT ![b] = "refreshing"]
            /\ UNCHANGED <<queues, slotsTimer, direct, pool, inflight, offlineQueue, sends, outcome>>
  /\ UNCHANGED <<manuallyClosing, retryAttempts, timerHandle, resolving, unrefreshed, refreshed, timers,
                 closeEvents, slots, dying, unopened, dyingInflight, ttl, asked, topology, disturbed, bounds>>

------------------------------------------------------------------------------
(* The cluster.                                                              *)

\* The slot moves, or a failover takes it; nodes come and go.
ClusterChanges ==
  /\ Idle /\ Fault
  /\ owner' \in Nodes /\ members' \in SUBSET Nodes /\ owner' \in members'
  /\ UNCHANGED <<lifecycle, slotsTimer, slots, offlineQueue, refresh, delays, nodes, errors,
                 outcome, sends, wantsOpen, calls, disturbed>>

------------------------------------------------------------------------------
Init ==
  /\ status = (IF LazyConnect THEN "wait" ELSE "connecting")
  /\ resolving = [current |-> ~LazyConnect, stale |-> 0]
  /\ manuallyClosing = FALSE /\ retryAttempts = 0 /\ timerHandle = FALSE
  /\ slotsTimer = "none" /\ slots = NoNode /\ offlineQueue = <<>>
  /\ isRefreshing = FALSE /\ untried = {} /\ callbacks = {}
  /\ queues = [b \in Buckets |-> <<>>] /\ timeouts = [b \in Buckets |-> "none"]
  /\ pool = [n \in Nodes |-> "none"] /\ unopened = {} /\ dying = [n \in Nodes |-> 0]
  /\ inflight = NoCommands /\ dyingInflight = NoCommands
  /\ unrefreshed = 0 /\ refreshed = 0 /\ timers = 0 /\ closeEvents = 0
  /\ asked = {} /\ direct = [c \in Commands |-> FALSE] /\ ttl = [c \in Commands |-> NoTtl]
  /\ owner \in StartupNodes /\ members = Nodes
  /\ outcome = [c \in Commands |-> "idle"] /\ sends = [c \in Commands |-> 0]
  /\ wantsOpen = ~LazyConnect /\ calls = 0 /\ faults = 0 /\ disturbed = FALSE

Application ==
  \/ Connect \/ Disconnect(FALSE) \/ Disconnect(TRUE) \/ Quit
  \/ \E c \in Commands : Issue(c) \/ IssueAfterEnd(c)

Timers == ReconnectTimer \/ SlotsTimer \/ \E b \in Buckets : DelayTimer(b)
Resolving == Resolved \/ ResolvedLate \/ ResolveFails
Refreshing == RefreshStopped \/ \E n \in Nodes : RefreshDone(n) \/ RefreshError(n)
Ending == \E n \in Nodes : DyingEnds(n) \/ NodeQuits(n)
Replies(c) ==
  \E n \in Nodes, dead \in BOOLEAN :
    \/ Reply(c, n, dead) \/ TooMany(c, n, dead) \/ ReplyMoved(c, n, dead)
    \/ \E t \in Nodes : ReplyAsk(c, n, dead, t)
    \/ \E b \in {"tryagain", "clusterdown"} : ReplyLater(c, n, dead, b)
Checks == \E n \in Nodes, dead \in BOOLEAN : CheckOk(n, dead) \/ CheckFails(n, dead)
Environment == ClusterChanges \/ \E n \in Nodes : NodeLost(n)

Next ==
  \/ Application \/ EmitClose \/ Timers \/ Resolving \/ Refreshing \/ Ending \/ Checks
  \/ \E c \in Commands : Replies(c)
  \/ Environment

Spec == Init /\ [][Next]_vars

\* The timers and the events fire, DNS and the nodes answer or their connections are lost.
Fairness ==
  /\ WF_vars(EmitClose) /\ WF_vars(ReconnectTimer)
  /\ \A b \in Buckets : WF_vars(DelayTimer(b))
  /\ WF_vars(Resolving) /\ WF_vars(Refreshing) /\ WF_vars(Ending) /\ WF_vars(Checks)
  /\ \A c \in Commands : WF_vars(Replies(c))
FairSpec == Spec /\ Fairness

------------------------------------------------------------------------------
(* Properties.                                                               *)

Places(c) ==
  {<<"offline", i>> : i \in {j \in DOMAIN offlineQueue : offlineQueue[j] = c}}
  \cup (UNION {{<<b, i>> : i \in {j \in DOMAIN queues[b] : queues[b][j] = c}} : b \in Buckets})
  \cup {<<"pool", n>> : n \in {m \in Nodes : c \in inflight[m]}}
  \cup {<<"dying", n>> : n \in {m \in Nodes : c \in dyingInflight[m]}}

\* Every pending command is in exactly one place, however it was redirected, delayed,
\* queued or lost with its connection: none is forgotten and none is under way twice.
HeldOnce ==
  \A c \in Commands : Cardinality(Places(c)) = IF outcome[c] = "pending" THEN 1 ELSE 0

\* A command is sent at most once more than maxRedirections, whatever sends it back:
\* MOVED, ASK, TRYAGAIN, CLUSTERDOWN and lost connections share one countdown, and the
\* offline queue and the delay queue do not restart it.
RedirectionsBounded == \A c \in Commands : sends[c] <= MaxRedirections + 1

\* What waits has something that will wake it: a delayed command the timer of its bucket
\* or a refresh that runs, a callback of refreshSlotsCache a refresh that runs.  (The
\* timer of a bucket is cleared by its own callback alone.)
WaitersAreWoken ==
  /\ \A b \in Buckets : queues[b] # <<>> =>
       timeouts[b] = "pending" \/ (timeouts[b] = "refreshing" /\ b \in callbacks)
  /\ callbacks # {} => isRefreshing

\* A cluster that was opened and not closed by the application becomes ready, or gives up
\* and ends; except after one of the events the code is not ready for (disturbed), which can
\* leave it in "close" or "disconnecting" for ever.
Reconnects == wantsOpen ~> (status \in {"ready", "end"} \/ ~wantsOpen \/ disturbed)

\* A cluster that was closed by the application ends, unless it is opened again (or disturbed).
Closes == ~wantsOpen ~> (status \in {"end", "wait"} \/ wantsOpen \/ disturbed)

\* Every command of the application is answered, with its reply or an error, as long as the
\* cluster is not disturbed.
EveryCallerIsAnswered ==
  \A c \in Commands : (outcome[c] = "pending") ~> (outcome[c] = "settled" \/ disturbed)
==============================================================================
