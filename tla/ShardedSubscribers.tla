---------------------------- MODULE ShardedSubscribers ----------------------------
(***************************************************************************)
(* Sharded publish/subscribe of the cluster client:                        *)
(* lib/cluster/ClusterSubscriberGroup.ts, ShardedSubscriber.ts, and the    *)
(* calls and events that tie them to lib/cluster/index.ts.                 *)
(*                                                                         *)
(* The group keeps one subscriber for each node that serves a slot.        *)
(* reset() adapts it to a new table of slots; it waits for the subscribers *)
(* it starts before it resubscribes, and a reset that comes meanwhile is   *)
(* put off.  A subscriber is a whole client that does not reconnect; here  *)
(* it is its status and the state of its connection.                       *)
(*                                                                         *)
(* The table comes with the answer to CLUSTER SLOTS: a node computes it at *)
(* one moment, it arrives at a later one, and a refresh that is asked for  *)
(* meanwhile is not made.  There is no periodic refresh                    *)
(* (slotsRefreshInterval): what recovers does so by the events below.      *)
(*                                                                         *)
(* Messages, the counting of failed attempts and the length of delays are  *)
(* left out.  The pool has the nodes of the table unless the cluster is    *)
(* disconnected: connect() finds a node that answers.                      *)
(***************************************************************************)
EXTENDS Integers, FiniteSets, Functions

CONSTANTS
  Nodes, NoNode,
  Slots, Channels, SlotOf,
  LazyConnect,       \* redisOptions.lazyConnect, TRUE unless it is given
  CutStarts,         \* may the cluster disconnect while a subscriber that a reset waits for
                     \* is connecting
  FirstOwner,        \* the node that serves a slot at first
  MaxFaults          \* bound: lost connections and disconnections, and what counts twice:
                     \* slots that move, refusals, SUNSUBSCRIBE

ASSUME ShardedAssumption ==
  /\ NoNode \notin Nodes /\ "none" \notin Nodes
  /\ Slots # {}                            \* there are 16384
  /\ SlotOf \in [Channels -> Slots] /\ FirstOwner \in [Slots -> Nodes]
  /\ LazyConnect \in BOOLEAN /\ CutStarts \in BOOLEAN
  /\ MaxFaults \in Nat

Unknown == [s \in Slots |-> NoNode]
NoView == [s \in Slots |-> "none"]

VARIABLES
  cluster,           \* "closed" (disconnecting, close), "connecting" (reconnecting or connecting),
                     \* "renewed" (the same, with nodes of an answer that came late), "up"
  slots,             \* Cluster.slots
  isRefreshing,      \* CLUSTER SLOTS is on its way
  waited,            \* ... and the group has a callback in _refreshSlotsCacheCallbacks
  answer,            \* the table that a node has answered, and that has not arrived
  \* ClusterSubscriberGroup
  clusterSlots, indexed,       \* the table of the group; is subscriberToSlotsIndex filled
  subscribers, channels, isResetting,
  pendingReset,      \* is a reset put off; its table is Cluster.slots, the array and no copy
  \* promises and timers
  awaited,           \* nodes whose start the reset waits for
  rejecting, hung,   \* starts it waits for of stopped subscribers: they reject; they never settle
  timer,             \* a refresh after the delay of a connection that failed
  \* the nodes
  owner, former,     \* who serves a slot; the same for nodes that do not know of the last move
  missed,            \* history: channels whose SSUBSCRIBE a node refused, or whose slot came
                     \* back before the client had seen it leave
  outdated,          \* history: channels of slots that had moved when the last table arrived
  faults

group == <<clusterSlots, indexed, subscribers, isResetting, pendingReset, awaited>>
refresh == <<isRefreshing, waited, answer>>
nodes == <<owner, former>>
history == <<missed, outdated>>
vars == <<cluster, slots, group, channels, rejecting, hung, refresh, timer, nodes, history, faults>>

Fault(weight) == faults + weight <= MaxFaults /\ faults' = faults + weight

------------------------------------------------------------------------------
(* ShardedSubscriber.                                                        *)

\* queued: commands on the connection; late: SSUBSCRIBE that waits for the event "ready".
NoSub == [status |-> "none", conn |-> "none", queued |-> {}, late |-> {}, subscribed |-> {}]
New == [NoSub EXCEPT !.status = "idle", !.conn = "wait"]
Started(s) == [s EXCEPT !.status = "starting", !.conn = "opening"]
IsStarted(s) == s.status \in {"starting", "connected"}
IsHealthy(s) == s.status \in {"idle", "starting", "connected"}
Ended(s) == [NoSub EXCEPT !.status = "ended", !.conn = "end"]

------------------------------------------------------------------------------
(* ClusterSubscriberGroup.                                                   *)

Serves(table, n) == {s \in Slots : table[s] = n}
Index(table) == Range(table) \ {NoNode}

ShouldStart(s, n, table) ==
  ~IsStarted(s) /\ (LazyConnect => \E c \in channels : SlotOf[c] \in Serves(table, n))

\* The subscribers after a reset to this table: those no longer needed or not healthy are
\* stopped, missing ones are made, and those that should be started are.
Adapted(subs, table) ==
  [n \in Nodes |->
     IF n \notin Index(table) THEN NoSub
     ELSE LET s == IF IsHealthy(subs[n]) THEN subs[n] ELSE New
          IN  IF ShouldStart(s, n, table) THEN Started(s) ELSE s]

\* Mutant: a reset that finds the table unchanged does not look at the subscribers.
NothingToDo_SameTable(subs, table) == indexed /\ table = clusterSlots

HasUnhealthySubscribers(subs) ==
  \/ \E n \in Nodes : subs[n].status # "none" /\ ~IsHealthy(subs[n])
  \/ \E n \in Index(clusterSlots) : subs[n].status = "none"

NothingToDo(subs, table) == indexed /\ table = clusterSlots /\ ~HasUnhealthySubscribers(subs)

\* reset(): up to the promises it waits for.
Begin(subs, table) ==
  /\ pendingReset' = FALSE
  /\ IF NothingToDo(subs, table)
     THEN /\ subscribers' = subs /\ isResetting' = FALSE
          /\ UNCHANGED <<clusterSlots, indexed, awaited>>
     ELSE /\ clusterSlots' = table /\ indexed' = (Index(table) # {})
          /\ subscribers' = Adapted(subs, table)
          /\ awaited' = {n \in Nodes : subscribers'[n].conn = "opening"
                                        /\ ~(IsHealthy(subs[n]) /\ IsStarted(subs[n]))}
          /\ isResetting' = TRUE

Reset(table) ==
  IF isResetting
  THEN /\ pendingReset' = TRUE
       /\ UNCHANGED <<clusterSlots, indexed, subscribers, isResetting, awaited>>
  ELSE Begin(subscribers, table)

\* _resubscribe: at once on a connection that is ready, with its "ready" event otherwise.
Resubscribed(s, n) ==
  LET cs == {c \in channels : SlotOf[c] \in Serves(clusterSlots, n)}
  IN  IF s.status = "none" \/ s.conn = "end" THEN s
      ELSE IF s.conn = "ready" THEN [s EXCEPT !.queued = @ \cup cs]
      ELSE [s EXCEPT !.late = @ \cup cs]

\* All the promises have settled: the rest of reset(), and the reset that was put off.
ResetDone ==
  /\ isResetting /\ awaited = {} /\ ~rejecting /\ ~hung
  /\ LET subs == [n \in Nodes |-> Resubscribed(subscribers[n], n)]
     IN  IF pendingReset THEN Begin(subs, slots)
         ELSE /\ subscribers' = subs /\ isResetting' = FALSE
              /\ UNCHANGED <<clusterSlots, indexed, pendingReset, awaited>>
  /\ UNCHANGED <<cluster, slots, channels, rejecting, hung, refresh, timer, nodes, history, faults>>

\* stop(): every subscriber is disconnected and its listeners are removed.  A start that
\* has no socket yet rejects; one that has waits for events nobody will hear of.
Stop ==
  /\ subscribers' = [n \in Nodes |-> NoSub]
  /\ indexed' = FALSE /\ pendingReset' = FALSE /\ awaited' = {}
  /\ rejecting' = (rejecting \/ \E n \in awaited : subscribers[n].conn = "opening")
  /\ hung' = (hung \/ \E n \in awaited : subscribers[n].conn = "connecting")
  /\ UNCHANGED <<clusterSlots, isResetting>>

------------------------------------------------------------------------------
(* The cluster client.                                                       *)

\* Nodes of the pool that can be asked.
HasNodes == cluster \in {"renewed", "up"}

\* refreshSlotsCache: a refresh that runs takes the request in, whatever a node has already
\* answered to it.
RefreshSlotsCache(callback) ==
  /\ isRefreshing' = TRUE /\ waited' = (waited \/ callback)
  /\ UNCHANGED answer

RefreshEnds == isRefreshing' = FALSE /\ waited' = FALSE /\ answer' = NoView

\* disconnect(true).
Disconnect ==
  /\ CutStarts \/ \A n \in awaited : subscribers[n].conn # "connecting"
  /\ cluster' = "closed" /\ Stop

\* After a failed ready check, or called by the application; a refresh goes on.
ClusterDown ==
  /\ HasNodes /\ Fault(1) /\ Disconnect
  /\ UNCHANGED <<slots, channels, refresh, timer, nodes, history>>

\* The close event: reconnecting.
Closed ==
  /\ cluster = "closed" /\ cluster' = "connecting"
  /\ UNCHANGED <<slots, group, channels, rejecting, hung, refresh, timer, nodes, history, faults>>

\* connect(), once it has the startup nodes: the group is reset to the slots of old, and a
\* refresh begins.
ClusterUp ==
  /\ cluster \in {"connecting", "renewed"} /\ cluster' = "up"
  /\ Reset(slots) /\ RefreshSlotsCache(FALSE)
  /\ UNCHANGED <<slots, channels, rejecting, hung, timer, nodes, history, faults>>

\* A command for a slot that has moved is redirected: Cluster.slots is corrected, but not the
\* table of the group.  Slots of one range in the answer share their entry, and all change.
Redirected(s) ==
  /\ cluster = "up" /\ slots[s] \notin {NoNode, owner[s]}
  /\ \E range \in SUBSET {t \in Slots : slots[t] = slots[s]} :
       s \in range /\ slots' = [t \in Slots |-> IF t \in range THEN owner[s] ELSE slots[t]]
  /\ RefreshSlotsCache(FALSE)
  /\ UNCHANGED <<cluster, group, channels, rejecting, hung, timer, nodes, history, faults>>

\* The delay is over.  Without a node to ask the refresh fails at once: disconnect(true).
TimerFires ==
  /\ timer /\ timer' = FALSE
  /\ IF HasNodes \/ isRefreshing THEN RefreshSlotsCache(TRUE) /\ UNCHANGED cluster
     ELSE cluster' = "closed" /\ UNCHANGED refresh
  /\ UNCHANGED <<slots, group, channels, rejecting, hung, nodes, history, faults>>

\* A node answers with the table it knows, which may be that of before the last move.
SlotsAnswered ==
  /\ isRefreshing /\ answer = NoView
  /\ answer' \in {owner, former}
  /\ UNCHANGED <<cluster, slots, group, channels, rejecting, hung, isRefreshing, waited, timer,
                 nodes, history, faults>>

\* The answer arrives, and is ignored by a cluster that is closed.
SlotsArrived ==
  /\ answer # NoView /\ RefreshEnds
  /\ IF cluster = "closed" THEN UNCHANGED <<cluster, slots, group, outdated>>
     ELSE /\ cluster' = IF cluster = "connecting" THEN "renewed" ELSE cluster
          /\ slots' = answer /\ Reset(answer)
          /\ outdated' = {c \in channels : answer[SlotOf[c]] # owner[SlotOf[c]]}
  /\ UNCHANGED <<channels, rejecting, hung, timer, nodes, missed, faults>>

\* No node answers: refreshSlotsCacheCallback disconnects.  (A refresh that the group does not
\* wait for is answered.)
RefreshFailed ==
  /\ isRefreshing /\ waited /\ answer = NoView /\ cluster # "closed" /\ Fault(1)
  /\ RefreshEnds /\ Disconnect
  /\ UNCHANGED <<slots, channels, timer, nodes, history>>

\* SSUBSCRIBE of the application: the channel is the group's from now on, and a subscriber
\* that is idle is started.
Subscribe(c) ==
  LET n == clusterSlots[SlotOf[c]]
      s == subscribers[n]
  IN  /\ cluster = "up" /\ c \notin channels
      /\ n # NoNode /\ s.status # "none"
      /\ channels' = channels \cup {c}
      /\ subscribers' = [subscribers EXCEPT ![n] =
           IF s.conn = "end" THEN s
           ELSE [(IF s.status = "idle" THEN Started(s) ELSE s) EXCEPT !.queued = @ \cup {c}]]
      /\ UNCHANGED <<cluster, slots, clusterSlots, indexed, isResetting, pendingReset, awaited,
                     rejecting, hung, refresh, timer, nodes, history, faults>>

\* SUNSUBSCRIBE follows what is queued; an SSUBSCRIBE that waits for "ready" comes after it.
Unsubscribe(c) ==
  LET n == clusterSlots[SlotOf[c]]
  IN  /\ cluster = "up" /\ c \in channels /\ Fault(2)
      /\ n # NoNode /\ subscribers[n].status # "none"
      /\ channels' = channels \ {c}
      /\ subscribers' = [subscribers EXCEPT ![n].queued = @ \ {c}, ![n].subscribed = @ \ {c}]
      /\ missed' = missed \ {c} /\ outdated' = outdated \ {c}
      /\ UNCHANGED <<cluster, slots, clusterSlots, indexed, isResetting, pendingReset, awaited,
                     rejecting, hung, refresh, timer, nodes>>

------------------------------------------------------------------------------
(* Connections of the subscribers.                                           *)

rest == <<cluster, slots, clusterSlots, indexed, isResetting, pendingReset, channels, rejecting,
          hung>>

\* The connector has made a socket.
Opened(n) ==
  /\ subscribers[n].conn = "opening"
  /\ subscribers' = [subscribers EXCEPT ![n].conn = "connecting"]
  /\ UNCHANGED <<rest, awaited, refresh, timer, nodes, history, faults>>

\* "ready": start() returns, and what waited for the event is sent.
Ready(n) ==
  LET s == subscribers[n]
  IN  /\ s.conn = "connecting"
      /\ subscribers' = [subscribers EXCEPT ![n] =
           [s EXCEPT !.status = "connected", !.conn = "ready",
                     !.queued = @ \cup s.late, !.late = {}]]
      /\ awaited' = awaited \ {n}
      /\ UNCHANGED <<rest, refresh, timer, nodes, history, faults>>

\* Mutant: the end of a connection is not reported, only that it did not come about.
Noticed_Start(s) == UNCHANGED refresh /\ timer' = (timer \/ s.conn # "ready")

\* onEnd asks for a refresh at once, handleSubscriberConnectFailed after a delay.
Noticed(s) == RefreshSlotsCache(TRUE) /\ timer' = (timer \/ s.conn # "ready")

Lost(n) ==
  /\ subscribers[n].conn \in {"opening", "connecting", "ready"} /\ Fault(1)
  /\ subscribers' = [subscribers EXCEPT ![n] = Ended(@)]
  /\ awaited' = awaited \ {n} /\ Noticed(subscribers[n])
  /\ UNCHANGED <<rest, nodes, history>>

\* The start of a subscriber that was stopped before it had a socket.
Rejects ==
  /\ rejecting /\ rejecting' = FALSE /\ timer' = TRUE
  /\ UNCHANGED <<cluster, slots, group, channels, hung, refresh, nodes, history, faults>>

\* The server takes SSUBSCRIBE, or answers MOVED ("moved" asks for a refresh).
Answered(n, c) ==
  LET s == subscribers[n]
      mine == owner[SlotOf[c]] = n
  IN  /\ s.conn = "ready" /\ c \in s.queued
      /\ subscribers' = [subscribers EXCEPT ![n].queued = @ \ {c},
                                            ![n].subscribed = IF mine THEN @ \cup {c} ELSE @]
      /\ IF mine THEN UNCHANGED refresh ELSE RefreshSlotsCache(TRUE)
      /\ UNCHANGED <<rest, awaited, timer, nodes, history, faults>>

\* The reply is an error: nothing is done about it.
Refused(n, c) ==
  /\ Fault(2) /\ missed' = missed \cup ({c} \cap channels)
  /\ subscribers[n].conn = "ready" /\ c \in subscribers[n].queued
  /\ subscribers' = [subscribers EXCEPT ![n].queued = @ \ {c}]
  /\ UNCHANGED <<rest, awaited, refresh, timer, nodes, outdated>>

\* A slot moves: its old node unsubscribes the clients of its channels (and an unsolicited
\* "sunsubscribe" asks for a refresh).
Migrate(s) ==
  /\ Fault(2) /\ former' = owner
  /\ \E n \in Nodes \ {owner[s]} : owner' = [owner EXCEPT ![s] = n]
  /\ LET old == owner[s]
         gone == {c \in subscribers[old].subscribed : SlotOf[c] = s}
     IN  /\ subscribers' = [subscribers EXCEPT ![old].subscribed = @ \ gone]
         /\ IF gone = {} THEN UNCHANGED refresh ELSE RefreshSlotsCache(TRUE)
  /\ missed' = IF clusterSlots[s] \in {owner[s], NoNode} THEN missed
               ELSE missed \cup {c \in channels : SlotOf[c] = s}
  /\ UNCHANGED <<rest, awaited, timer, outdated>>

\* Every node knows of the move.
Learned ==
  /\ former # owner /\ former' = owner
  /\ UNCHANGED <<rest, subscribers, awaited, refresh, timer, owner, history, faults>>

------------------------------------------------------------------------------
Init ==
  /\ cluster = "connecting" /\ slots = Unknown
  /\ clusterSlots = Unknown /\ indexed = FALSE
  /\ subscribers = [n \in Nodes |-> NoSub] /\ channels = {}
  /\ isResetting = FALSE /\ pendingReset = FALSE
  /\ awaited = {} /\ rejecting = FALSE /\ hung = FALSE
  /\ isRefreshing = FALSE /\ waited = FALSE /\ answer = NoView /\ timer = FALSE
  /\ owner = FirstOwner /\ former = FirstOwner
  /\ missed = {} /\ outdated = {} /\ faults = 0

Application == \E c \in Channels : Subscribe(c) \/ Unsubscribe(c)

Connections ==
  \/ \E n \in Nodes : Opened(n) \/ Ready(n) \/ \E c \in Channels : Answered(n, c)
  \/ Rejects

Environment ==
  \/ ClusterDown \/ RefreshFailed
  \/ \E n \in Nodes : Lost(n) \/ \E c \in Channels : Refused(n, c)
  \/ \E s \in Slots : Migrate(s) \/ Redirected(s)

Reconnection == Closed \/ ClusterUp
Refreshes == TimerFires \/ SlotsAnswered \/ SlotsArrived

Next ==
  \/ Application \/ Connections \/ ResetDone \/ Reconnection \/ Refreshes \/ Learned
  \/ Environment

Spec == Init /\ [][Next]_vars

\* Connections come about and are answered, the cluster reconnects, timers fire, and CLUSTER
\* SLOTS is answered (slotsRefreshTimeout ends the wait for a node that does not), in the end
\* by nodes that know of the last move.
Fairness ==
  /\ WF_vars(Connections) /\ WF_vars(ResetDone) /\ WF_vars(Reconnection) /\ WF_vars(Refreshes)
  /\ WF_vars(Learned)
FairSpec == Spec /\ Fairness

------------------------------------------------------------------------------
(* Properties.                                                               *)

\* A channel of the group is subscribed at the node that serves it, or will be: after every
\* migration, lost connection and reconnection of the cluster, unless a node refused it, its
\* slot came back before the client had seen it leave, or the table that arrived last did
\* not have its slot's move (ClusterSubscriberGroup.ts: "Channels are preserved for
\* resubscription on reconnect").
ChannelsAreRestored ==
  []<>(\A c \in channels \ (missed \cup outdated) : c \in subscribers[owner[SlotOf[c]]].subscribed)

\* A subscriber that has ended has a refresh on its way that will replace it, or disconnect the
\* cluster, or a reset that was put off: no failure of a subscriber is forgotten by the resets
\* and refreshes that run at the same time.
FailuresAreNoticed ==
  (\E n \in Nodes : subscribers[n].status = "ended")
    => (isRefreshing /\ waited) \/ timer \/ pendingReset
==============================================================================
