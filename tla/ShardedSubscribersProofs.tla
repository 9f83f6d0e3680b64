----------------------- MODULE ShardedSubscribersProofs -----------------------
(***************************************************************************)
(* Proof that no failure of a sharded subscriber is forgotten, for any     *)
(* nodes, slots and channels and any number of faults.                     *)
(***************************************************************************)
EXTENDS ShardedSubscribers, TLAPS

SubscriberStatuses == {"none", "idle", "starting", "connected", "ended"}
ConnectionStates == {"none", "wait", "opening", "connecting", "ready", "end"}
Subscriber ==
  [status: SubscriberStatuses, conn: ConnectionStates, queued: SUBSET Channels, late: SUBSET Channels,
   subscribed: SUBSET Channels]

\* The values of what the group works on.
GroupTypes ==
  /\ subscribers \in [Nodes -> Subscriber] /\ channels \subseteq Channels

HasEnded(subs) == \E n \in Nodes : subs[n].status = "ended"

\* A cluster without nodes has no subscribers, and no reset that would make some.
StoppedWithoutNodes == ~HasNodes => ~pendingReset /\ \A n \in Nodes : subscribers[n] = NoSub

Clusters == cluster \in {"closed", "connecting", "renewed", "up"}

\* The inductive invariant.
NoticeInv == GroupTypes /\ Clusters /\ StoppedWithoutNodes /\ FailuresAreNoticed

\* Something on its way will replace what has ended.
OnItsWay == (isRefreshing /\ waited) \/ timer \/ pendingReset

\* Steps that end no subscriber, withdraw no notice and leave the cluster as it is.
LEMMA NoNewEnd ==
  ASSUME NoticeInv, GroupTypes', cluster' = cluster, pendingReset' = pendingReset,
         \A n \in Nodes : subscribers[n] = NoSub => subscribers'[n] = NoSub,
         HasEnded(subscribers') => HasEnded(subscribers), OnItsWay => OnItsWay'
  PROVE  NoticeInv'
PROOF
  BY DEF NoticeInv, FailuresAreNoticed, HasEnded, OnItsWay, Clusters, StoppedWithoutNodes, HasNodes

\* A subscriber the group makes, or starts, has not ended.
LEMMA MadeSubscribers ==
  /\ NoSub \in Subscriber /\ NoSub.status = "none"
  /\ New \in Subscriber /\ New.status = "idle"
  /\ \A s \in Subscriber : /\ Started(s) \in Subscriber /\ Started(s).status = "starting"
                           /\ Ended(s) \in Subscriber
PROOF
  <1>1. NoSub \in Subscriber /\ NoSub.status = "none"
    BY DEF NoSub, Subscriber, SubscriberStatuses, ConnectionStates
  <1>2. New \in Subscriber /\ New.status = "idle"
    BY DEF New, NoSub, Subscriber, SubscriberStatuses, ConnectionStates
  <1>3. ASSUME NEW s \in Subscriber
        PROVE  /\ Started(s) \in Subscriber /\ Started(s).status = "starting"
               /\ Ended(s) \in Subscriber
    BY DEF Started, Ended, NoSub, Subscriber, SubscriberStatuses, ConnectionStates
  <1>. QED BY <1>1, <1>2, <1>3

\* ClusterSubscriberGroup#reset: whatever it finds, no subscriber that has ended is left.
LEMMA BeginReplacesEnded ==
  ASSUME NEW subs \in [Nodes -> Subscriber], NEW table, Begin(subs, table)
  PROVE  subscribers' \in [Nodes -> Subscriber] /\ ~HasEnded(subscribers')
PROOF
  <1>1. CASE NothingToDo(subs, table)
    <2>1. subscribers' = subs /\ ~HasUnhealthySubscribers(subs)
      BY <1>1 DEF Begin, NothingToDo
    <2>2. \A n \in Nodes : subs[n].status = "none" \/ IsHealthy(subs[n])
      BY <2>1 DEF HasUnhealthySubscribers
    <2>. QED BY <2>1, <2>2 DEF IsHealthy, HasEnded
  <1>2. CASE ~NothingToDo(subs, table)
    <2>1. subscribers' = Adapted(subs, table)
      BY <1>2 DEF Begin
    <2>2. ASSUME NEW n \in Nodes
          PROVE  subscribers'[n] \in Subscriber /\ subscribers'[n].status # "ended"
      <3> DEFINE s == IF IsHealthy(subs[n]) THEN subs[n] ELSE New
      <3>1. s \in Subscriber /\ s.status # "ended"
        BY MadeSubscribers DEF IsHealthy
      <3>2. subscribers'[n] = IF n \notin Index(table) THEN NoSub
                              ELSE IF ShouldStart(s, n, table) THEN Started(s) ELSE s
        BY <2>1 DEF Adapted
      <3> HIDE DEF s
      <3>. QED BY <3>1, <3>2, MadeSubscribers
    <2>3. subscribers' = [n \in Nodes |-> subscribers'[n]]
      BY <2>1 DEF Adapted
    <2>. QED BY <2>2, <2>3 DEF HasEnded
  <1>. QED BY <1>1, <1>2

\* A reset replaces what has ended at once, or is put off and stays pending.
LEMMA ResetNotices ==
  ASSUME NoticeInv, NEW table, Reset(table), channels' = channels, cluster' \in {"renewed", "up"}
  PROVE  NoticeInv'
PROOF
  <1>. USE DEF NoticeInv, GroupTypes
  <1>1. Clusters' /\ StoppedWithoutNodes'
    BY DEF Clusters, StoppedWithoutNodes, HasNodes
  <1>2. CASE isResetting
    <2>1. pendingReset' /\ UNCHANGED subscribers
      BY <1>2 DEF Reset
    <2>. QED BY <1>1, <2>1 DEF FailuresAreNoticed
  <1>3. CASE ~isResetting
    <2>1. Begin(subscribers, table)
      BY <1>3 DEF Reset
    <2>2. subscribers' \in [Nodes -> Subscriber] /\ ~HasEnded(subscribers')
      BY <2>1, BeginReplacesEnded
    <2>. QED BY <1>1, <2>2 DEF FailuresAreNoticed, HasEnded
  <1>. QED BY <1>2, <1>3

\* disconnect(true) leaves no subscriber.
LEMMA DisconnectNotices ==
  ASSUME NoticeInv, Disconnect, channels' = channels
  PROVE  NoticeInv'
PROOF
  <1>1. cluster' = "closed" /\ ~pendingReset' /\ subscribers' = [n \in Nodes |-> NoSub]
    BY DEF Disconnect, Stop
  <1>2. GroupTypes' /\ ~HasEnded(subscribers')
    BY <1>1, MadeSubscribers DEF NoticeInv, GroupTypes, HasEnded
  <1>. QED BY <1>1, <1>2 DEF NoticeInv, Clusters, StoppedWithoutNodes, FailuresAreNoticed, HasEnded

\* The end of the reset: the subscribers are resubscribed, and a reset that was put off begins.
LEMMA ResetDoneNotices ==
  ASSUME NoticeInv, ResetDone
  PROVE  NoticeInv'
PROOF
  <1> DEFINE subs == [n \in Nodes |-> Resubscribed(subscribers[n], n)]
  <1>1. subscribers \in [Nodes -> Subscriber] /\ channels \subseteq Channels
    BY DEF NoticeInv, GroupTypes
  <1>2. ASSUME NEW n \in Nodes
        PROVE  subs[n] \in Subscriber /\ subs[n].status = subscribers[n].status
    <2> DEFINE cs == {c \in channels : SlotOf[c] \in Serves(clusterSlots, n)}
               s == subscribers[n]
    <2>1. s \in Subscriber /\ cs \subseteq Channels
      BY <1>1
    <2>2. subs[n] = IF s.status = "none" \/ s.conn = "end" THEN s
                    ELSE IF s.conn = "ready" THEN [s EXCEPT !.queued = @ \cup cs]
                    ELSE [s EXCEPT !.late = @ \cup cs]
      BY DEF Resubscribed
    <2> HIDE DEF cs, s, subs
    <2>3. /\ [s EXCEPT !.queued = @ \cup cs] \in Subscriber
          /\ [s EXCEPT !.queued = @ \cup cs].status = s.status
          /\ [s EXCEPT !.late = @ \cup cs] \in Subscriber
          /\ [s EXCEPT !.late = @ \cup cs].status = s.status
      BY <2>1 DEF Subscriber
    <2>. QED BY <2>1, <2>2, <2>3 DEF s
  <1>3. subs \in [Nodes -> Subscriber] /\ (HasEnded(subs) => HasEnded(subscribers))
    BY <1>2 DEF HasEnded
  <1>4. /\ UNCHANGED <<cluster, isRefreshing, waited, timer, channels>>
        /\ IF pendingReset THEN Begin(subs, slots)
           ELSE subscribers' = subs /\ UNCHANGED pendingReset
    BY DEF ResetDone, refresh
  <1>5. ASSUME ~HasNodes, NEW n \in Nodes PROVE subs[n] = NoSub
    <2>1. subscribers[n] = NoSub
      BY <1>5 DEF NoticeInv, StoppedWithoutNodes
    <2>. QED BY <2>1, MadeSubscribers DEF Resubscribed
  <1> HIDE DEF subs
  <1>6. CASE ~pendingReset
    <2>1. subscribers' = subs /\ UNCHANGED <<pendingReset, isRefreshing, waited, timer, cluster>>
      BY <1>4, <1>6
    <2>2. GroupTypes' /\ Clusters' /\ StoppedWithoutNodes'
      BY <1>3, <1>4, <1>5, <2>1 DEF NoticeInv, GroupTypes, Clusters, StoppedWithoutNodes, HasNodes
    <2>. QED BY <1>3, <2>1, <2>2 DEF NoticeInv, FailuresAreNoticed, HasEnded
  <1>7. CASE pendingReset
    <2>1. subscribers' \in [Nodes -> Subscriber] /\ ~HasEnded(subscribers')
      BY <1>3, <1>4, <1>7, BeginReplacesEnded
    <2>2. HasNodes
      BY <1>7 DEF NoticeInv, StoppedWithoutNodes
    <2>. QED BY <1>4, <2>1, <2>2 DEF NoticeInv, GroupTypes, Clusters, StoppedWithoutNodes,
                                     HasNodes, FailuresAreNoticed, HasEnded
  <1>. QED BY <1>6, <1>7

\* One subscriber changes, and does not end.
LEMMA OneChanges ==
  ASSUME NoticeInv, NEW n, NEW s, subscribers' = [subscribers EXCEPT ![n] = s],
         n \in Nodes => /\ s \in Subscriber /\ (s.status = "ended" => subscribers[n].status = "ended")
                        /\ (subscribers[n] = NoSub => s = NoSub),
         channels' \subseteq Channels, cluster' = cluster, pendingReset' = pendingReset,
         OnItsWay => OnItsWay'
  PROVE  NoticeInv'
PROOF
  <1>1. GroupTypes' /\ (HasEnded(subscribers') => HasEnded(subscribers))
    BY DEF NoticeInv, GroupTypes, HasEnded
  <1>2. \A m \in Nodes : subscribers[m] = NoSub => subscribers'[m] = NoSub
    BY DEF NoticeInv, GroupTypes
  <1>. QED BY <1>1, <1>2, NoNewEnd

\* A request for a refresh, or nothing about refreshes, withdraws no notice.
LEMMA Requests ==
  ASSUME pendingReset' = pendingReset, timer => timer',
         UNCHANGED refresh \/ \E callback \in BOOLEAN : RefreshSlotsCache(callback)
  PROVE  OnItsWay => OnItsWay'
PROOF
  BY DEF OnItsWay, refresh, RefreshSlotsCache

\* SSUBSCRIBE and SUNSUBSCRIBE of the application.
LEMMA CommandsNotice ==
  ASSUME NoticeInv, NEW c \in Channels, Subscribe(c) \/ Unsubscribe(c)
  PROVE  NoticeInv'
PROOF
  <1> DEFINE n == clusterSlots[SlotOf[c]]
             s == subscribers[n]
  <1>1. subscribers \in [Nodes -> Subscriber] /\ channels \subseteq Channels
    BY DEF NoticeInv, GroupTypes
  <1>2. (n \in Nodes => s \in Subscriber) /\ s.status # "none"
    BY <1>1 DEF Subscribe, Unsubscribe
  <1>3. s # NoSub
    BY <1>2, MadeSubscribers
  <1>4. /\ cluster' = cluster /\ pendingReset' = pendingReset /\ channels' \subseteq Channels
        /\ (OnItsWay => OnItsWay')
    BY <1>1, Requests DEF Subscribe, Unsubscribe
  <1>5. CASE Subscribe(c)
    <2> DEFINE to == IF s.status = "idle" THEN Started(s) ELSE s
               new == IF s.conn = "end" THEN s ELSE [to EXCEPT !.queued = @ \cup {c}]
    <2>1. subscribers' = [subscribers EXCEPT ![n] = new]
      BY <1>5 DEF Subscribe
    <2>2. ASSUME n \in Nodes
          PROVE  new \in Subscriber /\ (new.status = "ended" => s.status = "ended")
      <3>1. to \in Subscriber /\ (to.status = "ended" => s.status = "ended")
        BY <1>2, <2>2, MadeSubscribers
      <3> HIDE DEF to
      <3>2. /\ [to EXCEPT !.queued = @ \cup {c}] \in Subscriber
            /\ [to EXCEPT !.queued = @ \cup {c}].status = to.status
        BY <3>1 DEF Subscriber
      <3>. QED BY <1>2, <2>2, <3>1, <3>2
    <2> HIDE DEF n, new
    <2>. QED BY <1>3, <1>4, <2>1, <2>2, OneChanges DEF s
  <1>6. CASE Unsubscribe(c)
    <2> DEFINE new == [s EXCEPT !.queued = @ \ {c}, !.subscribed = @ \ {c}]
    <2>1. subscribers' = [subscribers EXCEPT ![n] = new]
      BY <1>1, <1>6 DEF Unsubscribe
    <2>2. ASSUME n \in Nodes PROVE new \in Subscriber /\ new.status = s.status
      BY <1>2, <2>2 DEF Subscriber
    <2> HIDE DEF n, new
    <2>. QED BY <1>3, <1>4, <2>1, <2>2, OneChanges DEF s
  <1>. QED BY <1>5, <1>6

\* Connections come about and are answered.
LEMMA ConnectionsNotice ==
  ASSUME NoticeInv, NEW n \in Nodes,
         Opened(n) \/ Ready(n) \/ \E c \in Channels : Answered(n, c) \/ Refused(n, c)
  PROVE  NoticeInv'
PROOF
  <1> DEFINE s == subscribers[n]
  <1>1. /\ subscribers \in [Nodes -> Subscriber] /\ channels \subseteq Channels
        /\ s \in Subscriber
    BY DEF NoticeInv, GroupTypes
  <1>2. s # NoSub
    <2>1. s.conn \in {"opening", "connecting", "ready"}
      BY Zenon DEF Opened, Ready, Answered, Refused
    <2>. QED BY <2>1 DEF NoSub
  <1>3. /\ cluster' = cluster /\ pendingReset' = pendingReset /\ channels' \subseteq Channels
        /\ (OnItsWay => OnItsWay')
    <2>1. UNCHANGED rest /\ UNCHANGED timer
      BY Zenon DEF Opened, Ready, Answered, Refused
    <2>2. UNCHANGED refresh \/ RefreshSlotsCache(TRUE)
      BY Zenon DEF Opened, Ready, Answered, Refused
    <2>3. pendingReset' = pendingReset
      BY <2>1 DEF rest
    <2>. QED BY <1>1, <2>1, <2>2, <2>3, Requests DEF rest
  <1>4. CASE Opened(n)
    <2> DEFINE new == [s EXCEPT !.conn = "connecting"]
    <2>1. subscribers' = [subscribers EXCEPT ![n] = new] /\ new \in Subscriber /\ new.status = s.status
      BY <1>1, <1>4 DEF Opened, Subscriber, ConnectionStates
    <2> HIDE DEF new
    <2>. QED BY <1>2, <1>3, <2>1, OneChanges
  <1>5. CASE Ready(n)
    <2> DEFINE new == [s EXCEPT !.status = "connected", !.conn = "ready",
                                !.queued = @ \cup s.late, !.late = {}]
    <2>1. subscribers' = [subscribers EXCEPT ![n] = new]
      BY <1>5 DEF Ready
    <2>2. new \in Subscriber /\ new.status = "connected"
      BY <1>1 DEF Subscriber, ConnectionStates, SubscriberStatuses
    <2> HIDE DEF new
    <2>. QED BY <1>2, <1>3, <2>1, <2>2, OneChanges
  <1>6. ASSUME NEW c \in Channels, Answered(n, c) PROVE NoticeInv'
    <2> DEFINE mine == owner[SlotOf[c]] = n
               new == [s EXCEPT !.queued = @ \ {c}, !.subscribed = IF mine THEN @ \cup {c} ELSE @]
    <2>1. subscribers' = [subscribers EXCEPT ![n] = new]
      BY <1>1, <1>6 DEF Answered
    <2>2. new \in Subscriber /\ new.status = s.status
      BY <1>1 DEF Subscriber
    <2> HIDE DEF new
    <2>. QED BY <1>2, <1>3, <2>1, <2>2, OneChanges
  <1>7. ASSUME NEW c \in Channels, Refused(n, c) PROVE NoticeInv'
    <2> DEFINE new == [s EXCEPT !.queued = @ \ {c}]
    <2>1. subscribers' = [subscribers EXCEPT ![n] = new]
      BY <1>1, <1>7 DEF Refused
    <2>2. new \in Subscriber /\ new.status = s.status
      BY <1>1 DEF Subscriber
    <2> HIDE DEF new
    <2>. QED BY <1>2, <1>3, <2>1, <2>2, OneChanges
  <1>. QED BY <1>4, <1>5, <1>6, <1>7

\* A connection is lost: its subscriber has ended, and a refresh is asked for.
LEMMA LostNotices ==
  ASSUME NoticeInv, NEW n \in Nodes, Lost(n)
  PROVE  NoticeInv'
PROOF
  <1> DEFINE new == Ended(subscribers[n])
  <1>1. subscribers \in [Nodes -> Subscriber] /\ channels \subseteq Channels
    BY DEF NoticeInv, GroupTypes
  <1>2. /\ subscribers' = [subscribers EXCEPT ![n] = new]
        /\ UNCHANGED <<cluster, channels, pendingReset>> /\ isRefreshing' /\ waited'
    BY <1>1 DEF Lost, Noticed, RefreshSlotsCache, rest
  <1>3. new \in Subscriber
    BY <1>1, MadeSubscribers
  <1> HIDE DEF new
  <1>4. GroupTypes' /\ Clusters' /\ FailuresAreNoticed'
    BY <1>1, <1>2, <1>3 DEF NoticeInv, GroupTypes, Clusters, FailuresAreNoticed
  <1>5. HasNodes
    <2>1. subscribers[n] # NoSub
      BY DEF Lost, NoSub
    <2>. QED BY <2>1 DEF NoticeInv, StoppedWithoutNodes
  <1>. QED BY <1>2, <1>4, <1>5 DEF NoticeInv, StoppedWithoutNodes, HasNodes

\* A slot moves.
LEMMA MigrateNotices ==
  ASSUME NoticeInv, NEW m \in Slots, Migrate(m)
  PROVE  NoticeInv'
PROOF
  <1> DEFINE old == owner[m]
             gone == {c \in subscribers[old].subscribed : SlotOf[c] = m}
             new == [subscribers[old] EXCEPT !.subscribed = @ \ gone]
  <1>1. subscribers \in [Nodes -> Subscriber] /\ channels \subseteq Channels
    BY DEF NoticeInv, GroupTypes
  <1>2. /\ subscribers' = [subscribers EXCEPT ![old] = new]
        /\ UNCHANGED <<cluster, channels, pendingReset, timer>>
        /\ UNCHANGED refresh \/ RefreshSlotsCache(TRUE)
    BY <1>1 DEF Migrate, rest
  <1>3. OnItsWay => OnItsWay'
    BY <1>2, Requests
  <1>4. ASSUME old \in Nodes
        PROVE  /\ new \in Subscriber /\ new.status = subscribers[old].status
               /\ (subscribers[old] = NoSub => new = NoSub)
    <2>1. subscribers[old] \in Subscriber
      BY <1>1, <1>4
    <2> HIDE DEF old, gone
    <2>. QED BY <2>1 DEF Subscriber, NoSub
  <1> HIDE DEF old, new
  <1>. QED BY <1>1, <1>2, <1>3, <1>4, OneChanges

\* Steps that touch no subscriber and no reset.
LEMMA OthersNotice ==
  ASSUME NoticeInv,
         \/ Closed \/ TimerFires \/ SlotsAnswered \/ Learned \/ Rejects \/ UNCHANGED vars
         \/ \E m \in Slots : Redirected(m)
  PROVE  NoticeInv'
PROOF
  <1>1. UNCHANGED <<subscribers, pendingReset, channels>>
    BY Zenon DEF Closed, TimerFires, SlotsAnswered, Learned, Rejects, Redirected, vars, group, rest
  <1>2. GroupTypes'
    BY <1>1 DEF NoticeInv, GroupTypes
  <1>3. CASE Closed
    <2>1. cluster = "closed" /\ cluster' = "connecting" /\ UNCHANGED <<timer, isRefreshing, waited>>
      BY <1>3 DEF Closed, refresh
    <2>. QED BY <1>1, <1>2, <2>1 DEF NoticeInv, Clusters, StoppedWithoutNodes, HasNodes,
                                     FailuresAreNoticed
  <1>4. CASE TimerFires
    <2>1. CASE HasNodes \/ isRefreshing
      <3>1. cluster' = cluster /\ isRefreshing' /\ waited'
        BY <1>4, <2>1 DEF TimerFires, RefreshSlotsCache
      <3>. QED BY <1>1, <1>2, <3>1 DEF NoticeInv, Clusters, StoppedWithoutNodes, HasNodes,
                                       FailuresAreNoticed
    <2>2. CASE ~HasNodes /\ ~isRefreshing
      <3>1. cluster' = "closed" /\ \A n \in Nodes : subscribers[n].status = "none"
        BY <1>4, <2>2, MadeSubscribers DEF TimerFires, NoticeInv, StoppedWithoutNodes
      <3>. QED BY <1>1, <1>2, <2>2, <3>1 DEF NoticeInv, Clusters, StoppedWithoutNodes, HasNodes,
                                             FailuresAreNoticed
    <2>. QED BY <2>1, <2>2
  <1>5. CASE SlotsAnswered \/ Learned \/ Rejects \/ UNCHANGED vars \/ \E m \in Slots : Redirected(m)
    <2>1. /\ cluster' = cluster /\ (timer => timer')
          /\ UNCHANGED <<isRefreshing, waited>> \/ RefreshSlotsCache(FALSE)
      <3>1. CASE SlotsAnswered
        BY <3>1 DEF SlotsAnswered
      <3>2. CASE Learned
        BY <3>2 DEF Learned, rest, refresh
      <3>3. CASE Rejects
        BY <3>3 DEF Rejects, refresh
      <3>4. CASE UNCHANGED vars
        BY <3>4 DEF vars, refresh
      <3>5. ASSUME NEW m \in Slots, Redirected(m)
            PROVE  UNCHANGED <<cluster, timer>> /\ RefreshSlotsCache(FALSE)
        BY <3>5 DEF Redirected
      <3>. QED BY <1>5, <3>1, <3>2, <3>3, <3>4, <3>5
    <2>2. OnItsWay => OnItsWay'
      BY <1>1, <2>1 DEF OnItsWay, RefreshSlotsCache
    <2>. QED BY <1>1, <1>2, <2>1, <2>2, NoNewEnd
  <1>. QED BY <1>3, <1>4, <1>5

\* The answer to CLUSTER SLOTS arrives.
LEMMA ArrivalNotices ==
  ASSUME NoticeInv, SlotsArrived
  PROVE  NoticeInv'
PROOF
  <1>1. CASE cluster = "closed"
    <2>1. UNCHANGED <<cluster, subscribers, pendingReset, channels>>
      BY <1>1 DEF SlotsArrived, group
    <2>2. \A n \in Nodes : subscribers[n].status = "none"
      BY <1>1, MadeSubscribers DEF NoticeInv, StoppedWithoutNodes, HasNodes
    <2>. QED BY <2>1, <2>2 DEF NoticeInv, GroupTypes, Clusters, StoppedWithoutNodes, HasNodes,
                               FailuresAreNoticed
  <1>2. CASE cluster # "closed"
    <2>1. Reset(answer) /\ channels' = channels /\ cluster' \in {"renewed", "up"}
      BY <1>2 DEF SlotsArrived, NoticeInv, Clusters
    <2>. QED BY <2>1, ResetNotices
  <1>. QED BY <1>1, <1>2

\* A subscriber that has ended has a refresh on its way, or a reset that was put off, which
\* will replace it (ClusterSubscriberGroup#reset).
THEOREM FailuresTheorem == Spec => []FailuresAreNoticed
PROOF
  <1>1. Init => NoticeInv
    <2> SUFFICES ASSUME Init PROVE NoticeInv
      OBVIOUS
    <2>1. GroupTypes /\ \A n \in Nodes : subscribers[n] = NoSub
      BY MadeSubscribers DEF Init, GroupTypes
    <2>2. cluster = "connecting" /\ ~pendingReset
      BY DEF Init
    <2>. QED BY <2>1, <2>2, MadeSubscribers DEF NoticeInv, Clusters, StoppedWithoutNodes,
                                                FailuresAreNoticed
  <1>2. NoticeInv /\ [Next]_vars => NoticeInv'
    <2> SUFFICES ASSUME NoticeInv, [Next]_vars PROVE NoticeInv'
      OBVIOUS
    <2>1. CASE Application
      BY <2>1, CommandsNotice DEF Application
    <2>2. CASE Connections
      BY <2>2, ConnectionsNotice, OthersNotice DEF Connections
    <2>3. CASE ResetDone
      BY <2>3, ResetDoneNotices
    <2>4. CASE Reconnection
      <3>1. CASE ClusterUp
        BY <3>1, ResetNotices DEF ClusterUp
      <3>. QED BY <2>4, <3>1, OthersNotice DEF Reconnection
    <2>5. CASE Refreshes
      BY <2>5, OthersNotice, ArrivalNotices DEF Refreshes
    <2>6. CASE Environment
      <3>1. CASE ClusterDown \/ RefreshFailed
        BY <3>1, DisconnectNotices DEF ClusterDown, RefreshFailed
      <3>. QED BY <2>6, <3>1, LostNotices, MigrateNotices, ConnectionsNotice, OthersNotice
               DEF Environment
    <2>7. CASE Learned \/ UNCHANGED vars
      BY <2>7, OthersNotice
    <2>. QED BY <2>1, <2>2, <2>3, <2>4, <2>5, <2>6, <2>7 DEF Next
  <1>3. NoticeInv => FailuresAreNoticed
    BY DEF NoticeInv
  <1>. QED BY <1>1, <1>2, <1>3, PTL DEF Spec
=============================================================================
