---------------------------- MODULE ClusterSubscriber ----------------------------
(***************************************************************************)
(* The subscriber of the cluster client: lib/cluster/ClusterSubscriber.ts. *)
(*                                                                         *)
(* All channels are subscribed at one node of the pool, on a connection of *)
(* their own that does not reconnect: when it ends, or its node leaves the *)
(* pool, another node is selected, and the channels of the last subscriber *)
(* that had them all (lastActiveSubscriber) are subscribed there.          *)
(*                                                                         *)
(* Only the instance in use is modelled; of the instances before it what   *)
(* is left is the channels of lastActiveSubscriber.  SUBSCRIBE stands for  *)
(* PSUBSCRIBE too; messages are left out.                                  *)
(***************************************************************************)
EXTENDS Integers, FiniteSets

CONSTANTS
  Nodes, NoNode, Channels,
  MaxFaults          \* bound: lost connections and nodes, stops, starts of what has
                     \* started, refusals, UNSUBSCRIBE

ASSUME ClusterSubscriberAssumption ==
  NoNode \notin Nodes /\ MaxFaults \in Nat

VARIABLES
  pool,              \* connectionPool.getNodes()
  started,
  subscriber,        \* the instance in use: its node, its connection, its subscriptions
  lastActive,        \* lastActiveSubscriber: "none", "current" (subscriber), "former"
  former,            \* the channels of a lastActiveSubscriber that is not in use any more
  stragglers,        \* disconnected instances that may still read a resubscription's reply
  called,            \* SUBSCRIBE of each channel: "no", "sent", "delayed", "subscribed"
  misjudged,         \* history: a resubscription was refused, or its reply read too late
  faults

selection == <<subscriber, lastActive, former, stragglers>>
vars == <<pool, started, selection, called, misjudged, faults>>

Fault == faults < MaxFaults /\ faults' = faults + 1

None == [node |-> NoNode, conn |-> "none", resubscribing |-> {}, channels |-> {}]
Exists == subscriber.node # NoNode

------------------------------------------------------------------------------
(* selectSubscriber.                                                         *)

\* condition.subscriber of lastActiveSubscriber.
LastChannels ==
  IF lastActive = "current" THEN subscriber.channels
  ELSE IF lastActive = "former" THEN former ELSE {}

\* The instance in use is disconnected: what the application had sent on it is delayed.
Disconnected ==
  /\ called' = [c \in Channels |-> IF called[c] = "sent" THEN "delayed" ELSE called[c]]
  /\ stragglers' = IF subscriber.conn = "ready" /\ subscriber.resubscribing # {}
                   THEN stragglers + 1 ELSE stragglers

\* No instance is in use.
Without ==
  /\ Disconnected
  /\ subscriber' = None /\ former' = LastChannels
  /\ lastActive' = IF lastActive = "none" THEN "none" ELSE "former"

\* Mutant: the new instance counts as active before it has the channels.
ActiveAtOnce(previous) == "current"
Active(previous) == IF previous = {} THEN "current" ELSE "former"

SelectSubscriber(ns) ==
  \/ ns = {} /\ Without
  \/ /\ Disconnected
     /\ \E n \in ns : subscriber' = [node |-> n, channels |-> {}, resubscribing |-> LastChannels,
                                     conn |-> IF LastChannels = {} THEN "wait" ELSE "connecting"]
     /\ former' = LastChannels /\ lastActive' = Active(LastChannels)

------------------------------------------------------------------------------
(* Calls of the cluster client and events of its pool.                       *)

Start ==
  /\ ~started /\ started' = TRUE
  /\ SelectSubscriber(pool)
  /\ UNCHANGED <<pool, misjudged, faults>>

\* The cluster had lost all its nodes, without disconnect(), and connects again.
StartAgain ==
  /\ started /\ Fault
  /\ SelectSubscriber(pool)
  /\ UNCHANGED <<pool, started, misjudged>>

\* stop(), in disconnect() and quit(), which empty the pool.
Stop ==
  /\ started /\ Fault
  /\ started' = FALSE /\ pool' = {} /\ Without
  /\ UNCHANGED misjudged

\* Mutant: a node that is discovered when there is no subscriber is not selected.
NodeJoins_Ignored(n) ==
  /\ n \notin pool /\ pool' = pool \cup {n}
  /\ UNCHANGED <<started, selection, called, misjudged, faults>>

\* "+node"
NodeJoins(n) ==
  /\ n \notin pool /\ pool' = pool \cup {n}
  /\ IF started /\ ~Exists THEN SelectSubscriber(pool') ELSE UNCHANGED <<selection, called>>
  /\ UNCHANGED <<started, misjudged, faults>>

\* "-node"
NodeLeaves(n) ==
  /\ n \in pool /\ Fault
  /\ pool' = pool \ {n}
  /\ IF started /\ subscriber.node = n
     THEN SelectSubscriber(pool') ELSE UNCHANGED <<selection, called>>
  /\ UNCHANGED <<started, misjudged>>

\* onSubscriberEnd
SubscriberEnds ==
  /\ subscriber.conn \in {"connecting", "ready"} /\ started /\ Fault
  /\ SelectSubscriber(pool)
  /\ UNCHANGED <<pool, started, misjudged>>

------------------------------------------------------------------------------
(* Commands.                                                                 *)

Sent(c) ==
  /\ called' = [called EXCEPT ![c] = "sent"]
  /\ subscriber' = [subscriber EXCEPT !.conn = IF @ = "wait" THEN "connecting" ELSE @]

Subscribe(c) ==
  /\ called[c] = "no" /\ Exists /\ Sent(c)
  /\ UNCHANGED <<pool, started, lastActive, former, stragglers, misjudged, faults>>

\* A delayed command is sent again, or rejected ("No subscriber for the cluster").
Retry(c) ==
  /\ called[c] = "delayed"
  /\ IF Exists THEN Sent(c)
     ELSE called' = [called EXCEPT ![c] = "no"] /\ UNCHANGED subscriber
  /\ UNCHANGED <<pool, started, lastActive, former, stragglers, misjudged, faults>>

Ready ==
  /\ subscriber.conn = "connecting"
  /\ subscriber' = [subscriber EXCEPT !.conn = "ready"]
  /\ UNCHANGED <<pool, started, lastActive, former, stragglers, called, misjudged, faults>>

\* The resubscription is answered, before what the application has sent.
Resubscribed ==
  /\ subscriber.conn = "ready" /\ subscriber.resubscribing # {}
  /\ subscriber' = [subscriber EXCEPT !.channels = @ \cup subscriber.resubscribing,
                                      !.resubscribing = {}]
  /\ lastActive' = "current"
  /\ UNCHANGED <<pool, started, former, stragglers, called, misjudged, faults>>

Subscribed(c) ==
  /\ subscriber.conn = "ready" /\ subscriber.resubscribing = {} /\ called[c] = "sent"
  /\ subscriber' = [subscriber EXCEPT !.channels = @ \cup {c}]
  /\ called' = [called EXCEPT ![c] = "subscribed"]
  /\ UNCHANGED <<pool, started, lastActive, former, stragglers, misjudged, faults>>

Unsubscribe(c) ==
  /\ subscriber.conn = "ready" /\ subscriber.resubscribing = {} /\ called[c] = "subscribed"
  /\ Fault
  /\ subscriber' = [subscriber EXCEPT !.channels = @ \ {c}]
  /\ called' = [called EXCEPT ![c] = "no"]
  /\ UNCHANGED <<pool, started, lastActive, former, stragglers, misjudged>>

\* The resubscription is refused: nothing is done about it.
ResubscribeFails ==
  /\ Fault
  /\ subscriber.conn = "ready" /\ subscriber.resubscribing # {}
  /\ subscriber' = [subscriber EXCEPT !.resubscribing = {}]
  /\ misjudged' = TRUE
  /\ UNCHANGED <<pool, started, lastActive, former, stragglers, called>>

\* The resubscription of an older instance is answered: whatever instance is in use counts
\* as active.
LateReply ==
  /\ stragglers > 0 /\ stragglers' = stragglers - 1
  /\ lastActive' = IF Exists THEN "current" ELSE "none"
  /\ misjudged' = TRUE
  /\ UNCHANGED <<pool, started, subscriber, former, called, faults>>

------------------------------------------------------------------------------
Init ==
  /\ pool = {} /\ started = FALSE
  /\ subscriber = None /\ lastActive = "none" /\ former = {} /\ stragglers = 0
  /\ called = [c \in Channels |-> "no"] /\ misjudged = FALSE /\ faults = 0

Replies == Ready \/ Resubscribed \/ \E c \in Channels : Subscribed(c) \/ Retry(c)

Next ==
  \/ Start \/ StartAgain \/ Stop \/ SubscriberEnds
  \/ \E n \in Nodes : NodeJoins(n) \/ NodeLeaves(n)
  \/ \E c \in Channels : Subscribe(c) \/ Unsubscribe(c)
  \/ Replies \/ ResubscribeFails \/ LateReply

Spec == Init /\ [][Next]_vars

\* The cluster connects again, it discovers nodes, and connections come about.
Fairness ==
  /\ WF_vars(Start) /\ WF_vars(\E n \in Nodes : NodeJoins(n)) /\ WF_vars(Replies)
FairSpec == Spec /\ Fairness

------------------------------------------------------------------------------
(* Properties.                                                               *)

\* A channel that was subscribed is subscribed or being resubscribed at the instance in use,
\* or known to the instance its channels will be taken from: no sequence of selections
\* loses it, unless a resubscription was refused or its reply was read too late.
NothingForgotten ==
  ~misjudged => \A c \in Channels : called[c] = "subscribed" =>
    c \in subscriber.channels \cup subscriber.resubscribing \cup LastChannels

\* In the end every channel is subscribed at the instance in use, however often nodes and
\* connections are lost and the cluster reconnects.
SubscriptionsAreRestored ==
  []<>(misjudged \/ \A c \in Channels : called[c] = "subscribed" => c \in subscriber.channels)
==============================================================================
