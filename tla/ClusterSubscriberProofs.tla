------------------------ MODULE ClusterSubscriberProofs ------------------------
(***************************************************************************)
(* Proof that the subscriber of the cluster client forgets no channel, for *)
(* any set of nodes and channels and any number of faults.                 *)
(***************************************************************************)
EXTENDS ClusterSubscriber, TLAPS

\* The values of what selectSubscriber works on.
SelectionTypes ==
  /\ pool \subseteq Nodes
  /\ subscriber \in [node: Nodes \cup {NoNode}, conn: {"none", "wait", "connecting", "ready"},
                     resubscribing: SUBSET Channels, channels: SUBSET Channels]
  /\ subscriber.conn = "none" <=> subscriber.node = NoNode
  /\ lastActive \in {"none", "current", "former"} /\ former \subseteq Channels
  /\ called \in [Channels -> {"no", "sent", "delayed", "subscribed"}]
  /\ misjudged \in BOOLEAN

\* What an instance has, or is being given, is known to lastActiveSubscriber: the channels of
\* an instance that counts as active are its own, and one that does not count yet is being
\* given those of the last one that did.
ActiveHasAll ==
  /\ lastActive = "current" => subscriber.resubscribing = {}
  /\ lastActive # "current" => subscriber.channels = {}
  /\ lastActive = "former" /\ Exists =>
       subscriber.resubscribing = former /\ former # {}
  /\ lastActive = "none" => ~Exists
  /\ ~Exists => subscriber = None

\* Every channel that was subscribed is where the next instance takes its channels from.
SubscribedAreKnown == \A c \in Channels : called[c] = "subscribed" => c \in LastChannels

\* The inductive invariant: both hold until a resubscription is misjudged.
SelectionInv == SelectionTypes /\ (~misjudged => ActiveHasAll /\ SubscribedAreKnown)

------------------------------------------------------------------------------
\* Selecting another instance, or none, passes on all that is known.
LEMMA SelectKeeps ==
  ASSUME SelectionInv, NEW ns \in SUBSET Nodes, SelectSubscriber(ns) \/ Without,
         pool' \subseteq Nodes, misjudged' = misjudged
  PROVE  SelectionInv'
PROOF
  <1> USE ClusterSubscriberAssumption
  <1> USE DEF SelectionInv, SelectionTypes, LastChannels, Exists, None
  <1>1. LastChannels \subseteq Channels
    OBVIOUS
  <1>2. /\ called' \in [Channels -> {"no", "sent", "delayed", "subscribed"}]
        /\ \A c \in Channels : called'[c] = "subscribed" => called[c] = "subscribed"
    BY DEF SelectSubscriber, Without, Disconnected
  <1>3. CASE Without
    BY <1>1, <1>2, <1>3 DEF Without, ActiveHasAll, SubscribedAreKnown
  <1>4. ASSUME NEW n \in ns,
               subscriber' = [node |-> n, channels |-> {}, resubscribing |-> LastChannels,
                              conn |-> IF LastChannels = {} THEN "wait" ELSE "connecting"],
               former' = LastChannels, lastActive' = Active(LastChannels)
        PROVE  SelectionInv'
    <2>1. SelectionTypes'
      BY <1>1, <1>2, <1>4 DEF Active
    <2>2. ActiveHasAll'
      BY <1>4 DEF Active, ActiveHasAll
    <2>3. LastChannels' = LastChannels
      BY <1>4 DEF Active
    <2>4. SubscribedAreKnown => SubscribedAreKnown'
      BY <1>2, <2>3 DEF SubscribedAreKnown
    <2>. QED BY <2>1, <2>2, <2>4
  <1>. QED
    BY <1>3, <1>4 DEF SelectSubscriber

\* A reply, or a command of the application, changes at most what the instance in use has.
LEMMA CommandsKeep ==
  ASSUME SelectionInv, NEW c \in Channels,
         Subscribe(c) \/ Unsubscribe(c) \/ Subscribed(c) \/ Retry(c)
  PROVE  SelectionInv'
PROOF
  <1> USE DEF SelectionInv, SelectionTypes, ActiveHasAll, SubscribedAreKnown, LastChannels, Exists, None
  <1>1. CASE Subscribe(c)
    BY <1>1 DEF Subscribe, Sent
  <1>2. CASE Unsubscribe(c)
    BY <1>2 DEF Unsubscribe
  <1>3. CASE Subscribed(c)
    BY <1>3 DEF Subscribed
  <1>4. CASE Retry(c)
    BY <1>4 DEF Retry, Sent
  <1>. QED
    BY <1>1, <1>2, <1>3, <1>4

\* The invariant is inductive: one case per action.
LEMMA SelectionKeeps ==
  ASSUME SelectionInv, [Next]_vars
  PROVE  SelectionInv'
PROOF
  <1> USE DEF SelectionInv, SelectionTypes, ActiveHasAll, SubscribedAreKnown, LastChannels, Exists, None
  <1>1. CASE Start \/ StartAgain \/ Stop \/ SubscriberEnds
    <2>1. pool' \subseteq Nodes /\ misjudged' = misjudged
      BY <1>1 DEF Start, StartAgain, Stop, SubscriberEnds
    <2>2. SelectSubscriber(pool) \/ Without
      BY <1>1 DEF Start, StartAgain, Stop, SubscriberEnds
    <2>. QED BY <2>1, <2>2, SelectKeeps
  <1>2. ASSUME NEW n \in Nodes, NodeJoins(n) \/ NodeLeaves(n)
        PROVE  SelectionInv'
    <2>1. pool' \subseteq Nodes /\ misjudged' = misjudged
      BY <1>2 DEF NodeJoins, NodeLeaves
    <2>2. CASE SelectSubscriber(pool')
      BY <2>1, <2>2, SelectKeeps
    <2>3. CASE UNCHANGED <<selection, called>>
      BY <2>1, <2>3 DEF selection
    <2>. QED BY <1>2, <2>2, <2>3 DEF NodeJoins, NodeLeaves
  <1>3. ASSUME NEW c \in Channels, Subscribe(c) \/ Unsubscribe(c) \/ Subscribed(c) \/ Retry(c)
        PROVE  SelectionInv'
    BY <1>3, CommandsKeep
  <1>4. CASE Ready
    BY <1>4 DEF Ready
  <1>5. CASE Resubscribed
    BY <1>5 DEF Resubscribed
  <1>6. CASE ResubscribeFails \/ LateReply
    BY <1>6 DEF ResubscribeFails, LateReply
  <1>7. CASE UNCHANGED vars
    BY <1>7 DEF vars, selection
  <1>. QED
    BY <1>1, <1>2, <1>3, <1>4, <1>5, <1>6, <1>7 DEF Next, Replies

\* However nodes and connections are lost, no sequence of selections forgets a channel that
\* was subscribed (lastActiveSubscriber of ClusterSubscriber.ts), as long as no resubscription
\* was refused or answered too late.
THEOREM NothingForgottenTheorem == Spec => []NothingForgotten
PROOF
  <1>1. Init => SelectionInv
    <2> SUFFICES ASSUME Init PROVE SelectionInv
      OBVIOUS
    <2>1. SelectionTypes
      BY DEF Init, SelectionTypes, None
    <2>2. ActiveHasAll
      BY DEF Init, ActiveHasAll, Exists, None
    <2>3. SubscribedAreKnown
      BY DEF Init, SubscribedAreKnown
    <2>. QED BY <2>1, <2>2, <2>3 DEF SelectionInv
  <1>2. SelectionInv /\ [Next]_vars => SelectionInv'
    BY SelectionKeeps
  <1>3. SelectionInv => NothingForgotten
    BY DEF SelectionInv, SubscribedAreKnown, NothingForgotten
  <1>. QED
    BY <1>1, <1>2, <1>3, PTL DEF Spec
=============================================================================
