------------------------------ MODULE Sentinel ------------------------------
(***************************************************************************)
(* A client that finds its node through sentinels:                         *)
(* lib/connectors/SentinelConnector (index.ts, SentinelIterator.ts,        *)
(* FailoverDetector.ts), with the part of lib/Redis.ts and                 *)
(* lib/redis/event_handler.ts that drives a connector.                     *)
(*                                                                         *)
(* The environment is a master and its replicas with the sentinels that    *)
(* watch them.  A failover makes another node the master; each sentinel    *)
(* learns of it in its own time and publishes +switch-master, and the      *)
(* former master is made a replica.  A node whose role changes closes its  *)
(* connections (sentinels send CLIENT KILL TYPE normal).  Some sentinels   *)
(* are down and some are cut off from the others for good.                 *)
(*                                                                         *)
(* Left out: disconnect() and quit() of the application (RedisClient has   *)
(* them), TLS, natMap, preferredSlaves, and lost connections of the        *)
(* detector's own clients.                                                 *)
(***************************************************************************)
EXTENDS Integers, Sequences, SequencesExt, FiniteSets

CONSTANTS
  Nodes, Sentinels, Null,
  FirstMaster,             \* the master in the beginning
  Given,                   \* the lists of sentinels the application may give
  FailoverDetector,        \* the values of options.failoverDetector: a subset of BOOLEAN
  PreferredSlaves,         \* options.preferredSlaves, in the order of their priorities
  MaxConnections,          \* options.sentinelMaxConnections
  MaxFailovers, MaxFaults  \* bounds on the environment

VARIABLES
  master, role, gone,      \* the elected master; the role of each node; a node that vanished
  view,                    \* the master each sentinel reports
  down, stale,             \* sentinels that never answer, and that never learn
  want, detecting,         \* options.role, options.failoverDetector
  status,                  \* Redis.status
  asking,                  \* what connectToNext waits for
  iterator,                \* SentinelIterator: sentinels, cursor
  connecting,              \* AbstractConnector.connecting
  stream,                  \* the socket: at, state, ending (end() was called), cut (by the
                           \* node), info (the role in the answer to INFO)
  detector,                \* the FailoverDetector: on, pending and active subscriptions
  told,                    \* sentinels whose +switch-master is on its way to the detector
  failovers, faults

environment == <<master, role, gone, view, failovers>>
options == <<down, stale, want, detecting>>
vars == <<environment, options, status, asking, iterator, connecting, stream, detector, told,
          faults>>

Asleep == [at |-> Null, step |-> "asleep", found |-> Null]
Ask(s) == [at |-> s, step |-> "address", found |-> Null]
Idle == [at |-> Null, step |-> "none", found |-> Null]
NoStream == [at |-> Null, state |-> "none", ending |-> FALSE, cut |-> FALSE, info |-> Null]
NoDetector == [on |-> FALSE, pending |-> {}, subscribed |-> {}]

Init ==
  /\ master = FirstMaster /\ role = [n \in Nodes |-> IF n = master THEN "master" ELSE "slave"]
  /\ view = [s \in Sentinels |-> master] /\ gone = Null
  /\ down \in SUBSET Sentinels /\ stale \in SUBSET (Sentinels \ down)
  /\ down \cup stale # Sentinels
  /\ want \in {"master", "slave"} /\ detecting \in FailoverDetector
  /\ iterator \in [sentinels : Given, cursor : {0}]
  /\ \E i \in DOMAIN iterator.sentinels : iterator.sentinels[i] \notin down \cup stale
  /\ status = "reconnecting" /\ asking = Idle /\ connecting = FALSE
  /\ stream = NoStream /\ detector = NoDetector /\ told = {}
  /\ failovers = 0 /\ faults = 0

------------------------------------------------------------------------------
(* SentinelIterator.                                                         *)

NextItem(it) ==
  IF it.cursor >= Len(it.sentinels) THEN it ELSE [it EXCEPT !.cursor = @ + 1]

\* reset(true): the endpoint before the cursor comes first.
MoveFirst(it) ==
  LET from == IF it.cursor = 0 THEN Len(it.sentinels) ELSE it.cursor
  IN  IF Len(it.sentinels) > 1 /\ it.cursor # 1
      THEN [sentinels |-> SubSeq(it.sentinels, from, Len(it.sentinels)) \o
                            SubSeq(it.sentinels, 1, from - 1),
            cursor |-> 0]
      ELSE [it EXCEPT !.cursor = 0]

Add(it, found) ==
  [it EXCEPT !.sentinels =
     @ \o SelectSeq(SetToSeq(found), LAMBDA s : ~Contains(it.sentinels, s))]

\* Mutant: the client begins with the same sentinel after it was sent to a wrong node.
Rotated_Not(it) == [it EXCEPT !.cursor = 0]

\* SentinelConnector.check, when the role does not match
Rotated(it) == MoveFirst(NextItem(NextItem(it)))

------------------------------------------------------------------------------
(* The connector.                                                            *)

\* connectToNext
ConnectToNext ==
  IF iterator.cursor >= Len(iterator.sentinels)
  THEN /\ iterator' = [iterator EXCEPT !.cursor = 0]
       /\ asking' = Asleep
  ELSE /\ iterator' = NextItem(iterator)
       /\ asking' = Ask(iterator.sentinels[iterator.cursor + 1])

\* _connect
Connect ==
  /\ status = "reconnecting"
  /\ status' = "connecting" /\ connecting' = TRUE
  /\ ConnectToNext
  /\ UNCHANGED <<environment, options, stream, detector, told, faults>>

\* sentinelRetryStrategy's delay is over.
Retry ==
  /\ asking = Asleep
  /\ ConnectToNext
  /\ UNCHANGED <<environment, options, status, connecting, stream, detector, told, faults>>

\* connectToNext was disconnected while it waited: connect() fails, and its caller ends.
Abandon ==
  /\ ~connecting
  /\ asking' = Idle /\ status' = "end"
  /\ UNCHANGED <<iterator, stream>>

\* resolve() has settled: with a node, or with null or an error.
Resolved(n) ==
  \/ Abandon
  \/ /\ connecting
     /\ stream' = [NoStream EXCEPT !.at = n, !.state = "opening"]
     /\ asking' = Idle
     /\ UNCHANGED <<iterator, status>>

NotResolved ==
  \/ Abandon
  \/ connecting /\ ConnectToNext /\ UNCHANGED <<status, stream>>

\* A sentinel's connection is refused, or is lost before it answered everything.
SentinelFails ==
  /\ asking.at # Null
  /\ \/ asking.at \in down /\ UNCHANGED faults
     \/ asking.at \notin down /\ faults < MaxFaults /\ faults' = faults + 1
  /\ NotResolved
  /\ UNCHANGED <<environment, options, connecting, detector, told>>

\* resolveMaster: the address, before updateSentinels
MasterFound ==
  /\ want = "master" /\ asking.step = "address" /\ asking.at \notin down
  /\ asking' = [asking EXCEPT !.step = "sentinels", !.found = view[asking.at]]
  /\ UNCHANGED <<environment, options, status, iterator, connecting, stream, detector, told,
                 faults>>

\* updateSentinels: the other sentinels this one sees, then resolveMaster returns
SentinelsFound ==
  /\ asking.step = "sentinels"
  /\ LET found == Sentinels \ (down \cup {asking.at})
     IN  \/ /\ connecting
            /\ stream' = [NoStream EXCEPT !.at = asking.found, !.state = "opening"]
            /\ asking' = Idle /\ iterator' = Add(iterator, found)
            /\ UNCHANGED status
         \/ /\ ~connecting
            /\ asking' = Idle /\ status' = "end" /\ iterator' = Add(iterator, found)
            /\ UNCHANGED stream
  /\ UNCHANGED <<environment, options, connecting, detector, told, faults>>

\* selectPreferredSentinel: the first of the preferred replicas that is available, or any
SelectPreferred(available) ==
  LET first == {n \in available : \E i \in DOMAIN PreferredSlaves :
                  /\ PreferredSlaves[i] = n
                  /\ \A j \in 1..(i - 1) : PreferredSlaves[j] \notin available}
  IN  IF first = {} THEN available ELSE first

\* resolveSlave: one of the replicas that the sentinel takes neither for disconnected nor for
\* down, if there are any
SlaveFound ==
  /\ want = "slave" /\ asking.step = "address" /\ asking.at \notin down
  /\ LET replicas == Nodes \ {view[asking.at]}
     IN  \E available \in SUBSET replicas :
           /\ IF available = replicas THEN UNCHANGED faults
              ELSE faults < MaxFaults /\ faults' = faults + 1
           /\ \/ \E n \in SelectPreferred(available) : Resolved(n)
              \/ available = {} /\ NotResolved
  /\ UNCHANGED <<environment, options, connecting, detector, told>>

\* disconnect: the stream's end() does nothing to a stream that is closed
DisconnectConnector(socket) ==
  /\ connecting' = FALSE
  /\ stream' = [socket EXCEPT !.ending = socket.state # "none"]
  /\ detector' = NoDetector
  /\ told' = {}

\* initFailoverDetector, up to the subscriptions it waits for
InitFailoverDetector ==
  LET first == MoveFirst(iterator).sentinels
      n == IF Len(first) < MaxConnections THEN Len(first) ELSE MaxConnections
  IN  IF detecting
      THEN /\ iterator' = [sentinels |-> first, cursor |-> 0]
           /\ detector' = [on |-> TRUE, pending |-> {first[i] : i \in 1..n}, subscribed |-> {}]
           /\ told' = {}
      ELSE UNCHANGED <<iterator, detector, told>>

\* The socket is connected: initFailoverDetector, connectHandler.
Opened ==
  /\ stream.state = "opening" /\ stream.at # gone
  /\ stream' = [stream EXCEPT !.state = "open"]
  /\ InitFailoverDetector
  /\ status' = "connect"
  /\ UNCHANGED <<environment, options, asking, connecting, faults>>

InfoSent ==
  /\ stream.state = "open" /\ stream.info = Null /\ ~stream.cut /\ ~stream.ending
  /\ stream.at # gone
  /\ stream' = [stream EXCEPT !.info = role[stream.at]]
  /\ UNCHANGED <<environment, options, status, asking, iterator, connecting, detector, told,
                 faults>>

\* The ready check: a node of the other role is left, with disconnect(true).  A socket that
\* is being closed may still deliver its INFO, and the sentinels are rotated then, too.
InfoRead ==
  /\ status = "connect" /\ stream.info # Null
  /\ \/ /\ stream.info = want
        /\ status' = "ready"
        /\ UNCHANGED <<iterator, connecting, stream, detector, told>>
     \/ /\ stream.info # want
        /\ iterator' = Rotated(iterator)
        /\ DisconnectConnector([stream EXCEPT !.info = Null])
        /\ UNCHANGED status
  /\ UNCHANGED <<environment, options, asking, faults>>

\* closeHandler.  A stream whose node has vanished is destroyed: by connectTimeout, or by
\* disconnectTimeout after end().
Closed ==
  /\ \/ stream.state = "opening" /\ stream.at = gone
     \/ stream.state = "open" /\ (stream.ending \/ (stream.cut /\ stream.at # gone))
  /\ stream' = NoStream /\ status' = "reconnecting"
  /\ UNCHANGED <<environment, options, asking, iterator, connecting, detector, told, faults>>

\* FailoverDetector.subscribe
Subscribed(s) ==
  /\ s \in detector.pending \ down
  /\ detector' = [detector EXCEPT !.pending = @ \ {s}, !.subscribed = @ \cup {s}]
  /\ UNCHANGED <<environment, options, status, asking, iterator, connecting, stream, told, faults>>

\* +switch-master: FailoverDetector.disconnect
Message(s) ==
  /\ s \in told
  /\ DisconnectConnector(stream)
  /\ UNCHANGED <<environment, options, status, asking, iterator, faults>>

------------------------------------------------------------------------------
(* The nodes and the sentinels.                                              *)

ClosesAll(n) == stream' = [stream EXCEPT !.cut = @ \/ (stream.at = n /\ stream.state = "open")]

\* Another node is elected.  The former master may have vanished, if that is noticed: it has
\* no connection of this client, or the detector is subscribed at a sentinel that will learn of it.
Failover(n, vanishes) ==
  /\ failovers < MaxFailovers /\ n \notin {master, gone}
  /\ vanishes => /\ want = "master"
                 /\ \/ stream.at # master \/ stream.state # "open"
                    \/ \E s \in detector.subscribed \ stale : view[s] = master
  /\ master' = n /\ role' = [role EXCEPT ![n] = "master"]
  /\ gone' = IF vanishes THEN master ELSE gone
  /\ failovers' = failovers + 1
  /\ ClosesAll(n)
  /\ UNCHANGED <<options, view, status, asking, iterator, connecting, detector, told, faults>>

Demote(n) ==
  /\ n \notin {master, gone} /\ role[n] = "master"
  /\ role' = [role EXCEPT ![n] = "slave"]
  /\ ClosesAll(n)
  /\ UNCHANGED <<options, master, gone, view, failovers, status, asking, iterator, connecting,
                 detector, told, faults>>

Learn(s) ==
  /\ s \notin stale /\ view[s] # master
  /\ view' = [view EXCEPT ![s] = master]
  /\ told' = told \cup ({s} \cap detector.subscribed)
  /\ UNCHANGED <<options, master, role, gone, failovers, status, asking, iterator, connecting,
                 stream, detector, faults>>

\* A connection is refused, or lost.
Lost ==
  /\ faults < MaxFaults /\ stream.state # "none" /\ ~stream.ending
  /\ faults' = faults + 1
  /\ stream' = NoStream /\ status' = "reconnecting"
  /\ UNCHANGED <<environment, options, asking, iterator, connecting, detector, told>>

Proceed ==
  \/ Connect \/ Retry \/ SentinelFails \/ MasterFound \/ SentinelsFound \/ SlaveFound
  \/ Opened \/ InfoSent \/ InfoRead \/ Closed

Next ==
  \/ Proceed \/ Lost
  \/ \E s \in Sentinels : Subscribed(s) \/ Message(s) \/ Learn(s)
  \/ \E n \in Nodes : Demote(n) \/ \E vanishes \in BOOLEAN : Failover(n, vanishes)

\* The client's own steps, the sentinels' and the nodes' happen; failovers and faults need not.
Spec ==
  /\ Init /\ [][Next]_vars
  /\ WF_vars(Proceed)
  /\ \A s \in Sentinels : WF_vars(Subscribed(s)) /\ WF_vars(Message(s)) /\ WF_vars(Learn(s))
  /\ \A n \in Nodes : WF_vars(Demote(n))

------------------------------------------------------------------------------
(* Properties.                                                               *)

AtTheRightNode ==
  /\ status = "ready" /\ ~stream.cut /\ ~stream.ending /\ role[stream.at] = want
  /\ want = "master" => stream.at = master

\* Once failovers and faults are over the client stays at a node of the role it wants, as long
\* as one sentinel it was given is up and learns of failovers: whatever the others say.  Only
\* a late message to a detector may end it before.
FindsItsNode == <>[]AtTheRightNode \/ (detecting /\ <>(status = "end"))

\* The application has not disconnected the client, so it never ends: "All commands sent during
\* the failover are queued and will be executed when the new connection is established."
NeverEnds == status # "end"
=============================================================================
