-------------------------------- MODULE PubSub --------------------------------
(***************************************************************************)
(* Subscriptions of one client: the pub/sub half of lib/DataHandler.ts,    *)
(* lib/SubscriptionSet.ts and the resubscription of readyHandler in        *)
(* lib/redis/event_handler.ts, over a connection that is lost and comes    *)
(* back (module RedisClient has what that takes).                          *)
(*                                                                         *)
(* Under RESP3 confirmations and messages are push frames; under RESP2     *)
(* they are replies like any other, told apart by the subscriber mode and  *)
(* by their first element.  Replies name no command, and a SUBSCRIBE of    *)
(* several channels gets several of them: a command stays at the head of   *)
(* the queue until it has received as many as it expects.                  *)
(*                                                                         *)
(* Flushing (maxRetriesPerRequest) and databases are left out, and so are  *)
(* slots that migrate (module ShardedSubscribers has them).  The handshake *)
(* is one step, and its commands are not queued.                           *)
(***************************************************************************)
EXTENDS Integers, Sequences, FiniteSets, SequencesExt

CONSTANTS
  Commands,      \* the application's commands
  Name,          \* their names
  Args,          \* their arguments: sequences of channels (or of keys)
  Channels,
  Protocols,     \* the protocol versions a connection may end up with
  AutoResubscribe, AutoResend,
  NoCmd, NoChannel, NoSet, NoCondition,
  CutConfirmations,  \* may a connection be lost between two confirmations of a command
  MaxFaults      \* bound: lost connections

Enter == {"subscribe", "psubscribe", "ssubscribe"}
Exit == {"unsubscribe", "punsubscribe", "sunsubscribe"}
Names == Enter \cup Exit \cup {"get"}

ASSUME PubSubAssumption ==
  /\ NoCmd \notin Commands /\ NoChannel \notin Channels
  /\ \A s \in SUBSET (Enter \X Channels) : s # NoSet /\ s # NoCondition
  /\ NoSet # NoCondition
  /\ Name \in [Commands -> Names]
  /\ Args \in [Commands -> Seq(Channels)]
  /\ \A c \in Commands : Name[c] \in Exit \/ Args[c] # <<>>
  /\ Protocols \subseteq {2, 3}
  /\ AutoResubscribe \in BOOLEAN /\ AutoResend \in BOOLEAN
  /\ CutConfirmations \in BOOLEAN
  /\ MaxFaults \in Nat

VARIABLES
  status,            \* "connecting", "ready", "reconnecting"
  protocol,          \* condition.protocol once the handshake is over
  subscriber,        \* condition.subscriber: the subscriptions, or NoSet for false
  prevSubscriber,    \* prevCondition.subscriber, or NoCondition
  offlineQueue, commandQueue, prevCommandQueue,
  sent, replies,     \* the wire
  serverSubs,        \* the server's subscriptions of this connection
  \* history
  outcome,           \* what each caller was told
  wanted,            \* the subscriptions the application asked for
  misdelivered,      \* a command was given the reply to another
  leftEarly,         \* the subscriber mode was left with subscriptions remaining
  faults

client == <<subscriber, prevSubscriber>>
queues == <<offlineQueue, commandQueue, prevCommandQueue>>
vars == <<status, protocol, client, queues, sent, replies, serverSubs,
          outcome, wanted, misdelivered, leftEarly, faults>>

------------------------------------------------------------------------------
(* Subscriptions, commands and frames.                                       *)

Subscriptions == Enter \X Channels

\* SubscriptionSet's mapSet.
Kind(name) == CASE name = "unsubscribe" -> "subscribe"
                [] name = "punsubscribe" -> "psubscribe"
                [] name = "sunsubscribe" -> "ssubscribe"
                [] OTHER -> name

Command == [name: Names, args: Seq(Channels), caller: Commands \cup {NoCmd}]
CommandOf(c) == [name |-> Name[c], args |-> Args[c], caller |-> c]

\* remaining is what remainingRepliesMap holds for the command, which is args.length
\* at first, and belongs to the command wherever it is queued.
Item(command) == [command |-> command, remaining |-> Len(command.args)]

Named(command) == {<<Kind(command.name), command.args[i]>> : i \in DOMAIN command.args}
ChannelsOf(kind, subs) == {s[2] : s \in {t \in subs : t[1] = kind}}

\* What an UNSUBSCRIBE names: the channels of its kind if it names none.
Dropped(command, subs) ==
  IF command.args = <<>> THEN SetToSeq(ChannelsOf(Kind(command.name), subs)) ELSE command.args

Frame(type, channel, count, command) ==
  [type |-> type, channel |-> channel, count |-> count, command |-> command]

Known == IF subscriber = NoSet THEN {} ELSE subscriber

------------------------------------------------------------------------------
(* The server.                                                               *)

\* The subscriptions left after it confirmed the first n channels of a command.
SubsAfter(command, n, subs) ==
  IF command.name \in Enter THEN subs \cup {<<command.name, command.args[i]>> : i \in 1..n}
  ELSE IF command.name \in Exit
  THEN subs \ {<<Kind(command.name), Dropped(command, subs)[i]>> : i \in 1..n}
  ELSE subs

\* Sharded channels are counted apart from the others.
Count(command, subs) ==
  Cardinality({s \in subs : (s[1] = "ssubscribe") = (Kind(command.name) = "ssubscribe")})

Confirmations(command, chs, subs) ==
  [i \in DOMAIN chs |->
    Frame(command.name, chs[i], Count(command, SubsAfter(command, i, subs)), command)]

Answers(command, subs) ==
  IF command.name \in Enter THEN Confirmations(command, command.args, subs)
  ELSE IF command.name \in Exit
  THEN IF Dropped(command, subs) = <<>>
       THEN <<Frame(command.name, NoChannel, Count(command, subs), command)>>
       ELSE Confirmations(command, Dropped(command, subs), subs)
  ELSE IF protocol = 2 /\ subs # {}
  THEN <<Frame("error", NoChannel, 0, command)>>
  ELSE <<Frame("reply", NoChannel, 0, command)>>

Confirmed(command, subs) ==
  Len(IF command.name \in Exit THEN Dropped(command, subs) ELSE command.args)

ServerRuns ==
  /\ sent # <<>>
  /\ LET command == Head(sent)
     IN  /\ replies' = replies \o Answers(command, serverSubs)
         /\ serverSubs' = SubsAfter(command, Confirmed(command, serverSubs), serverSubs)
  /\ sent' = Tail(sent)
  /\ UNCHANGED <<status, protocol, client, queues, outcome, wanted, misdelivered, leftEarly, faults>>

\* Somebody publishes; one message is on its way at a time.
Publish ==
  /\ \A i \in DOMAIN replies : replies[i].type # "message"
  /\ \E s \in serverSubs :
       replies' = Append(replies, Frame("message", s[2], 0,
                                        [name |-> s[1], args |-> <<s[2]>>, caller |-> NoCmd]))
  /\ UNCHANGED <<status, protocol, client, queues, sent, serverSubs, outcome, wanted,
                 misdelivered, leftEarly, faults>>

------------------------------------------------------------------------------
(* The application: Redis#sendCommand.                                       *)

\* isResp2SubscriberMode, and the commands that are valid in it.
RefusedInMode(name) == subscriber # NoSet /\ protocol # 3 /\ name \notin Enter \cup Exit

Wants(c) == CASE Name[c] \in Enter -> wanted \cup Named(CommandOf(c))
              [] Name[c] \in Exit  ->
                   wanted \ {<<Kind(Name[c]), ch>> : ch \in ToSet(Dropped(CommandOf(c), wanted))}
              [] OTHER -> wanted

IssueRefused(c) ==
  /\ outcome[c] = "idle"
  /\ RefusedInMode(Name[c])
  /\ outcome' = [outcome EXCEPT ![c] = "error"]
  /\ UNCHANGED <<status, protocol, client, queues, sent, replies, serverSubs, wanted,
                 misdelivered, leftEarly, faults>>

Issue(c) ==
  /\ outcome[c] = "idle"
  /\ ~RefusedInMode(Name[c])
  /\ outcome' = [outcome EXCEPT ![c] = "pending"]
  /\ wanted' = Wants(c)
  /\ IF status = "ready"
     THEN /\ commandQueue' = Append(commandQueue, Item(CommandOf(c)))
          /\ sent' = Append(sent, CommandOf(c))
          /\ UNCHANGED offlineQueue
     ELSE /\ offlineQueue' = Append(offlineQueue, Item(CommandOf(c)))
          /\ UNCHANGED <<commandQueue, sent>>
  /\ UNCHANGED <<status, protocol, client, prevCommandQueue, replies, serverSubs, misdelivered, leftEarly,
                 faults>>

------------------------------------------------------------------------------
(* The connection.                                                           *)

\* Mutant: the condition of every connection that is lost is kept.
PrevCondition_Latest == subscriber

\* closeHandler: prevCondition is the condition of the last connection that was ready.
PrevCondition ==
  IF status = "ready" /\ prevSubscriber = NoCondition THEN subscriber ELSE prevSubscriber

\* No command has received some of its confirmations and waits for others.
NothingCut == \A i \in DOMAIN commandQueue : commandQueue[i] = Item(commandQueue[i].command)

Lose ==
  /\ status # "reconnecting"
  /\ CutConfirmations \/ NothingCut
  /\ faults < MaxFaults /\ faults' = faults + 1
  /\ status' = "reconnecting"
  /\ prevSubscriber' = PrevCondition
  /\ prevCommandQueue' = IF status = "ready" /\ commandQueue # <<>>
                         THEN commandQueue ELSE prevCommandQueue
  /\ sent' = <<>> /\ replies' = <<>> /\ serverSubs' = {}
  /\ UNCHANGED <<protocol, subscriber, offlineQueue, commandQueue, outcome, wanted, misdelivered, leftEarly>>

\* _connect makes a new condition, connectHandler a new command queue.
Reconnect ==
  /\ status = "reconnecting"
  /\ status' = "connecting"
  /\ subscriber' = NoSet
  /\ commandQueue' = <<>>
  /\ UNCHANGED <<protocol, prevSubscriber, offlineQueue, prevCommandQueue, sent, replies,
                 serverSubs, outcome, wanted, misdelivered, leftEarly, faults>>

Subscribe(kind, chs) ==
  IF chs = {} THEN <<>>
  ELSE <<Item([name |-> kind, args |-> SetToSeq(chs), caller |-> NoCmd])>>

\* Sharded channels, whose slots may differ, are subscribed one by one.
Resubscriptions(subs) ==
  Subscribe("subscribe", ChannelsOf("subscribe", subs))
    \o Subscribe("psubscribe", ChannelsOf("psubscribe", subs))
    \o FlattenSeq([i \in 1..Cardinality(ChannelsOf("ssubscribe", subs)) |->
         Subscribe("ssubscribe", {SetToSeq(ChannelsOf("ssubscribe", subs))[i]})])

\* readyHandler: the old subscriptions, the unanswered commands, the offline queue.
Ready ==
  /\ status = "connecting"
  /\ status' = "ready"
  /\ LET resubscribed == IF prevSubscriber \in {NoCondition, NoSet} \/ ~AutoResubscribe
                         THEN <<>> ELSE Resubscriptions(prevSubscriber)
         resent == IF AutoResend THEN prevCommandQueue ELSE <<>>
     IN  commandQueue' = resubscribed \o resent \o offlineQueue
  /\ sent' = [i \in DOMAIN commandQueue' |-> commandQueue'[i].command]
  /\ prevSubscriber' = NoCondition
  /\ prevCommandQueue' = <<>>
  /\ offlineQueue' = <<>>
  /\ UNCHANGED <<protocol, subscriber, replies, serverSubs, outcome, wanted, misdelivered, leftEarly, faults>>

------------------------------------------------------------------------------
(* DataHandler.                                                              *)

Arrived == Head(replies)
HeadItem == Head(commandQueue)

Add(sub) == subscriber' = Known \cup {sub} /\ UNCHANGED leftEarly

\* Mutant: a channel stays in the set when it is unsubscribed.
Del_Keeps(frame) ==
  /\ subscriber' = IF frame.count = 0 THEN NoSet ELSE subscriber
  /\ UNCHANGED leftEarly

\* SubscriptionSet#del, and leaving the subscriber mode.
Del(frame) ==
  LET remaining == Known \ {<<Kind(frame.type), frame.channel>>}
  IN  /\ subscriber' = IF frame.count = 0 \/ subscriber = NoSet THEN NoSet ELSE remaining
      /\ leftEarly' = (leftEarly \/ (frame.count = 0 /\ remaining # {}))

Told(result) ==
  outcome' = IF HeadItem.command.caller = NoCmd THEN outcome
             ELSE [outcome EXCEPT ![HeadItem.command.caller] = result]

Shift == commandQueue' = Tail(commandQueue)

Resolve == Told("ok") /\ Shift

\* Mutant: the command waits behind the others for its other confirmations.
Unshift_Pushes(n) ==
  /\ commandQueue' = Tail(commandQueue) \o <<[HeadItem EXCEPT !.remaining = n]>>
  /\ UNCHANGED outcome

\* The head goes back to the front of the queue.
Unshift(n) ==
  /\ commandQueue' = <<[HeadItem EXCEPT !.remaining = n]>> \o Tail(commandQueue)
  /\ UNCHANGED outcome

FillSubCommand ==
  IF HeadItem.remaining - 1 <= 0 THEN Resolve ELSE Unshift(HeadItem.remaining - 1)

FillUnsubCommand(count) ==
  IF HeadItem.remaining = 0
  THEN IF count = 0 THEN Resolve ELSE Unshift(0)
  ELSE FillSubCommand

\* shiftCommand, and what the command it finds does with the frame.
GiveToHead(Fill) ==
  /\ misdelivered' = (misdelivered \/ commandQueue = <<>> \/ HeadItem.command # Arrived.command)
  /\ IF commandQueue = <<>> THEN UNCHANGED <<commandQueue, outcome>> ELSE Fill

Receive ==
  /\ status = "ready"
  /\ replies # <<>>
  /\ replies' = Tail(replies)
  /\ UNCHANGED <<status, protocol, prevSubscriber, offlineQueue, prevCommandQueue, sent,
                 serverSubs, wanted, faults>>

\* Does handleSubscriberReply, or returnPush, look at the frame?
PubSubFrame == protocol = 3 \/ subscriber # NoSet

\* Mutant: under RESP3 too, a confirmation is met only in subscriber mode.
IsUnsolicited_Mode == subscriber = NoSet \/ commandQueue = <<>> \/ HeadItem.command.name # Arrived.type

\* handleUnsolicitedUnsubscribe.
IsUnsolicited == commandQueue = <<>> \/ HeadItem.command.name # Arrived.type

ReturnMessage ==
  /\ Receive
  /\ Arrived.type = "message" /\ PubSubFrame
  /\ UNCHANGED <<subscriber, commandQueue, outcome, misdelivered, leftEarly>>

ReturnSubscribed ==
  /\ Receive
  /\ Arrived.type \in Enter /\ PubSubFrame
  /\ Add(<<Arrived.type, Arrived.channel>>)
  /\ GiveToHead(FillSubCommand)

ReturnUnsubscribed ==
  /\ Receive
  /\ Arrived.type \in Exit /\ PubSubFrame
  /\ Del(Arrived)
  /\ IF IsUnsolicited THEN UNCHANGED <<commandQueue, outcome, misdelivered>>
     ELSE GiveToHead(FillUnsubCommand(Arrived.count))

\* RESP2, not in subscriber mode: the command at the head tells what the frame is.
ReturnReplyByCommand ==
  /\ Receive
  /\ protocol = 2 /\ subscriber = NoSet /\ Arrived.type # "error"
  /\ IF commandQueue # <<>> /\ HeadItem.command.name \in Enter
     THEN /\ subscriber' = {<<HeadItem.command.name, Arrived.channel>>}
          /\ GiveToHead(FillSubCommand)
     ELSE /\ UNCHANGED subscriber
          /\ GiveToHead(IF HeadItem.command.name \in Exit
                        THEN FillUnsubCommand(Arrived.count) ELSE Resolve)
  /\ UNCHANGED leftEarly

\* A reply that is no confirmation resolves the head.
ReturnReply ==
  /\ Receive
  /\ Arrived.type = "reply" /\ PubSubFrame
  /\ UNCHANGED <<subscriber, leftEarly>>
  /\ GiveToHead(Resolve)

ReturnError ==
  /\ Receive
  /\ Arrived.type = "error"
  /\ UNCHANGED <<subscriber, leftEarly>>
  /\ GiveToHead(Told("error") /\ Shift)

------------------------------------------------------------------------------
Init ==
  /\ status = "connecting"
  /\ protocol \in Protocols
  /\ subscriber = NoSet /\ prevSubscriber = NoCondition
  /\ offlineQueue = <<>> /\ commandQueue = <<>> /\ prevCommandQueue = <<>>
  /\ sent = <<>> /\ replies = <<>> /\ serverSubs = {}
  /\ outcome = [c \in Commands |-> "idle"]
  /\ wanted = {} /\ misdelivered = FALSE /\ leftEarly = FALSE /\ faults = 0

DataHandler ==
  \/ ReturnMessage \/ ReturnSubscribed \/ ReturnUnsubscribed
  \/ ReturnReplyByCommand \/ ReturnReply \/ ReturnError

Connection == Reconnect \/ Ready

Next ==
  \/ Connection \/ ServerRuns \/ DataHandler
  \/ Lose \/ Publish
  \/ \E c \in Commands : Issue(c) \/ IssueRefused(c)

Spec == Init /\ [][Next]_vars

\* The connection is made again, the server runs what it is sent and frames are read,
\* however many messages are published.  Nothing is assumed of the application.
FairSpec == Spec /\ WF_vars(Connection) /\ WF_vars(ServerRuns) /\ WF_vars(DataHandler)

------------------------------------------------------------------------------
(* Properties.                                                               *)

\* Every frame that settles a command, or counts for it, is an answer to that command:
\* messages and confirmations are told from replies, whatever is on the wire, and
\* "Command queue state error" (DataHandler.shiftCommand) does not occur.  (Unless the
\* subscriber mode was left early: counts of sharded channels do not include the others,
\* nor theirs the sharded ones, and 0 is taken for the end of all subscriptions.)
NothingMisdelivered == misdelivered => leftEarly

\* When nothing is under way, client and server agree on the subscriptions, and they
\* are the ones the application asked for, across any number of lost connections.
InSync ==
  ~leftEarly /\ AutoResubscribe /\ AutoResend /\ status = "ready" /\ commandQueue = <<>> /\ replies = <<>>
    => Known = serverSubs /\ serverSubs = wanted

\* README: the channels a connection was subscribed to are subscribed again.
Restored ==
  \A s \in Subscriptions : s \in wanted ~> s \in serverSubs \/ s \notin wanted \/ leftEarly

\* Every command is answered, a SUBSCRIBE cut by a lost connection included.
Answered == \A c \in Commands : outcome[c] = "pending" ~> outcome[c] # "pending" \/ leftEarly
=============================================================================
