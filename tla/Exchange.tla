------------------------------- MODULE Exchange -------------------------------
(***************************************************************************)
(* Calls from the caller to the server and back: the request of a command, *)
(* its reply in chunks, the value the caller gets, and the timers that run *)
(* meanwhile (lib/Command.ts, lib/Script.ts, sendCommand and               *)
(* setSocketTimeout of lib/Redis.ts).                                      *)
(*                                                                         *)
(* The connection is what module RedisClient shows it to be: commands wait *)
(* in a queue while it is closed, and the unanswered ones are sent again   *)
(* when it is opened.  Time is in milliseconds; it advances by Step, while *)
(* a timer is armed.                                                       *)
(*                                                                         *)
(* Left out: subscriptions (module PubSub), transactions and pipelines     *)
(* (module Pipeline), the handshake and the limits on retries (RedisClient)*)
(***************************************************************************)
EXTENDS Command

CONSTANTS
  Scenarios,         \* what may happen: calls, options and bounds (below)
  NoScript,          \* the error of EVALSHA for a script the server does not have
  TimedOut,          \* the error "Command timed out"
  Step,              \* time advances by this many milliseconds
  MaxTime,           \* bound: how long a behaviour takes
  MaxChunk           \* bound: the longest chunk

\* A scenario: calls, a sequence of [name, encoding, args, script, requests, two, three], where
\* requests are those a server may read for the call, each as the bytes of its parts, and
\* two and three the frames it answers with under RESP2 and RESP3; the options
\* mappings (one is chosen), keyPrefix, commandTimeout, blockingTimeout, grace and
\* socketTimeout; protocols, what the servers speak; and the bound faults.
None == -1

VARIABLES
  scenario,
  client,            \* the fields below
  issued,            \* how many calls were made
  loaded,            \* does the server have the script
  now,
  sent, faults, flushes   \* history: when each call was made, lost connections and scripts

\* The client: connection ("closed", "open", or "closing", when it is destroyed or ended by
\* the server), stream (its number), protocol, offline and unanswered (the queues), context
\* (setReplyContext), scriptLoaded (socketHasScriptLoaded.has(stream)), anew (calls of
\* scripts to be made again), remade (those that were), limit, deadline and blocking (when
\* the command timer fires, _blockingDeadline, is its timer armed), socketTimer, outcome (for
\* each call), written (the requests that have not been read).
vars == <<scenario, mapping, replies, client, issued, loaded, now, sent, faults, flushes>>

------------------------------------------------------------------------------
Calls == scenario.calls
Ids == DOMAIN Calls

Idle == [is |-> "idle"]
Pending == [is |-> "pending"]
Settled(v) == [is |-> "settled", value |-> v]

Fault == faults < scenario.faults /\ faults' = faults + 1

\* What the caller of i gets, if it has not got anything yet; _clearTimers.
Settle(c, i, v) ==
  [c EXCEPT !.limit[i] = None, !.blocking[i] = FALSE,
            !.outcome[i] = IF @ = Pending THEN Settled(v) ELSE @]

\* command.resolve
Resolve(c, i, v) ==
  Settle(c, i, TransformReply(Calls[i].name, Calls[i].encoding, v,
                              c.context[i].protocol, c.context[i].replyMapping))

------------------------------------------------------------------------------
(* Sending.                                                                  *)

\* getBlockingTimeoutInMs
BlockingTimeout(i) ==
  LET timeout == ArgumentTimeout(Calls[i].name, ArgumentsOf(Calls[i]))
  IN  IF Calls[i].name \notin Blocking \/ scenario.blockingTimeout = None \/ timeout = NotBlocking
      THEN None
      ELSE IF timeout > 0 THEN timeout + scenario.grace ELSE scenario.blockingTimeout

\* Mutant: each time the command is sent its deadline is a new one.
Deadline_Anew(c, i, ms) == now + ms

\* The deadline is that of the first time.
Deadline(c, i, ms) == IF c.deadline[i] = None THEN now + ms ELSE c.deadline[i]

\* setBlockingTimeout
SetBlockingTimeout(c, i, ms) ==
  IF ms = None THEN c
  ELSE IF Deadline(c, i, ms) <= now THEN Resolve(c, i, NullValue)
  ELSE [c EXCEPT !.deadline[i] = Deadline(c, i, ms), !.blocking[i] = TRUE]

\* setSocketTimeout, unless there is a timer.
SetSocketTimeout(c) ==
  IF scenario.socketTimeout = None \/ c.socketTimer.due # None THEN c
  ELSE [c EXCEPT !.socketTimer = [due |-> now + scenario.socketTimeout, stream |-> c.stream]]

\* What is written for call i: for a script EVAL the first time on the connection.
Written(c, i) ==
  LET args == ArgumentsOf(Calls[i])
      name == IF ~Calls[i].script THEN Calls[i].name ELSE IF c.scriptLoaded THEN "evalsha" ELSE "eval"
      all == IF Calls[i].script
             THEN <<[string |-> <<IF c.scriptLoaded THEN "sha" ELSE "lua">>], [string |-> <<"1">>]>> \o args
             ELSE args
  IN  [id |-> i, name |-> name, bytes |-> Request(name, all, scenario.keyPrefix)]

\* sendCommand
SendCommand(c, i) ==
  LET context == [protocol |-> c.protocol,
                  replyMapping |-> IF mapping = "resp3" /\ c.protocol = 3 THEN "resp3" ELSE "legacy"]
      c1 == [c EXCEPT !.context[i] = context,
                      !.limit[i] = IF scenario.commandTimeout # None /\ @ = None
                                   THEN now + scenario.commandTimeout ELSE @]
  IN  IF c.connection = "open"
      THEN SetSocketTimeout(SetBlockingTimeout(
             [c1 EXCEPT !.written = Append(@, Written(c, i)), !.unanswered = Append(@, i),
                        !.scriptLoaded = @ \/ Calls[i].script],
             i, BlockingTimeout(i)))
      ELSE SetBlockingTimeout([c1 EXCEPT !.offline = Append(@, i)], i,
             IF Calls[i].name \in Blocking THEN scenario.blockingTimeout ELSE None)

SendAll(c, ids) == FoldLeft(SendCommand, c, ids)

Issue ==
  /\ issued < Len(Calls) /\ issued' = issued + 1
  /\ sent' = [sent EXCEPT ![issued'] = now]
  /\ client' = SendCommand([client EXCEPT !.outcome[issued'] = Pending], issued')
  /\ UNCHANGED <<scenario, mapping, replies, loaded, now, faults, flushes>>

------------------------------------------------------------------------------
(* The connection.                                                           *)

\* Ready again: the unanswered commands are sent, then those that waited.
Open ==
  /\ client.connection = "closed"
  /\ NoReplies
  /\ \E p \in scenario.protocols :
       client' = SendAll([client EXCEPT !.connection = "open", !.stream = @ + 1, !.protocol = p,
                                        !.scriptLoaded = FALSE, !.offline = <<>>, !.unanswered = <<>>],
                         client.unanswered \o client.offline)
  /\ UNCHANGED <<scenario, mapping, issued, loaded, now, sent, faults, flushes>>

Lost ==
  /\ client.connection = "open" /\ Fault
  /\ client' = [client EXCEPT !.connection = "closing", !.written = <<>>]
  /\ UNCHANGED <<scenario, mapping, replies, issued, loaded, now, sent, flushes>>

\* Mutant: closeHandler leaves the socket timer.
AfterClose_KeepsTimer(c) == [c EXCEPT !.connection = "closed"]

\* closeHandler
AfterClose(c) == [c EXCEPT !.connection = "closed", !.socketTimer.due = None]

Close ==
  /\ client.connection = "closing"
  /\ client' = AfterClose(client)
  /\ UNCHANGED <<scenario, mapping, replies, issued, loaded, now, sent, faults, flushes>>

------------------------------------------------------------------------------
(* Replies.                                                                  *)

\* Mutant: the connection is still taken to have the script.
Forget_Not(c, i, error) == c

\* The reject of a script's command: the server does not have the script.
Forget(c, i, error) ==
  IF Calls[i].script /\ error = NoScript THEN [c EXCEPT !.scriptLoaded = FALSE] ELSE c

\* Is the command of a script made again?
MadeAgain(c, i, error) ==
  Calls[i].script /\ error = NoScript /\ c.outcome[i] = Pending /\ i \notin c.remade

\* A callback of the decoder: the first unanswered command has its reply.
Deliver(c, out) ==
  IF out.to = "onPush" \/ c.unanswered = <<>> THEN c
  ELSE LET i == Head(c.unanswered)
           c1 == [c EXCEPT !.unanswered = Tail(@)]
           forgotten == Forget(c1, i, out.value.error)
       IN  IF out.to = "onReply" THEN Resolve(c1, i, out.value)
           ELSE IF MadeAgain(c1, i, out.value.error)
           THEN [forgotten EXCEPT !.limit[i] = None, !.anew = Append(@, i), !.remade = @ \cup {i}]
           ELSE Settle(forgotten, i, out.value)

\* The data listener of setSocketTimeout, after that of the DataHandler.
AfterData(c) ==
  IF c.socketTimer.due = None \/ c.unanswered = <<>> THEN [c EXCEPT !.socketTimer.due = None]
  ELSE SetSocketTimeout([c EXCEPT !.socketTimer.due = None])

\* A chunk of n bytes; then the scripts that were missing are sent.
Receive(n) ==
  /\ client.connection = "open"
  /\ Data(n)
  /\ LET new == SubSeq(decoder'.out, Len(decoder.out) + 1, Len(decoder'.out))
         c == AfterData(FoldLeft(Deliver, client, new))
     IN  client' = SendAll([c EXCEPT !.anew = <<>>], c.anew)
  /\ UNCHANGED <<scenario, mapping, issued, loaded, now, sent, faults, flushes>>

------------------------------------------------------------------------------
(* The server.                                                               *)

Serve ==
  /\ client.connection = "open" /\ client.written # <<>>
  /\ LET request == Head(client.written)
         call == Calls[request.id]
         missing == request.name = "evalsha" /\ ~loaded
     IN  /\ frames' = frames \o
              IF missing THEN <<[type |-> "error", value |-> NoScript]>>
              ELSE IF client.protocol = 3 THEN call.three ELSE call.two
         /\ loaded' = (loaded \/ request.name = "eval")
  /\ client' = [client EXCEPT !.written = Tail(@)]
  /\ UNCHANGED <<scenario, mapping, received, decoder, issued, now, sent, faults, flushes>>

\* SCRIPT FLUSH, or a server that was replaced.
Flush ==
  /\ loaded /\ Fault /\ loaded' = FALSE /\ flushes' = flushes + 1
  /\ UNCHANGED <<scenario, mapping, replies, client, issued, now, sent>>

------------------------------------------------------------------------------
(* Time.                                                                     *)

CommandTimer(i) ==
  /\ client.limit[i] = now
  /\ client' = Settle(client, i, [error |-> TimedOut])
  /\ UNCHANGED <<scenario, mapping, replies, issued, loaded, now, sent, faults, flushes>>

BlockingTimer(i) ==
  /\ client.blocking[i] /\ client.deadline[i] = now
  /\ client' = Resolve(client, i, NullValue)
  /\ UNCHANGED <<scenario, mapping, replies, issued, loaded, now, sent, faults, flushes>>

\* stream.destroy, of the stream the timer was set for.
SocketTimer ==
  /\ client.socketTimer.due = now
  /\ client' = [client EXCEPT
       !.socketTimer.due = None,
       !.connection = IF @ = "open" /\ client.socketTimer.stream = client.stream THEN "closing" ELSE @,
       !.written = IF client.socketTimer.stream = client.stream THEN <<>> ELSE @]
  /\ UNCHANGED <<scenario, mapping, replies, issued, loaded, now, sent, faults, flushes>>

Due ==
  {client.limit[i] : i \in Ids} \cup {client.deadline[i] : i \in {j \in Ids : client.blocking[j]}}
    \cup {client.socketTimer.due}

\* A timer that is due fires before time goes on.
Tick ==
  /\ Due # {None} /\ now \notin Due
  /\ now + Step <= MaxTime /\ now' = now + Step
  /\ UNCHANGED <<scenario, mapping, replies, client, issued, loaded, sent, faults, flushes>>

------------------------------------------------------------------------------
Init ==
  /\ scenario \in Scenarios /\ mapping \in scenario.mappings
  /\ frames = <<>> /\ received = 0 /\ decoder = [cursor |-> 0, stack |-> <<>>, out |-> <<>>]
  /\ client = [connection |-> "closed", stream |-> 0, protocol |-> 3,
               offline |-> <<>>, unanswered |-> <<>>, written |-> <<>>,
               context |-> [i \in Ids |-> [protocol |-> 2, replyMapping |-> "legacy"]],
               scriptLoaded |-> FALSE, anew |-> <<>>, remade |-> {},
               limit |-> [i \in Ids |-> None], deadline |-> [i \in Ids |-> None],
               blocking |-> [i \in Ids |-> FALSE],
               socketTimer |-> [due |-> None, stream |-> 0],
               outcome |-> [i \in Ids |-> Idle]]
  /\ issued = 0 /\ loaded = FALSE /\ now = 0
  /\ sent = [i \in Ids |-> None] /\ faults = 0 /\ flushes = 0

Next ==
  \/ Issue \/ Open \/ Lost \/ Close \/ Serve \/ Flush \/ SocketTimer \/ Tick
  \/ \E n \in 1..MaxChunk : Receive(n)
  \/ \E i \in Ids : CommandTimer(i) \/ BlockingTimer(i)

Spec == Init /\ [][Next]_vars

------------------------------------------------------------------------------
(* Properties.                                                               *)

\* A server reads a request that the call stands for, as its scenario spells it out: every
\* argument with all its bytes, strings and buffers alike, the entries of Maps and objects,
\* and the key prefix before each key; for a script EVAL or EVALSHA.
RequestsAreRead ==
  LET array(frame) ==
        [type |-> "array", value |-> [i \in DOMAIN frame |-> [type |-> "blob", value |-> frame[i]]]]
  IN  \A k \in DOMAIN client.written :
        \E frame \in Calls[client.written[k].id].requests :
          client.written[k].bytes = Encode(array(frame))

\* With replyMapping "legacy" a caller gets the same value from a server of either protocol
\* (README: "Identical across both protocols"), whichever server the command is sent to
\* again; and so does hgetall with any mapping.
SameForBothProtocols ==
  \A i \in Ids :
    LET call == Calls[i]
        value == client.outcome[i].value
        classic == TransformReply(call.name, call.encoding, Meaning(Last(call.two), "legacy"), 2, "legacy")
    IN  (client.outcome[i].is = "settled" /\ call.two # <<>>
         /\ (mapping = "legacy" \/ call.name = "hgetall")) =>
          \/ Is(value, "error") \/ value = classic
          \/ value = NullValue /\ call.name \in Blocking

\* A connection on which something is unanswered has a socket timer of its own, however
\* it was opened and whatever was received or timed out on it before: a silent server is
\* noticed.
SilenceIsNoticed ==
  (scenario.socketTimeout # None /\ client.connection = "open" /\ client.unanswered # <<>>) =>
    /\ client.socketTimer.stream = client.stream
    /\ client.socketTimer.due \in now..(now + scenario.socketTimeout)

\* No caller waits longer than the timeout that is set for it, even if its command waits
\* in the queue, is sent again on other connections or never answered: commandTimeout (twice
\* that for a script the server had lost, which is sent as a new Command), and for a blocking
\* command that of its arguments with the grace period, or blockingTimeout.
WaitsAreBounded ==
  \A i \in Ids : client.outcome[i] = Pending =>
    /\ scenario.commandTimeout # None =>
         now <= sent[i] + (IF i \in client.remade THEN 2 ELSE 1) * scenario.commandTimeout
    /\ (scenario.blockingTimeout # None /\ BlockingTimeout(i) # None) =>
         \/ now <= sent[i] + BlockingTimeout(i) \/ now <= sent[i] + scenario.blockingTimeout

\* A script runs though the server lost it: NOSCRIPT reaches the caller only if the script
\* is lost again before the second try.
ScriptsAreFound ==
  \A i \in Ids : client.outcome[i] = Settled([error |-> NoScript]) => flushes > 1
==============================================================================
