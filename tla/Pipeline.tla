-------------------------------- MODULE Pipeline --------------------------------
(***************************************************************************)
(* Pipelines, transactions and automatic pipelining on a cluster:          *)
(* lib/Pipeline.ts, lib/transaction.ts and lib/autoPipelining.ts.          *)
(*                                                                         *)
(* A pipeline is sent to one node as a whole, and resent as a whole when   *)
(* all of its errors are one redirection and resending cannot repeat a     *)
(* write.  Automatic pipelines collect the calls of one event loop         *)
(* iteration, one for each node.                                           *)
(*                                                                         *)
(* The client below is reduced to what a pipeline sees of it (module       *)
(* Cluster has the rest): its slots, its pool, its status and its offline  *)
(* queue.  Commands have one key.  Replicas (scaleReads), scripts, HIMPORT *)
(* and transactions inside a longer pipeline are left out.                 *)
(***************************************************************************)
EXTENDS Integers, Sequences, FiniteSets, SequencesExt

CONSTANTS
  Commands, Writes,      \* the application's commands; those without the flag "readonly"
  Slots, Slot,           \* the slot of the key of each command
  Nodes, NoNode,
  AutoCommands,          \* issued one by one with enableAutoPipelining
  Batches, Transactions, \* sequences of commands (each issued once) sent as pipelines, as
                         \* redis.multi(); an empty one is resolved without being sent
  Refusals,              \* what nodes may refuse with, besides MOVED
  MaxRedirections,
  AskAtLimit,            \* may the redirection that exceeds the limit be an ASK
  MaxFaults              \* bound: changes of the cluster, lost nodes, refusals, ends

NoTtl == -1
NoSlot == "none"
Ended == "ended"

ASSUME PipelineAssumption ==
  /\ Writes \subseteq Commands /\ AutoCommands \subseteq Commands
  /\ Slot \in [Commands -> Slots] /\ NoSlot \notin Slots
  /\ NoNode \notin Nodes /\ Ended \notin Nodes \cup {NoNode} /\ IsFiniteSet(Nodes)
  /\ Batches \cup Transactions \subseteq Seq(Commands) \ {<<>>}
  /\ \A b \in Batches \cup Transactions : IsInjective(b)
  /\ {"asking", "multi", "exec"} \cap Commands = {}
  /\ Refusals \subseteq {"ASK", "TRYAGAIN", "CLUSTERDOWN", "ERR"}
  /\ MaxRedirections \in Nat /\ MaxFaults \in Nat /\ AskAtLimit \in BOOLEAN

VARIABLES
  \* the cluster client
  cluster,           \* "connecting", "connect", "ready", "reconnecting", "end"
  slots,             \* for each slot the node it is sent to
  groupIds,          \* _groupsIds: nodes that served a slot at the last refresh
  pool,
  offline,           \* pipelines in the offline queue, each with the instance it prefers: of a
                     \* node, NoNode, or Ended once its node was lost
  \* pipelines
  pipelines,         \* all pipelines made so far
  auto,              \* _autoPipelines: for each node the pipeline being filled, or 0
  running,           \* _runningAutoPipelines
  immediates,        \* executeAutoPipeline calls scheduled with setImmediate
  called,            \* what became of each call
  \* the connections
  wire,              \* for each node the commands it has to answer: <<pipeline, position>>
  failed,            \* commands of lost connections whose promises are being rejected
  \* the cluster
  owner, importing,  \* who serves each slot, and the node it migrates to
  \* history
  confirmed,         \* writes whose success the client has read
  faults

routing == <<cluster, slots, groupIds, pool>>
sending == <<offline, wire, failed>>
automatic == <<auto, running, immediates>>
topology == <<owner, importing>>
vars == <<routing, sending, pipelines, automatic, called, topology, confirmed, faults>>

Fault == faults < MaxFaults /\ faults' = faults + 1

------------------------------------------------------------------------------
(* Results.                                                                  *)

Reply(kind, slot, node, of) == [kind |-> kind, slot |-> slot, node |-> node, of |-> of]
Err(kind) == Reply(kind, NoSlot, NoNode, <<>>)
Ok(of) == Reply("ok", NoSlot, NoNode, of)
IsError(r) == r.kind # "ok"

\* What the caller of a pipeline is given for queue q and results res: the entries of
\* ignored commands are left out, and as many cut from the end.
\* Mutant: the entries of ignored commands stay, and the last ones are cut.
Resolved_KeepsIgnored(q, res) ==
  SubSeq(res, 1, Len(res) - Cardinality({i \in DOMAIN q : q[i] = "asking"}))

Resolved(q, res) ==
  LET Shifted(i) == IF q[i] = "asking" THEN <<>>
                    ELSE <<IF i <= Len(res) THEN res[i] ELSE Err("undefined")>>
  IN  SubSeq(FlattenSeq([i \in DOMAIN q |-> Shifted(i)]), 1,
             Len(res) - Cardinality({i \in DOMAIN q : q[i] = "asking"}))

\* What the application is told: of a transaction the result of EXEC alone.
Answer(r, results) ==
  IF ~r.transaction THEN results
  ELSE LET last == results[Len(results)]
       IN  IF results = <<>> \/ IsError(last) THEN [k \in DOMAIN r.calls |-> Err("rejected")]
           ELSE [k \in DOMAIN last.of |-> Ok(<<last.of[k]>>)]

Settled(r, results) == [r EXCEPT !.phase = "resolved", !.answer = Answer(r, results)]
Rejected(r) == [r EXCEPT !.phase = "resolved", !.answer = [k \in DOMAIN r.calls |-> Err("rejected")]]

New(key, calls, transaction) ==
  [key |-> key, calls |-> calls, transaction |-> transaction,
   queue |-> IF transaction THEN <<"multi">> \o calls \o <<"exec">> ELSE calls,
   result |-> <<>>, replyPending |-> 0, preferKey |-> NoNode, leftRedirections |-> NoTtl,
   phase |-> "filling", answer |-> <<>>]

------------------------------------------------------------------------------
(* Pipeline.prototype.exec.                                                  *)

KeySlots(r) == {Slot[r.calls[i]] : i \in DOMAIN r.calls}
Group(s) == IF slots'[s] \in groupIds THEN slots'[s] ELSE NoNode

\* Where a pipeline goes when no redirection has chosen its node: to the one that serves the
\* slot of its first key, else to any.
Targets(r) ==
  LET slotNode == slots'[Slot[r.calls[1]]]
  IN  IF slotNode \in pool THEN {slotNode} ELSE pool

Keep(w, f) == wire' = w /\ failed' = f /\ UNCHANGED offline

\* Mutant: a pipeline that is resent counts its replies again only if its queue has ASKING.
Sent_NoReset(r) ==
  [r EXCEPT !.phase = "sent",
            !.replyPending = IF r.leftRedirections = NoTtl \/ Contains(r.queue, "asking")
                             THEN Len(r.queue) ELSE @]

Sent(r) == [r EXCEPT !.phase = "sent", !.replyPending = Len(r.queue)]

\* exec() of pipeline p of ps, with the slots as this step leaves them; w and f are what
\* this step leaves on the wire and to be rejected.
Exec(ps, p, w, f) ==
  LET r == ps[p]
      sent == Sent(r)
      entries == [i \in DOMAIN r.queue |-> <<p, i>>]
      sameGroup == \A s, t \in KeySlots(r) : Group(s) = Group(t)
      unknown == \A s \in Slots : slots'[s] = NoNode
      preferred == IF r.preferKey \in pool THEN r.preferKey ELSE NoNode
  IN  \/ unknown /\ pipelines' = [ps EXCEPT ![p].phase = "waiting"] /\ Keep(w, f)
      \/ /\ ~unknown /\ ~sameGroup
         /\ pipelines' = [ps EXCEPT ![p] = Rejected(r)] /\ Keep(w, f)
      \/ /\ ~unknown /\ sameGroup
         /\ pipelines' = [ps EXCEPT ![p] = sent]
         /\ \/ /\ cluster = "ready"
               /\ \E n \in IF preferred = NoNode THEN Targets(r) ELSE {preferred} :
                    wire' = [w EXCEPT ![n] = @ \o entries]
               /\ failed' = f /\ UNCHANGED offline
            \/ cluster = "end" /\ Keep(w, f \o entries)
            \/ /\ cluster \notin {"ready", "end"}
               /\ offline' = Append(offline, <<p, preferred>>)
               /\ wire' = w /\ failed' = f

\* Promise callbacks and what was put off to the next tick come before other events.
Idle ==
  /\ failed = <<>>
  /\ \A p \in DOMAIN pipelines : pipelines[p].phase \notin {"resolved", "woken", "refused"}
  /\ \A c \in Commands : called[c] \notin {"woken", "refused"}

------------------------------------------------------------------------------
(* Automatic pipelining.                                                     *)

\* executeWithAutoPipelining once the slots are known: the call joins the pipeline of the
\* node that serves its slot; a new pipeline is scheduled.
Join(c) ==
  LET key == slots[Slot[c]]
      p == Len(pipelines) + 1
  IN  /\ called' = [called EXCEPT ![c] = "made"]
      /\ IF auto[key] = 0
         THEN /\ pipelines' = Append(pipelines, New(key, <<c>>, FALSE))
              /\ auto' = [auto EXCEPT ![key] = p]
              /\ immediates' = Append(immediates, key)
         ELSE /\ pipelines' = [pipelines EXCEPT ![auto[key]].calls = Append(@, c),
                                                ![auto[key]].queue = Append(@, c)]
              /\ UNCHANGED <<auto, immediates>>
      /\ UNCHANGED <<sending, running>>

Unknown == \A s \in Slots : slots[s] = NoNode

\* A call made after the cluster has ended without ever learning its slots would wait for
\* ever, and is not made here.
MayCall == Idle /\ ~(cluster = "end" /\ Unknown)

Issue(c) ==
  /\ MayCall
  /\ c \in AutoCommands /\ called[c] = "no"
  /\ IF Unknown
     THEN called' = [called EXCEPT ![c] = "waiting"] /\ UNCHANGED <<pipelines, sending, automatic>>
     ELSE Join(c)
  /\ UNCHANGED <<routing, topology, confirmed, faults>>

\* delayUntilReady calls back.
Woken(c) ==
  /\ \/ called[c] = "woken" /\ Join(c)
     \/ /\ called[c] = "refused"
        /\ called' = [called EXCEPT ![c] = "answered"]
        /\ UNCHANGED <<pipelines, sending, automatic>>
  /\ UNCHANGED <<routing, topology, confirmed, faults>>

\* executeAutoPipeline, unless a pipeline of this key runs; runs is _runningAutoPipelines.
ExecuteAuto(key, runs, ps) ==
  IF key \in runs \/ auto[key] = 0
  THEN /\ running' = runs /\ pipelines' = ps
       /\ UNCHANGED <<auto, sending>>
  ELSE /\ running' = runs \cup {key}
       /\ auto' = [auto EXCEPT ![key] = 0]
       /\ Exec(ps, auto[key], wire, failed)

Immediate ==
  /\ Idle /\ immediates # <<>>
  /\ immediates' = Tail(immediates)
  /\ UNCHANGED <<routing, called, topology, confirmed, faults>>
  /\ ExecuteAuto(Head(immediates), running, pipelines)

\* The callback of exec(): the callers are answered, and the next pipeline of this key is
\* executed at once.
\* Mutant: the next pipeline is left to its own setImmediate, which may have fired already.
Callback_NoNext(p, ps) ==
  /\ running' = running \ {pipelines[p].key} /\ pipelines' = ps
  /\ UNCHANGED <<auto, sending>>

CallbackNext(p, ps) ==
  IF pipelines[p].key = NoNode
  THEN pipelines' = ps /\ UNCHANGED <<running, auto, sending>>
  ELSE ExecuteAuto(pipelines[p].key, running \ {pipelines[p].key}, ps)

\* A caller whose entry is missing is not called (and the exception is thrown to no one,
\* before the next pipeline is looked for).
Callback(p) ==
  LET r == pipelines[p]
      n == Len(r.answer)
      done == [pipelines EXCEPT ![p].phase = "answered"]
  IN  /\ r.phase = "resolved" /\ failed = <<>>
      /\ called' = [c \in Commands |->
                      IF \E k \in DOMAIN r.calls : r.calls[k] = c /\ (k <= n \/ r.key = NoNode)
                      THEN "answered" ELSE called[c]]
      /\ UNCHANGED <<routing, immediates, topology, confirmed, faults>>
      /\ IF n < Len(r.calls) /\ r.key # NoNode
         THEN /\ running' = running \ {r.key} /\ pipelines' = done
              /\ UNCHANGED <<auto, sending>>
         ELSE CallbackNext(p, done)

------------------------------------------------------------------------------
(* Explicit pipelines and transactions.                                      *)

Send(calls, transaction) ==
  /\ MayCall
  /\ \A k \in DOMAIN calls : called[calls[k]] = "no"
  /\ called' = [c \in Commands |-> IF \E k \in DOMAIN calls : calls[k] = c THEN "made" ELSE called[c]]
  /\ UNCHANGED <<routing, automatic, topology, confirmed, faults>>
  /\ Exec(Append(pipelines, New(NoNode, calls, transaction)), Len(pipelines) + 1, wire, failed)

\* delayUntilReady calls back.
Resumed(p) ==
  /\ UNCHANGED <<routing, automatic, called, topology, confirmed, faults>>
  /\ \/ pipelines[p].phase = "woken" /\ Exec(pipelines, p, wire, failed)
     \/ /\ pipelines[p].phase = "refused"
        /\ pipelines' = [pipelines EXCEPT ![p] = Rejected(pipelines[p])]
        /\ UNCHANGED sending

\* The timer of the delay queue.
DelayTimer(p) ==
  /\ Idle /\ pipelines[p].phase = "delayed"
  /\ UNCHANGED <<routing, automatic, called, topology, confirmed, faults>>
  /\ Exec(pipelines, p, wire, failed)

------------------------------------------------------------------------------
(* Pipeline#fillResult.                                                      *)

InTransaction(r, i) == r.transaction /\ r.queue[i] \notin {"asking", "exec"}

\* The errors that decide: EXECABORT is a consequence of another.
Errors(r) ==
  {r.result[i] : i \in {j \in DOMAIN r.queue :
     IsError(r.result[j]) /\ ~(r.queue[j] = "exec" /\ r.result[j].kind = "EXECABORT")}}

\* Mutant: a pipeline is resent whatever has succeeded.
Retriable_AnySuccess(r) == Cardinality(Errors(r)) = 1

Retriable(r) ==
  /\ Cardinality(Errors(r)) = 1
  /\ \A i \in DOMAIN r.queue :
       ~IsError(r.result[i]) =>
         InTransaction(r, i) \/ r.queue[i] \in Commands \ Writes

\* The queue to resend: after ASK every command outside a transaction is preceded by
\* ASKING.
Requeued(r, error) ==
  LET AskFirst(i) ==
        /\ error.kind = "ASK" /\ r.queue[i] # "asking"
        /\ i = 1 \/ (~InTransaction(r, i - 1) /\ r.queue[i - 1] # "asking")
  IN  FlattenSeq([i \in DOMAIN r.queue |->
        IF AskFirst(i) THEN <<"asking", r.queue[i]>> ELSE <<r.queue[i]>>])

CountDown(ttl) == IF ttl = NoTtl THEN MaxRedirections ELSE ttl - 1

\* handleError puts the pipeline off, or gives up.
Delays(error) ==
  error.kind \in {"TRYAGAIN", "CLUSTERDOWN"} \/ (error.kind = "closed" /\ cluster = "ready")

\* The last result is in: r is resent or resolved.
Complete(p, r, w, f) ==
  LET error == CHOOSE e \in Errors(r) : TRUE
      again == [r EXCEPT !.queue = Requeued(r, error),
                         !.leftRedirections = CountDown(@)]
      redirected == [again EXCEPT !.preferKey = error.node]
      exceeded == again.leftRedirections <= 0
  IN  \/ /\ ~Retriable(r)
         /\ pipelines' = [pipelines EXCEPT ![p] = Settled(r, Resolved(r.queue, r.result))]
         /\ UNCHANGED slots /\ Keep(w, f)
      \/ /\ Retriable(r)
         /\ exceeded \/ ~(error.kind \in {"MOVED", "ASK"} \/ Delays(error))
         /\ pipelines' = [pipelines EXCEPT ![p] = Settled(again, Resolved(again.queue, r.result))]
         /\ UNCHANGED slots /\ Keep(w, f)
      \/ /\ Retriable(r) /\ ~exceeded /\ Delays(error)
         /\ pipelines' = [pipelines EXCEPT ![p] = [again EXCEPT !.phase = "delayed"]]
         /\ UNCHANGED slots /\ Keep(w, f)
      \/ /\ Retriable(r) /\ ~exceeded /\ error.kind = "MOVED"
         /\ slots' = [slots EXCEPT ![error.slot] = error.node]
         /\ Exec([pipelines EXCEPT ![p] = redirected], p, w, f)
      \/ /\ Retriable(r) /\ ~exceeded /\ error.kind = "ASK"
         /\ UNCHANGED slots
         /\ Exec([pipelines EXCEPT ![p] = redirected], p, w, f)

Confirms(r, i, res) ==
  IF IsError(res) THEN {}
  ELSE IF r.queue[i] = "exec" THEN Writes \cap {r.calls[k] : k \in DOMAIN r.calls}
  ELSE IF r.transaction THEN {} ELSE Writes \cap {r.queue[i]}

FillResult(p, i, res, w, f) ==
  LET r == pipelines[p]
      filled == [r EXCEPT !.replyPending = @ - 1,
                          !.result = IF i <= Len(@) THEN [@ EXCEPT ![i] = res] ELSE Append(@, res)]
  IN  /\ confirmed' = confirmed \cup Confirms(r, i, res)
      /\ IF filled.replyPending > 0
         THEN /\ pipelines' = [pipelines EXCEPT ![p] = filled]
              /\ UNCHANGED slots /\ Keep(w, f)
         ELSE Complete(p, filled, w, f)

------------------------------------------------------------------------------
(* The connections and the cluster.                                          *)

\* ASKING precedes the command, or the transaction it is in.
AfterAsking(r, i) == IF r.transaction THEN r.queue[1] = "asking"
                     ELSE i > 1 /\ r.queue[i - 1] = "asking"

\* What node n may answer about slot s.
KeyReplies(n, s, asking, ok) ==
  IF owner[s] = n
  THEN {ok} \cup IF importing[s] = NoNode THEN {}
                 ELSE {Reply("ASK", s, importing[s], <<>>), Err("TRYAGAIN")}
  ELSE IF importing[s] = n /\ asking THEN {ok, Err("TRYAGAIN")}
  ELSE {Reply("MOVED", s, owner[s], <<>>)}

\* The commands whose replies the reply of EXEC is taken for.
ExecOf(r, i) == LET n == Len(r.calls) IN [k \in 1..n |-> r.queue[i - n + k - 1]]

Replies(n, r, i) ==
  LET c == r.queue[i]
  IN  IF c \in {"asking", "multi"} THEN {Ok(<<c>>)}
      ELSE IF c = "exec"
      THEN IF \E j \in 1..(i - 1) : r.queue[j] \in Commands /\ IsError(r.result[j])
           THEN {Err("EXECABORT")}
           ELSE KeyReplies(n, Slot[r.calls[1]], AfterAsking(r, i), Ok(ExecOf(r, i)))
      ELSE KeyReplies(n, Slot[c], AfterAsking(r, i), Ok(<<c>>))

MayRefuse(r, res) ==
  /\ IsError(res) /\ res.kind \notin {"MOVED", "EXECABORT"} => res.kind \in Refusals
  /\ res.kind = "ASK" => AskAtLimit \/ CountDown(r.leftRedirections) > 0

Answered(n) ==
  /\ Idle /\ wire[n] # <<>>
  /\ LET p == Head(wire[n])[1]
         i == Head(wire[n])[2]
     IN  \E res \in Replies(n, pipelines[p], i) :
           /\ MayRefuse(pipelines[p], res)
           /\ FillResult(p, i, res, [wire EXCEPT ![n] = Tail(@)], failed)
  /\ UNCHANGED <<cluster, groupIds, pool, automatic, called, topology, faults>>

\* The cluster is down, or the command fails.
Refused(n) ==
  /\ Idle /\ wire[n] # <<>> /\ Fault
  /\ \E kind \in Refusals \cap {"CLUSTERDOWN", "ERR"} :
       FillResult(Head(wire[n])[1], Head(wire[n])[2], Err(kind), [wire EXCEPT ![n] = Tail(@)], failed)
  /\ UNCHANGED <<cluster, groupIds, pool, automatic, called, topology>>

\* The promise of a command on a lost connection, or of a cluster that has ended, rejects.
Fails ==
  /\ failed # <<>>
  /\ FillResult(Head(failed)[1], Head(failed)[2], Err("closed"), wire, Tail(failed))
  /\ UNCHANGED <<cluster, groupIds, pool, automatic, called, topology, faults>>

\* A node of the pool ends; with the last one the cluster reconnects.  The pool may have the
\* node again later, but as another instance.
NodeLost(n) ==
  /\ Idle /\ n \in pool /\ cluster \in {"connect", "ready"} /\ Fault
  /\ pool' = pool \ {n}
  /\ cluster' = IF pool = {n} THEN "reconnecting" ELSE cluster
  /\ failed' = wire[n] /\ wire' = [wire EXCEPT ![n] = <<>>]
  /\ offline' = [i \in DOMAIN offline |->
       <<offline[i][1], IF offline[i][2] = n THEN Ended ELSE offline[i][2]>>]
  /\ UNCHANGED <<slots, groupIds, pipelines, automatic, called, topology, confirmed>>

\* The answer to CLUSTER SLOTS.
Learn ==
  /\ slots' = owner /\ groupIds' = {owner[s] : s \in Slots} /\ pool' = Nodes

\* refreshSlotsCache, started by MOVED, by a delay or by slotsRefreshInterval.
Refresh ==
  /\ Idle /\ cluster = "ready" /\ Learn
  /\ UNCHANGED <<cluster, sending, pipelines, automatic, called, topology, confirmed, faults>>

\* The slots are known: what waited for them (delayUntilReady) goes on.
Connected ==
  /\ Idle /\ cluster \in {"connecting", "reconnecting"}
  /\ cluster' = "connect" /\ Learn
  /\ pipelines' = [p \in DOMAIN pipelines |->
       IF pipelines[p].phase = "waiting" THEN [pipelines[p] EXCEPT !.phase = "woken"] ELSE pipelines[p]]
  /\ called' = [c \in Commands |-> IF called[c] = "waiting" THEN "woken" ELSE called[c]]
  /\ UNCHANGED <<sending, automatic, topology, confirmed, faults>>

\* The ready check succeeds: the offline queue is sent.
Ready ==
  /\ Idle /\ cluster = "connect" /\ cluster' = "ready"
  /\ UNCHANGED <<slots, groupIds, pool>>
  /\ \E to \in [DOMAIN offline -> Nodes] :
       LET Entries(i) == [k \in DOMAIN pipelines[offline[i][1]].queue |-> <<offline[i][1], k>>]
           dead == [i \in DOMAIN offline |-> offline[i][2] = Ended]
       IN  /\ \A i \in DOMAIN offline :
                to[i] \in IF offline[i][2] \in Nodes THEN {offline[i][2]}
                          ELSE Targets(pipelines[offline[i][1]])
           /\ wire' = [n \in Nodes |-> wire[n] \o FlattenSeq([i \in DOMAIN offline |->
                         IF to[i] = n /\ ~dead[i] THEN Entries(i) ELSE <<>>])]
           /\ failed' = FlattenSeq([i \in DOMAIN offline |-> IF dead[i] THEN Entries(i) ELSE <<>>])
  /\ offline' = <<>>
  /\ UNCHANGED <<pipelines, automatic, called, topology, confirmed, faults>>

\* The cluster gives up or is closed: everything that waits is rejected.
Ends ==
  /\ Idle /\ cluster # "end" /\ Fault
  /\ cluster' = "end" /\ pool' = {}
  /\ LET Entries(i) == [k \in DOMAIN pipelines[offline[i][1]].queue |-> <<offline[i][1], k>>]
     IN  failed' = FlattenSeq([i \in DOMAIN offline |-> Entries(i)])
                     \o FlattenSeq(SetToSeq({wire[n] : n \in {m \in Nodes : wire[m] # <<>>}}))
  /\ offline' = <<>> /\ wire' = [n \in Nodes |-> <<>>]
  /\ pipelines' = [p \in DOMAIN pipelines |->
       IF pipelines[p].phase = "waiting" THEN [pipelines[p] EXCEPT !.phase = "refused"] ELSE pipelines[p]]
  /\ called' = [c \in Commands |-> IF called[c] = "waiting" THEN "refused" ELSE called[c]]
  /\ UNCHANGED <<slots, groupIds, automatic, topology, confirmed>>

\* A slot begins to migrate, or has moved.
ClusterChanges(s) ==
  /\ Idle /\ Fault
  /\ \E n \in Nodes \ {owner[s]} :
       \/ importing[s] = NoNode /\ importing' = [importing EXCEPT ![s] = n] /\ UNCHANGED owner
       \/ owner' = [owner EXCEPT ![s] = n] /\ importing' = [importing EXCEPT ![s] = NoNode]
  /\ UNCHANGED <<routing, sending, pipelines, automatic, called, confirmed>>

------------------------------------------------------------------------------
Init ==
  /\ cluster = "connecting" /\ slots = [s \in Slots |-> NoNode] /\ groupIds = {} /\ pool = {}
  /\ offline = <<>> /\ wire = [n \in Nodes |-> <<>>] /\ failed = <<>>
  /\ pipelines = <<>> /\ auto = [n \in Nodes |-> 0] /\ running = {} /\ immediates = <<>>
  /\ called = [c \in Commands |-> "no"]
  /\ owner \in [Slots -> Nodes] /\ importing = [s \in Slots |-> NoNode]
  /\ confirmed = {} /\ faults = 0

Application ==
  \/ \E c \in Commands : Issue(c)
  \/ \E b \in Batches : Send(b, FALSE)
  \/ \E b \in Transactions : Send(b, TRUE)

Microtasks ==
  \/ Fails
  \/ \E c \in Commands : Woken(c)
  \/ \E p \in DOMAIN pipelines : Callback(p) \/ Resumed(p)

\* Something that can happen by itself happens: promises, setImmediate, timers, answers and
\* the connection of the cluster.
System ==
  \/ Microtasks \/ Immediate \/ \E p \in DOMAIN pipelines : DelayTimer(p)
  \/ (\E n \in Nodes : Answered(n)) \/ Connected \/ Ready

Next ==
  \/ Application \/ System
  \/ \E n \in Nodes : Refused(n) \/ NodeLost(n)
  \/ Refresh \/ Ends
  \/ \E s \in Slots : ClusterChanges(s)

Spec == Init /\ [][Next]_vars

Fairness == WF_vars(System)
FairSpec == Spec /\ Fairness

------------------------------------------------------------------------------
(* Properties.                                                               *)

\* A write whose success has been read is not sent again: while a command waits for its
\* reply it has not succeeded before (README, "Transaction and Pipeline in Cluster Mode":
\* "This makes sure that resending the pipeline won't have side effects").
Waiting(r) ==
  IF r.phase = "delayed" THEN {r.queue[i] : i \in DOMAIN r.queue}
  ELSE IF r.phase = "sent"
  THEN {r.queue[i] : i \in (Len(r.queue) - r.replyPending + 1)..Len(r.queue)}
  ELSE {}
WritesNotRepeated ==
  \A p \in DOMAIN pipelines : Waiting(pipelines[p]) \cap confirmed = {}

\* Every caller of a settled pipeline is given an entry of its own: an error, or what a node
\* answered to its command.
OwnResults ==
  \A p \in DOMAIN pipelines :
    LET r == pipelines[p]
    IN  r.phase \in {"resolved", "answered"} =>
          /\ Len(r.answer) = Len(r.calls)
          /\ \A k \in DOMAIN r.calls : IsError(r.answer[k]) \/ r.answer[k].of = <<r.calls[k]>>

\* Every call is answered, however its pipeline is put off, resent, refused or overtaken.
\* (A call is made once, so that no call is for ever among those still to be answered.)
CallsAreAnswered == []<>(\A c \in Commands : called[c] \in {"no", "answered"})

\* The shape of the state.  No pipeline counts more replies than it has sent commands, or
\* goes on counting below zero (fillResult would never find its end).
TypeOK ==
  /\ cluster \in {"connecting", "connect", "ready", "reconnecting", "end"}
  /\ slots \in [Slots -> Nodes \cup {NoNode}] /\ groupIds \subseteq Nodes /\ pool \subseteq Nodes
  /\ auto \in [Nodes -> 0..Len(pipelines)] /\ running \subseteq Nodes
  /\ immediates \in Seq(Nodes)
  /\ called \in [Commands -> {"no", "waiting", "woken", "refused", "made", "answered"}]
  /\ owner \in [Slots -> Nodes] /\ importing \in [Slots -> Nodes \cup {NoNode}]
  /\ confirmed \subseteq Writes /\ faults \in 0..MaxFaults
  /\ \A p \in DOMAIN pipelines : pipelines[p].replyPending \in 0..Len(pipelines[p].queue)
==============================================================================
