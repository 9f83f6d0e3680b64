---------------------------- MODULE Himport ----------------------------
(***************************************************************************)
(* Managed HIMPORT fieldsets: lib/himport/HimportCoordinator.ts with the   *)
(* parts of lib/Redis.ts, lib/redis/event_handler.ts and lib/Pipeline.ts   *)
(* that it works on.                                                       *)
(*                                                                         *)
(* A fieldset lives in the session of a connection.  The coordinator sends *)
(* HIMPORT PREPARE in the handshake, before a HIMPORT SET whose fieldset   *)
(* it does not believe to be prepared, and once more when the server       *)
(* knows no such fieldset.  One connection and one fieldset are modelled   *)
(* (the entries of two fieldsets are independent), with the two kinds of   *)
(* callers: SET commands sent alone, which recover, and pipelines of one   *)
(* SET, which are prepared before they are sent and do not.                *)
(*                                                                         *)
(* Everything the client does on an event is one step, except that         *)
(* readyHandler sends one command in a step (nothing else happens          *)
(* meanwhile).  The server answers commands in the order they were         *)
(* written; that it executes one and that its reply is handled is one      *)
(* step, as nothing else can see the session.  maxRetriesPerRequest is     *)
(* null and nobody disconnects.                                            *)
(***************************************************************************)
EXTENDS Integers, Sequences, SequencesExt

CONSTANTS
  Sets,              \* HIMPORT SET commands
  Piped,             \* those that are sent in a pipeline of their own
  MaxFaults          \* bound: lost connections, timeouts, refusals, RESET and DISCARD

ASSUME HimportAssumption ==
  Piped \subseteq Sets /\ MaxFaults \in Nat

VARIABLES
  client,
  server,            \* does the session of the connection have the fieldset
  discarded,         \* history: it was discarded by hand after it was last prepared
  disturbed,         \* history: the SETs that were pending when RESET or DISCARD was called
  faults

vars == <<client, server, discarded, disturbed, faults>>

Fault == faults < MaxFaults /\ faults' = faults + 1

NoEntry == [status |-> "none", id |-> 0]

\* status: of the connection; session and entry: of the coordinator; wire, resend, offline:
\* commandQueue, prevCommandQueue, offlineQueue; backlog: what readyHandler has yet to send;
\* next: the number of the next PREPARE.
\* waiting: the PREPARE whose promise a SET waits for; recovered: recoveryAttempts > 0.
Initial ==
  [status |-> "down", session |-> 0, entry |-> NoEntry, handshake |-> 0, next |-> 1,
   wire |-> <<>>, resend |-> <<>>, offline |-> <<>>, backlog |-> <<>>,
   waiting |-> [c \in Sets |-> 0], recovered |-> {}, outcome |-> [c \in Sets |-> "none"]]

Prepare(k) == [kind |-> "prepare", id |-> k.next, session |-> k.session]
Set(c) == [kind |-> "set", set |-> c]
Forgets == {[kind |-> "reset"], [kind |-> "discard"]}

Settled(k, c) == k.outcome[c] # "pending"

------------------------------------------------------------------------------
(* Sending.                                                                  *)

\* The end of Redis.sendCommand: only a PREPARE of the coordinator passes the handshake.
Write(k, item) ==
  IF k.status = "ready" \/ (k.status = "connect" /\ item.kind = "prepare")
  THEN [k EXCEPT !.wire = Append(@, item)]
  ELSE [k EXCEPT !.offline = Append(@, item)]

\* ensurePrepared: afterwards there is nothing to wait for, or entry.id.
EnsurePrepared(k) ==
  IF k.entry.status # "none" THEN k
  ELSE Write([k EXCEPT !.entry = [status |-> "preparing", id |-> k.next], !.next = @ + 1],
             Prepare(k))

Waits(k, c) == [k EXCEPT !.waiting[c] = k.entry.id]

\* interceptCommand, or a pipeline that is executed: the SET goes out once it is prepared.
SendPrepared(k, c) ==
  LET prepared == EnsurePrepared(k)
  IN  IF prepared.entry.status = "prepared" THEN Write(prepared, Set(c)) ELSE Waits(prepared, c)

\* Redis.sendCommand.
Send(k, item) ==
  IF item.kind = "reset" THEN Write([k EXCEPT !.entry = NoEntry], item)
  ELSE IF item.kind # "set" \/ item.set \in Piped \/ k.status # "ready" THEN Write(k, item)
  ELSE IF Settled(k, item.set) THEN k
  ELSE SendPrepared(k, item.set)

\* readyHandler: unanswered commands are sent again, then those of the offline queue.
BecomeReady(k) ==
  [k EXCEPT !.status = "ready", !.backlog = k.resend \o k.offline,
            !.resend = <<>>, !.offline = <<>>]

SendBacklog ==
  /\ client' = Send([client EXCEPT !.backlog = Tail(@)], Head(client.backlog))
  /\ UNCHANGED <<server, discarded, disturbed, faults>>

------------------------------------------------------------------------------
(* A PREPARE is settled.                                                     *)

Waiting(k, p) == {c \in Sets : k.waiting[c] = p.id}

\* Those that wait for it are settled, or are sent without being prepared again.
Refuse(k, cs) ==
  [k EXCEPT !.waiting = [c \in Sets |-> IF c \in cs THEN 0 ELSE @[c]],
            !.outcome = [c \in Sets |-> IF c \in cs THEN "refused" ELSE @[c]]]
Resume(k, cs) ==
  LET sets == SetToSeq({Set(c) : c \in cs})
  IN  [k EXCEPT !.waiting = [c \in Sets |-> IF c \in cs THEN 0 ELSE @[c]],
                !.wire = IF k.status = "ready" THEN @ \o sets ELSE @,
                !.offline = IF k.status = "ready" THEN @ ELSE @ \o sets]

\* Mutant: a preparation of an older session is forgotten.
Adopt_Forgets(k, p) == k

\* The session is not the one it was sent in: its promise becomes that of a preparation in
\* the session of now.
Adopt(k, p) ==
  LET now == EnsurePrepared(k)
  IN  IF now.entry.status = "prepared" THEN Resume(now, Waiting(k, p))
      ELSE [now EXCEPT !.waiting =
              [c \in Sets |-> IF c \in Waiting(k, p) THEN now.entry.id ELSE @[c]]]

\* Mutant: any PREPARE that is answered settles the entry.
Latest_Any(k, p) == k.entry.status = "preparing"
Latest(k, p) == k.entry.status = "preparing" /\ k.entry.id = p.id

Recorded(k, p, status) ==
  IF Latest(k, p)
  THEN [k EXCEPT !.entry = IF status = "none" THEN NoEntry ELSE [status |-> status, id |-> 0]]
  ELSE k

\* connectHandler waits for the handshake whatever becomes of its PREPARE.
Continue(k, p) ==
  IF k.status = "connect" /\ k.handshake = p.id THEN BecomeReady(k) ELSE k

Succeeds(k, p) ==
  IF p.session # k.session THEN Adopt(k, p)
  ELSE Continue(Resume(Recorded(k, p, "prepared"), Waiting(k, p)), p)

Fails(k, p) ==
  IF p.session # k.session THEN Adopt(k, p)
  ELSE Continue(Refuse(Recorded(k, p, "none"), Waiting(k, p)), p)

------------------------------------------------------------------------------
(* Replies.                                                                  *)

\* Mutant: the entry that proved to be wrong is kept.
Unprepared_Keeps(entry) == entry
Unprepared(entry) == IF entry.status = "prepared" THEN NoEntry ELSE entry

\* "no such fieldset": a SET that was sent alone prepares and is sent again, once.
Missing(k, c) ==
  IF c \in Piped \cup k.recovered THEN [k EXCEPT !.outcome[c] = "missing"]
  ELSE LET again == EnsurePrepared([k EXCEPT !.recovered = @ \cup {c},
                                             !.entry = Unprepared(@)])
       IN  IF again.entry.status = "prepared" THEN Write(again, Set(c)) ELSE Waits(again, c)

Popped == [client EXCEPT !.wire = Tail(@)]

\* A PREPARE that has timed out (id 0) has nobody to tell.
PrepareAnswered ==
  /\ client.wire # <<>> /\ Head(client.wire).kind = "prepare"
  /\ LET p == Head(client.wire)
     IN  \/ /\ server' = TRUE /\ discarded' = FALSE
            /\ client' = IF p.id = 0 THEN Popped ELSE Succeeds(Popped, p)
            /\ UNCHANGED faults
         \/ /\ Fault /\ p.id # 0 /\ client' = Fails(Popped, p)
            /\ UNCHANGED <<server, discarded>>
  /\ UNCHANGED disturbed

SetAnswered ==
  /\ client.wire # <<>> /\ Head(client.wire).kind = "set"
  /\ LET c == Head(client.wire).set
     IN  client' = IF Settled(client, c) THEN Popped
                   ELSE IF server THEN [Popped EXCEPT !.outcome[c] = "done"]
                   ELSE Missing(Popped, c)
  /\ UNCHANGED <<server, discarded, disturbed, faults>>

ForgetAnswered ==
  /\ client.wire # <<>> /\ Head(client.wire) \in Forgets
  /\ server' = FALSE /\ discarded' = (discarded \/ Head(client.wire).kind = "discard")
  /\ client' = Popped
  /\ UNCHANGED <<disturbed, faults>>

------------------------------------------------------------------------------
(* The application.                                                          *)

Call(c) ==
  /\ client.outcome[c] = "none"
  /\ LET called == [client EXCEPT !.outcome[c] = "pending"]
     IN  client' = IF c \in Piped THEN SendPrepared(called, c) ELSE Send(called, Set(c))
  /\ UNCHANGED <<server, discarded, disturbed, faults>>

\* RESET, or HIMPORT DISCARD by hand.
Forget(item) ==
  /\ Fault
  /\ client' = Send(client, item)
  /\ disturbed' = disturbed \cup {c \in Sets : client.outcome[c] = "pending"}
  /\ UNCHANGED <<server, discarded>>

\* commandTimeout, which a command of a pipeline has once it is sent.
SetTimesOut(c) ==
  /\ client.outcome[c] = "pending" /\ (c \in Piped => client.waiting[c] = 0) /\ Fault
  /\ client' = [client EXCEPT !.outcome[c] = "timeout", !.waiting[c] = 0]
  /\ UNCHANGED <<server, discarded, disturbed>>

\* commandTimeout of a PREPARE: it may still be executed.
PrepareTimesOut ==
  /\ Fault
  /\ \E p \in ToSet(client.wire \o client.resend \o client.offline) :
       /\ p.kind = "prepare" /\ p.id # 0
       /\ LET expired(q) == IF q = p THEN [q EXCEPT !.id = 0] ELSE q
              over(s) == [i \in DOMAIN s |-> expired(s[i])]
          IN  client' = Fails([client EXCEPT !.wire = over(@), !.resend = over(@),
                                             !.offline = over(@)], p)
  /\ UNCHANGED <<server, discarded, disturbed>>

------------------------------------------------------------------------------
(* The connection.                                                           *)

\* connectHandler: a new session, and PREPARE in the handshake.
Connect ==
  /\ client.status = "down"
  /\ LET begun == EnsurePrepared([client EXCEPT !.status = "connect", !.entry = NoEntry,
                                                !.session = @ + 1, !.wire = <<>>])
     IN  client' = [begun EXCEPT !.handshake = begun.entry.id]
  /\ server' = FALSE /\ discarded' = FALSE
  /\ UNCHANGED <<disturbed, faults>>

\* closeHandler: what was written on a connection that was ready is sent again; what was
\* written in a handshake is dropped.
Lose ==
  /\ client.status # "down" /\ Fault
  /\ client' = [client EXCEPT !.status = "down", !.wire = <<>>,
                  !.resend = IF client.status = "ready" THEN client.wire ELSE @]
  /\ UNCHANGED <<server, discarded, disturbed>>

------------------------------------------------------------------------------
Init ==
  /\ client = Initial /\ server = FALSE /\ discarded = FALSE /\ disturbed = {} /\ faults = 0

Answers == PrepareAnswered \/ SetAnswered \/ ForgetAnswered

Event ==
  \/ Answers \/ Connect \/ Lose \/ PrepareTimesOut
  \/ \E c \in Sets : Call(c) \/ SetTimesOut(c)
  \/ \E item \in Forgets : Forget(item)

Next ==
  \/ client.backlog # <<>> /\ SendBacklog
  \/ client.backlog = <<>> /\ Event

Spec == Init /\ [][Next]_vars

\* The client reconnects and the server answers.
Fairness == WF_vars(client.backlog # <<>> /\ SendBacklog)
            /\ WF_vars(client.backlog = <<>> /\ (Connect \/ Answers))
FairSpec == Spec /\ Fairness

------------------------------------------------------------------------------
(* Properties.                                                               *)

\* What the coordinator believes to be prepared is prepared in the session of this very
\* connection, unless it was discarded by hand: no late reply, of an older session or from
\* before RESET, makes it believe otherwise.
BeliefIsRight == client.entry.status = "prepared" => server \/ discarded

\* A SET that is sent alone fails for want of its fieldset only if RESET or DISCARD was called
\* while it was pending: whatever was discarded, lost or refused before is made up for by the
\* one recovery it has.
OnlyDisturbedSetsFail ==
  \A c \in Sets \ Piped : client.outcome[c] = "missing" => c \in disturbed

\* Every SET that is sent alone is settled in the end: it never waits for a preparation that
\* nobody finishes.
SetsAreAnswered == []<>(\A c \in Sets \ Piped : client.outcome[c] # "pending")

\* So is every pipeline: it waits for the required preparation before it is sent (README.md:
\* "wait for required fieldset preparation on their selected connection").
PipelinesAreAnswered == []<>(\A c \in Piped : client.outcome[c] # "pending")
==============================================================================
