------------------------- MODULE ConnectionLifecycle -------------------------
(***************************************************************************)
(* What a Redis connection object promises about its status: the diagram   *)
(* of lib/Redis.ts ("end(or wait) -> connecting -> connect -> ready ->     *)
(* end") with the reconnecting state of lib/redis/event_handler.ts, tied   *)
(* to the life of the socket behind it.  One socket lives at a time, a     *)
(* status that claims a connection is backed by an open socket, and every  *)
(* socket belongs to the attempt (epoch) that dialled it.                  *)
(***************************************************************************)
EXTENDS Naturals

VARIABLES
  status,   \* the client's public status
  socket,   \* "none", "opening" or "open"
  epoch     \* number of connection attempts so far

vars == <<status, socket, epoch>>

Init == /\ status \in {"wait", "connecting"}
        /\ socket = "none"
        /\ epoch = IF status = "wait" THEN 0 ELSE 1

\* A connection attempt begins.
Start == /\ status \in {"wait", "reconnecting", "end"}
         /\ socket = "none"
         /\ status' = "connecting"
         /\ epoch' = epoch + 1
         /\ UNCHANGED socket

\* The attempt creates its socket ...
Dial == /\ status = "connecting" /\ socket = "none"
        /\ socket' = "opening"
        /\ UNCHANGED <<status, epoch>>

\* ... or was called off before it could.
CallOff == /\ status = "connecting" /\ socket = "none"
           /\ status' = "end"
           /\ UNCHANGED <<socket, epoch>>

\* The socket connects; the handshake begins.
Up == /\ status = "connecting" /\ socket = "opening"
      /\ status' = "connect"
      /\ socket' = "open"
      /\ UNCHANGED epoch

\* The handshake of the connection that is open now is complete.
Ready == /\ status = "connect" /\ socket = "open"
         /\ status' = "ready"
         /\ UNCHANGED <<socket, epoch>>

\* The socket closes, in whatever phase; a retry is scheduled or the client ends.
Down == /\ socket # "none"
        /\ socket' = "none"
        /\ status' \in {"reconnecting", "end"}
        /\ UNCHANGED epoch

\* A client that never connected is closed.
Discard == /\ status = "wait"
           /\ status' \in {"reconnecting", "end"}
           /\ UNCHANGED <<socket, epoch>>

Next == Start \/ Dial \/ CallOff \/ Up \/ Ready \/ Down \/ Discard

Spec == Init /\ [][Next]_vars
=============================================================================
