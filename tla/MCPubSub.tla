------------------------------- MODULE MCPubSub -------------------------------
(* PubSub on small instances: the commands of each run. *)
EXTENDS PubSub

\* Two channels and two sharded ones are subscribed to, a channel is dropped; and a GET.
RestoreCommands == {"s2", "u", "ss", "g"}

MCName == [c \in Commands |->
  CASE c = "s2" -> "subscribe"
    [] c = "u" -> "unsubscribe"
    [] c = "ss" -> "ssubscribe"
    [] OTHER -> "get"]
MCArgs == [c \in Commands |-> IF c \in {"s2", "ss"} THEN <<"a", "b">> ELSE <<"a">>]
=============================================================================
