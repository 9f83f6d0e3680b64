--------------------------- MODULE MCRedisClient ---------------------------
(* RedisClient on small instances: the commands of each run. *)
EXTENDS RedisClient

\* A get, a select of database 1, a pipeline of two gets, a transaction, and a quit.
MCName == [c \in Commands |->
  CASE c = "s1" -> "select"
    [] c \in {"m1", "m2"} -> "multi"
    [] c \in {"x1", "x2"} -> "exec"
    [] c = "q1" -> "quit"
    [] c = "i1" -> "info"
    [] OTHER -> "get"]
MCArgument == [c \in Commands |-> IF c = "s1" THEN 1 ELSE 0]

ReplayCommands == {"g1", "s1", "p1", "p2"}
ReplayBatches == {<<"g1">>, <<"s1">>, <<"p1", "p2">>}

CallsCommands == {"m1", "x1", "q1"}
CallsBatches == {<<"m1", "x1">>, <<"q1">>}

LivenessCommands == {"p1", "p2", "g1"}
LivenessBatches == {<<"p1", "p2">>, <<"g1">>}
=============================================================================
