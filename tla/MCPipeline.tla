------------------------------ MODULE MCPipeline ------------------------------
(* Pipeline with two nodes, two slots and three commands. *)
EXTENDS Pipeline
CONSTANTS r1, w1, w2, s1, s2, n1, n2
MCCommands == {r1, w1, w2}
MCWrites == {w1, w2}
MCSlots == {s1, s2}
MCSlot == [c \in MCCommands |-> IF c = w2 THEN s2 ELSE s1]
MCNodes == {n1, n2}
MCBatches == {<<r1, w1>>, <<r1, w2>>}
MCTransactions == {<<r1, w1>>}
MCAuto == {r1, w1}
==============================================================================
