------------------------ MODULE MCShardedSubscribers ------------------------
(* ShardedSubscribers with two nodes, two slots and two channels. *)
EXTENDS ShardedSubscribers
CONSTANTS n1, n2, s1, s2, c1, c2
MCNodes == {n1, n2}
MCSlots == {s1, s2}
MCChannels == {c1, c2}
MCSlotOf == [c \in MCChannels |-> IF c = c1 THEN s1 ELSE s2]
MCFirstOwner == [s \in MCSlots |-> IF s = s1 THEN n1 ELSE n2]
=============================================================================
