------------------------- MODULE MCClusterSubscriber -------------------------
(* ClusterSubscriber with two nodes and two channels. *)
EXTENDS ClusterSubscriber
CONSTANTS n1, n2, c1, c2
MCNodes == {n1, n2}
MCChannels == {c1, c2}
==============================================================================
