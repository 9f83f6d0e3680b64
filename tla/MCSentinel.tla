----------------------------- MODULE MCSentinel -----------------------------
(* Sentinel with three sentinels, of which the client is given one or more. *)
EXTENDS Sentinel
CONSTANTS n1, s1, s2, s3
MCPreferred == <<n1>>
MCGiven == {<<s1>>, <<s1, s2>>, <<s1, s2, s3>>}
=============================================================================
