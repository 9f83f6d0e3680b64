---------------------------- MODULE MCHimport ----------------------------
(* Himport with two SETs sent alone and one in a pipeline. *)
EXTENDS Himport
CONSTANTS set1, set2, piped1
MCSets == {set1, set2, piped1}
MCPiped == {piped1}
==========================================================================
