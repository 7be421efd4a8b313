---------------------------- MODULE MCNodeLabels ----------------------------
(* Instances of NodeLabels for TLC. *)
EXTENDS NodeLabels
=============================================================================
