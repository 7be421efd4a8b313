--------------------------- MODULE MCApiManager ----------------------------
(* Instances of ApiManager for TLC. *)
EXTENDS ApiManager
=============================================================================
