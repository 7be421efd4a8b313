--------------------------- MODULE MCExternalSync ---------------------------
(* Instances of ExternalSync for TLC. *)
EXTENDS ExternalSync
=============================================================================
