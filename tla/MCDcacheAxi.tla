----------------------------- MODULE MCDcacheAxi ----------------------------
(* Instance of DcacheAxi for TLC. *)
EXTENDS DcacheAxi
=============================================================================
