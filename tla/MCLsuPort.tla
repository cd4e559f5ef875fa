----------------------------- MODULE MCLsuPort ------------------------------
(* Instance of LsuPort for TLC. *)
EXTENDS LsuPort
=============================================================================
