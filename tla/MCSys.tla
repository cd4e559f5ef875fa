------------------------------- MODULE MCSys --------------------------------
(* Instances of Sys for TLC: two words of RAM, one display register, and a  *)
(* character display of two places.  Display registers alias RAM word 0.    *)
EXTENDS Sys

MCWord == [a \in Addrs |-> IF a \in Ram THEN a ELSE ZeroAddr]
MCTags == [addr : Addrs, val : Vals]
=============================================================================
