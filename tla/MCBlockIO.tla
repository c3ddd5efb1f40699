----------------------------- MODULE MCBlockIO -----------------------------
(* Instances of BlockIO for TLC: a head of more than one packet, and five  *)
(* items: two calls of more than one packet, and a rest.                   *)
EXTENDS BlockIO

=============================================================================
