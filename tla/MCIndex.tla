------------------------------- MODULE MCIndex -------------------------------
(* Instances of IndexFlow for TLC: small indexes in every order, larger    *)
(* ones as they come, with a float of so few bits that its rounding shows  *)
(* among the sizes of both.                                                *)
EXTENDS IndexFlow

=============================================================================
