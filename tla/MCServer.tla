------------------------------ MODULE MCServer ------------------------------
(* Instances of IdgServer for TLC.                                         *)
EXTENDS IdgServer

CONSTANTS x1, x2, x3

=============================================================================
