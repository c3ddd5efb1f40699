------------------------------- MODULE MCPool -------------------------------
(* Instances of StoragePool for TLC.                                       *)
EXTENDS StoragePool, TLC

CONSTANTS k1, k2, r1, r2, s1

RequestOnly == <<"request">>
DataOnly == <<"data">>

(* Connections, and the threads of one kind, are interchangeable.          *)
PoolSymmetry ==
  Permutations(Conn) \cup Permutations(RecvThread) \cup Permutations(SendThread)

=============================================================================
