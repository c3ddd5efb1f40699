----------------------------- MODULE MCTransfer -----------------------------
(* Instances of Transfer for TLC.  The index of "Cross" moves items on two *)
(* routes; storage 1 of "Phantom" has no items and is asked for one all    *)
(* the same (init_storages reads an empty range as the range 0..0, the     *)
(* item of storage 0), which its range count leaves out.                   *)
EXTENDS TransferProps, TLC

CONSTANTS c1, c2

Table(x00, x01, x10, x11) ==
  [c \in Client |-> [i \in Storage |-> [j \in Storage |->
     IF i = 0 THEN IF j = 0 THEN x00 ELSE x01
              ELSE IF j = 0 THEN x10 ELSE x11]]]

RangeSum(request) ==
  [c \in Client |-> [i \in Storage |->
     MapThenSumSet(LAMBDA j : request[c][i][j], Storage)]]

(* The requests of a client whose part is the one item <<0, 1>>.            *)
Index == INSTANCE IndexLoops
PhantomPart == <<<<0, 1>>>>
PhantomRanges == Index!Ranges(PhantomPart, [i \in Storage |-> Index!NoRange])
NoHeads == [heads |-> [j \in Storage |-> 0], toSend |-> [j \in Storage |-> 0]]
PhantomRequest ==
  [c \in Client |-> [i \in Storage |->
     Index!Group(PhantomPart, PhantomRanges[i], NoHeads).heads]]
PhantomRangeCount == [c \in Client |-> [i \in Storage |-> PhantomRanges[i].count]]

CrossRequest == Table(0, 3, 1, 0)
CrossRangeCount == RangeSum(CrossRequest)

(* One item for each of two clients, on a single storage.                  *)
OneEachRequest == [c \in Client |-> OnStorage(OnStorage(1))]
OneEachRangeCount == RangeSum(OneEachRequest)

(* The threads of one kind are interchangeable.                            *)
ThreadSymmetry ==
  Permutations(CRecvThread) \cup Permutations(SRecvThread)
  \cup Permutations(SSendThread)

=============================================================================
