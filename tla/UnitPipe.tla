------------------------------ MODULE UnitPipe ------------------------------
(***************************************************************************)
(* What the transfer functions promise, and what Wire takes for granted: a *)
(* unit -- a head, or the items after it -- passes as a whole or not at    *)
(* all, in order, and either end may give up.                              *)
(***************************************************************************)
EXTENDS Naturals

CONSTANT Units  \* units to transfer

VARIABLES
  pushed,  \* units sent as a whole
  popped,  \* units whose receive call returned their size
  sEnd,    \* the sender: "none" while it works, "ok", "failed"
  rEnd     \* the receiver

Init == pushed = 0 /\ popped = 0 /\ sEnd = "none" /\ rEnd = "none"

Push ==
  /\ sEnd = "none" /\ pushed < Units
  /\ pushed' = pushed + 1
  /\ sEnd' = IF pushed' = Units THEN "ok" ELSE sEnd
  /\ UNCHANGED <<popped, rEnd>>

Pop ==
  /\ rEnd = "none" /\ popped < pushed
  /\ popped' = popped + 1
  /\ rEnd' = IF popped' = Units THEN "ok" ELSE rEnd
  /\ UNCHANGED <<pushed, sEnd>>

SenderFails ==
  /\ sEnd = "none" /\ sEnd' = "failed"
  /\ UNCHANGED <<pushed, popped, rEnd>>

ReceiverFails ==
  /\ rEnd = "none" /\ rEnd' = "failed"
  /\ UNCHANGED <<pushed, popped, sEnd>>

Next == Push \/ Pop \/ SenderFails \/ ReceiverFails

Spec == Init /\ [][Next]_<<pushed, popped, sEnd, rEnd>>

=============================================================================
