------------------------------- MODULE BlockIO -------------------------------
(***************************************************************************)
(* The transfer functions of idg_common.c: send_data_non_block and         *)
(* recv_data_non_block, loops of select() and send() or recv() over a byte *)
(* stream that takes and yields as many bytes as it likes; and, when       *)
(* blocking, send_data_block and recv_data_block (which are send_data and  *)
(* recv_data of test_common.c too), the same without select().             *)
(*                                                                         *)
(* A sender sends a head and then Count items, at most Mtu of them in one  *)
(* call, and a receiver makes the calls that fit, as test_client.c and     *)
(* test_server.c do; the clients and storages send one head per call of at *)
(* most Mtu items.  The head is kept (reuse = 0), the items are thrown     *)
(* away (reuse = 1).  The connection may be reset or go silent.  A byte is *)
(* <<call, position>>.                                                     *)
(***************************************************************************)
EXTENDS Integers, Sequences

CONSTANTS
  Count,       \* items to transfer
  Mtu,         \* REPORT_MTU_COUNT
  HeadSize,    \* sizeof(TReportHead)
  ItemSize,    \* sizeof(TReportItem)
  PacketSize,  \* SOCK_PACKET_SIZE
  Capacity,    \* bytes the kernels hold between the two
  Timeout,     \* RECV_TIMEOUT, SEND_TIMEOUT, in units of time
  Faults       \* what may happen to the connection: "reset", "cut"

ASSUME BlockAssumption ==
  /\ Count \in Nat \ {0} /\ Mtu \in Nat \ {0}
  /\ HeadSize \in Nat \ {0} /\ ItemSize \in Nat \ {0}
  /\ PacketSize \in Nat \ {0} /\ Capacity \in Nat \ {0}
  /\ Timeout \in Nat \ {0}
  /\ Faults \subseteq {"reset", "cut"}

Min(m, n) == IF m <= n THEN m ELSE n

(* The sizes of the calls: the loop that takes at most Mtu items a time.   *)
Turns == (Count + Mtu - 1) \div Mtu
Size(call) ==
  IF call = 1 THEN HeadSize
  ELSE ItemSize * Min(Mtu, Count - (call - 2) * Mtu)
Calls == Turns + 1

VARIABLES
  blocking,  \* are the functions without select() used?
  wire,      \* bytes sent and not received
  link,      \* the connection: up, cut (silent) or reset
  snd,       \* the sender: its call, its bytes done, its place, its time left
  rcv,       \* the receiver
  buf        \* data of the receiver: the head, and the buffer of the items

vars == <<blocking, wire, link, snd, rcv, buf>>

MaxSize == IF HeadSize > ItemSize * Mtu THEN HeadSize ELSE ItemSize * Mtu
Byte == (1 .. Calls) \X (1 .. MaxSize)
Empty == <<0, 0>>
Clean == [p \in 1 .. MaxSize |-> Empty]
At == {"select", "ready", "ok", "eof", "error", "timeout"}

(* A call begins: n_read = 0, timeout_read = timeout.                      *)
Begin(call) ==
  [call |-> call, n |-> 0, at |-> IF blocking THEN "ready" ELSE "select",
   left |-> Timeout]

Side == [call : 1 .. Calls, n : 0 .. MaxSize, at : At, left : 0 .. Timeout]

TypeOK ==
  /\ blocking \in BOOLEAN
  /\ wire \in Seq(Byte) /\ Len(wire) <= Capacity
  /\ link \in {"up", "cut", "reset"}
  /\ snd \in Side /\ rcv \in Side
  /\ buf \in [{"head", "items"} -> [1 .. MaxSize -> Byte \cup {Empty}]]

Init ==
  /\ blocking \in BOOLEAN
  /\ wire = <<>>
  /\ link = "up"
  /\ snd = Begin(1)
  /\ rcv = Begin(1)
  /\ buf = [head |-> Clean, items |-> Clean]

Works(side) == side.at \in {"select", "ready"}

(* Mutant: a packet is as large as it can be.                              *)
PieceFull(side) == PacketSize
(* read_len, send_len                                                      *)
Piece(side) == Min(Size(side.call) - side.n, PacketSize)

(* Mutant: a short count ends the call.                                    *)
DoneShort(side, m) ==
  IF side.call < Calls THEN Begin(side.call + 1)
  ELSE [side EXCEPT !.n = @ + m, !.at = "ok"]

(* m bytes are done: the call goes on with its inner loop, or returns and  *)
(* the next one begins.                                                    *)
Done(side, m) ==
  IF side.n + m < Size(side.call) THEN [side EXCEPT !.n = @ + m]
  ELSE IF side.call < Calls THEN Begin(side.call + 1)
  ELSE [side EXCEPT !.n = @ + m, !.at = "ok"]

-----------------------------------------------------------------------------
Writable == Len(wire) < Capacity \/ link = "reset"

SendSelect ==
  /\ snd.at = "select" /\ Writable
  /\ snd' = [snd EXCEPT !.at = "ready"]
  /\ UNCHANGED <<blocking, wire, link, rcv, buf>>

Send ==
  /\ snd.at = "ready" /\ link # "reset"
  /\ \E m \in 1 .. Min(Piece(snd), Capacity - Len(wire)) :
       /\ wire' = wire \o [p \in 1 .. m |-> <<snd.call, snd.n + p>>]
       /\ snd' = Done(snd, m)
  /\ UNCHANGED <<blocking, link, rcv, buf>>

(* EWOULDBLOCK                                                             *)
SendWouldBlock ==
  /\ snd.at = "ready" /\ ~Writable /\ ~blocking
  /\ snd' = [snd EXCEPT !.at = "select"]
  /\ UNCHANGED <<blocking, wire, link, rcv, buf>>

SendError ==
  /\ snd.at = "ready" /\ link = "reset"
  /\ snd' = [snd EXCEPT !.at = "error"]
  /\ UNCHANGED <<blocking, wire, link, rcv, buf>>

SendTimeout ==
  /\ snd.at = "select" /\ ~Writable /\ snd.left = 0
  /\ snd' = [snd EXCEPT !.at = "timeout"]
  /\ UNCHANGED <<blocking, wire, link, rcv, buf>>

-----------------------------------------------------------------------------
(* The sender closes its socket when it is through or has failed.          *)
AtEnd == ~Works(snd) /\ wire = <<>> /\ link = "up"
Arrived == wire # <<>> /\ link = "up"
Readable == Arrived \/ AtEnd \/ link = "reset"

RecvSelect ==
  /\ rcv.at = "select" /\ Readable
  /\ rcv' = [rcv EXCEPT !.at = "ready"]
  /\ UNCHANGED <<blocking, wire, link, snd, buf>>

(* The m bytes are put at data + n_read, or at data when it is reused.     *)
(* Mutant: they are put at data + n_read also when it is reused.           *)
StoreOn(m) ==
  LET field == IF rcv.call = 1 THEN "head" ELSE "items"
  IN  [buf EXCEPT ![field] =
         [p \in 1 .. MaxSize |-> IF p - rcv.n \in 1 .. m THEN wire[p - rcv.n] ELSE @[p]]]

Store(m) ==
  LET field == IF rcv.call = 1 THEN "head" ELSE "items"
      offset == IF rcv.call = 1 THEN rcv.n ELSE 0
  IN  [buf EXCEPT ![field] =
         [p \in 1 .. MaxSize |-> IF p - offset \in 1 .. m THEN wire[p - offset] ELSE @[p]]]

Recv ==
  /\ rcv.at = "ready" /\ Arrived
  /\ \E m \in 1 .. Min(Piece(rcv), Len(wire)) :
       /\ wire' = SubSeq(wire, m + 1, Len(wire))
       /\ buf' = Store(m)
       /\ rcv' = Done(rcv, m)
  /\ UNCHANGED <<blocking, link, snd>>

RecvWouldBlock ==
  /\ rcv.at = "ready" /\ ~Readable /\ ~blocking
  /\ rcv' = [rcv EXCEPT !.at = "select"]
  /\ UNCHANGED <<blocking, wire, link, snd, buf>>

RecvEof ==
  /\ rcv.at = "ready" /\ AtEnd
  /\ rcv' = [rcv EXCEPT !.at = "eof"]
  /\ UNCHANGED <<blocking, wire, link, snd, buf>>

RecvError ==
  /\ rcv.at = "ready" /\ link = "reset"
  /\ rcv' = [rcv EXCEPT !.at = "error"]
  /\ UNCHANGED <<blocking, wire, link, snd, buf>>

RecvTimeout ==
  /\ rcv.at = "select" /\ ~Readable /\ rcv.left = 0
  /\ rcv' = [rcv EXCEPT !.at = "timeout"]
  /\ UNCHANGED <<blocking, wire, link, snd, buf>>

(* The receiver has closed its socket after an error: what is sent to it   *)
(* is answered with a reset.                                               *)
PeerReset ==
  /\ ~Works(rcv) /\ rcv.at # "ok" /\ link = "up" /\ wire # <<>>
  /\ link' = "reset"
  /\ wire' = <<>>
  /\ UNCHANGED <<blocking, snd, rcv, buf>>

-----------------------------------------------------------------------------
WaitsToSend == snd.at = "select" /\ ~Writable
WaitsToRecv == rcv.at = "select" /\ ~Readable

(* Time passes in a select() that waits, and Linux takes it off the        *)
(* timeval, which the next select() of the call is given.                  *)
(* Mutant: the time left is not taken into account.                        *)
PassForever(side) == side
Pass(side) == [side EXCEPT !.left = @ - 1]

Tick ==
  /\ WaitsToSend \/ WaitsToRecv
  /\ WaitsToSend => snd.left > 0
  /\ WaitsToRecv => rcv.left > 0
  /\ snd' = IF WaitsToSend THEN Pass(snd) ELSE snd
  /\ rcv' = IF WaitsToRecv THEN Pass(rcv) ELSE rcv
  /\ UNCHANGED <<blocking, wire, link, buf>>

Reset ==
  /\ link = "up" /\ "reset" \in Faults
  /\ link' = "reset"
  /\ wire' = <<>>
  /\ UNCHANGED <<blocking, snd, rcv, buf>>

Cut ==
  /\ link = "up" /\ "cut" \in Faults
  /\ link' = "cut"
  /\ UNCHANGED <<blocking, wire, snd, rcv, buf>>

(* Nothing left to do; a blocking call waits for good on a silent link.    *)
AtRest ==
  /\ \/ ~Works(snd) /\ ~Works(rcv)
     \/ blocking /\ link = "cut" /\ (Works(snd) => ~Writable)
  /\ UNCHANGED vars

Sender == SendSelect \/ Send \/ SendWouldBlock \/ SendError \/ SendTimeout
Receiver ==
  RecvSelect \/ Recv \/ RecvWouldBlock \/ RecvEof \/ RecvError \/ RecvTimeout

Next == Sender \/ Receiver \/ Tick \/ PeerReset \/ Reset \/ Cut \/ AtRest

Spec == Init /\ [][Next]_vars

FairSpec ==
  /\ Spec
  /\ WF_vars(Sender) /\ WF_vars(Receiver)
  /\ WF_vars(Tick) /\ WF_vars(PeerReset)

-----------------------------------------------------------------------------
(* The bytes of the head are those that were sent, each in its place, the  *)
(* items stay inside a buffer of SOCK_PACKET_SIZE bytes, and the next byte *)
(* of the stream is the one the call needs next: however the kernels cut   *)
(* the stream, no call takes a byte of the next unit or leaves one of its  *)
(* own.                                                                    *)
InPlace ==
  /\ \A p \in 1 .. (IF rcv.call = 1 THEN rcv.n ELSE HeadSize) :
       buf.head[p] = <<1, p>>
  /\ \A p \in PacketSize + 1 .. MaxSize : buf.items[p] = Empty
  /\ Works(rcv) /\ wire # <<>> => wire[1] = <<rcv.call, rcv.n + 1>>

(* Units pass as a whole: the promise Wire and Transfer build upon.        *)
End(side) ==
  IF Works(side) THEN "none" ELSE IF side.at = "ok" THEN "ok" ELSE "failed"
Passed(side) == IF side.at = "ok" THEN Calls ELSE side.call - 1
Pipe == INSTANCE UnitPipe
          WITH Units <- Calls, pushed <- Passed(snd), popped <- Passed(rcv),
               sEnd <- End(snd), rEnd <- End(rcv)
ImplementsPipe == Pipe!Spec

(* Every call ends, also on a connection that has gone silent, unless it   *)
(* is a blocking one.                                                      *)
CallsEnd == <>((~Works(snd) /\ ~Works(rcv)) \/ (blocking /\ link = "cut"))

=============================================================================
