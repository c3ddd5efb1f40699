---------------------------- MODULE TransferProps ----------------------------
(***************************************************************************)
(* What the data phase guarantees: where the items are (conservation and   *)
(* completion), what must happen, and the refinement of Relay.             *)
(***************************************************************************)
EXTENDS Transfer

(* The items announced or carried by the units of a stream that Test       *)
(* selects, and the items in the hands of the threads it selects.          *)
ItemsIn(q, Test(_)) ==
  SumFunctionOnSet([k \in DOMAIN q |-> IF Test(q[k]) THEN q[k].count ELSE 0],
                   DOMAIN q)

ItemsAt(threads, Test(_)) ==
  SumFunctionOnSet([t \in DOMAIN threads |->
                      IF Test(threads[t]) THEN threads[t].h.count ELSE 0],
                   DOMAIN threads)

(* Items of the route i -> j: asked for in a stream to i, announced in a   *)
(* stream from i, about to be announced to client c by a thread of i, and  *)
(* awaited by a thread of the client.                                      *)
Asked(q, j) ==
  ItemsIn(q, LAMBDA u : u.kind = "head" /\ u.type = Read /\ u.index = j)

Coming(q, j) == ItemsIn(q, LAMBDA u : u.kind = "head" /\ u.index = j)

Replying(threads, c, j) ==
  ItemsAt(threads, LAMBDA th : th.pc = "head" /\ th.c = c /\ th.h.index = j)

Receiving(threads, i, j) ==
  ItemsAt(threads, LAMBDA th : th.pc = "items" /\ th.i = i /\ th.h.index = j)

(* Items of the route i -> j the client has yet to receive: still to ask   *)
(* for, asked for, being answered, and on their way.                       *)
Outstanding(c, i, j) ==
  heads[c][i][j] + Asked(up[c][i], j) + replies[c][i][j]
  + Replying(ss[i], c, j) + Coming(down[c][i], j) + Receiving(cr[c], i, j)

(* Items for storage j in the hands of a send thread of the client.        *)
Sending(c, j) ==
  ItemsAt(cs[c], LAMBDA th : th.pc \in {"head", "items"} /\ th.i = j)

Intact(c) ==
  \A s \in Storage : cfd[c][s] /\ sfd[c][s] /\ ~reset[c][s]

(* No item is lost, duplicated or sent to the wrong storage on its way     *)
(* through request, reply, buffer and relay, as long as the connections of *)
(* the client hold (add_send_head, add_send_count, fetch_send_count).      *)
Conserved ==
  \A c \in Client : outcome[c] = "none" /\ Intact(c) =>
    \A j \in Storage :
      ToSend(c, j) =
        SumFunctionOnSet([i \in Storage |-> Outstanding(c, i, j)], Storage)
        + buffered[c][j] + Sending(c, j) + sendCount[c][j]

(* Items sent to storage s that it has yet to read.                        *)
InFlight(c, s) == ItemsIn(up[c][s], LAMBDA u : u.kind = "items")

(* A session the monitor loop of main() calls complete has handed every    *)
(* item to its destination: unless the connection was reset or the storage *)
(* gave up on it, the items have been read there or are still in flight,   *)
(* also after the client has closed its sockets.                           *)
CompleteIsSent ==
  \A c \in Client : outcome[c] = "complete" /\ serverUp[c] =>
    \A s \in Storage : sfd[c][s] /\ ~reset[c][s] =>
      delivered[c][s] + InFlight(c, s) = ToSend(c, s)

-----------------------------------------------------------------------------

(* Without faults every session ends, and ends complete: no mix of full    *)
(* socket buffers, shared threads and lock flags stops the relay.          *)
AllComplete == \A c \in Client : <>(outcome[c] = "complete")

(* Without faults every storage ends up with every item meant for it, the  *)
(* ones the client's close() leaves in the socket included.                *)
AllDelivered ==
  \A c \in Client, s \in Storage : <>[](delivered[c][s] = ToSend(c, s))

(* Whatever fails, main() of the client gets its threads back (the joins   *)
(* after the monitor loop) and ends the session.                           *)
SessionEnds == \A c \in Client : <>(outcome[c] # "none")

(* A storage gives the slot of a client back once the client has closed    *)
(* the connection, so that the pool of CLIENT_COUNT slots does not fill.   *)
SlotFreed == \A c \in Client, s \in Storage : ~cfd[c][s] ~> ~sfd[c][s]

-----------------------------------------------------------------------------

(* An item counts as fetched when it is in a buffer, and as held until its *)
(* chunk is sent; the buffers live as long as the session.                 *)
InSession(Count(_, _)) ==
  [c \in Client |-> [s \in Storage |->
     IF outcome[c] = "none" THEN Count(c, s) ELSE 0]]

Fetched(c, i) ==
  recvCount[c][i]
  + ItemsAt(cr[c], LAMBDA th : th.pc = "count" /\ th.i = i)

Waiting(c, j) == buffered[c][j] + Sending(c, j)
Sent(c, j)    == sendCount[c][j]

R == INSTANCE Relay WITH
       fetched   <- InSession(Fetched),
       held      <- InSession(Waiting),
       forwarded <- InSession(Sent)

(* The client does what Relay promises its server: every item moves at     *)
(* most once, nothing is sent that was not received, and "complete" means  *)
(* that everything was forwarded.                                          *)
ImplementsRelay == R!Spec

=============================================================================
