---------------------------- MODULE ClientSession ----------------------------
(***************************************************************************)
(* The task loop of idg_client.c (main, 482-644): connect to the server,   *)
(* receive the index, connect to the storages and fill the requests, wait  *)
(* for the start, relay, clear, and again.  Every step can fail, and what  *)
(* a failed session leaves behind is what the next one starts from.        *)
(*                                                                         *)
(* The data phase is one step here: it ends complete when the requests of  *)
(* the session can fulfil the counts the monitor loop waits for, it ends   *)
(* by a fault, or it does not end.  Transfer is about its inside.          *)
(***************************************************************************)
EXTENDS IndexLoops, FiniteSetsExt

CONSTANTS
  StorageCount,  \* STORAGE_COUNT
  Part,          \* the sorted parts of an index the server may send
  SlotsLeft,     \* slots of a storage that no other client holds
  MaxFaults      \* bound on the failures

StorageNo == 0 .. StorageCount - 1
Item == StorageNo \X StorageNo
Range0 == [s \in StorageNo |-> NoRange]

ASSUME SessionAssumption ==
  /\ StorageCount \in Nat \ {0}
  /\ Part \subseteq Seq(Item) \ {<<>>}
  /\ \A p \in Part : \A i, j \in 1 .. Len(p) : i < j => ~Before(p[j], p[i])
  /\ SlotsLeft \in Nat \ {0} /\ MaxFaults \in Nat

VARIABLES
  pc,       \* where main() is in its loop
  server,   \* server_socket: none (-1), open, stale (closed, number kept)
  k,        \* storages connected in this session
  part,     \* index_items, <<>> for NULL
  ranges,   \* storages[s].range
  heads,    \* heads[s][d]: storages[s].send_buffer.heads[d].count
  toSend,   \* storages[s].send_buffer.to_send
  open,     \* open[s]: sockets to storage s the process has open
  faults,   \* failures so far
  dirty,    \* auxiliary: a session failed between the arrival of its index
            \* and its data phase, and no data phase has ended since
  lost,     \* auxiliary: sessions that failed in wait_for_starting
  stray     \* auxiliary, stray[s]: sessions that could not set up the
            \* socket of storage s

buffers == <<ranges, heads, toSend>>
vars == <<pc, server, k, part, buffers, open, faults, dirty, lost, stray>>

None == [s \in StorageNo |-> 0]
NoHeads == [s \in StorageNo |-> None]

TypeOK ==
  /\ pc \in {"connect", "read", "storages", "starting", "data", "failed",
             "clear", "undefined", "dead"}
  /\ server \in {"none", "open", "stale"}
  /\ k \in 0 .. StorageCount
  /\ part \in Part \cup {<<>>}
  /\ ranges \in [StorageNo -> [from : Nat, thru : Nat, count : Int]]
  /\ heads \in [StorageNo -> [StorageNo -> Nat]]
  /\ toSend \in [StorageNo -> Nat]
  /\ open \in [StorageNo -> Nat]
  /\ faults \in 0 .. MaxFaults
  /\ dirty \in BOOLEAN
  /\ lost \in Nat
  /\ stray \in [StorageNo -> Nat]

(* init_client                                                             *)
Init ==
  /\ pc = "connect"
  /\ server = "none"
  /\ k = 0
  /\ part = <<>>
  /\ ranges = Range0
  /\ heads = NoHeads
  /\ toSend = None
  /\ open = None
  /\ faults = 0
  /\ dirty = FALSE
  /\ lost = 0
  /\ stray = None

Fault == faults < MaxFaults /\ faults' = faults + 1

-----------------------------------------------------------------------------
(* init_server_socket                                                      *)
ConnectServer ==
  /\ pc = "connect"
  /\ pc' = "read"
  /\ server' = "open"
  /\ UNCHANGED <<k, part, buffers, open, faults, dirty, lost, stray>>

ServerRefuses ==
  /\ pc = "connect"
  /\ Fault
  /\ pc' = "failed"
  /\ server' = "none"
  /\ UNCHANGED <<k, part, buffers, open, dirty, lost, stray>>

(* read_index_data                                                         *)
ReadIndex(p) ==
  /\ pc = "read"
  /\ pc' = "storages"
  /\ part' = p
  /\ ranges' = Ranges(p, ranges)
  /\ UNCHANGED <<server, k, heads, toSend, open, faults, dirty, lost, stray>>

IndexLost ==
  /\ pc = "read"
  /\ Fault
  /\ pc' = "failed"
  /\ server' = "stale"
  /\ UNCHANGED <<k, part, buffers, open, dirty, lost, stray>>

(* init_storages reads index_items[j] for every j of the range.            *)
Inside(range) == range.from > range.thru \/ range.thru < Len(part)

(* init_storages: storage k answers.  Reading past the index is undefined. *)
ConnectStorage ==
  LET b == Group(part, ranges[k], [heads |-> heads[k], toSend |-> toSend]) IN
  /\ pc = "storages"
  /\ open' = [open EXCEPT ![k] = @ + 1]
  /\ k' = k + 1
  /\ IF Inside(ranges[k])
     THEN /\ pc' = IF k + 1 = StorageCount THEN "starting" ELSE pc
          /\ heads' = [heads EXCEPT ![k] = b.heads]
          /\ toSend' = b.toSend
     ELSE pc' = "undefined" /\ UNCHANGED <<heads, toSend>>
  /\ UNCHANGED <<server, part, ranges, faults, dirty, lost, stray>>

(* The sockets 0 .. n-1 are closed.                                        *)
(* Mutant: one socket is left open.                                        *)
ClosedButOne(n) == [s \in StorageNo |-> IF s < n - 1 THEN open[s] - 1 ELSE open[s]]
(* Mutant: those not opened yet are closed too.                            *)
ClosedAll(n) == [s \in StorageNo |-> open[s] - 1]
Closed(n) == [s \in StorageNo |-> IF s < n THEN open[s] - 1 ELSE open[s]]

(* init_storages: there is no socket for storage k, or it does not answer; *)
(* its socket is closed with those before it.                              *)
StorageFails ==
  /\ pc = "storages"
  /\ Fault
  /\ pc' = "failed"
  /\ open' = Closed(k)
  /\ dirty' = TRUE
  /\ UNCHANGED <<server, k, part, buffers, lost, stray>>

(* init_storages: inet_pton or setsockopt fails on the socket of storage   *)
(* k.  Those before it are closed, and it is not.                          *)
SetupFails ==
  /\ pc = "storages"
  /\ Fault
  /\ pc' = "failed"
  /\ open' = [Closed(k) EXCEPT ![k] = open[k] + 1]
  /\ stray' = [stray EXCEPT ![k] = @ + 1]
  /\ dirty' = TRUE
  /\ UNCHANGED <<server, k, part, buffers, lost>>

(* wait_for_starting; a failure closes the server socket and no other.     *)
Start ==
  /\ pc = "starting"
  /\ pc' = "data"
  /\ UNCHANGED <<server, k, part, buffers, open, faults, dirty, lost, stray>>

StartFails ==
  /\ pc = "starting"
  /\ Fault
  /\ pc' = "failed"
  /\ server' = "stale"
  /\ dirty' = TRUE
  /\ lost' = lost + 1
  /\ UNCHANGED <<k, part, buffers, open, stray>>

-----------------------------------------------------------------------------
(* A storage without a free slot closes the connection it accepted.  A     *)
(* stray socket was never connected and takes no slot.                     *)
Refused == \E s \in StorageNo : open[s] - stray[s] > SlotsLeft

(* The monitor loop ends when every storage has sent range.count items and *)
(* has been sent to_send items.                                            *)
Served ==
  \A s \in StorageNo :
    /\ MapThenSumSet(LAMBDA d : heads[s][d], StorageNo) >= ranges[s].count
    /\ MapThenSumSet(LAMBDA i : heads[i][s], StorageNo) >= toSend[s]

(* Mutant: only the ranges are cleared.                                    *)
ClearRanges == ranges' = Range0 /\ UNCHANGED <<heads, toSend>>
(* Mutant: to_send is not cleared.                                         *)
ClearKeepsToSend == ranges' = Range0 /\ heads' = NoHeads /\ UNCHANGED toSend
(* bzero of range and send_buffer                                          *)
ClearBuffers == ranges' = Range0 /\ heads' = NoHeads /\ toSend' = None

(* main after its monitor loop: close the sockets, clear, report.          *)
EndTask ==
  /\ pc = "data"
  /\ pc' = "clear"
  /\ server' = "none"
  /\ k' = 0
  /\ open' = Closed(StorageCount)
  /\ ClearBuffers
  /\ dirty' = FALSE
  /\ UNCHANGED <<part, lost, stray>>

Complete == Served /\ ~Refused /\ EndTask /\ UNCHANGED faults
EndRefused == Refused /\ EndTask /\ UNCHANGED faults
EndByFault == Fault /\ EndTask

(* The monitor loop waits.                                                 *)
Wait == pc = "data" /\ ~Served /\ ~Refused /\ UNCHANGED vars

(* main after a failed session: report if the socket is not -1.            *)
Recover ==
  /\ pc = "failed"
  /\ pc' = "clear"
  /\ server' = "none"
  /\ k' = 0
  /\ UNCHANGED <<part, buffers, open, faults, dirty, lost, stray>>

(* The report to a server that is gone raises SIGPIPE.                     *)
Dies ==
  /\ pc \in {"data", "failed"} /\ server = "open"
  /\ Fault
  /\ pc' = "dead"
  /\ open' = None
  /\ UNCHANGED <<server, k, part, buffers, dirty, lost, stray>>

(* free(index_items)                                                       *)
Clear ==
  /\ pc = "clear"
  /\ pc' = "connect"
  /\ part' = <<>>
  /\ UNCHANGED <<server, k, buffers, open, faults, dirty, lost, stray>>

Gone == pc \in {"undefined", "dead"} /\ UNCHANGED vars

-----------------------------------------------------------------------------
Work ==
  \/ ConnectServer
  \/ \E p \in Part : ReadIndex(p)
  \/ ConnectStorage
  \/ Start
  \/ Complete \/ EndRefused
  \/ Recover \/ Clear

Next ==
  \/ Work
  \/ ServerRefuses \/ IndexLost \/ StorageFails \/ SetupFails \/ StartFails
  \/ EndByFault \/ Dies
  \/ Wait \/ Gone

Spec == Init /\ [][Next]_vars

FairSpec == Spec /\ WF_vars(Work)

-----------------------------------------------------------------------------
(* No storage is asked for more on behalf of d than storage d has to be    *)
(* sent before the session is over -- also after failed sessions, which    *)
(* may keep a client from ending, but never let it end early.  A session   *)
(* that no failed one has left anything to asks each storage for exactly   *)
(* the items of its index, waits for exactly those, and does not read past *)
(* its index, however many sessions ran before.                            *)
AsksForIndex ==
  /\ \A d \in StorageNo :
       SumFunctionOnSet([i \in StorageNo |-> heads[i][d]], StorageNo) <= toSend[d]
  /\ ~dirty =>
       /\ pc # "undefined"
       /\ pc \in {"starting", "data"} =>
            \A s, d \in StorageNo :
              /\ heads[s][d] = Requested(part, part[1], s, d)
              /\ ranges[s].count = ItemsFrom(part, s)
              /\ toSend[d] = SumFunctionOnSet([i \in StorageNo |->
                                Requested(part, part[1], i, d)], StorageNo)

(* Between two sessions one socket is open to each storage for every       *)
(* session that failed in wait_for_starting, and one more for every        *)
(* session that could not set up the socket of that storage: no other way  *)
(* out, early or late, leaves one open or closes one too many.             *)
SocketsAccounted ==
  pc = "connect" => \A s \in StorageNo : open[s] = lost + stray[s]

(* A client that nothing stale is left to, and whose leaked sockets leave  *)
(* it a slot, completes one task after the other once the faults are over. *)
TasksComplete ==
  <>[](~dirty /\ lost < SlotsLeft /\ pc # "dead") => []<><<Complete>>_vars

=============================================================================
