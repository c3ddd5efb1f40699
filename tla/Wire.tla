-------------------------------- MODULE Wire --------------------------------
(***************************************************************************)
(* The TCP connections between the IDG clients and the IDG storages        *)
(* (idg_client.c, idg_storage.c) during the data phase of one task.        *)
(*                                                                         *)
(* One connection joins every client c to every storage s.  Each direction *)
(* is a byte stream that both programs read and write in units of two      *)
(* kinds: a TReportHead and the block of TReportItems a head announces.    *)
(* The stream is modelled as the sequence of those units, in order; Cap    *)
(* bounds how many the two socket buffers hold before the writer blocks.   *)
(* A reader that finds another unit than the one it reads next has lost    *)
(* the framing, which the models of the threads record as "garbled".       *)
(***************************************************************************)
EXTENDS Integers, Sequences, FiniteSets

CONSTANTS
  Client,        \* the client processes (CLIENT_COUNT of them)
  StorageCount,  \* STORAGE_COUNT
  MTU,           \* REPORT_MTU_COUNT: items in one chunk
  Cap,           \* units one direction of a connection buffers
  MaxFaults      \* resets, timeouts and lost servers allowed in a behaviour

ASSUME WireAssumption ==
  /\ StorageCount \in Nat \ {0}
  /\ MTU \in Nat \ {0}
  /\ Cap \in Nat \ {0}
  /\ MaxFaults \in Nat

Storage == 0 .. StorageCount - 1

(* Functions on the connections and on the routes of the items: client,    *)
(* storage they come from, storage they go to.                             *)
PerConn(S)   == [Client -> [Storage -> S]]
PerRoute(S)  == [Client -> [Storage -> [Storage -> S]]]
OnStorage(v) == [s \in Storage |-> v]
OnConn(v)    == [c \in Client |-> OnStorage(v)]

(* report_head.type: a storage takes 0 as a read request and everything    *)
(* else as data; a client sends its data with the index 8888.              *)
Read  == 0
Write == 1
NoIndex == 8888

HeadUnit(type, index, count) ==
  [kind |-> "head", type |-> type, index |-> index, count |-> count]

ItemsUnit(count) ==
  [kind |-> "items", type |-> Write, index |-> NoIndex, count |-> count]

Unit == [kind : {"head", "items"}, type : {Read, Write},
         index : Storage \cup {NoIndex}, count : Nat]

(* Mutant: every chunk is MTU items.                                       *)
ChunkAlwaysFull(count) == MTU

(* The items of the next chunk of count items.                             *)
Chunk(count) == IF count > MTU THEN MTU ELSE count

(* Mutant: the scan of the heads starts at 1.                              *)
IsFirstHeadAfterZero(counts, c, s, j) ==
  j > 0 /\ counts[c][s][j] > 0 /\ \A k \in 1 .. j - 1 : counts[c][s][k] = 0

(* fetch_send_head: j is the first storage with a count in the heads of    *)
(* the send buffer of c and s.                                             *)
IsFirstHead(counts, c, s, j) ==
  counts[c][s][j] > 0 /\ \A k \in 0 .. j - 1 : counts[c][s][k] = 0

VARIABLES
  up,      \* up[c][s]: units in flight from client c to storage s
  down,    \* down[c][s]: units in flight from storage s to client c
  cfd,     \* cfd[c][s]: storages[s].sockfd >= 0 in client c
  sfd,     \* sfd[c][s]: storage s has the connection of client c open
  reset,   \* reset[c][s]: the connection was reset
  faults   \* faults that may still happen

wireVars == <<up, down, cfd, sfd, reset, faults>>

WireTypeOK ==
  /\ up \in PerConn(Seq(Unit))
  /\ down \in PerConn(Seq(Unit))
  /\ cfd \in PerConn(BOOLEAN)
  /\ sfd \in PerConn(BOOLEAN)
  /\ reset \in PerConn(BOOLEAN)
  /\ faults \in Nat

(* The data phase starts once every connection is accepted and empty.      *)
WireInit ==
  /\ up = OnConn(<<>>)
  /\ down = OnConn(<<>>)
  /\ cfd = OnConn(TRUE)
  /\ sfd = OnConn(TRUE)
  /\ reset = OnConn(FALSE)
  /\ faults = MaxFaults

-----------------------------------------------------------------------------

(* Mutant: the end of the file is not seen.                                *)
StorageReadableNoEnd(c, s) == up[c][s] # <<>> \/ reset[c][s]

(* check_recv_status() > 0: data, end of file or an error is pending.      *)
ClientReadable(c, s)  == down[c][s] # <<>> \/ reset[c][s] \/ ~sfd[c][s]
StorageReadable(c, s) == up[c][s] # <<>> \/ reset[c][s] \/ ~cfd[c][s]

(* Mutant: data that came before the end of the file is dropped.           *)
StorageReadFailsEarly(c, s) == ~sfd[c][s] \/ reset[c][s] \/ ~cfd[c][s]

(* A read of recv_data_non_block fails on a socket a sibling thread has    *)
(* closed, and at the end of the data when the peer is gone.               *)
ClientReadFails(c, s) ==
  \/ ~cfd[c][s]
  \/ down[c][s] = <<>> /\ (reset[c][s] \/ ~sfd[c][s])

StorageReadFails(c, s) ==
  \/ ~sfd[c][s]
  \/ up[c][s] = <<>> /\ (reset[c][s] \/ ~cfd[c][s])

(* A write of send_data_non_block needs room in the socket buffer; it may  *)
(* still succeed when the peer has closed, as TCP learns of it later.      *)
ClientPush(c, s, unit) ==
  /\ cfd[c][s] /\ ~reset[c][s] /\ Len(up[c][s]) < Cap
  /\ up' = [up EXCEPT ![c][s] = Append(@, unit)]

StoragePush(c, s, unit) ==
  /\ sfd[c][s] /\ ~reset[c][s] /\ Len(down[c][s]) < Cap
  /\ down' = [down EXCEPT ![c][s] = Append(@, unit)]

ClientPop(c, s) ==
  /\ cfd[c][s] /\ down[c][s] # <<>>
  /\ down' = [down EXCEPT ![c][s] = Tail(@)]

StoragePop(c, s) ==
  /\ sfd[c][s] /\ up[c][s] # <<>>
  /\ up' = [up EXCEPT ![c][s] = Tail(@)]

(* What makes a write fail; on a live descriptor whose peer is gone it may *)
(* instead raise SIGPIPE, which neither program handles.                   *)
PeerGone(c, s) == reset[c][s] \/ ~cfd[c][s] \/ ~sfd[c][s]

TakeFault == faults > 0 /\ faults' = faults - 1

(* The connection is reset: by the network, or because one end closed with *)
(* data still coming to it.  Both ends lose a suffix of what was in flight.*)
ConnReset(c, s) ==
  /\ ~reset[c][s]
  /\ \/ /\ cfd[c][s] /\ sfd[c][s]
        /\ TakeFault
     \/ /\ \/ ~cfd[c][s] /\ down[c][s] # <<>>
           \/ ~sfd[c][s] /\ up[c][s] # <<>>
        /\ UNCHANGED faults
  /\ reset' = [reset EXCEPT ![c][s] = TRUE]
  /\ \E m \in 0 .. Len(up[c][s]), n \in 0 .. Len(down[c][s]) :
        /\ up' = [up EXCEPT ![c][s] = SubSeq(@, 1, m)]
        /\ down' = [down EXCEPT ![c][s] = SubSeq(@, 1, n)]
  /\ UNCHANGED <<cfd, sfd>>

=============================================================================
