----------------------------- MODULE StorageNode -----------------------------
(***************************************************************************)
(* The IDG storage (idg_storage.c) once its clients are accepted: receive  *)
(* and send threads shared by all clients.  A read request sets the count  *)
(* of a head of the client's slot; a send thread answers the lowest head   *)
(* with chunks of at most MTU items and keeps the connection until the     *)
(* head is empty.  Data the clients send is read and dropped; delivered    *)
(* counts it.                                                              *)
(***************************************************************************)
EXTENDS Wire

CONSTANTS
  SRecvThread, SSendThread,   \* receive and send threads of every storage
  AnyClient                   \* the client an idle thread's record names

ASSUME StorageAssumption ==
  /\ AnyClient \in Client
  /\ IsFiniteSet(SRecvThread) /\ IsFiniteSet(SSendThread)

VARIABLES
  replies,     \* replies[c][s][j]: clients[c].send_buffer.heads[j].count in s
  delivered,   \* auxiliary: items of c read and dropped by s
  srecving, ssending,   \* clients[c].send_buffer.recving and .sending in s
  sr, ss,      \* the threads: program counter, client, unit at hand
  alive        \* the storage process runs

storageVars == <<replies, delivered, srecving, ssending, sr, ss, alive>>

SAt(pc, c, h) == [pc |-> pc, c |-> c, h |-> h]
SIdle == SAt("idle", AnyClient, ItemsUnit(0))
SDead == SAt("dead", AnyClient, ItemsUnit(0))
SThread(pcs) == [pc : pcs, c : Client, h : Unit]
SRecvPC == {"idle", "head", "items", "garbled", "dead"}
SSendPC == {"idle", "head", "items", "dead"}

(* A send thread at work answers the head of some storage.                 *)
SSendState ==
  {th \in SThread(SSendPC) : th.pc \in {"head", "items"} => th.h.index \in Storage}

StorageTypeOK ==
  /\ replies \in PerRoute(Nat)
  /\ delivered \in PerConn(Nat)
  /\ srecving \in PerConn(BOOLEAN)
  /\ ssending \in PerConn(BOOLEAN)
  /\ sr \in [Storage -> [SRecvThread -> SThread(SRecvPC)]]
  /\ ss \in [Storage -> [SSendThread -> SSendState]]
  /\ alive \in [Storage -> BOOLEAN]

StorageInit ==
  /\ replies = OnConn(OnStorage(0))
  /\ delivered = OnConn(0)
  /\ srecving = OnConn(FALSE)
  /\ ssending = OnConn(FALSE)
  /\ sr = [s \in Storage |-> [t \in SRecvThread |-> SIdle]]
  /\ ss = [s \in Storage |-> [t \in SSendThread |-> SIdle]]
  /\ alive = [s \in Storage |-> TRUE]

-----------------------------------------------------------------------------
(* recv_thread_routine                                                     *)

(* Mutant: a thread does not look at the recving flag.                     *)
StorageRecvBeginUnlocked(s, t) ==
  /\ sr[s][t].pc = "idle"
  /\ \E c \in Client :
        /\ sfd[c][s] /\ StorageReadable(c, s)
        /\ srecving' = [srecving EXCEPT ![c][s] = TRUE]
        /\ sr' = [sr EXCEPT ![s][t] = SAt("head", c, ItemsUnit(0))]
  /\ UNCHANGED <<wireVars, replies, delivered, ssending, ss, alive>>

StorageRecvBegin(s, t) ==
  /\ sr[s][t].pc = "idle"
  /\ \E c \in Client :
        /\ sfd[c][s] /\ ~srecving[c][s] /\ StorageReadable(c, s)
        /\ srecving' = [srecving EXCEPT ![c][s] = TRUE]
        /\ sr' = [sr EXCEPT ![s][t] = SAt("head", c, ItemsUnit(0))]
  /\ UNCHANGED <<wireVars, replies, delivered, ssending, ss, alive>>

(* A read request: add_send_head, then recv_unlock.                        *)
StorageRecvRequest(s, t) ==
  LET th == sr[s][t]
      unit == Head(up[th.c][s])
  IN
  /\ th.pc = "head"
  /\ StoragePop(th.c, s)
  /\ unit.kind = "head" /\ unit.type = Read
  /\ unit.index \in Storage
  /\ replies' = [replies EXCEPT ![th.c][s][unit.index] = unit.count]
  /\ srecving' = [srecving EXCEPT ![th.c][s] = FALSE]
  /\ sr' = [sr EXCEPT ![s][t] = SIdle]
  /\ UNCHANGED <<down, cfd, sfd, reset, faults, delivered, ssending, ss,
                 alive>>

(* Mutant: recv_unlock between the head and its items.                     *)
StorageRecvHeadUnlocks(s, t) ==
  LET th == sr[s][t]
      unit == Head(up[th.c][s])
  IN
  /\ th.pc = "head"
  /\ StoragePop(th.c, s)
  /\ ~(unit.kind = "head" /\ unit.type = Read /\ unit.index \in Storage)
  /\ srecving' = [srecving EXCEPT ![th.c][s] = FALSE]
  /\ sr' = [sr EXCEPT ![s][t] =
              IF unit.kind = "head" /\ unit.type = Write
              THEN SAt("items", th.c, unit)
              ELSE SAt("garbled", th.c, unit)]
  /\ UNCHANGED <<down, cfd, sfd, reset, faults, replies, delivered, ssending,
                 ss, alive>>

(* Any other head announces items; items where a head is due, or a request *)
(* for something that is no storage, are read as garbage.                  *)
StorageRecvHead(s, t) ==
  LET th == sr[s][t]
      unit == Head(up[th.c][s])
  IN
  /\ th.pc = "head"
  /\ StoragePop(th.c, s)
  /\ ~(unit.kind = "head" /\ unit.type = Read /\ unit.index \in Storage)
  /\ sr' = [sr EXCEPT ![s][t] =
              IF unit.kind = "head" /\ unit.type = Write
              THEN SAt("items", th.c, unit)
              ELSE SAt("garbled", th.c, unit)]
  /\ UNCHANGED <<down, cfd, sfd, reset, faults, replies, delivered, srecving,
                 ssending, ss, alive>>

StorageRecvItems(s, t) ==
  LET th == sr[s][t]
      unit == Head(up[th.c][s])
  IN
  /\ th.pc = "items"
  /\ StoragePop(th.c, s)
  /\ IF unit = ItemsUnit(th.h.count)
     THEN /\ delivered' = [delivered EXCEPT ![th.c][s] = @ + th.h.count]
          /\ srecving' = [srecving EXCEPT ![th.c][s] = FALSE]
          /\ sr' = [sr EXCEPT ![s][t] = SIdle]
     ELSE /\ sr' = [sr EXCEPT ![s][t] = SAt("garbled", th.c, unit)]
          /\ UNCHANGED <<delivered, srecving>>
  /\ UNCHANGED <<down, cfd, sfd, reset, faults, replies, ssending, ss, alive>>

(* A failed read closes the client's socket; the thread goes on.           *)
StorageRecvClose(s, t) ==
  LET th == sr[s][t] IN
  /\ th.pc \in {"head", "items"}
  /\ sfd' = [sfd EXCEPT ![th.c][s] = FALSE]
  /\ srecving' = [srecving EXCEPT ![th.c][s] = FALSE]
  /\ sr' = [sr EXCEPT ![s][t] = SIdle]
  /\ UNCHANGED <<up, down, cfd, reset, replies, delivered, ssending, ss,
                 alive>>

StorageRecvFail(s, t) ==
  /\ StorageReadFails(sr[s][t].c, s)
  /\ StorageRecvClose(s, t)
  /\ UNCHANGED faults

-----------------------------------------------------------------------------
(* send_thread_routine                                                     *)

(* Mutant: the head announces MTU items whatever the chunk has.            *)
TakeChunkFull(s, t, c, j) ==
  LET n == Chunk(replies[c][s][j]) IN
  /\ replies' = [replies EXCEPT ![c][s][j] = @ - n]
  /\ ss' = [ss EXCEPT ![s][t] = SAt("head", c, HeadUnit(Write, j, MTU))]

(* The next chunk of head j is taken off its count before it is sent.      *)
TakeChunk(s, t, c, j) ==
  LET n == Chunk(replies[c][s][j]) IN
  /\ replies' = [replies EXCEPT ![c][s][j] = @ - n]
  /\ ss' = [ss EXCEPT ![s][t] = SAt("head", c, HeadUnit(Write, j, n))]

StorageSendBegin(s, t) ==
  /\ ss[s][t].pc = "idle"
  /\ \E c \in Client :
        /\ sfd[c][s] /\ ~ssending[c][s]
        /\ ssending' = [ssending EXCEPT ![c][s] = TRUE]
        /\ \E j \in Storage :
              IsFirstHead(replies, c, s, j) /\ TakeChunk(s, t, c, j)
  /\ UNCHANGED <<wireVars, delivered, srecving, sr, alive>>

StorageSendHead(s, t) ==
  LET th == ss[s][t] IN
  /\ th.pc = "head"
  /\ StoragePush(th.c, s, th.h)
  /\ ss' = [ss EXCEPT ![s][t] = SAt("items", th.c, th.h)]
  /\ UNCHANGED <<up, cfd, sfd, reset, faults, replies, delivered, srecving,
                 ssending, sr, alive>>

(* After a chunk the thread takes the next one of the same head, if any.   *)
StorageSendItems(s, t) ==
  LET th == ss[s][t] IN
  /\ th.pc = "items"
  /\ StoragePush(th.c, s, ItemsUnit(th.h.count))
  /\ \/ /\ replies[th.c][s][th.h.index] > 0
        /\ TakeChunk(s, t, th.c, th.h.index)
        /\ UNCHANGED ssending
     \/ /\ replies[th.c][s][th.h.index] = 0
        /\ ssending' = [ssending EXCEPT ![th.c][s] = FALSE]
        /\ ss' = [ss EXCEPT ![s][t] = SIdle]
        /\ UNCHANGED replies
  /\ UNCHANGED <<up, cfd, sfd, reset, faults, delivered, srecving, sr, alive>>

StorageSendClose(s, t) ==
  LET th == ss[s][t] IN
  /\ th.pc \in {"head", "items"}
  /\ sfd' = [sfd EXCEPT ![th.c][s] = FALSE]
  /\ ssending' = [ssending EXCEPT ![th.c][s] = FALSE]
  /\ ss' = [ss EXCEPT ![s][t] = SIdle]
  /\ UNCHANGED <<up, down, cfd, reset, replies, delivered, srecving, sr,
                 alive>>

StorageSendFail(s, t) ==
  /\ PeerGone(ss[s][t].c, s)
  /\ StorageSendClose(s, t)
  /\ UNCHANGED faults

(* SIGPIPE ends the storage: every client loses its connection to it.      *)
StorageSendKilled(s, t) ==
  LET th == ss[s][t] IN
  /\ th.pc \in {"head", "items"}
  /\ sfd[th.c][s] /\ PeerGone(th.c, s)
  /\ sfd' = [c \in Client |-> [sfd[c] EXCEPT ![s] = FALSE]]
  /\ sr' = [sr EXCEPT ![s] = [u \in SRecvThread |-> SDead]]
  /\ ss' = [ss EXCEPT ![s] = [u \in SSendThread |-> SDead]]
  /\ alive' = [alive EXCEPT ![s] = FALSE]
  /\ UNCHANGED <<up, down, cfd, reset, faults, replies, delivered, srecving,
                 ssending>>

StorageTimeout(s) ==
  /\ TakeFault
  /\ \/ \E t \in SRecvThread : StorageRecvClose(s, t)
     \/ \E t \in SSendThread : StorageSendClose(s, t)

-----------------------------------------------------------------------------
StorageRecv(s, t) ==
  \/ StorageRecvBegin(s, t) \/ StorageRecvRequest(s, t)
  \/ StorageRecvHead(s, t) \/ StorageRecvItems(s, t) \/ StorageRecvFail(s, t)

StorageSend(s, t) ==
  \/ StorageSendBegin(s, t) \/ StorageSendHead(s, t) \/ StorageSendItems(s, t)
  \/ StorageSendFail(s, t) \/ StorageSendKilled(s, t)

=============================================================================
