------------------------------ MODULE Transfer ------------------------------
(***************************************************************************)
(* The data phase of one task: every client (ClientRelay) and every        *)
(* storage (StorageNode) with the connections between them (Wire).         *)
(***************************************************************************)
EXTENDS ClientRelay, StorageNode

vars == <<wireVars, clientVars, storageVars>>

TypeOK == WireTypeOK /\ ClientTypeOK /\ StorageTypeOK

Init == WireInit /\ ClientInit /\ StorageInit

(* A step of a client that a fault does not cause.                         *)
ClientStep(c) ==
  \/ \E t \in CRecvThread : ClientRecv(c, t)
  \/ \E t \in CSendThread : ClientSend(c, t)
  \/ ClientMain(c)

StorageStep(s) ==
  \/ \E t \in SRecvThread : StorageRecv(s, t)
  \/ \E t \in SSendThread : StorageSend(s, t)

(* After the last session the storages wait for connections.               *)
AtRest ==
  /\ \A c \in Client : mon[c].pc = "done"
  /\ \A s \in Storage :
        /\ \A t \in SRecvThread : sr[s][t].pc \in {"idle", "dead"}
        /\ \A t \in SSendThread : ss[s][t].pc \in {"idle", "dead"}
  /\ UNCHANGED vars

Next ==
  \/ \E c \in Client :
        /\ ClientStep(c) \/ ClientTimeout(c) \/ MonitorServerLost(c)
        /\ UNCHANGED storageVars
  \/ \E s \in Storage :
        /\ StorageStep(s) \/ StorageTimeout(s)
        /\ UNCHANGED clientVars
  \/ \E c \in Client, s \in Storage :
        ConnReset(c, s) /\ UNCHANGED <<clientVars, storageVars>>
  \/ AtRest

(* The scheduler runs every thread; timeouts, resets and the loss of the   *)
(* server need not happen.                                                 *)
Fairness ==
  /\ \A c \in Client :
        /\ \A t \in CRecvThread : WF_vars(ClientRecv(c, t) /\ UNCHANGED storageVars)
        /\ \A t \in CSendThread : WF_vars(ClientSend(c, t) /\ UNCHANGED storageVars)
        /\ WF_vars(ClientMain(c) /\ UNCHANGED storageVars)
  /\ \A s \in Storage :
        /\ \A t \in SRecvThread : WF_vars(StorageRecv(s, t) /\ UNCHANGED clientVars)
        /\ \A t \in SSendThread : WF_vars(StorageSend(s, t) /\ UNCHANGED clientVars)

Spec == Init /\ [][Next]_vars

FairSpec == Spec /\ Fairness

-----------------------------------------------------------------------------
(* Safety.                                                                 *)

Reading(th) == th.pc \in {"head", "items", "count"}
Writing(th) == th.pc \in {"request", "head", "items"}

ClientRecvExclusive ==
  \A c \in Client : \A t, u \in CRecvThread :
     t # u /\ Reading(cr[c][t]) /\ Reading(cr[c][u]) => cr[c][t].i # cr[c][u].i

ClientSendExclusive ==
  \A c \in Client : \A t, u \in CSendThread :
     t # u /\ Writing(cs[c][t]) /\ Writing(cs[c][u]) => cs[c][t].i # cs[c][u].i

StorageRecvExclusive ==
  \A s \in Storage : \A t, u \in SRecvThread :
     t # u /\ Reading(sr[s][t]) /\ Reading(sr[s][u]) => sr[s][t].c # sr[s][u].c

StorageSendExclusive ==
  \A s \in Storage : \A t, u \in SSendThread :
     t # u /\ Writing(ss[s][t]) /\ Writing(ss[s][u]) => ss[s][t].c # ss[s][u].c

(* Two threads never read, or write, one connection at the same time: the  *)
(* recving and sending flags (recv_check_and_lock, send_check_and_lock)    *)
(* give one thread the connection for a whole frame, also when another     *)
(* thread fails on it and closes it.                                       *)
Exclusive ==
  /\ ClientRecvExclusive /\ ClientSendExclusive
  /\ StorageRecvExclusive /\ StorageSendExclusive

(* The framing is never lost: whoever reads a connection finds a head when *)
(* it expects a head, the announced items when it expects items, and heads *)
(* it can use (an index that is a storage), whatever the threads of both   *)
(* sides do in between and wherever the stream is cut.                     *)
Framed ==
  /\ \A c \in Client, t \in CRecvThread : cr[c][t].pc # "garbled"
  /\ \A s \in Storage, t \in SRecvThread : sr[s][t].pc # "garbled"

=============================================================================
