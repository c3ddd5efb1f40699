----------------------------- MODULE ClientRelay -----------------------------
(***************************************************************************)
(* The IDG client (idg_client.c) from the start of its threads to the end  *)
(* of the task: receive threads, send threads and the monitor in main().   *)
(*                                                                         *)
(* A client relays items.  It asks storage i for the items it has for      *)
(* storage j (a read request), receives them from i in chunks, counts them *)
(* in the buffer of j and sends them on to j in chunks of at most MTU.     *)
(* One pass of a thread over a connection with nothing to do takes the     *)
(* lock flag and gives it back; it leaves no trace and is no action.       *)
(***************************************************************************)
EXTENDS Wire, FiniteSetsExt

CONSTANTS
  CRecvThread, CSendThread,  \* receive and send threads of every client
  Request,     \* Request[c][i][j]: items c moves from storage i to storage j
  RangeCount   \* RangeCount[c][i]: storages[i].range.count of client c

ASSUME RelayAssumption ==
  /\ Request \in PerRoute(Nat)
  /\ RangeCount \in PerConn(Nat)
  /\ IsFiniteSet(CRecvThread) /\ IsFiniteSet(CSendThread)

VARIABLES
  heads,      \* heads[c][i][j]: count of storages[i].send_buffer.heads[j]
  buffered,   \* storages[j].send_buffer.buffer_count
  recvCount,  \* storages[i].send_buffer.recv_count
  sendCount,  \* storages[j].send_buffer.send_count
  crecving, csending,   \* send_buffer.recving and .sending
  cr, cs,     \* the threads: program counter, connection, unit at hand
  mon,        \* the monitor loop of main()
  running,    \* recv_running and send_running, which change together
  serverUp,   \* the connection to the server works
  outcome     \* how the session ended

clientVars == <<heads, buffered, recvCount, sendCount, crecving, csending,
                cr, cs, mon, running, serverUp, outcome>>

(* storages[j].send_buffer.to_send, summed up by init_storages().          *)
ToSend(c, j) ==
  SumFunctionOnSet([i \in Storage |-> Request[c][i][j]], Storage)

At(pc, i, h) == [pc |-> pc, i |-> i, h |-> h]
Idle == At("idle", 0, ItemsUnit(0))
Exited == At("exit", 0, ItemsUnit(0))

Thread(pcs) == [pc : pcs, i : Storage, h : Unit]
RecvPC == {"idle", "head", "items", "count", "exit", "garbled"}
SendPC == {"idle", "request", "head", "items", "exit"}
Monitor == [pc : {"scan", "report", "join", "done"}, i : 0 .. StorageCount,
            ends : Nat, err : BOOLEAN]

ClientTypeOK ==
  /\ heads \in PerRoute(Nat)
  /\ buffered \in PerConn(Nat)
  /\ recvCount \in PerConn(Nat)
  /\ sendCount \in PerConn(Nat)
  /\ crecving \in PerConn(BOOLEAN)
  /\ csending \in PerConn(BOOLEAN)
  /\ cr \in [Client -> [CRecvThread -> Thread(RecvPC)]]
  /\ cs \in [Client -> [CSendThread -> Thread(SendPC)]]
  /\ mon \in [Client -> Monitor]
  /\ running \in [Client -> BOOLEAN]
  /\ serverUp \in [Client -> BOOLEAN]
  /\ outcome \in [Client -> {"none", "complete", "error", "killed"}]

MonitorAt(pc) == [pc |-> pc, i |-> 0, ends |-> 0, err |-> FALSE]

(* init_storages() has put one read request per pair of storages in heads. *)
ClientInit ==
  /\ heads = Request
  /\ buffered = OnConn(0)
  /\ recvCount = OnConn(0)
  /\ sendCount = OnConn(0)
  /\ crecving = OnConn(FALSE)
  /\ csending = OnConn(FALSE)
  /\ cr = [c \in Client |-> [t \in CRecvThread |-> Idle]]
  /\ cs = [c \in Client |-> [t \in CSendThread |-> Idle]]
  /\ mon = [c \in Client |-> MonitorAt("scan")]
  /\ running = [c \in Client |-> TRUE]
  /\ serverUp = [c \in Client |-> TRUE]
  /\ outcome = [c \in Client |-> "none"]

-----------------------------------------------------------------------------
(* recv_thread_routine                                                     *)

ClientRecvBegin(c, t) ==
  /\ cr[c][t].pc = "idle"
  /\ \E i \in Storage :
        /\ cfd[c][i] /\ ~crecving[c][i] /\ ClientReadable(c, i)
        /\ crecving' = [crecving EXCEPT ![c][i] = TRUE]
        /\ cr' = [cr EXCEPT ![c][t] = At("head", i, ItemsUnit(0))]
  /\ UNCHANGED <<wireVars, heads, buffered, recvCount, sendCount, csending,
                 cs, mon, running, serverUp, outcome>>

ClientRecvHead(c, t) ==
  LET th == cr[c][t]
      unit == Head(down[c][th.i])
  IN
  /\ th.pc = "head"
  /\ ClientPop(c, th.i)
  /\ cr' = [cr EXCEPT ![c][t] =
              IF unit.kind = "head" THEN At("items", th.i, unit)
                                    ELSE At("garbled", th.i, unit)]
  /\ UNCHANGED <<up, cfd, sfd, reset, faults, heads, buffered, recvCount,
                 sendCount, crecving, csending, cs, mon, running, serverUp,
                 outcome>>

(* The items are read and counted in the buffer of the storage the head    *)
(* names, which has to be one (add_send_count).                            *)
ClientRecvItems(c, t) ==
  LET th == cr[c][t]
      unit == Head(down[c][th.i])
      framed == /\ unit = ItemsUnit(th.h.count)
                /\ th.h.index \in Storage
  IN
  /\ th.pc = "items"
  /\ ClientPop(c, th.i)
  /\ IF framed
     THEN /\ buffered' = [buffered EXCEPT ![c][th.h.index] = @ + th.h.count]
          /\ cr' = [cr EXCEPT ![c][t] = At("count", th.i, th.h)]
     ELSE /\ cr' = [cr EXCEPT ![c][t] = At("garbled", th.i, unit)]
          /\ UNCHANGED buffered
  /\ UNCHANGED <<up, cfd, sfd, reset, faults, heads, recvCount, sendCount,
                 crecving, csending, cs, mon, running, serverUp, outcome>>

(* add_recv_count and recv_unlock                                          *)
ClientRecvCount(c, t) ==
  LET th == cr[c][t] IN
  /\ th.pc = "count"
  /\ recvCount' = [recvCount EXCEPT ![c][th.i] = @ + th.h.count]
  /\ crecving' = [crecving EXCEPT ![c][th.i] = FALSE]
  /\ cr' = [cr EXCEPT ![c][t] = Idle]
  /\ UNCHANGED <<wireVars, heads, buffered, sendCount, csending, cs, mon,
                 running, serverUp, outcome>>

(* A failed read closes the socket and ends the thread.                    *)
ClientRecvClose(c, t) ==
  LET th == cr[c][t] IN
  /\ th.pc \in {"head", "items"}
  /\ cfd' = [cfd EXCEPT ![c][th.i] = FALSE]
  /\ crecving' = [crecving EXCEPT ![c][th.i] = FALSE]
  /\ cr' = [cr EXCEPT ![c][t] = Exited]
  /\ UNCHANGED <<up, down, sfd, reset, heads, buffered, recvCount, sendCount,
                 csending, cs, mon, running, serverUp, outcome>>

ClientRecvFail(c, t) ==
  /\ ClientReadFails(c, cr[c][t].i)
  /\ ClientRecvClose(c, t)
  /\ UNCHANGED faults

ClientRecvExit(c, t) ==
  /\ cr[c][t].pc = "idle" /\ ~running[c]
  /\ cr' = [cr EXCEPT ![c][t] = Exited]
  /\ UNCHANGED <<wireVars, heads, buffered, recvCount, sendCount, crecving,
                 csending, cs, mon, running, serverUp, outcome>>

-----------------------------------------------------------------------------
(* send_thread_routine                                                     *)

(* A pending request goes before buffered items, which fetch_send_count    *)
(* takes at most MTU at a time.                                            *)
ClientSendBegin(c, t) ==
  /\ cs[c][t].pc = "idle"
  /\ \E i \in Storage :
        /\ cfd[c][i] /\ ~csending[c][i]
        /\ csending' = [csending EXCEPT ![c][i] = TRUE]
        /\ \/ /\ \E j \in Storage :
                    /\ IsFirstHead(heads, c, i, j)
                    /\ cs' = [cs EXCEPT ![c][t] =
                         At("request", i, HeadUnit(Read, j, heads[c][i][j]))]
              /\ UNCHANGED buffered
           \/ /\ \A j \in Storage : heads[c][i][j] = 0
              /\ buffered[c][i] > 0
              /\ LET n == Chunk(buffered[c][i]) IN
                 /\ buffered' = [buffered EXCEPT ![c][i] = @ - n]
                 /\ cs' = [cs EXCEPT ![c][t] =
                             At("head", i, HeadUnit(Write, NoIndex, n))]
  /\ UNCHANGED <<wireVars, heads, recvCount, sendCount, crecving, cr, mon,
                 running, serverUp, outcome>>

ClientSendRequest(c, t) ==
  LET th == cs[c][t] IN
  /\ th.pc = "request"
  /\ ClientPush(c, th.i, th.h)
  /\ heads' = [heads EXCEPT ![c][th.i][th.h.index] = 0]
  /\ csending' = [csending EXCEPT ![c][th.i] = FALSE]
  /\ cs' = [cs EXCEPT ![c][t] = Idle]
  /\ UNCHANGED <<down, cfd, sfd, reset, faults, buffered, recvCount,
                 sendCount, crecving, cr, mon, running, serverUp, outcome>>

ClientSendHead(c, t) ==
  LET th == cs[c][t] IN
  /\ th.pc = "head"
  /\ ClientPush(c, th.i, th.h)
  /\ cs' = [cs EXCEPT ![c][t] = At("items", th.i, th.h)]
  /\ UNCHANGED <<down, cfd, sfd, reset, faults, heads, buffered, recvCount,
                 sendCount, crecving, csending, cr, mon, running, serverUp,
                 outcome>>

ClientSendItems(c, t) ==
  LET th == cs[c][t] IN
  /\ th.pc = "items"
  /\ ClientPush(c, th.i, ItemsUnit(th.h.count))
  /\ sendCount' = [sendCount EXCEPT ![c][th.i] = @ + th.h.count]
  /\ csending' = [csending EXCEPT ![c][th.i] = FALSE]
  /\ cs' = [cs EXCEPT ![c][t] = Idle]
  /\ UNCHANGED <<down, cfd, sfd, reset, faults, heads, buffered, recvCount,
                 crecving, cr, mon, running, serverUp, outcome>>

ClientSendClose(c, t) ==
  LET th == cs[c][t] IN
  /\ th.pc \in {"request", "head", "items"}
  /\ cfd' = [cfd EXCEPT ![c][th.i] = FALSE]
  /\ csending' = [csending EXCEPT ![c][th.i] = FALSE]
  /\ cs' = [cs EXCEPT ![c][t] = Exited]
  /\ UNCHANGED <<up, down, sfd, reset, heads, buffered, recvCount, sendCount,
                 crecving, cr, mon, running, serverUp, outcome>>

ClientSendFail(c, t) ==
  /\ PeerGone(c, cs[c][t].i)
  /\ ClientSendClose(c, t)
  /\ UNCHANGED faults

ClientSendExit(c, t) ==
  /\ cs[c][t].pc = "idle" /\ ~running[c]
  /\ cs' = [cs EXCEPT ![c][t] = Exited]
  /\ UNCHANGED <<wireVars, heads, buffered, recvCount, sendCount, crecving,
                 csending, cr, mon, running, serverUp, outcome>>

-----------------------------------------------------------------------------
(* SIGPIPE ends the whole process: the kernel closes every socket.         *)
ClientDies(c) ==
  /\ cfd' = [cfd EXCEPT ![c] = OnStorage(FALSE)]
  /\ cr' = [cr EXCEPT ![c] = [t \in CRecvThread |-> Exited]]
  /\ cs' = [cs EXCEPT ![c] = [t \in CSendThread |-> Exited]]
  /\ mon' = [mon EXCEPT ![c] = MonitorAt("done")]
  /\ running' = [running EXCEPT ![c] = FALSE]
  /\ outcome' = [outcome EXCEPT ![c] = "killed"]
  /\ UNCHANGED <<up, down, sfd, reset, heads, buffered, recvCount, sendCount,
                 crecving, csending>>

ClientSendKilled(c, t) ==
  /\ cs[c][t].pc \in {"request", "head", "items"}
  /\ cfd[c][cs[c][t].i] /\ PeerGone(c, cs[c][t].i)
  /\ ClientDies(c)
  /\ UNCHANGED <<faults, serverUp>>

(* RECV_TIMEOUT or SEND_TIMEOUT runs out on a slow but working connection. *)
ClientTimeout(c) ==
  /\ TakeFault
  /\ \/ \E t \in CRecvThread : ClientRecvClose(c, t)
     \/ \E t \in CSendThread : ClientSendClose(c, t)

-----------------------------------------------------------------------------
(* main(): the monitor loop, the end of the threads, the end of the task.  *)

(* Mutant: a connection counts as sent as soon as it is received.          *)
EndsIgnoresSends(c, i) ==
  IF cfd[c][i] /\ recvCount[c][i] < RangeCount[c][i] THEN 0 ELSE 2

(* One connection of the scan, under its status_mutex: a connection counts *)
(* for two ends, and for the second only when the first is reached.        *)
Ends(c, i) ==
  IF ~cfd[c][i] THEN 2
  ELSE IF recvCount[c][i] < RangeCount[c][i] THEN 0
  ELSE IF sendCount[c][i] < ToSend(c, i) THEN 1
  ELSE 2

(* Mutant: a closed connection sets no error.                              *)
MonitorScanNoError(c) ==
  LET m == mon[c] IN
  /\ m.pc = "scan" /\ m.i < StorageCount
  /\ mon' = [mon EXCEPT ![c] =
               [pc   |-> IF m.i = StorageCount - 1 THEN "report" ELSE "scan",
                i    |-> m.i + 1,
                ends |-> m.ends + Ends(c, m.i),
                err  |-> m.err]]
  /\ UNCHANGED <<wireVars, heads, buffered, recvCount, sendCount, crecving,
                 csending, cr, cs, running, serverUp, outcome>>

MonitorScan(c) ==
  LET m == mon[c] IN
  /\ m.pc = "scan" /\ m.i < StorageCount
  /\ mon' = [mon EXCEPT ![c] =
               [pc   |-> IF m.i = StorageCount - 1 THEN "report" ELSE "scan",
                i    |-> m.i + 1,
                ends |-> m.ends + Ends(c, m.i),
                err  |-> m.err \/ ~cfd[c][m.i]]]
  /\ UNCHANGED <<wireVars, heads, buffered, recvCount, sendCount, crecving,
                 csending, cr, cs, running, serverUp, outcome>>

(* Mutant: the threads are not told to stop.                               *)
MonitorTestKeepsRunning(c, stillRunning) ==
  LET again == /\ mon[c].ends < 2 * StorageCount
               /\ stillRunning /\ ~mon[c].err
  IN
  /\ UNCHANGED running
  /\ mon' = [mon EXCEPT ![c] =
               IF again THEN MonitorAt("scan") ELSE [@ EXCEPT !.pc = "join"]]

(* The loop condition, evaluated with the running flags as they are then.  *)
MonitorTest(c, stillRunning) ==
  LET again == /\ mon[c].ends < 2 * StorageCount
               /\ stillRunning /\ ~mon[c].err
  IN
  /\ running' = [running EXCEPT ![c] = again]
  /\ mon' = [mon EXCEPT ![c] =
               IF again THEN MonitorAt("scan") ELSE [@ EXCEPT !.pc = "join"]]

(* The report to the server, then the loop condition.                      *)
MonitorReport(c) ==
  /\ mon[c].pc = "report" /\ serverUp[c]
  /\ MonitorTest(c, TRUE)
  /\ UNCHANGED <<wireVars, heads, buffered, recvCount, sendCount, crecving,
                 csending, cr, cs, serverUp, outcome>>

(* The server is gone: the send fails and stops the threads, or raises     *)
(* SIGPIPE.                                                                *)
MonitorServerLost(c) ==
  /\ mon[c].pc = "report"
  /\ TakeFault
  /\ serverUp' = [serverUp EXCEPT ![c] = FALSE]
  /\ \/ /\ MonitorTest(c, FALSE)
        /\ UNCHANGED <<up, down, cfd, sfd, reset, heads, buffered, recvCount,
                       sendCount, crecving, csending, cr, cs, outcome>>
     \/ ClientDies(c)

(* All threads joined: the sockets are closed, the buffers cleared and the *)
(* state the client sends to the server is 2 after an error, 1 otherwise.  *)
ClientFinish(c) ==
  /\ mon[c].pc = "join"
  /\ \A t \in CRecvThread : cr[c][t].pc = "exit"
  /\ \A t \in CSendThread : cs[c][t].pc = "exit"
  /\ cfd' = [cfd EXCEPT ![c] = OnStorage(FALSE)]
  /\ heads' = [heads EXCEPT ![c] = OnStorage(OnStorage(0))]
  /\ buffered' = [buffered EXCEPT ![c] = OnStorage(0)]
  /\ recvCount' = [recvCount EXCEPT ![c] = OnStorage(0)]
  /\ sendCount' = [sendCount EXCEPT ![c] = OnStorage(0)]
  /\ crecving' = [crecving EXCEPT ![c] = OnStorage(FALSE)]
  /\ csending' = [csending EXCEPT ![c] = OnStorage(FALSE)]
  /\ outcome' = [outcome EXCEPT ![c] = IF mon[c].err THEN "error"
                                                     ELSE "complete"]
  /\ mon' = [mon EXCEPT ![c] = MonitorAt("done")]
  /\ UNCHANGED <<up, down, sfd, reset, faults, cr, cs, running, serverUp>>

-----------------------------------------------------------------------------
(* What each thread may do.                                                *)
ClientRecv(c, t) ==
  \/ ClientRecvBegin(c, t) \/ ClientRecvHead(c, t) \/ ClientRecvItems(c, t)
  \/ ClientRecvCount(c, t) \/ ClientRecvFail(c, t) \/ ClientRecvExit(c, t)

ClientSend(c, t) ==
  \/ ClientSendBegin(c, t) \/ ClientSendRequest(c, t) \/ ClientSendHead(c, t)
  \/ ClientSendItems(c, t) \/ ClientSendFail(c, t) \/ ClientSendExit(c, t)
  \/ ClientSendKilled(c, t)

ClientMain(c) ==
  MonitorScan(c) \/ MonitorReport(c) \/ ClientFinish(c)

=============================================================================
