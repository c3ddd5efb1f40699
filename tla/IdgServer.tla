------------------------------ MODULE IdgServer ------------------------------
(***************************************************************************)
(* The IDG server (idg_server.c) and the sessions its clients hold with it *)
(* (idg_client.c): the clients connect, get their part of the index, set   *)
(* up their storages, wait for each other, work, and report.               *)
(*                                                                         *)
(* The server has a main thread and one thread per client.  A session is   *)
(* one connection of a client process, from connect() to close(); a        *)
(* process that failed or was restarted begins another.  What a client     *)
(* does between the start command and its last report (module Transfer) is *)
(* reduced to a count of the items sent.                                   *)
(***************************************************************************)
EXTENDS Integers, Sequences, FiniteSets

CONSTANTS
  ClientCount,  \* CLIENT_COUNT, also the number of client processes
  Session,      \* the sessions there can be
  NoSession,    \* clients[i].sockfd = -1
  Items,        \* items of a client's part of the index
  Extra,        \* items it is asked for beyond them: one for each storage
                \* that has none in the part (init_storages)
  MaxReports,   \* reports in flight on one connection
  MaxFaults     \* crashes, storage errors and timeouts in a behaviour

ASSUME ServerAssumption ==
  /\ ClientCount \in Nat \ {0}
  /\ NoSession \notin Session
  /\ Items \in Nat /\ Extra \in Nat
  /\ MaxFaults \in Nat

Slot == 0 .. ClientCount - 1

(* What a client sends in all: the sum of to_send of its storages.         *)
Asked == Items + Extra

(* TProgress: its state and its count.                                     *)
Message(state, count) == [state |-> state, count |-> count]
Go == 8888
Normal == 1
Failed == 2

VARIABLES
  mpc,       \* main(): where it is
  slot,      \* clients[i]: the session whose connection it holds
  spawned,   \* threads created by wait_for_computing()
  tpc,       \* client_thread of slot i: where it is
  progress,  \* clients[i].progress
  sendingCount,  \* sending_count
  freed,     \* index_items has been freed
  scan, finished, hasError,  \* wait_for_computing(): i, finish_count, has_error
  cpc,       \* the client of a session: where it is, or how it ended
  sent,      \* items it has sent
  backlog,   \* connections the server has not accepted yet
  copen, sopen,        \* the client's, the server's end is open
  toClient, toServer,  \* what is on its way
  faults     \* faults that may still happen

serverVars == <<mpc, slot, spawned, tpc, progress, sendingCount, freed, scan,
                finished, hasError>>
clientVars == <<cpc, sent>>
netVars == <<backlog, copen, sopen, toClient, toServer>>
vars == <<serverVars, clientVars, netVars, faults>>

MainPC == {"accept", "index", "spawn", "initwait", "monitor",
           "complete", "error", "failed", "killed"}
ThreadPC == {"none", "head", "items", "wait", "count", "barrier", "start",
             "progress", "exit"}
Over == {"complete", "error", "initfail", "lost"}
ClientPC == {"idle", "head", "items", "storages", "ready", "starting", "work"}
            \cup Over

ServerEnded == mpc \in {"complete", "error", "failed", "killed"}

TypeOK ==
  /\ mpc \in MainPC
  /\ slot \in [Slot -> Session \cup {NoSession}]
  /\ spawned \in 0 .. ClientCount
  /\ tpc \in [Slot -> ThreadPC]
  /\ progress \in [Slot -> -2 .. Asked]
  /\ sendingCount \in 0 .. ClientCount
  /\ freed \in BOOLEAN /\ hasError \in BOOLEAN
  /\ scan \in 0 .. ClientCount /\ finished \in 0 .. ClientCount
  /\ cpc \in [Session -> ClientPC]
  /\ sent \in [Session -> 0 .. Asked]
  /\ backlog \in SUBSET Session
  /\ copen \in [Session -> BOOLEAN] /\ sopen \in [Session -> BOOLEAN]
  /\ toClient \in [Session -> Seq({"head", "items", "go"})]
  /\ toServer \in [Session -> Seq([state : {Go, Normal, Failed}, count : 0 .. Asked])]
  /\ faults \in Nat

Init ==
  /\ mpc = "accept"
  /\ slot = [i \in Slot |-> NoSession]
  /\ spawned = 0
  /\ tpc = [i \in Slot |-> "none"]
  /\ progress = [i \in Slot |-> 0]
  /\ sendingCount = ClientCount
  /\ freed = FALSE /\ hasError = FALSE
  /\ scan = 0 /\ finished = 0
  /\ cpc = [x \in Session |-> "idle"]
  /\ sent = [x \in Session |-> 0]
  /\ backlog = {}
  /\ copen = [x \in Session |-> FALSE] /\ sopen = [x \in Session |-> FALSE]
  /\ toClient = [x \in Session |-> <<>>] /\ toServer = [x \in Session |-> <<>>]
  /\ faults = MaxFaults

TakeFault == faults > 0 /\ faults' = faults - 1

-----------------------------------------------------------------------------
(* main() of the server                                                    *)

(* The process ends: the kernel closes its sockets.                        *)
ServerExit(how) ==
  /\ mpc' = how
  /\ sopen' = [x \in Session |-> FALSE]
  /\ backlog' = {}
  /\ tpc' = [i \in Slot |-> "exit"]

(* wait_for_clients: the next connection takes the first free slot.  After *)
(* the last one the listener is closed, and whoever is left in its backlog *)
(* with it.                                                                *)
Accept ==
  /\ mpc = "accept"
  /\ \E x \in backlog, i \in Slot :
        /\ slot[i] = NoSession /\ \A j \in 0 .. i - 1 : slot[j] # NoSession
        /\ slot' = [slot EXCEPT ![i] = x]
        /\ IF i = ClientCount - 1
           THEN /\ mpc' = "index"
                /\ sopen' = [y \in Session |-> sopen[y] /\ y \notin backlog \ {x}]
                /\ backlog' = {}
           ELSE /\ backlog' = backlog \ {x}
                /\ UNCHANGED <<mpc, sopen>>
  /\ UNCHANGED <<spawned, tpc, progress, sendingCount, freed, scan, finished,
                 hasError, clientVars, copen, toClient, toServer, faults>>

(* A connection that is gone again before the accept() makes it return     *)
(* EWOULDBLOCK, and that ends the loop: the slots from here on stay empty. *)
AcceptNothing ==
  /\ mpc = "accept"
  /\ \E x \in backlog : ~copen[x]
  /\ TakeFault
  /\ mpc' = "index"
  /\ sopen' = [y \in Session |-> sopen[y] /\ y \notin backlog]
  /\ backlog' = {}
  /\ UNCHANGED <<slot, spawned, tpc, progress, sendingCount, freed, scan,
                 finished, hasError, clientVars, copen, toClient, toServer>>

(* select() times out, a call of the loop fails, or the index file cannot  *)
(* be read: exit(-1).                                                      *)
ServerGivesUp ==
  /\ mpc \in {"accept", "index"}
  /\ TakeFault
  /\ ServerExit("failed")
  /\ UNCHANGED <<slot, spawned, progress, sendingCount, freed, scan, finished,
                 hasError, clientVars, copen, toClient, toServer>>

(* read_index_data and sort_index_data                                     *)
LoadIndex ==
  /\ mpc = "index"
  /\ mpc' = "spawn"
  /\ UNCHANGED <<slot, spawned, tpc, progress, sendingCount, freed, scan,
                 finished, hasError, clientVars, netVars, faults>>

(* Mutant: the loop runs to i <= CLIENT_COUNT.                             *)
SpawnOneMore ==
  /\ mpc = "spawn"
  /\ spawned' = spawned + 1
  /\ tpc' = [tpc EXCEPT ![spawned] = "head"]
  /\ mpc' = IF spawned = ClientCount THEN "initwait" ELSE "spawn"
  /\ UNCHANGED <<slot, progress, sendingCount, freed, scan, finished,
                 hasError, clientVars, netVars, faults>>

Spawn ==
  /\ mpc = "spawn"
  /\ spawned' = spawned + 1
  /\ tpc' = [tpc EXCEPT ![spawned] = "head"]
  /\ mpc' = IF spawned = ClientCount - 1 THEN "initwait" ELSE "spawn"
  /\ UNCHANGED <<slot, progress, sendingCount, freed, scan, finished,
                 hasError, clientVars, netVars, faults>>

InitComplete ==
  /\ mpc = "initwait" /\ sendingCount = 0
  /\ mpc' = "monitor"
  /\ UNCHANGED <<slot, spawned, tpc, progress, sendingCount, freed, scan,
                 finished, hasError, clientVars, netVars, faults>>

(* Mutant: has_error is assigned by every client of the pass.              *)
NextErrorForgets(p) == p = -2

(* One client of a pass of the progress loop; has_error stays set.         *)
NextError(p) == hasError \/ p = -2

ScanSlot ==
  /\ mpc = "monitor" /\ scan < ClientCount
  /\ hasError' = NextError(progress[scan])
  /\ finished' = IF progress[scan] < 0 THEN finished + 1 ELSE finished
  /\ scan' = scan + 1
  /\ UNCHANGED <<mpc, slot, spawned, tpc, progress, sendingCount, freed,
                 clientVars, netVars, faults>>

(* The end of a pass: another one, or the result.                          *)
ScanAgain ==
  /\ mpc = "monitor" /\ scan = ClientCount /\ finished < ClientCount
  /\ scan' = 0 /\ finished' = 0
  /\ UNCHANGED <<mpc, slot, spawned, tpc, progress, sendingCount, freed,
                 hasError, clientVars, netVars, faults>>

Finish ==
  /\ mpc = "monitor" /\ scan = ClientCount /\ finished >= ClientCount
  /\ ServerExit(IF hasError THEN "error" ELSE "complete")
  /\ UNCHANGED <<slot, spawned, progress, sendingCount, freed, scan, finished,
                 hasError, clientVars, copen, toClient, toServer, faults>>

Main == \/ Accept \/ LoadIndex \/ Spawn \/ InitComplete
        \/ ScanSlot \/ ScanAgain \/ Finish

-----------------------------------------------------------------------------
(* client_thread                                                           *)

(* send_data_block.  When the client is gone the data may still be taken   *)
(* and get lost, or the call fails, or SIGPIPE ends the server.            *)
SendTo(i, data, ok, failed) ==
  LET x == slot[i] IN
  \/ /\ copen[x]
     /\ toClient' = [toClient EXCEPT ![x] = Append(@, data)]
     /\ tpc' = [tpc EXCEPT ![i] = ok]
     /\ UNCHANGED <<mpc, progress, backlog, sopen>>
  \/ /\ ~copen[x]
     /\ tpc' = [tpc EXCEPT ![i] = ok]
     /\ UNCHANGED <<mpc, progress, backlog, sopen, toClient>>
  \/ /\ ~copen[x]
     /\ failed
     /\ UNCHANGED <<mpc, backlog, toClient>>
  \/ /\ ~copen[x]
     /\ ServerExit("killed")
     /\ UNCHANGED <<progress, toClient>>

(* Mutant: a thread closes and exits without setting the progress.         *)
ThreadEndsSilently(i, p) ==
  /\ UNCHANGED progress
  /\ sopen' = [sopen EXCEPT ![slot[i]] = FALSE]
  /\ tpc' = [tpc EXCEPT ![i] = "exit"]

(* socket_error, normal_return and error_return: the progress is set to    *)
(* -2, -1, -2, the socket closed.                                          *)
ThreadEnds(i, p) ==
  /\ progress' = [progress EXCEPT ![i] = p]
  /\ sopen' = [sopen EXCEPT ![slot[i]] = FALSE]
  /\ tpc' = [tpc EXCEPT ![i] = "exit"]

(* A thread whose slot is empty has a descriptor of -1.                    *)
SendHead(i) ==
  /\ tpc[i] = "head"
  /\ IF slot[i] = NoSession
     THEN ThreadEnds(i, -2) /\ UNCHANGED <<mpc, backlog, toClient>>
     ELSE SendTo(i, "head", "items", ThreadEnds(i, -2))
  /\ UNCHANGED <<slot, spawned, sendingCount, freed, scan, finished, hasError,
                 clientVars, copen, toServer, faults>>

(* The items are sent from the buffer index_items.                         *)
SendItems(i) ==
  /\ tpc[i] = "items"
  /\ SendTo(i, "items", "wait", ThreadEnds(i, -2))
  /\ UNCHANGED <<slot, spawned, sendingCount, freed, scan, finished, hasError,
                 clientVars, copen, toServer, faults>>

Pop(x) == toServer[x] # <<>> /\ toServer' = [toServer EXCEPT ![x] = Tail(@)]

(* Mutant: recv() returning 0 is tried again.                              *)
EndedNever(x) == FALSE

(* The end of the data, with the client gone: recv() returns no more.      *)
Ended(x) == toServer[x] = <<>> /\ ~copen[x]

(* Any message counts for "the storages are connected": its state is not   *)
(* looked at.                                                              *)
AwaitReady(i) ==
  /\ tpc[i] = "wait"
  /\ \/ /\ Pop(slot[i])
        /\ tpc' = [tpc EXCEPT ![i] = "count"]
        /\ UNCHANGED <<progress, sopen>>
     \/ /\ Ended(slot[i])
        /\ ThreadEnds(i, -2)
        /\ UNCHANGED toServer
  /\ UNCHANGED <<mpc, slot, spawned, sendingCount, freed, scan, finished,
                 hasError, clientVars, backlog, copen, toClient, faults>>

(* Mutant: the last but one thread frees the index.                        *)
FreedEarly(count) == count <= 1

(* Under sending_mutex: the last thread frees the index.                   *)
Freed(count) == count = 0

CountDown(i) ==
  /\ tpc[i] = "count"
  /\ sendingCount' = sendingCount - 1
  /\ freed' = (freed \/ Freed(sendingCount - 1))
  /\ tpc' = [tpc EXCEPT ![i] = "barrier"]
  /\ UNCHANGED <<mpc, slot, spawned, progress, scan, finished, hasError,
                 clientVars, netVars, faults>>

(* Mutant: the barrier is read with sending_count <= 1.                    *)
PassBarrierEarly(i) ==
  /\ tpc[i] = "barrier" /\ sendingCount <= 1
  /\ tpc' = [tpc EXCEPT ![i] = "start"]
  /\ UNCHANGED <<mpc, slot, spawned, progress, sendingCount, freed, scan,
                 finished, hasError, clientVars, netVars, faults>>

PassBarrier(i) ==
  /\ tpc[i] = "barrier" /\ sendingCount = 0
  /\ tpc' = [tpc EXCEPT ![i] = "start"]
  /\ UNCHANGED <<mpc, slot, spawned, progress, sendingCount, freed, scan,
                 finished, hasError, clientVars, netVars, faults>>

(* Whether the command was sent is not checked (n_read is, once more).     *)
SendStart(i) ==
  /\ tpc[i] = "start"
  /\ SendTo(i, "go", "progress",
            tpc' = [tpc EXCEPT ![i] = "progress"] /\ UNCHANGED <<progress, sopen>>)
  /\ UNCHANGED <<slot, spawned, sendingCount, freed, scan, finished, hasError,
                 clientVars, copen, toServer, faults>>

ReadProgress(i) ==
  LET x == slot[i] IN
  /\ tpc[i] = "progress"
  /\ \/ /\ Pop(x)
        /\ IF Head(toServer[x]).state = Failed
           THEN ThreadEnds(i, -2)
           ELSE /\ progress' = [progress EXCEPT ![i] = Head(toServer[x]).count]
                /\ UNCHANGED <<tpc, sopen>>
     \/ /\ Ended(x)
        /\ ThreadEnds(i, -1)
        /\ UNCHANGED toServer
  /\ UNCHANGED <<mpc, slot, spawned, sendingCount, freed, scan, finished,
                 hasError, clientVars, backlog, copen, toClient, faults>>

Thread(i) ==
  \/ SendHead(i) \/ SendItems(i) \/ AwaitReady(i) \/ CountDown(i)
  \/ PassBarrier(i) \/ SendStart(i) \/ ReadProgress(i)

-----------------------------------------------------------------------------
(* A session of a client: main() of idg_client.c                           *)

(* init_server_socket.  A client process has one session at a time.        *)
Connect(x) ==
  /\ cpc[x] = "idle" /\ mpc = "accept"
  /\ Cardinality({y \in Session : cpc[y] \notin {"idle"} \cup Over}) < ClientCount
  /\ cpc' = [cpc EXCEPT ![x] = "head"]
  /\ copen' = [copen EXCEPT ![x] = TRUE]
  /\ sopen' = [sopen EXCEPT ![x] = TRUE]
  /\ backlog' = backlog \cup {x}
  /\ UNCHANGED <<serverVars, sent, toClient, toServer, faults>>

(* read_index_data, and the start command of wait_for_starting             *)
Receive(x, data, next) ==
  /\ toClient[x] # <<>> /\ Head(toClient[x]) = data
  /\ toClient' = [toClient EXCEPT ![x] = Tail(@)]
  /\ cpc' = [cpc EXCEPT ![x] = next]
  /\ UNCHANGED <<serverVars, sent, backlog, copen, sopen, toServer, faults>>

ReceiveHead(x)  == cpc[x] = "head" /\ Receive(x, "head", "items")
ReceiveItems(x) == cpc[x] = "items" /\ Receive(x, "items", "storages")
ReceiveStart(x) == cpc[x] = "starting" /\ Receive(x, "go", "work")

(* What the client sends is dropped when the server has closed its end.    *)
Reply(x, message) ==
  toServer' = [toServer EXCEPT ![x] = IF sopen[x] THEN Append(@, message) ELSE @]

Close(x, how) ==
  /\ copen' = [copen EXCEPT ![x] = FALSE]
  /\ cpc' = [cpc EXCEPT ![x] = how]

(* init_storages: the storages are connected, or state 2 goes to the       *)
(* server and the session ends.                                            *)
InitStorages(x) ==
  /\ cpc[x] = "storages"
  /\ cpc' = [cpc EXCEPT ![x] = "ready"]
  /\ UNCHANGED <<serverVars, sent, netVars, faults>>

InitStoragesFails(x) ==
  /\ cpc[x] = "storages"
  /\ TakeFault
  /\ Reply(x, Message(Failed, 0))
  /\ Close(x, "initfail")
  /\ UNCHANGED <<serverVars, sent, backlog, sopen, toClient>>

SendReady(x) ==
  /\ cpc[x] = "ready"
  /\ Reply(x, Message(Go, 0))
  /\ cpc' = [cpc EXCEPT ![x] = "starting"]
  /\ UNCHANGED <<serverVars, sent, backlog, copen, sopen, toClient, faults>>

(* The data phase sends items, the monitor loop reports how many: the sum  *)
(* of send_count, whatever the items were asked for.                       *)
Work(x) ==
  /\ cpc[x] = "work" /\ sent[x] < Asked
  /\ sent' = [sent EXCEPT ![x] = @ + 1]
  /\ UNCHANGED <<serverVars, cpc, netVars, faults>>

Report(x) ==
  /\ cpc[x] = "work" /\ sopen[x] /\ Len(toServer[x]) < MaxReports
  /\ Reply(x, Message(Normal, sent[x]))
  /\ UNCHANGED <<serverVars, clientVars, backlog, copen, sopen, toClient, faults>>

(* Mutant: the last report carries no count.                               *)
NoFinalCount == 0

(* The last report carries index_head.count, which can be less than the    *)
(* report before it.                                                       *)
FinalCount == Items

EndComplete(x) ==
  /\ cpc[x] = "work" /\ sent[x] = Asked
  /\ Reply(x, Message(Normal, FinalCount))
  /\ Close(x, "complete")
  /\ UNCHANGED <<serverVars, sent, backlog, sopen, toClient, faults>>

EndError(x) ==
  /\ cpc[x] = "work"
  /\ TakeFault
  /\ Reply(x, Message(Failed, FinalCount))
  /\ Close(x, "error")
  /\ UNCHANGED <<serverVars, sent, backlog, sopen, toClient>>

(* The server's end is closed: a read finds the end of the data, a write   *)
(* fails.                                                                  *)
ServerGone(x) ==
  /\ cpc[x] \in {"head", "items", "ready", "starting", "work"}
  /\ ~sopen[x] /\ toClient[x] = <<>>
  /\ Close(x, "lost")
  /\ UNCHANGED <<serverVars, sent, backlog, sopen, toClient, toServer, faults>>

(* The process is killed.  With data for it unread, what it sent may be    *)
(* lost to the reset.                                                      *)
Crash(x) ==
  /\ cpc[x] \notin {"idle"} \cup Over
  /\ TakeFault
  /\ Close(x, "lost")
  /\ \E n \in 0 .. Len(toServer[x]) :
        /\ toClient[x] = <<>> => n = Len(toServer[x])
        /\ toServer' = [toServer EXCEPT ![x] = SubSeq(@, 1, n)]
  /\ UNCHANGED <<serverVars, sent, backlog, sopen, toClient>>

ClientStep(x) ==
  \/ Connect(x) \/ ReceiveHead(x) \/ ReceiveItems(x) \/ InitStorages(x)
  \/ SendReady(x) \/ ReceiveStart(x) \/ EndComplete(x) \/ ServerGone(x)

ClientFault(x) == InitStoragesFails(x) \/ EndError(x) \/ Crash(x)

-----------------------------------------------------------------------------
(* The loops that wait for sending_count never give up.                    *)
Poll ==
  /\ \/ mpc = "initwait"
     \/ \E i \in Slot : tpc[i] = "barrier"
  /\ sendingCount > 0
  /\ UNCHANGED vars

AtRest ==
  /\ ServerEnded
  /\ \A x \in Session : cpc[x] \in {"idle"} \cup Over
  /\ UNCHANGED vars

Next ==
  \/ Main \/ AcceptNothing \/ ServerGivesUp
  \/ \E i \in Slot : Thread(i)
  \/ \E x \in Session : ClientStep(x) \/ Work(x) \/ Report(x) \/ ClientFault(x)
  \/ Poll \/ AtRest

(* Threads and processes are scheduled; the data phase goes on.            *)
Fairness ==
  /\ WF_vars(Main)
  /\ \A i \in Slot : WF_vars(Thread(i))
  /\ \A x \in Session : WF_vars(ClientStep(x)) /\ WF_vars(Work(x))

Spec == Init /\ [][Next]_vars

FairSpec == Spec /\ Fairness

-----------------------------------------------------------------------------
(* Safety.                                                                 *)

Counted(i) == tpc[i] \in {"barrier", "start", "progress"}

(* A session that has answered, or is over.                                *)
Answered == {"starting", "work"} \cup Over

(* The barrier of the threads: when a client is told to start, or works,   *)
(* the thread of every client has counted down, every slot has a client,   *)
(* and each of these has had its storages connected or is gone by now.     *)
StartTogether ==
  (\E x \in Session : cpc[x] = "work" \/ \E k \in DOMAIN toClient[x] : toClient[x][k] = "go")
  => /\ sendingCount = 0 /\ spawned = ClientCount
     /\ \A i \in Slot : slot[i] \in Session /\ cpc[slot[i]] \in Answered

(* index_items is freed by the last thread that counts down, and no thread *)
(* sends from it afterwards, or is created later and would.                *)
NoUseAfterFree ==
  freed => \A i \in Slot : tpc[i] \notin {"none", "head", "items"}

(* A client that ended its work with an error is not overlooked: whatever  *)
(* passes of the progress loop it falls between, the server then does not  *)
(* call the transfer complete.                                             *)
ErrorReported ==
  mpc = "complete" => \A i \in Slot : cpc[slot[i]] # "error"

(* A progress of -1 or -2 is final (finish_count counts on it).  Else the  *)
(* progress of a client goes backwards only by the last report, which sets *)
(* it to the size of the part of a client that has completed.              *)
ProgressGrows ==
  [][\A i \in Slot :
       /\ progress[i] < 0 => progress'[i] = progress[i]
       /\ progress'[i] >= 0 =>
            \/ progress'[i] >= progress[i]
            \/ progress'[i] = Items /\ cpc[slot[i]] = "complete"]_vars

(* Liveness.                                                               *)

(* Unless a fault happens the server calls the transfer complete.          *)
ServerCompletes == <>(mpc = "complete" \/ faults < MaxFaults)

(* Once every client is initialised the server ends, whatever the clients  *)
(* do: a client that dies or fails makes its thread end (recv_data_block   *)
(* returns), and every thread that ends is counted.                        *)
EndsOnceInitialised == (sendingCount = 0) ~> ServerEnded

-----------------------------------------------------------------------------
(* What the program says of itself and does not do.                        *)

(* "client return error" (idg_server.c:468): a progress of -2 makes the    *)
(* main thread note an error.                                              *)
ErrorNoticed ==
  \A i \in Slot : (progress[i] = -2) ~> (hasError \/ mpc = "killed")

(* "all finished" and "Data transferring complete!" (idg_server.c:480,     *)
(* 515): every client has finished.                                        *)
AllFinished ==
  mpc = "complete" => \A i \in Slot : cpc[slot[i]] = "complete"

=============================================================================
