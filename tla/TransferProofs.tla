--------------------------- MODULE TransferProofs ---------------------------
(***************************************************************************)
(* Proofs about the data phase for any number of clients, storages and     *)
(* threads, any index and any capacity of the connections, wherever a      *)
(* stream is cut: types, mutual exclusion, the framing of the connections, *)
(* and, in the second half, that the relay keeps every item: what is asked *)
(* for, on its way, buffered and sent always adds up, which is what the    *)
(* refinement of Relay rests on.                                           *)
(***************************************************************************)
EXTENDS TransferProps, SumsAndLoops

(* The units and thread records the actions build are well typed.          *)
LEMMA UnitTypes ==
  /\ \A n \in Nat : ItemsUnit(n) \in Unit
  /\ \A type \in {Read, Write}, j \in Storage \cup {NoIndex}, n \in Nat :
        HeadUnit(type, j, n) \in Unit
BY DEF Unit, ItemsUnit, HeadUnit, Read, Write, NoIndex

(* So are the records of the threads.                                      *)
LEMMA ThreadTypes ==
  /\ \A pcs : \A pc \in pcs, i \in Storage, h \in Unit : At(pc, i, h) \in Thread(pcs)
  /\ \A pcs : "idle" \in pcs => Idle \in Thread(pcs)
  /\ \A pcs : "exit" \in pcs => Exited \in Thread(pcs)
  /\ \A pcs : \A pc \in pcs, c \in Client, h \in Unit : SAt(pc, c, h) \in SThread(pcs)
  /\ \A pcs : "idle" \in pcs => SIdle \in SThread(pcs)
  /\ \A pcs : "dead" \in pcs => SDead \in SThread(pcs)
<1>1. 0 \in Storage
  BY WireAssumption DEF Storage
<1> QED
  BY <1>1, UnitTypes, StorageAssumption
  DEF At, Thread, Idle, Exited, SAt, SThread, SIdle, SDead

(* So are the states of a storage's send thread.                           *)
LEMMA SendStates ==
  /\ SIdle \in SSendState /\ SDead \in SSendState
  /\ \A c \in Client, h \in Unit : h.index \in Storage =>
        SAt("head", c, h) \in SSendState /\ SAt("items", c, h) \in SSendState
<1>1. /\ SIdle \in SThread(SSendPC) /\ SDead \in SThread(SSendPC)
      /\ \A c \in Client, h \in Unit : /\ SAt("head", c, h) \in SThread(SSendPC)
                                      /\ SAt("items", c, h) \in SThread(SSendPC)
  BY ThreadTypes DEF SSendPC
<1> QED
  BY <1>1 DEF SSendState, SIdle, SDead, SAt

(* A chunk of n items is not empty and at most n.                          *)
LEMMA ChunkType == \A n \in Nat : n > 0 => Chunk(n) \in 1 .. n
BY WireAssumption DEF Chunk

-----------------------------------------------------------------------------
(* The data phase starts well typed.                                       *)
LEMMA TypeInit == Init => TypeOK
<1> SUFFICES ASSUME Init PROVE TypeOK
  OBVIOUS
<1>1. WireTypeOK
  BY WireAssumption
  DEF Init, WireInit, WireTypeOK, PerConn, OnConn, OnStorage
<1>2. ClientTypeOK
  <2>1. MonitorAt("scan") \in Monitor
    BY WireAssumption DEF MonitorAt, Monitor
  <2> QED
    BY <2>1, ThreadTypes, RelayAssumption
    DEF Init, ClientInit, ClientTypeOK, RecvPC, SendPC, PerConn, PerRoute,
        OnConn, OnStorage
<1>3. StorageTypeOK
  BY ThreadTypes, SendStates
  DEF Init, StorageInit, StorageTypeOK, SRecvPC, SSendPC, PerConn, PerRoute,
      OnConn, OnStorage
<1> QED
  BY <1>1, <1>2, <1>3 DEF TypeOK

-----------------------------------------------------------------------------
(* The type invariant is inductive: one lemma for the steps of each        *)
(* routine.                                                                *)

(* A function of two arguments keeps its type when it is changed at one    *)
(* point, or for one first argument.                                       *)
LEMMA Update ==
  ASSUME NEW A, NEW B, NEW S, NEW f \in [A -> [B -> S]],
         NEW a \in A, NEW b \in B
  PROVE  /\ f[a][b] \in S
         /\ \A v \in S : [f EXCEPT ![a][b] = v] \in [A -> [B -> S]]
         /\ \A g \in [B -> S] : [f EXCEPT ![a] = g] \in [A -> [B -> S]]
OBVIOUS

(* Taking a unit from a stream gives a unit and leaves a stream.           *)
LEMMA PopType ==
  ASSUME WireTypeOK, NEW c \in Client, NEW s \in Storage
  PROVE  /\ ClientPop(c, s) => /\ Head(down[c][s]) \in Unit
                               /\ down' \in PerConn(Seq(Unit))
         /\ StoragePop(c, s) => /\ Head(up[c][s]) \in Unit
                                /\ up' \in PerConn(Seq(Unit))
<1>1. up[c][s] \in Seq(Unit) /\ down[c][s] \in Seq(Unit)
  BY DEF WireTypeOK, PerConn
<1>2. \A q \in Seq(Unit) : q # <<>> => Head(q) \in Unit /\ Tail(q) \in Seq(Unit)
  OBVIOUS
<1>3. ASSUME ClientPop(c, s)
      PROVE  Head(down[c][s]) \in Unit /\ down' \in PerConn(Seq(Unit))
  <2>1. down' = [down EXCEPT ![c][s] = Tail(down[c][s])] /\ down[c][s] # <<>>
    BY <1>3 DEF ClientPop
  <2>2. Head(down[c][s]) \in Unit /\ Tail(down[c][s]) \in Seq(Unit)
    BY <1>1, <1>2, <2>1
  <2> QED
    BY <2>1, <2>2, Update DEF WireTypeOK, PerConn
<1>4. ASSUME StoragePop(c, s)
      PROVE  Head(up[c][s]) \in Unit /\ up' \in PerConn(Seq(Unit))
  <2>1. up' = [up EXCEPT ![c][s] = Tail(up[c][s])] /\ up[c][s] # <<>>
    BY <1>4 DEF StoragePop
  <2>2. Head(up[c][s]) \in Unit /\ Tail(up[c][s]) \in Seq(Unit)
    BY <1>1, <1>2, <2>1
  <2> QED
    BY <2>1, <2>2, Update DEF WireTypeOK, PerConn
<1> QED
  BY <1>3, <1>4

(* Adding a unit to a stream leaves a stream.                              *)
LEMMA PushType ==
  ASSUME WireTypeOK, NEW c \in Client, NEW s \in Storage, NEW unit \in Unit
  PROVE  /\ ClientPush(c, s, unit) => up' \in PerConn(Seq(Unit))
         /\ StoragePush(c, s, unit) => down' \in PerConn(Seq(Unit))
<1>1. up[c][s] \in Seq(Unit) /\ down[c][s] \in Seq(Unit)
  BY DEF WireTypeOK, PerConn
<1>2. \A q \in Seq(Unit) : Append(q, unit) \in Seq(Unit)
  OBVIOUS
<1>3. ClientPush(c, s, unit) => up' \in PerConn(Seq(Unit))
  BY <1>1, <1>2, Update DEF WireTypeOK, ClientPush, PerConn
<1>4. StoragePush(c, s, unit) => down' \in PerConn(Seq(Unit))
  BY <1>1, <1>2, Update DEF WireTypeOK, StoragePush, PerConn
<1> QED
  BY <1>3, <1>4

-----------------------------------------------------------------------------
(* The type invariant is inductive: one lemma for the steps of each        *)
(* routine, one case per action.                                           *)

(* recv_thread_routine of the client.                                      *)
LEMMA ClientRecvType ==
  ASSUME TypeOK, NEW c \in Client, NEW t \in CRecvThread,
         ClientRecv(c, t), UNCHANGED storageVars
  PROVE  TypeOK'
<1> DEFINE th == cr[c][t]
<1>0. /\ WireTypeOK /\ ClientTypeOK /\ StorageTypeOK'
      /\ th.i \in Storage /\ th.h \in Unit /\ th.h.count \in Nat
  <2>1. th \in Thread(RecvPC)
    BY DEF TypeOK, ClientTypeOK
  <2> QED
    BY <2>1 DEF Thread, Unit, TypeOK, StorageTypeOK, storageVars
<1>a. \A i \in Storage, pc \in RecvPC, h \in Unit :
         [cr EXCEPT ![c][t] = At(pc, i, h)]
           \in [Client -> [CRecvThread -> Thread(RecvPC)]]
  BY <1>0, Update, ThreadTypes DEF ClientTypeOK
<1>b. \A i \in Storage, v \in BOOLEAN :
         /\ [crecving EXCEPT ![c][i] = v] \in PerConn(BOOLEAN)
         /\ [cfd EXCEPT ![c][i] = v] \in PerConn(BOOLEAN)
  BY <1>0, Update DEF ClientTypeOK, WireTypeOK, PerConn
<1>c. /\ [cr EXCEPT ![c][t] = Idle] \in [Client -> [CRecvThread -> Thread(RecvPC)]]
      /\ [cr EXCEPT ![c][t] = Exited] \in [Client -> [CRecvThread -> Thread(RecvPC)]]
  BY <1>0, Update, ThreadTypes DEF ClientTypeOK, RecvPC
<1>1. CASE ClientRecvBegin(c, t)
  <2>1. PICK i \in Storage :
           /\ crecving' = [crecving EXCEPT ![c][i] = TRUE]
           /\ cr' = [cr EXCEPT ![c][t] = At("head", i, ItemsUnit(0))]
    BY <1>1 DEF ClientRecvBegin
  <2>2. "head" \in RecvPC /\ ItemsUnit(0) \in Unit
    BY UnitTypes DEF RecvPC
  <2> QED
    BY <1>0, <1>1, <1>a, <1>b, <2>1, <2>2
    DEF ClientRecvBegin, TypeOK, WireTypeOK, ClientTypeOK, wireVars
<1>2. CASE ClientRecvHead(c, t)
  <2>1. Head(down[c][th.i]) \in Unit /\ down' \in PerConn(Seq(Unit))
    BY <1>0, <1>2, PopType DEF ClientRecvHead
  <2>2. cr' \in [Client -> [CRecvThread -> Thread(RecvPC)]]
    BY <1>0, <1>2, <1>a, <2>1 DEF ClientRecvHead, RecvPC
  <2> QED
    BY <1>0, <1>2, <2>1, <2>2
    DEF ClientRecvHead, TypeOK, WireTypeOK, ClientTypeOK
<1>3. CASE ClientRecvItems(c, t)
  <2>1. Head(down[c][th.i]) \in Unit /\ down' \in PerConn(Seq(Unit))
    BY <1>0, <1>3, PopType DEF ClientRecvItems
  <2>2. cr' \in [Client -> [CRecvThread -> Thread(RecvPC)]]
    BY <1>0, <1>3, <1>a, <2>1 DEF ClientRecvItems, RecvPC
  <2>3. buffered' \in PerConn(Nat)
    <3>1. \A j \in Storage : [buffered EXCEPT ![c][j] = @ + th.h.count] \in PerConn(Nat)
      BY <1>0, Update DEF ClientTypeOK, PerConn
    <3> QED
      BY <1>0, <1>3, <3>1 DEF ClientRecvItems, ClientTypeOK
  <2> QED
    BY <1>0, <1>3, <2>1, <2>2, <2>3
    DEF ClientRecvItems, TypeOK, WireTypeOK, ClientTypeOK
<1>4. CASE ClientRecvCount(c, t)
  <2>1. recvCount' \in PerConn(Nat)
    BY <1>0, <1>4, Update DEF ClientRecvCount, ClientTypeOK, PerConn
  <2> QED
    BY <1>0, <1>4, <1>b, <1>c, <2>1
    DEF ClientRecvCount, TypeOK, WireTypeOK, ClientTypeOK, wireVars
<1>5. CASE ClientRecvFail(c, t)
  BY <1>0, <1>5, <1>b, <1>c
  DEF ClientRecvFail, ClientRecvClose, TypeOK, WireTypeOK, ClientTypeOK
<1>6. CASE ClientRecvExit(c, t)
  BY <1>0, <1>6, <1>c
  DEF ClientRecvExit, TypeOK, WireTypeOK, ClientTypeOK, wireVars
<1> QED
  BY <1>1, <1>2, <1>3, <1>4, <1>5, <1>6 DEF ClientRecv

(* The states of the monitor loop.                                         *)
LEMMA MonitorTypes ==
  \A pc \in {"scan", "report", "join", "done"} : MonitorAt(pc) \in Monitor
BY WireAssumption DEF MonitorAt, Monitor

(* SIGPIPE ends the client.                                                *)
LEMMA DeathType ==
  ASSUME WireTypeOK, ClientTypeOK, NEW c \in Client, ClientDies(c),
         faults' \in Nat, serverUp' \in [Client -> BOOLEAN]
  PROVE  WireTypeOK' /\ ClientTypeOK'
<1>1. cfd' \in PerConn(BOOLEAN)
  BY Update DEF ClientDies, WireTypeOK, PerConn, OnStorage
<1>2. cr' \in [Client -> [CRecvThread -> Thread(RecvPC)]]
  <2>1. [t \in CRecvThread |-> Exited] \in [CRecvThread -> Thread(RecvPC)]
    BY ThreadTypes DEF RecvPC
  <2> QED
    BY <2>1 DEF ClientDies, ClientTypeOK
<1>3. cs' \in [Client -> [CSendThread -> Thread(SendPC)]]
  <2>1. [t \in CSendThread |-> Exited] \in [CSendThread -> Thread(SendPC)]
    BY ThreadTypes DEF SendPC
  <2> QED
    BY <2>1 DEF ClientDies, ClientTypeOK
<1>4. mon' \in [Client -> Monitor]
  BY MonitorTypes DEF ClientDies, ClientTypeOK
<1> QED
  BY <1>1, <1>2, <1>3, <1>4 DEF ClientDies, WireTypeOK, ClientTypeOK

(* send_thread_routine of the client.                                      *)
LEMMA ClientSendType ==
  ASSUME TypeOK, NEW c \in Client, NEW t \in CSendThread,
         ClientSend(c, t), UNCHANGED storageVars
  PROVE  TypeOK'
<1> DEFINE th == cs[c][t]
<1>0. /\ WireTypeOK /\ ClientTypeOK /\ StorageTypeOK'
      /\ th.i \in Storage /\ th.h \in Unit /\ th.h.count \in Nat
  <2>1. th \in Thread(SendPC)
    BY DEF TypeOK, ClientTypeOK
  <2> QED
    BY <2>1 DEF Thread, Unit, TypeOK, StorageTypeOK, storageVars
<1>a. \A i \in Storage, pc \in SendPC, h \in Unit :
         [cs EXCEPT ![c][t] = At(pc, i, h)]
           \in [Client -> [CSendThread -> Thread(SendPC)]]
  BY <1>0, Update, ThreadTypes DEF ClientTypeOK
<1>b. \A i \in Storage, v \in BOOLEAN :
         /\ [csending EXCEPT ![c][i] = v] \in PerConn(BOOLEAN)
         /\ [cfd EXCEPT ![c][i] = v] \in PerConn(BOOLEAN)
  BY <1>0, Update DEF ClientTypeOK, WireTypeOK, PerConn
<1>c. /\ [cs EXCEPT ![c][t] = Idle] \in [Client -> [CSendThread -> Thread(SendPC)]]
      /\ [cs EXCEPT ![c][t] = Exited] \in [Client -> [CSendThread -> Thread(SendPC)]]
  BY <1>0, Update, ThreadTypes DEF ClientTypeOK, SendPC
<1>d. \A i \in Storage : /\ heads[c][i] \in [Storage -> Nat]
                         /\ buffered[c][i] \in Nat /\ sendCount[c][i] \in Nat
  BY <1>0 DEF ClientTypeOK, PerRoute, PerConn
<1>1. CASE ClientSendBegin(c, t)
  <2>1. PICK i \in Storage :
           /\ csending' = [csending EXCEPT ![c][i] = TRUE]
           /\ \/ /\ \E j \in Storage : cs' = [cs EXCEPT ![c][t] =
                       At("request", i, HeadUnit(Read, j, heads[c][i][j]))]
                 /\ UNCHANGED buffered
              \/ /\ buffered[c][i] > 0
                 /\ LET n == Chunk(buffered[c][i]) IN
                    /\ buffered' = [buffered EXCEPT ![c][i] = @ - n]
                    /\ cs' = [cs EXCEPT ![c][t] =
                               At("head", i, HeadUnit(Write, NoIndex, n))]
    BY <1>1 DEF ClientSendBegin
  <2>2. /\ cs' \in [Client -> [CSendThread -> Thread(SendPC)]]
        /\ buffered' \in PerConn(Nat)
    <3>1. CASE /\ \E j \in Storage : cs' = [cs EXCEPT ![c][t] =
                     At("request", i, HeadUnit(Read, j, heads[c][i][j]))]
               /\ UNCHANGED buffered
      <4>1. \A j \in Storage : HeadUnit(Read, j, heads[c][i][j]) \in Unit
        BY <1>d, UnitTypes
      <4> QED
        BY <1>0, <1>a, <3>1, <4>1 DEF ClientTypeOK, SendPC
    <3>2. CASE /\ buffered[c][i] > 0
               /\ LET n == Chunk(buffered[c][i]) IN
                  /\ buffered' = [buffered EXCEPT ![c][i] = @ - n]
                  /\ cs' = [cs EXCEPT ![c][t] =
                             At("head", i, HeadUnit(Write, NoIndex, n))]
      <4> DEFINE n == Chunk(buffered[c][i])
      <4>1. n \in Nat /\ buffered[c][i] - n \in Nat
        BY <1>d, <3>2, ChunkType
      <4>2. HeadUnit(Write, NoIndex, n) \in Unit
        BY <4>1, UnitTypes
      <4>3. buffered' \in PerConn(Nat)
        BY <1>0, <3>2, <4>1, Update DEF ClientTypeOK, PerConn
      <4> QED
        BY <1>0, <1>a, <3>2, <4>2, <4>3 DEF ClientTypeOK, SendPC
    <3> QED
      BY <2>1, <3>1, <3>2
  <2> QED
    BY <1>0, <1>1, <1>b, <2>1, <2>2
    DEF ClientSendBegin, TypeOK, WireTypeOK, ClientTypeOK, wireVars
<1>2. CASE ClientSendRequest(c, t)
  <2>1. up' \in PerConn(Seq(Unit))
    BY <1>0, <1>2, PushType DEF ClientSendRequest
  <2>2. heads' \in PerRoute(Nat)
    <3>1. [heads[c][th.i] EXCEPT ![th.h.index] = 0] \in [Storage -> Nat]
      BY <1>0, <1>d
    <3>2. heads' = [heads EXCEPT ![c][th.i] =
                      [heads[c][th.i] EXCEPT ![th.h.index] = 0]]
      BY <1>0, <1>2 DEF ClientSendRequest, ClientTypeOK, PerRoute
    <3> QED
      BY <1>0, <3>1, <3>2, Update DEF ClientTypeOK, PerRoute
  <2> QED
    BY <1>0, <1>2, <1>b, <1>c, <2>1, <2>2
    DEF ClientSendRequest, TypeOK, WireTypeOK, ClientTypeOK
<1>3. CASE ClientSendHead(c, t)
  <2>1. up' \in PerConn(Seq(Unit))
    BY <1>0, <1>3, PushType DEF ClientSendHead
  <2>2. cs' \in [Client -> [CSendThread -> Thread(SendPC)]]
    BY <1>0, <1>3, <1>a DEF ClientSendHead, SendPC
  <2> QED
    BY <1>0, <1>3, <2>1, <2>2
    DEF ClientSendHead, TypeOK, WireTypeOK, ClientTypeOK
<1>4. CASE ClientSendItems(c, t)
  <2>1. up' \in PerConn(Seq(Unit))
    BY <1>0, <1>4, PushType, UnitTypes DEF ClientSendItems
  <2>2. sendCount' \in PerConn(Nat)
    BY <1>0, <1>4, Update DEF ClientSendItems, ClientTypeOK, PerConn
  <2> QED
    BY <1>0, <1>4, <1>b, <1>c, <2>1, <2>2
    DEF ClientSendItems, TypeOK, WireTypeOK, ClientTypeOK
<1>5. CASE ClientSendFail(c, t)
  BY <1>0, <1>5, <1>b, <1>c
  DEF ClientSendFail, ClientSendClose, TypeOK, WireTypeOK, ClientTypeOK
<1>6. CASE ClientSendExit(c, t)
  BY <1>0, <1>6, <1>c
  DEF ClientSendExit, TypeOK, WireTypeOK, ClientTypeOK, wireVars
<1>7. CASE ClientSendKilled(c, t)
  BY <1>0, <1>7, DeathType
  DEF ClientSendKilled, TypeOK, WireTypeOK, ClientTypeOK
<1> QED
  BY <1>1, <1>2, <1>3, <1>4, <1>5, <1>6, <1>7 DEF ClientSend

(* The monitor loop and the end of the session.                            *)
LEMMA ClientMainType ==
  ASSUME TypeOK, NEW c \in Client,
         ClientMain(c) \/ MonitorServerLost(c) \/ ClientTimeout(c),
         UNCHANGED storageVars
  PROVE  TypeOK'
<1>0. /\ WireTypeOK /\ ClientTypeOK /\ StorageTypeOK'
      /\ mon[c] \in Monitor
  BY DEF TypeOK, ClientTypeOK, StorageTypeOK, storageVars
<1>1. CASE MonitorScan(c)
  <2> DEFINE m == mon[c]
             m2 == [pc   |-> IF m.i = StorageCount - 1 THEN "report" ELSE "scan",
                    i    |-> m.i + 1,
                    ends |-> m.ends + Ends(c, m.i),
                    err  |-> m.err \/ ~cfd[c][m.i]]
  <2>1. Ends(c, m.i) \in Nat
    BY DEF Ends
  <2>2. m.i \in 0 .. StorageCount /\ m.ends \in Nat /\ m.i < StorageCount
    BY <1>0, <1>1 DEF Monitor, MonitorScan
  <2>3. m2 \in Monitor
    BY <2>1, <2>2, WireAssumption DEF Monitor
  <2>4. mon' = [mon EXCEPT ![c] = m2]
    BY <1>1 DEF MonitorScan
  <2>5. mon' \in [Client -> Monitor]
    BY <1>0, <2>3, <2>4 DEF ClientTypeOK
  <2> QED
    BY <1>0, <1>1, <2>5
    DEF MonitorScan, TypeOK, WireTypeOK, ClientTypeOK, wireVars
<1>2. ASSUME NEW still \in BOOLEAN, MonitorTest(c, still)
      PROVE  /\ mon' \in [Client -> Monitor]
             /\ running' \in [Client -> BOOLEAN]
  <2>1. [mon[c] EXCEPT !.pc = "join"] \in Monitor
    BY <1>0 DEF Monitor
  <2> QED
    BY <1>0, <1>2, <2>1, MonitorTypes DEF MonitorTest, ClientTypeOK
<1>3. CASE MonitorReport(c)
  BY <1>0, <1>2, <1>3
  DEF MonitorReport, TypeOK, WireTypeOK, ClientTypeOK, wireVars
<1>4. CASE MonitorServerLost(c)
  <2>1. faults' \in Nat /\ serverUp' \in [Client -> BOOLEAN]
    BY <1>0, <1>4 DEF MonitorServerLost, TakeFault, WireTypeOK, ClientTypeOK
  <2>2. CASE ClientDies(c)
    BY <1>0, <2>1, <2>2, DeathType DEF TypeOK
  <2>3. CASE MonitorTest(c, FALSE) /\ ~ClientDies(c)
    BY <1>0, <1>2, <1>4, <2>1, <2>3
    DEF MonitorServerLost, TypeOK, WireTypeOK, ClientTypeOK
  <2> QED
    BY <1>4, <2>2, <2>3 DEF MonitorServerLost
<1>5. CASE ClientFinish(c)
  <2>1. /\ OnStorage(0) \in [Storage -> Nat]
        /\ OnStorage(FALSE) \in [Storage -> BOOLEAN]
        /\ OnStorage(OnStorage(0)) \in [Storage -> [Storage -> Nat]]
    BY DEF OnStorage
  <2>2. /\ cfd' \in PerConn(BOOLEAN) /\ heads' \in PerRoute(Nat)
        /\ buffered' \in PerConn(Nat) /\ recvCount' \in PerConn(Nat)
        /\ sendCount' \in PerConn(Nat)
        /\ crecving' \in PerConn(BOOLEAN) /\ csending' \in PerConn(BOOLEAN)
    BY <1>0, <1>5, <2>1
    DEF ClientFinish, WireTypeOK, ClientTypeOK, PerConn, PerRoute
  <2> QED
    BY <1>0, <1>5, <2>2, MonitorTypes
    DEF ClientFinish, TypeOK, WireTypeOK, ClientTypeOK
<1>6. CASE ClientTimeout(c)
  <2>1. faults' \in Nat
    BY <1>0, <1>6 DEF ClientTimeout, TakeFault, WireTypeOK
  <2>2. ASSUME NEW t \in CRecvThread, ClientRecvClose(c, t) PROVE TypeOK'
    <3>1. cr[c][t].i \in Storage
      BY <1>0 DEF ClientTypeOK, Thread
    <3>2. cfd' \in PerConn(BOOLEAN) /\ crecving' \in PerConn(BOOLEAN)
      BY <1>0, <2>2, <3>1, Update
      DEF ClientRecvClose, WireTypeOK, ClientTypeOK, PerConn
    <3>3. cr' \in [Client -> [CRecvThread -> Thread(RecvPC)]]
      BY <1>0, <2>2, Update, ThreadTypes DEF ClientRecvClose, ClientTypeOK, RecvPC
    <3> QED
      BY <1>0, <2>1, <2>2, <3>2, <3>3
      DEF ClientRecvClose, TypeOK, WireTypeOK, ClientTypeOK
  <2>3. ASSUME NEW t \in CSendThread, ClientSendClose(c, t) PROVE TypeOK'
    <3>1. cs[c][t].i \in Storage
      BY <1>0 DEF ClientTypeOK, Thread
    <3>2. cfd' \in PerConn(BOOLEAN) /\ csending' \in PerConn(BOOLEAN)
      BY <1>0, <2>3, <3>1, Update
      DEF ClientSendClose, WireTypeOK, ClientTypeOK, PerConn
    <3>3. cs' \in [Client -> [CSendThread -> Thread(SendPC)]]
      BY <1>0, <2>3, Update, ThreadTypes DEF ClientSendClose, ClientTypeOK, SendPC
    <3> QED
      BY <1>0, <2>1, <2>3, <3>2, <3>3
      DEF ClientSendClose, TypeOK, WireTypeOK, ClientTypeOK
  <2> QED
    BY <1>6, <2>2, <2>3 DEF ClientTimeout
<1> QED
  BY <1>1, <1>3, <1>4, <1>5, <1>6 DEF ClientMain

(* recv_thread_routine of the storage.                                     *)
LEMMA StorageRecvType ==
  ASSUME TypeOK, NEW s \in Storage, NEW t \in SRecvThread,
         StorageRecv(s, t), UNCHANGED clientVars
  PROVE  TypeOK'
<1> DEFINE th == sr[s][t]
<1>0. /\ WireTypeOK /\ StorageTypeOK /\ ClientTypeOK'
      /\ th.c \in Client /\ th.h \in Unit /\ th.h.count \in Nat
  <2>1. th \in SThread(SRecvPC)
    BY DEF TypeOK, StorageTypeOK
  <2> QED
    BY <2>1 DEF SThread, Unit, TypeOK, ClientTypeOK, clientVars
<1>a. /\ \A c \in Client, pc \in SRecvPC, h \in Unit :
            [sr EXCEPT ![s][t] = SAt(pc, c, h)]
              \in [Storage -> [SRecvThread -> SThread(SRecvPC)]]
      /\ [sr EXCEPT ![s][t] = SIdle]
           \in [Storage -> [SRecvThread -> SThread(SRecvPC)]]
  BY <1>0, Update, ThreadTypes DEF StorageTypeOK, SRecvPC
<1>b. \A c \in Client, v \in BOOLEAN :
         /\ [srecving EXCEPT ![c][s] = v] \in PerConn(BOOLEAN)
         /\ [sfd EXCEPT ![c][s] = v] \in PerConn(BOOLEAN)
  BY <1>0, Update DEF StorageTypeOK, WireTypeOK, PerConn
<1>1. CASE StorageRecvBegin(s, t)
  <2>1. PICK c \in Client :
           /\ srecving' = [srecving EXCEPT ![c][s] = TRUE]
           /\ sr' = [sr EXCEPT ![s][t] = SAt("head", c, ItemsUnit(0))]
    BY <1>1 DEF StorageRecvBegin
  <2>2. "head" \in SRecvPC /\ ItemsUnit(0) \in Unit
    BY UnitTypes DEF SRecvPC
  <2> QED
    BY <1>0, <1>1, <1>a, <1>b, <2>1, <2>2
    DEF StorageRecvBegin, TypeOK, WireTypeOK, StorageTypeOK, wireVars
<1>2. CASE StorageRecvRequest(s, t)
  <2> DEFINE unit == Head(up[th.c][s])
  <2>1. unit \in Unit /\ up' \in PerConn(Seq(Unit))
    BY <1>0, <1>2, PopType DEF StorageRecvRequest
  <2>2. unit.index \in Storage /\ unit.count \in Nat
    BY <1>2, <2>1 DEF StorageRecvRequest, Unit
  <2>3. replies' \in PerRoute(Nat)
    <3>1. [replies[th.c][s] EXCEPT ![unit.index] = unit.count] \in [Storage -> Nat]
      <4>1. replies \in PerRoute(Nat) /\ th.c \in Client /\ s \in Storage
        BY <1>0 DEF StorageTypeOK
      <4>2. replies[th.c][s] \in [Storage -> Nat]
        BY <4>1 DEF PerRoute
      <4>. QED BY <4>2, <2>2
    <3>2. replies' = [replies EXCEPT ![th.c][s] =
                        [replies[th.c][s] EXCEPT ![unit.index] = unit.count]]
      BY <1>0, <1>2 DEF StorageRecvRequest, StorageTypeOK, PerRoute
    <3>3. replies \in [Client -> [Storage -> [Storage -> Nat]]]
      BY <1>0 DEF StorageTypeOK, PerRoute
    <3> HIDE DEF th, unit
    <3>4. [replies EXCEPT ![th.c][s] =
             [replies[th.c][s] EXCEPT ![unit.index] = unit.count]]
            \in [Client -> [Storage -> [Storage -> Nat]]]
      BY <1>0, <3>1, <3>3, Update
    <3> QED
      BY <3>2, <3>4 DEF PerRoute
  <2> QED
    BY <1>0, <1>2, <1>a, <1>b, <2>1, <2>3
    DEF StorageRecvRequest, TypeOK, WireTypeOK, StorageTypeOK
<1>3. CASE StorageRecvHead(s, t)
  <2>1. Head(up[th.c][s]) \in Unit /\ up' \in PerConn(Seq(Unit))
    BY <1>0, <1>3, PopType DEF StorageRecvHead
  <2>2. sr' \in [Storage -> [SRecvThread -> SThread(SRecvPC)]]
    BY <1>0, <1>3, <1>a, <2>1 DEF StorageRecvHead, SRecvPC
  <2> QED
    BY <1>0, <1>3, <2>1, <2>2
    DEF StorageRecvHead, TypeOK, WireTypeOK, StorageTypeOK
<1>4. CASE StorageRecvItems(s, t)
  <2>1. Head(up[th.c][s]) \in Unit /\ up' \in PerConn(Seq(Unit))
    BY <1>0, <1>4, PopType DEF StorageRecvItems
  <2>2. sr' \in [Storage -> [SRecvThread -> SThread(SRecvPC)]]
    BY <1>0, <1>4, <1>a, <2>1 DEF StorageRecvItems, SRecvPC
  <2>3. delivered' \in PerConn(Nat)
    <3>1. [delivered EXCEPT ![th.c][s] = @ + th.h.count] \in PerConn(Nat)
      BY <1>0, Update DEF StorageTypeOK, PerConn
    <3> QED
      BY <1>0, <1>4, <3>1 DEF StorageRecvItems, StorageTypeOK
  <2>4. srecving' \in PerConn(BOOLEAN)
    BY <1>0, <1>4, <1>b DEF StorageRecvItems, StorageTypeOK
  <2> QED
    BY <1>0, <1>4, <2>1, <2>2, <2>3, <2>4
    DEF StorageRecvItems, TypeOK, WireTypeOK, StorageTypeOK
<1>5. CASE StorageRecvFail(s, t)
  BY <1>0, <1>5, <1>a, <1>b
  DEF StorageRecvFail, StorageRecvClose, TypeOK, WireTypeOK, StorageTypeOK
<1> QED
  BY <1>1, <1>2, <1>3, <1>4, <1>5 DEF StorageRecv

(* A chunk is taken from the replies without going below zero.             *)
LEMMA TakeChunkType ==
  ASSUME StorageTypeOK, NEW s \in Storage, NEW t \in SSendThread,
         NEW c \in Client, NEW j \in Storage, replies[c][s][j] > 0,
         TakeChunk(s, t, c, j)
  PROVE  /\ replies' \in PerRoute(Nat)
         /\ ss' \in [Storage -> [SSendThread -> SSendState]]
<1> DEFINE n == Chunk(replies[c][s][j])
<1>1. replies[c][s] \in [Storage -> Nat]
  BY DEF StorageTypeOK, PerRoute
<1>2. n \in Nat /\ replies[c][s][j] - n \in Nat
  BY <1>1, ChunkType
<1>3. HeadUnit(Write, j, n) \in Unit
  BY <1>2, UnitTypes
<1>4. [replies[c][s] EXCEPT ![j] = @ - n] \in [Storage -> Nat]
  BY <1>1, <1>2
<1>5. replies' = [replies EXCEPT ![c][s] = [replies[c][s] EXCEPT ![j] = @ - n]]
  BY DEF TakeChunk, StorageTypeOK, PerRoute
<1>6. replies' \in PerRoute(Nat)
  BY <1>4, <1>5, Update DEF StorageTypeOK, PerRoute
<1>7. ss' = [ss EXCEPT ![s][t] = SAt("head", c, HeadUnit(Write, j, n))]
  BY DEF TakeChunk
<1>8. SAt("head", c, HeadUnit(Write, j, n)) \in SSendState
  BY <1>3, SendStates DEF HeadUnit
<1> QED
  BY <1>6, <1>7, <1>8, Update DEF StorageTypeOK

(* send_thread_routine of the storage.                                     *)
LEMMA StorageSendType ==
  ASSUME TypeOK, NEW s \in Storage, NEW t \in SSendThread,
         StorageSend(s, t), UNCHANGED clientVars
  PROVE  TypeOK'
<1> DEFINE th == ss[s][t]
<1>0. /\ WireTypeOK /\ StorageTypeOK /\ ClientTypeOK'
      /\ th.c \in Client /\ th.h \in Unit /\ th.h.count \in Nat
      /\ th.pc \in {"head", "items"} => th.h.index \in Storage
  <2>1. th \in SSendState
    BY DEF TypeOK, StorageTypeOK
  <2> QED
    BY <2>1 DEF SSendState, SThread, Unit, TypeOK, ClientTypeOK, clientVars
<1>a. /\ \A c \in Client, h \in Unit : h.index \in Storage =>
            [ss EXCEPT ![s][t] = SAt("items", c, h)]
              \in [Storage -> [SSendThread -> SSendState]]
      /\ [ss EXCEPT ![s][t] = SIdle]
           \in [Storage -> [SSendThread -> SSendState]]
  BY <1>0, Update, SendStates DEF StorageTypeOK
<1>b. \A c \in Client, v \in BOOLEAN :
         /\ [ssending EXCEPT ![c][s] = v] \in PerConn(BOOLEAN)
         /\ [sfd EXCEPT ![c][s] = v] \in PerConn(BOOLEAN)
  BY <1>0, Update DEF StorageTypeOK, WireTypeOK, PerConn
<1>1. CASE StorageSendBegin(s, t)
  <2>1. PICK c \in Client, j \in Storage :
           /\ ssending' = [ssending EXCEPT ![c][s] = TRUE]
           /\ replies[c][s][j] > 0
           /\ TakeChunk(s, t, c, j)
    BY <1>1 DEF StorageSendBegin, IsFirstHead
  <2>2. /\ replies' \in PerRoute(Nat)
        /\ ss' \in [Storage -> [SSendThread -> SSendState]]
    BY <1>0, <2>1, TakeChunkType
  <2> QED
    BY <1>0, <1>1, <1>b, <2>1, <2>2
    DEF StorageSendBegin, TypeOK, WireTypeOK, StorageTypeOK, wireVars
<1>2. CASE StorageSendHead(s, t)
  <2>1. down' \in PerConn(Seq(Unit))
    BY <1>0, <1>2, PushType DEF StorageSendHead
  <2>2. ss' \in [Storage -> [SSendThread -> SSendState]]
    BY <1>0, <1>2, <1>a DEF StorageSendHead
  <2> QED
    BY <1>0, <1>2, <2>1, <2>2
    DEF StorageSendHead, TypeOK, WireTypeOK, StorageTypeOK
<1>3. CASE StorageSendItems(s, t)
  <2>1. down' \in PerConn(Seq(Unit))
    BY <1>0, <1>3, PushType, UnitTypes DEF StorageSendItems
  <2>2. CASE /\ replies[th.c][s][th.h.index] > 0
             /\ TakeChunk(s, t, th.c, th.h.index)
             /\ UNCHANGED ssending
    <3>1. /\ replies' \in PerRoute(Nat)
          /\ ss' \in [Storage -> [SSendThread -> SSendState]]
      BY <1>0, <1>3, <2>2, TakeChunkType DEF StorageSendItems
    <3> QED
      BY <1>0, <1>3, <2>1, <2>2, <3>1
      DEF StorageSendItems, TypeOK, WireTypeOK, StorageTypeOK
  <2>3. CASE /\ ssending' = [ssending EXCEPT ![th.c][s] = FALSE]
             /\ ss' = [ss EXCEPT ![s][t] = SIdle]
             /\ UNCHANGED replies
    BY <1>0, <1>3, <1>a, <1>b, <2>1, <2>3
    DEF StorageSendItems, TypeOK, WireTypeOK, StorageTypeOK
  <2> QED
    BY <1>3, <2>2, <2>3 DEF StorageSendItems
<1>4. CASE StorageSendFail(s, t)
  BY <1>0, <1>4, <1>a, <1>b
  DEF StorageSendFail, StorageSendClose, TypeOK, WireTypeOK, StorageTypeOK
<1>5. CASE StorageSendKilled(s, t)
  <2>1. sfd' \in PerConn(BOOLEAN)
    BY <1>0, <1>5 DEF StorageSendKilled, WireTypeOK, PerConn
  <2>2. /\ sr' \in [Storage -> [SRecvThread -> SThread(SRecvPC)]]
        /\ ss' \in [Storage -> [SSendThread -> SSendState]]
    BY <1>0, <1>5, ThreadTypes, SendStates
    DEF StorageSendKilled, StorageTypeOK, SRecvPC
  <2> QED
    BY <1>0, <1>5, <2>1, <2>2
    DEF StorageSendKilled, TypeOK, WireTypeOK, StorageTypeOK
<1> QED
  BY <1>1, <1>2, <1>3, <1>4, <1>5 DEF StorageSend

(* A timeout of a storage thread.                                          *)
LEMMA StorageTimeoutType ==
  ASSUME TypeOK, NEW s \in Storage, StorageTimeout(s), UNCHANGED clientVars
  PROVE  TypeOK'
<1>0. WireTypeOK /\ StorageTypeOK /\ ClientTypeOK' /\ faults' \in Nat
  BY DEF TypeOK, ClientTypeOK, clientVars, StorageTimeout, TakeFault, WireTypeOK
<1>1. ASSUME NEW t \in SRecvThread, StorageRecvClose(s, t) PROVE TypeOK'
  <2>1. sr[s][t].c \in Client
    BY <1>0 DEF StorageTypeOK, SThread
  <2>2. sfd' \in PerConn(BOOLEAN) /\ srecving' \in PerConn(BOOLEAN)
    BY <1>0, <1>1, <2>1, Update
    DEF StorageRecvClose, WireTypeOK, StorageTypeOK, PerConn
  <2>3. sr' \in [Storage -> [SRecvThread -> SThread(SRecvPC)]]
    BY <1>0, <1>1, Update, ThreadTypes DEF StorageRecvClose, StorageTypeOK, SRecvPC
  <2> QED
    BY <1>0, <1>1, <2>2, <2>3
    DEF StorageRecvClose, TypeOK, WireTypeOK, StorageTypeOK
<1>2. ASSUME NEW t \in SSendThread, StorageSendClose(s, t) PROVE TypeOK'
  <2>1. ss[s][t].c \in Client
    BY <1>0 DEF StorageTypeOK, SSendState, SThread
  <2>2. sfd' \in PerConn(BOOLEAN) /\ ssending' \in PerConn(BOOLEAN)
    BY <1>0, <1>2, <2>1, Update
    DEF StorageSendClose, WireTypeOK, StorageTypeOK, PerConn
  <2>3. ss' \in [Storage -> [SSendThread -> SSendState]]
    BY <1>0, <1>2, Update, SendStates DEF StorageSendClose, StorageTypeOK
  <2> QED
    BY <1>0, <1>2, <2>2, <2>3
    DEF StorageSendClose, TypeOK, WireTypeOK, StorageTypeOK
<1> QED
  BY <1>1, <1>2 DEF StorageTimeout

(* A reset leaves a prefix of each stream.                                 *)
LEMMA ConnResetType ==
  ASSUME TypeOK, NEW c \in Client, NEW s \in Storage,
         ConnReset(c, s), UNCHANGED <<clientVars, storageVars>>
  PROVE  TypeOK'
<1>0. WireTypeOK /\ ClientTypeOK' /\ StorageTypeOK'
  BY DEF TypeOK, ClientTypeOK, clientVars, StorageTypeOK, storageVars
<1>1. \A q \in Seq(Unit), k \in Nat : k <= Len(q) => SubSeq(q, 1, k) \in Seq(Unit)
  OBVIOUS
<1>2. up[c][s] \in Seq(Unit) /\ down[c][s] \in Seq(Unit)
  BY <1>0 DEF WireTypeOK, PerConn
<1>3. PICK m \in 0 .. Len(up[c][s]), n \in 0 .. Len(down[c][s]) :
         /\ up' = [up EXCEPT ![c][s] = SubSeq(@, 1, m)]
         /\ down' = [down EXCEPT ![c][s] = SubSeq(@, 1, n)]
  BY DEF ConnReset
<1>4. SubSeq(up[c][s], 1, m) \in Seq(Unit) /\ SubSeq(down[c][s], 1, n) \in Seq(Unit)
  BY <1>1, <1>2
<1>5. up' \in PerConn(Seq(Unit)) /\ down' \in PerConn(Seq(Unit))
  BY <1>0, <1>3, <1>4, Update DEF WireTypeOK, PerConn
<1>6. reset' \in PerConn(BOOLEAN) /\ faults' \in Nat
  BY <1>0, Update DEF ConnReset, TakeFault, WireTypeOK, PerConn
<1> QED
  BY <1>0, <1>5, <1>6 DEF ConnReset, TypeOK, WireTypeOK

(* Every step keeps the types.                                             *)
LEMMA TypeNext == TypeOK /\ [Next]_vars => TypeOK'
<1> SUFFICES ASSUME TypeOK, [Next]_vars PROVE TypeOK'
  OBVIOUS
<1>1. ASSUME NEW c \in Client,
             ClientStep(c) \/ ClientTimeout(c) \/ MonitorServerLost(c),
             UNCHANGED storageVars
      PROVE  TypeOK'
  BY <1>1, ClientRecvType, ClientSendType, ClientMainType DEF ClientStep
<1>2. ASSUME NEW s \in Storage, StorageStep(s) \/ StorageTimeout(s),
             UNCHANGED clientVars
      PROVE  TypeOK'
  BY <1>2, StorageRecvType, StorageSendType, StorageTimeoutType DEF StorageStep
<1>3. ASSUME NEW c \in Client, NEW s \in Storage, ConnReset(c, s),
             UNCHANGED <<clientVars, storageVars>>
      PROVE  TypeOK'
  BY <1>3, ConnResetType
<1>4. CASE UNCHANGED vars
  BY <1>4 DEF TypeOK, WireTypeOK, ClientTypeOK, StorageTypeOK, vars, wireVars,
              clientVars, storageVars
<1> QED
  BY <1>1, <1>2, <1>3, <1>4 DEF Next, AtRest

(* Type correctness of the data phase, for every number of clients,        *)
(* storages and threads, every index and every capacity.                   *)
THEOREM TypeCorrect == Spec => []TypeOK
<1>1. Init => TypeOK
  BY TypeInit
<1>2. TypeOK /\ [Next]_vars => TypeOK'
  BY TypeNext
<1> QED
  BY <1>1, <1>2, PTL DEF Spec

-----------------------------------------------------------------------------
(* Exclusive access.  It is not inductive: that a thread has a connection  *)
(* to itself follows from the flag it found clear, so the flag has to be   *)
(* set as long as a thread is at work on the connection.                   *)

(* at[t] is the set of the connections thread t works on, lock the flags.  *)
Held(T, at, lock) ==
  /\ \A t \in T : \A d \in at[t] : lock[d]
  /\ \A t, u \in T : t # u => at[t] \cap at[u] = {}

(* What a step may do to them: end the work of all threads, nothing, or    *)
(* let one thread take a free connection, give back the one it has, or go  *)
(* on with it.                                                             *)
Turn(T, D, at, lock, at2, lock2) ==
  \/ \A t \in T : at2[t] = {}
  \/ /\ \A t \in T : at2[t] = at[t]
     /\ \A d \in D : lock2[d] = lock[d]
  \/ \E t \in T, d \in D :
       /\ \A u \in T \ {t} : at2[u] = at[u]
       /\ \A e \in D \ {d} : lock2[e] = lock[e]
       /\ \/ ~lock[d] /\ lock2[d] /\ at2[t] \subseteq {d}
          \/ at[t] = {d} /\ at2[t] = {}
          \/ lock2[d] = lock[d] /\ at2[t] \subseteq at[t]

(* Such a step leaves every flag with at most one holder.                  *)
LEMMA HeldTurn ==
  ASSUME NEW T, NEW D, NEW at \in [T -> SUBSET D], NEW lock, NEW at2, NEW lock2,
         Held(T, at, lock), Turn(T, D, at, lock, at2, lock2)
  PROVE  Held(T, at2, lock2)
<1>1. CASE \A t \in T : at2[t] = {}
  BY <1>1 DEF Held
<1>2. CASE /\ \A t \in T : at2[t] = at[t]
           /\ \A d \in D : lock2[d] = lock[d]
  BY <1>2 DEF Held
<1>3. ASSUME NEW t \in T, NEW d \in D,
             \A u \in T \ {t} : at2[u] = at[u],
             \A e \in D \ {d} : lock2[e] = lock[e],
             \/ ~lock[d] /\ lock2[d] /\ at2[t] \subseteq {d}
             \/ at[t] = {d} /\ at2[t] = {}
             \/ lock2[d] = lock[d] /\ at2[t] \subseteq at[t]
      PROVE  Held(T, at2, lock2)
  <2>1. CASE ~lock[d] /\ lock2[d] /\ at2[t] \subseteq {d}
    <3>1. \A u \in T : d \notin at[u]
      BY <2>1 DEF Held
    <3> QED
      BY <1>3, <2>1, <3>1 DEF Held
  <2>2. CASE at[t] = {d} /\ at2[t] = {}
    <3>1. \A u \in T \ {t} : d \notin at[u]
      BY <2>2 DEF Held
    <3> QED
      BY <1>3, <2>2, <3>1 DEF Held
  <2>3. CASE lock2[d] = lock[d] /\ at2[t] \subseteq at[t]
    BY <1>3, <2>3 DEF Held
  <2> QED
    BY <1>3, <2>1, <2>2, <2>3
<1> QED
  BY <1>1, <1>2, <1>3 DEF Turn

ClientReads(c) ==
  [t \in CRecvThread |-> IF Reading(cr[c][t]) THEN {cr[c][t].i} ELSE {}]

ClientWrites(c) ==
  [t \in CSendThread |-> IF Writing(cs[c][t]) THEN {cs[c][t].i} ELSE {}]

StorageReads(s) ==
  [t \in SRecvThread |-> IF Reading(sr[s][t]) THEN {sr[s][t].c} ELSE {}]

StorageWrites(s) ==
  [t \in SSendThread |-> IF Writing(ss[s][t]) THEN {ss[s][t].c} ELSE {}]

Flags(lock, s) == [c \in Client |-> lock[c][s]]

Locked ==
  /\ \A c \in Client : Held(CRecvThread, ClientReads(c), crecving[c])
  /\ \A c \in Client : Held(CSendThread, ClientWrites(c), csending[c])
  /\ \A s \in Storage : Held(SRecvThread, StorageReads(s), Flags(srecving, s))
  /\ \A s \in Storage : Held(SSendThread, StorageWrites(s), Flags(ssending, s))

(* At the start no thread holds a connection.                              *)
LEMMA LockedInit == Init => Locked
BY DEF Init, ClientInit, StorageInit, Locked, Held, ClientReads, ClientWrites,
       StorageReads, StorageWrites, Idle, At, SIdle, SAt, Reading, Writing

(* Flags that are held by one thread exclude the others.                   *)
LEMMA LockedExclusive == Locked => Exclusive
<1> SUFFICES ASSUME Locked PROVE Exclusive
  OBVIOUS
<1>1. ClientRecvExclusive
  BY DEF Locked, Held, ClientReads, ClientRecvExclusive
<1>2. ClientSendExclusive
  BY DEF Locked, Held, ClientWrites, ClientSendExclusive
<1>3. StorageRecvExclusive
  BY DEF Locked, Held, StorageReads, StorageRecvExclusive
<1>4. StorageSendExclusive
  BY DEF Locked, Held, StorageWrites, StorageSendExclusive
<1> QED
  BY <1>1, <1>2, <1>3, <1>4 DEF Exclusive

(* A step of a client leaves the threads and flags of the others alone.    *)
LEMMA ClientFrame ==
  ASSUME TypeOK, NEW c \in Client, NEW d \in Client \ {c},
         ClientStep(d) \/ ClientTimeout(d) \/ MonitorServerLost(d)
  PROVE  /\ cr'[c] = cr[c] /\ crecving'[c] = crecving[c]
         /\ cs'[c] = cs[c] /\ csending'[c] = csending[c]
<1>1. ASSUME NEW t \in CRecvThread, ClientRecv(d, t) \/ ClientRecvClose(d, t)
      PROVE  /\ cr'[c] = cr[c] /\ crecving'[c] = crecving[c]
             /\ cs'[c] = cs[c] /\ csending'[c] = csending[c]
  BY <1>1 DEF TypeOK, ClientTypeOK, PerConn, ClientRecv, ClientRecvBegin,
    ClientRecvHead, ClientRecvItems, ClientRecvCount, ClientRecvFail,
    ClientRecvClose, ClientRecvExit
<1>2. ASSUME NEW t \in CSendThread, ClientSend(d, t) \/ ClientSendClose(d, t)
      PROVE  /\ cr'[c] = cr[c] /\ crecving'[c] = crecving[c]
             /\ cs'[c] = cs[c] /\ csending'[c] = csending[c]
  BY <1>2 DEF TypeOK, ClientTypeOK, PerConn, ClientSend, ClientSendBegin,
    ClientSendRequest, ClientSendHead, ClientSendItems, ClientSendFail,
    ClientSendClose, ClientSendExit, ClientSendKilled, ClientDies
<1>3. ASSUME ClientMain(d) \/ MonitorServerLost(d)
      PROVE  /\ cr'[c] = cr[c] /\ crecving'[c] = crecving[c]
             /\ cs'[c] = cs[c] /\ csending'[c] = csending[c]
  BY <1>3 DEF TypeOK, ClientTypeOK, PerConn, ClientMain, MonitorScan,
    MonitorReport, ClientFinish, MonitorServerLost, ClientDies
<1> QED
  BY <1>1, <1>2, <1>3 DEF ClientStep, ClientTimeout

(* The receive threads of a client.                                        *)
LEMMA ClientRecvTurn ==
  ASSUME TypeOK, NEW c \in Client, [Next]_vars
  PROVE  Turn(CRecvThread, Storage, ClientReads(c), crecving[c],
              ClientReads(c)', crecving'[c])
<1>0. /\ cr \in [Client -> [CRecvThread -> Thread(RecvPC)]]
      /\ crecving \in [Client -> [Storage -> BOOLEAN]]
  BY DEF TypeOK, ClientTypeOK, PerConn
<1>a. \A t \in CRecvThread :
         /\ ClientReads(c)[t] = IF Reading(cr[c][t]) THEN {cr[c][t].i} ELSE {}
         /\ ClientReads(c)'[t] = IF Reading(cr'[c][t]) THEN {cr'[c][t].i} ELSE {}
         /\ cr[c][t].i \in Storage
  BY <1>0 DEF ClientReads, Reading, Thread
<1>b. ASSUME UNCHANGED <<cr, crecving>>
      PROVE  \A t \in CRecvThread, i \in Storage :
               cr'[c][t] = cr[c][t] /\ crecving'[c][i] = crecving[c][i]
  BY <1>b
(* The steps that leave the threads and flags of c alone.                  *)
<1>1. ASSUME cr'[c] = cr[c], crecving'[c] = crecving[c]
      PROVE  Turn(CRecvThread, Storage, ClientReads(c), crecving[c],
                  ClientReads(c)', crecving'[c])
  <2>1. /\ \A t \in CRecvThread : ClientReads(c)'[t] = ClientReads(c)[t]
        /\ \A k \in Storage : crecving'[c][k] = crecving[c][k]
    BY <1>1, <1>a
  <2> QED
    BY <2>1 DEF Turn
<1>d. ClientDies(c) => \A t \in CRecvThread : ~Reading(cr'[c][t])
  BY <1>0 DEF ClientDies, Exited, At, Reading
(* The steps after which no thread of c is reading.                        *)
<1>2. ASSUME \A t \in CRecvThread : ~Reading(cr'[c][t])
      PROVE  Turn(CRecvThread, Storage, ClientReads(c), crecving[c],
                  ClientReads(c)', crecving'[c])
  BY <1>2, <1>a DEF Turn
(* One receive thread of c works.                                          *)
<1>3. ASSUME NEW t \in CRecvThread, ClientRecv(c, t) \/ ClientRecvClose(c, t)
      PROVE  Turn(CRecvThread, Storage, ClientReads(c), crecving[c],
                  ClientReads(c)', crecving'[c])
  <2> DEFINE i == cr[c][t].i
  <2>0. i \in Storage
    BY <1>a
  <2>a. ASSUME NEW new, cr' = [cr EXCEPT ![c][t] = new]
        PROVE  cr'[c][t] = new /\ \A u \in CRecvThread \ {t} : cr'[c][u] = cr[c][u]
    BY <1>0, <2>a
  <2>b. ASSUME NEW k \in Storage, NEW v, crecving' = [crecving EXCEPT ![c][k] = v]
        PROVE  /\ crecving'[c][k] = v
               /\ \A e \in Storage \ {k} : crecving'[c][e] = crecving[c][e]
    BY <1>0, <2>b
  (* The thread takes connection k, gives its own back, or goes on.        *)
  <2>c. ASSUME NEW k \in Storage,
               \A u \in CRecvThread \ {t} : cr'[c][u] = cr[c][u],
               \A e \in Storage \ {k} : crecving'[c][e] = crecving[c][e],
               \/ ~crecving[c][k] /\ crecving'[c][k] /\ cr'[c][t].i = k
               \/ /\ Reading(cr[c][t]) /\ i = k /\ ~Reading(cr'[c][t])
               \/ /\ crecving'[c][k] = crecving[c][k]
                  /\ Reading(cr'[c][t]) => Reading(cr[c][t]) /\ cr'[c][t].i = i
        PROVE  Turn(CRecvThread, Storage, ClientReads(c), crecving[c],
                    ClientReads(c)', crecving'[c])
    <3>1. \A u \in CRecvThread \ {t} : ClientReads(c)'[u] = ClientReads(c)[u]
      BY <1>a, <2>c
    <3>2. \/ ~crecving[c][k] /\ crecving'[c][k] /\ ClientReads(c)'[t] \subseteq {k}
          \/ ClientReads(c)[t] = {k} /\ ClientReads(c)'[t] = {}
          \/ /\ crecving'[c][k] = crecving[c][k]
             /\ ClientReads(c)'[t] \subseteq ClientReads(c)[t]
      BY <1>a, <2>c
    <3> QED
      BY <2>c, <3>1, <3>2 DEF Turn
  <2>1. CASE ClientRecvBegin(c, t)
    <3>1. PICK k \in Storage :
             /\ ~crecving[c][k]
             /\ crecving' = [crecving EXCEPT ![c][k] = TRUE]
             /\ cr' = [cr EXCEPT ![c][t] = At("head", k, ItemsUnit(0))]
      BY <2>1 DEF ClientRecvBegin
    <3>2. At("head", k, ItemsUnit(0)).i = k
      BY DEF At
    <3>3. /\ cr'[c][t].i = k
          /\ \A u \in CRecvThread \ {t} : cr'[c][u] = cr[c][u]
      BY <2>a, <3>1, <3>2
    <3>4. /\ crecving'[c][k]
          /\ \A e \in Storage \ {k} : crecving'[c][e] = crecving[c][e]
      BY <2>b, <3>1
    <3> QED
      BY <2>c, <3>1, <3>3, <3>4
  <2>2. CASE ClientRecvHead(c, t) \/ ClientRecvItems(c, t)
    <3>1. /\ Reading(cr[c][t])
          /\ crecving' = crecving
          /\ \E pc, h : cr' = [cr EXCEPT ![c][t] = At(pc, i, h)]
      BY <2>2 DEF ClientRecvHead, ClientRecvItems, Reading
    <3>2. \A pc, h : At(pc, i, h).i = i
      BY DEF At
    <3> QED
      BY <2>0, <2>a, <2>c, <3>1, <3>2
  <2>3. CASE ClientRecvCount(c, t) \/ ClientRecvClose(c, t)
    <3>1. /\ Reading(cr[c][t])
          /\ crecving' = [crecving EXCEPT ![c][i] = FALSE]
          /\ cr' = [cr EXCEPT ![c][t] = Idle] \/ cr' = [cr EXCEPT ![c][t] = Exited]
      BY <2>3 DEF ClientRecvCount, ClientRecvClose, Reading
    <3>2. ~Reading(Idle) /\ ~Reading(Exited)
      BY DEF Idle, Exited, At, Reading
    <3>3. /\ ~Reading(cr'[c][t])
          /\ \A u \in CRecvThread \ {t} : cr'[c][u] = cr[c][u]
      BY <2>a, <3>1, <3>2
    <3>4. \A e \in Storage \ {i} : crecving'[c][e] = crecving[c][e]
      BY <2>0, <2>b, <3>1
    <3> QED
      BY <2>0, <2>c, <3>1, <3>3, <3>4
  <2>4. CASE ClientRecvExit(c, t)
    <3>1. /\ crecving' = crecving
          /\ cr' = [cr EXCEPT ![c][t] = Exited]
      BY <2>4 DEF ClientRecvExit
    <3>2. ~Reading(Exited)
      BY DEF Exited, At, Reading
    <3> QED
      BY <2>0, <2>a, <2>c, <3>1, <3>2
  <2> QED
    BY <1>3, <2>1, <2>2, <2>3, <2>4 DEF ClientRecv, ClientRecvFail
(* The rest of the client.                                                 *)
<1>4. ASSUME NEW t \in CSendThread, ClientSend(c, t) \/ ClientSendClose(c, t)
      PROVE  Turn(CRecvThread, Storage, ClientReads(c), crecving[c],
                  ClientReads(c)', crecving'[c])
  <2>1. CASE ClientSendKilled(c, t)
    BY <1>2, <1>d, <2>1 DEF ClientSendKilled
  <2>2. CASE ~ClientSendKilled(c, t)
    <3>1. UNCHANGED <<cr, crecving>>
      BY <1>4, <2>2 DEF ClientSend, ClientSendBegin, ClientSendRequest,
        ClientSendHead, ClientSendItems, ClientSendFail, ClientSendClose,
        ClientSendExit
    <3> QED
      BY <1>1, <3>1
  <2> QED
    BY <2>1, <2>2
<1>5. ASSUME ClientMain(c) \/ MonitorServerLost(c)
      PROVE  Turn(CRecvThread, Storage, ClientReads(c), crecving[c],
                  ClientReads(c)', crecving'[c])
  <2>1. CASE ClientDies(c)
    BY <1>2, <1>d, <2>1
  <2>2. CASE ClientFinish(c)
    <3>1. \A t \in CRecvThread : ~Reading(cr'[c][t])
      BY <2>2 DEF ClientFinish, Reading
    <3> QED
      BY <1>2, <3>1
  <2>3. CASE ~ClientDies(c) /\ ~ClientFinish(c)
    <3>1. UNCHANGED <<cr, crecving>>
      BY <1>5, <2>3 DEF ClientMain, MonitorScan, MonitorReport, MonitorServerLost
    <3> QED
      BY <1>1, <3>1
  <2> QED
    BY <2>1, <2>2, <2>3
<1>6. ASSUME NEW d \in Client, ClientStep(d) \/ ClientTimeout(d) \/ MonitorServerLost(d)
      PROVE  Turn(CRecvThread, Storage, ClientReads(c), crecving[c],
                  ClientReads(c)', crecving'[c])
  <2>1. CASE d = c
    BY <1>3, <1>4, <1>5, <1>6, <2>1 DEF ClientStep, ClientTimeout
  <2>2. CASE d # c
    BY <1>1, <1>6, <2>2, ClientFrame
  <2> QED
    BY <2>1, <2>2
<1>7. CASE UNCHANGED <<cr, crecving>>
  BY <1>1, <1>7
<1> QED
  BY <1>6, <1>7 DEF Next, AtRest, vars, clientVars

(* The send threads of a client.                                           *)
LEMMA ClientSendTurn ==
  ASSUME TypeOK, NEW c \in Client, [Next]_vars
  PROVE  Turn(CSendThread, Storage, ClientWrites(c), csending[c],
              ClientWrites(c)', csending'[c])
<1>0. /\ cs \in [Client -> [CSendThread -> Thread(SendPC)]]
      /\ csending \in [Client -> [Storage -> BOOLEAN]]
  BY DEF TypeOK, ClientTypeOK, PerConn
<1>a. \A t \in CSendThread :
         /\ ClientWrites(c)[t] = IF Writing(cs[c][t]) THEN {cs[c][t].i} ELSE {}
         /\ ClientWrites(c)'[t] = IF Writing(cs'[c][t]) THEN {cs'[c][t].i} ELSE {}
         /\ cs[c][t].i \in Storage
  BY <1>0 DEF ClientWrites, Writing, Thread
<1>b. ASSUME UNCHANGED <<cs, csending>>
      PROVE  \A t \in CSendThread, i \in Storage :
               cs'[c][t] = cs[c][t] /\ csending'[c][i] = csending[c][i]
  BY <1>b
(* The steps that leave the threads and flags of c alone.                  *)
<1>1. ASSUME cs'[c] = cs[c], csending'[c] = csending[c]
      PROVE  Turn(CSendThread, Storage, ClientWrites(c), csending[c],
                  ClientWrites(c)', csending'[c])
  <2>1. /\ \A t \in CSendThread : ClientWrites(c)'[t] = ClientWrites(c)[t]
        /\ \A k \in Storage : csending'[c][k] = csending[c][k]
    BY <1>1, <1>a
  <2> QED
    BY <2>1 DEF Turn
<1>d. ClientDies(c) => \A t \in CSendThread : ~Writing(cs'[c][t])
  BY <1>0 DEF ClientDies, Exited, At, Writing
(* The steps after which no thread of c is writing.                        *)
<1>2. ASSUME \A t \in CSendThread : ~Writing(cs'[c][t])
      PROVE  Turn(CSendThread, Storage, ClientWrites(c), csending[c],
                  ClientWrites(c)', csending'[c])
  BY <1>2, <1>a DEF Turn
(* One send thread of c works.                                             *)
<1>3. ASSUME NEW t \in CSendThread, ClientSend(c, t) \/ ClientSendClose(c, t)
      PROVE  Turn(CSendThread, Storage, ClientWrites(c), csending[c],
                  ClientWrites(c)', csending'[c])
  <2> DEFINE i == cs[c][t].i
  <2>0. i \in Storage
    BY <1>a
  <2>a. ASSUME NEW new, cs' = [cs EXCEPT ![c][t] = new]
        PROVE  cs'[c][t] = new /\ \A u \in CSendThread \ {t} : cs'[c][u] = cs[c][u]
    BY <1>0, <2>a
  <2>b. ASSUME NEW k \in Storage, NEW v, csending' = [csending EXCEPT ![c][k] = v]
        PROVE  /\ csending'[c][k] = v
               /\ \A e \in Storage \ {k} : csending'[c][e] = csending[c][e]
    BY <1>0, <2>b
  (* The thread takes connection k, gives its own back, or goes on.        *)
  <2>c. ASSUME NEW k \in Storage,
               \A u \in CSendThread \ {t} : cs'[c][u] = cs[c][u],
               \A e \in Storage \ {k} : csending'[c][e] = csending[c][e],
               \/ ~csending[c][k] /\ csending'[c][k] /\ cs'[c][t].i = k
               \/ /\ Writing(cs[c][t]) /\ i = k /\ ~Writing(cs'[c][t])
               \/ /\ csending'[c][k] = csending[c][k]
                  /\ Writing(cs'[c][t]) => Writing(cs[c][t]) /\ cs'[c][t].i = i
        PROVE  Turn(CSendThread, Storage, ClientWrites(c), csending[c],
                    ClientWrites(c)', csending'[c])
    <3>1. \A u \in CSendThread \ {t} : ClientWrites(c)'[u] = ClientWrites(c)[u]
      BY <1>a, <2>c
    <3>2. \/ ~csending[c][k] /\ csending'[c][k] /\ ClientWrites(c)'[t] \subseteq {k}
          \/ ClientWrites(c)[t] = {k} /\ ClientWrites(c)'[t] = {}
          \/ /\ csending'[c][k] = csending[c][k]
             /\ ClientWrites(c)'[t] \subseteq ClientWrites(c)[t]
      BY <1>a, <2>c
    <3> QED
      BY <2>c, <3>1, <3>2 DEF Turn
  <2>1. CASE ClientSendBegin(c, t)
    <3>1. PICK k \in Storage :
             /\ ~csending[c][k]
             /\ csending' = [csending EXCEPT ![c][k] = TRUE]
             /\ \/ \E j \in Storage : cs' = [cs EXCEPT ![c][t] =
                     At("request", k, HeadUnit(Read, j, heads[c][k][j]))]
                \/ cs' = [cs EXCEPT ![c][t] =
                     At("head", k, HeadUnit(Write, NoIndex, Chunk(buffered[c][k])))]
      BY <2>1 DEF ClientSendBegin
    <3>2. \A pc, h : At(pc, k, h).i = k
      BY DEF At
    <3>3. /\ cs'[c][t].i = k
          /\ \A u \in CSendThread \ {t} : cs'[c][u] = cs[c][u]
      <4>1. CASE cs' = [cs EXCEPT ![c][t] =
                   At("head", k, HeadUnit(Write, NoIndex, Chunk(buffered[c][k])))]
        BY <1>0, <3>2, <4>1
      <4>2. CASE \E j \in Storage : cs' = [cs EXCEPT ![c][t] =
                   At("request", k, HeadUnit(Read, j, heads[c][k][j]))]
        BY <1>0, <3>2, <4>2
      <4> QED
        BY <3>1, <4>1, <4>2
    <3>4. /\ csending'[c][k]
          /\ \A e \in Storage \ {k} : csending'[c][e] = csending[c][e]
      BY <2>b, <3>1
    <3> QED
      BY <2>c, <3>1, <3>3, <3>4
  <2>2. CASE ClientSendHead(c, t)
    <3>1. /\ Writing(cs[c][t])
          /\ csending' = csending
          /\ \E pc, h : cs' = [cs EXCEPT ![c][t] = At(pc, i, h)]
      BY <2>2 DEF ClientSendHead, Writing
    <3>2. \A pc, h : At(pc, i, h).i = i
      BY DEF At
    <3> QED
      BY <2>0, <2>a, <2>c, <3>1, <3>2
  <2>3. CASE ClientSendRequest(c, t) \/ ClientSendItems(c, t) \/ ClientSendClose(c, t)
    <3>1. /\ Writing(cs[c][t])
          /\ csending' = [csending EXCEPT ![c][i] = FALSE]
          /\ cs' = [cs EXCEPT ![c][t] = Idle] \/ cs' = [cs EXCEPT ![c][t] = Exited]
      BY <2>3 DEF ClientSendRequest, ClientSendItems, ClientSendClose, Writing
    <3>2. ~Writing(Idle) /\ ~Writing(Exited)
      BY DEF Idle, Exited, At, Writing
    <3>3. /\ ~Writing(cs'[c][t])
          /\ \A u \in CSendThread \ {t} : cs'[c][u] = cs[c][u]
      BY <2>a, <3>1, <3>2
    <3>4. \A e \in Storage \ {i} : csending'[c][e] = csending[c][e]
      BY <2>0, <2>b, <3>1
    <3> QED
      BY <2>0, <2>c, <3>1, <3>3, <3>4
  <2>4. CASE ClientSendExit(c, t)
    <3>1. /\ csending' = csending
          /\ cs' = [cs EXCEPT ![c][t] = Exited]
      BY <2>4 DEF ClientSendExit
    <3>2. ~Writing(Exited)
      BY DEF Exited, At, Writing
    <3> QED
      BY <2>0, <2>a, <2>c, <3>1, <3>2
  <2>5. CASE ClientSendKilled(c, t)
    BY <1>2, <1>d, <2>5 DEF ClientSendKilled
  <2> QED
    BY <1>3, <2>1, <2>2, <2>3, <2>4, <2>5 DEF ClientSend, ClientSendFail
(* The rest of the client.                                                 *)
<1>4. ASSUME NEW t \in CRecvThread, ClientRecv(c, t) \/ ClientRecvClose(c, t)
      PROVE  Turn(CSendThread, Storage, ClientWrites(c), csending[c],
                  ClientWrites(c)', csending'[c])
  <2>1. UNCHANGED <<cs, csending>>
    BY <1>4 DEF ClientRecv, ClientRecvBegin, ClientRecvHead, ClientRecvItems,
      ClientRecvCount, ClientRecvFail, ClientRecvClose, ClientRecvExit
  <2> QED
    BY <1>1, <2>1
<1>5. ASSUME ClientMain(c) \/ MonitorServerLost(c)
      PROVE  Turn(CSendThread, Storage, ClientWrites(c), csending[c],
                  ClientWrites(c)', csending'[c])
  <2>1. CASE ClientDies(c)
    BY <1>2, <1>d, <2>1
  <2>2. CASE ClientFinish(c)
    <3>1. \A t \in CSendThread : ~Writing(cs'[c][t])
      BY <2>2 DEF ClientFinish, Writing
    <3> QED
      BY <1>2, <3>1
  <2>3. CASE ~ClientDies(c) /\ ~ClientFinish(c)
    <3>1. UNCHANGED <<cs, csending>>
      BY <1>5, <2>3 DEF ClientMain, MonitorScan, MonitorReport, MonitorServerLost
    <3> QED
      BY <1>1, <3>1
  <2> QED
    BY <2>1, <2>2, <2>3
<1>6. ASSUME NEW d \in Client, ClientStep(d) \/ ClientTimeout(d) \/ MonitorServerLost(d)
      PROVE  Turn(CSendThread, Storage, ClientWrites(c), csending[c],
                  ClientWrites(c)', csending'[c])
  <2>1. CASE d = c
    BY <1>3, <1>4, <1>5, <1>6, <2>1 DEF ClientStep, ClientTimeout
  <2>2. CASE d # c
    BY <1>1, <1>6, <2>2, ClientFrame
  <2> QED
    BY <2>1, <2>2
<1>7. CASE UNCHANGED <<cs, csending>>
  BY <1>1, <1>7
<1> QED
  BY <1>6, <1>7 DEF Next, AtRest, vars, clientVars

(* A step of a storage leaves the threads and flags of the others alone.   *)
LEMMA StorageFrame ==
  ASSUME TypeOK, NEW s \in Storage, NEW d \in Storage \ {s},
         StorageStep(d) \/ StorageTimeout(d)
  PROVE  /\ sr'[s] = sr[s] /\ ss'[s] = ss[s]
         /\ \A c \in Client : /\ srecving'[c][s] = srecving[c][s]
                              /\ ssending'[c][s] = ssending[c][s]
<1>0. /\ sr \in [Storage -> [SRecvThread -> SThread(SRecvPC)]]
      /\ ss \in [Storage -> [SSendThread -> SSendState]]
      /\ srecving \in [Client -> [Storage -> BOOLEAN]]
      /\ ssending \in [Client -> [Storage -> BOOLEAN]]
  BY DEF TypeOK, StorageTypeOK, PerConn
<1>1. ASSUME NEW t \in SRecvThread, StorageRecv(d, t) \/ StorageRecvClose(d, t)
      PROVE  /\ sr'[s] = sr[s] /\ ss'[s] = ss[s]
             /\ \A c \in Client : /\ srecving'[c][s] = srecving[c][s]
                                  /\ ssending'[c][s] = ssending[c][s]
  <2>1. /\ sr'[s] = sr[s] /\ ss' = ss /\ ssending' = ssending
    BY <1>0, <1>1 DEF StorageRecv, StorageRecvBegin, StorageRecvRequest,
      StorageRecvHead, StorageRecvItems, StorageRecvFail, StorageRecvClose
  <2>2. \/ srecving' = srecving
        \/ \E c \in Client, v \in BOOLEAN : srecving' = [srecving EXCEPT ![c][d] = v]
    <3>1. sr[d][t].c \in Client
      BY <1>0 DEF SThread
    <3> QED
      BY <1>1, <3>1 DEF StorageRecv, StorageRecvBegin, StorageRecvRequest,
        StorageRecvHead, StorageRecvItems, StorageRecvFail, StorageRecvClose
  <2>3. \A c \in Client : srecving'[c][s] = srecving[c][s]
    <3>1. CASE \E c \in Client, v \in BOOLEAN : srecving' = [srecving EXCEPT ![c][d] = v]
      BY <1>0, <3>1
    <3> QED
      BY <2>2, <3>1
  <2> QED
    BY <2>1, <2>3
<1>2. ASSUME NEW t \in SSendThread, StorageSend(d, t) \/ StorageSendClose(d, t)
      PROVE  /\ sr'[s] = sr[s] /\ ss'[s] = ss[s]
             /\ \A c \in Client : /\ srecving'[c][s] = srecving[c][s]
                                  /\ ssending'[c][s] = ssending[c][s]
  <2>1. /\ sr'[s] = sr[s] /\ ss'[s] = ss[s] /\ srecving' = srecving
    BY <1>0, <1>2 DEF StorageSend, StorageSendBegin, StorageSendHead,
      StorageSendItems, StorageSendFail, StorageSendClose, StorageSendKilled,
      TakeChunk
  <2>2. \/ ssending' = ssending
        \/ \E c \in Client, v \in BOOLEAN : ssending' = [ssending EXCEPT ![c][d] = v]
    <3>1. ss[d][t].c \in Client
      BY <1>0 DEF SSendState, SThread
    <3> QED
      BY <1>2, <3>1 DEF StorageSend, StorageSendBegin, StorageSendHead,
        StorageSendItems, StorageSendFail, StorageSendClose, StorageSendKilled
  <2>3. \A c \in Client : ssending'[c][s] = ssending[c][s]
    <3>1. CASE \E c \in Client, v \in BOOLEAN : ssending' = [ssending EXCEPT ![c][d] = v]
      BY <1>0, <3>1
    <3> QED
      BY <2>2, <3>1
  <2> QED
    BY <2>1, <2>3
<1> QED
  BY <1>1, <1>2 DEF StorageStep, StorageTimeout

(* The receive threads of a storage.                        *)
LEMMA StorageRecvTurn ==
  ASSUME TypeOK, NEW s \in Storage, [Next]_vars
  PROVE  Turn(SRecvThread, Client, StorageReads(s), Flags(srecving, s),
              StorageReads(s)', Flags(srecving, s)')
<1>0. /\ sr \in [Storage -> [SRecvThread -> SThread(SRecvPC)]]
      /\ srecving \in [Client -> [Storage -> BOOLEAN]]
  BY DEF TypeOK, StorageTypeOK, PerConn
<1>a. /\ \A t \in SRecvThread :
           /\ StorageReads(s)[t] = IF Reading(sr[s][t]) THEN {sr[s][t].c} ELSE {}
           /\ StorageReads(s)'[t] = IF Reading(sr'[s][t]) THEN {sr'[s][t].c} ELSE {}
           /\ sr[s][t].c \in Client
      /\ \A c \in Client : /\ Flags(srecving, s)[c] = srecving[c][s]
                           /\ Flags(srecving, s)'[c] = srecving'[c][s]
  BY <1>0 DEF StorageReads, Flags, Reading, SThread
(* The steps that leave the threads and flags of s alone.                  *)
<1>1. ASSUME sr'[s] = sr[s], \A c \in Client : srecving'[c][s] = srecving[c][s]
      PROVE  Turn(SRecvThread, Client, StorageReads(s), Flags(srecving, s),
                  StorageReads(s)', Flags(srecving, s)')
  <2>1. /\ \A t \in SRecvThread : StorageReads(s)'[t] = StorageReads(s)[t]
        /\ \A c \in Client : Flags(srecving, s)'[c] = Flags(srecving, s)[c]
    BY <1>1, <1>a
  <2> QED
    BY <2>1 DEF Turn
(* The death of the storage.                                               *)
<1>2. ASSUME NEW u \in SSendThread, StorageSendKilled(s, u)
      PROVE  Turn(SRecvThread, Client, StorageReads(s), Flags(srecving, s),
                  StorageReads(s)', Flags(srecving, s)')
  <2>1. \A t \in SRecvThread : ~Reading(sr'[s][t])
    BY <1>0, <1>2 DEF StorageSendKilled, SDead, SAt, Reading
  <2> QED
    BY <1>a, <2>1 DEF Turn
(* One receive thread of s works.                              *)
<1>3. ASSUME NEW t \in SRecvThread, StorageRecv(s, t) \/ StorageRecvClose(s, t)
      PROVE  Turn(SRecvThread, Client, StorageReads(s), Flags(srecving, s),
                  StorageReads(s)', Flags(srecving, s)')
  <2> DEFINE i == sr[s][t].c
  <2>0. i \in Client
    BY <1>a
  <2>a. ASSUME NEW new, sr' = [sr EXCEPT ![s][t] = new]
        PROVE  sr'[s][t] = new /\ \A u \in SRecvThread \ {t} : sr'[s][u] = sr[s][u]
    BY <1>0, <2>a
  <2>b. ASSUME NEW k \in Client, NEW v, srecving' = [srecving EXCEPT ![k][s] = v]
        PROVE  /\ srecving'[k][s] = v
               /\ \A e \in Client \ {k} : srecving'[e][s] = srecving[e][s]
    BY <1>0, <2>b
  (* The thread takes the connection of k, gives its own back, or goes on. *)
  <2>c. ASSUME NEW k \in Client,
               \A u \in SRecvThread \ {t} : sr'[s][u] = sr[s][u],
               \A e \in Client \ {k} : srecving'[e][s] = srecving[e][s],
               \/ ~srecving[k][s] /\ srecving'[k][s] /\ sr'[s][t].c = k
               \/ /\ Reading(sr[s][t]) /\ i = k /\ ~Reading(sr'[s][t])
               \/ /\ srecving'[k][s] = srecving[k][s]
                  /\ Reading(sr'[s][t]) => Reading(sr[s][t]) /\ sr'[s][t].c = i
        PROVE  Turn(SRecvThread, Client, StorageReads(s), Flags(srecving, s),
                    StorageReads(s)', Flags(srecving, s)')
    <3>1. /\ \A u \in SRecvThread \ {t} : StorageReads(s)'[u] = StorageReads(s)[u]
          /\ \A e \in Client \ {k} : Flags(srecving, s)'[e] = Flags(srecving, s)[e]
      BY <1>a, <2>c
    <3>2. \/ /\ ~Flags(srecving, s)[k] /\ Flags(srecving, s)'[k]
             /\ StorageReads(s)'[t] \subseteq {k}
          \/ StorageReads(s)[t] = {k} /\ StorageReads(s)'[t] = {}
          \/ /\ Flags(srecving, s)'[k] = Flags(srecving, s)[k]
             /\ StorageReads(s)'[t] \subseteq StorageReads(s)[t]
      BY <1>a, <2>c
    <3> QED
      BY <3>1, <3>2 DEF Turn
  <2>1. CASE StorageRecvBegin(s, t)
    <3>1. PICK k \in Client :
             /\ ~srecving[k][s]
             /\ srecving' = [srecving EXCEPT ![k][s] = TRUE]
             /\ sr' = [sr EXCEPT ![s][t] = SAt("head", k, ItemsUnit(0))]
      BY <2>1 DEF StorageRecvBegin
    <3>2. \A pc, h : SAt(pc, k, h).c = k
      BY DEF SAt
    <3>3. /\ sr'[s][t].c = k
          /\ \A u \in SRecvThread \ {t} : sr'[s][u] = sr[s][u]
      BY <1>0, <3>1, <3>2
    <3>4. /\ srecving'[k][s]
          /\ \A e \in Client \ {k} : srecving'[e][s] = srecving[e][s]
      BY <2>b, <3>1
    <3> QED
      BY <2>c, <3>1, <3>3, <3>4
  <2>2. CASE StorageRecvHead(s, t)
    <3>1. /\ Reading(sr[s][t])
          /\ srecving' = srecving
          /\ \E pc, h : sr' = [sr EXCEPT ![s][t] = SAt(pc, i, h)]
      BY <2>2 DEF StorageRecvHead, Reading
    <3>2. \A pc, h : SAt(pc, i, h).c = i
      BY DEF SAt
    <3> QED
      BY <2>0, <2>a, <2>c, <3>1, <3>2
  <2>3. CASE StorageRecvRequest(s, t) \/ StorageRecvClose(s, t)
    <3>1. /\ Reading(sr[s][t])
          /\ srecving' = [srecving EXCEPT ![i][s] = FALSE]
          /\ sr' = [sr EXCEPT ![s][t] = SIdle]
      BY <2>3 DEF StorageRecvRequest, StorageRecvClose, Reading
    <3>2. ~Reading(SIdle)
      BY DEF SIdle, SAt, Reading
    <3>3. /\ ~Reading(sr'[s][t])
          /\ \A u \in SRecvThread \ {t} : sr'[s][u] = sr[s][u]
      BY <2>a, <3>1, <3>2
    <3>4. \A e \in Client \ {i} : srecving'[e][s] = srecving[e][s]
      BY <2>0, <2>b, <3>1
    <3> QED
      BY <2>0, <2>c, <3>1, <3>3, <3>4
  <2>4. CASE StorageRecvItems(s, t)
    <3>1. /\ Reading(sr[s][t])
          /\ \/ /\ srecving' = [srecving EXCEPT ![i][s] = FALSE]
                /\ sr' = [sr EXCEPT ![s][t] = SIdle]
             \/ /\ srecving' = srecving
                /\ sr' = [sr EXCEPT ![s][t] = SAt("garbled", i, Head(up[i][s]))]
      BY <2>4 DEF StorageRecvItems, Reading
    <3>2. ~Reading(SIdle) /\ ~Reading(SAt("garbled", i, Head(up[i][s])))
      BY DEF SIdle, SAt, Reading
    <3>3. /\ ~Reading(sr'[s][t])
          /\ \A u \in SRecvThread \ {t} : sr'[s][u] = sr[s][u]
      BY <1>0, <3>1, <3>2
    <3>4. \A e \in Client \ {i} : srecving'[e][s] = srecving[e][s]
      BY <1>0, <2>0, <3>1
    <3> QED
      BY <2>0, <2>c, <3>1, <3>3, <3>4
  <2> QED
    BY <1>3, <2>1, <2>2, <2>3, <2>4 DEF StorageRecv, StorageRecvFail
(* The rest of the storage.                                                *)
<1>4. ASSUME NEW t \in SSendThread, StorageSend(s, t) \/ StorageSendClose(s, t)
      PROVE  Turn(SRecvThread, Client, StorageReads(s), Flags(srecving, s),
                  StorageReads(s)', Flags(srecving, s)')
  <2>1. CASE \E u \in SSendThread : StorageSendKilled(s, u)
    BY <1>2, <2>1
  <2>2. CASE \A u \in SSendThread : ~StorageSendKilled(s, u)
    <3>1. UNCHANGED <<sr, srecving>>
      BY <1>4, <2>2 DEF StorageSend, StorageSendBegin, StorageSendHead,
        StorageSendItems, StorageSendFail, StorageSendClose
    <3> QED
      BY <1>1, <3>1
  <2> QED
    BY <2>1, <2>2
<1>5. ASSUME NEW d \in Storage, StorageStep(d) \/ StorageTimeout(d)
      PROVE  Turn(SRecvThread, Client, StorageReads(s), Flags(srecving, s),
                  StorageReads(s)', Flags(srecving, s)')
  <2>1. CASE d = s
    BY <1>3, <1>4, <1>5, <2>1 DEF StorageStep, StorageTimeout
  <2>2. CASE d # s
    BY <1>1, <1>5, <2>2, StorageFrame
  <2> QED
    BY <2>1, <2>2
<1>6. CASE UNCHANGED <<sr, srecving>>
  BY <1>1, <1>6
<1> QED
  BY <1>5, <1>6 DEF Next, AtRest, vars, storageVars

(* The send threads of a storage.                           *)
LEMMA StorageSendTurn ==
  ASSUME TypeOK, NEW s \in Storage, [Next]_vars
  PROVE  Turn(SSendThread, Client, StorageWrites(s), Flags(ssending, s),
              StorageWrites(s)', Flags(ssending, s)')
<1>0. /\ ss \in [Storage -> [SSendThread -> SSendState]]
      /\ ssending \in [Client -> [Storage -> BOOLEAN]]
  BY DEF TypeOK, StorageTypeOK, PerConn
<1>a. /\ \A t \in SSendThread :
           /\ StorageWrites(s)[t] = IF Writing(ss[s][t]) THEN {ss[s][t].c} ELSE {}
           /\ StorageWrites(s)'[t] = IF Writing(ss'[s][t]) THEN {ss'[s][t].c} ELSE {}
           /\ ss[s][t].c \in Client
      /\ \A c \in Client : /\ Flags(ssending, s)[c] = ssending[c][s]
                           /\ Flags(ssending, s)'[c] = ssending'[c][s]
  BY <1>0 DEF StorageWrites, Flags, Writing, SThread, SSendState
(* The steps that leave the threads and flags of s alone.                  *)
<1>1. ASSUME ss'[s] = ss[s], \A c \in Client : ssending'[c][s] = ssending[c][s]
      PROVE  Turn(SSendThread, Client, StorageWrites(s), Flags(ssending, s),
                  StorageWrites(s)', Flags(ssending, s)')
  <2>1. /\ \A t \in SSendThread : StorageWrites(s)'[t] = StorageWrites(s)[t]
        /\ \A c \in Client : Flags(ssending, s)'[c] = Flags(ssending, s)[c]
    BY <1>1, <1>a
  <2> QED
    BY <2>1 DEF Turn
(* The death of the storage.                                               *)
<1>2. ASSUME NEW u \in SSendThread, StorageSendKilled(s, u)
      PROVE  Turn(SSendThread, Client, StorageWrites(s), Flags(ssending, s),
                  StorageWrites(s)', Flags(ssending, s)')
  <2>1. \A t \in SSendThread : ~Writing(ss'[s][t])
    BY <1>0, <1>2 DEF StorageSendKilled, SDead, SAt, Writing
  <2> QED
    BY <1>a, <2>1 DEF Turn
(* One send thread of s works.                                 *)
<1>3. ASSUME NEW t \in SSendThread, StorageSend(s, t) \/ StorageSendClose(s, t)
      PROVE  Turn(SSendThread, Client, StorageWrites(s), Flags(ssending, s),
                  StorageWrites(s)', Flags(ssending, s)')
  <2> DEFINE i == ss[s][t].c
  <2>0. i \in Client
    BY <1>a
  <2>a. ASSUME NEW new, ss' = [ss EXCEPT ![s][t] = new]
        PROVE  ss'[s][t] = new /\ \A u \in SSendThread \ {t} : ss'[s][u] = ss[s][u]
    BY <1>0, <2>a
  <2>b. ASSUME NEW k \in Client, NEW v, ssending' = [ssending EXCEPT ![k][s] = v]
        PROVE  /\ ssending'[k][s] = v
               /\ \A e \in Client \ {k} : ssending'[e][s] = ssending[e][s]
    BY <1>0, <2>b
  (* The thread takes the connection of k, gives its own back, or goes on. *)
  <2>c. ASSUME NEW k \in Client,
               \A u \in SSendThread \ {t} : ss'[s][u] = ss[s][u],
               \A e \in Client \ {k} : ssending'[e][s] = ssending[e][s],
               \/ ~ssending[k][s] /\ ssending'[k][s] /\ ss'[s][t].c = k
               \/ /\ Writing(ss[s][t]) /\ i = k /\ ~Writing(ss'[s][t])
               \/ /\ ssending'[k][s] = ssending[k][s]
                  /\ Writing(ss'[s][t]) => Writing(ss[s][t]) /\ ss'[s][t].c = i
        PROVE  Turn(SSendThread, Client, StorageWrites(s), Flags(ssending, s),
                    StorageWrites(s)', Flags(ssending, s)')
    <3>1. /\ \A u \in SSendThread \ {t} : StorageWrites(s)'[u] = StorageWrites(s)[u]
          /\ \A e \in Client \ {k} : Flags(ssending, s)'[e] = Flags(ssending, s)[e]
      BY <1>a, <2>c
    <3>2. \/ /\ ~Flags(ssending, s)[k] /\ Flags(ssending, s)'[k]
             /\ StorageWrites(s)'[t] \subseteq {k}
          \/ StorageWrites(s)[t] = {k} /\ StorageWrites(s)'[t] = {}
          \/ /\ Flags(ssending, s)'[k] = Flags(ssending, s)[k]
             /\ StorageWrites(s)'[t] \subseteq StorageWrites(s)[t]
      BY <1>a, <2>c
    <3> QED
      BY <3>1, <3>2 DEF Turn
  <2>1. CASE StorageSendBegin(s, t)
    <3>1. PICK k \in Client :
             /\ ~ssending[k][s]
             /\ ssending' = [ssending EXCEPT ![k][s] = TRUE]
             /\ \E j \in Storage : ss' = [ss EXCEPT ![s][t] =
                  SAt("head", k, HeadUnit(Write, j, Chunk(replies[k][s][j])))]
      BY <2>1 DEF StorageSendBegin, TakeChunk
    <3>2. \A pc, h : SAt(pc, k, h).c = k
      BY DEF SAt
    <3>3. /\ ss'[s][t].c = k
          /\ \A u \in SSendThread \ {t} : ss'[s][u] = ss[s][u]
      BY <1>0, <3>1, <3>2
    <3>4. /\ ssending'[k][s]
          /\ \A e \in Client \ {k} : ssending'[e][s] = ssending[e][s]
      BY <2>b, <3>1
    <3> QED
      BY <2>c, <3>1, <3>3, <3>4
  <2>2. CASE StorageSendHead(s, t)
    <3>1. /\ Writing(ss[s][t])
          /\ ssending' = ssending
          /\ \E pc, h : ss' = [ss EXCEPT ![s][t] = SAt(pc, i, h)]
      BY <2>2 DEF StorageSendHead, Writing
    <3>2. \A pc, h : SAt(pc, i, h).c = i
      BY DEF SAt
    <3> QED
      BY <2>0, <2>a, <2>c, <3>1, <3>2
  <2>3. CASE StorageSendClose(s, t)
    <3>1. /\ Writing(ss[s][t])
          /\ ssending' = [ssending EXCEPT ![i][s] = FALSE]
          /\ ss' = [ss EXCEPT ![s][t] = SIdle]
      BY <2>3 DEF StorageSendClose, Writing
    <3>2. ~Writing(SIdle)
      BY DEF SIdle, SAt, Writing
    <3>3. /\ ~Writing(ss'[s][t])
          /\ \A u \in SSendThread \ {t} : ss'[s][u] = ss[s][u]
      BY <2>a, <3>1, <3>2
    <3>4. \A e \in Client \ {i} : ssending'[e][s] = ssending[e][s]
      BY <2>0, <2>b, <3>1
    <3> QED
      BY <2>0, <2>c, <3>1, <3>3, <3>4
  <2>4. CASE StorageSendItems(s, t)
    <3>1. CASE /\ TakeChunk(s, t, i, ss[s][t].h.index)
               /\ UNCHANGED ssending
      <4>1. ss' = [ss EXCEPT ![s][t] = SAt("head", i, HeadUnit(Write, ss[s][t].h.index,
                     Chunk(replies[i][s][ss[s][t].h.index])))]
        BY <3>1 DEF TakeChunk
      <4>2. \A h : SAt("head", i, h).c = i
        BY DEF SAt
      <4>3. /\ ss'[s][t].c = i
            /\ \A u \in SSendThread \ {t} : ss'[s][u] = ss[s][u]
        BY <1>0, <4>1, <4>2
      <4>4. Writing(ss[s][t])
        BY <2>4 DEF StorageSendItems, Writing
      <4> QED
        BY <2>0, <2>c, <3>1, <4>3, <4>4
    <3>2. CASE /\ ssending' = [ssending EXCEPT ![i][s] = FALSE]
               /\ ss' = [ss EXCEPT ![s][t] = SIdle]
      <4>1. Writing(ss[s][t]) /\ ~Writing(SIdle)
        BY <2>4 DEF StorageSendItems, SIdle, SAt, Writing
      <4>2. /\ ~Writing(ss'[s][t])
            /\ \A u \in SSendThread \ {t} : ss'[s][u] = ss[s][u]
        BY <1>0, <3>2, <4>1
      <4>3. \A e \in Client \ {i} : ssending'[e][s] = ssending[e][s]
        BY <2>0, <2>b, <3>2
      <4> QED
        BY <2>0, <2>c, <4>1, <4>2, <4>3
    <3> QED
      BY <2>4, <3>1, <3>2 DEF StorageSendItems
  <2>5. CASE StorageSendKilled(s, t)
    BY <1>2, <2>5
  <2> QED
    BY <1>3, <2>1, <2>2, <2>3, <2>4, <2>5 DEF StorageSend, StorageSendFail
(* The rest of the storage.                                                *)
<1>4. ASSUME NEW t \in SRecvThread, StorageRecv(s, t) \/ StorageRecvClose(s, t)
      PROVE  Turn(SSendThread, Client, StorageWrites(s), Flags(ssending, s),
                  StorageWrites(s)', Flags(ssending, s)')
  <2>1. CASE \E u \in SSendThread : StorageSendKilled(s, u)
    BY <1>2, <2>1
  <2>2. CASE \A u \in SSendThread : ~StorageSendKilled(s, u)
    <3>1. UNCHANGED <<ss, ssending>>
      BY <1>4, <2>2 DEF StorageRecv, StorageRecvBegin, StorageRecvRequest,
        StorageRecvHead, StorageRecvItems, StorageRecvFail, StorageRecvClose
    <3> QED
      BY <1>1, <3>1
  <2> QED
    BY <2>1, <2>2
<1>5. ASSUME NEW d \in Storage, StorageStep(d) \/ StorageTimeout(d)
      PROVE  Turn(SSendThread, Client, StorageWrites(s), Flags(ssending, s),
                  StorageWrites(s)', Flags(ssending, s)')
  <2>1. CASE d = s
    BY <1>3, <1>4, <1>5, <2>1 DEF StorageStep, StorageTimeout
  <2>2. CASE d # s
    BY <1>1, <1>5, <2>2, StorageFrame
  <2> QED
    BY <2>1, <2>2
<1>6. CASE UNCHANGED <<ss, ssending>>
  BY <1>1, <1>6
<1> QED
  BY <1>5, <1>6 DEF Next, AtRest, vars, storageVars

(* Every step keeps the flags with their holders.                          *)
LEMMA LockedNext == TypeOK /\ Locked /\ [Next]_vars => Locked'
<1> SUFFICES ASSUME TypeOK, Locked, [Next]_vars PROVE Locked'
  OBVIOUS
<1>1. TypeOK'
  BY TypeNext
<1>2. ASSUME NEW c \in Client
      PROVE  Held(CRecvThread, ClientReads(c), crecving[c])'
  <2>1. ClientReads(c) \in [CRecvThread -> SUBSET Storage]
    BY DEF TypeOK, ClientTypeOK, ClientReads, Thread, Reading
  <2> QED
    BY <1>2, <2>1, ClientRecvTurn, HeldTurn DEF Locked
<1>3. ASSUME NEW c \in Client
      PROVE  Held(CSendThread, ClientWrites(c), csending[c])'
  <2>1. ClientWrites(c) \in [CSendThread -> SUBSET Storage]
    BY DEF TypeOK, ClientTypeOK, ClientWrites, Thread, Writing
  <2> QED
    BY <1>3, <2>1, ClientSendTurn, HeldTurn DEF Locked
<1>4. ASSUME NEW s \in Storage
      PROVE  Held(SRecvThread, StorageReads(s), Flags(srecving, s))'
  <2>1. StorageReads(s) \in [SRecvThread -> SUBSET Client]
    BY DEF TypeOK, StorageTypeOK, StorageReads, SThread, Reading
  <2> QED
    BY <1>4, <2>1, StorageRecvTurn, HeldTurn DEF Locked
<1>5. ASSUME NEW s \in Storage
      PROVE  Held(SSendThread, StorageWrites(s), Flags(ssending, s))'
  <2>1. StorageWrites(s) \in [SSendThread -> SUBSET Client]
    BY DEF TypeOK, StorageTypeOK, StorageWrites, SSendState, SThread, Writing
  <2> QED
    BY <1>5, <2>1, StorageSendTurn, HeldTurn DEF Locked
<1> QED
  BY <1>2, <1>3, <1>4, <1>5 DEF Locked

(* No two threads ever read, or write, the same connection, for every      *)
(* number of clients, storages and threads.                                *)
THEOREM ExclusiveAccess == Spec => []Exclusive
<1>1. Init => TypeOK /\ Locked
  BY TypeInit, LockedInit
<1>2. TypeOK /\ Locked /\ [Next]_vars => TypeOK' /\ Locked'
  BY TypeNext, LockedNext
<1>3. Locked => Exclusive
  BY LockedExclusive
<1> QED
  BY <1>1, <1>2, <1>3, PTL DEF Spec

-----------------------------------------------------------------------------
(* Framing.                                                                *)

(* What a client may send as a head, and what a storage may.               *)
UpHeads ==
  {u \in Unit : u.kind = "head" /\ (u.type = Write \/ u.index \in Storage)}

DownHeads ==
  {u \in Unit : u.kind = "head" /\ u.type = Write /\ u.index \in Storage}

(* The heads at work on a stream: of those whose items are still to come,  *)
(* after unit u.                                                           *)
Opened(u) == IF u.kind = "head" /\ u.type = Write THEN {u} ELSE {}

(* Unit u may follow: a head of H, or the items of the head that is open.  *)
Follows(H, open, u) ==
  \/ open = {} /\ u \in H
  \/ \E d \in open : u = ItemsUnit(d.count)

(* Stream q is framed, when its reader still awaits the items of due, and, *)
(* as long as its writer lives, the writer owes the items of its last head.*)
Line(H, q, due, owed, live) ==
  /\ \A k \in DOMAIN q : Follows(H, IF k = 1 THEN due ELSE Opened(q[k - 1]), q[k])
  /\ live => owed = IF q = <<>> THEN due ELSE Opened(q[Len(q)])

(* The heads whose items the threads of storage s are to read from client  *)
(* c, those of the client are to write to it, and the same for the streams *)
(* from the storage.                                                       *)
Due(th, i) == IF th.pc = "items" /\ th.i = i THEN {th.h} ELSE {}
SDue(th, c) == IF th.pc = "items" /\ th.c = c THEN {th.h} ELSE {}

UpDue(c, s) == UNION {SDue(sr[s][t], c) : t \in SRecvThread}
UpOwed(c, s) == UNION {Due(cs[c][t], s) : t \in CSendThread}
DownDue(c, s) == UNION {Due(cr[c][t], s) : t \in CRecvThread}
DownOwed(c, s) == UNION {SDue(ss[s][t], c) : t \in SSendThread}

UpLine(c, s) ==
  sfd[c][s] => Line(UpHeads, up[c][s], UpDue(c, s), UpOwed(c, s),
                    cfd[c][s] /\ ~reset[c][s])

DownLine(c, s) ==
  cfd[c][s] => Line(DownHeads, down[c][s], DownDue(c, s), DownOwed(c, s),
                    sfd[c][s] /\ ~reset[c][s])

(* What the threads have in their hands.                                   *)
RecvHands(th) == th.pc # "garbled" /\ (th.pc = "items" => th.h \in DownHeads)

SendHands(th) ==
  /\ th.pc = "request" => th.h \in UpHeads /\ Opened(th.h) = {}
  /\ th.pc \in {"head", "items"} => th.h \in UpHeads /\ th.h.type = Write

SRecvHands(th) ==
  th.pc # "garbled" /\ (th.pc = "items" => th.h \in UpHeads /\ th.h.type = Write)

SSendHands(th) == th.pc \in {"head", "items"} => th.h \in DownHeads

Hands ==
  /\ \A c \in Client : /\ \A t \in CRecvThread : RecvHands(cr[c][t])
                       /\ \A t \in CSendThread : SendHands(cs[c][t])
  /\ \A s \in Storage : /\ \A t \in SRecvThread : SRecvHands(sr[s][t])
                        /\ \A t \in SSendThread : SSendHands(ss[s][t])

Lines == \A c \in Client, s \in Storage : UpLine(c, s) /\ DownLine(c, s)

FInv == TypeOK /\ Locked /\ Hands /\ Lines

-----------------------------------------------------------------------------
(* Streams.                                                                *)

(* The unit at the head of a framed stream is the one the reader awaits,   *)
(* and what it leaves is framed.                                           *)
LEMMA LinePop ==
  ASSUME NEW H \in SUBSET Unit, NEW q \in Seq(Unit), NEW due, NEW owed, NEW live,
         Line(H, q, due, owed, live), q # <<>>
  PROVE  /\ Follows(H, due, Head(q))
         /\ Line(H, Tail(q), Opened(Head(q)), owed, live)
<1>1. /\ Len(q) \in Nat \ {0} /\ DOMAIN q = 1 .. Len(q) /\ Head(q) = q[1]
      /\ Tail(q) \in Seq(Unit) /\ Len(Tail(q)) = Len(q) - 1
      /\ DOMAIN Tail(q) = 1 .. Len(q) - 1
      /\ \A k \in 1 .. Len(q) - 1 : Tail(q)[k] = q[k + 1]
  OBVIOUS
<1>2. \A k \in 1 .. Len(q) :
         Follows(H, IF k = 1 THEN due ELSE Opened(q[k - 1]), q[k])
  BY <1>1 DEF Line
<1>3. Follows(H, due, Head(q))
  BY <1>1, <1>2
<1>4. ASSUME NEW k \in 1 .. Len(q) - 1
      PROVE  Follows(H, IF k = 1 THEN Opened(Head(q)) ELSE Opened(Tail(q)[k - 1]),
                     Tail(q)[k])
  <2>1. Follows(H, Opened(q[k]), q[k + 1])
    <3>1. k + 1 \in 1 .. Len(q) /\ k + 1 # 1 /\ (k + 1) - 1 = k
      BY <1>1, <1>4
    <3>2. QED
      BY <1>2, <3>1
  <2>2. CASE k = 1
    BY <1>1, <2>1, <2>2
  <2>3. CASE k # 1
    <3>1. k - 1 \in 1 .. Len(q) - 1 /\ (k - 1) + 1 = k
      BY <1>1, <1>4, <2>3
    <3>2. Tail(q)[k - 1] = q[k]
      BY <1>1, <3>1
    <3>3. QED
      BY <1>1, <1>4, <2>1, <2>3, <3>2
  <2>4. QED
    BY <2>2, <2>3
<1>5. live => owed = IF Tail(q) = <<>> THEN Opened(Head(q))
                     ELSE Opened(Tail(q)[Len(Tail(q))])
  <2>1. live => owed = Opened(q[Len(q)])
    BY DEF Line
  <2>2. CASE Tail(q) = <<>>
    <3>1. Len(q) - 1 = 0
      BY <1>1, <2>2
    <3>2. Len(q) \in Nat
      OBVIOUS
    <3>3. Len(q) = 1
      BY <3>1, <3>2
    <3>4. QED
      BY <1>1, <2>1, <2>2, <3>3
  <2>3. CASE Tail(q) # <<>>
    <3>1. Len(q) - 1 \in 1 .. Len(q) - 1 /\ (Len(q) - 1) + 1 = Len(q)
      BY <1>1, <2>3
    <3>2. Tail(q)[Len(q) - 1] = q[Len(q)]
      BY <1>1, <3>1
    <3>3. QED
      BY <1>1, <2>1, <2>3, <3>2
  <2>4. QED
    BY <2>2, <2>3
<1>6. QED
  BY <1>1, <1>3, <1>4, <1>5 DEF Line

(* What its writer owes may be added to a framed stream.                   *)
LEMMA LinePush ==
  ASSUME NEW H \in SUBSET Unit, NEW q \in Seq(Unit), NEW due, NEW owed, NEW live, live,
         Line(H, q, due, owed, live), NEW u \in Unit, Follows(H, owed, u)
  PROVE  Line(H, Append(q, u), due, Opened(u), live)
<1> DEFINE r == Append(q, u)
<1>1. /\ Len(q) \in Nat /\ DOMAIN q = 1 .. Len(q)
      /\ r \in Seq(Unit) /\ Len(r) = Len(q) + 1 /\ DOMAIN r = 1 .. Len(q) + 1
      /\ r # <<>> /\ r[Len(q) + 1] = u
      /\ \A k \in 1 .. Len(q) : r[k] = q[k]
      /\ q = <<>> <=> Len(q) = 0
  OBVIOUS
<1>2. ASSUME NEW k \in 1 .. Len(q) + 1
      PROVE  Follows(H, IF k = 1 THEN due ELSE Opened(r[k - 1]), r[k])
  <2>1. CASE k = Len(q) + 1
    <3>1. CASE q = <<>>
      BY <1>1, <2>1, <3>1 DEF Line
    <3>2. CASE q # <<>>
      <4>1. k # 1 /\ k - 1 = Len(q) /\ Len(q) \in 1 .. Len(q)
        BY <1>1, <2>1, <3>2
      <4>2. r[k - 1] = q[Len(q)] /\ owed = Opened(q[Len(q)])
        BY <1>1, <3>2, <4>1 DEF Line
      <4>3. QED
        BY <1>1, <2>1, <4>1, <4>2
    <3>3. QED
      BY <3>1, <3>2
  <2>2. CASE k # Len(q) + 1
    <3>1. k \in 1 .. Len(q) /\ (k # 1 => k - 1 \in 1 .. Len(q))
      BY <1>1, <1>2, <2>2
    <3>2. Follows(H, IF k = 1 THEN due ELSE Opened(q[k - 1]), q[k])
      BY <1>1, <3>1 DEF Line
    <3>3. QED
      BY <1>1, <3>1, <3>2
  <2>3. QED
    BY <2>1, <2>2
<1>3. QED
  BY <1>1, <1>2 DEF Line

(* A stream that is cut is framed, but its writer is no longer heard.      *)
LEMMA LineCut ==
  ASSUME NEW H \in SUBSET Unit, NEW q \in Seq(Unit), NEW due, NEW owed, NEW live,
         Line(H, q, due, owed, live), NEW m \in 0 .. Len(q), NEW other
  PROVE  Line(H, SubSeq(q, 1, m), due, other, FALSE)
<1>1. /\ Len(q) \in Nat /\ DOMAIN q = 1 .. Len(q)
      /\ DOMAIN SubSeq(q, 1, m) = 1 .. m
      /\ \A k \in 1 .. m : SubSeq(q, 1, m)[k] = q[k]
  OBVIOUS
<1>2. ASSUME NEW k \in 1 .. m
      PROVE  Follows(H, IF k = 1 THEN due ELSE Opened(SubSeq(q, 1, m)[k - 1]),
                     SubSeq(q, 1, m)[k])
  <2>1. k \in 1 .. Len(q) /\ (k # 1 => k - 1 \in 1 .. m)
    BY <1>1, <1>2
  <2>2. Follows(H, IF k = 1 THEN due ELSE Opened(q[k - 1]), q[k])
    BY <1>1, <2>1 DEF Line
  <2>3. QED
    BY <1>1, <1>2, <2>1, <2>2
<1>3. QED
  BY <1>1, <1>2 DEF Line

(* The unit that follows is the one it should be.                          *)
LEMMA Follow ==
  ASSUME NEW H, NEW u
  PROVE  /\ Follows(H, {}, u) <=> u \in H
         /\ \A d : Follows(H, {d}, u) <=> u = ItemsUnit(d.count)
BY DEF Follows

LEMMA Open ==
  /\ \A n : Opened(ItemsUnit(n)) = {}
  /\ \A u \in UpHeads : u.type = Write => Opened(u) = {u}
  /\ \A u \in UpHeads : u.type # Write => Opened(u) = {} /\ u.type = Read
  /\ \A u \in DownHeads : Opened(u) = {u}
BY DEF Opened, ItemsUnit, UpHeads, DownHeads, Unit

-----------------------------------------------------------------------------
(* Steps and streams.                                                      *)

(* A change of one thread, or of one connection.                           *)
LEMMA Point ==
  ASSUME NEW A, NEW B, NEW S, NEW f \in [A -> [B -> S]], NEW a \in A, NEW b \in B, NEW v
  PROVE  \A x \in A, y \in B :
           [f EXCEPT ![a][b] = v][x][y] = IF x = a /\ y = b THEN v ELSE f[x][y]
OBVIOUS

(* A stream is framed as long as it, its reader and its writer stay, or    *)
(* when they are gone.                                                     *)
LEMMA UpKept ==
  ASSUME NEW c \in Client, NEW s \in Storage, UpLine(c, s),
         sfd'[c][s] =>
           /\ sfd[c][s] /\ up'[c][s] = up[c][s]
           /\ \A t \in SRecvThread : SDue(sr'[s][t], c) = SDue(sr[s][t], c)
           /\ cfd'[c][s] /\ ~reset'[c][s] =>
                /\ cfd[c][s] /\ ~reset[c][s]
                /\ \A t \in CSendThread : Due(cs'[c][t], s) = Due(cs[c][t], s)
  PROVE  UpLine(c, s)'
<1> SUFFICES ASSUME sfd'[c][s]
             PROVE  Line(UpHeads, up'[c][s], UpDue(c, s)', UpOwed(c, s)',
                         cfd'[c][s] /\ ~reset'[c][s])
  BY DEF UpLine
<1>1. UpDue(c, s)' = UpDue(c, s)
  BY DEF UpDue
<1>2. cfd'[c][s] /\ ~reset'[c][s] => UpOwed(c, s)' = UpOwed(c, s)
  BY DEF UpOwed
<1>3. QED
  BY <1>1, <1>2 DEF UpLine, Line

LEMMA DownKept ==
  ASSUME NEW c \in Client, NEW s \in Storage, DownLine(c, s),
         cfd'[c][s] =>
           /\ cfd[c][s] /\ down'[c][s] = down[c][s]
           /\ \A t \in CRecvThread : Due(cr'[c][t], s) = Due(cr[c][t], s)
           /\ sfd'[c][s] /\ ~reset'[c][s] =>
                /\ sfd[c][s] /\ ~reset[c][s]
                /\ \A t \in SSendThread : SDue(ss'[s][t], c) = SDue(ss[s][t], c)
  PROVE  DownLine(c, s)'
<1> SUFFICES ASSUME cfd'[c][s]
             PROVE  Line(DownHeads, down'[c][s], DownDue(c, s)', DownOwed(c, s)',
                         sfd'[c][s] /\ ~reset'[c][s])
  BY DEF DownLine
<1>1. DownDue(c, s)' = DownDue(c, s)
  BY DEF DownDue
<1>2. sfd'[c][s] /\ ~reset'[c][s] => DownOwed(c, s)' = DownOwed(c, s)
  BY DEF DownOwed
<1>3. QED
  BY <1>1, <1>2 DEF DownLine, Line

(* The thread that has a connection is the only one with items of it.      *)
LEMMA Single ==
  ASSUME NEW T, NEW t \in T, NEW f, \A u \in T \ {t} : f[u] = {}
  PROVE  UNION {f[u] : u \in T} = f[t]
<1>1. \A x : x \in UNION {f[u] : u \in T} <=> x \in f[t]
  OBVIOUS
<1>2. QED
  BY <1>1

LEMMA UpReader ==
  ASSUME Exclusive, NEW c \in Client, NEW s \in Storage, NEW t \in SRecvThread,
         Reading(sr[s][t]), sr[s][t].c = c
  PROVE  /\ UpDue(c, s) = SDue(sr[s][t], c)
         /\ (\A u \in SRecvThread \ {t} : sr'[s][u] = sr[s][u]) =>
               UpDue(c, s)' = SDue(sr'[s][t], c)
<1>1. \A u \in SRecvThread \ {t} : SDue(sr[s][u], c) = {}
  BY DEF Exclusive, StorageRecvExclusive, SDue, Reading
<1>2. UpDue(c, s) = SDue(sr[s][t], c)
  <2> DEFINE f == [u \in SRecvThread |-> SDue(sr[s][u], c)]
  <2>1. UNION {f[u] : u \in SRecvThread} = f[t]
    <3>1. \A u \in SRecvThread \ {t} : f[u] = {}
      BY <1>1
    <3> HIDE DEF f
    <3>2. QED
      BY <3>1, Single
  <2>2. UpDue(c, s) = UNION {f[u] : u \in SRecvThread}
    BY DEF UpDue
  <2>3. QED
    BY <2>1, <2>2
<1>3. ASSUME \A u \in SRecvThread \ {t} : sr'[s][u] = sr[s][u]
      PROVE  UpDue(c, s)' = SDue(sr'[s][t], c)
  <2> DEFINE f == [u \in SRecvThread |-> SDue(sr'[s][u], c)]
  <2>1. UNION {f[u] : u \in SRecvThread} = f[t]
    <3>1. \A u \in SRecvThread \ {t} : f[u] = {}
      BY <1>1, <1>3
    <3> HIDE DEF f
    <3>2. QED
      BY <3>1, Single
  <2>2. UpDue(c, s)' = UNION {f[u] : u \in SRecvThread}
    BY DEF UpDue
  <2>3. QED
    BY <2>1, <2>2
<1>4. QED
  BY <1>2, <1>3

LEMMA UpWriter ==
  ASSUME Exclusive, NEW c \in Client, NEW s \in Storage, NEW t \in CSendThread,
         Writing(cs[c][t]), cs[c][t].i = s
  PROVE  /\ UpOwed(c, s) = Due(cs[c][t], s)
         /\ (\A u \in CSendThread \ {t} : cs'[c][u] = cs[c][u]) =>
               UpOwed(c, s)' = Due(cs'[c][t], s)
<1>1. \A u \in CSendThread \ {t} : Due(cs[c][u], s) = {}
  BY DEF Exclusive, ClientSendExclusive, Due, Writing
<1>2. UpOwed(c, s) = Due(cs[c][t], s)
  <2> DEFINE f == [u \in CSendThread |-> Due(cs[c][u], s)]
  <2>1. UNION {f[u] : u \in CSendThread} = f[t]
    <3>1. \A u \in CSendThread \ {t} : f[u] = {}
      BY <1>1
    <3> HIDE DEF f
    <3>2. QED
      BY <3>1, Single
  <2>2. UpOwed(c, s) = UNION {f[u] : u \in CSendThread}
    BY DEF UpOwed
  <2>3. QED
    BY <2>1, <2>2
<1>3. ASSUME \A u \in CSendThread \ {t} : cs'[c][u] = cs[c][u]
      PROVE  UpOwed(c, s)' = Due(cs'[c][t], s)
  <2> DEFINE f == [u \in CSendThread |-> Due(cs'[c][u], s)]
  <2>1. UNION {f[u] : u \in CSendThread} = f[t]
    <3>1. \A u \in CSendThread \ {t} : f[u] = {}
      BY <1>1, <1>3
    <3> HIDE DEF f
    <3>2. QED
      BY <3>1, Single
  <2>2. UpOwed(c, s)' = UNION {f[u] : u \in CSendThread}
    BY DEF UpOwed
  <2>3. QED
    BY <2>1, <2>2
<1>4. QED
  BY <1>2, <1>3

LEMMA DownReader ==
  ASSUME Exclusive, NEW c \in Client, NEW s \in Storage, NEW t \in CRecvThread,
         Reading(cr[c][t]), cr[c][t].i = s
  PROVE  /\ DownDue(c, s) = Due(cr[c][t], s)
         /\ (\A u \in CRecvThread \ {t} : cr'[c][u] = cr[c][u]) =>
               DownDue(c, s)' = Due(cr'[c][t], s)
<1>1. \A u \in CRecvThread \ {t} : Due(cr[c][u], s) = {}
  BY DEF Exclusive, ClientRecvExclusive, Due, Reading
<1>2. DownDue(c, s) = Due(cr[c][t], s)
  <2> DEFINE f == [u \in CRecvThread |-> Due(cr[c][u], s)]
  <2>1. UNION {f[u] : u \in CRecvThread} = f[t]
    <3>1. \A u \in CRecvThread \ {t} : f[u] = {}
      BY <1>1
    <3> HIDE DEF f
    <3>2. QED
      BY <3>1, Single
  <2>2. DownDue(c, s) = UNION {f[u] : u \in CRecvThread}
    BY DEF DownDue
  <2>3. QED
    BY <2>1, <2>2
<1>3. ASSUME \A u \in CRecvThread \ {t} : cr'[c][u] = cr[c][u]
      PROVE  DownDue(c, s)' = Due(cr'[c][t], s)
  <2> DEFINE f == [u \in CRecvThread |-> Due(cr'[c][u], s)]
  <2>1. UNION {f[u] : u \in CRecvThread} = f[t]
    <3>1. \A u \in CRecvThread \ {t} : f[u] = {}
      BY <1>1, <1>3
    <3> HIDE DEF f
    <3>2. QED
      BY <3>1, Single
  <2>2. DownDue(c, s)' = UNION {f[u] : u \in CRecvThread}
    BY DEF DownDue
  <2>3. QED
    BY <2>1, <2>2
<1>4. QED
  BY <1>2, <1>3

LEMMA DownWriter ==
  ASSUME Exclusive, NEW c \in Client, NEW s \in Storage, NEW t \in SSendThread,
         Writing(ss[s][t]), ss[s][t].c = c
  PROVE  /\ DownOwed(c, s) = SDue(ss[s][t], c)
         /\ (\A u \in SSendThread \ {t} : ss'[s][u] = ss[s][u]) =>
               DownOwed(c, s)' = SDue(ss'[s][t], c)
<1>1. \A u \in SSendThread \ {t} : SDue(ss[s][u], c) = {}
  BY DEF Exclusive, StorageSendExclusive, SDue, Writing
<1>2. DownOwed(c, s) = SDue(ss[s][t], c)
  <2> DEFINE f == [u \in SSendThread |-> SDue(ss[s][u], c)]
  <2>1. UNION {f[u] : u \in SSendThread} = f[t]
    <3>1. \A u \in SSendThread \ {t} : f[u] = {}
      BY <1>1
    <3> HIDE DEF f
    <3>2. QED
      BY <3>1, Single
  <2>2. DownOwed(c, s) = UNION {f[u] : u \in SSendThread}
    BY DEF DownOwed
  <2>3. QED
    BY <2>1, <2>2
<1>3. ASSUME \A u \in SSendThread \ {t} : ss'[s][u] = ss[s][u]
      PROVE  DownOwed(c, s)' = SDue(ss'[s][t], c)
  <2> DEFINE f == [u \in SSendThread |-> SDue(ss'[s][u], c)]
  <2>1. UNION {f[u] : u \in SSendThread} = f[t]
    <3>1. \A u \in SSendThread \ {t} : f[u] = {}
      BY <1>1, <1>3
    <3> HIDE DEF f
    <3>2. QED
      BY <3>1, Single
  <2>2. DownOwed(c, s)' = UNION {f[u] : u \in SSendThread}
    BY DEF DownOwed
  <2>3. QED
    BY <2>1, <2>2
<1>4. QED
  BY <1>2, <1>3

(* A thread that reads the unit it awaits.                                 *)
LEMMA UpPop ==
  ASSUME TypeOK, Exclusive, NEW c \in Client, NEW s \in Storage, UpLine(c, s),
         NEW t \in SRecvThread, Reading(sr[s][t]), sr[s][t].c = c, StoragePop(c, s)
  PROVE  /\ Head(up[c][s]) \in Unit
         /\ Follows(UpHeads, SDue(sr[s][t], c), Head(up[c][s]))
         /\ (\A u \in SRecvThread \ {t} : sr'[s][u] = sr[s][u])
            /\ SDue(sr'[s][t], c) = Opened(Head(up[c][s]))
            /\ UNCHANGED <<cs, sfd, cfd, reset>> => UpLine(c, s)'
<1>1. /\ up[c][s] \in Seq(Unit) /\ up[c][s] # <<>> /\ sfd[c][s]
      /\ up'[c][s] = Tail(up[c][s])
  BY DEF StoragePop, TypeOK, WireTypeOK, PerConn
<1>2. UpHeads \in SUBSET Unit
  BY DEF UpHeads
<1>3. UpDue(c, s) = SDue(sr[s][t], c)
  BY UpReader
<1>4. /\ Follows(UpHeads, UpDue(c, s), Head(up[c][s]))
      /\ Line(UpHeads, Tail(up[c][s]), Opened(Head(up[c][s])), UpOwed(c, s),
              cfd[c][s] /\ ~reset[c][s])
  BY <1>1, <1>2, LinePop DEF UpLine
<1>5. ASSUME \A u \in SRecvThread \ {t} : sr'[s][u] = sr[s][u],
             SDue(sr'[s][t], c) = Opened(Head(up[c][s])),
             UNCHANGED <<cs, sfd, cfd, reset>>
      PROVE  UpLine(c, s)'
  <2>1. UpDue(c, s)' = Opened(Head(up[c][s]))
    BY <1>5, UpReader
  <2>2. UpOwed(c, s)' = UpOwed(c, s)
    BY <1>5 DEF UpOwed
  <2>3. QED
    BY <1>1, <1>4, <1>5, <2>1, <2>2 DEF UpLine
<1>6. Head(up[c][s]) \in Unit
  <2>1. \A q \in Seq(Unit) : q # <<>> => Head(q) \in Unit
    OBVIOUS
  <2>2. QED
    BY <1>1, <2>1
<1>7. QED
  BY <1>3, <1>4, <1>5, <1>6

LEMMA DownPop ==
  ASSUME TypeOK, Exclusive, NEW c \in Client, NEW s \in Storage, DownLine(c, s),
         NEW t \in CRecvThread, Reading(cr[c][t]), cr[c][t].i = s, ClientPop(c, s)
  PROVE  /\ Head(down[c][s]) \in Unit
         /\ Follows(DownHeads, Due(cr[c][t], s), Head(down[c][s]))
         /\ (\A u \in CRecvThread \ {t} : cr'[c][u] = cr[c][u])
            /\ Due(cr'[c][t], s) = Opened(Head(down[c][s]))
            /\ UNCHANGED <<ss, sfd, cfd, reset>> => DownLine(c, s)'
<1>1. /\ down[c][s] \in Seq(Unit) /\ down[c][s] # <<>> /\ cfd[c][s]
      /\ down'[c][s] = Tail(down[c][s])
  BY DEF ClientPop, TypeOK, WireTypeOK, PerConn
<1>2. DownHeads \in SUBSET Unit
  BY DEF DownHeads
<1>3. DownDue(c, s) = Due(cr[c][t], s)
  BY DownReader
<1>4. /\ Follows(DownHeads, DownDue(c, s), Head(down[c][s]))
      /\ Line(DownHeads, Tail(down[c][s]), Opened(Head(down[c][s])), DownOwed(c, s),
              sfd[c][s] /\ ~reset[c][s])
  BY <1>1, <1>2, LinePop DEF DownLine
<1>5. ASSUME \A u \in CRecvThread \ {t} : cr'[c][u] = cr[c][u],
             Due(cr'[c][t], s) = Opened(Head(down[c][s])),
             UNCHANGED <<ss, sfd, cfd, reset>>
      PROVE  DownLine(c, s)'
  <2>1. DownDue(c, s)' = Opened(Head(down[c][s]))
    BY <1>5, DownReader
  <2>2. DownOwed(c, s)' = DownOwed(c, s)
    BY <1>5 DEF DownOwed
  <2>3. QED
    BY <1>1, <1>4, <1>5, <2>1, <2>2 DEF DownLine
<1>6. Head(down[c][s]) \in Unit
  <2>1. \A q \in Seq(Unit) : q # <<>> => Head(q) \in Unit
    OBVIOUS
  <2>2. QED
    BY <1>1, <2>1
<1>7. QED
  BY <1>3, <1>4, <1>5, <1>6

(* A thread that writes what it owes.                                      *)
LEMMA UpPush ==
  ASSUME TypeOK, Exclusive, NEW c \in Client, NEW s \in Storage, UpLine(c, s),
         NEW t \in CSendThread, Writing(cs[c][t]), cs[c][t].i = s,
         NEW u \in Unit, ClientPush(c, s, u),
         Follows(UpHeads, Due(cs[c][t], s), u),
         \A v \in CSendThread \ {t} : cs'[c][v] = cs[c][v],
         Due(cs'[c][t], s) = Opened(u),
         UNCHANGED <<sr, sfd, cfd, reset>>
  PROVE  UpLine(c, s)'
<1>1. /\ up[c][s] \in Seq(Unit) /\ cfd[c][s] /\ ~reset[c][s]
      /\ up'[c][s] = Append(up[c][s], u)
  BY DEF ClientPush, TypeOK, WireTypeOK, PerConn
<1>2. UpHeads \in SUBSET Unit
  BY DEF UpHeads
<1>3. UpOwed(c, s) = Due(cs[c][t], s) /\ UpOwed(c, s)' = Opened(u)
  BY UpWriter
<1>4. UpDue(c, s)' = UpDue(c, s)
  BY DEF UpDue
<1>5. sfd[c][s] => Line(UpHeads, Append(up[c][s], u), UpDue(c, s), Opened(u),
                        cfd[c][s] /\ ~reset[c][s])
  BY <1>1, <1>2, <1>3, LinePush DEF UpLine
<1>6. QED
  BY <1>1, <1>3, <1>4, <1>5 DEF UpLine

LEMMA DownPush ==
  ASSUME TypeOK, Exclusive, NEW c \in Client, NEW s \in Storage, DownLine(c, s),
         NEW t \in SSendThread, Writing(ss[s][t]), ss[s][t].c = c,
         NEW u \in Unit, StoragePush(c, s, u),
         Follows(DownHeads, SDue(ss[s][t], c), u),
         \A v \in SSendThread \ {t} : ss'[s][v] = ss[s][v],
         SDue(ss'[s][t], c) = Opened(u),
         UNCHANGED <<cr, sfd, cfd, reset>>
  PROVE  DownLine(c, s)'
<1>1. /\ down[c][s] \in Seq(Unit) /\ sfd[c][s] /\ ~reset[c][s]
      /\ down'[c][s] = Append(down[c][s], u)
  BY DEF StoragePush, TypeOK, WireTypeOK, PerConn
<1>2. DownHeads \in SUBSET Unit
  BY DEF DownHeads
<1>3. DownOwed(c, s) = SDue(ss[s][t], c) /\ DownOwed(c, s)' = Opened(u)
  BY DownWriter
<1>4. DownDue(c, s)' = DownDue(c, s)
  BY DEF DownDue
<1>5. cfd[c][s] => Line(DownHeads, Append(down[c][s], u), DownDue(c, s), Opened(u),
                        sfd[c][s] /\ ~reset[c][s])
  BY <1>1, <1>2, <1>3, LinePush DEF DownLine
<1>6. QED
  BY <1>1, <1>3, <1>4, <1>5 DEF DownLine

-----------------------------------------------------------------------------
(* Every step keeps the streams framed: one lemma for the steps of each    *)
(* routine, one case per action.                                           *)

(* recv_thread_routine of the client.                                      *)
LEMMA ClientRecvLines ==
  ASSUME TypeOK, Exclusive, Hands, Lines, NEW c \in Client, NEW t \in CRecvThread,
         ClientRecv(c, t) \/ ClientRecvClose(c, t), UNCHANGED storageVars
  PROVE  Hands' /\ Lines'
<1> DEFINE th == cr[c][t]
           new == cr'[c][t]
<1>0. /\ cr \in [Client -> [CRecvThread -> Thread(RecvPC)]]
      /\ cfd \in [Client -> [Storage -> BOOLEAN]]
      /\ down \in [Client -> [Storage -> Seq(Unit)]]
      /\ th.i \in Storage
  BY DEF TypeOK, ClientTypeOK, WireTypeOK, PerConn, Thread
<1>i. PICK i \in Storage : th.i = i
  BY <1>0
<1> DEFINE unit == Head(down[c][i])
<1>1. UNCHANGED <<up, sfd, reset, cs, sr, ss>>
  BY DEF storageVars, ClientRecv, ClientRecvBegin, ClientRecvHead, ClientRecvItems,
         ClientRecvCount, ClientRecvFail, ClientRecvExit, ClientRecvClose, wireVars
<1>2. \A d \in Client, s \in Storage : cfd'[d][s] => cfd[d][s]
  <2>1. CASE ClientRecvClose(c, t)
    <3>1. cfd' = [cfd EXCEPT ![c][i] = FALSE]
      BY <1>i, <2>1 DEF ClientRecvClose
    <3>2. QED
      BY <1>0, <1>i, <3>1, Point
  <2>2. CASE ~ClientRecvClose(c, t)
    BY <2>2 DEF ClientRecv, ClientRecvBegin, ClientRecvHead, ClientRecvItems,
         ClientRecvCount, ClientRecvFail, ClientRecvExit, wireVars
  <2>3. QED
    BY <2>1, <2>2
<1>3. \A d \in Client, s \in Storage : UpLine(d, s)'
  BY <1>1, <1>2, UpKept DEF Lines
<1>4. /\ \A d \in Client \ {c} : \A u \in CRecvThread : cr'[d][u] = cr[d][u]
      /\ \A u \in CRecvThread \ {t} : cr'[c][u] = cr[c][u]
  <2>1. PICK v : cr' = [cr EXCEPT ![c][t] = v]
    BY DEF ClientRecv, ClientRecvBegin, ClientRecvHead, ClientRecvItems,
           ClientRecvCount, ClientRecvFail, ClientRecvExit, ClientRecvClose
  <2>2. QED
    BY <1>0, <1>i, <2>1
<1>5. RecvHands(new) => Hands'
  <2>1. RecvHands(new) => \A d \in Client : \A u \in CRecvThread : RecvHands(cr'[d][u])
    BY <1>4 DEF Hands
  <2>2. QED
    BY <1>1, <2>1 DEF Hands, RecvHands, SendHands, SRecvHands, SSendHands
<1>6. ASSUME RecvHands(new), down' = down,
             \A s \in Storage : cfd'[c][s] => Due(new, s) = Due(th, s)
      PROVE  Hands' /\ Lines'
  <2>1. ASSUME NEW d \in Client, NEW s \in Storage PROVE DownLine(d, s)'
    <3>1. \A u \in CRecvThread : cfd'[d][s] =>
             Due(cr'[d][u], s) = Due(cr[d][u], s)
      BY <1>4, <1>6
    <3>2. QED
      BY <1>1, <1>2, <1>6, <3>1, DownKept DEF Lines
  <2>2. QED
    BY <1>3, <1>5, <1>6, <2>1 DEF Lines
<1>7. ASSUME RecvHands(new), cfd' = cfd, ClientPop(c, i), Reading(th),
             new.i = i, Due(new, i) = Opened(unit)
      PROVE  Hands' /\ Lines'
  <2>1. ASSUME NEW d \in Client, NEW s \in Storage, ~(d = c /\ s = i)
        PROVE  DownLine(d, s)'
    <3>1. \A u \in CRecvThread :
             Due(cr'[d][u], s) = Due(cr[d][u], s)
      <4>1. d = c => Due(new, s) = {} /\ Due(th, s) = {}
        BY <1>i, <1>7, <2>1 DEF Due
      <4>2. QED
        BY <1>4, <4>1
    <3>2. down'[d][s] = down[d][s]
      BY <1>0, <1>i, <1>7, <2>1, Point DEF ClientPop
    <3>3. QED
      BY <1>1, <1>7, <3>1, <3>2, DownKept DEF Lines
  <2>2. DownLine(c, i)'
    <3>1. Due(new, i) = Opened(unit)
      BY <1>7
    <3>2. DownLine(c, i)
      BY <1>0, <1>i DEF Lines
    <3>3. QED
      BY <1>0, <1>i, <1>1, <1>4, <1>7, <3>1, <3>2, DownPop
  <2>3. \A d \in Client, s \in Storage : DownLine(d, s)'
    BY <2>1, <2>2
  <2>4. QED
    BY <1>3, <1>5, <1>7, <2>3 DEF Lines
<1>8. RecvHands(Idle) /\ RecvHands(Exited)
  BY DEF RecvHands, Idle, Exited, At
<1>9. \A s \in Storage : Due(Idle, s) = {} /\ Due(Exited, s) = {}
  BY DEF Due, Idle, Exited, At
<1>10. CASE ClientRecvBegin(c, t)
  <2>1. PICK k \in Storage : new = At("head", k, ItemsUnit(0))
    BY <1>0, <1>i, <1>10 DEF ClientRecvBegin
  <2>2. th.pc = "idle" /\ UNCHANGED down
    BY <1>10 DEF ClientRecvBegin, wireVars
  <2>3. RecvHands(At("head", k, ItemsUnit(0)))
    BY DEF RecvHands, At
  <2>4. \A s \in Storage : /\ Due(th, s) = {}
                           /\ Due(At("head", k, ItemsUnit(0)), s) = {}
    BY <2>2 DEF Due, At
  <2>5. QED
    BY <1>6, <2>1, <2>2, <2>3, <2>4
<1>11. CASE ClientRecvHead(c, t)
  <2>1. th.pc = "head" /\ ClientPop(c, i) /\ UNCHANGED cfd
    BY <1>i, <1>11 DEF ClientRecvHead
  <2>2. Due(th, i) = {} /\ Reading(th)
    BY <1>i, <2>1 DEF Due, Reading
  <2>3. Follows(DownHeads, {}, unit)
    <3>1. DownLine(c, i)
      BY <1>0, <1>i DEF Lines
    <3>2. Follows(DownHeads, Due(th, i), unit)
      BY <1>i, <2>1, <2>2, <3>1, DownPop
    <3>3. QED
      BY <2>2, <3>2
  <2>4. unit \in DownHeads /\ Opened(unit) = {unit}
    BY <2>3, Follow, Open
  <2>5. new = At("items", i, unit)
    BY <1>0, <1>i, <1>11, <2>4 DEF ClientRecvHead, DownHeads
  <2>6. /\ RecvHands(At("items", i, unit)) /\ At("items", i, unit).i = i
        /\ Due(At("items", i, unit), i) = {unit}
    BY <2>4 DEF RecvHands, At, Due
  <2>7. QED
    BY <1>7, <2>1, <2>2, <2>4, <2>5, <2>6
<1>12. CASE ClientRecvItems(c, t)
  <2>1. th.pc = "items" /\ ClientPop(c, i) /\ UNCHANGED cfd
    BY <1>i, <1>12 DEF ClientRecvItems
  <2>2. Due(th, i) = {th.h} /\ Reading(th) /\ th.h \in DownHeads
    BY <1>i, <2>1 DEF Due, Reading, Hands, RecvHands
  <2>3. Follows(DownHeads, {th.h}, unit)
    <3>1. DownLine(c, i)
      BY <1>0, <1>i DEF Lines
    <3>2. Follows(DownHeads, Due(th, i), unit)
      BY <1>i, <2>1, <2>2, <3>1, DownPop
    <3>3. QED
      BY <2>2, <3>2
  <2>4. unit = ItemsUnit(th.h.count) /\ Opened(unit) = {}
    <3>1. unit = ItemsUnit(th.h.count)
      BY <2>3, Follow
    <3>2. QED
      BY <3>1, Open
  <2>5. new = At("count", i, th.h)
    BY <1>0, <1>i, <1>12, <2>2, <2>4 DEF ClientRecvItems, DownHeads
  <2>6. /\ RecvHands(At("count", i, th.h)) /\ At("count", i, th.h).i = i
        /\ Due(At("count", i, th.h), i) = {}
    BY DEF RecvHands, At, Due
  <2>7. QED
    BY <1>7, <2>1, <2>2, <2>4, <2>5, <2>6
<1>13. CASE ClientRecvCount(c, t)
  <2>1. th.pc = "count" /\ UNCHANGED down /\ new = Idle
    BY <1>0, <1>i, <1>13 DEF ClientRecvCount, wireVars
  <2>2. \A s \in Storage : Due(th, s) = {}
    BY <1>i, <2>1 DEF Due
  <2>3. QED
    BY <1>6, <1>8, <1>9, <2>1, <2>2
<1>14. CASE ClientRecvClose(c, t)
  <2>1. /\ UNCHANGED down /\ new = Exited
        /\ cfd' = [cfd EXCEPT ![c][i] = FALSE]
    BY <1>0, <1>i, <1>14 DEF ClientRecvClose
  <2>2. \A s \in Storage : cfd'[c][s] => Due(th, s) = {}
    BY <1>0, <1>i, <2>1 DEF Due
  <2>3. QED
    BY <1>6, <1>8, <1>9, <2>1, <2>2
<1>15. CASE ClientRecvExit(c, t)
  <2>1. th.pc = "idle" /\ UNCHANGED down /\ new = Exited
    BY <1>0, <1>i, <1>15 DEF ClientRecvExit, wireVars
  <2>2. \A s \in Storage : Due(th, s) = {}
    BY <1>i, <2>1 DEF Due
  <2>3. QED
    BY <1>6, <1>8, <1>9, <2>1, <2>2
<1>16. QED
  BY <1>10, <1>11, <1>12, <1>13, <1>14, <1>15 DEF ClientRecv, ClientRecvFail

(* recv_thread_routine of the storage.                                     *)
LEMMA StorageRecvLines ==
  ASSUME TypeOK, Exclusive, Hands, Lines, NEW s \in Storage, NEW t \in SRecvThread,
         StorageRecv(s, t) \/ StorageRecvClose(s, t), UNCHANGED clientVars
  PROVE  Hands' /\ Lines'
<1> DEFINE th == sr[s][t]
           new == sr'[s][t]
<1>0. /\ sr \in [Storage -> [SRecvThread -> SThread(SRecvPC)]]
      /\ sfd \in [Client -> [Storage -> BOOLEAN]]
      /\ up \in [Client -> [Storage -> Seq(Unit)]]
      /\ th.c \in Client
  BY DEF TypeOK, StorageTypeOK, WireTypeOK, PerConn, SThread
<1>i. PICK c \in Client : th.c = c
  BY <1>0
<1> DEFINE unit == Head(up[c][s])
<1>1. UNCHANGED <<down, cfd, reset, cr, cs, ss>>
  BY DEF clientVars, StorageRecv, StorageRecvBegin, StorageRecvRequest,
         StorageRecvHead, StorageRecvItems, StorageRecvFail, StorageRecvClose, wireVars
<1>2. \A d \in Client, e \in Storage : sfd'[d][e] => sfd[d][e]
  <2>1. CASE StorageRecvClose(s, t)
    <3>1. sfd' = [sfd EXCEPT ![c][s] = FALSE]
      BY <1>i, <2>1 DEF StorageRecvClose
    <3>2. QED
      BY <1>0, <3>1, Point
  <2>2. CASE ~StorageRecvClose(s, t)
    BY <2>2 DEF StorageRecv, StorageRecvBegin, StorageRecvRequest,
         StorageRecvHead, StorageRecvItems, StorageRecvFail, wireVars
  <2>3. QED
    BY <2>1, <2>2
<1>3. \A d \in Client, e \in Storage : DownLine(d, e)'
  BY <1>1, <1>2, DownKept DEF Lines
<1>4. /\ \A e \in Storage \ {s} : \A u \in SRecvThread : sr'[e][u] = sr[e][u]
      /\ \A u \in SRecvThread \ {t} : sr'[s][u] = sr[s][u]
  <2>1. PICK v : sr' = [sr EXCEPT ![s][t] = v]
    BY DEF StorageRecv, StorageRecvBegin, StorageRecvRequest,
         StorageRecvHead, StorageRecvItems, StorageRecvFail, StorageRecvClose
  <2>2. QED
    BY <1>0, <2>1
<1>5. SRecvHands(new) => Hands'
  <2>1. SRecvHands(new) => \A e \in Storage : \A u \in SRecvThread : SRecvHands(sr'[e][u])
    BY <1>4 DEF Hands
  <2>2. QED
    BY <1>1, <2>1 DEF Hands, RecvHands, SendHands, SRecvHands, SSendHands
<1>6. ASSUME SRecvHands(new), up' = up,
             \A d \in Client : sfd'[d][s] => SDue(new, d) = SDue(th, d)
      PROVE  Hands' /\ Lines'
  <2>1. ASSUME NEW d \in Client, NEW e \in Storage PROVE UpLine(d, e)'
    <3>1. \A u \in SRecvThread : sfd'[d][e] => SDue(sr'[e][u], d) = SDue(sr[e][u], d)
      BY <1>4, <1>6
    <3>2. QED
      BY <1>1, <1>2, <1>6, <3>1, UpKept DEF Lines
  <2>2. QED
    BY <1>3, <1>5, <1>6, <2>1 DEF Lines
<1>7. ASSUME SRecvHands(new), sfd' = sfd, StoragePop(c, s), Reading(th),
             \A d \in Client \ {c} : SDue(new, d) = {}, SDue(new, c) = Opened(unit)
      PROVE  Hands' /\ Lines'
  <2>1. ASSUME NEW d \in Client, NEW e \in Storage, ~(d = c /\ e = s)
        PROVE  UpLine(d, e)'
    <3>1. \A u \in SRecvThread : SDue(sr'[e][u], d) = SDue(sr[e][u], d)
      <4>1. e = s => SDue(new, d) = {} /\ SDue(th, d) = {}
        BY <1>i, <1>7, <2>1 DEF SDue
      <4>2. QED
        BY <1>4, <4>1
    <3>2. up'[d][e] = up[d][e]
      BY <1>0, <1>7, <2>1, Point DEF StoragePop
    <3>3. QED
      BY <1>1, <1>7, <3>1, <3>2, UpKept DEF Lines
  <2>2. UpLine(c, s)'
    <3>1. UpLine(c, s)
      BY DEF Lines
    <3>2. QED
      BY <1>i, <1>1, <1>4, <1>7, <3>1, UpPop
  <2>3. \A d \in Client, e \in Storage : UpLine(d, e)'
    BY <2>1, <2>2
  <2>4. QED
    BY <1>3, <1>5, <1>7, <2>3 DEF Lines
<1>8. /\ SRecvHands(SIdle)
      /\ \A d \in Client : SDue(SIdle, d) = {}
  BY DEF SRecvHands, SDue, SIdle, SAt
<1>9. ASSUME th.pc \in {"head", "items"}, StoragePop(c, s)
      PROVE  Reading(th) /\ Follows(UpHeads, SDue(th, c), unit) /\ unit \in Unit
  <2>1. UpLine(c, s)
    BY DEF Lines
  <2>2. Reading(th)
    BY <1>9 DEF Reading
  <2>3. QED
    BY <1>i, <1>9, <2>1, <2>2, UpPop
<1>10. CASE StorageRecvBegin(s, t)
  <2>1. PICK d \in Client : new = SAt("head", d, ItemsUnit(0))
    BY <1>0, <1>10 DEF StorageRecvBegin
  <2>2. th.pc = "idle" /\ up' = up
    BY <1>10 DEF StorageRecvBegin, wireVars
  <2>3. SRecvHands(SAt("head", d, ItemsUnit(0)))
    BY DEF SRecvHands, SAt
  <2>4. \A e \in Client : SDue(th, e) = {} /\ SDue(SAt("head", d, ItemsUnit(0)), e) = {}
    BY <2>2 DEF SDue, SAt
  <2>5. QED
    BY <1>6, <2>1, <2>2, <2>3, <2>4
<1>11. CASE th.pc = "head" /\ (StorageRecvRequest(s, t) \/ StorageRecvHead(s, t))
  <2>1. StoragePop(c, s) /\ sfd' = sfd
    BY <1>i, <1>11 DEF StorageRecvRequest, StorageRecvHead
  <2>2. SDue(th, c) = {}
    BY <1>11 DEF SDue
  <2>3. Reading(th) /\ Follows(UpHeads, SDue(th, c), unit) /\ unit \in Unit
    BY <1>9, <1>11, <2>1
  <2>4. unit \in UpHeads
    BY <2>2, <2>3, Follow
  <2>5. CASE unit.type = Write
    <3>1. new = SAt("items", c, unit)
      BY <1>0, <1>i, <1>11, <2>4, <2>5
      DEF StorageRecvRequest, StorageRecvHead, UpHeads, Read, Write
    <3>2. /\ SRecvHands(SAt("items", c, unit))
          /\ \A d \in Client \ {c} : SDue(SAt("items", c, unit), d) = {}
          /\ SDue(SAt("items", c, unit), c) = {unit}
      BY <2>4, <2>5 DEF SRecvHands, SDue, SAt
    <3>3. Opened(unit) = {unit}
      BY <2>4, <2>5, Open
    <3>4. QED
      BY <1>7, <2>1, <2>3, <3>1, <3>2, <3>3
  <2>6. CASE unit.type # Write
    <3>1. Opened(unit) = {} /\ unit.type = Read
      BY <2>4, <2>6, Open
    <3>2. unit.kind = "head" /\ unit.index \in Storage
      BY <2>4, <2>6 DEF UpHeads
    <3>3. new = SIdle
      BY <1>0, <1>i, <1>11, <3>1, <3>2 DEF StorageRecvRequest, StorageRecvHead
    <3>4. QED
      BY <1>7, <1>8, <2>1, <2>3, <3>1, <3>3
  <2>7. QED
    BY <2>5, <2>6
<1>12. CASE StorageRecvItems(s, t)
  <2>1. th.pc = "items" /\ StoragePop(c, s) /\ sfd' = sfd
    BY <1>i, <1>12 DEF StorageRecvItems
  <2>2. SDue(th, c) = {th.h}
    BY <1>i, <2>1 DEF SDue
  <2>3. Reading(th) /\ Follows(UpHeads, SDue(th, c), unit)
    BY <1>9, <2>1
  <2>4. unit = ItemsUnit(th.h.count)
    <3>1. Follows(UpHeads, {th.h}, unit)
      BY <2>2, <2>3
    <3>2. QED
      BY <3>1, Follow
  <2>5. Opened(unit) = {}
    BY <2>4, Open
  <2>6. new = SIdle
    BY <1>0, <1>i, <1>12, <2>4 DEF StorageRecvItems
  <2>7. QED
    BY <1>7, <1>8, <2>1, <2>3, <2>5, <2>6
<1>13. CASE StorageRecvClose(s, t)
  <2>1. up' = up /\ new = SIdle /\ sfd' = [sfd EXCEPT ![c][s] = FALSE]
    BY <1>0, <1>i, <1>13 DEF StorageRecvClose
  <2>2. \A d \in Client : sfd'[d][s] => SDue(th, d) = {}
    BY <1>0, <1>i, <2>1 DEF SDue
  <2>3. QED
    BY <1>6, <1>8, <2>1, <2>2
<1>14. QED
  BY <1>10, <1>11, <1>12, <1>13
  DEF StorageRecv, StorageRecvFail, StorageRecvRequest, StorageRecvHead

(* send_thread_routine of the client.                                      *)
LEMMA ClientSendLines ==
  ASSUME TypeOK, Exclusive, Hands, Lines, NEW c \in Client, NEW t \in CSendThread,
         ClientSend(c, t) \/ ClientSendClose(c, t), ~ClientSendKilled(c, t),
         UNCHANGED storageVars
  PROVE  Hands' /\ Lines'
<1> DEFINE th == cs[c][t]
           new == cs'[c][t]
<1>0. /\ cs \in [Client -> [CSendThread -> Thread(SendPC)]]
      /\ cfd \in [Client -> [Storage -> BOOLEAN]]
      /\ up \in [Client -> [Storage -> Seq(Unit)]]
      /\ th.i \in Storage /\ th.h \in Unit /\ th.h.count \in Nat
  <2>1. th \in Thread(SendPC)
    BY DEF TypeOK, ClientTypeOK
  <2>2. QED
    BY <2>1 DEF TypeOK, ClientTypeOK, WireTypeOK, PerConn, Thread, Unit
<1>i. PICK i \in Storage : th.i = i
  BY <1>0
<1>1. UNCHANGED <<down, sfd, reset, cr, sr, ss>>
  BY DEF storageVars, ClientSend, ClientSendBegin, ClientSendRequest, ClientSendHead,
         ClientSendItems, ClientSendFail, ClientSendExit, ClientSendClose, wireVars
<1>2. \A d \in Client, s \in Storage : cfd'[d][s] => cfd[d][s]
  <2>1. CASE ClientSendClose(c, t)
    <3>1. cfd' = [cfd EXCEPT ![c][i] = FALSE]
      BY <1>i, <2>1 DEF ClientSendClose
    <3>2. QED
      BY <1>0, <3>1, Point
  <2>2. CASE ~ClientSendClose(c, t)
    BY <2>2 DEF ClientSend, ClientSendBegin, ClientSendRequest, ClientSendHead,
         ClientSendItems, ClientSendFail, ClientSendExit, wireVars
  <2>3. QED
    BY <2>1, <2>2
<1>3. \A d \in Client, s \in Storage : DownLine(d, s)'
  BY <1>1, <1>2, DownKept DEF Lines
<1>4. /\ \A d \in Client \ {c} : \A u \in CSendThread : cs'[d][u] = cs[d][u]
      /\ \A u \in CSendThread \ {t} : cs'[c][u] = cs[c][u]
  <2>1. PICK v : cs' = [cs EXCEPT ![c][t] = v]
    BY DEF ClientSend, ClientSendBegin, ClientSendRequest, ClientSendHead,
           ClientSendItems, ClientSendFail, ClientSendExit, ClientSendClose
  <2>2. QED
    BY <1>0, <2>1
<1>5. SendHands(new) => Hands'
  <2>1. SendHands(new) => \A d \in Client : \A u \in CSendThread : SendHands(cs'[d][u])
    BY <1>4 DEF Hands
  <2>2. QED
    BY <1>1, <2>1 DEF Hands, RecvHands, SendHands, SRecvHands, SSendHands
<1>6. ASSUME SendHands(new), up' = up,
             \A s \in Storage : cfd'[c][s] => Due(new, s) = Due(th, s)
      PROVE  Hands' /\ Lines'
  <2>1. ASSUME NEW d \in Client, NEW s \in Storage PROVE UpLine(d, s)'
    <3>1. \A u \in CSendThread : cfd'[d][s] => Due(cs'[d][u], s) = Due(cs[d][u], s)
      BY <1>4, <1>6
    <3>2. QED
      BY <1>1, <1>2, <1>6, <3>1, UpKept DEF Lines
  <2>2. QED
    BY <1>3, <1>5, <1>6, <2>1 DEF Lines
<1>7. ASSUME NEW unit \in Unit, ClientPush(c, i, unit), SendHands(new), cfd' = cfd,
             Writing(th), Follows(UpHeads, Due(th, i), unit),
             \A s \in Storage \ {i} : Due(new, s) = {}, Due(new, i) = Opened(unit)
      PROVE  Hands' /\ Lines'
  <2>1. ASSUME NEW d \in Client, NEW s \in Storage, ~(d = c /\ s = i)
        PROVE  UpLine(d, s)'
    <3>1. \A u \in CSendThread : Due(cs'[d][u], s) = Due(cs[d][u], s)
      <4>1. d = c => Due(new, s) = {} /\ Due(th, s) = {}
        BY <1>i, <1>7, <2>1 DEF Due
      <4>2. QED
        BY <1>4, <4>1
    <3>2. up'[d][s] = up[d][s]
      BY <1>0, <1>7, <2>1, Point DEF ClientPush
    <3>3. QED
      BY <1>1, <1>7, <3>1, <3>2, UpKept DEF Lines
  <2>2. UpLine(c, i)'
    <3>1. UpLine(c, i)
      BY DEF Lines
    <3>2. QED
      BY <1>i, <1>1, <1>4, <1>7, <3>1, UpPush
  <2>3. \A d \in Client, s \in Storage : UpLine(d, s)'
    BY <2>1, <2>2
  <2>4. QED
    BY <1>3, <1>5, <1>7, <2>3 DEF Lines
<1>8. /\ SendHands(Idle) /\ SendHands(Exited)
      /\ \A s \in Storage : Due(Idle, s) = {} /\ Due(Exited, s) = {}
  BY DEF SendHands, Due, Idle, Exited, At
<1>9. CASE ClientSendBegin(c, t)
  <2>1. th.pc = "idle" /\ up' = up
    BY <1>9 DEF ClientSendBegin, wireVars
  <2>2. SendHands(new) /\ \A s \in Storage : Due(new, s) = {}
    <3>1. CASE \E k \in Storage, j \in Storage :
                 new = At("request", k, HeadUnit(Read, j, heads[c][k][j]))
      <4>1. PICK k \in Storage, j \in Storage :
                   new = At("request", k, HeadUnit(Read, j, heads[c][k][j]))
        BY <3>1
      <4>2. HeadUnit(Read, j, heads[c][k][j]) \in Unit
        BY UnitTypes DEF TypeOK, ClientTypeOK, PerRoute
      <4>3. /\ HeadUnit(Read, j, heads[c][k][j]) \in UpHeads
            /\ Opened(HeadUnit(Read, j, heads[c][k][j])) = {}
        BY <4>2 DEF HeadUnit, UpHeads, Opened, Read, Write
      <4>4. QED
        BY <4>1, <4>3 DEF SendHands, Due, At
    <3>2. CASE \E k \in Storage : /\ buffered[c][k] > 0
                 /\ new = At("head", k, HeadUnit(Write, NoIndex, Chunk(buffered[c][k])))
      <4>1. PICK k \in Storage : /\ buffered[c][k] > 0
                 /\ new = At("head", k, HeadUnit(Write, NoIndex, Chunk(buffered[c][k])))
        BY <3>2
      <4>2. Chunk(buffered[c][k]) \in Nat
        BY <4>1, ChunkType DEF TypeOK, ClientTypeOK, PerConn
      <4>3. HeadUnit(Write, NoIndex, Chunk(buffered[c][k])) \in Unit
        BY <4>2, UnitTypes
      <4>4. /\ HeadUnit(Write, NoIndex, Chunk(buffered[c][k])) \in UpHeads
            /\ HeadUnit(Write, NoIndex, Chunk(buffered[c][k])).type = Write
        BY <4>3 DEF HeadUnit, UpHeads
      <4>5. QED
        BY <4>1, <4>4 DEF SendHands, Due, At
    <3>3. QED
      BY <1>0, <1>9, <3>1, <3>2 DEF ClientSendBegin
  <2>3. \A s \in Storage : Due(th, s) = {}
    BY <2>1 DEF Due
  <2>4. QED
    BY <1>6, <2>1, <2>2, <2>3
<1>10. CASE ClientSendRequest(c, t)
  <2>1. th.pc = "request" /\ ClientPush(c, i, th.h) /\ cfd' = cfd /\ new = Idle
    BY <1>0, <1>i, <1>10 DEF ClientSendRequest
  <2>2. th.h \in UpHeads /\ Opened(th.h) = {}
    BY <2>1 DEF Hands, SendHands
  <2>3. Due(th, i) = {} /\ Writing(th)
    BY <2>1 DEF Due, Writing
  <2>4. Follows(UpHeads, Due(th, i), th.h)
    BY <2>2, <2>3, Follow
  <2>5. QED
    BY <1>0, <1>7, <1>8, <2>1, <2>2, <2>3, <2>4
<1>11. CASE ClientSendHead(c, t)
  <2>1. /\ th.pc = "head" /\ ClientPush(c, i, th.h) /\ cfd' = cfd
        /\ new = At("items", i, th.h)
    BY <1>0, <1>i, <1>11 DEF ClientSendHead
  <2>2. th.h \in UpHeads /\ th.h.type = Write
    BY <2>1 DEF Hands, SendHands
  <2>3. Opened(th.h) = {th.h}
    BY <2>2, Open
  <2>4. Due(th, i) = {} /\ Writing(th)
    BY <2>1 DEF Due, Writing
  <2>5. Follows(UpHeads, Due(th, i), th.h)
    BY <2>2, <2>4, Follow
  <2>6. /\ SendHands(new) /\ Due(new, i) = {th.h}
        /\ \A s \in Storage \ {i} : Due(new, s) = {}
    BY <2>1, <2>2 DEF SendHands, Due, At
  <2>7. QED
    BY <1>0, <1>7, <2>1, <2>3, <2>4, <2>5, <2>6
<1>12. CASE ClientSendItems(c, t)
  <2>1. /\ th.pc = "items" /\ ClientPush(c, i, ItemsUnit(th.h.count)) /\ cfd' = cfd
        /\ new = Idle
    BY <1>0, <1>i, <1>12 DEF ClientSendItems
  <2>2. Due(th, i) = {th.h} /\ Writing(th)
    BY <1>i, <2>1 DEF Due, Writing
  <2>3. Follows(UpHeads, Due(th, i), ItemsUnit(th.h.count))
    <3>1. Follows(UpHeads, {th.h}, ItemsUnit(th.h.count))
      BY Follow
    <3>2. QED
      BY <2>2, <3>1
  <2>4. Opened(ItemsUnit(th.h.count)) = {} /\ ItemsUnit(th.h.count) \in Unit
    BY <1>0, Open, UnitTypes
  <2>5. QED
    BY <1>7, <1>8, <2>1, <2>2, <2>3, <2>4
<1>13. CASE ClientSendClose(c, t)
  <2>1. up' = up /\ new = Exited /\ cfd' = [cfd EXCEPT ![c][i] = FALSE]
    BY <1>0, <1>i, <1>13 DEF ClientSendClose
  <2>2. \A s \in Storage : cfd'[c][s] => Due(th, s) = {}
    BY <1>0, <1>i, <2>1 DEF Due
  <2>3. QED
    BY <1>6, <1>8, <2>1, <2>2
<1>14. CASE ClientSendExit(c, t)
  <2>1. th.pc = "idle" /\ up' = up /\ new = Exited
    BY <1>0, <1>14 DEF ClientSendExit, wireVars
  <2>2. \A s \in Storage : Due(th, s) = {}
    BY <2>1 DEF Due
  <2>3. QED
    BY <1>6, <1>8, <2>1, <2>2
<1>15. QED
  BY <1>9, <1>10, <1>11, <1>12, <1>13, <1>14 DEF ClientSend, ClientSendFail

(* The end of a client closes all its connections.                         *)
LEMMA ClientDiesLines ==
  ASSUME TypeOK, Hands, Lines, NEW c \in Client, ClientDies(c), UNCHANGED storageVars
  PROVE  Hands' /\ Lines'
<1>0. /\ cr \in [Client -> [CRecvThread -> Thread(RecvPC)]]
      /\ cs \in [Client -> [CSendThread -> Thread(SendPC)]]
      /\ cfd \in [Client -> [Storage -> BOOLEAN]]
  BY DEF TypeOK, ClientTypeOK, WireTypeOK, PerConn
<1>1. UNCHANGED <<up, down, sfd, reset, sr, ss>>
  BY DEF ClientDies, storageVars
<1>2. /\ \A s \in Storage : ~cfd'[c][s]
      /\ \A d \in Client \ {c} : cfd'[d] = cfd[d] /\ cr'[d] = cr[d] /\ cs'[d] = cs[d]
      /\ \A t \in CRecvThread : cr'[c][t] = Exited
      /\ \A t \in CSendThread : cs'[c][t] = Exited
  BY <1>0 DEF ClientDies, OnStorage
<1>3. Hands'
  <2>1. RecvHands(Exited) /\ SendHands(Exited)
    BY DEF RecvHands, SendHands, Exited, At
  <2>2. ASSUME NEW d \in Client
        PROVE  /\ \A t \in CRecvThread : RecvHands(cr'[d][t])
               /\ \A t \in CSendThread : SendHands(cs'[d][t])
    BY <1>2, <2>1 DEF Hands
  <2>3. QED
    BY <1>1, <2>2 DEF Hands, RecvHands, SendHands, SRecvHands, SSendHands
<1>4. ASSUME NEW d \in Client, NEW s \in Storage PROVE UpLine(d, s)' /\ DownLine(d, s)'
  <2>1. CASE d = c
    BY <1>1, <1>2, <2>1, UpKept, DownKept DEF Lines
  <2>2. CASE d # c
    BY <1>1, <1>2, <2>2, UpKept, DownKept DEF Lines
  <2>3. QED
    BY <2>1, <2>2
<1>5. QED
  BY <1>3, <1>4 DEF Lines

(* The monitor loop and the end of the session.                            *)
LEMMA ClientMainLines ==
  ASSUME TypeOK, Exclusive, Hands, Lines, NEW c \in Client,
         ClientMain(c) \/ MonitorServerLost(c) \/ ClientTimeout(c),
         UNCHANGED storageVars
  PROVE  Hands' /\ Lines'
<1>1. CASE UNCHANGED <<up, down, sfd, reset, cr, cs>>
           /\ \A d \in Client, s \in Storage : cfd'[d][s] => cfd[d][s]
  <2>1. UNCHANGED <<sr, ss>>
    BY DEF storageVars
  <2>2. Hands'
    BY <1>1, <2>1 DEF Hands, RecvHands, SendHands, SRecvHands, SSendHands
  <2>3. \A d \in Client, s \in Storage : UpLine(d, s)' /\ DownLine(d, s)'
    BY <1>1, <2>1, UpKept, DownKept DEF Lines
  <2>4. QED
    BY <2>2, <2>3 DEF Lines
<1>2. CASE ClientMain(c)
  <2>1. UNCHANGED <<up, down, sfd, reset, cr, cs>>
    BY <1>2 DEF ClientMain, MonitorScan, MonitorReport, ClientFinish, wireVars
  <2>2. \A d \in Client, s \in Storage : cfd'[d][s] => cfd[d][s]
    <3>1. cfd \in [Client -> [Storage -> BOOLEAN]]
      BY DEF TypeOK, WireTypeOK, PerConn
    <3>2. CASE ClientFinish(c)
      BY <3>1, <3>2 DEF ClientFinish, OnStorage
    <3>3. CASE ~ClientFinish(c)
      BY <1>2, <3>3 DEF ClientMain, MonitorScan, MonitorReport, wireVars
    <3>4. QED
      BY <3>2, <3>3
  <2>3. QED
    BY <1>1, <2>1, <2>2
<1>3. CASE MonitorServerLost(c)
  <2>1. CASE ClientDies(c)
    BY <2>1, ClientDiesLines
  <2>2. CASE ~ClientDies(c)
    BY <1>1, <1>3, <2>2 DEF MonitorServerLost
  <2>3. QED
    BY <2>1, <2>2
<1>4. CASE ClientTimeout(c)
  <2>1. ASSUME NEW t \in CRecvThread, ClientRecvClose(c, t) PROVE Hands' /\ Lines'
    BY <2>1, ClientRecvLines
  <2>2. ASSUME NEW t \in CSendThread, ClientSendClose(c, t) PROVE Hands' /\ Lines'
    <3>1. CASE ClientSendKilled(c, t)
      BY <3>1, ClientDiesLines DEF ClientSendKilled
    <3>2. CASE ~ClientSendKilled(c, t)
      BY <2>2, <3>2, ClientSendLines
    <3>3. QED
      BY <3>1, <3>2
  <2>3. QED
    BY <1>4, <2>1, <2>2 DEF ClientTimeout
<1>5. QED
  BY <1>2, <1>3, <1>4

(* The head of a chunk is one a storage may send.                          *)
LEMMA ChunkHead ==
  ASSUME TypeOK, NEW c \in Client, NEW s \in Storage, NEW t \in SSendThread,
         NEW j \in Storage, replies[c][s][j] > 0, TakeChunk(s, t, c, j)
  PROVE  /\ SSendHands(ss'[s][t])
         /\ \A d \in Client : SDue(ss'[s][t], d) = {}
<1> DEFINE u == HeadUnit(Write, j, Chunk(replies[c][s][j]))
<1>1. Chunk(replies[c][s][j]) \in Nat
  BY ChunkType DEF TypeOK, StorageTypeOK, PerRoute
<1>2. u \in Unit
  BY <1>1, UnitTypes
<1>3. u \in DownHeads
  BY <1>2 DEF DownHeads, HeadUnit
<1>4. ss'[s][t] = SAt("head", c, u)
  BY DEF TakeChunk, TypeOK, StorageTypeOK
<1>5. QED
  BY <1>3, <1>4 DEF SSendHands, SDue, SAt

(* send_thread_routine of the storage.                                     *)
LEMMA StorageSendLines ==
  ASSUME TypeOK, Exclusive, Hands, Lines, NEW s \in Storage, NEW t \in SSendThread,
         StorageSend(s, t) \/ StorageSendClose(s, t), ~StorageSendKilled(s, t),
         UNCHANGED clientVars
  PROVE  Hands' /\ Lines'
<1> DEFINE th == ss[s][t]
           new == ss'[s][t]
<1>0. /\ ss \in [Storage -> [SSendThread -> SSendState]]
      /\ sfd \in [Client -> [Storage -> BOOLEAN]]
      /\ down \in [Client -> [Storage -> Seq(Unit)]]
      /\ th.c \in Client /\ th.h \in Unit /\ th.h.count \in Nat
  <2>1. th \in SSendState
    BY DEF TypeOK, StorageTypeOK
  <2>2. QED
    BY <2>1 DEF TypeOK, StorageTypeOK, WireTypeOK, PerConn, SSendState, SThread, Unit
<1>i. PICK c \in Client : th.c = c
  BY <1>0
<1>1. UNCHANGED <<up, cfd, reset, cr, cs, sr>>
  BY DEF clientVars, StorageSend, StorageSendBegin, StorageSendHead, StorageSendItems,
         StorageSendFail, StorageSendClose, wireVars
<1>2. \A d \in Client, e \in Storage : sfd'[d][e] => sfd[d][e]
  <2>1. CASE StorageSendClose(s, t)
    <3>1. sfd' = [sfd EXCEPT ![c][s] = FALSE]
      BY <1>i, <2>1 DEF StorageSendClose
    <3>2. QED
      BY <1>0, <3>1, Point
  <2>2. CASE ~StorageSendClose(s, t)
    BY <2>2 DEF StorageSend, StorageSendBegin, StorageSendHead, StorageSendItems,
         StorageSendFail, wireVars
  <2>3. QED
    BY <2>1, <2>2
<1>3. \A d \in Client, e \in Storage : UpLine(d, e)'
  BY <1>1, <1>2, UpKept DEF Lines
<1>4. /\ \A e \in Storage \ {s} : \A u \in SSendThread : ss'[e][u] = ss[e][u]
      /\ \A u \in SSendThread \ {t} : ss'[s][u] = ss[s][u]
  <2>1. PICK v : ss' = [ss EXCEPT ![s][t] = v]
    BY DEF StorageSend, StorageSendBegin, StorageSendHead, StorageSendItems,
           StorageSendFail, StorageSendClose, TakeChunk
  <2>2. QED
    BY <1>0, <2>1
<1>5. SSendHands(new) => Hands'
  <2>1. SSendHands(new) => \A e \in Storage : \A u \in SSendThread : SSendHands(ss'[e][u])
    BY <1>4 DEF Hands
  <2>2. QED
    BY <1>1, <2>1 DEF Hands, RecvHands, SendHands, SRecvHands, SSendHands
<1>6. ASSUME SSendHands(new), down' = down,
             \A d \in Client : sfd'[d][s] => SDue(new, d) = SDue(th, d)
      PROVE  Hands' /\ Lines'
  <2>1. ASSUME NEW d \in Client, NEW e \in Storage PROVE DownLine(d, e)'
    <3>1. \A u \in SSendThread : sfd'[d][e] => SDue(ss'[e][u], d) = SDue(ss[e][u], d)
      BY <1>4, <1>6
    <3>2. QED
      BY <1>1, <1>2, <1>6, <3>1, DownKept DEF Lines
  <2>2. QED
    BY <1>3, <1>5, <1>6, <2>1 DEF Lines
<1>7. ASSUME NEW unit \in Unit, StoragePush(c, s, unit), SSendHands(new), sfd' = sfd,
             Writing(th), Follows(DownHeads, SDue(th, c), unit),
             \A d \in Client \ {c} : SDue(new, d) = {}, SDue(new, c) = Opened(unit)
      PROVE  Hands' /\ Lines'
  <2>1. ASSUME NEW d \in Client, NEW e \in Storage, ~(d = c /\ e = s)
        PROVE  DownLine(d, e)'
    <3>1. \A u \in SSendThread : SDue(ss'[e][u], d) = SDue(ss[e][u], d)
      <4>1. e = s => SDue(new, d) = {} /\ SDue(th, d) = {}
        BY <1>i, <1>7, <2>1 DEF SDue
      <4>2. QED
        BY <1>4, <4>1
    <3>2. down'[d][e] = down[d][e]
      BY <1>0, <1>7, <2>1, Point DEF StoragePush
    <3>3. QED
      BY <1>1, <1>7, <3>1, <3>2, DownKept DEF Lines
  <2>2. DownLine(c, s)'
    <3>1. DownLine(c, s)
      BY DEF Lines
    <3>2. QED
      BY <1>i, <1>1, <1>4, <1>7, <3>1, DownPush
  <2>3. \A d \in Client, e \in Storage : DownLine(d, e)'
    BY <2>1, <2>2
  <2>4. QED
    BY <1>3, <1>5, <1>7, <2>3 DEF Lines
<1>8. /\ SSendHands(SIdle)
      /\ \A d \in Client : SDue(SIdle, d) = {}
  BY DEF SSendHands, SDue, SIdle, SAt
<1>9. CASE StorageSendBegin(s, t)
  <2>1. PICK e \in Client, j \in Storage : replies[e][s][j] > 0 /\ TakeChunk(s, t, e, j)
    BY <1>9 DEF StorageSendBegin, IsFirstHead
  <2>2. th.pc = "idle" /\ down' = down
    BY <1>9 DEF StorageSendBegin, wireVars
  <2>3. \A d \in Client : SDue(th, d) = {}
    BY <2>2 DEF SDue
  <2>4. SSendHands(new) /\ \A d \in Client : SDue(new, d) = {}
    BY <2>1, ChunkHead
  <2>5. QED
    BY <1>6, <2>2, <2>3, <2>4
<1>10. CASE StorageSendHead(s, t)
  <2>1. /\ th.pc = "head" /\ StoragePush(c, s, th.h) /\ sfd' = sfd
        /\ new = SAt("items", c, th.h)
    BY <1>0, <1>i, <1>10 DEF StorageSendHead
  <2>2. th.h \in DownHeads
    BY <2>1 DEF Hands, SSendHands
  <2>3. Opened(th.h) = {th.h}
    BY <2>2, Open
  <2>4. SDue(th, c) = {} /\ Writing(th)
    BY <2>1 DEF SDue, Writing
  <2>5. Follows(DownHeads, SDue(th, c), th.h)
    BY <2>2, <2>4, Follow
  <2>6. /\ SSendHands(new) /\ SDue(new, c) = {th.h}
        /\ \A d \in Client \ {c} : SDue(new, d) = {}
    BY <2>1, <2>2 DEF SSendHands, SDue, SAt
  <2>7. QED
    BY <1>0, <1>7, <2>1, <2>3, <2>4, <2>5, <2>6
<1>11. CASE StorageSendItems(s, t)
  <2>1. th.pc = "items" /\ StoragePush(c, s, ItemsUnit(th.h.count)) /\ sfd' = sfd
    BY <1>i, <1>11 DEF StorageSendItems
  <2>2. SDue(th, c) = {th.h} /\ Writing(th)
    BY <1>i, <2>1 DEF SDue, Writing
  <2>3. Follows(DownHeads, SDue(th, c), ItemsUnit(th.h.count))
    <3>1. Follows(DownHeads, {th.h}, ItemsUnit(th.h.count))
      BY Follow
    <3>2. QED
      BY <2>2, <3>1
  <2>4. Opened(ItemsUnit(th.h.count)) = {} /\ ItemsUnit(th.h.count) \in Unit
    BY <1>0, Open, UnitTypes
  <2>5. SSendHands(new) /\ \A d \in Client : SDue(new, d) = {}
    <3>1. CASE new = SIdle
      BY <1>8, <3>1
    <3>2. CASE /\ replies[c][s][th.h.index] > 0
               /\ TakeChunk(s, t, c, th.h.index)
      <4>1. th.h.index \in Storage
        BY <1>0, <2>1 DEF SSendState
      <4>2. QED
        BY <3>2, <4>1, ChunkHead
    <3>3. QED
      BY <1>0, <1>i, <1>11, <3>1, <3>2 DEF StorageSendItems
  <2>6. QED
    BY <1>7, <2>1, <2>2, <2>3, <2>4, <2>5
<1>12. CASE StorageSendClose(s, t)
  <2>1. down' = down /\ new = SIdle /\ sfd' = [sfd EXCEPT ![c][s] = FALSE]
    BY <1>0, <1>i, <1>12 DEF StorageSendClose
  <2>2. \A d \in Client : sfd'[d][s] => SDue(th, d) = {}
    BY <1>0, <1>i, <2>1 DEF SDue
  <2>3. QED
    BY <1>6, <1>8, <2>1, <2>2
<1>13. QED
  BY <1>9, <1>10, <1>11, <1>12 DEF StorageSend, StorageSendFail

(* The end of a storage closes all its connections.                        *)
LEMMA StorageKilledLines ==
  ASSUME TypeOK, Hands, Lines, NEW s \in Storage, NEW t \in SSendThread,
         StorageSendKilled(s, t), UNCHANGED clientVars
  PROVE  Hands' /\ Lines'
<1>0. /\ sr \in [Storage -> [SRecvThread -> SThread(SRecvPC)]]
      /\ ss \in [Storage -> [SSendThread -> SSendState]]
      /\ sfd \in [Client -> [Storage -> BOOLEAN]]
  BY DEF TypeOK, StorageTypeOK, WireTypeOK, PerConn
<1>1. UNCHANGED <<up, down, cfd, reset, cr, cs>>
  BY DEF StorageSendKilled, clientVars
<1>2. /\ \A d \in Client : ~sfd'[d][s]
      /\ \A d \in Client : \A e \in Storage \ {s} : sfd'[d][e] = sfd[d][e]
      /\ \A e \in Storage \ {s} : sr'[e] = sr[e] /\ ss'[e] = ss[e]
      /\ \A u \in SRecvThread : sr'[s][u] = SDead
      /\ \A u \in SSendThread : ss'[s][u] = SDead
  BY <1>0 DEF StorageSendKilled
<1>3. Hands'
  <2>1. SRecvHands(SDead) /\ SSendHands(SDead)
    BY DEF SRecvHands, SSendHands, SDead, SAt
  <2>2. ASSUME NEW e \in Storage
        PROVE  /\ \A u \in SRecvThread : SRecvHands(sr'[e][u])
               /\ \A u \in SSendThread : SSendHands(ss'[e][u])
    BY <1>2, <2>1 DEF Hands
  <2>3. QED
    BY <1>1, <2>2 DEF Hands, RecvHands, SendHands, SRecvHands, SSendHands
<1>4. ASSUME NEW d \in Client, NEW e \in Storage PROVE UpLine(d, e)' /\ DownLine(d, e)'
  <2>1. CASE e = s
    BY <1>1, <1>2, <2>1, UpKept, DownKept DEF Lines
  <2>2. CASE e # s
    BY <1>1, <1>2, <2>2, UpKept, DownKept DEF Lines
  <2>3. QED
    BY <2>1, <2>2
<1>5. QED
  BY <1>3, <1>4 DEF Lines

(* A reset leaves a prefix of each stream, to which nothing is added.      *)
LEMMA ConnResetLines ==
  ASSUME TypeOK, Hands, Lines, NEW c \in Client, NEW s \in Storage,
         ConnReset(c, s), UNCHANGED <<clientVars, storageVars>>
  PROVE  Hands' /\ Lines'
<1>1. UNCHANGED <<cfd, sfd, cr, cs, sr, ss>>
  BY DEF ConnReset, clientVars, storageVars
<1>2. Hands'
  BY <1>1 DEF Hands, RecvHands, SendHands, SRecvHands, SSendHands
<1>3. /\ up \in [Client -> [Storage -> Seq(Unit)]]
      /\ down \in [Client -> [Storage -> Seq(Unit)]]
      /\ reset \in [Client -> [Storage -> BOOLEAN]]
  BY DEF TypeOK, WireTypeOK, PerConn
<1>4. PICK m \in 0 .. Len(up[c][s]), n \in 0 .. Len(down[c][s]) :
         /\ up' = [up EXCEPT ![c][s] = SubSeq(up[c][s], 1, m)]
         /\ down' = [down EXCEPT ![c][s] = SubSeq(down[c][s], 1, n)]
  BY DEF ConnReset
<1>5. ASSUME NEW d \in Client, NEW e \in Storage, ~(d = c /\ e = s)
      PROVE  UpLine(d, e)' /\ DownLine(d, e)'
  <2>1. up'[d][e] = up[d][e] /\ down'[d][e] = down[d][e]
    BY <1>3, <1>4, <1>5, Point
  <2>2. reset'[d][e] = reset[d][e]
    <3>1. reset' = [reset EXCEPT ![c][s] = TRUE]
      BY DEF ConnReset
    <3>2. QED
      BY <1>3, <1>5, <3>1
  <2>3. QED
    BY <1>1, <2>1, <2>2, UpKept, DownKept DEF Lines
<1>6. /\ up'[c][s] = SubSeq(up[c][s], 1, m)
      /\ down'[c][s] = SubSeq(down[c][s], 1, n) /\ reset'[c][s] = TRUE
  BY <1>3, <1>4 DEF ConnReset
<1>7. /\ UpDue(c, s)' = UpDue(c, s)
      /\ DownDue(c, s)' = DownDue(c, s)
  BY <1>1 DEF UpDue, DownDue
<1>8. UpHeads \in SUBSET Unit /\ DownHeads \in SUBSET Unit
  BY DEF UpHeads, DownHeads
<1>9. up[c][s] \in Seq(Unit) /\ down[c][s] \in Seq(Unit)
  BY <1>3
<1>10. UpLine(c, s)'
  <2>1. sfd[c][s] => Line(UpHeads, SubSeq(up[c][s], 1, m), UpDue(c, s), UpOwed(c, s)', FALSE)
    BY <1>8, <1>9, LineCut DEF Lines, UpLine
  <2>2. QED
    BY <1>1, <1>6, <1>7, <2>1 DEF UpLine, Line
<1>11. DownLine(c, s)'
  <2>1. cfd[c][s] => Line(DownHeads, SubSeq(down[c][s], 1, n), DownDue(c, s),
                          DownOwed(c, s)', FALSE)
    BY <1>8, <1>9, LineCut DEF Lines, DownLine
  <2>2. QED
    BY <1>1, <1>6, <1>7, <2>1 DEF DownLine, Line
<1>12. \A d \in Client, e \in Storage : UpLine(d, e)' /\ DownLine(d, e)'
  BY <1>5, <1>10, <1>11
<1>13. QED
  BY <1>2, <1>12 DEF Lines

-----------------------------------------------------------------------------
(* The streams start empty, and nothing is at hand.                        *)
LEMMA LinesInit == Init => Hands /\ Lines
<1> SUFFICES ASSUME Init PROVE Hands /\ Lines
  OBVIOUS
<1>1. /\ \A c \in Client : /\ \A t \in CRecvThread : cr[c][t] = Idle
                           /\ \A t \in CSendThread : cs[c][t] = Idle
      /\ \A s \in Storage : /\ \A t \in SRecvThread : sr[s][t] = SIdle
                            /\ \A t \in SSendThread : ss[s][t] = SIdle
      /\ \A c \in Client, s \in Storage : up[c][s] = <<>> /\ down[c][s] = <<>>
  BY DEF Init, ClientInit, StorageInit, WireInit, OnConn, OnStorage
<1>2. /\ RecvHands(Idle) /\ SendHands(Idle) /\ \A i : Due(Idle, i) = {}
      /\ SRecvHands(SIdle) /\ SSendHands(SIdle) /\ \A c : SDue(SIdle, c) = {}
  BY DEF RecvHands, SendHands, SRecvHands, SSendHands, Idle, SIdle, At, SAt, Due, SDue
<1>3. Hands
  BY <1>1, <1>2 DEF Hands
<1>4. \A H : \A live : Line(H, <<>>, {}, {}, live)
  BY DEF Line
<1>5. ASSUME NEW c \in Client, NEW s \in Storage PROVE UpLine(c, s) /\ DownLine(c, s)
  <2>1. /\ UpDue(c, s) = {} /\ UpOwed(c, s) = {}
        /\ DownDue(c, s) = {} /\ DownOwed(c, s) = {}
    BY <1>1, <1>2 DEF UpDue, UpOwed, DownDue, DownOwed
  <2>2. QED
    BY <1>1, <2>1 DEF UpLine, DownLine, Line
<1>6. QED
  BY <1>3, <1>5 DEF Lines

(* Every step keeps the streams framed.                                    *)
LEMMA LinesNext == FInv /\ [Next]_vars => Hands' /\ Lines'
<1> SUFFICES ASSUME FInv, [Next]_vars PROVE Hands' /\ Lines'
  OBVIOUS
<1>0. TypeOK /\ Exclusive /\ Hands /\ Lines
  BY LockedExclusive DEF FInv
<1>1. ASSUME NEW c \in Client,
             ClientStep(c) \/ ClientTimeout(c) \/ MonitorServerLost(c),
             UNCHANGED storageVars
      PROVE  Hands' /\ Lines'
  <2>1. ASSUME NEW t \in CSendThread, ClientSend(c, t) PROVE Hands' /\ Lines'
    <3>1. CASE ClientSendKilled(c, t)
      BY <1>0, <1>1, <3>1, ClientDiesLines DEF ClientSendKilled
    <3>2. CASE ~ClientSendKilled(c, t)
      BY <1>0, <1>1, <2>1, <3>2, ClientSendLines
    <3>3. QED
      BY <3>1, <3>2
  <2>2. QED
    BY <1>0, <1>1, <2>1, ClientRecvLines, ClientMainLines DEF ClientStep
<1>2. ASSUME NEW s \in Storage, StorageStep(s) \/ StorageTimeout(s),
             UNCHANGED clientVars
      PROVE  Hands' /\ Lines'
  <2>1. ASSUME NEW t \in SSendThread, StorageSend(s, t) \/ StorageSendClose(s, t)
        PROVE  Hands' /\ Lines'
    <3>1. CASE StorageSendKilled(s, t)
      BY <1>0, <1>2, <3>1, StorageKilledLines
    <3>2. CASE ~StorageSendKilled(s, t)
      BY <1>0, <1>2, <2>1, <3>2, StorageSendLines
    <3>3. QED
      BY <3>1, <3>2
  <2>2. QED
    BY <1>0, <1>2, <2>1, StorageRecvLines DEF StorageStep, StorageTimeout
<1>3. ASSUME NEW c \in Client, NEW s \in Storage, ConnReset(c, s),
             UNCHANGED <<clientVars, storageVars>>
      PROVE  Hands' /\ Lines'
  BY <1>0, <1>3, ConnResetLines
<1>4. CASE UNCHANGED vars
  <2>1. UNCHANGED <<up, down, cfd, sfd, reset, cr, cs, sr, ss>>
    BY <1>4 DEF vars, wireVars, clientVars, storageVars
  <2>2. Hands'
    BY <1>0, <2>1 DEF Hands, RecvHands, SendHands, SRecvHands, SSendHands
  <2>3. \A c \in Client, s \in Storage : UpLine(c, s)' /\ DownLine(c, s)'
    BY <1>0, <2>1, UpKept, DownKept DEF Lines
  <2>4. QED
    BY <2>2, <2>3 DEF Lines
<1>5. QED
  BY <1>1, <1>2, <1>3, <1>4 DEF Next, AtRest

(* Every connection is a sequence of heads and of the items they announce, *)
(* from what its reader has already taken to what its writer still owes.   *)
LEMMA FramingInvariant == Spec => []FInv
<1>1. Init => FInv
  BY TypeInit, LockedInit, LinesInit DEF FInv
<1>2. FInv /\ [Next]_vars => FInv'
  BY TypeNext, LockedNext, LinesNext DEF FInv
<1>3. QED
  BY <1>1, <1>2, PTL DEF Spec

(* No receive thread of a client (idg_client.c:290-340) or of a storage    *)
(* (idg_storage.c:117-166) ever reads a unit it does not expect, for any   *)
(* number of clients, storages and threads, whatever is reset, times out   *)
(* or dies on the way.                                                     *)
THEOREM FramingKept == Spec => []Framed
<1>1. FInv => Framed
  BY DEF FInv, Hands, RecvHands, SRecvHands, Framed
<1>2. QED
  BY <1>1, FramingInvariant, PTL

-----------------------------------------------------------------------------
(* The relay.                                                              *)
LEMMA FiniteStorage == IsFiniteSet(Storage)
BY WireAssumption, FS_Interval DEF Storage

-----------------------------------------------------------------------------
(* The items in a stream and in the hands of threads, when W says for how  *)
(* many items a unit, or a thread, counts.                                 *)
InStream(W, q) == SumFunctionOnSet([k \in DOMAIN q |-> W[q[k]]], DOMAIN q)
InHands(W, threads) ==
  SumFunctionOnSet([t \in DOMAIN threads |-> W[threads[t]]], DOMAIN threads)

LEMMA StreamItems ==
  ASSUME NEW W \in [Unit -> Nat], NEW q \in Seq(Unit)
  PROVE  /\ InStream(W, q) \in Nat
         /\ \A u \in Unit : InStream(W, Append(q, u)) = InStream(W, q) + W[u]
         /\ q # <<>> => InStream(W, q) = W[Head(q)] + InStream(W, Tail(q))
         /\ \A m \in 0 .. Len(q) : InStream(W, SubSeq(q, 1, m)) <= InStream(W, q)
<1>. DEFINE n == Len(q)
            f == [k \in 1 .. n |-> W[q[k]]]
<1>1. n \in Nat /\ DOMAIN q = 1 .. n /\ \A k \in 1 .. n : q[k] \in Unit
  OBVIOUS
<1>2. \A k \in 1 .. n : f[k] \in Nat
  BY <1>1
<1>3. InStream(W, q) = SumFunctionOnSet(f, 1 .. n)
  BY <1>1 DEF InStream
<1>4. IsFiniteSet(1 .. n)
  BY <1>1, FS_Interval
<1>5. SumFunctionOnSet(f, 1 .. n) \in Nat
  <2>. DEFINE S == 1 .. n
  <2>1. IsFiniteSet(S) /\ \A k \in S : f[k] \in Nat
    BY <1>2, <1>4
  <2>. HIDE DEF S, f
  <2>2. SumFunctionOnSet(f, S) \in Nat
    BY <2>1, SumNat
  <2>. QED BY <2>2 DEF S
<1>6. ASSUME NEW u \in Unit
      PROVE  InStream(W, Append(q, u)) = InStream(W, q) + W[u]
  <2>. DEFINE r == Append(q, u)
              g == [k \in 1 .. n + 1 |-> W[r[k]]]
  <2>1. DOMAIN r = 1 .. n + 1 /\ r[n + 1] = u /\ \A k \in 1 .. n : r[k] = q[k]
    BY <1>1
  <2>2. InStream(W, r) = SumFunctionOnSet(g, 1 .. n + 1)
    <3>. HIDE DEF r, n
    <3>. QED BY <2>1 DEF InStream
  <2>3. /\ \A k \in 1 .. n : f[k] \in Nat /\ g[k] = f[k]
        /\ g[n + 1] \in Nat /\ g[n + 1] = W[u]
    <3>1. n + 1 \in 1 .. n + 1 /\ \A k \in 1 .. n : k \in 1 .. n + 1
      BY <1>1
    <3>. HIDE DEF r, n
    <3>. QED BY <1>2, <2>1, <3>1
  <2>. HIDE DEF n, f, g
  <2>4. SumFunctionOnSet(g, 1 .. n + 1) = SumFunctionOnSet(f, 1 .. n) + g[n + 1]
    BY <1>1, <2>3, SumAppend
  <2>. QED BY <1>3, <2>2, <2>3, <2>4
<1>7. ASSUME q # <<>>
      PROVE  InStream(W, q) = W[Head(q)] + InStream(W, Tail(q))
  <2>. DEFINE r == Tail(q)
              g == [k \in 1 .. n - 1 |-> W[r[k]]]
  <2>1. /\ n # 0 /\ Head(q) = q[1] /\ DOMAIN r = 1 .. n - 1
        /\ \A k \in 1 .. n - 1 : r[k] = q[k + 1]
    BY <1>1, <1>7
  <2>2. InStream(W, r) = SumFunctionOnSet(g, 1 .. n - 1)
    <3>. HIDE DEF r, n
    <3>. QED BY <2>1 DEF InStream
  <2>3. (\A k \in 1 .. n - 1 : g[k] = f[k + 1]) /\ f[1] = W[Head(q)]
    <3>1. 1 \in 1 .. n /\ \A k \in 1 .. n - 1 : k + 1 \in 1 .. n
      BY <1>1, <2>1
    <3>. HIDE DEF r, n
    <3>. QED BY <2>1, <3>1
  <2>. HIDE DEF n, f, g
  <2>4. SumFunctionOnSet(f, 1 .. n) = f[1] + SumFunctionOnSet(g, 1 .. n - 1)
    BY <1>1, <1>2, <2>1, <2>3, SumTail
  <2>. QED BY <1>3, <2>2, <2>3, <2>4
<1>8. ASSUME NEW m \in 0 .. n
      PROVE  InStream(W, SubSeq(q, 1, m)) <= InStream(W, q)
  <2>. DEFINE r == SubSeq(q, 1, m)
              g == [k \in 1 .. m |-> W[r[k]]]
  <2>1. DOMAIN r = 1 .. m /\ \A k \in 1 .. m : r[k] = q[k]
    BY <1>1
  <2>2. InStream(W, r) = SumFunctionOnSet(g, 1 .. m)
    <3>. HIDE DEF r, n
    <3>. QED BY <2>1 DEF InStream
  <2>3. \A k \in 1 .. m : f[k] \in Int /\ g[k] = f[k]
    <3>1. \A k \in 1 .. m : k \in 1 .. n
      BY <1>1
    <3>. HIDE DEF r, n
    <3>. QED BY <1>2, <2>1, <3>1
  <2>4. (1 .. m) \in SUBSET (1 .. n) /\ IsFiniteSet(1 .. m)
    BY <1>1, FS_Interval
  <2>. DEFINE S == 1 .. n
              P == 1 .. m
  <2>5. /\ IsFiniteSet(S) /\ IsFiniteSet(P) /\ P \in SUBSET S
        /\ \A k \in S : f[k] \in Nat
        /\ \A k \in P : f[k] \in Int /\ g[k] = f[k]
    BY <1>2, <1>4, <2>3, <2>4
  <2>6. InStream(W, q) = SumFunctionOnSet(f, S) /\ InStream(W, r) = SumFunctionOnSet(g, P)
    BY <1>3, <2>2
  <2>. HIDE DEF n, f, g, S, P
  <2>7. SumFunctionOnSet(g, P) = SumFunctionOnSet(f, P)
    BY <2>5, SumSame
  <2>8. SumFunctionOnSet(f, P) <= SumFunctionOnSet(f, S)
    BY <2>5, SumSubset
  <2>. QED BY <2>6, <2>7, <2>8
<1>. QED BY <1>3, <1>5, <1>6, <1>7, <1>8

LEMMA ThreadItems ==
  ASSUME NEW T, IsFiniteSet(T), NEW X, NEW W \in [X -> Nat], NEW threads \in [T -> X]
  PROVE  /\ InHands(W, threads) \in Nat
         /\ \A t \in T : W[threads[t]] <= InHands(W, threads)
         /\ \A t \in T, x \in X :
              InHands(W, [threads EXCEPT ![t] = x]) =
                InHands(W, threads) + (W[x] - W[threads[t]])
<1>. DEFINE f == [t \in T |-> W[threads[t]]]
<1>1. InHands(W, threads) = SumFunctionOnSet(f, T) /\ \A t \in T : f[t] \in Nat
  BY DEF InHands
<1>2. ASSUME NEW t \in T, NEW x \in X
      PROVE  InHands(W, [threads EXCEPT ![t] = x]) =
               InHands(W, threads) + (W[x] - W[threads[t]])
  <2>. DEFINE r == [threads EXCEPT ![t] = x]
              g == [u \in T |-> W[r[u]]]
  <2>1. DOMAIN r = T /\ r[t] = x /\ \A u \in T \ {t} : r[u] = threads[u]
    OBVIOUS
  <2>2. InHands(W, r) = SumFunctionOnSet(g, T)
    <3>. HIDE DEF r
    <3>. QED BY <2>1 DEF InHands
  <2>3. /\ \A u \in T \ {t} : g[u] = f[u]
        /\ g[t] = W[x] /\ g[t] \in Int /\ f[t] = W[threads[t]]
        /\ \A u \in T : f[u] \in Int
    <3>. HIDE DEF r
    <3>. QED BY <2>1
  <2>. HIDE DEF f, g
  <2>4. SumFunctionOnSet(g, T) = SumFunctionOnSet(f, T) + (g[t] - f[t])
    BY <2>3, SumChanges
  <2>. QED BY <1>1, <2>2, <2>3, <2>4
<1>3. SumFunctionOnSet(f, T) \in Nat /\ \A t \in T : f[t] <= SumFunctionOnSet(f, T)
  <2>. HIDE DEF f
  <2>. QED BY <1>1, SumNat
<1>. QED BY <1>1, <1>2, <1>3

(* Threads that count for nothing hold nothing.                            *)
LEMMA NoItems ==
  ASSUME NEW T, IsFiniteSet(T), NEW W, NEW threads, DOMAIN threads = T,
         \A t \in T : W[threads[t]] = 0
  PROVE  InHands(W, threads) = 0
<1>. DEFINE f == [t \in T |-> W[threads[t]]]
<1>1. InHands(W, threads) = SumFunctionOnSet(f, T) /\ \A t \in T : f[t] = 0
  BY DEF InHands
<1>. HIDE DEF f
<1>. QED BY <1>1, SumZero

-----------------------------------------------------------------------------
(* For how many items of a route a unit, or a thread, counts.              *)
AskedOf(j) ==
  [u \in Unit |-> IF u.kind = "head" /\ u.type = Read /\ u.index = j
                  THEN u.count ELSE 0]
ComingOf(j) ==
  [u \in Unit |-> IF u.kind = "head" /\ u.index = j THEN u.count ELSE 0]
UnitItems == [u \in Unit |-> IF u.kind = "items" THEN u.count ELSE 0]

ReplyingOf(c, j) ==
  [th \in SSendState |-> IF th.pc = "head" /\ th.c = c /\ th.h.index = j
                         THEN th.h.count ELSE 0]
ReceivingOf(i, j) ==
  [th \in Thread(RecvPC) |-> IF th.pc = "items" /\ th.i = i /\ th.h.index = j
                             THEN th.h.count ELSE 0]
CountingOf(i) ==
  [th \in Thread(RecvPC) |-> IF th.pc = "count" /\ th.i = i
                             THEN th.h.count ELSE 0]
SendingOf(j) ==
  [th \in Thread(SendPC) |-> IF th.pc \in {"head", "items"} /\ th.i = j
                             THEN th.h.count ELSE 0]

LEMMA Weights ==
  /\ \A j : AskedOf(j) \in [Unit -> Nat] /\ ComingOf(j) \in [Unit -> Nat]
  /\ UnitItems \in [Unit -> Nat]
  /\ \A c, j : ReplyingOf(c, j) \in [SSendState -> Nat]
  /\ \A i, j : ReceivingOf(i, j) \in [Thread(RecvPC) -> Nat]
  /\ \A i : CountingOf(i) \in [Thread(RecvPC) -> Nat]
  /\ \A j : SendingOf(j) \in [Thread(SendPC) -> Nat]
<1>1. \A u \in Unit : u.count \in Nat
  BY DEF Unit
<1>2. \A pcs : \A th \in Thread(pcs) : th.h.count \in Nat
  BY <1>1 DEF Thread
<1>3. \A th \in SSendState : th.h.count \in Nat
  BY <1>1 DEF SSendState, SThread
<1>. QED BY <1>1, <1>2, <1>3
     DEF AskedOf, ComingOf, UnitItems, ReplyingOf, ReceivingOf, CountingOf, SendingOf

LEMMA StreamViews ==
  ASSUME NEW q \in Seq(Unit), NEW j
  PROVE  /\ Asked(q, j) = InStream(AskedOf(j), q)
         /\ Coming(q, j) = InStream(ComingOf(j), q)
<1>1. \A k \in DOMAIN q : q[k] \in Unit
  OBVIOUS
<1>2. Asked(q, j) = InStream(AskedOf(j), q)
  <2>1. [k \in DOMAIN q |-> AskedOf(j)[q[k]]] =
          [k \in DOMAIN q |-> IF q[k].kind = "head" /\ q[k].type = Read /\ q[k].index = j
                             THEN q[k].count ELSE 0]
    BY <1>1 DEF AskedOf
  <2>. QED BY <2>1 DEF Asked, ItemsIn, InStream
<1>3. Coming(q, j) = InStream(ComingOf(j), q)
  <2>1. [k \in DOMAIN q |-> ComingOf(j)[q[k]]] =
          [k \in DOMAIN q |-> IF q[k].kind = "head" /\ q[k].index = j
                             THEN q[k].count ELSE 0]
    BY <1>1 DEF ComingOf
  <2>. QED BY <2>1 DEF Coming, ItemsIn, InStream
<1>. QED BY <1>2, <1>3

LEMMA FlightView ==
  ASSUME NEW c, NEW s
  PROVE  /\ up[c][s] \in Seq(Unit) => InFlight(c, s) = InStream(UnitItems, up[c][s])
         /\ up'[c][s] \in Seq(Unit) => InFlight(c, s)' = InStream(UnitItems, up'[c][s])
<1>1. ASSUME NEW q \in Seq(Unit)
      PROVE  [k \in DOMAIN q |-> UnitItems[q[k]]] =
               [k \in DOMAIN q |-> IF q[k].kind = "items" THEN q[k].count ELSE 0]
  <2>1. \A k \in DOMAIN q : q[k] \in Unit
    OBVIOUS
  <2>. QED BY <2>1 DEF UnitItems
<1>. QED BY <1>1 DEF InFlight, ItemsIn, InStream

LEMMA ReplyingView ==
  ASSUME NEW threads \in [SSendThread -> SSendState], NEW c, NEW j
  PROVE  Replying(threads, c, j) = InHands(ReplyingOf(c, j), threads)
<1>1. [t \in DOMAIN threads |-> ReplyingOf(c, j)[threads[t]]] =
        [t \in DOMAIN threads |->
           IF threads[t].pc = "head" /\ threads[t].c = c /\ threads[t].h.index = j
           THEN threads[t].h.count ELSE 0]
  BY DEF ReplyingOf
<1>. QED BY <1>1 DEF Replying, ItemsAt, InHands

LEMMA ReceivingView ==
  ASSUME NEW threads \in [CRecvThread -> Thread(RecvPC)], NEW i, NEW j
  PROVE  Receiving(threads, i, j) = InHands(ReceivingOf(i, j), threads)
<1>1. [t \in DOMAIN threads |-> ReceivingOf(i, j)[threads[t]]] =
        [t \in DOMAIN threads |->
           IF threads[t].pc = "items" /\ threads[t].i = i /\ threads[t].h.index = j
           THEN threads[t].h.count ELSE 0]
  BY DEF ReceivingOf
<1>. QED BY <1>1 DEF Receiving, ItemsAt, InHands

LEMMA FetchedView ==
  ASSUME NEW c, NEW i
  PROVE  /\ cr[c] \in [CRecvThread -> Thread(RecvPC)] =>
              Fetched(c, i) = recvCount[c][i] + InHands(CountingOf(i), cr[c])
         /\ cr'[c] \in [CRecvThread -> Thread(RecvPC)] =>
              Fetched(c, i)' = recvCount'[c][i] + InHands(CountingOf(i), cr'[c])
<1>1. ASSUME NEW threads \in [CRecvThread -> Thread(RecvPC)]
      PROVE  [t \in DOMAIN threads |-> CountingOf(i)[threads[t]]] =
               [t \in DOMAIN threads |->
                  IF threads[t].pc = "count" /\ threads[t].i = i
                  THEN threads[t].h.count ELSE 0]
  BY DEF CountingOf
<1>. QED BY <1>1 DEF Fetched, ItemsAt, InHands

LEMMA SendingView ==
  ASSUME NEW c, NEW j
  PROVE  /\ cs[c] \in [CSendThread -> Thread(SendPC)] =>
              Sending(c, j) = InHands(SendingOf(j), cs[c])
         /\ cs'[c] \in [CSendThread -> Thread(SendPC)] =>
              Sending(c, j)' = InHands(SendingOf(j), cs'[c])
<1>1. ASSUME NEW threads \in [CSendThread -> Thread(SendPC)]
      PROVE  [t \in DOMAIN threads |-> SendingOf(j)[threads[t]]] =
               [t \in DOMAIN threads |->
                  IF threads[t].pc \in {"head", "items"} /\ threads[t].i = j
                  THEN threads[t].h.count ELSE 0]
  BY DEF SendingOf
<1>. QED BY <1>1 DEF Sending, ItemsAt, InHands

-----------------------------------------------------------------------------
(* The inductive invariant.                                                *)

(* Items outstanding for storage j, and from storage i.                    *)
OwedTo(c, j) == SumFunctionOnSet([i \in Storage |-> Outstanding(c, i, j)], Storage)
OwedBy(c, i) == SumFunctionOnSet([j \in Storage |-> Outstanding(c, i, j)], Storage)

(* Every item for storage j the client accounts for, and every item it has *)
(* or is to have from storage i.                                           *)
Accounted(c, j) == OwedTo(c, j) + Waiting(c, j) + sendCount[c][j]
Sourced(c, i)   == OwedBy(c, i) + Fetched(c, i)

ToFetch(c, i) ==
  SumFunctionOnSet([j \in Storage |-> Request[c][i][j]], Storage)

Balanced ==
  \A c \in Client : outcome[c] = "none" =>
    \A s \in Storage : /\ Accounted(c, s) <= ToSend(c, s)
                       /\ Intact(c) => Accounted(c, s) = ToSend(c, s)
                       /\ Sourced(c, s) <= ToFetch(c, s)

(* The chunks in the hands of threads and announced to clients are of at   *)
(* least one item and at most MTU.                                         *)
RecvChunks ==
  {th \in Thread(RecvPC) : th.pc \in {"items", "count"} =>
                             th.h.index \in Storage /\ th.h.count \in 1 .. MTU}
SendChunks ==
  {th \in Thread(SendPC) : th.pc \in {"head", "items"} => th.h.count \in 1 .. MTU}
ReplyChunks ==
  {th \in SSendState : th.pc \in {"head", "items"} => th.h.count \in 1 .. MTU}
DownChunks == {u \in Unit : u.kind = "head" => u.count \in 1 .. MTU}

Chunks ==
  /\ cr \in [Client -> [CRecvThread -> RecvChunks]]
  /\ cs \in [Client -> [CSendThread -> SendChunks]]
  /\ ss \in [Storage -> [SSendThread -> ReplyChunks]]
  /\ down \in [Client -> [Storage -> Seq(DownChunks)]]

(* A send thread about to ask storage i asks for what the head says.       *)
Asking ==
  \A c \in Client, t \in CSendThread : cs[c][t].pc = "request" =>
    LET i == cs[c][t].i
        u == cs[c][t].h
    IN  /\ u.index \in Storage /\ u.kind = "head" /\ u.type = Read
        /\ u.count = heads[c][i][u.index] /\ u.count > 0

Requests(u, j) == u.kind = "head" /\ u.type = Read /\ u.index = j

(* A route is asked for once: a request overwrites no count of the storage.*)
Once ==
  \A c \in Client, i \in Storage, j \in Storage :
    LET q == up[c][i] IN
    /\ heads[c][i][j] > 0 =>
         replies[c][i][j] = 0 /\ \A k \in DOMAIN q : ~Requests(q[k], j)
    /\ \A k \in DOMAIN q : Requests(q[k], j) =>
         replies[c][i][j] = 0 /\ \A m \in DOMAIN q \ {k} : ~Requests(q[m], j)

(* What was sent to a storage has been read there or is on its way.        *)
Arriving ==
  \A c \in Client, s \in Storage :
    outcome[c] = "none" /\ sfd[c][s] /\ ~reset[c][s] =>
      delivered[c][s] + InFlight(c, s) = sendCount[c][s]

(* A session that has ended has no thread left.                            *)
Ended ==
  \A c \in Client :
    /\ mon[c].pc = "done" <=> outcome[c] # "none"
    /\ outcome[c] # "none" => /\ \A t \in CRecvThread : cr[c][t].pc = "exit"
                              /\ \A t \in CSendThread : cs[c][t].pc = "exit"

(* What the monitor has counted is so, and it leaves its loop for a reason.*)
Counted(c) ==
  LET m == mon[c] IN
  m.pc # "done" =>
    /\ m.ends <= 2 * m.i
    /\ \/ m.err
       \/ m.ends < 2 * m.i
       \/ \A k \in Storage : k < m.i => sendCount[c][k] >= ToSend(c, k)
    /\ m.pc # "scan" => m.i = StorageCount
    /\ m.pc = "join" => m.err \/ ~serverUp[c] \/ m.ends >= 2 * StorageCount

Scanned == \A c \in Client : Counted(c)

RInv ==
  /\ FInv /\ Chunks /\ Asking /\ Once /\ Ended /\ Scanned
  /\ Arriving /\ Balanced /\ CompleteIsSent

-----------------------------------------------------------------------------
(* How steps change what streams and threads hold.                         *)

LEMMA StateTypes ==
  ASSUME TypeOK
  PROVE  /\ up \in [Client -> [Storage -> Seq(Unit)]]
         /\ down \in [Client -> [Storage -> Seq(Unit)]]
         /\ heads \in [Client -> [Storage -> [Storage -> Nat]]]
         /\ replies \in [Client -> [Storage -> [Storage -> Nat]]]
         /\ buffered \in [Client -> [Storage -> Nat]]
         /\ recvCount \in [Client -> [Storage -> Nat]]
         /\ sendCount \in [Client -> [Storage -> Nat]]
         /\ delivered \in [Client -> [Storage -> Nat]]
         /\ cfd \in [Client -> [Storage -> BOOLEAN]]
         /\ sfd \in [Client -> [Storage -> BOOLEAN]]
         /\ reset \in [Client -> [Storage -> BOOLEAN]]
         /\ cr \in [Client -> [CRecvThread -> Thread(RecvPC)]]
         /\ cs \in [Client -> [CSendThread -> Thread(SendPC)]]
         /\ sr \in [Storage -> [SRecvThread -> SThread(SRecvPC)]]
         /\ ss \in [Storage -> [SSendThread -> SSendState]]
BY DEF TypeOK, WireTypeOK, ClientTypeOK, StorageTypeOK, PerConn, PerRoute

LEMMA NextTypes ==
  ASSUME TypeOK'
  PROVE  /\ up' \in [Client -> [Storage -> Seq(Unit)]]
         /\ down' \in [Client -> [Storage -> Seq(Unit)]]
         /\ heads' \in [Client -> [Storage -> [Storage -> Nat]]]
         /\ replies' \in [Client -> [Storage -> [Storage -> Nat]]]
         /\ buffered' \in [Client -> [Storage -> Nat]]
         /\ recvCount' \in [Client -> [Storage -> Nat]]
         /\ sendCount' \in [Client -> [Storage -> Nat]]
         /\ cr' \in [Client -> [CRecvThread -> Thread(RecvPC)]]
         /\ cs' \in [Client -> [CSendThread -> Thread(SendPC)]]
         /\ ss' \in [Storage -> [SSendThread -> SSendState]]
BY DEF TypeOK, WireTypeOK, ClientTypeOK, StorageTypeOK, PerConn, PerRoute

(* What a stream holds of the items of a route, before and after a unit is *)
(* added or taken, or the stream is cut.                                   *)
LEMMA AskedMoves ==
  ASSUME NEW q \in Seq(Unit), NEW j
  PROVE  /\ Asked(q, j) \in Nat
         /\ \A u \in Unit : Asked(Append(q, u), j) = Asked(q, j) + AskedOf(j)[u]
         /\ q # <<>> => Asked(q, j) = AskedOf(j)[Head(q)] + Asked(Tail(q), j)
         /\ \A m \in 0 .. Len(q) : Asked(SubSeq(q, 1, m), j) <= Asked(q, j)
<1>. DEFINE W == AskedOf(j)
<1>1. W \in [Unit -> Nat]
  BY Weights
<1>2. \A p \in Seq(Unit) : Asked(p, j) = InStream(W, p)
  BY StreamViews
<1>3. /\ \A u \in Unit : Append(q, u) \in Seq(Unit)
      /\ q # <<>> => Tail(q) \in Seq(Unit)
      /\ \A m \in 0 .. Len(q) : SubSeq(q, 1, m) \in Seq(Unit)
  OBVIOUS
<1>. HIDE DEF W
<1>4. /\ InStream(W, q) \in Nat
      /\ \A u \in Unit : InStream(W, Append(q, u)) = InStream(W, q) + W[u]
      /\ q # <<>> => InStream(W, q) = W[Head(q)] + InStream(W, Tail(q))
      /\ \A m \in 0 .. Len(q) : InStream(W, SubSeq(q, 1, m)) <= InStream(W, q)
  BY <1>1, StreamItems
<1>5. Asked(q, j) \in Nat
  BY <1>2, <1>4
<1>6. \A u \in Unit : Asked(Append(q, u), j) = Asked(q, j) + W[u]
  BY <1>2, <1>3, <1>4
<1>7. q # <<>> => Asked(q, j) = W[Head(q)] + Asked(Tail(q), j)
  BY <1>2, <1>3, <1>4
<1>8. \A m \in 0 .. Len(q) : Asked(SubSeq(q, 1, m), j) <= Asked(q, j)
  BY <1>2, <1>3, <1>4
<1>. QED BY <1>5, <1>6, <1>7, <1>8 DEF W

LEMMA ComingMoves ==
  ASSUME NEW q \in Seq(Unit), NEW j
  PROVE  /\ Coming(q, j) \in Nat
         /\ \A u \in Unit : Coming(Append(q, u), j) = Coming(q, j) + ComingOf(j)[u]
         /\ q # <<>> => Coming(q, j) = ComingOf(j)[Head(q)] + Coming(Tail(q), j)
         /\ \A m \in 0 .. Len(q) : Coming(SubSeq(q, 1, m), j) <= Coming(q, j)
<1>. DEFINE W == ComingOf(j)
<1>1. W \in [Unit -> Nat]
  BY Weights
<1>2. \A p \in Seq(Unit) : Coming(p, j) = InStream(W, p)
  BY StreamViews
<1>3. /\ \A u \in Unit : Append(q, u) \in Seq(Unit)
      /\ q # <<>> => Tail(q) \in Seq(Unit)
      /\ \A m \in 0 .. Len(q) : SubSeq(q, 1, m) \in Seq(Unit)
  OBVIOUS
<1>. HIDE DEF W
<1>4. /\ InStream(W, q) \in Nat
      /\ \A u \in Unit : InStream(W, Append(q, u)) = InStream(W, q) + W[u]
      /\ q # <<>> => InStream(W, q) = W[Head(q)] + InStream(W, Tail(q))
      /\ \A m \in 0 .. Len(q) : InStream(W, SubSeq(q, 1, m)) <= InStream(W, q)
  BY <1>1, StreamItems
<1>5. Coming(q, j) \in Nat
  BY <1>2, <1>4
<1>6. \A u \in Unit : Coming(Append(q, u), j) = Coming(q, j) + W[u]
  BY <1>2, <1>3, <1>4
<1>7. q # <<>> => Coming(q, j) = W[Head(q)] + Coming(Tail(q), j)
  BY <1>2, <1>3, <1>4
<1>8. \A m \in 0 .. Len(q) : Coming(SubSeq(q, 1, m), j) <= Coming(q, j)
  BY <1>2, <1>3, <1>4
<1>. QED BY <1>5, <1>6, <1>7, <1>8 DEF W

LEMMA ThreadNat ==
  /\ \A threads \in [SSendThread -> SSendState] : \A c, j : Replying(threads, c, j) \in Nat
  /\ \A threads \in [CRecvThread -> Thread(RecvPC)] : \A i, j :
        Receiving(threads, i, j) \in Nat /\ InHands(CountingOf(i), threads) \in Nat
  /\ \A threads \in [CSendThread -> Thread(SendPC)] : \A j :
        InHands(SendingOf(j), threads) \in Nat
<1>1. /\ IsFiniteSet(CRecvThread) /\ IsFiniteSet(CSendThread)
      /\ IsFiniteSet(SSendThread)
  BY RelayAssumption, StorageAssumption
<1>2. ASSUME NEW threads \in [SSendThread -> SSendState], NEW c, NEW j
      PROVE  Replying(threads, c, j) \in Nat
  <2>1. ReplyingOf(c, j) \in [SSendState -> Nat]
    BY Weights
  <2>. QED BY <1>1, <2>1, ReplyingView, ThreadItems
<1>3. ASSUME NEW threads \in [CRecvThread -> Thread(RecvPC)], NEW i, NEW j
      PROVE  Receiving(threads, i, j) \in Nat /\ InHands(CountingOf(i), threads) \in Nat
  <2>1. /\ ReceivingOf(i, j) \in [Thread(RecvPC) -> Nat]
        /\ CountingOf(i) \in [Thread(RecvPC) -> Nat]
    BY Weights
  <2>2. InHands(ReceivingOf(i, j), threads) \in Nat /\ InHands(CountingOf(i), threads) \in Nat
    BY <1>1, <2>1, ThreadItems
  <2>. QED BY <2>2, ReceivingView
<1>4. ASSUME NEW threads \in [CSendThread -> Thread(SendPC)], NEW j
      PROVE  InHands(SendingOf(j), threads) \in Nat
  <2>1. SendingOf(j) \in [Thread(SendPC) -> Nat]
    BY Weights
  <2>. QED BY <1>1, <2>1, ThreadItems
<1>. QED BY <1>2, <1>3, <1>4

LEMMA OutstandingNat ==
  ASSUME NEW c \in Client, NEW i \in Storage, NEW j \in Storage
  PROVE  /\ TypeOK => Outstanding(c, i, j) \in Nat
         /\ TypeOK' => Outstanding(c, i, j)' \in Nat
<1>1. ASSUME NEW h \in Nat, NEW q \in Seq(Unit), NEW r \in Nat,
             NEW sending \in [SSendThread -> SSendState], NEW p \in Seq(Unit),
             NEW receiving \in [CRecvThread -> Thread(RecvPC)]
      PROVE  h + Asked(q, j) + r + Replying(sending, c, j) + Coming(p, j)
               + Receiving(receiving, i, j) \in Nat
  <2>1. Asked(q, j) \in Nat /\ Coming(p, j) \in Nat
    BY AskedMoves, ComingMoves
  <2>2. Replying(sending, c, j) \in Nat /\ Receiving(receiving, i, j) \in Nat
    BY ThreadNat
  <2>. QED BY <2>1, <2>2
<1>2. ASSUME TypeOK
      PROVE  Outstanding(c, i, j) \in Nat
  <2>1. /\ heads[c][i][j] \in Nat /\ up[c][i] \in Seq(Unit) /\ replies[c][i][j] \in Nat
        /\ ss[i] \in [SSendThread -> SSendState] /\ down[c][i] \in Seq(Unit)
        /\ cr[c] \in [CRecvThread -> Thread(RecvPC)]
    <3>. USE <1>2, StateTypes
    <3>1. heads[c][i][j] \in Nat /\ up[c][i] \in Seq(Unit)
      OBVIOUS
    <3>2. replies[c][i][j] \in Nat /\ ss[i] \in [SSendThread -> SSendState]
      OBVIOUS
    <3>3. down[c][i] \in Seq(Unit) /\ cr[c] \in [CRecvThread -> Thread(RecvPC)]
      OBVIOUS
    <3>. QED BY <3>1, <3>2, <3>3
  <2>. QED BY <1>1, <2>1 DEF Outstanding
<1>3. ASSUME TypeOK'
      PROVE  Outstanding(c, i, j)' \in Nat
  <2>1. /\ heads'[c][i][j] \in Nat /\ up'[c][i] \in Seq(Unit) /\ replies'[c][i][j] \in Nat
        /\ ss'[i] \in [SSendThread -> SSendState] /\ down'[c][i] \in Seq(Unit)
        /\ cr'[c] \in [CRecvThread -> Thread(RecvPC)]
    <3>. USE <1>3, NextTypes
    <3>1. heads'[c][i][j] \in Nat /\ up'[c][i] \in Seq(Unit)
      OBVIOUS
    <3>2. replies'[c][i][j] \in Nat /\ ss'[i] \in [SSendThread -> SSendState]
      OBVIOUS
    <3>3. down'[c][i] \in Seq(Unit) /\ cr'[c] \in [CRecvThread -> Thread(RecvPC)]
      OBVIOUS
    <3>. QED BY <3>1, <3>2, <3>3
  <2>. QED BY <1>1, <2>1 DEF Outstanding
<1>. QED BY <1>2, <1>3

LEMMA UpPushed ==
  ASSUME TypeOK, NEW c \in Client, NEW s \in Storage, NEW u \in Unit, ClientPush(c, s, u)
  PROVE  /\ \A x \in Client, y \in Storage : x # c \/ y # s => up'[x][y] = up[x][y]
         /\ \A j : Asked(up'[c][s], j) = Asked(up[c][s], j) + AskedOf(j)[u]
         /\ InFlight(c, s)' = InFlight(c, s) + UnitItems[u]
<1>1. up[c][s] \in Seq(Unit) /\ up'[c][s] = Append(up[c][s], u)
  BY StateTypes DEF ClientPush
<1>2. up'[c][s] \in Seq(Unit)
  BY <1>1
<1>3. \A x \in Client, y \in Storage : x # c \/ y # s => up'[x][y] = up[x][y]
  BY StateTypes DEF ClientPush
<1>4. \A j : Asked(up'[c][s], j) = Asked(up[c][s], j) + AskedOf(j)[u]
  BY <1>1, <1>2, AskedMoves
<1>5. InFlight(c, s)' = InFlight(c, s) + UnitItems[u]
  <2>1. /\ InFlight(c, s) = InStream(UnitItems, up[c][s])
        /\ InFlight(c, s)' = InStream(UnitItems, up'[c][s])
    BY <1>1, <1>2, FlightView
  <2>2. UnitItems \in [Unit -> Nat]
    BY Weights
  <2>. QED BY <1>1, <2>1, <2>2, StreamItems
<1>. QED BY <1>3, <1>4, <1>5

LEMMA UpPopped ==
  ASSUME TypeOK, NEW c \in Client, NEW s \in Storage, StoragePop(c, s)
  PROVE  /\ \A x \in Client, y \in Storage : x # c \/ y # s => up'[x][y] = up[x][y]
         /\ Head(up[c][s]) \in Unit
         /\ \A j : Asked(up[c][s], j) = AskedOf(j)[Head(up[c][s])] + Asked(up'[c][s], j)
         /\ InFlight(c, s) = UnitItems[Head(up[c][s])] + InFlight(c, s)'
<1>1. up[c][s] \in Seq(Unit) /\ up[c][s] # <<>> /\ up'[c][s] = Tail(up[c][s])
  BY StateTypes DEF StoragePop
<1>2. up'[c][s] \in Seq(Unit) /\ Head(up[c][s]) \in Unit
  BY <1>1
<1>3. \A x \in Client, y \in Storage : x # c \/ y # s => up'[x][y] = up[x][y]
  BY StateTypes DEF StoragePop
<1>4. \A j : Asked(up[c][s], j) = AskedOf(j)[Head(up[c][s])] + Asked(up'[c][s], j)
  BY <1>1, <1>2, AskedMoves
<1>5. InFlight(c, s) = UnitItems[Head(up[c][s])] + InFlight(c, s)'
  <2>1. /\ InFlight(c, s) = InStream(UnitItems, up[c][s])
        /\ InFlight(c, s)' = InStream(UnitItems, up'[c][s])
    BY <1>1, <1>2, FlightView
  <2>2. UnitItems \in [Unit -> Nat]
    BY Weights
  <2>. QED BY <1>1, <2>1, <2>2, StreamItems
<1>. QED BY <1>2, <1>3, <1>4, <1>5

LEMMA DownPushed ==
  ASSUME TypeOK, NEW c \in Client, NEW s \in Storage, NEW u \in Unit, StoragePush(c, s, u)
  PROVE  /\ \A x \in Client, y \in Storage : x # c \/ y # s => down'[x][y] = down[x][y]
         /\ \A j : Coming(down'[c][s], j) = Coming(down[c][s], j) + ComingOf(j)[u]
<1>1. down[c][s] \in Seq(Unit) /\ down'[c][s] = Append(down[c][s], u)
  BY StateTypes DEF StoragePush
<1>2. down'[c][s] \in Seq(Unit)
  BY <1>1
<1>3. \A x \in Client, y \in Storage : x # c \/ y # s => down'[x][y] = down[x][y]
  BY StateTypes DEF StoragePush
<1>4. \A j : Coming(down'[c][s], j) = Coming(down[c][s], j) + ComingOf(j)[u]
  BY <1>1, <1>2, ComingMoves
<1>. QED BY <1>3, <1>4

LEMMA DownPopped ==
  ASSUME TypeOK, NEW c \in Client, NEW s \in Storage, ClientPop(c, s)
  PROVE  /\ \A x \in Client, y \in Storage : x # c \/ y # s => down'[x][y] = down[x][y]
         /\ Head(down[c][s]) \in Unit
         /\ \A j : Coming(down[c][s], j) =
                     ComingOf(j)[Head(down[c][s])] + Coming(down'[c][s], j)
<1>1. down[c][s] \in Seq(Unit) /\ down[c][s] # <<>> /\ down'[c][s] = Tail(down[c][s])
  BY StateTypes DEF ClientPop
<1>2. down'[c][s] \in Seq(Unit) /\ Head(down[c][s]) \in Unit
  BY <1>1
<1>3. \A x \in Client, y \in Storage : x # c \/ y # s => down'[x][y] = down[x][y]
  BY StateTypes DEF ClientPop
<1>4. \A j : Coming(down[c][s], j) = ComingOf(j)[Head(down[c][s])] + Coming(down'[c][s], j)
  BY <1>1, <1>2, ComingMoves
<1>. QED BY <1>2, <1>3, <1>4

LEMMA CrChanged ==
  ASSUME TypeOK, NEW c \in Client, NEW t \in CRecvThread, NEW v \in Thread(RecvPC),
         cr' = [cr EXCEPT ![c][t] = v]
  PROVE  /\ \A x \in Client \ {c} : cr'[x] = cr[x]
         /\ \A i, j : Receiving(cr'[c], i, j) =
              Receiving(cr[c], i, j) + (ReceivingOf(i, j)[v] - ReceivingOf(i, j)[cr[c][t]])
         /\ \A i : InHands(CountingOf(i), cr'[c]) =
              InHands(CountingOf(i), cr[c]) + (CountingOf(i)[v] - CountingOf(i)[cr[c][t]])
<1>1. /\ cr[c] \in [CRecvThread -> Thread(RecvPC)]
      /\ cr'[c] = [cr[c] EXCEPT ![t] = v]
      /\ \A x \in Client \ {c} : cr'[x] = cr[x]
  BY StateTypes
<1>2. cr'[c] \in [CRecvThread -> Thread(RecvPC)] /\ IsFiniteSet(CRecvThread)
  BY <1>1, RelayAssumption
<1>3. \A W \in [Thread(RecvPC) -> Nat] :
         InHands(W, cr'[c]) = InHands(W, cr[c]) + (W[v] - W[cr[c][t]])
  BY <1>1, <1>2, ThreadItems
<1>4. ASSUME NEW i, NEW j
      PROVE  Receiving(cr'[c], i, j) =
              Receiving(cr[c], i, j) + (ReceivingOf(i, j)[v] - ReceivingOf(i, j)[cr[c][t]])
  <2>1. /\ Receiving(cr'[c], i, j) = InHands(ReceivingOf(i, j), cr'[c])
        /\ Receiving(cr[c], i, j) = InHands(ReceivingOf(i, j), cr[c])
    BY <1>1, <1>2, ReceivingView
  <2>2. ReceivingOf(i, j) \in [Thread(RecvPC) -> Nat]
    BY Weights
  <2>. QED BY <1>3, <2>1, <2>2
<1>5. \A i : CountingOf(i) \in [Thread(RecvPC) -> Nat]
  BY Weights
<1>. QED BY <1>1, <1>3, <1>4, <1>5

LEMMA CsChanged ==
  ASSUME TypeOK, NEW c \in Client, NEW t \in CSendThread, NEW v \in Thread(SendPC),
         cs' = [cs EXCEPT ![c][t] = v]
  PROVE  /\ \A x \in Client \ {c} : cs'[x] = cs[x]
         /\ \A j : /\ Sending(c, j)' =
                        Sending(c, j) + (SendingOf(j)[v] - SendingOf(j)[cs[c][t]])
                   /\ SendingOf(j)[cs[c][t]] <= Sending(c, j)
<1>1. /\ cs[c] \in [CSendThread -> Thread(SendPC)]
      /\ cs'[c] = [cs[c] EXCEPT ![t] = v]
      /\ \A x \in Client \ {c} : cs'[x] = cs[x]
  BY StateTypes
<1>2. cs'[c] \in [CSendThread -> Thread(SendPC)] /\ IsFiniteSet(CSendThread)
  BY <1>1, RelayAssumption
<1>3. \A W \in [Thread(SendPC) -> Nat] :
         /\ InHands(W, cs'[c]) = InHands(W, cs[c]) + (W[v] - W[cs[c][t]])
         /\ W[cs[c][t]] <= InHands(W, cs[c])
  BY <1>1, <1>2, ThreadItems
<1>4. \A j : Sending(c, j)' = InHands(SendingOf(j), cs'[c])
             /\ Sending(c, j) = InHands(SendingOf(j), cs[c])
  BY <1>1, <1>2, SendingView
<1>5. \A j : SendingOf(j) \in [Thread(SendPC) -> Nat]
  BY Weights
<1>6. ASSUME NEW j
      PROVE  /\ Sending(c, j)' =
                  Sending(c, j) + (SendingOf(j)[v] - SendingOf(j)[cs[c][t]])
             /\ SendingOf(j)[cs[c][t]] <= Sending(c, j)
  BY <1>3, <1>4, <1>5
<1>. QED BY <1>1, <1>6

LEMMA SsChanged ==
  ASSUME TypeOK, NEW s \in Storage, NEW t \in SSendThread, NEW v \in SSendState,
         ss' = [ss EXCEPT ![s][t] = v]
  PROVE  /\ \A y \in Storage \ {s} : ss'[y] = ss[y]
         /\ \A c, j : Replying(ss'[s], c, j) =
              Replying(ss[s], c, j) + (ReplyingOf(c, j)[v] - ReplyingOf(c, j)[ss[s][t]])
<1>1. /\ ss[s] \in [SSendThread -> SSendState]
      /\ ss'[s] = [ss[s] EXCEPT ![t] = v]
      /\ \A y \in Storage \ {s} : ss'[y] = ss[y]
  BY StateTypes
<1>2. ss'[s] \in [SSendThread -> SSendState] /\ IsFiniteSet(SSendThread)
  BY <1>1, StorageAssumption
<1>3. \A W \in [SSendState -> Nat] :
         InHands(W, ss'[s]) = InHands(W, ss[s]) + (W[v] - W[ss[s][t]])
  BY <1>1, <1>2, ThreadItems
<1>4. \A c, j : Replying(ss'[s], c, j) = InHands(ReplyingOf(c, j), ss'[s])
                /\ Replying(ss[s], c, j) = InHands(ReplyingOf(c, j), ss[s])
  BY <1>1, <1>2, ReplyingView
<1>5. \A c, j : ReplyingOf(c, j) \in [SSendState -> Nat]
  BY Weights
<1>6. ASSUME NEW c, NEW j
      PROVE  Replying(ss'[s], c, j) =
              Replying(ss[s], c, j) + (ReplyingOf(c, j)[v] - ReplyingOf(c, j)[ss[s][t]])
  BY <1>3, <1>4, <1>5
<1>. QED BY <1>1, <1>6

-----------------------------------------------------------------------------
(* What a step does to the items of a client.  Most steps leave what it    *)
(* has fetched, holds and has sent, and move an item of a route from one   *)
(* place to the next, or lose it with its connection.                      *)
Still(c) ==
  \A s \in Storage :
    /\ Fetched(c, s)' = Fetched(c, s)
    /\ Waiting(c, s)' = Waiting(c, s)
    /\ sendCount'[c][s] = sendCount[c][s]

Shrinks(c) ==
  /\ \A i, j \in Storage : Outstanding(c, i, j)' <= Outstanding(c, i, j)
  /\ Intact(c)' => /\ Intact(c)
                   /\ \A i, j \in Storage :
                        Outstanding(c, i, j)' = Outstanding(c, i, j)

(* A change at one route.                                                  *)
LEMMA RoutePoint ==
  ASSUME NEW f \in [Client -> [Storage -> [Storage -> Nat]]],
         NEW c \in Client, NEW s \in Storage, NEW k \in Storage, NEW v,
         NEW g, g = [f EXCEPT ![c][s][k] = v]
  PROVE  /\ \A x \in Client, y \in Storage : x # c \/ y # s => g[x][y] = f[x][y]
         /\ g[c][s][k] = v
         /\ \A j \in Storage \ {k} : g[c][s][j] = f[c][s][j]
OBVIOUS

LEMMA RouteKept ==
  ASSUME NEW c \in Client, NEW i \in Storage, NEW j \in Storage,
         heads'[c][i][j] = heads[c][i][j],
         Asked(up'[c][i], j) = Asked(up[c][i], j),
         replies'[c][i][j] = replies[c][i][j],
         Replying(ss'[i], c, j) = Replying(ss[i], c, j),
         Coming(down'[c][i], j) = Coming(down[c][i], j),
         Receiving(cr'[c], i, j) = Receiving(cr[c], i, j)
  PROVE  Outstanding(c, i, j)' = Outstanding(c, i, j)
BY DEF Outstanding

(* The numbers a route adds up.                                            *)
LEMMA RouteNat ==
  ASSUME TypeOK, NEW c \in Client, NEW i \in Storage, NEW j \in Storage
  PROVE  /\ heads[c][i][j] \in Nat /\ Asked(up[c][i], j) \in Nat
         /\ replies[c][i][j] \in Nat /\ Replying(ss[i], c, j) \in Nat
         /\ Coming(down[c][i], j) \in Nat /\ Receiving(cr[c], i, j) \in Nat
<1>1. heads[c][i][j] \in Nat /\ up[c][i] \in Seq(Unit)
  BY StateTypes
<1>2. replies[c][i][j] \in Nat /\ ss[i] \in [SSendThread -> SSendState]
  BY StateTypes
<1>3. down[c][i] \in Seq(Unit) /\ cr[c] \in [CRecvThread -> Thread(RecvPC)]
  BY StateTypes
<1>4. Asked(up[c][i], j) \in Nat /\ Coming(down[c][i], j) \in Nat
  BY <1>1, <1>3, AskedMoves, ComingMoves
<1>5. Replying(ss[i], c, j) \in Nat /\ Receiving(cr[c], i, j) \in Nat
  BY <1>2, <1>3, ThreadNat
<1>. QED BY <1>1, <1>2, <1>4, <1>5

LEMMA NextRouteNat ==
  ASSUME TypeOK', NEW c \in Client, NEW i \in Storage, NEW j \in Storage
  PROVE  /\ heads'[c][i][j] \in Nat /\ Asked(up'[c][i], j) \in Nat
         /\ replies'[c][i][j] \in Nat /\ Replying(ss'[i], c, j) \in Nat
         /\ Coming(down'[c][i], j) \in Nat /\ Receiving(cr'[c], i, j) \in Nat
<1>1. heads'[c][i][j] \in Nat /\ up'[c][i] \in Seq(Unit)
  BY NextTypes
<1>2. replies'[c][i][j] \in Nat /\ ss'[i] \in [SSendThread -> SSendState]
  BY NextTypes
<1>3. down'[c][i] \in Seq(Unit) /\ cr'[c] \in [CRecvThread -> Thread(RecvPC)]
  BY NextTypes
<1>4. Asked(up'[c][i], j) \in Nat /\ Coming(down'[c][i], j) \in Nat
  BY <1>1, <1>3, AskedMoves, ComingMoves
<1>5. Replying(ss'[i], c, j) \in Nat /\ Receiving(cr'[c], i, j) \in Nat
  BY <1>2, <1>3, ThreadNat
<1>. QED BY <1>1, <1>2, <1>4, <1>5

(* The open connections only become fewer.                                 *)
Closes ==
  \A c \in Client, s \in Storage :
    /\ cfd'[c][s] => cfd[c][s]
    /\ sfd'[c][s] => sfd[c][s]
    /\ reset[c][s] => reset'[c][s]

LEMMA ShrinksKept ==
  ASSUME TypeOK, Closes, NEW c \in Client,
         \A i, j \in Storage : Outstanding(c, i, j)' = Outstanding(c, i, j)
  PROVE  Shrinks(c)
<1>1. \A i, j \in Storage : Outstanding(c, i, j) \in Nat
  BY OutstandingNat
<1>2. Intact(c)' => Intact(c)
  BY DEF Closes, Intact
<1>. QED BY <1>1, <1>2 DEF Shrinks

LEMMA ShrinksLost ==
  ASSUME NEW c \in Client, NEW s \in Storage, ~cfd'[c][s] \/ ~sfd'[c][s] \/ reset'[c][s],
         \A i, j \in Storage : Outstanding(c, i, j)' <= Outstanding(c, i, j)
  PROVE  Shrinks(c)
BY DEF Shrinks, Intact

LEMMA StorageRecvFlow ==
  ASSUME TypeOK, TypeOK', Hands', Once, NEW s \in Storage, NEW t \in SRecvThread,
         StorageRecv(s, t) \/ StorageRecvClose(s, t), UNCHANGED clientVars
  PROVE  \A x \in Client : Shrinks(x)
<1>. DEFINE th == sr[s][t]
<1>0. /\ cr' = cr /\ heads' = heads
      /\ th.c \in Client /\ sr'[s][t].pc # "garbled"
  <2>1. th \in SThread(SRecvPC)
    BY StateTypes
  <2>2. SRecvHands(sr'[s][t])
    BY DEF Hands
  <2>. QED BY <2>1, <2>2 DEF clientVars, SThread, SRecvHands
<1>c. PICK c \in Client : th.c = c
  BY <1>0
(* The steps that only take a unit that asks for nothing, if any.          *)
<1>1. ASSUME UNCHANGED <<down, cfd, sfd, reset, replies, ss>>,
             \A x \in Client, i \in Storage, j \in Storage :
               Asked(up'[x][i], j) = Asked(up[x][i], j)
      PROVE  \A x \in Client : Shrinks(x)
  <2>1. \A x \in Client : \A i, j \in Storage :
           Outstanding(x, i, j)' = Outstanding(x, i, j)
    BY <1>0, <1>1 DEF Outstanding
  <2>2. Closes
    BY <1>1 DEF Closes
  <2>. QED BY <2>1, <2>2, ShrinksKept
<1>2. CASE StorageRecvBegin(s, t)
  BY <1>1, <1>2 DEF StorageRecvBegin, wireVars
<1>3. CASE StorageRecvRequest(s, t)
  <2>. DEFINE unit == Head(up[c][s])
              j0 == unit.index
  <2>1. /\ StoragePop(c, s) /\ unit.kind = "head" /\ unit.type = Read /\ j0 \in Storage
        /\ replies' = [replies EXCEPT ![c][s][j0] = unit.count]
        /\ UNCHANGED <<down, cfd, sfd, reset, ss>>
    BY <1>3, <1>c DEF StorageRecvRequest
  <2>2. replies[c][s][j0] = 0
    <3>1. up[c][s] \in Seq(Unit) /\ up[c][s] # <<>>
      BY <2>1, StateTypes DEF StoragePop
    <3>2. 1 \in DOMAIN up[c][s] /\ up[c][s][1] = unit
      BY <3>1
    <3>3. Requests(unit, j0)
      BY <2>1 DEF Requests
    <3>. QED BY <2>1, <3>2, <3>3 DEF Once
  <2>3. /\ \A x \in Client, y \in Storage : x # c \/ y # s => up'[x][y] = up[x][y]
        /\ unit \in Unit
        /\ \A j : Asked(up[c][s], j) = AskedOf(j)[unit] + Asked(up'[c][s], j)
    BY <2>1, UpPopped
  <2>4. /\ \A x \in Client, y \in Storage : x # c \/ y # s => replies'[x][y] = replies[x][y]
        /\ replies'[c][s][j0] = unit.count
        /\ \A j \in Storage \ {j0} : replies'[c][s][j] = replies[c][s][j]
    <3>1. replies \in [Client -> [Storage -> [Storage -> Nat]]]
      BY StateTypes
    <3>. QED BY <2>1, <3>1, RoutePoint
  <2>5. /\ AskedOf(j0)[unit] = unit.count
        /\ \A j \in Storage \ {j0} : AskedOf(j)[unit] = 0
    BY <2>1, <2>3 DEF AskedOf
  <2>6. unit.count \in Nat
    BY <2>3 DEF Unit
  <2>7. ASSUME NEW x \in Client, NEW i \in Storage, NEW j \in Storage
        PROVE  Outstanding(x, i, j)' = Outstanding(x, i, j)
    <3>1. CASE x # c \/ i # s
      <4>1. up'[x][i] = up[x][i] /\ replies'[x][i] = replies[x][i]
        BY <2>3, <2>4, <3>1
      <4>. QED BY <1>0, <2>1, <4>1, RouteKept
    <3>2. CASE x = c /\ i = s
      <4>. DEFINE a == Asked(up[c][s], j)  b == Asked(up'[c][s], j)
                  h == heads[c][s][j]  r == replies[c][s][j]  w == replies'[c][s][j]
                  p == Replying(ss[s], c, j)  d == Coming(down[c][s], j)
                  q == Receiving(cr[c], s, j)
      <4>1. Outstanding(c, s, j) = h + a + r + p + d + q
        BY DEF Outstanding
      <4>2. Outstanding(c, s, j)' = h + b + w + p + d + q
        BY <1>0, <2>1 DEF Outstanding
      <4>3. h \in Nat /\ a \in Nat /\ r \in Nat /\ p \in Nat /\ d \in Nat /\ q \in Nat
        BY RouteNat
      <4>4. b \in Nat /\ w \in Nat
        BY NextRouteNat
      <4>5. a + r = b + w
        <5>1. CASE j = j0
          <6>1. a = unit.count + b /\ r = 0 /\ w = unit.count
            BY <2>2, <2>3, <2>4, <2>5, <5>1
          <6>. HIDE DEF a, b, r, w
          <6>. QED BY <2>6, <4>3, <4>4, <6>1
        <5>2. CASE j # j0
          <6>1. a = 0 + b /\ r = w
            BY <2>3, <2>4, <2>5, <5>2
          <6>. HIDE DEF a, b, r, w
          <6>. QED BY <4>3, <4>4, <6>1
        <5>. QED BY <5>1, <5>2
      <4>. HIDE DEF a, b, h, r, w, p, d, q
      <4>6. h + b + w + p + d + q = h + a + r + p + d + q
        BY <4>3, <4>4, <4>5
      <4>. QED BY <3>2, <4>1, <4>2, <4>6
    <3>. QED BY <3>1, <3>2
  <2>8. Closes
    BY <2>1 DEF Closes
  <2>. QED BY <2>7, <2>8, ShrinksKept
<1>4. CASE StorageRecvHead(s, t) \/ StorageRecvItems(s, t)
  <2>. DEFINE unit == Head(up[c][s])
  <2>1. StoragePop(c, s) /\ UNCHANGED <<down, cfd, sfd, reset, replies, ss>>
    BY <1>4, <1>c DEF StorageRecvHead, StorageRecvItems
  <2>2. /\ \A x \in Client, y \in Storage : x # c \/ y # s => up'[x][y] = up[x][y]
        /\ unit \in Unit
        /\ \A j : Asked(up[c][s], j) = AskedOf(j)[unit] + Asked(up'[c][s], j)
    BY <2>1, UpPopped
  <2>3. \A j \in Storage : AskedOf(j)[unit] = 0
    <3>1. CASE StorageRecvHead(s, t)
      <4>1. ~(unit.kind = "head" /\ unit.type = Read /\ unit.index \in Storage)
        BY <1>c, <3>1 DEF StorageRecvHead
      <4>. QED BY <2>2, <4>1 DEF AskedOf
    <3>2. CASE StorageRecvItems(s, t)
      <4>1. CASE unit = ItemsUnit(th.h.count)
        <5>1. unit.kind = "items"
          BY <4>1 DEF ItemsUnit
        <5>. QED BY <2>2, <5>1 DEF AskedOf
      <4>2. CASE unit # ItemsUnit(th.h.count)
        <5>1. sr' = [sr EXCEPT ![s][t] = SAt("garbled", th.c, unit)]
          BY <1>c, <3>2, <4>2 DEF StorageRecvItems
        <5>2. sr'[s][t].pc = "garbled"
          BY <5>1, StateTypes DEF SAt
        <5>. QED BY <1>0, <5>2
      <4>. QED BY <4>1, <4>2
    <3>. QED BY <1>4, <3>1, <3>2
  <2>4. ASSUME NEW x \in Client, NEW i \in Storage, NEW j \in Storage
        PROVE  Asked(up'[x][i], j) = Asked(up[x][i], j)
    <3>1. CASE x # c \/ i # s
      BY <2>2, <3>1
    <3>2. CASE x = c /\ i = s
      <4>1. Asked(up[c][s], j) = 0 + Asked(up'[c][s], j)
        BY <2>2, <2>3
      <4>2. Asked(up'[c][s], j) \in Nat
        BY NextRouteNat
      <4>. QED BY <3>2, <4>1, <4>2
    <3>. QED BY <3>1, <3>2
  <2>. QED BY <1>1, <2>1, <2>4
<1>5. CASE StorageRecvClose(s, t)
  <2>1. /\ UNCHANGED <<up, down, cfd, reset, replies, ss>>
        /\ sfd' = [sfd EXCEPT ![c][s] = FALSE]
    BY <1>5, <1>c DEF StorageRecvClose
  <2>2. \A x \in Client : \A i, j \in Storage :
           Outstanding(x, i, j)' = Outstanding(x, i, j)
    BY <1>0, <2>1 DEF Outstanding
  <2>3. \A x \in Client, y \in Storage : sfd'[x][y] => sfd[x][y]
    <3>1. sfd \in [Client -> [Storage -> BOOLEAN]]
      BY StateTypes
    <3>. QED BY <2>1, <3>1
  <2>4. Closes
    BY <2>1, <2>3 DEF Closes
  <2>. QED BY <2>2, <2>4, ShrinksKept
<1>. QED BY <1>2, <1>3, <1>4, <1>5 DEF StorageRecv, StorageRecvFail

(* A chunk taken from the replies of a route is in the hands of the thread.*)
LEMMA TakeChunkFlow ==
  ASSUME TypeOK, TypeOK', NEW c \in Client, NEW s \in Storage, NEW t \in SSendThread,
         NEW k \in Storage, TakeChunk(s, t, c, k), replies[c][s][k] > 0,
         ss[s][t].pc # "head", UNCHANGED <<heads, cr>>,
         \A x \in Client, i \in Storage, j \in Storage :
            /\ Asked(up'[x][i], j) = Asked(up[x][i], j)
            /\ Coming(down'[x][i], j) = Coming(down[x][i], j)
  PROVE  \A x \in Client : \A i, j \in Storage :
            Outstanding(x, i, j)' = Outstanding(x, i, j)
<1>. DEFINE n == Chunk(replies[c][s][k])
            v == SAt("head", c, HeadUnit(Write, k, n))
<1>1. /\ replies' = [replies EXCEPT ![c][s][k] = replies[c][s][k] - n]
      /\ ss' = [ss EXCEPT ![s][t] = v]
  BY DEF TakeChunk
<1>2. n \in Nat /\ replies[c][s][k] \in Nat /\ replies[c][s][k] - n \in Nat
  BY ChunkType, RouteNat
<1>3. v \in SSendState /\ v.pc = "head" /\ v.c = c /\ v.h.index = k /\ v.h.count = n
  <2>1. HeadUnit(Write, k, n) \in Unit
    BY <1>2, UnitTypes
  <2>2. /\ HeadUnit(Write, k, n).index = k /\ HeadUnit(Write, k, n).count = n
        /\ v.h = HeadUnit(Write, k, n) /\ v.pc = "head" /\ v.c = c
    BY DEF HeadUnit, SAt
  <2>. HIDE DEF n
  <2>. QED BY <2>1, <2>2, SendStates
<1>. HIDE DEF v
<1>4. /\ \A y \in Storage \ {s} : ss'[y] = ss[y]
      /\ \A x, j : Replying(ss'[s], x, j) =
            Replying(ss[s], x, j) + (ReplyingOf(x, j)[v] - ReplyingOf(x, j)[ss[s][t]])
  BY <1>1, <1>3, SsChanged
<1>5. ss[s][t] \in SSendState
  BY StateTypes
<1>6. \A x, j : /\ ReplyingOf(x, j)[ss[s][t]] = 0
                /\ ReplyingOf(x, j)[v] = IF x = c /\ j = k THEN n ELSE 0
  BY <1>3, <1>5 DEF ReplyingOf
<1>7. /\ \A x \in Client, y \in Storage : x # c \/ y # s => replies'[x][y] = replies[x][y]
      /\ replies'[c][s][k] = replies[c][s][k] - n
      /\ \A j \in Storage \ {k} : replies'[c][s][j] = replies[c][s][j]
  <2>1. replies \in [Client -> [Storage -> [Storage -> Nat]]]
    BY StateTypes
  <2>. HIDE DEF n
  <2>. QED BY <1>1, <2>1, RoutePoint
<1>. HIDE DEF n
<1>8. ASSUME NEW x \in Client, NEW i \in Storage, NEW j \in Storage
      PROVE  Outstanding(x, i, j)' = Outstanding(x, i, j)
  <2>1. CASE i # s
    <3>1. replies'[x][i] = replies[x][i] /\ ss'[i] = ss[i]
      BY <1>4, <1>7, <2>1
    <3>. QED BY <3>1, RouteKept
  <2>2. CASE i = s /\ ~(x = c /\ j = k)
    <3>1. replies'[x][s][j] = replies[x][s][j]
      BY <1>7, <2>2
    <3>2. Replying(ss'[s], x, j) = Replying(ss[s], x, j) + (0 - 0)
      BY <1>4, <1>6, <2>2
    <3>3. Replying(ss[s], x, j) \in Nat
      BY RouteNat
    <3>4. Replying(ss'[s], x, j) = Replying(ss[s], x, j)
      BY <3>2, <3>3
    <3>. QED BY <2>2, <3>1, <3>4, RouteKept
  <2>3. CASE i = s /\ x = c /\ j = k
    <3>. DEFINE a == Asked(up[c][s], k)  h == heads[c][s][k]
                r == replies[c][s][k]  w == replies'[c][s][k]
                p == Replying(ss[s], c, k)  b == Replying(ss'[s], c, k)
                d == Coming(down[c][s], k)  q == Receiving(cr[c], s, k)
    <3>1. Outstanding(c, s, k) = h + a + r + p + d + q
      BY DEF Outstanding
    <3>2. Outstanding(c, s, k)' = h + a + w + b + d + q
      BY DEF Outstanding
    <3>3. h \in Nat /\ a \in Nat /\ r \in Nat /\ p \in Nat /\ d \in Nat /\ q \in Nat
      BY RouteNat
    <3>4. w = r - n /\ b = p + (n - 0)
      BY <1>4, <1>6, <1>7
    <3>. HIDE DEF a, b, h, r, w, p, d, q
    <3>5. h + a + w + b + d + q = h + a + r + p + d + q
      BY <1>2, <3>3, <3>4
    <3>. QED BY <2>3, <3>1, <3>2, <3>5
  <2>. QED BY <2>1, <2>2, <2>3
<1>. QED BY <1>8

LEMMA StorageSendFlow ==
  ASSUME TypeOK, TypeOK', Hands, NEW s \in Storage, NEW t \in SSendThread,
         StorageSend(s, t) \/ StorageSendClose(s, t), UNCHANGED clientVars
  PROVE  \A x \in Client : Shrinks(x)
<1>. DEFINE th == ss[s][t]
<1>0. /\ cr' = cr /\ heads' = heads /\ th \in SSendState /\ th.c \in Client
      /\ th.h \in Unit /\ th.h.count \in Nat
      /\ th.pc \in {"head", "items"} => th.h.index \in Storage /\ th.h \in DownHeads
  <2>1. th \in SSendState
    BY StateTypes
  <2>2. SSendHands(th)
    BY DEF Hands
  <2>. QED BY <2>1, <2>2 DEF clientVars, SSendState, SThread, Unit, SSendHands
<1>c. PICK c \in Client : th.c = c
  BY <1>0
<1>1. ASSUME \A x \in Client : \A i, j \in Storage :
                Outstanding(x, i, j)' = Outstanding(x, i, j),
             UNCHANGED <<cfd, sfd, reset>>
      PROVE  \A x \in Client : Shrinks(x)
  <2>1. Closes
    BY <1>1 DEF Closes
  <2>. QED BY <1>1, <2>1, ShrinksKept
<1>2. CASE StorageSendBegin(s, t)
  <2>1. PICK d \in Client, k \in Storage :
           IsFirstHead(replies, d, s, k) /\ TakeChunk(s, t, d, k)
    BY <1>2 DEF StorageSendBegin
  <2>2. th.pc = "idle" /\ UNCHANGED <<up, down, cfd, sfd, reset>>
    BY <1>2 DEF StorageSendBegin, wireVars
  <2>3. replies[d][s][k] > 0
    BY <2>1 DEF IsFirstHead
  <2>4. \A x \in Client : \A i, j \in Storage :
           Outstanding(x, i, j)' = Outstanding(x, i, j)
    BY <1>0, <2>1, <2>2, <2>3, TakeChunkFlow
  <2>. QED BY <1>1, <2>2, <2>4
(* The unit a thread pushes leaves its hands when it is the head.          *)
<1>3. CASE StorageSendHead(s, t)
  <2>. DEFINE v == SAt("items", c, th.h)
  <2>1. /\ StoragePush(c, s, th.h) /\ ss' = [ss EXCEPT ![s][t] = v] /\ th.pc = "head"
        /\ UNCHANGED <<up, cfd, sfd, reset, replies>>
    BY <1>3, <1>c DEF StorageSendHead
  <2>2. v \in SSendState /\ v.pc = "items"
    BY <1>0, <2>1, SendStates DEF SAt
  <2>3. /\ \A x \in Client, y \in Storage : x # c \/ y # s => down'[x][y] = down[x][y]
        /\ \A j : Coming(down'[c][s], j) = Coming(down[c][s], j) + ComingOf(j)[th.h]
    BY <1>0, <2>1, DownPushed
  <2>. HIDE DEF v
  <2>4. /\ \A y \in Storage \ {s} : ss'[y] = ss[y]
        /\ \A x, j : Replying(ss'[s], x, j) =
              Replying(ss[s], x, j) + (ReplyingOf(x, j)[v] - ReplyingOf(x, j)[th])
    BY <2>1, <2>2, SsChanged
  <2>5. \A x, j : /\ ReplyingOf(x, j)[v] = 0
                  /\ x # c => ReplyingOf(x, j)[th] = 0
                  /\ ReplyingOf(c, j)[th] = ComingOf(j)[th.h]
                  /\ ComingOf(j)[th.h] \in Nat
    <3>1. th.h.kind = "head"
      BY <1>0, <2>1 DEF DownHeads
    <3>2. \A x, j : ReplyingOf(x, j)[v] = 0
      BY <2>2 DEF ReplyingOf
    <3>3. \A x, j : ReplyingOf(x, j)[th] =
                       IF c = x /\ th.h.index = j THEN th.h.count ELSE 0
      BY <1>0, <1>c, <2>1 DEF ReplyingOf
    <3>4. \A j : ComingOf(j)[th.h] = IF th.h.index = j THEN th.h.count ELSE 0
      BY <1>0, <3>1 DEF ComingOf
    <3>. QED BY <1>0, <3>2, <3>3, <3>4
  <2>6. ASSUME NEW x \in Client, NEW i \in Storage, NEW j \in Storage
        PROVE  Outstanding(x, i, j)' = Outstanding(x, i, j)
    <3>1. CASE i # s
      <4>1. down'[x][i] = down[x][i] /\ ss'[i] = ss[i]
        BY <2>3, <2>4, <3>1
      <4>. QED BY <1>0, <2>1, <4>1, RouteKept
    <3>2. CASE i = s /\ x # c
      <4>1. down'[x][s] = down[x][s]
        BY <2>3, <3>2
      <4>2. Replying(ss'[s], x, j) = Replying(ss[s], x, j) + (0 - 0)
        BY <2>4, <2>5, <3>2
      <4>3. Replying(ss[s], x, j) \in Nat
        BY RouteNat
      <4>4. Replying(ss'[s], x, j) = Replying(ss[s], x, j)
        BY <4>2, <4>3
      <4>. QED BY <1>0, <2>1, <3>2, <4>1, <4>4, RouteKept
    <3>3. CASE i = s /\ x = c
      <4>. DEFINE a == Asked(up[c][s], j)  h == heads[c][s][j]
                  r == replies[c][s][j]
                  p == Replying(ss[s], c, j)  b == Replying(ss'[s], c, j)
                  d == Coming(down[c][s], j)  e == Coming(down'[c][s], j)
                  q == Receiving(cr[c], s, j)  n == ComingOf(j)[th.h]
      <4>1. Outstanding(c, s, j) = h + a + r + p + d + q
        BY DEF Outstanding
      <4>2. Outstanding(c, s, j)' = h + a + r + b + e + q
        BY <1>0, <2>1 DEF Outstanding
      <4>3. h \in Nat /\ a \in Nat /\ r \in Nat /\ p \in Nat /\ d \in Nat /\ q \in Nat
        BY RouteNat
      <4>4. e = d + n /\ b = p + (0 - n) /\ n \in Nat
        BY <2>3, <2>4, <2>5
      <4>. HIDE DEF a, b, h, r, p, d, e, q, n
      <4>5. h + a + r + b + e + q = h + a + r + p + d + q
        BY <4>3, <4>4
      <4>. QED BY <3>3, <4>1, <4>2, <4>5
    <3>. QED BY <3>1, <3>2, <3>3
  <2>. QED BY <1>1, <2>1, <2>6
<1>4. CASE StorageSendItems(s, t)
  <2>. DEFINE unit == ItemsUnit(th.h.count)
              k == th.h.index
  <2>1. /\ StoragePush(c, s, unit) /\ th.pc = "items" /\ k \in Storage
        /\ UNCHANGED <<up, cfd, sfd, reset>>
    BY <1>0, <1>4, <1>c DEF StorageSendItems
  <2>2. unit \in Unit /\ unit.kind = "items"
    BY <1>0, UnitTypes DEF ItemsUnit
  <2>3. \A j : ComingOf(j)[unit] = 0
    BY <2>2 DEF ComingOf
  <2>. HIDE DEF unit
  <2>4. /\ \A x \in Client, y \in Storage : x # c \/ y # s => down'[x][y] = down[x][y]
        /\ \A j : Coming(down'[c][s], j) = Coming(down[c][s], j) + ComingOf(j)[unit]
    BY <2>1, <2>2, DownPushed
  <2>5. ASSUME NEW x \in Client, NEW i \in Storage, NEW j \in Storage
        PROVE  Coming(down'[x][i], j) = Coming(down[x][i], j)
    <3>1. CASE x # c \/ i # s
      BY <2>4, <3>1
    <3>2. CASE x = c /\ i = s
      <4>1. Coming(down'[c][s], j) = Coming(down[c][s], j) + 0
        BY <2>3, <2>4
      <4>2. Coming(down[c][s], j) \in Nat
        BY RouteNat
      <4>. QED BY <3>2, <4>1, <4>2
    <3>. QED BY <3>1, <3>2
  <2>6. CASE replies[c][s][k] > 0 /\ TakeChunk(s, t, c, k)
    <3>1. \A x \in Client : \A i, j \in Storage :
             Outstanding(x, i, j)' = Outstanding(x, i, j)
      BY <1>0, <2>1, <2>5, <2>6, TakeChunkFlow
    <3>. QED BY <1>1, <2>1, <3>1
  <2>7. CASE ss' = [ss EXCEPT ![s][t] = SIdle] /\ UNCHANGED replies
    <3>1. SIdle \in SSendState /\ SIdle.pc = "idle"
      BY SendStates DEF SIdle, SAt
    <3>2. /\ \A y \in Storage \ {s} : ss'[y] = ss[y]
          /\ \A x, j : Replying(ss'[s], x, j) =
                Replying(ss[s], x, j) + (ReplyingOf(x, j)[SIdle] - ReplyingOf(x, j)[th])
      BY <2>7, <3>1, SsChanged
    <3>3. \A x, j : ReplyingOf(x, j)[SIdle] = 0 /\ ReplyingOf(x, j)[th] = 0
      BY <1>0, <2>1, <3>1 DEF ReplyingOf
    <3>4. ASSUME NEW x \in Client, NEW i \in Storage, NEW j \in Storage
          PROVE  Replying(ss'[i], x, j) = Replying(ss[i], x, j)
      <4>1. CASE i = s
        <5>1. Replying(ss'[s], x, j) = Replying(ss[s], x, j) + (0 - 0)
          BY <3>2, <3>3
        <5>2. Replying(ss[s], x, j) \in Nat
          BY RouteNat
        <5>. QED BY <4>1, <5>1, <5>2
      <4>2. CASE i # s
        BY <3>2, <4>2
      <4>. QED BY <4>1, <4>2
    <3>5. ASSUME NEW x \in Client, NEW i \in Storage, NEW j \in Storage
          PROVE  Outstanding(x, i, j)' = Outstanding(x, i, j)
      BY <1>0, <2>1, <2>5, <2>7, <3>4, RouteKept
    <3>. QED BY <1>1, <2>1, <3>5
  <2>. QED BY <1>4, <1>c, <2>6, <2>7 DEF StorageSendItems
<1>5. CASE StorageSendClose(s, t)
  <2>1. /\ UNCHANGED <<up, down, cfd, reset, replies>> /\ th.pc \in {"head", "items"}
        /\ sfd' = [sfd EXCEPT ![c][s] = FALSE] /\ ss' = [ss EXCEPT ![s][t] = SIdle]
    BY <1>5, <1>c DEF StorageSendClose
  <2>2. SIdle \in SSendState /\ SIdle.pc = "idle"
    BY SendStates DEF SIdle, SAt
  <2>3. /\ \A y \in Storage \ {s} : ss'[y] = ss[y]
        /\ \A x, j : Replying(ss'[s], x, j) =
              Replying(ss[s], x, j) + (ReplyingOf(x, j)[SIdle] - ReplyingOf(x, j)[th])
    BY <2>1, <2>2, SsChanged
  <2>4. \A x, j : /\ ReplyingOf(x, j)[SIdle] = 0 /\ ReplyingOf(x, j)[th] \in Nat
                  /\ x # c => ReplyingOf(x, j)[th] = 0
    BY <1>0, <1>c, <2>2 DEF ReplyingOf
  <2>5. ASSUME NEW x \in Client, NEW i \in Storage, NEW j \in Storage
        PROVE  /\ Outstanding(x, i, j)' <= Outstanding(x, i, j)
               /\ x # c => Outstanding(x, i, j)' = Outstanding(x, i, j)
    <3>. DEFINE a == Asked(up[x][i], j)  h == heads[x][i][j]
                r == replies[x][i][j]
                p == Replying(ss[i], x, j)  b == Replying(ss'[i], x, j)
                d == Coming(down[x][i], j)  q == Receiving(cr[x], i, j)
    <3>1. Outstanding(x, i, j) = h + a + r + p + d + q
      BY DEF Outstanding
    <3>2. Outstanding(x, i, j)' = h + a + r + b + d + q
      BY <1>0, <2>1 DEF Outstanding
    <3>3. h \in Nat /\ a \in Nat /\ r \in Nat /\ p \in Nat /\ d \in Nat /\ q \in Nat
      BY RouteNat
    <3>4. b \in Nat
      BY NextRouteNat
    <3>5. b <= p /\ (x # c => b = p)
      <4>1. CASE i # s
        BY <2>3, <3>3, <4>1
      <4>2. CASE i = s
        <5>. DEFINE w == ReplyingOf(x, j)[th]
        <5>1. b = p + (0 - w) /\ w \in Nat /\ (x # c => w = 0)
          BY <2>3, <2>4, <4>2
        <5>. HIDE DEF b, p, w
        <5>. QED BY <3>3, <3>4, <5>1
      <4>. QED BY <4>1, <4>2
    <3>. HIDE DEF a, b, h, r, p, d, q
    <3>6. /\ h + a + r + b + d + q <= h + a + r + p + d + q
          /\ x # c => h + a + r + b + d + q = h + a + r + p + d + q
      BY <3>3, <3>4, <3>5
    <3>. QED BY <3>1, <3>2, <3>6
  <2>6. sfd \in [Client -> [Storage -> BOOLEAN]]
    BY StateTypes
  <2>7. ~sfd'[c][s] /\ \A x \in Client, y \in Storage : sfd'[x][y] => sfd[x][y]
    BY <2>1, <2>6
  <2>8. Closes
    BY <2>1, <2>7 DEF Closes
  <2>9. ASSUME NEW x \in Client PROVE Shrinks(x)
    <3>1. CASE x = c
      BY <2>5, <2>7, <3>1, ShrinksLost
    <3>2. CASE x # c
      BY <2>5, <2>8, <3>2, ShrinksKept
    <3>. QED BY <3>1, <3>2
  <2>. QED BY <2>9
<1>6. CASE StorageSendKilled(s, t)
  <2>1. /\ UNCHANGED <<up, down, cfd, reset, replies>>
        /\ sfd' = [x \in Client |-> [sfd[x] EXCEPT ![s] = FALSE]]
        /\ ss' = [ss EXCEPT ![s] = [u \in SSendThread |-> SDead]]
    BY <1>6 DEF StorageSendKilled
  <2>2. SDead \in SSendState /\ SDead.pc = "dead"
    BY SendStates DEF SDead, SAt
  <2>3. /\ \A y \in Storage \ {s} : ss'[y] = ss[y]
        /\ ss'[s] = [u \in SSendThread |-> SDead]
    BY <2>1, StateTypes
  <2>4. \A x, j : Replying(ss'[s], x, j) = 0
    <3>1. \A x, j : ReplyingOf(x, j)[SDead] = 0
      BY <2>2 DEF ReplyingOf
    <3>2. ss'[s] \in [SSendThread -> SSendState] /\ IsFiniteSet(SSendThread)
      BY <2>2, <2>3, StorageAssumption
    <3>3. \A x, j : Replying(ss'[s], x, j) = InHands(ReplyingOf(x, j), ss'[s])
      BY <3>2, ReplyingView
    <3>4. ASSUME NEW x, NEW j PROVE InHands(ReplyingOf(x, j), ss'[s]) = 0
      <4>1. \A u \in SSendThread : ReplyingOf(x, j)[ss'[s][u]] = 0
        BY <2>3, <3>1
      <4>2. DOMAIN ss'[s] = SSendThread
        BY <3>2
      <4>. QED BY <3>2, <4>1, <4>2, NoItems
    <3>. QED BY <3>3, <3>4
  <2>5. ASSUME NEW x \in Client, NEW i \in Storage, NEW j \in Storage
        PROVE  Outstanding(x, i, j)' <= Outstanding(x, i, j)
    <3>. DEFINE a == Asked(up[x][i], j)  h == heads[x][i][j]
                r == replies[x][i][j]
                p == Replying(ss[i], x, j)  b == Replying(ss'[i], x, j)
                d == Coming(down[x][i], j)  q == Receiving(cr[x], i, j)
    <3>1. Outstanding(x, i, j) = h + a + r + p + d + q
      BY DEF Outstanding
    <3>2. Outstanding(x, i, j)' = h + a + r + b + d + q
      BY <1>0, <2>1 DEF Outstanding
    <3>3. h \in Nat /\ a \in Nat /\ r \in Nat /\ p \in Nat /\ d \in Nat /\ q \in Nat
      BY RouteNat
    <3>4. b \in Nat
      BY NextRouteNat
    <3>5. b <= p
      <4>1. CASE i # s
        BY <2>3, <3>3, <4>1
      <4>2. CASE i = s
        BY <2>4, <3>3, <4>2
      <4>. QED BY <4>1, <4>2
    <3>. HIDE DEF a, b, h, r, p, d, q
    <3>6. h + a + r + b + d + q <= h + a + r + p + d + q
      BY <3>3, <3>4, <3>5
    <3>. QED BY <3>1, <3>2, <3>6
  <2>6. \A x \in Client : ~sfd'[x][s]
    BY <2>1, StateTypes
  <2>. QED BY <2>5, <2>6, ShrinksLost
<1>. QED BY <1>2, <1>3, <1>4, <1>5, <1>6 DEF StorageSend, StorageSendFail

(* The steps of a client that change the numbers: a chunk is received,     *)
(* sent, or lost in the hands of a send thread.                            *)
Fetching(c, i, j, n) ==
  /\ n \in 1 .. MTU
  /\ Outstanding(c, i, j)' = Outstanding(c, i, j) - n
  /\ \A x, y \in Storage : x # i \/ y # j =>
       Outstanding(c, x, y)' = Outstanding(c, x, y)
  /\ Fetched(c, i)' = Fetched(c, i) + n
  /\ \A s \in Storage \ {i} : Fetched(c, s)' = Fetched(c, s)
  /\ Waiting(c, j)' = Waiting(c, j) + n
  /\ \A s \in Storage \ {j} : Waiting(c, s)' = Waiting(c, s)
  /\ \A s \in Storage : sendCount'[c][s] = sendCount[c][s]
  /\ Intact(c)' => Intact(c)

Taking(c, j, n) ==
  /\ n \in 1 .. MTU /\ n <= Waiting(c, j)
  /\ Shrinks(c)
  /\ \A s \in Storage : Fetched(c, s)' = Fetched(c, s)
  /\ Waiting(c, j)' = Waiting(c, j) - n
  /\ \A s \in Storage \ {j} : /\ Waiting(c, s)' = Waiting(c, s)
                              /\ sendCount'[c][s] = sendCount[c][s]

Forwarding(c, j, n) == Taking(c, j, n) /\ sendCount'[c][j] = sendCount[c][j] + n

Losing(c, j, n) ==
  Taking(c, j, n) /\ sendCount'[c][j] = sendCount[c][j] /\ ~Intact(c)'

LEMMA WaitingNat ==
  ASSUME TypeOK, NEW c \in Client, NEW s \in Storage
  PROVE  /\ buffered[c][s] \in Nat /\ Sending(c, s) \in Nat
         /\ Fetched(c, s) \in Nat /\ sendCount[c][s] \in Nat
<1>1. /\ cr[c] \in [CRecvThread -> Thread(RecvPC)]
      /\ cs[c] \in [CSendThread -> Thread(SendPC)]
  BY StateTypes
<1>2. buffered[c][s] \in Nat /\ recvCount[c][s] \in Nat /\ sendCount[c][s] \in Nat
  BY StateTypes
<1>3. Sending(c, s) = InHands(SendingOf(s), cs[c])
  BY <1>1, SendingView
<1>4. Fetched(c, s) = recvCount[c][s] + InHands(CountingOf(s), cr[c])
  BY <1>1, FetchedView
<1>5. InHands(SendingOf(s), cs[c]) \in Nat /\ InHands(CountingOf(s), cr[c]) \in Nat
  BY <1>1, ThreadNat
<1>. QED BY <1>2, <1>3, <1>4, <1>5

(* A client that keeps its threads and counters, and one that is not       *)
(* concerned.                                                              *)
LEMMA StillKept ==
  ASSUME TypeOK, TypeOK', NEW c \in Client,
         cr'[c] = cr[c], cs'[c] = cs[c], buffered'[c] = buffered[c],
         recvCount'[c] = recvCount[c], sendCount'[c] = sendCount[c]
  PROVE  Still(c)
<1>1. /\ cr[c] \in [CRecvThread -> Thread(RecvPC)]
      /\ cs[c] \in [CSendThread -> Thread(SendPC)]
  BY StateTypes
<1>2. \A s : Sending(c, s)' = InHands(SendingOf(s), cs[c])
             /\ Sending(c, s) = InHands(SendingOf(s), cs[c])
  BY <1>1, SendingView
<1>3. \A s : /\ Fetched(c, s)' = recvCount[c][s] + InHands(CountingOf(s), cr[c])
             /\ Fetched(c, s) = recvCount[c][s] + InHands(CountingOf(s), cr[c])
  BY <1>1, FetchedView
<1>. QED BY <1>2, <1>3 DEF Still, Waiting

LEMMA Elsewhere ==
  ASSUME TypeOK, TypeOK', Closes, NEW c \in Client,
         up'[c] = up[c], down'[c] = down[c], heads'[c] = heads[c],
         cr'[c] = cr[c], cs'[c] = cs[c], buffered'[c] = buffered[c],
         recvCount'[c] = recvCount[c], sendCount'[c] = sendCount[c],
         UNCHANGED <<replies, ss>>
  PROVE  Still(c) /\ Shrinks(c)
<1>1. \A i, j \in Storage : Outstanding(c, i, j)' = Outstanding(c, i, j)
  BY DEF Outstanding
<1>. QED BY <1>1, StillKept, ShrinksKept

(* A receive thread that neither awaited items nor awaits them now, and    *)
(* one that neither had counted them nor has now.                          *)
LEMMA CrQuiet ==
  ASSUME TypeOK, NEW c \in Client, NEW t \in CRecvThread, NEW v \in Thread(RecvPC),
         cr' = [cr EXCEPT ![c][t] = v]
  PROVE  /\ cr[c][t].pc # "items" /\ v.pc # "items" =>
              \A x, j \in Storage : Receiving(cr'[c], x, j) = Receiving(cr[c], x, j)
         /\ cr[c][t].pc # "count" /\ v.pc # "count" =>
              \A s \in Storage :
                 InHands(CountingOf(s), cr'[c]) = InHands(CountingOf(s), cr[c])
<1>1. /\ \A i, j : Receiving(cr'[c], i, j) =
           Receiving(cr[c], i, j) + (ReceivingOf(i, j)[v] - ReceivingOf(i, j)[cr[c][t]])
      /\ \A i : InHands(CountingOf(i), cr'[c]) =
           InHands(CountingOf(i), cr[c]) + (CountingOf(i)[v] - CountingOf(i)[cr[c][t]])
  BY CrChanged
<1>2. cr[c] \in [CRecvThread -> Thread(RecvPC)] /\ cr[c][t] \in Thread(RecvPC)
  BY StateTypes
<1>3. ASSUME cr[c][t].pc # "items", v.pc # "items", NEW x \in Storage, NEW j \in Storage
      PROVE  Receiving(cr'[c], x, j) = Receiving(cr[c], x, j)
  <2>1. ReceivingOf(x, j)[v] = 0 /\ ReceivingOf(x, j)[cr[c][t]] = 0
    BY <1>2, <1>3 DEF ReceivingOf
  <2>2. Receiving(cr'[c], x, j) = Receiving(cr[c], x, j) + (0 - 0)
    BY <1>1, <2>1
  <2>3. Receiving(cr[c], x, j) \in Nat
    BY RouteNat
  <2>. QED BY <2>2, <2>3
<1>4. ASSUME cr[c][t].pc # "count", v.pc # "count", NEW s \in Storage
      PROVE  InHands(CountingOf(s), cr'[c]) = InHands(CountingOf(s), cr[c])
  <2>1. CountingOf(s)[v] = 0 /\ CountingOf(s)[cr[c][t]] = 0
    BY <1>2, <1>4 DEF CountingOf
  <2>2. InHands(CountingOf(s), cr'[c]) = InHands(CountingOf(s), cr[c]) + (0 - 0)
    BY <1>1, <2>1
  <2>3. InHands(CountingOf(s), cr[c]) \in Nat
    BY <1>2, ThreadNat
  <2>. QED BY <2>2, <2>3
<1>. QED BY <1>3, <1>4

LEMMA ClientRecvFlow ==
  ASSUME TypeOK, TypeOK', Hands, Hands', Chunks, NEW c \in Client, NEW t \in CRecvThread,
         ClientRecv(c, t) \/ ClientRecvClose(c, t), UNCHANGED storageVars
  PROVE  /\ \A x \in Client \ {c} : Still(x) /\ Shrinks(x)
         /\ \/ Still(c) /\ Shrinks(c)
            \/ \E i, j \in Storage, n \in 1 .. MTU : Fetching(c, i, j, n)
<1>. DEFINE th == cr[c][t]
<1>0. /\ UNCHANGED <<replies, ss, up, sfd, reset, heads, cs, sendCount>>
      /\ th \in Thread(RecvPC) /\ th.i \in Storage
      /\ th.h \in Unit /\ th.h.count \in Nat
      /\ cr'[c][t].pc # "garbled"
  <2>1. UNCHANGED <<replies, ss, up, sfd, reset, heads, cs, sendCount>>
    BY DEF storageVars, wireVars, ClientRecv, ClientRecvBegin, ClientRecvHead,
       ClientRecvItems, ClientRecvCount, ClientRecvFail, ClientRecvClose, ClientRecvExit
  <2>2. th \in Thread(RecvPC)
    BY StateTypes
  <2>3. th.i \in Storage /\ th.h \in Unit /\ th.h.count \in Nat
    BY <2>2 DEF Thread, Unit
  <2>4. cr'[c][t].pc # "garbled"
    BY DEF Hands, RecvHands
  <2>. QED BY <2>1, <2>2, <2>3, <2>4
<1>i. PICK i \in Storage : th.i = i
  BY <1>0
<1>t. /\ cr \in [Client -> [CRecvThread -> Thread(RecvPC)]]
      /\ cfd \in [Client -> [Storage -> BOOLEAN]]
      /\ down \in [Client -> [Storage -> Seq(Unit)]]
      /\ buffered \in [Client -> [Storage -> Nat]]
      /\ recvCount \in [Client -> [Storage -> Nat]]
      /\ cr[c] \in [CRecvThread -> Thread(RecvPC)]
      /\ cr'[c] \in [CRecvThread -> Thread(RecvPC)]
  BY StateTypes, NextTypes
<1>f. \A s : /\ Fetched(c, s) = recvCount[c][s] + InHands(CountingOf(s), cr[c])
             /\ Fetched(c, s)' = recvCount'[c][s] + InHands(CountingOf(s), cr'[c])
  BY <1>t, FetchedView
<1>s. \A s : Sending(c, s)' = Sending(c, s) /\ Sending(c, s) \in Int
  <2>1. cs[c] \in [CSendThread -> Thread(SendPC)]
    BY StateTypes
  <2>2. \A s : Sending(c, s) = InHands(SendingOf(s), cs[c])
               /\ Sending(c, s)' = InHands(SendingOf(s), cs[c])
    BY <1>0, <2>1, SendingView
  <2>. QED BY <2>1, <2>2, ThreadNat
<1>n. \A s \in Storage : recvCount[c][s] \in Nat /\ InHands(CountingOf(s), cr[c]) \in Nat
  BY <1>t, ThreadNat
<1>a. Closes
  <2>1. \/ cfd' = cfd
        \/ cfd' = [cfd EXCEPT ![c][i] = FALSE]
    BY <1>i DEF wireVars, ClientRecv, ClientRecvBegin, ClientRecvHead,
       ClientRecvItems, ClientRecvCount, ClientRecvFail, ClientRecvClose, ClientRecvExit
  <2>2. ASSUME NEW x \in Client, NEW y \in Storage, cfd'[x][y]
        PROVE  cfd[x][y]
    <3>1. CASE cfd' = cfd
      BY <2>2, <3>1
    <3>2. CASE cfd' = [cfd EXCEPT ![c][i] = FALSE]
      BY <1>t, <2>2, <3>2
    <3>. QED BY <2>1, <3>1, <3>2
  <2>. QED BY <1>0, <2>2 DEF Closes
<1>b. ASSUME NEW x \in Client \ {c}
      PROVE  Still(x) /\ Shrinks(x)
  <2>1. /\ cr'[x] = cr[x] /\ down'[x] = down[x] /\ buffered'[x] = buffered[x]
        /\ recvCount'[x] = recvCount[x]
    BY <1>t DEF wireVars, ClientRecv, ClientRecvBegin, ClientRecvHead, ClientPop,
       ClientRecvItems, ClientRecvCount, ClientRecvFail, ClientRecvClose, ClientRecvExit
  <2>. QED BY <1>0, <1>a, <2>1, Elsewhere
(* The steps that only change the thread.                                  *)
<1>1. ASSUME NEW v \in Thread(RecvPC), cr' = [cr EXCEPT ![c][t] = v],
             th.pc \notin {"items", "count"}, v.pc \notin {"items", "count"},
             UNCHANGED <<down, buffered, recvCount>>
      PROVE  Still(c) /\ Shrinks(c)
  <2>1. ASSUME NEW x \in Storage, NEW j \in Storage
        PROVE  Outstanding(c, x, j)' = Outstanding(c, x, j)
    <3>1. Receiving(cr'[c], x, j) = Receiving(cr[c], x, j)
      BY <1>1, CrQuiet
    <3>. QED BY <1>0, <1>1, <3>1, RouteKept
  <2>2. ASSUME NEW s \in Storage
        PROVE  Fetched(c, s)' = Fetched(c, s)
    <3>1. InHands(CountingOf(s), cr'[c]) = InHands(CountingOf(s), cr[c])
      BY <1>1, CrQuiet
    <3>. QED BY <1>1, <1>f, <3>1
  <2>3. Still(c)
    BY <1>0, <1>1, <1>s, <2>2 DEF Still, Waiting
  <2>. QED BY <1>a, <2>1, <2>3, ShrinksKept
<1>2. CASE ClientRecvBegin(c, t)
  <2>1. PICK k \in Storage : cr' = [cr EXCEPT ![c][t] = At("head", k, ItemsUnit(0))]
    BY <1>2 DEF ClientRecvBegin
  <2>2. /\ At("head", k, ItemsUnit(0)) \in Thread(RecvPC)
        /\ At("head", k, ItemsUnit(0)).pc = "head"
    BY UnitTypes, ThreadTypes DEF At, RecvPC
  <2>3. th.pc = "idle" /\ UNCHANGED <<down, buffered, recvCount>>
    BY <1>2 DEF ClientRecvBegin, wireVars
  <2>. QED BY <1>1, <1>b, <2>1, <2>2, <2>3
<1>3. CASE ClientRecvHead(c, t)
  <2>. DEFINE unit == Head(down[c][i])
              v == At("items", i, unit)
  <2>1. /\ ClientPop(c, i) /\ th.pc = "head" /\ UNCHANGED <<buffered, recvCount, cfd>>
        /\ cr' = [cr EXCEPT ![c][t] = IF unit.kind = "head" THEN v
                                      ELSE At("garbled", i, unit)]
    BY <1>3, <1>i DEF ClientRecvHead
  <2>2. unit.kind = "head"
    <3>1. CASE unit.kind # "head"
      <4>1. cr' = [cr EXCEPT ![c][t] = At("garbled", i, unit)]
        BY <2>1, <3>1
      <4>2. cr'[c][t].pc = "garbled"
        BY <1>t, <4>1 DEF At
      <4>. QED BY <1>0, <4>2
    <3>. QED BY <3>1
  <2>3. /\ \A x \in Client, y \in Storage : x # c \/ y # i => down'[x][y] = down[x][y]
        /\ unit \in Unit
        /\ \A j : Coming(down[c][i], j) = ComingOf(j)[unit] + Coming(down'[c][i], j)
    BY <2>1, DownPopped
  <2>4. v \in Thread(RecvPC) /\ v.pc = "items" /\ v.i = i /\ v.h = unit
    BY <2>3, ThreadTypes DEF At, RecvPC
  <2>5. cr' = [cr EXCEPT ![c][t] = v]
    BY <2>1, <2>2
  <2>. HIDE DEF v
  <2>6. \A j : ComingOf(j)[unit] = IF unit.index = j THEN unit.count ELSE 0
    BY <2>2, <2>3 DEF ComingOf
  <2>7. \A x, j : ReceivingOf(x, j)[v] = IF x = i /\ unit.index = j THEN unit.count ELSE 0
    BY <2>4 DEF ReceivingOf
  <2>8. unit.count \in Nat
    BY <2>3 DEF Unit
  <2>c. \A x, j : Receiving(cr'[c], x, j) =
                     Receiving(cr[c], x, j) + (ReceivingOf(x, j)[v] - 0)
    <3>1. \A x, j : Receiving(cr'[c], x, j) = Receiving(cr[c], x, j)
                       + (ReceivingOf(x, j)[v] - ReceivingOf(x, j)[th])
      BY <2>4, <2>5, CrChanged
    <3>2. \A x, j : ReceivingOf(x, j)[th] = 0
      BY <1>0, <2>1 DEF ReceivingOf
    <3>. QED BY <3>1, <3>2
  <2>9. ASSUME NEW x \in Storage, NEW j \in Storage
        PROVE  Outstanding(c, x, j)' = Outstanding(c, x, j)
    <3>. DEFINE a == Asked(up[c][x], j)  h == heads[c][x][j]  r == replies[c][x][j]
                p == Replying(ss[x], c, j)
                d == Coming(down[c][x], j)  e == Coming(down'[c][x], j)
                q == Receiving(cr[c], x, j)  f == Receiving(cr'[c], x, j)
                n == ReceivingOf(x, j)[v]
    <3>1. Outstanding(c, x, j) = h + a + r + p + d + q
      BY DEF Outstanding
    <3>2. Outstanding(c, x, j)' = h + a + r + p + e + f
      BY <1>0, <2>1 DEF Outstanding
    <3>3. h \in Nat /\ a \in Nat /\ r \in Nat /\ p \in Nat /\ d \in Nat /\ q \in Nat
      BY RouteNat
    <3>4. e \in Nat
      BY NextRouteNat
    <3>5. f = q + (n - 0)
      BY <2>c
    <3>6. n \in Nat
      BY <2>7, <2>8
    <3>7. d = n + e
      <4>1. CASE x = i
        BY <2>3, <2>6, <2>7, <4>1
      <4>2. CASE x # i
        <5>1. e = d /\ n = 0
          BY <2>3, <2>7, <4>2
        <5>. HIDE DEF d, e, n
        <5>. QED BY <3>3, <5>1
      <4>. QED BY <4>1, <4>2
    <3>. HIDE DEF a, h, r, p, d, e, q, f, n
    <3>8. h + a + r + p + e + f = h + a + r + p + d + q
      BY <3>3, <3>4, <3>5, <3>6, <3>7
    <3>. QED BY <3>1, <3>2, <3>8
  <2>10. ASSUME NEW s \in Storage
         PROVE  Fetched(c, s)' = Fetched(c, s)
    <3>1. cr[c][t].pc # "count" /\ v.pc # "count"
      BY <2>1, <2>4
    <3>2. InHands(CountingOf(s), cr'[c]) = InHands(CountingOf(s), cr[c])
      BY <2>4, <2>5, <3>1, CrQuiet
    <3>. QED BY <1>f, <2>1, <3>2
  <2>11. Still(c)
    BY <1>0, <1>s, <2>1, <2>10 DEF Still, Waiting
  <2>. QED BY <1>a, <1>b, <2>9, <2>11, ShrinksKept
<1>4. CASE ClientRecvItems(c, t)
  <2>. DEFINE unit == Head(down[c][i])
              v == At("count", i, th.h)
  <2>1. ClientPop(c, i) /\ th.pc = "items" /\ UNCHANGED <<recvCount, cfd>>
    BY <1>4, <1>i DEF ClientRecvItems
  <2>k. PICK k \in Storage, n \in 1 .. MTU : th.h.index = k /\ th.h.count = n
    <3>1. th \in RecvChunks
      BY DEF Chunks
    <3>. QED BY <2>1, <3>1 DEF RecvChunks
  <2>2. /\ unit = ItemsUnit(n) /\ cr' = [cr EXCEPT ![c][t] = v]
        /\ buffered' = [buffered EXCEPT ![c][k] = @ + n]
    <3>1. CASE unit # ItemsUnit(n)
      <4>1. cr' = [cr EXCEPT ![c][t] = At("garbled", i, unit)]
        BY <1>4, <1>i, <2>k, <3>1 DEF ClientRecvItems
      <4>2. cr'[c][t].pc = "garbled"
        BY <1>t, <4>1 DEF At
      <4>. QED BY <1>0, <4>2
    <3>2. CASE unit = ItemsUnit(n)
      BY <1>4, <1>i, <2>k, <3>2 DEF ClientRecvItems
    <3>. QED BY <3>1, <3>2
  <2>3. n \in Nat
    BY WireAssumption
  <2>4. /\ \A x \in Client, y \in Storage : x # c \/ y # i => down'[x][y] = down[x][y]
        /\ unit \in Unit
        /\ \A j : Coming(down[c][i], j) = ComingOf(j)[unit] + Coming(down'[c][i], j)
    BY <2>1, DownPopped
  <2>5. v \in Thread(RecvPC) /\ v.pc = "count" /\ v.i = i /\ v.h = th.h
    BY <1>0, ThreadTypes DEF At, RecvPC
  <2>6. unit.kind = "items"
    BY <2>2 DEF ItemsUnit
  <2>. HIDE DEF v
  <2>7. \A j : ComingOf(j)[unit] = 0
    BY <2>4, <2>6 DEF ComingOf
  <2>c. /\ \A x, j : Receiving(cr'[c], x, j) = Receiving(cr[c], x, j)
                       + (ReceivingOf(x, j)[v] - ReceivingOf(x, j)[th])
        /\ \A x : InHands(CountingOf(x), cr'[c]) = InHands(CountingOf(x), cr[c])
                       + (CountingOf(x)[v] - CountingOf(x)[th])
    BY <2>2, <2>5, CrChanged
  <2>d. (\A x, j : ReceivingOf(x, j)[v] = 0) /\ \A x : CountingOf(x)[th] = 0
    BY <1>0, <2>1, <2>5 DEF ReceivingOf, CountingOf
  <2>8. /\ \A x, j : ReceivingOf(x, j)[th] = IF x = i /\ j = k THEN n ELSE 0
        /\ \A x : CountingOf(x)[v] = IF x = i THEN n ELSE 0
    BY <1>0, <1>i, <2>k, <2>1, <2>5 DEF ReceivingOf, CountingOf
  <2>9. ASSUME NEW x \in Storage, NEW j \in Storage
        PROVE  Outstanding(c, x, j)' =
                 Outstanding(c, x, j) - (IF x = i /\ j = k THEN n ELSE 0)
    <3>. DEFINE a == Asked(up[c][x], j)  h == heads[c][x][j]  r == replies[c][x][j]
                p == Replying(ss[x], c, j)
                d == Coming(down[c][x], j)  e == Coming(down'[c][x], j)
                q == Receiving(cr[c], x, j)  f == Receiving(cr'[c], x, j)
                w == IF x = i /\ j = k THEN n ELSE 0
    <3>1. Outstanding(c, x, j) = h + a + r + p + d + q
      BY DEF Outstanding
    <3>2. Outstanding(c, x, j)' = h + a + r + p + e + f
      BY <1>0, <2>1 DEF Outstanding
    <3>3. h \in Nat /\ a \in Nat /\ r \in Nat /\ p \in Nat /\ d \in Nat /\ q \in Nat
      BY RouteNat
    <3>4. e \in Nat /\ w \in Int
      BY <2>3, NextRouteNat
    <3>5. f = q + (0 - w)
      BY <2>c, <2>d, <2>8
    <3>6. d = e
      <4>1. CASE x = i
        <5>1. d = 0 + e
          BY <2>4, <2>7, <4>1
        <5>. HIDE DEF d, e
        <5>. QED BY <3>4, <5>1
      <4>2. CASE x # i
        BY <2>4, <4>2
      <4>. QED BY <4>1, <4>2
    <3>. HIDE DEF a, h, r, p, d, e, q, f, w
    <3>7. h + a + r + p + e + f = (h + a + r + p + d + q) - w
      BY <3>3, <3>4, <3>5, <3>6
    <3>8. Outstanding(c, x, j)' = Outstanding(c, x, j) - w
      BY <3>1, <3>2, <3>7, Zenon
    <3>. QED BY <3>8 DEF w
  <2>10. ASSUME NEW s \in Storage
         PROVE  Fetched(c, s)' = Fetched(c, s) + (IF s = i THEN n ELSE 0)
    <3>. DEFINE w == IF s = i THEN n ELSE 0
                g == InHands(CountingOf(s), cr[c])  r == recvCount[c][s]
    <3>1. InHands(CountingOf(s), cr'[c]) = g + (w - 0)
      BY <2>c, <2>d, <2>8
    <3>2. g \in Nat /\ r \in Nat /\ w \in Int
      BY <1>n, <2>3
    <3>3. Fetched(c, s) = r + g /\ Fetched(c, s)' = r + (g + (w - 0))
      BY <1>f, <2>1, <3>1
    <3>. HIDE DEF w, g, r
    <3>4. r + (g + (w - 0)) = (r + g) + w
      BY <3>2
    <3>5. Fetched(c, s)' = Fetched(c, s) + w
      BY <3>3, <3>4
    <3>. QED BY <3>5 DEF w
  <2>11. ASSUME NEW s \in Storage
         PROVE  Waiting(c, s)' = Waiting(c, s) + (IF s = k THEN n ELSE 0)
    <3>. DEFINE w == IF s = k THEN n ELSE 0
                b == buffered[c][s]  e == Sending(c, s)
    <3>1. buffered'[c][s] = b + w
      <4>1. CASE s = k
        BY <1>t, <2>2, <2>3, <4>1
      <4>2. CASE s # k
        BY <1>t, <2>2, <2>3, <4>2
      <4>. QED BY <4>1, <4>2
    <3>2. Waiting(c, s) = b + e /\ Waiting(c, s)' = (b + w) + e
      BY <1>s, <3>1 DEF Waiting
    <3>3. b \in Nat /\ e \in Nat /\ w \in Int
      BY <2>3, WaitingNat
    <3>. HIDE DEF b, e, w
    <3>4. (b + w) + e = (b + e) + w
      BY <3>3
    <3>5. Waiting(c, s)' = Waiting(c, s) + w
      BY <3>2, <3>4
    <3>. QED BY <3>5 DEF w
  <2>12. /\ \A x, j \in Storage : Outstanding(c, x, j) \in Nat
         /\ \A s \in Storage : Fetched(c, s) \in Nat /\ Waiting(c, s) \in Nat
    BY OutstandingNat, WaitingNat DEF Waiting
  <2>13. Intact(c)' => Intact(c)
    BY <1>a DEF Closes, Intact
  <2>14. Fetching(c, i, k, n)
    <3>1. Outstanding(c, i, k)' = Outstanding(c, i, k) - n
      BY <2>3, <2>9
    <3>2. \A x, y \in Storage : x # i \/ y # k =>
             Outstanding(c, x, y)' = Outstanding(c, x, y)
      BY <2>9, <2>12
    <3>3. /\ Fetched(c, i)' = Fetched(c, i) + n
          /\ \A s \in Storage \ {i} : Fetched(c, s)' = Fetched(c, s)
      BY <2>10, <2>12
    <3>4. /\ Waiting(c, k)' = Waiting(c, k) + n
          /\ \A s \in Storage \ {k} : Waiting(c, s)' = Waiting(c, s)
      BY <2>3, <2>11, <2>12
    <3>. QED BY <1>0, <2>3, <2>13, <3>1, <3>2, <3>3, <3>4 DEF Fetching
  <2>. QED BY <1>b, <2>3, <2>14
<1>5. CASE ClientRecvCount(c, t)
  <2>. DEFINE n == th.h.count
  <2>1. /\ th.pc = "count" /\ cr' = [cr EXCEPT ![c][t] = Idle]
        /\ recvCount' = [recvCount EXCEPT ![c][i] = @ + n]
        /\ UNCHANGED <<down, buffered, cfd>>
    BY <1>5, <1>i DEF ClientRecvCount, wireVars
  <2>2. Idle \in Thread(RecvPC) /\ Idle.pc = "idle"
    BY ThreadTypes DEF Idle, At, RecvPC
  <2>3. \A x : CountingOf(x)[th] = IF x = i THEN n ELSE 0
    BY <1>0, <1>i, <2>1 DEF CountingOf
  <2>4. n \in Nat
    BY <1>0
  <2>. HIDE DEF n
  <2>5. ASSUME NEW x \in Storage, NEW j \in Storage
        PROVE  Outstanding(c, x, j)' = Outstanding(c, x, j)
    <3>1. cr[c][t].pc # "items" /\ Idle.pc # "items"
      BY <2>1, <2>2
    <3>2. Receiving(cr'[c], x, j) = Receiving(cr[c], x, j)
      BY <2>1, <2>2, <3>1, CrQuiet
    <3>. QED BY <1>0, <2>1, <3>2, RouteKept
  <2>6. ASSUME NEW s \in Storage
        PROVE  Fetched(c, s)' = Fetched(c, s)
    <3>. DEFINE w == IF s = i THEN n ELSE 0
                g == InHands(CountingOf(s), cr[c])  r == recvCount[c][s]
    <3>1. InHands(CountingOf(s), cr'[c]) = g + (0 - w)
      <4>1. \A x : InHands(CountingOf(x), cr'[c]) = InHands(CountingOf(x), cr[c])
                     + (CountingOf(x)[Idle] - CountingOf(x)[th])
        BY <2>1, <2>2, CrChanged
      <4>2. \A x : CountingOf(x)[Idle] = 0
        BY <2>2 DEF CountingOf
      <4>. QED BY <2>3, <4>1, <4>2
    <3>2. g \in Nat /\ r \in Nat /\ w \in Int
      BY <1>n, <2>4
    <3>3. recvCount'[c][s] = r + w
      <4>1. CASE s = i
        BY <1>t, <2>1, <4>1
      <4>2. CASE s # i
        BY <1>t, <2>1, <4>2
      <4>. QED BY <4>1, <4>2
    <3>4. Fetched(c, s) = r + g /\ Fetched(c, s)' = (r + w) + (g + (0 - w))
      BY <1>f, <3>1, <3>3
    <3>. HIDE DEF w, g, r
    <3>5. (r + w) + (g + (0 - w)) = r + g
      BY <3>2
    <3>. QED BY <3>4, <3>5
  <2>7. Still(c)
    BY <1>0, <1>s, <2>1, <2>6 DEF Still, Waiting
  <2>. QED BY <1>a, <1>b, <2>5, <2>7, ShrinksKept
<1>6. CASE ClientRecvClose(c, t)
  <2>1. /\ th.pc \in {"head", "items"} /\ cr' = [cr EXCEPT ![c][t] = Exited]
        /\ cfd' = [cfd EXCEPT ![c][i] = FALSE]
        /\ UNCHANGED <<down, buffered, recvCount>>
    BY <1>6, <1>i DEF ClientRecvClose
  <2>2. Exited \in Thread(RecvPC) /\ Exited.pc = "exit"
    BY ThreadTypes DEF Exited, At, RecvPC
  <2>3. ASSUME NEW x \in Storage, NEW j \in Storage
        PROVE  Outstanding(c, x, j)' <= Outstanding(c, x, j)
    <3>. DEFINE a == Asked(up[c][x], j)  h == heads[c][x][j]  r == replies[c][x][j]
                p == Replying(ss[x], c, j)  d == Coming(down[c][x], j)
                q == Receiving(cr[c], x, j)  f == Receiving(cr'[c], x, j)
                w == ReceivingOf(x, j)[th]
    <3>1. Outstanding(c, x, j) = h + a + r + p + d + q
      BY DEF Outstanding
    <3>2. Outstanding(c, x, j)' = h + a + r + p + d + f
      BY <1>0, <2>1 DEF Outstanding
    <3>3. h \in Nat /\ a \in Nat /\ r \in Nat /\ p \in Nat /\ d \in Nat /\ q \in Nat
      BY RouteNat
    <3>4. w \in Nat
      BY <1>0, Weights
    <3>5. f = q + (0 - w)
      <4>1. \A y, k : Receiving(cr'[c], y, k) = Receiving(cr[c], y, k)
                     + (ReceivingOf(y, k)[Exited] - ReceivingOf(y, k)[th])
        BY <2>1, <2>2, CrChanged
      <4>2. \A y, k : ReceivingOf(y, k)[Exited] = 0
        BY <2>2 DEF ReceivingOf
      <4>. QED BY <4>1, <4>2
    <3>. HIDE DEF a, h, r, p, d, q, f, w
    <3>6. h + a + r + p + d + f <= h + a + r + p + d + q
      BY <3>3, <3>4, <3>5
    <3>. QED BY <3>1, <3>2, <3>6
  <2>4. ~cfd'[c][i]
    BY <1>t, <2>1
  <2>5. Shrinks(c)
    BY <2>3, <2>4, ShrinksLost
  <2>6. ASSUME NEW s \in Storage
        PROVE  Fetched(c, s)' = Fetched(c, s)
    <3>1. cr[c][t].pc # "count" /\ Exited.pc # "count"
      BY <2>1, <2>2
    <3>2. InHands(CountingOf(s), cr'[c]) = InHands(CountingOf(s), cr[c])
      BY <2>1, <2>2, <3>1, CrQuiet
    <3>. QED BY <1>f, <2>1, <3>2
  <2>7. Still(c)
    BY <1>0, <1>s, <2>1, <2>6 DEF Still, Waiting
  <2>. QED BY <1>b, <2>5, <2>7
<1>7. CASE ClientRecvExit(c, t)
  <2>1. /\ th.pc = "idle" /\ cr' = [cr EXCEPT ![c][t] = Exited]
        /\ UNCHANGED <<down, buffered, recvCount>>
    BY <1>7 DEF ClientRecvExit, wireVars
  <2>2. Exited \in Thread(RecvPC) /\ Exited.pc = "exit"
    BY ThreadTypes DEF Exited, At, RecvPC
  <2>. QED BY <1>1, <1>b, <2>1, <2>2
<1>. QED BY <1>2, <1>3, <1>4, <1>5, <1>6, <1>7 DEF ClientRecv, ClientRecvFail

(* The steps of a send thread, but for the one that ends its process.      *)
Sends(c, t) ==
  \/ ClientSendBegin(c, t) \/ ClientSendRequest(c, t) \/ ClientSendHead(c, t)
  \/ ClientSendItems(c, t) \/ ClientSendClose(c, t) \/ ClientSendExit(c, t)

LEMMA ClientSendFlow ==
  ASSUME TypeOK, TypeOK', Hands, Chunks, Asking, NEW c \in Client, NEW t \in CSendThread,
         Sends(c, t), UNCHANGED storageVars
  PROVE  /\ \A x \in Client \ {c} : Still(x) /\ Shrinks(x)
         /\ \/ Still(c) /\ Shrinks(c)
            \/ \E j \in Storage, n \in 1 .. MTU : Forwarding(c, j, n) \/ Losing(c, j, n)
<1>. DEFINE th == cs[c][t]
<1>0. /\ UNCHANGED <<replies, ss, down, sfd, reset, cr, recvCount>>
      /\ th \in Thread(SendPC) /\ th.i \in Storage
      /\ th.h \in Unit /\ th.h.count \in Nat
  <2>1. UNCHANGED <<replies, ss, down, sfd, reset, cr, recvCount>>
    BY DEF storageVars, wireVars, Sends, ClientSendBegin, ClientSendRequest,
       ClientSendHead, ClientSendItems, ClientSendClose, ClientSendExit
  <2>2. th \in Thread(SendPC)
    BY StateTypes
  <2>3. th.i \in Storage /\ th.h \in Unit /\ th.h.count \in Nat
    BY <2>2 DEF Thread, Unit
  <2>. QED BY <2>1, <2>2, <2>3
<1>i. PICK i \in Storage : th.i = i
  BY <1>0
<1>t. /\ cs \in [Client -> [CSendThread -> Thread(SendPC)]]
      /\ cfd \in [Client -> [Storage -> BOOLEAN]]
      /\ heads \in [Client -> [Storage -> [Storage -> Nat]]]
      /\ buffered \in [Client -> [Storage -> Nat]]
      /\ sendCount \in [Client -> [Storage -> Nat]]
      /\ cr[c] \in [CRecvThread -> Thread(RecvPC)]
  BY StateTypes
<1>f. \A s : Fetched(c, s)' = Fetched(c, s)
  <2>1. \A s : /\ Fetched(c, s) = recvCount[c][s] + InHands(CountingOf(s), cr[c])
               /\ Fetched(c, s)' = recvCount[c][s] + InHands(CountingOf(s), cr[c])
    BY <1>0, <1>t, FetchedView
  <2>. QED BY <2>1
<1>a. Closes
  <2>1. \/ cfd' = cfd
        \/ cfd' = [cfd EXCEPT ![c][i] = FALSE]
    BY <1>i DEF wireVars, Sends, ClientSendBegin, ClientSendRequest,
       ClientSendHead, ClientSendItems, ClientSendClose, ClientSendExit
  <2>2. ASSUME NEW x \in Client, NEW y \in Storage, cfd'[x][y]
        PROVE  cfd[x][y]
    <3>1. CASE cfd' = cfd
      BY <2>2, <3>1
    <3>2. CASE cfd' = [cfd EXCEPT ![c][i] = FALSE]
      BY <1>t, <2>2, <3>2
    <3>. QED BY <2>1, <3>1, <3>2
  <2>. QED BY <1>0, <2>2 DEF Closes
<1>b. ASSUME NEW x \in Client \ {c}
      PROVE  Still(x) /\ Shrinks(x)
  <2>1. cs'[x] = cs[x] /\ buffered'[x] = buffered[x] /\ sendCount'[x] = sendCount[x]
    BY <1>t DEF wireVars, Sends, ClientSendBegin, ClientSendRequest,
       ClientSendHead, ClientSendItems, ClientSendClose, ClientSendExit
  <2>2. up'[x] = up[x] /\ heads'[x] = heads[x]
    BY <1>t, StateTypes DEF wireVars, ClientPush, Sends, ClientSendBegin, ClientSendRequest,
       ClientSendHead, ClientSendItems, ClientSendClose, ClientSendExit
  <2>. QED BY <1>0, <1>a, <2>1, <2>2, Elsewhere
(* A step that asks for nothing keeps every route.                         *)
<1>1. ASSUME UNCHANGED heads,
             \A x \in Storage, j \in Storage : Asked(up'[c][x], j) = Asked(up[c][x], j)
      PROVE  \A x, j \in Storage : Outstanding(c, x, j)' = Outstanding(c, x, j)
  <2>1. ASSUME NEW x \in Storage, NEW j \in Storage
        PROVE  Outstanding(c, x, j)' = Outstanding(c, x, j)
    BY <1>0, <1>1, RouteKept
  <2>. QED BY <2>1
<1>2. ASSUME NEW u \in Unit, ClientPush(c, i, u), \A j \in Storage : AskedOf(j)[u] = 0,
             UNCHANGED heads
      PROVE  \A x, j \in Storage : Outstanding(c, x, j)' = Outstanding(c, x, j)
  <2>1. /\ \A x \in Client, y \in Storage : x # c \/ y # i => up'[x][y] = up[x][y]
        /\ \A j : Asked(up'[c][i], j) = Asked(up[c][i], j) + AskedOf(j)[u]
    BY <1>2, UpPushed
  <2>2. ASSUME NEW x \in Storage, NEW j \in Storage
        PROVE  Asked(up'[c][x], j) = Asked(up[c][x], j)
    <3>1. CASE x # i
      BY <2>1, <3>1
    <3>2. CASE x = i
      <4>1. Asked(up'[c][i], j) = Asked(up[c][i], j) + 0
        BY <1>2, <2>1
      <4>2. Asked(up[c][i], j) \in Nat
        BY RouteNat
      <4>. QED BY <3>2, <4>1, <4>2
    <3>. QED BY <3>1, <3>2
  <2>. QED BY <1>1, <1>2, <2>2
(* A step that keeps the weight of its thread keeps what waits.            *)
<1>3. ASSUME NEW v \in Thread(SendPC), cs' = [cs EXCEPT ![c][t] = v],
             \A j \in Storage : SendingOf(j)[v] = SendingOf(j)[th],
             UNCHANGED <<buffered, sendCount>>
      PROVE  Still(c)
  <2>1. \A j : Sending(c, j)' =
                  Sending(c, j) + (SendingOf(j)[v] - SendingOf(j)[cs[c][t]])
    BY <1>3, CsChanged
  <2>2. ASSUME NEW j \in Storage
        PROVE  Sending(c, j)' = Sending(c, j)
    <3>1. SendingOf(j)[th] \in Nat /\ Sending(c, j) \in Nat
      BY <1>0, Weights, WaitingNat
    <3>2. Sending(c, j)' = Sending(c, j) + (SendingOf(j)[th] - SendingOf(j)[th])
      BY <1>3, <2>1
    <3>. QED BY <3>1, <3>2
  <2>. QED BY <1>3, <1>f, <2>2 DEF Still, Waiting
<1>4. CASE ClientSendBegin(c, t)
  <2>1. th.pc = "idle" /\ UNCHANGED <<up, heads, sendCount>>
    BY <1>4 DEF ClientSendBegin, wireVars
  <2>2. \A x, j \in Storage : Outstanding(c, x, j)' = Outstanding(c, x, j)
    BY <1>1, <2>1
  <2>3. \A j : SendingOf(j)[th] = 0
    BY <1>0, <2>1 DEF SendingOf
  <2>4. ASSUME NEW s \in Storage, NEW k \in Storage, UNCHANGED buffered,
               cs' = [cs EXCEPT ![c][t] = At("request", s, HeadUnit(Read, k, heads[c][s][k]))]
        PROVE  Still(c)
    <3>. DEFINE v == At("request", s, HeadUnit(Read, k, heads[c][s][k]))
    <3>1. v \in Thread(SendPC) /\ v.pc = "request"
      <4>1. HeadUnit(Read, k, heads[c][s][k]) \in Unit
        BY <1>t, UnitTypes
      <4>. QED BY <4>1, ThreadTypes DEF At, SendPC
    <3>2. \A j : SendingOf(j)[v] = 0
      BY <3>1 DEF SendingOf
    <3>. HIDE DEF v
    <3>3. cs' = [cs EXCEPT ![c][t] = v]
      BY <2>4 DEF v
    <3>. QED BY <1>3, <2>1, <2>3, <2>4, <3>1, <3>2, <3>3
  <2>5. ASSUME NEW s \in Storage, NEW n, n = Chunk(buffered[c][s]), buffered[c][s] > 0,
               buffered' = [buffered EXCEPT ![c][s] = @ - n],
               cs' = [cs EXCEPT ![c][t] = At("head", s, HeadUnit(Write, NoIndex, n))]
        PROVE  Still(c)
    <3>. DEFINE v == At("head", s, HeadUnit(Write, NoIndex, n))
    <3>0. n \in Nat
      BY <1>t, <2>5, ChunkType
    <3>1. v \in Thread(SendPC) /\ v.pc = "head" /\ v.i = s /\ v.h.count = n
      <4>1. HeadUnit(Write, NoIndex, n) \in Unit /\ HeadUnit(Write, NoIndex, n).count = n
        BY <3>0, UnitTypes DEF HeadUnit
      <4>. QED BY <4>1, ThreadTypes DEF At, SendPC
    <3>2. \A j : SendingOf(j)[v] = IF j = s THEN n ELSE 0
      BY <3>1 DEF SendingOf
    <3>. HIDE DEF v
    <3>s. cs' = [cs EXCEPT ![c][t] = v]
      BY <2>5 DEF v
    <3>3. \A j : Sending(c, j)' = Sending(c, j) + (SendingOf(j)[v] - SendingOf(j)[cs[c][t]])
      BY <3>1, <3>s, CsChanged
    <3>4. ASSUME NEW j \in Storage
          PROVE  Waiting(c, j)' = Waiting(c, j)
      <4>. DEFINE w == IF j = s THEN n ELSE 0
                  b == buffered[c][j]  e == Sending(c, j)
      <4>1. b \in Nat /\ e \in Nat /\ w \in Nat
        BY <3>0, WaitingNat
      <4>2. buffered'[c][j] = b - w
        <5>1. CASE j = s
          BY <1>t, <2>5, <5>1
        <5>2. CASE j # s
          BY <1>t, <2>5, <5>2
        <5>. QED BY <5>1, <5>2
      <4>3. Sending(c, j)' = e + (w - 0)
        BY <2>3, <3>2, <3>3
      <4>4. Waiting(c, j) = b + e /\ Waiting(c, j)' = (b - w) + (e + (w - 0))
        BY <4>2, <4>3 DEF Waiting
      <4>. HIDE DEF w, b, e
      <4>5. (b - w) + (e + (w - 0)) = b + e
        BY <4>1
      <4>. QED BY <4>4, <4>5
    <3>. QED BY <1>f, <2>1, <3>4 DEF Still
  <2>6. Still(c)
    BY <1>4, <2>4, <2>5 DEF ClientSendBegin
  <2>. QED BY <1>a, <1>b, <2>2, <2>6, ShrinksKept
<1>5. CASE ClientSendRequest(c, t)
  <2>1. /\ ClientPush(c, i, th.h) /\ th.pc = "request"
        /\ heads' = [heads EXCEPT ![c][i][th.h.index] = 0]
        /\ cs' = [cs EXCEPT ![c][t] = Idle] /\ UNCHANGED <<buffered, sendCount>>
    BY <1>5, <1>i DEF ClientSendRequest
  <2>2. PICK k \in Storage, n \in Nat :
           th.h.index = k /\ th.h.kind = "head" /\ th.h.type = Read
           /\ th.h.count = n /\ heads[c][i][k] = n
    BY <1>0, <1>i, <2>1 DEF Asking
  <2>3. /\ \A x \in Client, y \in Storage : x # c \/ y # i => up'[x][y] = up[x][y]
        /\ \A j : Asked(up'[c][i], j) = Asked(up[c][i], j) + AskedOf(j)[th.h]
    BY <1>0, <2>1, UpPushed
  <2>4. \A j : AskedOf(j)[th.h] = IF j = k THEN n ELSE 0
    BY <1>0, <2>2 DEF AskedOf
  <2>5. /\ \A y \in Storage : y # i => heads'[c][y] = heads[c][y]
        /\ heads'[c][i][k] = 0
        /\ \A j \in Storage \ {k} : heads'[c][i][j] = heads[c][i][j]
    BY <1>t, <2>1, <2>2, RoutePoint
  <2>6. ASSUME NEW x \in Storage, NEW j \in Storage
        PROVE  Outstanding(c, x, j)' = Outstanding(c, x, j)
    <3>1. CASE x # i
      BY <1>0, <2>3, <2>5, <3>1, RouteKept
    <3>2. CASE x = i
      <4>. DEFINE a == Asked(up[c][i], j)  b == Asked(up'[c][i], j)
                  h == heads[c][i][j]  g == heads'[c][i][j]  r == replies[c][i][j]
                  p == Replying(ss[i], c, j)  d == Coming(down[c][i], j)
                  q == Receiving(cr[c], i, j)  w == IF j = k THEN n ELSE 0
      <4>1. Outstanding(c, i, j) = h + a + r + p + d + q
        BY DEF Outstanding
      <4>2. Outstanding(c, i, j)' = g + b + r + p + d + q
        BY <1>0 DEF Outstanding
      <4>3. h \in Nat /\ a \in Nat /\ r \in Nat /\ p \in Nat /\ d \in Nat /\ q \in Nat
        BY RouteNat
      <4>4. w \in Nat /\ b = a + w
        BY <2>3, <2>4
      <4>5. g = h - w
        <5>1. CASE j = k
          BY <2>2, <2>5, <5>1
        <5>2. CASE j # k
          <6>1. g = h /\ w = 0
            BY <2>5, <5>2
          <6>. HIDE DEF g, h, w
          <6>. QED BY <4>3, <6>1
        <5>. QED BY <5>1, <5>2
      <4>. HIDE DEF a, b, g, h, r, p, d, q, w
      <4>6. g + b + r + p + d + q = h + a + r + p + d + q
        BY <4>3, <4>4, <4>5
      <4>. QED BY <3>2, <4>1, <4>2, <4>6
    <3>. QED BY <3>1, <3>2
  <2>7. Still(c)
    <3>1. Idle \in Thread(SendPC) /\ Idle.pc = "idle"
      BY ThreadTypes DEF Idle, At, SendPC
    <3>2. \A j : SendingOf(j)[Idle] = 0 /\ SendingOf(j)[th] = 0
      BY <1>0, <2>1, <3>1 DEF SendingOf
    <3>. QED BY <1>3, <2>1, <3>1, <3>2
  <2>. QED BY <1>a, <1>b, <2>6, <2>7, ShrinksKept
<1>6. CASE ClientSendHead(c, t)
  <2>. DEFINE v == At("items", i, th.h)
  <2>1. /\ ClientPush(c, i, th.h) /\ th.pc = "head" /\ cs' = [cs EXCEPT ![c][t] = v]
        /\ UNCHANGED <<heads, buffered, sendCount>>
    BY <1>6, <1>i DEF ClientSendHead
  <2>2. th.h.type = Write
    BY <2>1 DEF Hands, SendHands
  <2>3. \A j : AskedOf(j)[th.h] = 0
    BY <1>0, <2>2 DEF AskedOf, Read, Write
  <2>4. \A x, j \in Storage : Outstanding(c, x, j)' = Outstanding(c, x, j)
    BY <1>0, <1>2, <2>1, <2>3
  <2>5. v \in Thread(SendPC) /\ v.pc = "items" /\ v.i = i /\ v.h = th.h
    BY <1>0, ThreadTypes DEF At, SendPC
  <2>. HIDE DEF v
  <2>6. \A j : SendingOf(j)[v] = SendingOf(j)[th]
    BY <1>0, <1>i, <2>1, <2>5 DEF SendingOf
  <2>7. Still(c)
    BY <1>3, <2>1, <2>5, <2>6
  <2>. QED BY <1>a, <1>b, <2>4, <2>7, ShrinksKept
(* A thread that lets go of the items in its hands.                        *)
<1>7. ASSUME NEW n \in 1 .. MTU, th.pc \in {"head", "items"}, th.h.count = n,
             NEW v \in Thread(SendPC), v.pc \in {"idle", "exit"},
             cs' = [cs EXCEPT ![c][t] = v], UNCHANGED buffered, Shrinks(c),
             \A s \in Storage \ {i} : sendCount'[c][s] = sendCount[c][s]
      PROVE  Taking(c, i, n)
  <2>1. \A j : /\ Sending(c, j)' =
                    Sending(c, j) + (SendingOf(j)[v] - SendingOf(j)[cs[c][t]])
               /\ SendingOf(j)[cs[c][t]] <= Sending(c, j)
    BY <1>7, CsChanged
  <2>2. \A j : SendingOf(j)[v] = 0 /\ SendingOf(j)[th] = IF j = i THEN n ELSE 0
    BY <1>0, <1>i, <1>7 DEF SendingOf
  <2>3. n \in Nat
    BY WireAssumption
  <2>4. ASSUME NEW s \in Storage
        PROVE  /\ Waiting(c, s)' = Waiting(c, s) - (IF s = i THEN n ELSE 0)
               /\ (IF s = i THEN n ELSE 0) <= Waiting(c, s)
               /\ Waiting(c, s) \in Nat
    <3>. DEFINE w == IF s = i THEN n ELSE 0
                b == buffered[c][s]  e == Sending(c, s)
    <3>1. b \in Nat /\ e \in Nat /\ w \in Nat
      BY <2>3, WaitingNat
    <3>2. Sending(c, s)' = e + (0 - w) /\ w <= e
      BY <2>1, <2>2
    <3>3. Waiting(c, s) = b + e /\ Waiting(c, s)' = b + (e + (0 - w))
      BY <1>7, <3>2 DEF Waiting
    <3>. HIDE DEF w, b, e
    <3>4. b + (e + (0 - w)) = (b + e) - w /\ w <= b + e /\ b + e \in Nat
      BY <3>1, <3>2
    <3>5. Waiting(c, s)' = Waiting(c, s) - w /\ w <= Waiting(c, s) /\ Waiting(c, s) \in Nat
      BY <3>3, <3>4
    <3>. QED BY <3>5 DEF w
  <2>5. Waiting(c, i)' = Waiting(c, i) - n /\ n <= Waiting(c, i)
    BY <2>4
  <2>6. \A s \in Storage \ {i} : Waiting(c, s)' = Waiting(c, s)
    BY <2>4
  <2>. QED BY <1>7, <1>f, <2>5, <2>6 DEF Taking
<1>8. CASE ClientSendItems(c, t)
  <2>1. /\ ClientPush(c, i, ItemsUnit(th.h.count)) /\ th.pc = "items"
        /\ cs' = [cs EXCEPT ![c][t] = Idle]
        /\ sendCount' = [sendCount EXCEPT ![c][i] = @ + th.h.count]
        /\ UNCHANGED <<heads, buffered>>
    BY <1>8, <1>i DEF ClientSendItems
  <2>2. PICK n \in 1 .. MTU : th.h.count = n
    <3>1. th \in SendChunks
      BY DEF Chunks
    <3>. QED BY <2>1, <3>1 DEF SendChunks
  <2>3. ItemsUnit(n) \in Unit /\ ItemsUnit(n).kind = "items"
    BY <1>0, <2>2, UnitTypes DEF ItemsUnit
  <2>4. \A j : AskedOf(j)[ItemsUnit(n)] = 0
    BY <2>3 DEF AskedOf
  <2>5. \A x, j \in Storage : Outstanding(c, x, j)' = Outstanding(c, x, j)
    BY <1>2, <2>1, <2>2, <2>3, <2>4
  <2>6. Shrinks(c)
    BY <1>a, <2>5, ShrinksKept
  <2>7. Idle \in Thread(SendPC) /\ Idle.pc = "idle"
    BY ThreadTypes DEF Idle, At, SendPC
  <2>8. /\ sendCount'[c][i] = sendCount[c][i] + n
        /\ \A s \in Storage \ {i} : sendCount'[c][s] = sendCount[c][s]
    BY <1>t, <2>1, <2>2
  <2>9. Taking(c, i, n)
    BY <1>7, <2>1, <2>2, <2>6, <2>7, <2>8
  <2>. QED BY <1>b, <2>8, <2>9 DEF Forwarding
<1>9. CASE ClientSendClose(c, t)
  <2>1. /\ th.pc \in {"request", "head", "items"} /\ cs' = [cs EXCEPT ![c][t] = Exited]
        /\ cfd' = [cfd EXCEPT ![c][i] = FALSE]
        /\ UNCHANGED <<up, heads, buffered, sendCount>>
    BY <1>9, <1>i DEF ClientSendClose
  <2>2. Exited \in Thread(SendPC) /\ Exited.pc = "exit"
    BY ThreadTypes DEF Exited, At, SendPC
  <2>3. Shrinks(c)
    BY <1>1, <1>a, <2>1, ShrinksKept
  <2>4. ~Intact(c)'
    <3>1. ~cfd'[c][i]
      BY <1>t, <2>1
    <3>. QED BY <3>1 DEF Intact
  <2>5. CASE th.pc = "request"
    <3>1. \A j : SendingOf(j)[Exited] = 0 /\ SendingOf(j)[th] = 0
      BY <1>0, <2>2, <2>5 DEF SendingOf
    <3>2. Still(c)
      BY <1>3, <2>1, <2>2, <3>1
    <3>. QED BY <1>b, <2>3, <3>2
  <2>6. CASE th.pc \in {"head", "items"}
    <3>1. PICK n \in 1 .. MTU : th.h.count = n
      <4>1. th \in SendChunks
        BY DEF Chunks
      <4>. QED BY <2>6, <4>1 DEF SendChunks
    <3>2. Taking(c, i, n)
      BY <1>7, <2>1, <2>2, <2>3, <2>6, <3>1
    <3>. QED BY <1>b, <2>1, <2>4, <3>2 DEF Losing
  <2>. QED BY <2>1, <2>5, <2>6
<1>10. CASE ClientSendExit(c, t)
  <2>1. /\ th.pc = "idle" /\ cs' = [cs EXCEPT ![c][t] = Exited]
        /\ UNCHANGED <<up, heads, buffered, sendCount>>
    BY <1>10 DEF ClientSendExit, wireVars
  <2>2. Exited \in Thread(SendPC) /\ Exited.pc = "exit"
    BY ThreadTypes DEF Exited, At, SendPC
  <2>3. \A j : SendingOf(j)[Exited] = 0 /\ SendingOf(j)[th] = 0
    BY <1>0, <2>1, <2>2 DEF SendingOf
  <2>4. Still(c)
    BY <1>3, <2>1, <2>2, <2>3
  <2>. QED BY <1>1, <1>a, <1>b, <2>1, <2>4, ShrinksKept
<1>. QED BY <1>4, <1>5, <1>6, <1>8, <1>9, <1>10 DEF Sends

(* What the items of a client do in a step of its session.                 *)
Moved(c) ==
  \/ Still(c) /\ Shrinks(c)
  \/ \E i, j \in Storage, n \in 1 .. MTU : Fetching(c, i, j, n)
  \/ \E j \in Storage, n \in 1 .. MTU : Forwarding(c, j, n) \/ Losing(c, j, n)

Apart(c) ==
  \A x \in Client \ {c} : /\ Still(x) /\ Shrinks(x)
                          /\ outcome'[x] = outcome[x]
                          /\ serverUp'[x] = serverUp[x]

ServerGone(c) == serverUp' = [serverUp EXCEPT ![c] = FALSE]

(* Client c has threads, or its monitor, at work.                          *)
AtWork(c) == mon[c].pc # "done" \/ \E t \in CSendThread : cs[c][t].pc # "exit"

Killed(c) ==
  /\ AtWork(c)
  /\ outcome' = [outcome EXCEPT ![c] = "killed"]
  /\ UNCHANGED serverUp \/ ServerGone(c)

(* What a step is for the items of all clients: a move of the items of one *)
(* of them, the loss of its server, its death, or the end of its session.  *)
Flow(c) ==
  /\ Apart(c)
  /\ \/ Moved(c) /\ UNCHANGED <<outcome, serverUp>>
     \/ /\ Still(c) /\ Shrinks(c) /\ UNCHANGED outcome
        /\ ServerGone(c) /\ mon[c].pc = "report"
     \/ Killed(c)
     \/ ClientFinish(c)

LEMMA KilledFlow ==
  ASSUME TypeOK, TypeOK', NEW c \in Client, ClientDies(c), UNCHANGED storageVars,
         UNCHANGED serverUp \/ ServerGone(c), AtWork(c)
  PROVE  Flow(c)
<1>t. /\ cr \in [Client -> [CRecvThread -> Thread(RecvPC)]]
      /\ cs \in [Client -> [CSendThread -> Thread(SendPC)]]
      /\ cfd \in [Client -> [Storage -> BOOLEAN]]
  BY StateTypes
<1>o. /\ outcome \in [Client -> {"none", "complete", "error", "killed"}]
      /\ serverUp \in [Client -> BOOLEAN]
  BY DEF TypeOK, ClientTypeOK
<1>1. /\ UNCHANGED <<up, down, heads, buffered, recvCount, sendCount, sfd, reset>>
      /\ UNCHANGED <<replies, ss>>
      /\ cfd' = [cfd EXCEPT ![c] = OnStorage(FALSE)]
      /\ cr' = [cr EXCEPT ![c] = [t \in CRecvThread |-> Exited]]
      /\ cs' = [cs EXCEPT ![c] = [t \in CSendThread |-> Exited]]
      /\ outcome' = [outcome EXCEPT ![c] = "killed"]
  BY DEF ClientDies, storageVars
<1>2. Closes
  <2>1. ASSUME NEW x \in Client, NEW y \in Storage, cfd'[x][y]
        PROVE  cfd[x][y]
    <3>1. CASE x = c
      BY <1>1, <1>t, <2>1, <3>1 DEF OnStorage
    <3>2. CASE x # c
      BY <1>1, <1>t, <2>1, <3>2
    <3>. QED BY <3>1, <3>2
  <2>. QED BY <1>1, <2>1 DEF Closes
<1>3. ASSUME NEW x \in Client \ {c}
      PROVE  /\ Still(x) /\ Shrinks(x)
             /\ outcome'[x] = outcome[x] /\ serverUp'[x] = serverUp[x]
  <2>1. cr'[x] = cr[x] /\ cs'[x] = cs[x]
    BY <1>1, <1>t
  <2>2. outcome'[x] = outcome[x] /\ serverUp'[x] = serverUp[x]
    BY <1>1, <1>o DEF ServerGone
  <2>. QED BY <1>1, <1>2, <2>1, <2>2, Elsewhere
<1>. QED BY <1>1, <1>3 DEF Flow, Apart, Killed

LEMMA ClientFlow ==
  ASSUME TypeOK, TypeOK', Hands, Hands', Chunks, Asking, NEW c \in Client,
         ClientStep(c) \/ ClientTimeout(c) \/ MonitorServerLost(c), UNCHANGED storageVars
  PROVE  Flow(c)
<1>0. UNCHANGED <<replies, ss>>
  BY DEF storageVars
<1>1. ASSUME NEW t \in CRecvThread, ClientRecv(c, t) \/ ClientRecvClose(c, t)
      PROVE  Flow(c)
  <2>1. UNCHANGED <<outcome, serverUp>>
    BY <1>1 DEF ClientRecv, ClientRecvBegin, ClientRecvHead, ClientRecvItems,
       ClientRecvCount, ClientRecvFail, ClientRecvClose, ClientRecvExit
  <2>2. (\A x \in Client \ {c} : Still(x) /\ Shrinks(x)) /\ Moved(c)
    BY <1>1, ClientRecvFlow DEF Moved
  <2>. QED BY <2>1, <2>2 DEF Flow, Apart
<1>2. ASSUME NEW t \in CSendThread, Sends(c, t)
      PROVE  Flow(c)
  <2>1. UNCHANGED <<outcome, serverUp>>
    BY <1>2 DEF Sends, ClientSendBegin, ClientSendRequest, ClientSendHead,
       ClientSendItems, ClientSendClose, ClientSendExit
  <2>2. (\A x \in Client \ {c} : Still(x) /\ Shrinks(x)) /\ Moved(c)
    BY <1>2, ClientSendFlow DEF Moved
  <2>. QED BY <2>1, <2>2 DEF Flow, Apart
(* The monitor keeps its hands off the items.                              *)
<1>3. ASSUME UNCHANGED <<up, down, cfd, sfd, reset, heads, buffered, recvCount>>,
             UNCHANGED <<sendCount, cr, cs, outcome>>
      PROVE  \A x \in Client : Still(x) /\ Shrinks(x)
  <2>1. Closes
    BY <1>3 DEF Closes
  <2>. QED BY <1>0, <1>3, <2>1, Elsewhere
<1>4. CASE MonitorScan(c) \/ MonitorReport(c)
  <2>1. /\ UNCHANGED <<up, down, cfd, sfd, reset, heads, buffered, recvCount>>
        /\ UNCHANGED <<sendCount, cr, cs, outcome>>
        /\ UNCHANGED serverUp
    BY <1>4 DEF MonitorScan, MonitorReport, wireVars
  <2>. QED BY <1>3, <2>1 DEF Flow, Apart, Moved
<1>5. CASE MonitorServerLost(c)
  <2>1. mon[c].pc = "report" /\ ServerGone(c)
    BY <1>5 DEF MonitorServerLost, ServerGone
  <2>2. CASE ClientDies(c)
    <3>1. AtWork(c)
      BY <2>1 DEF AtWork
    <3>. QED BY <2>1, <2>2, <3>1, KilledFlow
  <2>3. CASE ~ClientDies(c)
    <3>1. /\ UNCHANGED <<up, down, cfd, sfd, reset, heads, buffered, recvCount>>
          /\ UNCHANGED <<sendCount, cr, cs, outcome>>
      BY <1>5, <2>3 DEF MonitorServerLost
    <3>2. \A x \in Client \ {c} : serverUp'[x] = serverUp[x]
      BY <2>1 DEF ServerGone, TypeOK, ClientTypeOK
    <3>. QED BY <1>3, <2>1, <3>1, <3>2 DEF Flow, Apart, Moved
  <2>. QED BY <2>2, <2>3
<1>6. CASE ClientFinish(c)
  <2>1. /\ UNCHANGED <<up, down, sfd, reset, cr, cs, serverUp>>
        /\ cfd' = [cfd EXCEPT ![c] = OnStorage(FALSE)]
        /\ heads' = [heads EXCEPT ![c] = OnStorage(OnStorage(0))]
        /\ buffered' = [buffered EXCEPT ![c] = OnStorage(0)]
        /\ recvCount' = [recvCount EXCEPT ![c] = OnStorage(0)]
        /\ sendCount' = [sendCount EXCEPT ![c] = OnStorage(0)]
        /\ \E v : outcome' = [outcome EXCEPT ![c] = v]
    BY <1>6 DEF ClientFinish
  <2>2. /\ cfd \in [Client -> [Storage -> BOOLEAN]]
        /\ heads \in [Client -> [Storage -> [Storage -> Nat]]]
        /\ buffered \in [Client -> [Storage -> Nat]]
        /\ recvCount \in [Client -> [Storage -> Nat]]
        /\ sendCount \in [Client -> [Storage -> Nat]]
    BY StateTypes
  <2>3. outcome \in [Client -> {"none", "complete", "error", "killed"}]
    BY DEF TypeOK, ClientTypeOK
  <2>4. Closes
    <3>1. ASSUME NEW x \in Client, NEW y \in Storage, cfd'[x][y]
          PROVE  cfd[x][y]
      <4>1. CASE x = c
        BY <2>1, <2>2, <3>1, <4>1 DEF OnStorage
      <4>2. CASE x # c
        BY <2>1, <2>2, <3>1, <4>2
      <4>. QED BY <4>1, <4>2
    <3>. QED BY <2>1, <3>1 DEF Closes
  <2>5. ASSUME NEW x \in Client \ {c}
        PROVE  /\ Still(x) /\ Shrinks(x)
               /\ outcome'[x] = outcome[x] /\ serverUp'[x] = serverUp[x]
    <3>1. heads'[x] = heads[x] /\ buffered'[x] = buffered[x] /\ outcome'[x] = outcome[x]
      BY <2>1, <2>2, <2>3
    <3>2. recvCount'[x] = recvCount[x] /\ sendCount'[x] = sendCount[x]
      BY <2>1, <2>2
    <3>. QED BY <1>0, <2>1, <2>4, <3>1, <3>2, Elsewhere
  <2>. QED BY <1>6, <2>5 DEF Flow, Apart
<1>7. ASSUME NEW t \in CSendThread, ClientSendKilled(c, t)
      PROVE  Flow(c)
  BY <1>7, KilledFlow DEF ClientSendKilled, AtWork
<1>8. ASSUME NEW t \in CSendThread, ClientSend(c, t)
      PROVE  Flow(c)
  <2>1. Sends(c, t) \/ ClientSendKilled(c, t)
    BY <1>8 DEF ClientSend, ClientSendFail, Sends
  <2>. QED BY <1>2, <1>7, <2>1
<1>9. CASE ClientTimeout(c)
  BY <1>1, <1>2, <1>9 DEF ClientTimeout, Sends
<1>. QED BY <1>1, <1>4, <1>5, <1>6, <1>8, <1>9 DEF ClientStep, ClientMain

LEMMA ResetFlow ==
  ASSUME TypeOK, TypeOK', NEW c \in Client, NEW s \in Storage, ConnReset(c, s),
         UNCHANGED <<clientVars, storageVars>>
  PROVE  \A x \in Client : Shrinks(x)
<1>0. UNCHANGED <<heads, cr, replies, ss, cfd, sfd>>
  BY DEF clientVars, storageVars, ConnReset
<1>1. PICK m \in 0 .. Len(up[c][s]), n \in 0 .. Len(down[c][s]) :
         /\ up' = [up EXCEPT ![c][s] = SubSeq(@, 1, m)]
         /\ down' = [down EXCEPT ![c][s] = SubSeq(@, 1, n)]
  BY DEF ConnReset
<1>2. /\ up \in [Client -> [Storage -> Seq(Unit)]]
      /\ down \in [Client -> [Storage -> Seq(Unit)]]
      /\ reset \in [Client -> [Storage -> BOOLEAN]]
  BY StateTypes
<1>3. /\ \A x \in Client, y \in Storage : x # c \/ y # s =>
            up'[x][y] = up[x][y] /\ down'[x][y] = down[x][y]
      /\ up'[c][s] = SubSeq(up[c][s], 1, m)
      /\ down'[c][s] = SubSeq(down[c][s], 1, n)
  BY <1>1, <1>2
<1>4. /\ reset'[c][s]
      /\ \A x \in Client, y \in Storage : reset[x][y] => reset'[x][y]
  <2>1. reset' = [reset EXCEPT ![c][s] = TRUE]
    BY DEF ConnReset
  <2>. QED BY <1>2, <2>1
<1>5. \A j : /\ Asked(up'[c][s], j) <= Asked(up[c][s], j)
             /\ Coming(down'[c][s], j) <= Coming(down[c][s], j)
  <2>1. up[c][s] \in Seq(Unit) /\ down[c][s] \in Seq(Unit)
    BY <1>2
  <2>. QED BY <1>3, <2>1, AskedMoves, ComingMoves
<1>6. ASSUME NEW x \in Client, NEW i \in Storage, NEW j \in Storage
      PROVE  /\ x # c \/ i # s => Outstanding(x, i, j)' = Outstanding(x, i, j)
             /\ Outstanding(x, i, j)' <= Outstanding(x, i, j)
  <2>1. CASE x # c \/ i # s
    <3>1. Outstanding(x, i, j)' = Outstanding(x, i, j)
      BY <1>0, <1>3, <2>1, RouteKept
    <3>2. Outstanding(x, i, j) \in Nat
      BY OutstandingNat
    <3>. QED BY <3>1, <3>2
  <2>2. CASE x = c /\ i = s
    <3>. DEFINE a == Asked(up[c][s], j)  b == Asked(up'[c][s], j)
                h == heads[c][s][j]  r == replies[c][s][j]  p == Replying(ss[s], c, j)
                d == Coming(down[c][s], j)  e == Coming(down'[c][s], j)
                q == Receiving(cr[c], s, j)
    <3>1. Outstanding(c, s, j) = h + a + r + p + d + q
      BY DEF Outstanding
    <3>2. Outstanding(c, s, j)' = h + b + r + p + e + q
      BY <1>0 DEF Outstanding
    <3>3. h \in Nat /\ a \in Nat /\ r \in Nat /\ p \in Nat /\ d \in Nat /\ q \in Nat
      BY RouteNat
    <3>4. b \in Nat /\ e \in Nat
      BY NextRouteNat
    <3>5. b <= a /\ e <= d
      BY <1>5
    <3>. HIDE DEF a, b, h, r, p, d, e, q
    <3>6. h + b + r + p + e + q <= h + a + r + p + d + q
      BY <3>3, <3>4, <3>5
    <3>. QED BY <2>2, <3>1, <3>2, <3>6
  <2>. QED BY <2>1, <2>2
<1>7. Shrinks(c)
  BY <1>4, <1>6, ShrinksLost
<1>8. ASSUME NEW x \in Client \ {c}
      PROVE  Shrinks(x)
  <2>1. Closes
    BY <1>0, <1>4 DEF Closes
  <2>. QED BY <1>6, <2>1, ShrinksKept
<1>. QED BY <1>7, <1>8

(* Every step of the data phase.                                           *)
LEMMA StepFlow ==
  ASSUME TypeOK, TypeOK', Hands, Hands', Chunks, Asking, Once, [Next]_vars
  PROVE  \/ \E c \in Client : Flow(c)
         \/ /\ \A x \in Client : Still(x) /\ Shrinks(x)
            /\ UNCHANGED <<outcome, serverUp>>
<1>1. ASSUME UNCHANGED clientVars, \A x \in Client : Shrinks(x)
      PROVE  /\ \A x \in Client : Still(x) /\ Shrinks(x)
             /\ UNCHANGED <<outcome, serverUp>>
  <2>1. UNCHANGED <<cr, cs, buffered, recvCount, sendCount, outcome, serverUp>>
    BY <1>1 DEF clientVars
  <2>. QED BY <1>1, <2>1, StillKept
<1>2. ASSUME NEW c \in Client, UNCHANGED storageVars,
             ClientStep(c) \/ ClientTimeout(c) \/ MonitorServerLost(c)
      PROVE  Flow(c)
  BY <1>2, ClientFlow
<1>3. ASSUME NEW s \in Storage, UNCHANGED clientVars, StorageStep(s) \/ StorageTimeout(s)
      PROVE  \A x \in Client : Shrinks(x)
  BY <1>3, StorageRecvFlow, StorageSendFlow DEF StorageStep, StorageTimeout
<1>4. ASSUME NEW c \in Client, NEW s \in Storage, ConnReset(c, s),
             UNCHANGED <<clientVars, storageVars>>
      PROVE  \A x \in Client : Shrinks(x)
  BY <1>4, ResetFlow
<1>5. ASSUME UNCHANGED vars
      PROVE  UNCHANGED clientVars /\ \A x \in Client : Shrinks(x)
  <2>1. UNCHANGED clientVars /\ UNCHANGED <<up, down, cfd, sfd, reset, replies, ss>>
    BY <1>5 DEF vars, wireVars, storageVars
  <2>2. UNCHANGED <<cr, cs, heads, buffered, recvCount, sendCount>>
    BY <2>1 DEF clientVars
  <2>3. Closes
    BY <2>1 DEF Closes
  <2>. QED BY <2>1, <2>2, <2>3, Elsewhere
<1>6. AtRest => UNCHANGED vars
  BY DEF AtRest
<1>. QED BY <1>1, <1>2, <1>3, <1>4, <1>5, <1>6 DEF Next

-----------------------------------------------------------------------------
(* The balance of a client.                                                *)

LEMMA OwedNat ==
  ASSUME NEW c \in Client, NEW s \in Storage
  PROVE  /\ TypeOK => OwedTo(c, s) \in Nat /\ OwedBy(c, s) \in Nat
         /\ TypeOK' => OwedTo(c, s)' \in Nat /\ OwedBy(c, s)' \in Nat
<1>1. IsFiniteSet(Storage)
  BY FiniteStorage
<1>2. ASSUME TypeOK
      PROVE  OwedTo(c, s) \in Nat /\ OwedBy(c, s) \in Nat
  <2>. DEFINE f == [i \in Storage |-> Outstanding(c, i, s)]
              g == [j \in Storage |-> Outstanding(c, s, j)]
  <2>1. \A x \in Storage : f[x] \in Nat /\ g[x] \in Nat
    BY <1>2, OutstandingNat
  <2>2. OwedTo(c, s) = SumFunctionOnSet(f, Storage)
        /\ OwedBy(c, s) = SumFunctionOnSet(g, Storage)
    BY DEF OwedTo, OwedBy
  <2>. HIDE DEF f, g
  <2>. QED BY <1>1, <2>1, <2>2, SumNat
<1>3. ASSUME TypeOK'
      PROVE  OwedTo(c, s)' \in Nat /\ OwedBy(c, s)' \in Nat
  <2>. DEFINE f == [i \in Storage |-> Outstanding(c, i, s)']
              g == [j \in Storage |-> Outstanding(c, s, j)']
  <2>1. \A x \in Storage : f[x] \in Nat /\ g[x] \in Nat
    BY <1>3, OutstandingNat
  <2>2. OwedTo(c, s)' = SumFunctionOnSet(f, Storage)
        /\ OwedBy(c, s)' = SumFunctionOnSet(g, Storage)
    BY DEF OwedTo, OwedBy
  <2>. HIDE DEF f, g
  <2>. QED BY <1>1, <2>1, <2>2, SumNat
<1>. QED BY <1>2, <1>3

LEMMA MovesNat ==
  ASSUME NEW c \in Client, NEW s \in Storage
  PROVE  ToSend(c, s) \in Nat /\ ToFetch(c, s) \in Nat
<1>. DEFINE f == [i \in Storage |-> Request[c][i][s]]
            g == [j \in Storage |-> Request[c][s][j]]
<1>1. \A x \in Storage : f[x] \in Nat /\ g[x] \in Nat
  BY RelayAssumption DEF PerRoute
<1>2. ToSend(c, s) = SumFunctionOnSet(f, Storage) /\ ToFetch(c, s) = SumFunctionOnSet(g, Storage)
  BY DEF ToSend, ToFetch
<1>. HIDE DEF f, g
<1>. QED BY <1>1, <1>2, FiniteStorage, SumNat

LEMMA NextWaitingNat ==
  ASSUME TypeOK', NEW c \in Client, NEW s \in Storage
  PROVE  /\ Waiting(c, s)' \in Nat /\ Fetched(c, s)' \in Nat
         /\ sendCount'[c][s] \in Nat
<1>1. /\ cr'[c] \in [CRecvThread -> Thread(RecvPC)]
      /\ cs'[c] \in [CSendThread -> Thread(SendPC)]
  BY NextTypes
<1>2. buffered'[c][s] \in Nat /\ recvCount'[c][s] \in Nat /\ sendCount'[c][s] \in Nat
  BY NextTypes
<1>3. Sending(c, s)' = InHands(SendingOf(s), cs'[c])
  BY <1>1, SendingView
<1>4. Fetched(c, s)' = recvCount'[c][s] + InHands(CountingOf(s), cr'[c])
  BY <1>1, FetchedView
<1>5. InHands(SendingOf(s), cs'[c]) \in Nat /\ InHands(CountingOf(s), cr'[c]) \in Nat
  BY <1>1, ThreadNat
<1>6. Waiting(c, s)' = buffered'[c][s] + Sending(c, s)'
  BY DEF Waiting
<1>. QED BY <1>2, <1>3, <1>4, <1>5, <1>6

LEMMA BalanceNat ==
  ASSUME NEW c \in Client, NEW s \in Storage
  PROVE  /\ TypeOK => Accounted(c, s) \in Nat /\ Sourced(c, s) \in Nat
         /\ TypeOK' => Accounted(c, s)' \in Nat /\ Sourced(c, s)' \in Nat
<1>1. ASSUME TypeOK
      PROVE  Accounted(c, s) \in Nat /\ Sourced(c, s) \in Nat
  <2>1. OwedTo(c, s) \in Nat /\ OwedBy(c, s) \in Nat
    BY <1>1, OwedNat
  <2>2. Waiting(c, s) \in Nat /\ Fetched(c, s) \in Nat /\ sendCount[c][s] \in Nat
    BY <1>1, WaitingNat DEF Waiting
  <2>. QED BY <2>1, <2>2 DEF Accounted, Sourced
<1>2. ASSUME TypeOK'
      PROVE  Accounted(c, s)' \in Nat /\ Sourced(c, s)' \in Nat
  <2>1. OwedTo(c, s)' \in Nat /\ OwedBy(c, s)' \in Nat
    BY <1>2, OwedNat
  <2>2. Waiting(c, s)' \in Nat /\ Fetched(c, s)' \in Nat /\ sendCount'[c][s] \in Nat
    BY <1>2, NextWaitingNat
  <2>. QED BY <2>1, <2>2 DEF Accounted, Sourced
<1>. QED BY <1>1, <1>2

LEMMA OwedShrinks ==
  ASSUME TypeOK, TypeOK', NEW c \in Client, NEW s \in Storage, Shrinks(c)
  PROVE  /\ OwedTo(c, s)' <= OwedTo(c, s) /\ OwedBy(c, s)' <= OwedBy(c, s)
         /\ Intact(c)' => OwedTo(c, s)' = OwedTo(c, s)
<1>. DEFINE f == [i \in Storage |-> Outstanding(c, i, s)]
            g == [j \in Storage |-> Outstanding(c, s, j)]
            h == [i \in Storage |-> Outstanding(c, i, s)']
            k == [j \in Storage |-> Outstanding(c, s, j)']
<1>1. /\ OwedTo(c, s) = SumFunctionOnSet(f, Storage)
      /\ OwedBy(c, s) = SumFunctionOnSet(g, Storage)
      /\ OwedTo(c, s)' = SumFunctionOnSet(h, Storage)
      /\ OwedBy(c, s)' = SumFunctionOnSet(k, Storage)
  BY DEF OwedTo, OwedBy
<1>2. \A i, j \in Storage : /\ Outstanding(c, i, j) \in Nat
                            /\ Outstanding(c, i, j)' \in Nat
  BY OutstandingNat
<1>3. /\ \A x \in Storage : f[x] \in Int /\ h[x] \in Int /\ h[x] <= f[x]
      /\ \A x \in Storage : g[x] \in Int /\ k[x] \in Int /\ k[x] <= g[x]
  BY <1>2 DEF Shrinks
<1>4. Intact(c)' => \A x \in Storage : f[x] \in Int /\ h[x] = f[x]
  BY <1>2 DEF Shrinks
<1>5. IsFiniteSet(Storage)
  BY FiniteStorage
<1>. HIDE DEF f, g, h, k
<1>6. /\ SumFunctionOnSet(h, Storage) <= SumFunctionOnSet(f, Storage)
      /\ SumFunctionOnSet(k, Storage) <= SumFunctionOnSet(g, Storage)
  BY <1>3, <1>5, SumMonotone
<1>7. Intact(c)' => SumFunctionOnSet(h, Storage) = SumFunctionOnSet(f, Storage)
  BY <1>4, <1>5, SumSame
<1>. QED BY <1>1, <1>6, <1>7

LEMMA OwedFetched ==
  ASSUME TypeOK, TypeOK', NEW c \in Client, NEW i \in Storage, NEW j \in Storage,
         NEW n \in 1 .. MTU, Fetching(c, i, j, n), NEW s \in Storage
  PROVE  /\ OwedTo(c, s)' = OwedTo(c, s) - (IF s = j THEN n ELSE 0)
         /\ OwedBy(c, s)' = OwedBy(c, s) - (IF s = i THEN n ELSE 0)
<1>0. n \in Nat /\ IsFiniteSet(Storage)
  BY WireAssumption, FiniteStorage
<1>1. /\ Outstanding(c, i, j)' = Outstanding(c, i, j) - n
      /\ \A x, y \in Storage : x # i \/ y # j =>
           Outstanding(c, x, y)' = Outstanding(c, x, y)
  BY DEF Fetching
<1>2. \A x, y \in Storage : /\ Outstanding(c, x, y) \in Nat
                            /\ Outstanding(c, x, y)' \in Nat
  BY OutstandingNat
<1>3. OwedTo(c, s)' = OwedTo(c, s) - (IF s = j THEN n ELSE 0)
  <2>. DEFINE f == [x \in Storage |-> Outstanding(c, x, s)]
              h == [x \in Storage |-> Outstanding(c, x, s)']
              w == IF s = j THEN n ELSE 0
  <2>1. /\ OwedTo(c, s) = SumFunctionOnSet(f, Storage)
        /\ OwedTo(c, s)' = SumFunctionOnSet(h, Storage)
    BY DEF OwedTo
  <2>2. \A x \in Storage : f[x] \in Int /\ h[x] \in Int
    BY <1>2
  <2>3. \A x \in Storage \ {i} : h[x] = f[x]
    BY <1>1
  <2>4. h[i] = f[i] - w
    <3>1. CASE s = j
      BY <1>1, <3>1
    <3>2. CASE s # j
      <4>1. h[i] = f[i] /\ w = 0
        BY <1>1, <3>2
      <4>2. f[i] \in Int
        BY <2>2
      <4>. HIDE DEF f, h, w
      <4>. QED BY <4>1, <4>2
    <3>. QED BY <3>1, <3>2
  <2>5. w \in Int
    BY <1>0
  <2>. HIDE DEF f, h, w
  <2>6. SumFunctionOnSet(h, Storage) = SumFunctionOnSet(f, Storage) + (h[i] - f[i])
    BY <1>0, <2>2, <2>3, SumChanges
  <2>7. SumFunctionOnSet(f, Storage) \in Int
    BY <1>0, <2>2, SumType
  <2>8. SumFunctionOnSet(h, Storage) = SumFunctionOnSet(f, Storage) - w
    BY <2>2, <2>4, <2>5, <2>6, <2>7
  <2>. QED BY <2>1, <2>8 DEF w
<1>4. OwedBy(c, s)' = OwedBy(c, s) - (IF s = i THEN n ELSE 0)
  <2>. DEFINE f == [x \in Storage |-> Outstanding(c, s, x)]
              h == [x \in Storage |-> Outstanding(c, s, x)']
              w == IF s = i THEN n ELSE 0
  <2>1. /\ OwedBy(c, s) = SumFunctionOnSet(f, Storage)
        /\ OwedBy(c, s)' = SumFunctionOnSet(h, Storage)
    BY DEF OwedBy
  <2>2. \A x \in Storage : f[x] \in Int /\ h[x] \in Int
    BY <1>2
  <2>3. \A x \in Storage \ {j} : h[x] = f[x]
    BY <1>1
  <2>4. h[j] = f[j] - w
    <3>1. CASE s = i
      BY <1>1, <3>1
    <3>2. CASE s # i
      <4>1. h[j] = f[j] /\ w = 0
        BY <1>1, <3>2
      <4>2. f[j] \in Int
        BY <2>2
      <4>. HIDE DEF f, h, w
      <4>. QED BY <4>1, <4>2
    <3>. QED BY <3>1, <3>2
  <2>5. w \in Int
    BY <1>0
  <2>. HIDE DEF f, h, w
  <2>6. SumFunctionOnSet(h, Storage) = SumFunctionOnSet(f, Storage) + (h[j] - f[j])
    BY <1>0, <2>2, <2>3, SumChanges
  <2>7. SumFunctionOnSet(f, Storage) \in Int
    BY <1>0, <2>2, SumType
  <2>8. SumFunctionOnSet(h, Storage) = SumFunctionOnSet(f, Storage) - w
    BY <2>2, <2>4, <2>5, <2>6, <2>7
  <2>. QED BY <2>1, <2>8 DEF w
<1>. QED BY <1>3, <1>4

(* A step never adds to what a client accounts for, and while its          *)
(* connections hold it loses nothing.                                      *)
LEMMA BalanceMoves ==
  ASSUME TypeOK, TypeOK', NEW c \in Client, NEW s \in Storage, Moved(c)
  PROVE  /\ Accounted(c, s)' <= Accounted(c, s) /\ Sourced(c, s)' <= Sourced(c, s)
         /\ Intact(c)' => Intact(c) /\ Accounted(c, s)' = Accounted(c, s)
<1>. DEFINE o == OwedTo(c, s)  op == OwedTo(c, s)'
            b == OwedBy(c, s)  bp == OwedBy(c, s)'
            w == Waiting(c, s)  wp == Waiting(c, s)'
            z == sendCount[c][s]  zp == sendCount'[c][s]
            f == Fetched(c, s)  fp == Fetched(c, s)'
<1>1. /\ Accounted(c, s) = o + w + z /\ Accounted(c, s)' = op + wp + zp
      /\ Sourced(c, s) = b + f /\ Sourced(c, s)' = bp + fp
  BY DEF Accounted, Sourced
<1>2. /\ o \in Nat /\ b \in Nat /\ w \in Nat /\ z \in Nat /\ f \in Nat
      /\ op \in Nat /\ bp \in Nat
  BY OwedNat, WaitingNat DEF Waiting
<1>3. ASSUME Still(c), Shrinks(c)
      PROVE  /\ op + wp + zp <= o + w + z /\ bp + fp <= b + f
             /\ Intact(c)' => Intact(c) /\ op + wp + zp = o + w + z
  <2>1. wp = w /\ zp = z /\ fp = f
    BY <1>3 DEF Still
  <2>2. op <= o /\ bp <= b /\ (Intact(c)' => op = o)
    BY <1>3, OwedShrinks
  <2>3. Intact(c)' => Intact(c)
    BY <1>3 DEF Shrinks
  <2>. HIDE DEF o, op, b, bp, w, wp, z, zp, f, fp
  <2>4. op + wp + zp <= o + w + z /\ bp + fp <= b + f
    BY <1>2, <2>1, <2>2
  <2>5. op = o => op + wp + zp = o + w + z
    BY <1>2, <2>1
  <2>. QED BY <2>2, <2>3, <2>4, <2>5
<1>4. ASSUME NEW i \in Storage, NEW j \in Storage, NEW n \in 1 .. MTU, Fetching(c, i, j, n)
      PROVE  /\ op + wp + zp <= o + w + z /\ bp + fp <= b + f
             /\ Intact(c)' => Intact(c) /\ op + wp + zp = o + w + z
  <2>. DEFINE x == IF s = j THEN n ELSE 0
              y == IF s = i THEN n ELSE 0
  <2>1. op = o - x /\ bp = b - y
    BY <1>4, OwedFetched
  <2>2. wp = w + x
    <3>1. CASE s = j
      BY <1>4, <3>1 DEF Fetching
    <3>2. CASE s # j
      <4>1. wp = w /\ x = 0
        BY <1>4, <3>2 DEF Fetching
      <4>. HIDE DEF w, wp, x
      <4>. QED BY <1>2, <4>1
    <3>. QED BY <3>1, <3>2
  <2>3. fp = f + y
    <3>1. CASE s = i
      BY <1>4, <3>1 DEF Fetching
    <3>2. CASE s # i
      <4>1. fp = f /\ y = 0
        BY <1>4, <3>2 DEF Fetching
      <4>. HIDE DEF f, fp, y
      <4>. QED BY <1>2, <4>1
    <3>. QED BY <3>1, <3>2
  <2>4. zp = z /\ (Intact(c)' => Intact(c))
    BY <1>4 DEF Fetching
  <2>5. x \in Nat /\ y \in Nat
    BY WireAssumption
  <2>. HIDE DEF o, op, b, bp, w, wp, z, zp, f, fp, x, y
  <2>6. op + wp + zp = o + w + z /\ bp + fp = b + f
    BY <1>2, <2>1, <2>2, <2>3, <2>4, <2>5
  <2>. QED BY <1>2, <2>4, <2>6
<1>5. ASSUME NEW j \in Storage, NEW n \in 1 .. MTU, Forwarding(c, j, n) \/ Losing(c, j, n)
      PROVE  /\ op + wp + zp <= o + w + z /\ bp + fp <= b + f
             /\ Intact(c)' => Intact(c) /\ op + wp + zp = o + w + z
  <2>0. Taking(c, j, n) /\ Shrinks(c)
    BY <1>5 DEF Forwarding, Losing, Taking
  <2>. DEFINE x == IF s = j THEN n ELSE 0
  <2>1. wp = w - x
    <3>1. CASE s = j
      BY <2>0, <3>1 DEF Taking
    <3>2. CASE s # j
      <4>1. wp = w /\ x = 0
        BY <2>0, <3>2 DEF Taking
      <4>. HIDE DEF w, wp, x
      <4>. QED BY <1>2, <4>1
    <3>. QED BY <3>1, <3>2
  <2>2. \/ zp = z + x
        \/ zp = z /\ ~Intact(c)'
    <3>1. CASE Forwarding(c, j, n)
      <4>1. CASE s = j
        BY <3>1, <4>1 DEF Forwarding
      <4>2. CASE s # j
        <5>1. zp = z /\ x = 0
          BY <2>0, <4>2 DEF Taking
        <5>. HIDE DEF z, zp, x
        <5>. QED BY <1>2, <5>1
      <4>. QED BY <4>1, <4>2
    <3>2. CASE Losing(c, j, n)
      BY <2>0, <3>2 DEF Losing, Taking
    <3>. QED BY <1>5, <3>1, <3>2
  <2>3. fp = f
    BY <2>0 DEF Taking
  <2>4. op <= o /\ bp <= b /\ (Intact(c)' => op = o)
    BY <2>0, OwedShrinks
  <2>5. Intact(c)' => Intact(c)
    BY <2>0 DEF Shrinks
  <2>6. x \in Nat
    BY WireAssumption
  <2>. HIDE DEF o, op, b, bp, w, wp, z, zp, f, fp, x
  <2>7. op + wp + zp <= o + w + z /\ bp + fp <= b + f
    BY <1>2, <2>1, <2>2, <2>3, <2>4, <2>6
  <2>8. op = o /\ zp = z + x => op + wp + zp = o + w + z
    BY <1>2, <2>1, <2>6
  <2>. QED BY <2>2, <2>4, <2>5, <2>7, <2>8
<1>. QED BY <1>1, <1>3, <1>4, <1>5 DEF Moved

(* A session ends once, and no item moves in the step that ends it.        *)
LEMMA SessionSteps ==
  ASSUME TypeOK, TypeOK', Ended, NEW d \in Client, Flow(d), NEW c \in Client,
         outcome'[c] = "none"
  PROVE  outcome[c] = "none" /\ Moved(c)
<1>o. outcome \in [Client -> {"none", "complete", "error", "killed"}]
  BY DEF TypeOK, ClientTypeOK
<1>1. CASE c # d
  BY <1>1 DEF Flow, Apart, Moved
<1>2. CASE c = d
  <2>1. outcome' # [outcome EXCEPT ![c] = "killed"]
    BY <1>o
  <2>2. ~ClientFinish(c)
    <3>1. SUFFICES ASSUME ClientFinish(c) PROVE FALSE
      OBVIOUS
    <3>2. outcome' = [outcome EXCEPT ![c] = IF mon[c].err THEN "error" ELSE "complete"]
      BY <3>1 DEF ClientFinish
    <3>. QED BY <1>o, <3>2
  <2>. QED BY <1>2, <2>1, <2>2 DEF Flow, Killed, Moved
<1>. QED BY <1>1, <1>2

LEMMA BalancedNext ==
  ASSUME TypeOK, TypeOK', Hands, Hands', Chunks, Asking, Once, Ended, Balanced, [Next]_vars
  PROVE  Balanced'
<1>1. ASSUME NEW c \in Client, outcome'[c] = "none"
      PROVE  outcome[c] = "none" /\ Moved(c)
  <2>1. CASE \E d \in Client : Flow(d)
    BY <1>1, <2>1, SessionSteps
  <2>2. CASE (\A x \in Client : Still(x) /\ Shrinks(x)) /\ UNCHANGED <<outcome, serverUp>>
    BY <1>1, <2>2 DEF Moved
  <2>. QED BY <2>1, <2>2, StepFlow
<1>2. ASSUME NEW c \in Client, outcome'[c] = "none", NEW s \in Storage
      PROVE  /\ Accounted(c, s)' <= ToSend(c, s)
             /\ Intact(c)' => Accounted(c, s)' = ToSend(c, s)
             /\ Sourced(c, s)' <= ToFetch(c, s)
  <2>1. /\ Accounted(c, s) <= ToSend(c, s)
        /\ Intact(c) => Accounted(c, s) = ToSend(c, s)
        /\ Sourced(c, s) <= ToFetch(c, s)
    BY <1>1, <1>2 DEF Balanced
  <2>2. /\ Accounted(c, s)' <= Accounted(c, s) /\ Sourced(c, s)' <= Sourced(c, s)
        /\ Intact(c)' => Intact(c) /\ Accounted(c, s)' = Accounted(c, s)
    BY <1>1, <1>2, BalanceMoves
  <2>3. /\ Accounted(c, s) \in Int /\ Accounted(c, s)' \in Int
        /\ Sourced(c, s) \in Int /\ Sourced(c, s)' \in Int
    BY BalanceNat
  <2>4. ToSend(c, s) \in Int /\ ToFetch(c, s) \in Int
    BY MovesNat
  <2>. QED BY <2>1, <2>2, <2>3, <2>4
<1>3. /\ \A c, s : ToSend(c, s)' = ToSend(c, s)
      /\ \A c, s : ToFetch(c, s)' = ToFetch(c, s)
  BY DEF ToSend, ToFetch
<1>. QED BY <1>2, <1>3 DEF Balanced

-----------------------------------------------------------------------------
(* Chunks.                                                                 *)

LEMMA ChunkSize == \A n \in Nat : n > 0 => Chunk(n) \in 1 .. MTU
BY WireAssumption DEF Chunk

LEMMA ClientRecvChunks ==
  ASSUME TypeOK, TypeOK', Hands, Hands', Chunks, NEW c \in Client, NEW t \in CRecvThread,
         ClientRecv(c, t) \/ ClientRecvClose(c, t), UNCHANGED storageVars
  PROVE  Chunks'
<1>. DEFINE th == cr[c][t]
<1>0. UNCHANGED <<cs, ss>>
  BY DEF storageVars, wireVars, ClientRecv, ClientRecvBegin, ClientRecvHead,
     ClientRecvItems, ClientRecvCount, ClientRecvFail, ClientRecvClose, ClientRecvExit
<1>1. /\ cr \in [Client -> [CRecvThread -> RecvChunks]]
      /\ down \in [Client -> [Storage -> Seq(DownChunks)]]
  BY DEF Chunks
<1>2. th \in RecvChunks /\ th \in Thread(RecvPC) /\ th.i \in Storage /\ th.h \in Unit
  BY <1>1 DEF RecvChunks, Thread
<1>3. \A v \in RecvChunks :
         [cr EXCEPT ![c][t] = v] \in [Client -> [CRecvThread -> RecvChunks]]
  BY <1>1, Update
<1>4. Idle \in RecvChunks /\ Exited \in RecvChunks
  <2>1. Idle \in Thread(RecvPC) /\ Exited \in Thread(RecvPC)
    BY ThreadTypes DEF RecvPC
  <2>. QED BY <2>1 DEF RecvChunks, Idle, Exited, At
<1>5. ClientPop(c, th.i) =>
         /\ Head(down[c][th.i]) \in DownChunks
         /\ down' \in [Client -> [Storage -> Seq(DownChunks)]]
  <2>1. SUFFICES ASSUME ClientPop(c, th.i)
                 PROVE  /\ Head(down[c][th.i]) \in DownChunks
                        /\ down' \in [Client -> [Storage -> Seq(DownChunks)]]
    OBVIOUS
  <2>2. PICK i \in Storage : th.i = i
    BY <1>2
  <2>3. /\ down' = [down EXCEPT ![c][i] = Tail(down[c][i])]
        /\ down[c][i] # <<>> /\ down[c][i] \in Seq(DownChunks)
    BY <1>1, <2>1, <2>2 DEF ClientPop
  <2>4. Head(down[c][i]) \in DownChunks /\ Tail(down[c][i]) \in Seq(DownChunks)
    BY <2>3
  <2>. QED BY <1>1, <2>2, <2>3, <2>4, Update
<1>6. CASE ClientRecvBegin(c, t)
  <2>1. PICK k \in Storage : cr' = [cr EXCEPT ![c][t] = At("head", k, ItemsUnit(0))]
    BY <1>6 DEF ClientRecvBegin
  <2>2. At("head", k, ItemsUnit(0)) \in RecvChunks
    <3>1. At("head", k, ItemsUnit(0)) \in Thread(RecvPC)
      BY UnitTypes, ThreadTypes DEF RecvPC
    <3>. QED BY <3>1 DEF At, RecvChunks
  <2>3. UNCHANGED down
    BY <1>6 DEF ClientRecvBegin, wireVars
  <2>. QED BY <1>0, <1>3, <2>1, <2>2, <2>3 DEF Chunks
<1>7. CASE ClientRecvHead(c, t)
  <2>. DEFINE unit == Head(down[c][th.i])
              v == IF unit.kind = "head" THEN At("items", th.i, unit)
                   ELSE At("garbled", th.i, unit)
  <2>1. ClientPop(c, th.i) /\ cr' = [cr EXCEPT ![c][t] = v]
    BY <1>7 DEF ClientRecvHead
  <2>2. unit \in DownChunks /\ unit \in Unit
    BY <1>5, <2>1 DEF DownChunks
  <2>3. v = cr'[c][t]
    BY <1>1, <2>1
  <2>4. v \in RecvChunks
    <3>1. CASE unit.kind = "head"
      <4>1. v \in Thread(RecvPC) /\ v.pc = "items" /\ v.h = unit
        BY <1>2, <2>2, <3>1, ThreadTypes DEF At, RecvPC
      <4>2. v.h \in DownHeads
        BY <2>3, <4>1 DEF Hands, RecvHands
      <4>. HIDE DEF v
      <4>. QED BY <2>2, <3>1, <4>1, <4>2 DEF RecvChunks, DownChunks, DownHeads
    <3>2. CASE unit.kind # "head"
      <4>1. v \in Thread(RecvPC) /\ v.pc = "garbled"
        BY <1>2, <2>2, <3>2, ThreadTypes DEF At, RecvPC
      <4>. HIDE DEF v
      <4>. QED BY <4>1 DEF RecvChunks
    <3>. QED BY <3>1, <3>2
  <2>. HIDE DEF v
  <2>. QED BY <1>0, <1>3, <1>5, <2>1, <2>4 DEF Chunks
<1>8. CASE ClientRecvItems(c, t)
  <2>1. ClientPop(c, th.i) /\ th.pc = "items"
    BY <1>8 DEF ClientRecvItems
  <2>2. \E v \in RecvChunks : cr' = [cr EXCEPT ![c][t] = v]
    <3>1. CASE cr' = [cr EXCEPT ![c][t] = At("count", th.i, th.h)]
      <4>1. At("count", th.i, th.h) \in Thread(RecvPC)
        BY <1>2, ThreadTypes DEF RecvPC
      <4>2. At("count", th.i, th.h).h = th.h
        BY DEF At
      <4>. QED BY <1>2, <2>1, <3>1, <4>1, <4>2 DEF RecvChunks
    <3>2. CASE cr' = [cr EXCEPT ![c][t] = At("garbled", th.i, Head(down[c][th.i]))]
      <4>1. Head(down[c][th.i]) \in Unit
        BY <1>5, <2>1 DEF DownChunks
      <4>2. At("garbled", th.i, Head(down[c][th.i])) \in Thread(RecvPC)
        BY <1>2, <4>1, ThreadTypes DEF RecvPC
      <4>3. At("garbled", th.i, Head(down[c][th.i])).pc = "garbled"
        BY DEF At
      <4>. QED BY <3>2, <4>2, <4>3 DEF RecvChunks
    <3>. QED BY <1>8, <3>1, <3>2 DEF ClientRecvItems
  <2>. QED BY <1>0, <1>3, <1>5, <2>1, <2>2 DEF Chunks
<1>9. CASE ClientRecvCount(c, t) \/ ClientRecvClose(c, t) \/ ClientRecvExit(c, t)
  <2>1. /\ cr' \in {[cr EXCEPT ![c][t] = Idle], [cr EXCEPT ![c][t] = Exited]}
        /\ UNCHANGED down
    BY <1>9 DEF ClientRecvCount, ClientRecvClose, ClientRecvExit, wireVars
  <2>. QED BY <1>0, <1>1, <1>3, <1>4, <2>1 DEF Chunks
<1>. QED BY <1>6, <1>7, <1>8, <1>9 DEF ClientRecv, ClientRecvFail

LEMMA ClientSendChunks ==
  ASSUME TypeOK, Chunks, NEW c \in Client, NEW t \in CSendThread,
         Sends(c, t), UNCHANGED storageVars
  PROVE  Chunks'
<1>. DEFINE th == cs[c][t]
<1>0. UNCHANGED <<cr, ss, down>>
  BY DEF storageVars, wireVars, Sends, ClientSendBegin, ClientSendRequest,
     ClientSendHead, ClientSendItems, ClientSendClose, ClientSendExit
<1>1. cs \in [Client -> [CSendThread -> SendChunks]]
  BY DEF Chunks
<1>2. th \in SendChunks /\ th \in Thread(SendPC) /\ th.i \in Storage /\ th.h \in Unit
  BY <1>1 DEF SendChunks, Thread
<1>3. \A v \in SendChunks :
         [cs EXCEPT ![c][t] = v] \in [Client -> [CSendThread -> SendChunks]]
  BY <1>1, Update
<1>4. Idle \in SendChunks /\ Exited \in SendChunks
  <2>1. Idle \in Thread(SendPC) /\ Exited \in Thread(SendPC)
    BY ThreadTypes DEF SendPC
  <2>. QED BY <2>1 DEF SendChunks, Idle, Exited, At
<1>5. \E v \in SendChunks : cs' = [cs EXCEPT ![c][t] = v]
  <2>1. CASE ClientSendBegin(c, t)
    <3>1. PICK i \in Storage :
             \/ \E j \in Storage : cs' = [cs EXCEPT ![c][t] =
                     At("request", i, HeadUnit(Read, j, heads[c][i][j]))]
             \/ /\ buffered[c][i] > 0
                /\ cs' = [cs EXCEPT ![c][t] =
                     At("head", i, HeadUnit(Write, NoIndex, Chunk(buffered[c][i])))]
      BY <2>1 DEF ClientSendBegin
    <3>2. ASSUME NEW j \in Storage, NEW v,
                 v = At("request", i, HeadUnit(Read, j, heads[c][i][j]))
          PROVE  v \in SendChunks
      <4>1. heads[c][i][j] \in Nat
        BY StateTypes
      <4>2. v \in Thread(SendPC) /\ v.pc = "request"
        BY <3>2, <4>1, UnitTypes, ThreadTypes DEF At, SendPC
      <4>. QED BY <4>2 DEF SendChunks
    <3>3. ASSUME NEW n, NEW v, n = Chunk(buffered[c][i]), buffered[c][i] > 0,
                 v = At("head", i, HeadUnit(Write, NoIndex, n))
          PROVE  v \in SendChunks
      <4>1. buffered[c][i] \in Nat
        BY StateTypes
      <4>2. n \in 1 .. MTU /\ n \in Nat
        BY <3>3, <4>1, ChunkSize, WireAssumption
      <4>3. HeadUnit(Write, NoIndex, n) \in Unit /\ HeadUnit(Write, NoIndex, n).count = n
        BY <4>2, UnitTypes DEF HeadUnit
      <4>4. v \in Thread(SendPC) /\ v.h = HeadUnit(Write, NoIndex, n)
        BY <3>3, <4>3, ThreadTypes DEF At, SendPC
      <4>. QED BY <4>2, <4>3, <4>4 DEF SendChunks
    <3>. QED BY <3>1, <3>2, <3>3
  <2>2. CASE ClientSendHead(c, t)
    <3>1. th.pc = "head" /\ cs' = [cs EXCEPT ![c][t] = At("items", th.i, th.h)]
      BY <2>2 DEF ClientSendHead
    <3>2. At("items", th.i, th.h) \in Thread(SendPC) /\ At("items", th.i, th.h).h = th.h
      BY <1>2, ThreadTypes DEF At, SendPC
    <3>. QED BY <1>2, <3>1, <3>2 DEF SendChunks
  <2>3. CASE ~ClientSendBegin(c, t) /\ ~ClientSendHead(c, t)
    <3>1. cs' = [cs EXCEPT ![c][t] = Idle] \/ cs' = [cs EXCEPT ![c][t] = Exited]
      BY <2>3 DEF Sends, ClientSendRequest, ClientSendItems, ClientSendClose, ClientSendExit
    <3>. QED BY <1>4, <3>1
  <2>. QED BY <2>1, <2>2, <2>3
<1>. QED BY <1>0, <1>3, <1>5 DEF Chunks

LEMMA ClientDiesChunks ==
  ASSUME TypeOK, Chunks, NEW c \in Client, ClientDies(c), UNCHANGED storageVars
  PROVE  Chunks'
<1>1. UNCHANGED <<ss, down>>
  BY DEF ClientDies, storageVars
<1>2. /\ [t \in CRecvThread |-> Exited] \in [CRecvThread -> RecvChunks]
      /\ [t \in CSendThread |-> Exited] \in [CSendThread -> SendChunks]
  <2>1. Exited \in Thread(RecvPC) /\ Exited \in Thread(SendPC)
    BY ThreadTypes DEF RecvPC, SendPC
  <2>. QED BY <2>1 DEF RecvChunks, SendChunks, Exited, At
<1>3. /\ cr' \in [Client -> [CRecvThread -> RecvChunks]]
      /\ cs' \in [Client -> [CSendThread -> SendChunks]]
  BY <1>2 DEF ClientDies, Chunks
<1>. QED BY <1>1, <1>3 DEF Chunks

LEMMA TakeChunkChunks ==
  ASSUME TypeOK, Chunks, NEW c \in Client, NEW s \in Storage, NEW t \in SSendThread,
         NEW k \in Storage, TakeChunk(s, t, c, k), replies[c][s][k] > 0
  PROVE  ss' \in [Storage -> [SSendThread -> ReplyChunks]]
<1>. DEFINE n == Chunk(replies[c][s][k])
            v == SAt("head", c, HeadUnit(Write, k, n))
<1>1. ss' = [ss EXCEPT ![s][t] = v]
  BY DEF TakeChunk
<1>2. n \in 1 .. MTU /\ n \in Nat
  <2>1. replies[c][s][k] \in Nat
    BY StateTypes
  <2>. QED BY <2>1, ChunkSize, WireAssumption
<1>. HIDE DEF n
<1>3. HeadUnit(Write, k, n) \in Unit /\ HeadUnit(Write, k, n).count = n
      /\ HeadUnit(Write, k, n).index = k
  BY <1>2, UnitTypes DEF HeadUnit
<1>4. v \in SSendState /\ v.h = HeadUnit(Write, k, n)
  BY <1>3, SendStates DEF SAt
<1>. HIDE DEF v
<1>5. v \in ReplyChunks
  BY <1>2, <1>3, <1>4 DEF ReplyChunks
<1>6. ss \in [Storage -> [SSendThread -> ReplyChunks]]
  BY DEF Chunks
<1>. QED BY <1>1, <1>5, <1>6, Update

LEMMA StorageSendChunks ==
  ASSUME TypeOK, Chunks, NEW s \in Storage, NEW t \in SSendThread,
         StorageSend(s, t) \/ StorageSendClose(s, t), UNCHANGED clientVars
  PROVE  Chunks'
<1>. DEFINE th == ss[s][t]
<1>0. UNCHANGED <<cr, cs>>
  BY DEF clientVars
<1>1. /\ ss \in [Storage -> [SSendThread -> ReplyChunks]]
      /\ down \in [Client -> [Storage -> Seq(DownChunks)]]
  BY DEF Chunks
<1>2. /\ th \in ReplyChunks /\ th \in SSendState /\ th.c \in Client /\ th.h \in Unit
      /\ th.pc \in {"head", "items"} => th.h.index \in Storage
  BY <1>1 DEF ReplyChunks, SSendState, SThread
<1>3. \A v \in ReplyChunks :
         [ss EXCEPT ![s][t] = v] \in [Storage -> [SSendThread -> ReplyChunks]]
  BY <1>1, Update
<1>4. SIdle \in ReplyChunks /\ SDead \in ReplyChunks
  BY SendStates DEF ReplyChunks, SIdle, SDead, SAt
<1>5. ASSUME NEW u \in DownChunks, StoragePush(th.c, s, u)
      PROVE  down' \in [Client -> [Storage -> Seq(DownChunks)]]
  <2>1. PICK c \in Client : th.c = c
    BY <1>2
  <2>2. /\ down' = [down EXCEPT ![c][s] = Append(down[c][s], u)]
        /\ down[c][s] \in Seq(DownChunks)
    BY <1>1, <1>5, <2>1 DEF StoragePush
  <2>3. Append(down[c][s], u) \in Seq(DownChunks)
    BY <2>2
  <2>. QED BY <1>1, <2>2, <2>3, Update
<1>6. CASE StorageSendBegin(s, t)
  <2>1. PICK c \in Client, k \in Storage :
           IsFirstHead(replies, c, s, k) /\ TakeChunk(s, t, c, k)
    BY <1>6 DEF StorageSendBegin
  <2>2. replies[c][s][k] > 0 /\ UNCHANGED down
    BY <1>6, <2>1 DEF StorageSendBegin, IsFirstHead, wireVars
  <2>. QED BY <1>0, <1>1, <2>1, <2>2, TakeChunkChunks DEF Chunks
<1>7. CASE StorageSendHead(s, t)
  <2>1. /\ StoragePush(th.c, s, th.h) /\ th.pc = "head"
        /\ ss' = [ss EXCEPT ![s][t] = SAt("items", th.c, th.h)]
    BY <1>7 DEF StorageSendHead
  <2>2. th.h \in DownChunks
    BY <1>2, <2>1 DEF ReplyChunks, DownChunks
  <2>3. SAt("items", th.c, th.h) \in ReplyChunks
    <3>1. SAt("items", th.c, th.h) \in SSendState /\ SAt("items", th.c, th.h).h = th.h
      BY <1>2, <2>1, SendStates DEF SAt
    <3>. QED BY <1>2, <2>1, <3>1 DEF ReplyChunks
  <2>. QED BY <1>0, <1>3, <1>5, <2>1, <2>2, <2>3 DEF Chunks
<1>8. CASE StorageSendItems(s, t)
  <2>1. StoragePush(th.c, s, ItemsUnit(th.h.count)) /\ th.pc = "items"
    BY <1>8 DEF StorageSendItems
  <2>2. ItemsUnit(th.h.count) \in DownChunks
    <3>1. th.h.count \in Nat
      BY <1>2 DEF Unit
    <3>2. ItemsUnit(th.h.count) \in Unit /\ ItemsUnit(th.h.count).kind = "items"
      BY <3>1, UnitTypes DEF ItemsUnit
    <3>. QED BY <3>2 DEF DownChunks
  <2>3. ss' \in [Storage -> [SSendThread -> ReplyChunks]]
    <3>1. CASE ss' = [ss EXCEPT ![s][t] = SIdle]
      BY <1>3, <1>4, <3>1
    <3>2. CASE ss' # [ss EXCEPT ![s][t] = SIdle]
      <4>1. replies[th.c][s][th.h.index] > 0 /\ TakeChunk(s, t, th.c, th.h.index)
        BY <1>8, <3>2 DEF StorageSendItems
      <4>2. PICK c \in Client, k \in Storage : th.c = c /\ th.h.index = k
        BY <1>2, <2>1
      <4>. QED BY <4>1, <4>2, TakeChunkChunks
    <3>. QED BY <3>1, <3>2
  <2>. QED BY <1>0, <1>5, <2>1, <2>2, <2>3 DEF Chunks
<1>9. CASE StorageSendClose(s, t)
  <2>1. ss' = [ss EXCEPT ![s][t] = SIdle] /\ UNCHANGED down
    BY <1>9 DEF StorageSendClose
  <2>. QED BY <1>0, <1>1, <1>3, <1>4, <2>1 DEF Chunks
<1>10. CASE StorageSendKilled(s, t)
  <2>1. /\ ss' = [ss EXCEPT ![s] = [u \in SSendThread |-> SDead]] /\ UNCHANGED down
        /\ [u \in SSendThread |-> SDead] \in [SSendThread -> ReplyChunks]
    BY <1>4, <1>10 DEF StorageSendKilled
  <2>2. ss' \in [Storage -> [SSendThread -> ReplyChunks]]
    BY <1>1, <2>1
  <2>. QED BY <1>0, <1>1, <2>1, <2>2 DEF Chunks
<1>. QED BY <1>6, <1>7, <1>8, <1>9, <1>10 DEF StorageSend, StorageSendFail

LEMMA ChunksNext ==
  ASSUME TypeOK, TypeOK', Hands, Hands', Chunks, [Next]_vars
  PROVE  Chunks'
<1>1. ASSUME UNCHANGED <<cr, cs, ss, down>>
      PROVE  Chunks'
  BY <1>1 DEF Chunks
<1>2. ASSUME NEW c \in Client, UNCHANGED storageVars,
             ClientStep(c) \/ ClientTimeout(c) \/ MonitorServerLost(c)
      PROVE  Chunks'
  <2>1. ASSUME NEW t \in CRecvThread, ClientRecv(c, t) \/ ClientRecvClose(c, t)
        PROVE  Chunks'
    BY <1>2, <2>1, ClientRecvChunks
  <2>2. ASSUME NEW t \in CSendThread, ClientSend(c, t) \/ ClientSendClose(c, t)
        PROVE  Chunks'
    <3>1. CASE Sends(c, t)
      BY <1>2, <3>1, ClientSendChunks
    <3>2. CASE ClientDies(c)
      BY <1>2, <3>2, ClientDiesChunks
    <3>. QED BY <2>2, <3>1, <3>2 DEF ClientSend, ClientSendFail, ClientSendKilled, Sends
  <2>3. CASE ClientDies(c)
    BY <1>2, <2>3, ClientDiesChunks
  <2>4. CASE ClientMain(c) \/ (MonitorServerLost(c) /\ ~ClientDies(c))
    <3>1. UNCHANGED <<cr, cs, down>>
      BY <2>4 DEF ClientMain, MonitorScan, MonitorReport, ClientFinish,
         MonitorServerLost, wireVars
    <3>. QED BY <1>1, <1>2, <3>1 DEF storageVars
  <2>. QED BY <1>2, <2>1, <2>2, <2>3, <2>4 DEF ClientStep, ClientTimeout
<1>3. ASSUME NEW s \in Storage, UNCHANGED clientVars, StorageStep(s) \/ StorageTimeout(s)
      PROVE  Chunks'
  <2>1. ASSUME NEW t \in SSendThread, StorageSend(s, t) \/ StorageSendClose(s, t)
        PROVE  Chunks'
    BY <1>3, <2>1, StorageSendChunks
  <2>2. ASSUME NEW t \in SRecvThread, StorageRecv(s, t) \/ StorageRecvClose(s, t)
        PROVE  Chunks'
    <3>1. UNCHANGED <<ss, down>>
      BY <2>2 DEF StorageRecv, StorageRecvBegin, StorageRecvRequest, StorageRecvHead,
         StorageRecvItems, StorageRecvFail, StorageRecvClose, wireVars
    <3>. QED BY <1>1, <1>3, <3>1 DEF clientVars
  <2>. QED BY <1>3, <2>1, <2>2 DEF StorageStep, StorageTimeout
<1>4. ASSUME NEW c \in Client, NEW s \in Storage, ConnReset(c, s),
             UNCHANGED <<clientVars, storageVars>>
      PROVE  Chunks'
  <2>1. PICK n \in 0 .. Len(down[c][s]) :
           down' = [down EXCEPT ![c][s] = SubSeq(down[c][s], 1, n)]
    BY <1>4 DEF ConnReset
  <2>2. /\ down \in [Client -> [Storage -> Seq(DownChunks)]]
        /\ down[c][s] \in Seq(DownChunks)
    BY DEF Chunks
  <2>3. SubSeq(down[c][s], 1, n) \in Seq(DownChunks)
    BY <2>2
  <2>4. down' \in [Client -> [Storage -> Seq(DownChunks)]]
    BY <2>1, <2>2, <2>3, Update
  <2>. QED BY <1>4, <2>4 DEF Chunks, clientVars, storageVars
<1>5. CASE UNCHANGED vars
  BY <1>1, <1>5 DEF vars, clientVars, storageVars, wireVars
<1>6. AtRest => UNCHANGED vars
  BY DEF AtRest
<1>. QED BY <1>2, <1>3, <1>4, <1>5, <1>6 DEF Next

-----------------------------------------------------------------------------
(* What the send threads are about to ask for.                             *)

(* Thread th asks for what head h of its storage says.                     *)
AsksFor(th, h) ==
  th.pc = "request" =>
    /\ th.h.index \in Storage /\ th.h.kind = "head" /\ th.h.type = Read
    /\ th.h.count = h[th.i][th.h.index] /\ th.h.count > 0

LEMMA AskingThreads ==
  /\ Asking <=> \A c \in Client, t \in CSendThread : AsksFor(cs[c][t], heads[c])
  /\ Asking' <=> \A c \in Client, t \in CSendThread : AsksFor(cs'[c][t], heads'[c])
BY DEF Asking, AsksFor

LEMMA ClientSendAsking ==
  ASSUME TypeOK, Exclusive, Asking, NEW c \in Client, NEW t \in CSendThread, Sends(c, t)
  PROVE  Asking'
<1>. DEFINE th == cs[c][t]
<1>t. /\ cs \in [Client -> [CSendThread -> Thread(SendPC)]]
      /\ heads \in [Client -> [Storage -> [Storage -> Nat]]]
      /\ th.i \in Storage
  BY StateTypes DEF Thread
<1>a. \A x \in Client, u \in CSendThread : AsksFor(cs[x][u], heads[x])
  BY AskingThreads
<1>1. ASSUME NEW v, cs' = [cs EXCEPT ![c][t] = v], heads' = heads, AsksFor(v, heads[c])
      PROVE  Asking'
  <2>1. ASSUME NEW x \in Client, NEW u \in CSendThread
        PROVE  AsksFor(cs'[x][u], heads'[x])
    <3>1. cs'[x][u] = IF x = c /\ u = t THEN v ELSE cs[x][u]
      BY <1>t, <1>1, Point
    <3>. QED BY <1>a, <1>1, <3>1
  <2>. QED BY <2>1, AskingThreads
<1>2. CASE ClientSendBegin(c, t)
  <2>1. PICK i \in Storage :
           \/ \E j \in Storage :
                /\ heads[c][i][j] > 0
                /\ cs' = [cs EXCEPT ![c][t] =
                     At("request", i, HeadUnit(Read, j, heads[c][i][j]))]
           \/ cs' = [cs EXCEPT ![c][t] =
                     At("head", i, HeadUnit(Write, NoIndex, Chunk(buffered[c][i])))]
    BY <1>2 DEF ClientSendBegin, IsFirstHead
  <2>2. heads' = heads
    BY <1>2 DEF ClientSendBegin
  <2>3. ASSUME NEW j \in Storage, heads[c][i][j] > 0
        PROVE  AsksFor(At("request", i, HeadUnit(Read, j, heads[c][i][j])), heads[c])
    BY <2>3 DEF AsksFor, At, HeadUnit
  <2>4. AsksFor(At("head", i, HeadUnit(Write, NoIndex, Chunk(buffered[c][i]))), heads[c])
    BY DEF AsksFor, At
  <2>. QED BY <1>1, <2>1, <2>2, <2>3, <2>4
<1>3. CASE ClientSendRequest(c, t)
  <2>1. PICK i \in Storage : th.i = i
    BY <1>t
  <2>2. /\ th.pc = "request"
        /\ heads' = [heads EXCEPT ![c][i][th.h.index] = 0]
        /\ cs' = [cs EXCEPT ![c][t] = Idle]
    BY <1>3, <2>1 DEF ClientSendRequest
  <2>3. th.h.index \in Storage
    BY <1>a, <2>2 DEF AsksFor
  <2>4. \A x \in Client, y \in Storage : x # c \/ y # i => heads'[x][y] = heads[x][y]
    BY <1>t, <2>2, <2>3
  <2>5. ASSUME NEW x \in Client, NEW u \in CSendThread
        PROVE  AsksFor(cs'[x][u], heads'[x])
    <3>1. cs'[x][u] = IF x = c /\ u = t THEN Idle ELSE cs[x][u]
      BY <1>t, <2>2, Point
    <3>2. CASE x = c /\ u = t
      BY <3>1, <3>2 DEF AsksFor, Idle, At
    <3>3. CASE (x # c \/ u # t) /\ cs[x][u].pc = "request"
      <4>1. cs[x][u].i \in Storage
        BY <1>t DEF Thread
      <4>2. x # c \/ cs[x][u].i # i
        BY <2>1, <2>2, <3>3 DEF Exclusive, ClientSendExclusive, Writing
      <4>3. heads'[x][cs[x][u].i] = heads[x][cs[x][u].i]
        BY <2>4, <4>1, <4>2
      <4>. QED BY <1>a, <3>1, <3>3, <4>3 DEF AsksFor
    <3>4. CASE (x # c \/ u # t) /\ cs[x][u].pc # "request"
      BY <3>1, <3>4 DEF AsksFor
    <3>. QED BY <3>2, <3>3, <3>4
  <2>. QED BY <2>5, AskingThreads
<1>4. CASE ClientSendHead(c, t)
  <2>1. cs' = [cs EXCEPT ![c][t] = At("items", th.i, th.h)] /\ heads' = heads
    BY <1>4 DEF ClientSendHead
  <2>2. AsksFor(At("items", th.i, th.h), heads[c])
    BY DEF AsksFor, At
  <2>. QED BY <1>1, <2>1, <2>2
<1>5. CASE ClientSendItems(c, t) \/ ClientSendClose(c, t) \/ ClientSendExit(c, t)
  <2>1. /\ cs' = [cs EXCEPT ![c][t] = Idle] \/ cs' = [cs EXCEPT ![c][t] = Exited]
        /\ heads' = heads
    BY <1>5 DEF ClientSendItems, ClientSendClose, ClientSendExit
  <2>2. AsksFor(Idle, heads[c]) /\ AsksFor(Exited, heads[c])
    BY DEF AsksFor, Idle, Exited, At
  <2>. QED BY <1>1, <2>1, <2>2
<1>. QED BY <1>2, <1>3, <1>4, <1>5 DEF Sends

LEMMA AskingNext ==
  ASSUME TypeOK, Exclusive, Asking, [Next]_vars
  PROVE  Asking'
<1>t. /\ cs \in [Client -> [CSendThread -> Thread(SendPC)]]
      /\ heads \in [Client -> [Storage -> [Storage -> Nat]]]
  BY StateTypes
<1>1. ASSUME UNCHANGED <<cs, heads>>
      PROVE  Asking'
  BY <1>1, AskingThreads
(* A client whose send threads have ended asks for nothing.                *)
<1>2. ASSUME NEW c \in Client, \A t \in CSendThread : cs'[c][t].pc = "exit",
             \A x \in Client \ {c} : cs'[x] = cs[x] /\ heads'[x] = heads[x]
      PROVE  Asking'
  <2>1. ASSUME NEW x \in Client, NEW t \in CSendThread
        PROVE  AsksFor(cs'[x][t], heads'[x])
    <3>1. CASE x = c
      BY <1>2, <3>1 DEF AsksFor
    <3>2. CASE x # c
      BY <1>2, <3>2, AskingThreads
    <3>. QED BY <3>1, <3>2
  <2>. QED BY <2>1, AskingThreads
<1>3. ASSUME NEW c \in Client, ClientDies(c)
      PROVE  Asking'
  <2>1. cs' = [cs EXCEPT ![c] = [t \in CSendThread |-> Exited]] /\ heads' = heads
    BY <1>3 DEF ClientDies
  <2>2. \A t \in CSendThread : cs'[c][t].pc = "exit"
    BY <1>t, <2>1 DEF Exited, At
  <2>. QED BY <1>2, <1>t, <2>1, <2>2
<1>4. ASSUME NEW c \in Client,
             ClientStep(c) \/ ClientTimeout(c) \/ MonitorServerLost(c)
      PROVE  Asking'
  <2>1. ASSUME NEW t \in CRecvThread, ClientRecv(c, t) \/ ClientRecvClose(c, t)
        PROVE  Asking'
    <3>1. UNCHANGED <<cs, heads>>
      BY <2>1 DEF ClientRecv, ClientRecvBegin, ClientRecvHead, ClientRecvItems,
         ClientRecvCount, ClientRecvFail, ClientRecvClose, ClientRecvExit
    <3>. QED BY <1>1, <3>1
  <2>2. ASSUME NEW t \in CSendThread, ClientSend(c, t) \/ ClientSendClose(c, t)
        PROVE  Asking'
    <3>1. Sends(c, t) \/ ClientDies(c)
      BY <2>2 DEF ClientSend, ClientSendFail, ClientSendKilled, Sends
    <3>. QED BY <1>3, <3>1, ClientSendAsking
  <2>3. CASE ClientFinish(c)
    <3>1. /\ UNCHANGED cs /\ \A t \in CSendThread : cs[c][t].pc = "exit"
          /\ heads' = [heads EXCEPT ![c] = OnStorage(OnStorage(0))]
      BY <2>3 DEF ClientFinish
    <3>2. \A x \in Client \ {c} : heads'[x] = heads[x]
      BY <1>t, <3>1
    <3>. QED BY <1>2, <3>1, <3>2
  <2>4. CASE MonitorScan(c) \/ MonitorReport(c) \/ (MonitorServerLost(c) /\ ~ClientDies(c))
    <3>1. UNCHANGED <<cs, heads>>
      BY <2>4 DEF MonitorScan, MonitorReport, MonitorServerLost
    <3>. QED BY <1>1, <3>1
  <2>. QED BY <1>3, <1>4, <2>1, <2>2, <2>3, <2>4 DEF ClientStep, ClientTimeout, ClientMain
<1>5. UNCHANGED clientVars => Asking'
  BY <1>1 DEF clientVars
<1>. QED BY <1>4, <1>5 DEF Next, AtRest, vars

-----------------------------------------------------------------------------
(* A route is asked for once.                                              *)

(* Stream q, head h of the client and head r of the storage agree on it.   *)
AskedOnce(q, h, r, j) ==
  /\ h > 0 => r = 0 /\ \A k \in DOMAIN q : ~Requests(q[k], j)
  /\ \A k \in DOMAIN q : Requests(q[k], j) =>
       r = 0 /\ \A m \in DOMAIN q \ {k} : ~Requests(q[m], j)

LEMMA OnceRoutes ==
  /\ Once <=> \A c \in Client, i \in Storage, j \in Storage :
                AskedOnce(up[c][i], heads[c][i][j], replies[c][i][j], j)
  /\ Once' <=> \A c \in Client, i \in Storage, j \in Storage :
                AskedOnce(up'[c][i], heads'[c][i][j], replies'[c][i][j], j)
BY DEF Once, AskedOnce

LEMMA OnceAppend ==
  ASSUME NEW q \in Seq(Unit), NEW h \in Nat, NEW r \in Nat, NEW j, NEW u \in Unit,
         AskedOnce(q, h, r, j)
  PROVE  /\ ~Requests(u, j) => AskedOnce(Append(q, u), h, r, j)
         /\ h > 0 => AskedOnce(Append(q, u), 0, r, j)
<1>. DEFINE n == Len(q)  p == Append(q, u)
<1>1. /\ n \in Nat /\ DOMAIN q = 1 .. n /\ DOMAIN p = 1 .. n + 1
      /\ p[n + 1] = u /\ \A k \in 1 .. n : p[k] = q[k]
  OBVIOUS
<1>. HIDE DEF n, p
<1>2. \A k \in DOMAIN p : k = n + 1 \/ k \in DOMAIN q
  BY <1>1
<1>4. \A k \in DOMAIN q : p[k] = q[k]
  BY <1>1
<1>5. ASSUME ~Requests(u, j)
      PROVE  AskedOnce(p, h, r, j)
  <2>1. \A k \in DOMAIN p : Requests(p[k], j) => k \in DOMAIN q /\ Requests(q[k], j)
    BY <1>1, <1>2, <1>4, <1>5
  <2>. QED BY <1>4, <2>1 DEF AskedOnce
<1>6. ASSUME h > 0
      PROVE  AskedOnce(p, 0, r, j)
  <2>1. r = 0 /\ \A k \in DOMAIN q : ~Requests(q[k], j)
    BY <1>6 DEF AskedOnce
  <2>2. \A k \in DOMAIN p : Requests(p[k], j) => k = n + 1
    BY <1>2, <1>4, <2>1
  <2>3. ~(0 > 0)
    OBVIOUS
  <2>. QED BY <2>1, <2>2, <2>3 DEF AskedOnce
<1>. QED BY <1>5, <1>6 DEF p

LEMMA OnceTail ==
  ASSUME NEW q \in Seq(Unit), NEW h \in Nat, NEW r \in Nat, NEW j, q # <<>>,
         AskedOnce(q, h, r, j)
  PROVE  /\ AskedOnce(Tail(q), h, r, j)
         /\ Requests(Head(q), j) => \A v : AskedOnce(Tail(q), h, v, j)
<1>. DEFINE p == Tail(q)
<1>1. /\ Head(q) = q[1] /\ 1 \in DOMAIN q
      /\ \A k \in DOMAIN p : p[k] = q[k + 1] /\ k + 1 \in DOMAIN q /\ k + 1 # 1
      /\ \A k, m \in DOMAIN p : k # m => k + 1 # m + 1
  OBVIOUS
<1>. HIDE DEF p
<1>2. AskedOnce(p, h, r, j)
  <2>1. \A k \in DOMAIN p : Requests(p[k], j) => Requests(q[k + 1], j)
    BY <1>1
  <2>2. \A k, m \in DOMAIN p : k # m => k + 1 \in DOMAIN q /\ m + 1 \in DOMAIN q \ {k + 1}
    BY <1>1
  <2>3. h > 0 => r = 0 /\ \A k \in DOMAIN p : ~Requests(p[k], j)
    BY <1>1, <2>1 DEF AskedOnce
  <2>4. ASSUME NEW k \in DOMAIN p, Requests(p[k], j)
        PROVE  r = 0 /\ \A m \in DOMAIN p \ {k} : ~Requests(p[m], j)
    <3>1. k + 1 \in DOMAIN q /\ Requests(q[k + 1], j)
      BY <1>1, <2>1, <2>4
    <3>2. r = 0 /\ \A m \in DOMAIN q \ {k + 1} : ~Requests(q[m], j)
      BY <3>1 DEF AskedOnce
    <3>. QED BY <2>1, <2>2, <3>2
  <2>. QED BY <2>3, <2>4 DEF AskedOnce
<1>3. ASSUME Requests(Head(q), j), NEW v
      PROVE  AskedOnce(p, h, v, j)
  <2>1. \A m \in DOMAIN q \ {1} : ~Requests(q[m], j)
    BY <1>1, <1>3 DEF AskedOnce
  <2>2. ~(h > 0)
    BY <1>1, <1>3 DEF AskedOnce
  <2>3. \A k \in DOMAIN p : ~Requests(p[k], j)
    BY <1>1, <2>1
  <2>. QED BY <2>2, <2>3 DEF AskedOnce
<1>. QED BY <1>2, <1>3 DEF p

LEMMA OnceLess ==
  ASSUME NEW q \in Seq(Unit), NEW h \in Nat, NEW r \in Nat, NEW j,
         AskedOnce(q, h, r, j)
  PROVE  /\ \A v \in Nat : v <= r => AskedOnce(q, h, v, j)
         /\ AskedOnce(q, 0, r, j)
         /\ \A m \in 0 .. Len(q) : AskedOnce(SubSeq(q, 1, m), h, r, j)
<1>1. \A v \in Nat : v <= r => AskedOnce(q, h, v, j)
  <2>1. \A v \in Nat : v <= r /\ r = 0 => v = 0
    OBVIOUS
  <2>. QED BY <2>1 DEF AskedOnce
<1>2. AskedOnce(q, 0, r, j)
  BY DEF AskedOnce
<1>3. ASSUME NEW m \in 0 .. Len(q)
      PROVE  AskedOnce(SubSeq(q, 1, m), h, r, j)
  <2>. DEFINE p == SubSeq(q, 1, m)
  <2>1. \A k \in DOMAIN p : k \in DOMAIN q /\ p[k] = q[k]
    OBVIOUS
  <2>. HIDE DEF p
  <2>. QED BY <2>1 DEF p, AskedOnce
<1>. QED BY <1>1, <1>2, <1>3

(* A step that concerns one connection.                                    *)
LEMMA OncePoint ==
  ASSUME Once, NEW c \in Client, NEW s \in Storage,
         \A x \in Client, y \in Storage : x # c \/ y # s =>
           /\ up'[x][y] = up[x][y]
           /\ heads'[x][y] = heads[x][y]
           /\ replies'[x][y] = replies[x][y],
         \A j \in Storage : AskedOnce(up'[c][s], heads'[c][s][j], replies'[c][s][j], j)
  PROVE  Once'
<1>1. ASSUME NEW x \in Client, NEW i \in Storage, NEW j \in Storage
      PROVE  AskedOnce(up'[x][i], heads'[x][i][j], replies'[x][i][j], j)
  <2>1. CASE x = c /\ i = s
    BY <2>1
  <2>2. CASE x # c \/ i # s
    <3>1. AskedOnce(up[x][i], heads[x][i][j], replies[x][i][j], j)
      BY OnceRoutes
    <3>2. /\ up'[x][i] = up[x][i] /\ heads'[x][i] = heads[x][i]
          /\ replies'[x][i] = replies[x][i]
      BY <2>2
    <3>. QED BY <3>1, <3>2
  <2>. QED BY <2>1, <2>2
<1>. QED BY <1>1, OnceRoutes

LEMMA OnceHere ==
  ASSUME TypeOK, Once, NEW c \in Client, NEW s \in Storage, NEW j \in Storage
  PROVE  /\ up[c][s] \in Seq(Unit) /\ heads[c][s][j] \in Nat /\ replies[c][s][j] \in Nat
         /\ AskedOnce(up[c][s], heads[c][s][j], replies[c][s][j], j)
BY StateTypes, OnceRoutes

LEMMA ClientOnce ==
  ASSUME TypeOK, Hands, Asking, Once, NEW c \in Client, UNCHANGED replies,
         ClientStep(c) \/ ClientTimeout(c) \/ MonitorServerLost(c)
  PROVE  Once'
<1>t. /\ up \in [Client -> [Storage -> Seq(Unit)]]
      /\ heads \in [Client -> [Storage -> [Storage -> Nat]]]
      /\ replies \in [Client -> [Storage -> [Storage -> Nat]]]
      /\ cs \in [Client -> [CSendThread -> Thread(SendPC)]]
  BY StateTypes
<1>1. UNCHANGED <<up, heads>> => Once'
  BY DEF Once
(* The unit a client sends, and the count of its head then.                *)
<1>2. ASSUME NEW s \in Storage, NEW u \in Unit, ClientPush(c, s, u), UNCHANGED heads,
             \A j : ~Requests(u, j)
      PROVE  Once'
  <2>1. up' = [up EXCEPT ![c][s] = Append(up[c][s], u)]
    BY <1>2 DEF ClientPush
  <2>2. up'[c][s] = Append(up[c][s], u)
        /\ \A x \in Client, y \in Storage : x # c \/ y # s => up'[x][y] = up[x][y]
    BY <1>t, <2>1
  <2>3. ASSUME NEW j \in Storage
        PROVE  AskedOnce(up'[c][s], heads'[c][s][j], replies'[c][s][j], j)
    BY <1>2, <2>2, OnceHere, OnceAppend
  <2>4. \A x \in Client, y \in Storage : x # c \/ y # s =>
           /\ up'[x][y] = up[x][y]
           /\ heads'[x][y] = heads[x][y]
           /\ replies'[x][y] = replies[x][y]
    BY <1>2, <2>2
  <2>. QED BY <2>3, <2>4, OncePoint
<1>3. ASSUME NEW t \in CSendThread, ClientSendRequest(c, t)
      PROVE  Once'
  <2>. DEFINE u == cs[c][t].h
  <2>0. cs[c][t] \in Thread(SendPC)
    BY <1>t
  <2>1. PICK s \in Storage : cs[c][t].i = s
    BY <2>0 DEF Thread
  <2>2. /\ u \in Unit /\ u.index \in Storage
        /\ u.count = heads[c][s][u.index] /\ u.count > 0
    BY <1>3, <2>0, <2>1 DEF Thread, ClientSendRequest, Asking
  <2>3. PICK k \in Storage : u.index = k
    BY <2>2
  <2>4. /\ up' = [up EXCEPT ![c][s] = Append(up[c][s], u)]
        /\ heads' = [heads EXCEPT ![c][s][k] = 0]
    BY <1>3, <2>1, <2>3 DEF ClientSendRequest, ClientPush
  <2>. HIDE DEF u
  <2>5. /\ up'[c][s] = Append(up[c][s], u)
        /\ \A x \in Client, y \in Storage : x # c \/ y # s => up'[x][y] = up[x][y]
    BY <1>t, <2>4
  <2>6. /\ heads'[c][s][k] = 0
        /\ \A j \in Storage \ {k} : heads'[c][s][j] = heads[c][s][j]
        /\ \A x \in Client, y \in Storage : x # c \/ y # s => heads'[x][y] = heads[x][y]
    BY <1>t, <2>4
  <2>7. AskedOnce(up'[c][s], heads'[c][s][k], replies'[c][s][k], k)
    BY <2>2, <2>3, <2>5, <2>6, OnceHere, OnceAppend
  <2>8. ASSUME NEW j \in Storage \ {k}
        PROVE  AskedOnce(up'[c][s], heads'[c][s][j], replies'[c][s][j], j)
    <3>1. ~Requests(u, j)
      BY <2>3 DEF Requests
    <3>2. /\ up[c][s] \in Seq(Unit) /\ heads[c][s][j] \in Nat /\ replies[c][s][j] \in Nat
          /\ AskedOnce(up[c][s], heads[c][s][j], replies[c][s][j], j)
      BY OnceHere
    <3>3. AskedOnce(Append(up[c][s], u), heads[c][s][j], replies[c][s][j], j)
      BY <2>2, <3>1, <3>2, OnceAppend
    <3>. QED BY <2>5, <2>6, <3>3
  <2>9. \A j \in Storage : AskedOnce(up'[c][s], heads'[c][s][j], replies'[c][s][j], j)
    BY <2>7, <2>8
  <2>10. \A x \in Client, y \in Storage : x # c \/ y # s =>
           /\ up'[x][y] = up[x][y]
           /\ heads'[x][y] = heads[x][y]
           /\ replies'[x][y] = replies[x][y]
    BY <2>5, <2>6
  <2>. QED BY <2>9, <2>10, OncePoint
<1>4. ASSUME NEW t \in CSendThread, ClientSendHead(c, t)
      PROVE  Once'
  <2>1. cs[c][t].h \in Unit /\ cs[c][t].h.type = Write /\ cs[c][t].i \in Storage
    BY <1>t, <1>4 DEF ClientSendHead, Hands, SendHands, UpHeads, Thread
  <2>2. \A j : ~Requests(cs[c][t].h, j)
    BY <2>1 DEF Requests, Read, Write
  <2>. QED BY <1>2, <1>4, <2>1, <2>2 DEF ClientSendHead
<1>5. ASSUME NEW t \in CSendThread, ClientSendItems(c, t)
      PROVE  Once'
  <2>1. cs[c][t].h.count \in Nat /\ cs[c][t].i \in Storage
    BY <1>t DEF Thread, Unit
  <2>2. ItemsUnit(cs[c][t].h.count) \in Unit
    BY <2>1, UnitTypes
  <2>3. \A j : ~Requests(ItemsUnit(cs[c][t].h.count), j)
    BY DEF Requests, ItemsUnit
  <2>. QED BY <1>2, <1>5, <2>1, <2>2, <2>3 DEF ClientSendItems
<1>6. CASE ClientFinish(c)
  <2>1. heads' = [heads EXCEPT ![c] = OnStorage(OnStorage(0))] /\ UNCHANGED up
    BY <1>6 DEF ClientFinish
  <2>2. /\ \A i, j \in Storage : heads'[c][i][j] = 0
        /\ \A x \in Client \ {c} : heads'[x] = heads[x]
    BY <1>t, <2>1 DEF OnStorage
  <2>3. ASSUME NEW x \in Client, NEW i \in Storage, NEW j \in Storage
        PROVE  AskedOnce(up'[x][i], heads'[x][i][j], replies'[x][i][j], j)
    <3>1. heads'[x][i][j] = 0 \/ heads'[x][i][j] = heads[x][i][j]
      BY <2>2
    <3>. QED BY <2>1, <3>1, OnceHere, OnceLess
  <2>. QED BY <2>3, OnceRoutes
<1>7. ASSUME NEW t \in CRecvThread, ClientRecv(c, t) \/ ClientRecvClose(c, t)
      PROVE  Once'
  <2>1. UNCHANGED <<up, heads>>
    BY <1>7 DEF ClientRecv, ClientRecvBegin, ClientRecvHead, ClientRecvItems,
       ClientRecvCount, ClientRecvFail, ClientRecvClose, ClientRecvExit, wireVars
  <2>. QED BY <1>1, <2>1
<1>8. ASSUME NEW t \in CSendThread, ClientSend(c, t) \/ ClientSendClose(c, t)
      PROVE  Once'
  <2>1. CASE ClientSendRequest(c, t) \/ ClientSendHead(c, t) \/ ClientSendItems(c, t)
    BY <1>3, <1>4, <1>5, <2>1
  <2>2. CASE ~(ClientSendRequest(c, t) \/ ClientSendHead(c, t) \/ ClientSendItems(c, t))
    <3>1. UNCHANGED <<up, heads>>
      BY <1>8, <2>2 DEF ClientSend, ClientSendBegin, ClientSendFail, ClientSendClose,
         ClientSendExit, ClientSendKilled, ClientDies, wireVars
    <3>. QED BY <1>1, <3>1
  <2>. QED BY <2>1, <2>2
<1>9. CASE MonitorScan(c) \/ MonitorReport(c) \/ MonitorServerLost(c)
  <2>1. UNCHANGED <<up, heads>>
    BY <1>9 DEF MonitorScan, MonitorReport, MonitorServerLost, ClientDies, wireVars
  <2>. QED BY <1>1, <2>1
<1>. QED BY <1>6, <1>7, <1>8, <1>9 DEF ClientStep, ClientTimeout, ClientMain

LEMMA TakeChunkOnce ==
  ASSUME TypeOK, Once, NEW c \in Client, NEW s \in Storage, NEW t \in SSendThread,
         NEW k \in Storage, TakeChunk(s, t, c, k), replies[c][s][k] > 0,
         UNCHANGED <<up, heads>>
  PROVE  Once'
<1>. DEFINE r == replies[c][s][k]  v == replies[c][s][k] - Chunk(replies[c][s][k])
<1>0. r \in Nat
  BY StateTypes
<1>1. Chunk(r) \in 1 .. r
  BY <1>0, ChunkType
<1>2. v \in Nat /\ v <= r
  BY <1>0, <1>1
<1>3. replies' = [replies EXCEPT ![c][s][k] = v]
  BY DEF TakeChunk
<1>4. replies \in [Client -> [Storage -> [Storage -> Nat]]]
  BY StateTypes
<1>. HIDE DEF v
<1>5. /\ \A x \in Client, y \in Storage : x # c \/ y # s => replies'[x][y] = replies[x][y]
      /\ replies'[c][s][k] = v
      /\ \A j \in Storage \ {k} : replies'[c][s][j] = replies[c][s][j]
  BY <1>3, <1>4, RoutePoint
<1>6. ASSUME NEW j \in Storage
      PROVE  AskedOnce(up'[c][s], heads'[c][s][j], replies'[c][s][j], j)
  <2>1. CASE j = k
    BY <1>2, <1>5, <2>1, OnceHere, OnceLess
  <2>2. CASE j # k
    BY <1>5, <2>2, OnceHere
  <2>. QED BY <2>1, <2>2
<1>7. \A x \in Client, y \in Storage : x # c \/ y # s =>
         /\ up'[x][y] = up[x][y]
         /\ heads'[x][y] = heads[x][y]
         /\ replies'[x][y] = replies[x][y]
  BY <1>5
<1>. QED BY <1>6, <1>7, OncePoint

LEMMA StorageOnce ==
  ASSUME TypeOK, Once, NEW s \in Storage, UNCHANGED heads,
         StorageStep(s) \/ StorageTimeout(s)
  PROVE  Once'
<1>t. /\ up \in [Client -> [Storage -> Seq(Unit)]]
      /\ replies \in [Client -> [Storage -> [Storage -> Nat]]]
      /\ sr \in [Storage -> [SRecvThread -> SThread(SRecvPC)]]
      /\ ss \in [Storage -> [SSendThread -> SSendState]]
  BY StateTypes
<1>1. UNCHANGED <<up, replies>> => Once'
  BY DEF Once
<1>2. ASSUME NEW c \in Client, StoragePop(c, s)
      PROVE  /\ up[c][s] # <<>> /\ up'[c][s] = Tail(up[c][s])
             /\ \A x \in Client, y \in Storage : x # c \/ y # s => up'[x][y] = up[x][y]
  BY <1>t, <1>2 DEF StoragePop
<1>3. ASSUME NEW t \in SRecvThread, StorageRecvRequest(s, t)
      PROVE  Once'
  <2>1. PICK c \in Client : sr[s][t].c = c
    BY <1>t DEF SThread
  <2>. DEFINE u == Head(up[c][s])
  <2>2. PICK k \in Storage : u.index = k
    BY <1>3, <2>1 DEF StorageRecvRequest
  <2>3. /\ StoragePop(c, s) /\ u.kind = "head" /\ u.type = Read
        /\ replies' = [replies EXCEPT ![c][s][k] = u.count]
    BY <1>3, <2>1, <2>2 DEF StorageRecvRequest
  <2>4. Requests(u, k)
    BY <2>2, <2>3 DEF Requests
  <2>. HIDE DEF u
  <2>5. /\ \A x \in Client, y \in Storage : x # c \/ y # s => replies'[x][y] = replies[x][y]
        /\ \A j \in Storage \ {k} : replies'[c][s][j] = replies[c][s][j]
    BY <1>t, <2>3
  <2>6. ASSUME NEW j \in Storage
        PROVE  AskedOnce(up'[c][s], heads'[c][s][j], replies'[c][s][j], j)
    <3>1. /\ up[c][s] \in Seq(Unit) /\ heads[c][s][j] \in Nat /\ replies[c][s][j] \in Nat
          /\ AskedOnce(up[c][s], heads[c][s][j], replies[c][s][j], j)
      BY OnceHere
    <3>2. up[c][s] # <<>> /\ up'[c][s] = Tail(up[c][s])
      BY <1>2, <2>3
    <3>3. CASE j = k
      <4>1. \A v : AskedOnce(Tail(up[c][s]), heads[c][s][j], v, j)
        BY <2>4, <3>1, <3>2, <3>3, OnceTail DEF u
      <4>. QED BY <3>2, <4>1
    <3>4. CASE j # k
      <4>1. AskedOnce(Tail(up[c][s]), heads[c][s][j], replies[c][s][j], j)
        BY <3>1, <3>2, OnceTail
      <4>. QED BY <2>5, <3>2, <3>4, <4>1
    <3>. QED BY <3>3, <3>4
  <2>7. \A x \in Client, y \in Storage : x # c \/ y # s =>
           /\ up'[x][y] = up[x][y]
           /\ heads'[x][y] = heads[x][y]
           /\ replies'[x][y] = replies[x][y]
    BY <1>2, <2>3, <2>5
  <2>. QED BY <2>6, <2>7, OncePoint
<1>4. ASSUME NEW t \in SRecvThread, StorageRecvHead(s, t) \/ StorageRecvItems(s, t)
      PROVE  Once'
  <2>1. PICK c \in Client : sr[s][t].c = c
    BY <1>t DEF SThread
  <2>2. StoragePop(c, s) /\ replies' = replies
    BY <1>4, <2>1 DEF StorageRecvHead, StorageRecvItems
  <2>3. ASSUME NEW j \in Storage
        PROVE  AskedOnce(up'[c][s], heads'[c][s][j], replies'[c][s][j], j)
    <3>1. /\ up[c][s] \in Seq(Unit) /\ heads[c][s][j] \in Nat /\ replies[c][s][j] \in Nat
          /\ AskedOnce(up[c][s], heads[c][s][j], replies[c][s][j], j)
      BY OnceHere
    <3>2. up[c][s] # <<>> /\ up'[c][s] = Tail(up[c][s])
      BY <1>2, <2>2
    <3>3. AskedOnce(Tail(up[c][s]), heads[c][s][j], replies[c][s][j], j)
      BY <3>1, <3>2, OnceTail
    <3>. QED BY <2>2, <3>2, <3>3
  <2>4. \A x \in Client, y \in Storage : x # c \/ y # s =>
           /\ up'[x][y] = up[x][y]
           /\ heads'[x][y] = heads[x][y]
           /\ replies'[x][y] = replies[x][y]
    BY <1>2, <2>2
  <2>. QED BY <2>3, <2>4, OncePoint
<1>5. ASSUME NEW t \in SSendThread, StorageSendBegin(s, t)
      PROVE  Once'
  <2>1. PICK c \in Client, k \in Storage :
           IsFirstHead(replies, c, s, k) /\ TakeChunk(s, t, c, k)
    BY <1>5 DEF StorageSendBegin
  <2>2. UNCHANGED up /\ replies[c][s][k] > 0
    BY <1>5, <2>1 DEF StorageSendBegin, wireVars, IsFirstHead
  <2>. QED BY <2>1, <2>2, TakeChunkOnce
<1>6. ASSUME NEW t \in SSendThread, StorageSendItems(s, t)
      PROVE  Once'
  <2>1. /\ ss[s][t].c \in Client /\ ss[s][t].h.index \in Storage
    BY <1>t, <1>6 DEF StorageSendItems, SSendState, SThread
  <2>2. UNCHANGED up
    BY <1>6 DEF StorageSendItems
  <2>3. \/ UNCHANGED replies
        \/ /\ replies[ss[s][t].c][s][ss[s][t].h.index] > 0
           /\ TakeChunk(s, t, ss[s][t].c, ss[s][t].h.index)
    BY <1>6 DEF StorageSendItems
  <2>. QED BY <1>1, <2>1, <2>2, <2>3, TakeChunkOnce
<1>7. ASSUME NEW t \in SRecvThread, StorageRecv(s, t) \/ StorageRecvClose(s, t)
      PROVE  Once'
  <2>1. CASE StorageRecvBegin(s, t) \/ StorageRecvClose(s, t)
    BY <1>1, <2>1 DEF StorageRecvBegin, StorageRecvClose, wireVars
  <2>. QED BY <1>3, <1>4, <1>7, <2>1 DEF StorageRecv, StorageRecvFail
<1>8. ASSUME NEW t \in SSendThread, StorageSend(s, t) \/ StorageSendClose(s, t)
      PROVE  Once'
  <2>1. CASE StorageSendHead(s, t) \/ StorageSendClose(s, t) \/ StorageSendKilled(s, t)
    BY <1>1, <2>1 DEF StorageSendHead, StorageSendClose, StorageSendKilled
  <2>. QED BY <1>5, <1>6, <1>8, <2>1 DEF StorageSend, StorageSendFail
<1>. QED BY <1>7, <1>8 DEF StorageStep, StorageTimeout

LEMMA OnceNext ==
  ASSUME TypeOK, Hands, Asking, Once, [Next]_vars
  PROVE  Once'
<1>1. UNCHANGED <<up, heads, replies>> => Once'
  BY DEF Once
<1>2. ASSUME NEW c \in Client, NEW s \in Storage, ConnReset(c, s),
             UNCHANGED <<clientVars, storageVars>>
      PROVE  Once'
  <2>1. PICK m \in 0 .. Len(up[c][s]) : up' = [up EXCEPT ![c][s] = SubSeq(up[c][s], 1, m)]
    BY <1>2 DEF ConnReset
  <2>2. up \in [Client -> [Storage -> Seq(Unit)]]
    BY StateTypes
  <2>3. /\ up'[c][s] = SubSeq(up[c][s], 1, m)
        /\ \A x \in Client, y \in Storage : x # c \/ y # s => up'[x][y] = up[x][y]
    BY <2>1, <2>2
  <2>4. heads' = heads /\ replies' = replies
    BY <1>2 DEF clientVars, storageVars
  <2>5. ASSUME NEW j \in Storage
        PROVE  AskedOnce(up'[c][s], heads'[c][s][j], replies'[c][s][j], j)
    BY <2>3, <2>4, OnceHere, OnceLess
  <2>6. \A x \in Client, y \in Storage : x # c \/ y # s =>
           /\ up'[x][y] = up[x][y]
           /\ heads'[x][y] = heads[x][y]
           /\ replies'[x][y] = replies[x][y]
    BY <2>3, <2>4
  <2>. QED BY <2>5, <2>6, OncePoint
<1>3. ASSUME NEW c \in Client, UNCHANGED storageVars,
             ClientStep(c) \/ ClientTimeout(c) \/ MonitorServerLost(c)
      PROVE  Once'
  BY <1>3, ClientOnce DEF storageVars
<1>4. ASSUME NEW s \in Storage, UNCHANGED clientVars, StorageStep(s) \/ StorageTimeout(s)
      PROVE  Once'
  BY <1>4, StorageOnce DEF clientVars
<1>5. UNCHANGED vars => Once'
  BY <1>1 DEF vars, wireVars, clientVars, storageVars
<1>6. AtRest => UNCHANGED vars
  BY DEF AtRest
<1>. QED BY <1>2, <1>3, <1>4, <1>5, <1>6 DEF Next

-----------------------------------------------------------------------------
(* The end of a session and the scan of the monitor.                       *)

(* A client at work in a step leaves the ends of the others alone.         *)
LEMMA OtherSessions ==
  ASSUME TypeOK, NEW d \in Client, NEW c \in Client \ {d},
         ClientStep(d) \/ ClientTimeout(d) \/ MonitorServerLost(d)
  PROVE  /\ mon'[c] = mon[c] /\ outcome'[c] = outcome[c]
         /\ serverUp'[c] = serverUp[c] /\ sendCount'[c] = sendCount[c]
<1>t. /\ mon \in [Client -> Monitor]
      /\ outcome \in [Client -> {"none", "complete", "error", "killed"}]
      /\ serverUp \in [Client -> BOOLEAN]
      /\ sendCount \in [Client -> [Storage -> Nat]]
  BY DEF TypeOK, ClientTypeOK, PerConn
<1>1. ASSUME NEW t \in CRecvThread, ClientRecv(d, t) \/ ClientRecvClose(d, t)
      PROVE  UNCHANGED <<mon, outcome, serverUp, sendCount>>
  BY <1>1 DEF ClientRecv, ClientRecvBegin, ClientRecvHead, ClientRecvItems,
     ClientRecvCount, ClientRecvFail, ClientRecvClose, ClientRecvExit
<1>2. ASSUME NEW t \in CSendThread, Sends(d, t)
      PROVE  UNCHANGED <<mon, outcome, serverUp>> /\ sendCount'[c] = sendCount[c]
  BY <1>2, <1>t DEF Sends, ClientSendBegin, ClientSendRequest, ClientSendHead,
     ClientSendItems, ClientSendClose, ClientSendExit
<1>3. ASSUME NEW t \in CSendThread, ClientSendKilled(d, t)
      PROVE  /\ mon'[c] = mon[c] /\ outcome'[c] = outcome[c]
             /\ serverUp'[c] = serverUp[c] /\ sendCount'[c] = sendCount[c]
  BY <1>3, <1>t DEF ClientSendKilled, ClientDies
<1>4. CASE MonitorScan(d) \/ MonitorReport(d)
  BY <1>4, <1>t DEF MonitorScan, MonitorReport, MonitorTest
<1>5. CASE MonitorServerLost(d)
  BY <1>5, <1>t DEF MonitorServerLost, MonitorTest, ClientDies
<1>6. CASE ClientFinish(d)
  BY <1>6, <1>t DEF ClientFinish
<1>7. ASSUME NEW t \in CSendThread, ClientSend(d, t) \/ ClientSendClose(d, t)
      PROVE  /\ mon'[c] = mon[c] /\ outcome'[c] = outcome[c]
             /\ serverUp'[c] = serverUp[c] /\ sendCount'[c] = sendCount[c]
  <2>1. Sends(d, t) \/ ClientSendKilled(d, t)
    BY <1>7 DEF ClientSend, ClientSendFail, Sends
  <2>. QED BY <1>2, <1>3, <2>1
<1>. QED BY <1>1, <1>4, <1>5, <1>6, <1>7 DEF ClientStep, ClientTimeout, ClientMain

(* The part of Ended about one client, in this state and in the next.      *)
LEMMA EndedParts ==
  ASSUME NEW c \in Client
  PROVE  /\ Ended => /\ mon[c].pc = "done" <=> outcome[c] # "none"
                     /\ outcome[c] # "none" =>
                          /\ \A t \in CRecvThread : cr[c][t].pc = "exit"
                          /\ \A t \in CSendThread : cs[c][t].pc = "exit"
BY DEF Ended

LEMMA ClientEnded ==
  ASSUME TypeOK, Ended, NEW c \in Client,
         ClientStep(c) \/ ClientTimeout(c) \/ MonitorServerLost(c)
  PROVE  /\ mon'[c].pc = "done" <=> outcome'[c] # "none"
         /\ outcome'[c] # "none" => /\ \A t \in CRecvThread : cr'[c][t].pc = "exit"
                                    /\ \A t \in CSendThread : cs'[c][t].pc = "exit"
<1>t. /\ mon \in [Client -> Monitor]
      /\ outcome \in [Client -> {"none", "complete", "error", "killed"}]
      /\ cr \in [Client -> [CRecvThread -> Thread(RecvPC)]]
      /\ cs \in [Client -> [CSendThread -> Thread(SendPC)]]
  BY DEF TypeOK, ClientTypeOK
<1>e. /\ mon[c].pc = "done" <=> outcome[c] # "none"
      /\ outcome[c] # "none" => /\ \A t \in CRecvThread : cr[c][t].pc = "exit"
                                /\ \A t \in CSendThread : cs[c][t].pc = "exit"
  BY EndedParts
<1>1. ASSUME NEW t \in CRecvThread, ClientRecv(c, t) \/ ClientRecvClose(c, t)
      PROVE  UNCHANGED <<mon, outcome>> /\ outcome[c] = "none"
  <2>1. UNCHANGED <<mon, outcome>> /\ cr[c][t].pc # "exit"
    BY <1>1 DEF ClientRecv, ClientRecvBegin, ClientRecvHead, ClientRecvItems,
       ClientRecvCount, ClientRecvFail, ClientRecvClose, ClientRecvExit
  <2>. QED BY <1>e, <2>1
<1>2. ASSUME NEW t \in CSendThread, Sends(c, t)
      PROVE  UNCHANGED <<mon, outcome>> /\ outcome[c] = "none"
  <2>1. UNCHANGED <<mon, outcome>> /\ cs[c][t].pc # "exit"
    BY <1>2 DEF Sends, ClientSendBegin, ClientSendRequest, ClientSendHead,
       ClientSendItems, ClientSendClose, ClientSendExit
  <2>. QED BY <1>e, <2>1
<1>3. CASE ClientDies(c)
  <2>1. /\ cr' = [cr EXCEPT ![c] = [t \in CRecvThread |-> Exited]]
        /\ cs' = [cs EXCEPT ![c] = [t \in CSendThread |-> Exited]]
        /\ mon' = [mon EXCEPT ![c] = MonitorAt("done")]
        /\ outcome' = [outcome EXCEPT ![c] = "killed"]
    BY <1>3 DEF ClientDies
  <2>2. mon'[c].pc = "done" /\ outcome'[c] = "killed"
    BY <1>t, <2>1 DEF MonitorAt
  <2>3. /\ \A t \in CRecvThread : cr'[c][t].pc = "exit"
        /\ \A t \in CSendThread : cs'[c][t].pc = "exit"
    BY <1>t, <2>1 DEF Exited, At
  <2>. QED BY <2>2, <2>3
<1>4. CASE ClientFinish(c)
  <2>1. /\ UNCHANGED <<cr, cs>>
        /\ \A t \in CRecvThread : cr[c][t].pc = "exit"
        /\ \A t \in CSendThread : cs[c][t].pc = "exit"
        /\ mon' = [mon EXCEPT ![c] = MonitorAt("done")]
        /\ outcome' = [outcome EXCEPT ![c] = IF mon[c].err THEN "error" ELSE "complete"]
    BY <1>4 DEF ClientFinish
  <2>2. mon'[c].pc = "done" /\ outcome'[c] # "none"
    BY <1>t, <2>1 DEF MonitorAt
  <2>. QED BY <2>1, <2>2
<1>5. CASE MonitorScan(c) \/ MonitorReport(c) \/ (MonitorServerLost(c) /\ ~ClientDies(c))
  <2>1. UNCHANGED outcome /\ mon[c].pc # "done" /\ mon'[c].pc # "done"
    BY <1>5, <1>t DEF MonitorScan, MonitorReport, MonitorServerLost, MonitorTest,
       MonitorAt, Monitor
  <2>. QED BY <1>e, <2>1
<1>6. ASSUME NEW t \in CSendThread, ClientSend(c, t) \/ ClientSendClose(c, t)
      PROVE  Sends(c, t) \/ ClientDies(c)
  BY <1>6 DEF ClientSend, ClientSendFail, ClientSendKilled, Sends
<1>. QED BY <1>e, <1>1, <1>2, <1>3, <1>4, <1>5, <1>6 DEF ClientStep, ClientTimeout, ClientMain

LEMMA EndedNext ==
  ASSUME TypeOK, Ended, [Next]_vars
  PROVE  Ended'
<1>1. UNCHANGED clientVars => Ended'
  BY DEF clientVars, Ended
<1>2. ASSUME NEW d \in Client,
             ClientStep(d) \/ ClientTimeout(d) \/ MonitorServerLost(d)
      PROVE  Ended'
  <2>1. ASSUME NEW c \in Client
        PROVE  /\ mon'[c].pc = "done" <=> outcome'[c] # "none"
               /\ outcome'[c] # "none" => /\ \A t \in CRecvThread : cr'[c][t].pc = "exit"
                                          /\ \A t \in CSendThread : cs'[c][t].pc = "exit"
    <3>1. CASE c = d
      BY <1>2, <3>1, ClientEnded
    <3>2. CASE c # d
      <4>1. mon'[c] = mon[c] /\ outcome'[c] = outcome[c]
        BY <1>2, <3>2, OtherSessions
      <4>2. cr'[c] = cr[c] /\ cs'[c] = cs[c]
        BY <1>2, <3>2, ClientFrame
      <4>. QED BY <4>1, <4>2, EndedParts
    <3>. QED BY <3>1, <3>2
  <2>. QED BY <2>1 DEF Ended
<1>. QED BY <1>1, <1>2 DEF Next, AtRest, vars

(* What the monitor has counted, of its state, of what it has sent and of  *)
(* its connection to the server.                                           *)
CountedSo(c, m, sent, told) ==
  m.pc # "done" =>
    /\ m.ends <= 2 * m.i
    /\ \/ m.err
       \/ m.ends < 2 * m.i
       \/ \A k \in Storage : k < m.i => sent[k] >= ToSend(c, k)
    /\ m.pc # "scan" => m.i = StorageCount
    /\ m.pc = "join" => m.err \/ ~told \/ m.ends >= 2 * StorageCount

LEMMA CountedParts ==
  /\ Scanned <=> \A c \in Client : CountedSo(c, mon[c], sendCount[c], serverUp[c])
  /\ Scanned' <=> \A c \in Client : CountedSo(c, mon'[c], sendCount'[c], serverUp'[c])
BY DEF Scanned, Counted, CountedSo, ToSend

LEMMA ScanStep ==
  ASSUME TypeOK, NEW c \in Client, MonitorScan(c),
         CountedSo(c, mon[c], sendCount[c], serverUp[c])
  PROVE  CountedSo(c, mon'[c], sendCount[c], serverUp[c])
<1>. DEFINE m == mon[c]  p == mon'[c]  n == StorageCount
<1>1. m \in Monitor /\ m.i \in Nat /\ m.ends \in Nat /\ n \in Nat
  BY WireAssumption DEF TypeOK, ClientTypeOK, Monitor
<1>2. m.pc = "scan" /\ m.i < n
  BY DEF MonitorScan
<1>3. p = [pc   |-> IF m.i = n - 1 THEN "report" ELSE "scan",
           i    |-> m.i + 1,
           ends |-> m.ends + Ends(c, m.i),
           err  |-> m.err \/ ~cfd[c][m.i]]
  BY DEF MonitorScan, TypeOK, ClientTypeOK
<1>4. m.i \in Storage
  BY <1>1, <1>2 DEF Storage
<1>5. /\ Ends(c, m.i) \in 0 .. 2
      /\ Ends(c, m.i) = 2 /\ cfd[c][m.i] => sendCount[c][m.i] >= ToSend(c, m.i)
  <2>1. sendCount[c][m.i] \in Nat
    BY <1>4, StateTypes
  <2>2. ToSend(c, m.i) \in Nat
    BY <1>4, MovesNat
  <2>. QED BY <2>1, <2>2 DEF Ends
<1>6. /\ m.ends <= 2 * m.i
      /\ \/ m.err
         \/ m.ends < 2 * m.i
         \/ \A k \in Storage : k < m.i => sendCount[c][k] >= ToSend(c, k)
  BY <1>2 DEF CountedSo
<1>7. /\ p.pc = IF m.i = n - 1 THEN "report" ELSE "scan"
      /\ p.i = m.i + 1 /\ p.ends = m.ends + Ends(c, m.i)
      /\ p.err = (m.err \/ ~cfd[c][m.i])
  BY <1>3
<1>. DEFINE e == Ends(c, m.i)
<1>. HIDE DEF p, e
<1>8. p.ends <= 2 * p.i
  <2>1. e \in 0 .. 2 /\ p.ends = m.ends + e /\ p.i = m.i + 1
    BY <1>5, <1>7 DEF e
  <2>. QED BY <1>1, <1>6, <2>1
<1>9. \/ p.err
      \/ p.ends < 2 * p.i
      \/ \A k \in Storage : k < p.i => sendCount[c][k] >= ToSend(c, k)
  <2>0. e \in 0 .. 2 /\ p.ends = m.ends + e /\ p.i = m.i + 1
    BY <1>5, <1>7 DEF e
  <2>1. CASE m.err \/ ~cfd[c][m.i]
    BY <1>7, <2>1
  <2>2. CASE m.ends < 2 * m.i \/ e # 2
    <3>1. p.ends < 2 * p.i
      BY <1>1, <1>6, <2>0, <2>2
    <3>. QED BY <3>1
  <2>3. CASE /\ ~m.err /\ cfd[c][m.i] /\ ~(m.ends < 2 * m.i) /\ e = 2
    <3>1. ASSUME NEW k \in Storage, k < p.i
          PROVE  sendCount[c][k] >= ToSend(c, k)
      <4>1. k < m.i \/ k = m.i
        BY <1>1, <2>0, <3>1 DEF Storage
      <4>. QED BY <1>5, <1>6, <2>3, <4>1 DEF e
    <3>. QED BY <3>1
  <2>. QED BY <2>1, <2>2, <2>3
<1>10. p.pc # "scan" => p.i = n
  BY <1>1, <1>7
<1>11. p.pc # "join"
  BY <1>7
<1>. QED BY <1>8, <1>9, <1>10, <1>11 DEF CountedSo, p

LEMMA ClientScanned ==
  ASSUME TypeOK, Scanned, NEW c \in Client,
         ClientStep(c) \/ ClientTimeout(c) \/ MonitorServerLost(c)
  PROVE  CountedSo(c, mon'[c], sendCount'[c], serverUp'[c])
<1>t. /\ mon \in [Client -> Monitor]
      /\ serverUp \in [Client -> BOOLEAN]
      /\ sendCount \in [Client -> [Storage -> Nat]]
      /\ StorageCount \in Nat
  BY WireAssumption DEF TypeOK, ClientTypeOK, PerConn
<1>c. CountedSo(c, mon[c], sendCount[c], serverUp[c])
  BY CountedParts
<1>d. mon'[c].pc = "done" => CountedSo(c, mon'[c], sendCount'[c], serverUp'[c])
  BY DEF CountedSo
<1>1. ASSUME UNCHANGED <<mon, serverUp, sendCount>>
      PROVE  CountedSo(c, mon'[c], sendCount'[c], serverUp'[c])
  BY <1>1, <1>c
<1>2. ASSUME NEW t \in CRecvThread, ClientRecv(c, t) \/ ClientRecvClose(c, t)
      PROVE  CountedSo(c, mon'[c], sendCount'[c], serverUp'[c])
  <2>1. UNCHANGED <<mon, serverUp, sendCount>>
    BY <1>2 DEF ClientRecv, ClientRecvBegin, ClientRecvHead, ClientRecvItems,
       ClientRecvCount, ClientRecvFail, ClientRecvClose, ClientRecvExit
  <2>. QED BY <1>1, <2>1
<1>3. ASSUME NEW t \in CSendThread, ClientSendItems(c, t)
      PROVE  CountedSo(c, mon'[c], sendCount'[c], serverUp'[c])
  <2>1. cs[c][t].i \in Storage /\ cs[c][t].h.count \in Nat
    BY StateTypes DEF Thread, Unit
  <2>2. /\ UNCHANGED <<mon, serverUp>>
        /\ sendCount' = [sendCount EXCEPT ![c][cs[c][t].i] = @ + cs[c][t].h.count]
    BY <1>3 DEF ClientSendItems
  <2>3. \A k \in Storage : sendCount'[c][k] >= sendCount[c][k]
                           /\ sendCount'[c][k] \in Nat /\ sendCount[c][k] \in Nat
    BY <1>t, <2>1, <2>2
  <2>4. \A k \in Storage : sendCount[c][k] >= ToSend(c, k) => sendCount'[c][k] >= ToSend(c, k)
    BY <2>3, MovesNat
  <2>. QED BY <1>c, <2>2, <2>4 DEF CountedSo
<1>4. ASSUME ClientDies(c)
      PROVE  CountedSo(c, mon'[c], sendCount'[c], serverUp'[c])
  <2>1. mon'[c].pc = "done"
    BY <1>t, <1>4 DEF ClientDies, MonitorAt
  <2>. QED BY <1>d, <2>1
<1>5. ASSUME NEW t \in CSendThread, ClientSend(c, t) \/ ClientSendClose(c, t)
      PROVE  CountedSo(c, mon'[c], sendCount'[c], serverUp'[c])
  <2>1. CASE ClientSendItems(c, t)
    BY <1>3, <2>1
  <2>2. CASE ClientDies(c)
    BY <1>4, <2>2
  <2>3. CASE ~ClientSendItems(c, t) /\ ~ClientDies(c)
    <3>1. UNCHANGED <<mon, serverUp, sendCount>>
      BY <1>5, <2>3 DEF ClientSend, ClientSendBegin, ClientSendRequest, ClientSendHead,
         ClientSendFail, ClientSendClose, ClientSendExit, ClientSendKilled
    <3>. QED BY <1>1, <3>1
  <2>. QED BY <2>1, <2>2, <2>3
<1>6. CASE MonitorScan(c)
  <2>1. UNCHANGED <<sendCount, serverUp>>
    BY <1>6 DEF MonitorScan
  <2>. QED BY <1>6, <1>c, <2>1, ScanStep
(* The loop condition.                                                     *)
<1>7. ASSUME NEW still \in BOOLEAN, MonitorTest(c, still), mon[c].pc = "report",
             sendCount' = sendCount, still \/ ~serverUp'[c]
      PROVE  CountedSo(c, mon'[c], sendCount'[c], serverUp'[c])
  <2>1. CASE mon'[c] = MonitorAt("scan")
    <3>1. \A k \in Storage : ~(k < 0)
      BY <1>t DEF Storage
    <3>2. /\ mon'[c].pc = "scan" /\ mon'[c].i = 0 /\ mon'[c].ends = 0
      BY <2>1 DEF MonitorAt
    <3>3. mon'[c].ends <= 2 * mon'[c].i
      BY <3>2
    <3>. QED BY <3>1, <3>2, <3>3 DEF CountedSo
  <2>2. CASE mon'[c] # MonitorAt("scan")
    <3>1. mon'[c] = [mon[c] EXCEPT !.pc = "join"]
          /\ ~(mon[c].ends < 2 * StorageCount /\ still /\ ~mon[c].err)
      BY <1>t, <1>7, <2>2 DEF MonitorTest
    <3>2. mon[c] \in Monitor
      BY <1>t
    <3>3. /\ mon'[c].pc = "join" /\ mon'[c].i = mon[c].i
          /\ mon'[c].ends = mon[c].ends /\ mon'[c].err = mon[c].err
          /\ mon[c].ends \in Nat
      BY <3>1, <3>2 DEF Monitor
    <3>4. mon[c].err \/ ~serverUp'[c] \/ mon[c].ends >= 2 * StorageCount
      BY <1>t, <1>7, <3>1, <3>3
    <3>. QED BY <1>7, <1>c, <3>3, <3>4 DEF CountedSo
  <2>. QED BY <2>1, <2>2
<1>8. CASE MonitorReport(c)
  <2>1. /\ MonitorTest(c, TRUE) /\ mon[c].pc = "report" /\ sendCount' = sendCount
    BY <1>8 DEF MonitorReport
  <2>. QED BY <1>7, <2>1
<1>9. CASE MonitorServerLost(c) /\ ~ClientDies(c)
  <2>1. /\ MonitorTest(c, FALSE) /\ mon[c].pc = "report" /\ sendCount' = sendCount
        /\ ~serverUp'[c]
    BY <1>9, <1>t DEF MonitorServerLost
  <2>. QED BY <1>7, <2>1
<1>10. CASE ClientFinish(c)
  <2>1. mon'[c].pc = "done"
    BY <1>10, <1>t DEF ClientFinish, MonitorAt
  <2>. QED BY <1>d, <2>1
<1>. QED BY <1>2, <1>4, <1>5, <1>6, <1>8, <1>9, <1>10 DEF ClientStep, ClientTimeout, ClientMain

LEMMA ScannedNext ==
  ASSUME TypeOK, Scanned, [Next]_vars
  PROVE  Scanned'
<1>1. UNCHANGED clientVars => Scanned'
  BY CountedParts DEF clientVars
<1>2. ASSUME NEW d \in Client,
             ClientStep(d) \/ ClientTimeout(d) \/ MonitorServerLost(d)
      PROVE  Scanned'
  <2>1. ASSUME NEW c \in Client
        PROVE  CountedSo(c, mon'[c], sendCount'[c], serverUp'[c])
    <3>1. CASE c = d
      BY <1>2, <3>1, ClientScanned
    <3>2. CASE c # d
      <4>1. mon'[c] = mon[c] /\ serverUp'[c] = serverUp[c] /\ sendCount'[c] = sendCount[c]
        BY <1>2, <3>2, OtherSessions
      <4>. QED BY <4>1, CountedParts
    <3>. QED BY <3>1, <3>2
  <2>. QED BY <2>1, CountedParts
<1>. QED BY <1>1, <1>2 DEF Next, AtRest, vars

-----------------------------------------------------------------------------
(* What was sent to a storage has been read there or is on its way.        *)

Landed(c, s) == delivered[c][s] + InFlight(c, s)

(* A chunk for s leaves the client.                                        *)
Shipped(c, s) ==
  \E t \in CSendThread, n \in Nat :
    /\ cs[c][t].pc = "items" /\ cs[c][t].i = s
    /\ Landed(c, s)' = Landed(c, s) + n
    /\ sendCount'[c][s] = sendCount[c][s] + n

LEMMA FlightNat ==
  ASSUME TypeOK, NEW c \in Client, NEW s \in Storage
  PROVE  InFlight(c, s) \in Nat /\ delivered[c][s] \in Nat /\ Landed(c, s) \in Nat
<1>1. up[c][s] \in Seq(Unit) /\ delivered[c][s] \in Nat
  BY StateTypes
<1>2. InFlight(c, s) = InStream(UnitItems, up[c][s])
  BY <1>1, FlightView
<1>3. InStream(UnitItems, up[c][s]) \in Nat
  BY <1>1, Weights, StreamItems
<1>. QED BY <1>1, <1>2, <1>3 DEF Landed

LEMMA LandedKept ==
  ASSUME NEW c \in Client, NEW s \in Storage,
         up'[c][s] = up[c][s], delivered'[c][s] = delivered[c][s]
  PROVE  Landed(c, s)' = Landed(c, s)
BY DEF Landed, InFlight, ItemsIn

LEMMA ClientPushLanded ==
  ASSUME TypeOK, NEW d \in Client, NEW i \in Storage, NEW u \in Unit,
         ClientPush(d, i, u), UNCHANGED delivered,
         NEW c \in Client, NEW s \in Storage
  PROVE  /\ c # d \/ s # i => Landed(c, s)' = Landed(c, s)
         /\ c = d /\ s = i => Landed(c, s)' = Landed(c, s) + UnitItems[u]
<1>1. c # d \/ s # i => Landed(c, s)' = Landed(c, s)
  BY UpPushed, LandedKept
<1>2. ASSUME c = d, s = i
      PROVE  Landed(c, s)' = Landed(c, s) + UnitItems[u]
  <2>1. InFlight(c, s)' = InFlight(c, s) + UnitItems[u]
    BY <1>2, UpPushed
  <2>2. Landed(c, s)' = delivered[c][s] + InFlight(c, s)'
    BY DEF Landed
  <2>3. InFlight(c, s) \in Nat /\ delivered[c][s] \in Nat /\ UnitItems[u] \in Nat
    BY FlightNat, Weights
  <2>4. Landed(c, s) = delivered[c][s] + InFlight(c, s)
    BY DEF Landed
  <2>. QED BY <2>1, <2>2, <2>3, <2>4
<1>. QED BY <1>1, <1>2

LEMMA ClientLanded ==
  ASSUME TypeOK, Hands, NEW d \in Client, UNCHANGED storageVars,
         ClientStep(d) \/ ClientTimeout(d) \/ MonitorServerLost(d),
         NEW c \in Client, NEW s \in Storage
  PROVE  \/ /\ Landed(c, s)' = Landed(c, s)
            /\ sendCount'[c][s] = sendCount[c][s] \/ outcome'[c] # "none"
         \/ Shipped(c, s)
<1>0. UNCHANGED delivered
  BY DEF storageVars
<1>t. /\ cs \in [Client -> [CSendThread -> Thread(SendPC)]]
      /\ sendCount \in [Client -> [Storage -> Nat]]
      /\ outcome \in [Client -> {"none", "complete", "error", "killed"}]
  BY StateTypes DEF TypeOK, ClientTypeOK
<1>1. ASSUME UNCHANGED up
      PROVE  Landed(c, s)' = Landed(c, s)
  BY <1>0, <1>1, LandedKept
<1>2. ASSUME NEW t \in CRecvThread, ClientRecv(d, t) \/ ClientRecvClose(d, t)
      PROVE  UNCHANGED <<up, sendCount>>
  BY <1>2 DEF ClientRecv, ClientRecvBegin, ClientRecvHead, ClientRecvItems,
     ClientRecvCount, ClientRecvFail, ClientRecvClose, ClientRecvExit, wireVars
<1>3. ASSUME NEW t \in CSendThread, ClientSendRequest(d, t) \/ ClientSendHead(d, t)
      PROVE  Landed(c, s)' = Landed(c, s) /\ sendCount' = sendCount
  <2>1. cs[d][t].i \in Storage /\ cs[d][t].h \in Unit
    BY <1>t DEF Thread
  <2>2. ClientPush(d, cs[d][t].i, cs[d][t].h) /\ sendCount' = sendCount
    BY <1>3 DEF ClientSendRequest, ClientSendHead
  <2>3. cs[d][t].h \in UpHeads
    BY <1>3 DEF ClientSendRequest, ClientSendHead, Hands, SendHands
  <2>4. UnitItems[cs[d][t].h] = 0
    BY <2>3 DEF UnitItems, UpHeads
  <2>5. Landed(c, s) \in Nat
    BY FlightNat
  <2>6. Landed(c, s)' = Landed(c, s) \/ Landed(c, s)' = Landed(c, s) + 0
    BY <1>0, <2>1, <2>2, <2>4, ClientPushLanded
  <2>. QED BY <2>2, <2>5, <2>6
<1>4. ASSUME NEW t \in CSendThread, ClientSendItems(d, t)
      PROVE  \/ Landed(c, s)' = Landed(c, s) /\ sendCount'[c][s] = sendCount[c][s]
             \/ Shipped(c, s)
  <2>. DEFINE i == cs[d][t].i  n == cs[d][t].h.count
  <2>1. i \in Storage /\ n \in Nat
    BY <1>t DEF Thread, Unit
  <2>2. /\ ClientPush(d, i, ItemsUnit(n)) /\ cs[d][t].pc = "items"
        /\ sendCount' = [sendCount EXCEPT ![d][i] = sendCount[d][i] + n]
    BY <1>4 DEF ClientSendItems
  <2>3. ItemsUnit(n) \in Unit
    BY <2>1, UnitTypes
  <2>4. UnitItems[ItemsUnit(n)] = n
    BY <2>3 DEF UnitItems, ItemsUnit
  <2>5. CASE c # d \/ s # i
    <3>1. sendCount'[c][s] = sendCount[c][s]
      BY <1>t, <2>1, <2>2, <2>5
    <3>2. Landed(c, s)' = Landed(c, s)
      BY <1>0, <2>1, <2>2, <2>3, <2>5, ClientPushLanded
    <3>. QED BY <3>1, <3>2
  <2>6. CASE c = d /\ s = i
    <3>1. sendCount'[c][s] = sendCount[c][s] + n
      BY <1>t, <2>1, <2>2, <2>6
    <3>2. Landed(c, s)' = Landed(c, s) + n
      BY <1>0, <2>1, <2>2, <2>3, <2>4, <2>6, ClientPushLanded
    <3>3. Shipped(c, s)
      BY <2>1, <2>2, <2>6, <3>1, <3>2 DEF Shipped
    <3>. QED BY <3>3
  <2>. QED BY <2>5, <2>6
<1>5. ASSUME NEW t \in CSendThread, ClientSend(d, t) \/ ClientSendClose(d, t)
      PROVE  \/ Landed(c, s)' = Landed(c, s) /\ sendCount'[c][s] = sendCount[c][s]
             \/ Shipped(c, s)
  <2>1. CASE ClientSendRequest(d, t) \/ ClientSendHead(d, t) \/ ClientSendItems(d, t)
    BY <1>3, <1>4, <2>1
  <2>2. CASE ~(ClientSendRequest(d, t) \/ ClientSendHead(d, t) \/ ClientSendItems(d, t))
    <3>1. UNCHANGED <<up, sendCount>>
      BY <1>5, <2>2 DEF ClientSend, ClientSendBegin, ClientSendFail, ClientSendClose,
         ClientSendExit, ClientSendKilled, ClientDies, wireVars
    <3>. QED BY <1>1, <3>1
  <2>. QED BY <2>1, <2>2
<1>6. CASE MonitorScan(d) \/ MonitorReport(d) \/ MonitorServerLost(d)
  <2>1. UNCHANGED <<up, sendCount>>
    BY <1>6 DEF MonitorScan, MonitorReport, MonitorServerLost, ClientDies, wireVars
  <2>. QED BY <1>1, <2>1
<1>7. CASE ClientFinish(d)
  <2>1. /\ UNCHANGED up
        /\ sendCount' = [sendCount EXCEPT ![d] = OnStorage(0)]
        /\ outcome' = [outcome EXCEPT ![d] = IF mon[d].err THEN "error" ELSE "complete"]
    BY <1>7 DEF ClientFinish
  <2>2. sendCount'[c][s] = sendCount[c][s] \/ outcome'[c] # "none"
    BY <1>t, <2>1
  <2>. QED BY <1>1, <2>1, <2>2
<1>. QED BY <1>1, <1>2, <1>5, <1>6, <1>7 DEF ClientStep, ClientTimeout, ClientMain

LEMMA StoragePopLanded ==
  ASSUME TypeOK, NEW d \in Client, NEW i \in Storage, StoragePop(d, i),
         NEW c \in Client, NEW s \in Storage,
         c # d \/ s # i => delivered'[c][s] = delivered[c][s],
         delivered'[d][i] = delivered[d][i] + UnitItems[Head(up[d][i])]
  PROVE  Landed(c, s)' = Landed(c, s)
<1>1. CASE c # d \/ s # i
  BY <1>1, UpPopped, LandedKept
<1>2. CASE c = d /\ s = i
  <2>. DEFINE n == UnitItems[Head(up[d][i])]
              a == InFlight(c, s)  b == InFlight(c, s)'  d0 == delivered[c][s]
  <2>1. a = n + b /\ Head(up[d][i]) \in Unit
    BY <1>2, UpPopped
  <2>2. Landed(c, s)' = (d0 + n) + b
    BY <1>2 DEF Landed
  <2>3. Landed(c, s) = d0 + a
    BY DEF Landed
  <2>4. d0 \in Nat /\ a \in Nat /\ n \in Nat
    BY <2>1, FlightNat, Weights
  <2>5. b \in Int
    <3>1. up[d][i] \in Seq(Unit) /\ up'[d][i] = Tail(up[d][i]) /\ up[d][i] # <<>>
      BY StateTypes DEF StoragePop
    <3>2. up'[d][i] \in Seq(Unit)
      BY <3>1
    <3>3. b = InStream(UnitItems, up'[d][i])
      BY <1>2, <3>2, FlightView
    <3>. QED BY <3>2, <3>3, Weights, StreamItems
  <2>. HIDE DEF n, a, b, d0
  <2>. QED BY <2>1, <2>2, <2>3, <2>4, <2>5
<1>. QED BY <1>1, <1>2

LEMMA StorageLanded ==
  ASSUME TypeOK, Hands', NEW y \in Storage, UNCHANGED clientVars,
         StorageStep(y) \/ StorageTimeout(y),
         NEW c \in Client, NEW s \in Storage
  PROVE  /\ Landed(c, s)' = Landed(c, s)
         /\ sfd'[c][s] => sfd[c][s]
         /\ reset' = reset
<1>t. /\ sr \in [Storage -> [SRecvThread -> SThread(SRecvPC)]]
      /\ ss \in [Storage -> [SSendThread -> SSendState]]
      /\ delivered \in [Client -> [Storage -> Nat]]
      /\ sfd \in [Client -> [Storage -> BOOLEAN]]
  BY StateTypes
<1>1. UNCHANGED <<up, delivered>> => Landed(c, s)' = Landed(c, s)
  BY LandedKept
<1>2. ASSUME NEW t \in SRecvThread, StorageRecvRequest(y, t) \/ StorageRecvHead(y, t)
      PROVE  Landed(c, s)' = Landed(c, s) /\ UNCHANGED <<sfd, reset>>
  <2>1. PICK d \in Client : sr[y][t].c = d
    BY <1>t DEF SThread
  <2>2. StoragePop(d, y) /\ UNCHANGED <<delivered, sfd, reset>>
    BY <1>2, <2>1 DEF StorageRecvRequest, StorageRecvHead
  <2>3. Head(up[d][y]) \in Unit
    BY <2>2, UpPopped
  <2>4. Head(up[d][y]).kind = "head"
    <3>1. CASE StorageRecvRequest(y, t)
      BY <2>1, <3>1 DEF StorageRecvRequest
    <3>2. CASE StorageRecvHead(y, t) /\ Head(up[d][y]).kind # "head"
      <4>1. sr' = [sr EXCEPT ![y][t] = SAt("garbled", d, Head(up[d][y]))]
        BY <2>1, <3>2 DEF StorageRecvHead
      <4>2. sr'[y][t].pc = "garbled"
        BY <1>t, <4>1 DEF SAt
      <4>. QED BY <4>2 DEF Hands, SRecvHands
    <3>. QED BY <1>2, <3>1, <3>2
  <2>5. UnitItems[Head(up[d][y])] = 0
    BY <2>3, <2>4 DEF UnitItems
  <2>6. delivered'[d][y] = delivered[d][y] + UnitItems[Head(up[d][y])]
    <3>1. delivered[d][y] \in Nat
      BY <1>t
    <3>. QED BY <2>2, <2>5, <3>1
  <2>. QED BY <2>2, <2>6, StoragePopLanded
<1>3. ASSUME NEW t \in SRecvThread, StorageRecvItems(y, t)
      PROVE  Landed(c, s)' = Landed(c, s) /\ UNCHANGED <<sfd, reset>>
  <2>1. PICK d \in Client : sr[y][t].c = d
    BY <1>t DEF SThread
  <2>. DEFINE n == sr[y][t].h.count  u == Head(up[d][y])
  <2>2. StoragePop(d, y) /\ UNCHANGED <<sfd, reset>>
    BY <1>3, <2>1 DEF StorageRecvItems
  <2>3. n \in Nat /\ u \in Unit
    <3>1. n \in Nat
      BY <1>t DEF SThread, Unit
    <3>. QED BY <2>2, <3>1, UpPopped
  <2>4. u = ItemsUnit(n)
    <3>1. SUFFICES ASSUME u # ItemsUnit(n) PROVE FALSE
      OBVIOUS
    <3>2. sr' = [sr EXCEPT ![y][t] = SAt("garbled", d, u)]
      BY <1>3, <2>1, <3>1 DEF StorageRecvItems
    <3>3. sr'[y][t].pc = "garbled"
      BY <1>t, <3>2 DEF SAt
    <3>. QED BY <3>3 DEF Hands, SRecvHands
  <2>5. delivered' = [delivered EXCEPT ![d][y] = delivered[d][y] + n]
    BY <1>3, <2>1, <2>4 DEF StorageRecvItems
  <2>6. UnitItems[u] = n
    BY <2>3, <2>4 DEF UnitItems, ItemsUnit
  <2>7. /\ delivered'[d][y] = delivered[d][y] + UnitItems[u]
        /\ c # d \/ s # y => delivered'[c][s] = delivered[c][s]
    BY <1>t, <2>5, <2>6
  <2>. QED BY <2>2, <2>7, StoragePopLanded
<1>4. ASSUME NEW t \in SRecvThread, StorageRecvClose(y, t)
      PROVE  UNCHANGED <<up, delivered, reset>> /\ (sfd'[c][s] => sfd[c][s])
  <2>1. sr[y][t].c \in Client
    BY <1>t DEF SThread
  <2>. QED BY <1>4, <1>t, <2>1 DEF StorageRecvClose
<1>5. ASSUME NEW t \in SRecvThread, StorageRecv(y, t) \/ StorageRecvClose(y, t)
      PROVE  /\ Landed(c, s)' = Landed(c, s)
             /\ sfd'[c][s] => sfd[c][s]
             /\ reset' = reset
  <2>1. CASE StorageRecvBegin(y, t)
    BY <1>1, <2>1 DEF StorageRecvBegin, wireVars
  <2>. QED BY <1>1, <1>2, <1>3, <1>4, <1>5, <2>1 DEF StorageRecv, StorageRecvFail
<1>6. ASSUME NEW t \in SSendThread, StorageSend(y, t) \/ StorageSendClose(y, t)
      PROVE  UNCHANGED <<up, delivered, reset>> /\ (sfd'[c][s] => sfd[c][s])
  <2>1. ss[y][t].c \in Client
    BY <1>t DEF SSendState, SThread
  <2>2. CASE StorageSendBegin(y, t) \/ StorageSendHead(y, t) \/ StorageSendItems(y, t)
    BY <2>2 DEF StorageSendBegin, StorageSendHead, StorageSendItems, wireVars
  <2>3. CASE StorageSendClose(y, t)
    BY <1>t, <2>1, <2>3 DEF StorageSendClose
  <2>4. CASE StorageSendKilled(y, t)
    <3>1. /\ sfd' = [x \in Client |-> [sfd[x] EXCEPT ![y] = FALSE]]
          /\ UNCHANGED <<up, delivered, reset>>
      BY <2>4 DEF StorageSendKilled
    <3>2. sfd'[c] = [sfd[c] EXCEPT ![y] = FALSE]
      BY <3>1
    <3>. QED BY <1>t, <3>1, <3>2
  <2>. QED BY <1>6, <2>2, <2>3, <2>4 DEF StorageSend, StorageSendFail
<1>. QED BY <1>1, <1>5, <1>6 DEF StorageStep, StorageTimeout

(* Every step, for a connection that holds.                                *)
LEMMA LandedStep ==
  ASSUME TypeOK, Hands, Hands', [Next]_vars, NEW c \in Client, NEW s \in Storage,
         sfd'[c][s], ~reset'[c][s]
  PROVE  /\ sfd[c][s] /\ ~reset[c][s]
         /\ \/ /\ Landed(c, s)' = Landed(c, s)
               /\ sendCount'[c][s] = sendCount[c][s] \/ outcome'[c] # "none"
            \/ Shipped(c, s)
<1>1. ASSUME NEW d \in Client, UNCHANGED storageVars,
             ClientStep(d) \/ ClientTimeout(d) \/ MonitorServerLost(d)
      PROVE  UNCHANGED <<sfd, reset>>
  <2>1. ASSUME NEW t \in CRecvThread, ClientRecv(d, t) \/ ClientRecvClose(d, t)
        PROVE  UNCHANGED <<sfd, reset>>
    BY <2>1 DEF ClientRecv, ClientRecvBegin, ClientRecvHead, ClientRecvItems,
       ClientRecvCount, ClientRecvFail, ClientRecvClose, ClientRecvExit, wireVars
  <2>2. ASSUME NEW t \in CSendThread, ClientSend(d, t) \/ ClientSendClose(d, t)
        PROVE  UNCHANGED <<sfd, reset>>
    BY <2>2 DEF ClientSend, ClientSendBegin, ClientSendRequest, ClientSendHead,
       ClientSendItems, ClientSendFail, ClientSendClose, ClientSendExit,
       ClientSendKilled, ClientDies, wireVars
  <2>3. CASE ClientMain(d) \/ MonitorServerLost(d)
    BY <2>3 DEF ClientMain, MonitorScan, MonitorReport, ClientFinish, MonitorServerLost,
       ClientDies, wireVars
  <2>. QED BY <1>1, <2>1, <2>2, <2>3 DEF ClientStep, ClientTimeout
<1>2. CASE \E d \in Client :
             /\ UNCHANGED storageVars
             /\ ClientStep(d) \/ ClientTimeout(d) \/ MonitorServerLost(d)
  BY <1>1, <1>2, ClientLanded
<1>3. CASE \E y \in Storage :
             UNCHANGED clientVars /\ (StorageStep(y) \/ StorageTimeout(y))
  <2>1. sendCount' = sendCount
    BY <1>3 DEF clientVars
  <2>. QED BY <1>3, <2>1, StorageLanded
<1>4. ASSUME NEW d \in Client, NEW i \in Storage, ConnReset(d, i),
             UNCHANGED <<clientVars, storageVars>>
      PROVE  /\ sfd[c][s] /\ ~reset[c][s]
             /\ Landed(c, s)' = Landed(c, s) /\ sendCount' = sendCount
  <2>1. PICK m \in 0 .. Len(up[d][i]) :
           /\ up' = [up EXCEPT ![d][i] = SubSeq(up[d][i], 1, m)]
           /\ reset' = [reset EXCEPT ![d][i] = TRUE]
           /\ UNCHANGED sfd
    BY <1>4 DEF ConnReset
  <2>2. /\ up \in [Client -> [Storage -> Seq(Unit)]]
        /\ reset \in [Client -> [Storage -> BOOLEAN]]
    BY StateTypes
  <2>3. c # d \/ s # i
    BY <2>1, <2>2
  <2>4. up'[c][s] = up[c][s] /\ reset'[c][s] = reset[c][s]
    BY <2>1, <2>2, <2>3
  <2>5. sendCount' = sendCount /\ delivered' = delivered
    BY <1>4 DEF clientVars, storageVars
  <2>. QED BY <2>1, <2>4, <2>5, LandedKept
<1>5. CASE UNCHANGED vars
  <2>1. UNCHANGED <<up, sfd, reset, delivered, sendCount>>
    BY <1>5 DEF vars, wireVars, clientVars, storageVars
  <2>. QED BY <2>1, LandedKept
<1>6. AtRest => UNCHANGED vars
  BY DEF AtRest
<1>. QED BY <1>2, <1>3, <1>4, <1>5, <1>6 DEF Next

(* What a step does to the outcome of a session.                           *)
LEMMA OutcomeStep ==
  ASSUME TypeOK, TypeOK', Hands, Hands', Chunks, Asking, Once, Ended, [Next]_vars,
         NEW c \in Client
  PROVE  /\ serverUp'[c] => serverUp[c]
         /\ \/ outcome'[c] = outcome[c]
            \/ outcome'[c] = "killed"
            \/ ClientFinish(c) /\ outcome[c] = "none"
         /\ outcome'[c] = "none" => outcome[c] = "none" /\ Moved(c)
<1>t. /\ outcome \in [Client -> {"none", "complete", "error", "killed"}]
      /\ serverUp \in [Client -> BOOLEAN]
  BY DEF TypeOK, ClientTypeOK
<1>1. CASE (\A x \in Client : Still(x) /\ Shrinks(x)) /\ UNCHANGED <<outcome, serverUp>>
  BY <1>1 DEF Moved
<1>2. ASSUME NEW d \in Client, Flow(d)
      PROVE  /\ serverUp'[c] => serverUp[c]
             /\ \/ outcome'[c] = outcome[c]
                \/ outcome'[c] = "killed"
                \/ ClientFinish(c) /\ outcome[c] = "none"
             /\ outcome'[c] = "none" => outcome[c] = "none" /\ Moved(c)
  <2>1. outcome'[c] = "none" => outcome[c] = "none" /\ Moved(c)
    BY <1>2, SessionSteps
  <2>2. CASE c # d
    BY <1>2, <2>1, <2>2 DEF Flow, Apart
  <2>3. CASE c = d
    <3>1. CASE UNCHANGED outcome /\ (UNCHANGED serverUp \/ ServerGone(c))
      BY <1>t, <2>1, <3>1 DEF ServerGone
    <3>2. CASE Killed(c)
      BY <1>t, <2>1, <3>2 DEF Killed, ServerGone
    <3>3. CASE ClientFinish(c)
      <4>1. UNCHANGED serverUp /\ mon[c].pc = "join"
        BY <3>3 DEF ClientFinish
      <4>2. outcome[c] = "none"
        BY <4>1, EndedParts
      <4>. QED BY <2>1, <3>3, <4>1, <4>2
    <3>. QED BY <1>2, <2>3, <3>1, <3>2, <3>3 DEF Flow
  <2>. QED BY <2>2, <2>3
<1>. QED BY <1>1, <1>2, StepFlow

LEMMA ArrivingNext ==
  ASSUME TypeOK, TypeOK', Hands, Hands', Chunks, Asking, Once, Ended, Arriving, [Next]_vars
  PROVE  Arriving'
<1>1. ASSUME NEW c \in Client, NEW s \in Storage,
             outcome'[c] = "none", sfd'[c][s], ~reset'[c][s]
      PROVE  Landed(c, s)' = sendCount'[c][s]
  <2>1. outcome[c] = "none"
    BY <1>1, OutcomeStep
  <2>2. /\ sfd[c][s] /\ ~reset[c][s]
        /\ \/ Landed(c, s)' = Landed(c, s) /\ sendCount'[c][s] = sendCount[c][s]
           \/ Shipped(c, s)
    BY <1>1, LandedStep
  <2>3. Landed(c, s) = sendCount[c][s]
    BY <2>1, <2>2 DEF Arriving, Landed
  <2>. QED BY <2>2, <2>3 DEF Shipped
<1>. QED BY <1>1 DEF Arriving, Landed

(* The session that ends complete has sent everything.                     *)
LEMMA FinishSent ==
  ASSUME TypeOK, Ended, Scanned, Balanced, NEW c \in Client, ClientFinish(c),
         outcome'[c] = "complete", serverUp[c], NEW s \in Storage
  PROVE  sendCount[c][s] = ToSend(c, s)
<1>t. /\ outcome \in [Client -> {"none", "complete", "error", "killed"}]
      /\ mon[c] \in Monitor /\ StorageCount \in Nat
  BY WireAssumption DEF TypeOK, ClientTypeOK
<1>1. /\ mon[c].pc = "join"
      /\ outcome' = [outcome EXCEPT ![c] = IF mon[c].err THEN "error" ELSE "complete"]
  BY DEF ClientFinish
<1>2. ~mon[c].err
  BY <1>t, <1>1
<1>3. outcome[c] = "none"
  BY <1>1, EndedParts
<1>4. sendCount[c][s] >= ToSend(c, s)
  <2>1. CountedSo(c, mon[c], sendCount[c], serverUp[c])
    BY CountedParts
  <2>2. mon[c].i = StorageCount /\ mon[c].ends >= 2 * StorageCount /\ mon[c].ends \in Nat
    BY <1>t, <1>1, <1>2, <2>1 DEF CountedSo, Monitor
  <2>3. ~(mon[c].ends < 2 * mon[c].i) /\ s < mon[c].i
    BY <1>t, <2>2 DEF Storage
  <2>. QED BY <1>1, <1>2, <2>1, <2>3 DEF CountedSo
<1>5. sendCount[c][s] <= ToSend(c, s)
  <2>1. Accounted(c, s) <= ToSend(c, s)
    BY <1>3 DEF Balanced
  <2>2. Accounted(c, s) = OwedTo(c, s) + Waiting(c, s) + sendCount[c][s]
    BY DEF Accounted
  <2>3. OwedTo(c, s) \in Nat
    BY OwedNat
  <2>4. Waiting(c, s) \in Nat /\ sendCount[c][s] \in Nat
    BY WaitingNat DEF Waiting
  <2>5. ToSend(c, s) \in Nat
    BY MovesNat
  <2>. DEFINE o == OwedTo(c, s)  w == Waiting(c, s)  z == sendCount[c][s]
              a == Accounted(c, s)  n == ToSend(c, s)
  <2>6. o \in Nat /\ w \in Nat /\ z \in Nat /\ n \in Nat /\ a = o + w + z /\ a <= n
    BY <2>1, <2>2, <2>3, <2>4, <2>5
  <2>. HIDE DEF o, w, z, a, n
  <2>7. z <= n
    BY <2>6
  <2>. QED BY <2>7 DEF z, n
<1>6. sendCount[c][s] \in Nat /\ ToSend(c, s) \in Nat
  BY StateTypes, MovesNat
<1>. QED BY <1>4, <1>5, <1>6

LEMMA CompleteNext ==
  ASSUME TypeOK, TypeOK', Hands, Hands', Chunks, Asking, Once, Ended, Scanned,
         Arriving, Balanced, CompleteIsSent, [Next]_vars
  PROVE  CompleteIsSent'
<1>1. ASSUME NEW c \in Client, outcome'[c] = "complete", serverUp'[c],
             NEW s \in Storage, sfd'[c][s], ~reset'[c][s]
      PROVE  Landed(c, s)' = ToSend(c, s)
  <2>1. /\ serverUp[c]
        /\ \/ outcome[c] = "complete"
           \/ ClientFinish(c) /\ outcome[c] = "none"
    <3>1. /\ serverUp'[c] => serverUp[c]
          /\ \/ outcome'[c] = outcome[c]
             \/ outcome'[c] = "killed"
             \/ ClientFinish(c) /\ outcome[c] = "none"
      BY OutcomeStep
    <3>. QED BY <1>1, <3>1
  <2>2. \A t \in CSendThread : cs[c][t].pc = "exit"
    BY <2>1, EndedParts DEF ClientFinish
  <2>3. sfd[c][s] /\ ~reset[c][s] /\ Landed(c, s)' = Landed(c, s)
    BY <1>1, <2>2, LandedStep DEF Shipped
  <2>4. CASE outcome[c] = "complete"
    BY <2>1, <2>3, <2>4 DEF CompleteIsSent, Landed
  <2>5. CASE ClientFinish(c) /\ outcome[c] = "none"
    <3>1. Landed(c, s) = sendCount[c][s]
      BY <2>3, <2>5 DEF Arriving, Landed
    <3>2. sendCount[c][s] = ToSend(c, s)
      BY <1>1, <2>1, <2>5, FinishSent
    <3>. QED BY <2>3, <3>1, <3>2
  <2>. QED BY <2>1, <2>4, <2>5
<1>2. \A c, s : ToSend(c, s)' = ToSend(c, s)
  BY DEF ToSend
<1>. QED BY <1>1, <1>2 DEF CompleteIsSent, Landed

-----------------------------------------------------------------------------
(* The invariant.                                                          *)

(* At first nothing has been fetched, waits, or was sent.                  *)
LEMMA StartsEmpty ==
  ASSUME Init, NEW c \in Client, NEW s \in Storage
  PROVE  Waiting(c, s) = 0 /\ Fetched(c, s) = 0 /\ sendCount[c][s] = 0
<1>1. TypeOK
  BY TypeInit
<1>2. /\ \A t \in CRecvThread : cr[c][t] = Idle
      /\ \A t \in CSendThread : cs[c][t] = Idle
      /\ buffered[c][s] = 0 /\ recvCount[c][s] = 0 /\ sendCount[c][s] = 0
  BY DEF Init, ClientInit, OnConn, OnStorage
<1>3. cr[c] \in [CRecvThread -> Thread(RecvPC)] /\ cs[c] \in [CSendThread -> Thread(SendPC)]
  BY <1>1, StateTypes
<1>4. \A t \in CRecvThread : CountingOf(s)[cr[c][t]] = 0
  BY <1>2, <1>3 DEF CountingOf, Idle, At
<1>5. \A t \in CSendThread : SendingOf(s)[cs[c][t]] = 0
  BY <1>2, <1>3 DEF SendingOf, Idle, At
<1>6. InHands(CountingOf(s), cr[c]) = 0 /\ InHands(SendingOf(s), cs[c]) = 0
  BY <1>3, <1>4, <1>5, RelayAssumption, NoItems
<1>7. Fetched(c, s) = recvCount[c][s] + 0
  BY <1>3, <1>6, FetchedView
<1>8. Sending(c, s) = 0
  BY <1>3, <1>6, SendingView
<1>. QED BY <1>2, <1>7, <1>8 DEF Waiting

LEMMA BalancedInit ==
  ASSUME Init
  PROVE  Balanced
<1>1. TypeOK
  BY TypeInit
<1>2. /\ \A c \in Client, t \in CRecvThread : cr[c][t] = Idle
      /\ \A c \in Client, t \in CSendThread : cs[c][t] = Idle
      /\ \A s \in Storage, t \in SSendThread : ss[s][t] = SIdle
  BY DEF Init, ClientInit, StorageInit
<1>3. \A c \in Client, s \in Storage :
         /\ up[c][s] = <<>> /\ down[c][s] = <<>>
         /\ buffered[c][s] = 0 /\ recvCount[c][s] = 0 /\ sendCount[c][s] = 0
         /\ \A k \in Storage : heads[c][s][k] = Request[c][s][k] /\ replies[c][s][k] = 0
  BY DEF Init, WireInit, ClientInit, StorageInit, OnConn, OnStorage
<1>4. ASSUME NEW j
      PROVE  Asked(<<>>, j) = 0 /\ Coming(<<>>, j) = 0
  <2>1. DOMAIN <<>> = {}
    OBVIOUS
  <2>. QED BY <2>1, SumEmpty DEF Asked, Coming, ItemsIn
<1>5. ASSUME NEW c \in Client, NEW i \in Storage, NEW j \in Storage
      PROVE  Receiving(cr[c], i, j) = 0 /\ Replying(ss[i], c, j) = 0
  <2>1. cr[c] \in [CRecvThread -> Thread(RecvPC)] /\ ss[i] \in [SSendThread -> SSendState]
    BY <1>1, StateTypes
  <2>2. \A t \in CRecvThread : ReceivingOf(i, j)[cr[c][t]] = 0
    BY <1>2, <2>1 DEF ReceivingOf, Idle, At
  <2>3. \A t \in SSendThread : ReplyingOf(c, j)[ss[i][t]] = 0
    BY <1>2, <2>1 DEF ReplyingOf, SIdle, SAt
  <2>4. InHands(ReceivingOf(i, j), cr[c]) = 0
    BY <2>1, <2>2, RelayAssumption, NoItems
  <2>5. InHands(ReplyingOf(c, j), ss[i]) = 0
    BY <2>1, <2>3, StorageAssumption, NoItems
  <2>. QED BY <2>1, <2>4, <2>5, ReceivingView, ReplyingView
<1>6. ASSUME NEW c \in Client, NEW s \in Storage
      PROVE  Waiting(c, s) = 0 /\ Fetched(c, s) = 0
  BY <1>6, StartsEmpty
<1>7. ASSUME NEW c \in Client, NEW i \in Storage, NEW j \in Storage
      PROVE  Outstanding(c, i, j) = Request[c][i][j]
  <2>1. Outstanding(c, i, j) = Request[c][i][j] + 0 + 0 + 0 + 0 + 0
    BY <1>3, <1>4, <1>5 DEF Outstanding
  <2>2. Request[c][i][j] \in Nat
    BY RelayAssumption DEF PerRoute
  <2>. QED BY <2>1, <2>2
<1>8. ASSUME NEW c \in Client, NEW s \in Storage
      PROVE  OwedTo(c, s) = ToSend(c, s) /\ OwedBy(c, s) = ToFetch(c, s)
  <2>1. [i \in Storage |-> Outstanding(c, i, s)] = [i \in Storage |-> Request[c][i][s]]
    BY <1>7
  <2>2. [j \in Storage |-> Outstanding(c, s, j)] = [j \in Storage |-> Request[c][s][j]]
    BY <1>7
  <2>. QED BY <2>1, <2>2 DEF OwedTo, OwedBy, ToSend, ToFetch
<1>9. ASSUME NEW c \in Client, NEW s \in Storage
      PROVE  Accounted(c, s) = ToSend(c, s) /\ Sourced(c, s) = ToFetch(c, s)
  <2>1. Accounted(c, s) = ToSend(c, s) + 0 + 0 /\ Sourced(c, s) = ToFetch(c, s) + 0
    BY <1>3, <1>6, <1>8 DEF Accounted, Sourced
  <2>. QED BY <2>1, MovesNat
<1>10. \A c \in Client, s \in Storage : ToSend(c, s) \in Nat /\ ToFetch(c, s) \in Nat
  BY MovesNat
<1>. QED BY <1>9, <1>10 DEF Balanced

LEMMA RInit == Init => RInv
<1>. SUFFICES ASSUME Init PROVE RInv
  OBVIOUS
<1>1. FInv
  BY TypeInit, LockedInit, LinesInit DEF FInv
<1>2. /\ \A c \in Client, t \in CRecvThread : cr[c][t] = Idle
      /\ \A c \in Client, t \in CSendThread : cs[c][t] = Idle
      /\ \A s \in Storage, t \in SSendThread : ss[s][t] = SIdle
      /\ \A c \in Client : mon[c] = MonitorAt("scan") /\ outcome[c] = "none"
  BY DEF Init, ClientInit, StorageInit
<1>3. \A c \in Client, s \in Storage :
         /\ up[c][s] = <<>> /\ down[c][s] = <<>> /\ sendCount[c][s] = 0
         /\ delivered[c][s] = 0 /\ \A k \in Storage : replies[c][s][k] = 0
  BY DEF Init, WireInit, ClientInit, StorageInit, OnConn, OnStorage
<1>t. TypeOK
  BY <1>1 DEF FInv
<1>4. Chunks
  <2>1. Idle \in RecvChunks /\ Idle \in SendChunks
    <3>1. Idle \in Thread(RecvPC) /\ Idle \in Thread(SendPC)
      BY ThreadTypes DEF RecvPC, SendPC
    <3>. QED BY <3>1 DEF RecvChunks, SendChunks, Idle, At
  <2>2. SIdle \in ReplyChunks
    <3>1. SIdle \in SSendState
      BY SendStates
    <3>. QED BY <3>1 DEF ReplyChunks, SIdle, SAt
  <2>3. /\ cr = [c \in Client |-> [t \in CRecvThread |-> Idle]]
        /\ cs = [c \in Client |-> [t \in CSendThread |-> Idle]]
        /\ ss = [s \in Storage |-> [t \in SSendThread |-> SIdle]]
        /\ down = [c \in Client |-> [s \in Storage |-> <<>>]]
    BY DEF Init, WireInit, ClientInit, StorageInit, OnConn, OnStorage
  <2>4. <<>> \in Seq(DownChunks)
    OBVIOUS
  <2>. QED BY <2>1, <2>2, <2>3, <2>4 DEF Chunks
<1>5. Asking
  BY <1>2 DEF Asking, Idle, At
<1>6. Once
  <2>1. \A j : \A h : AskedOnce(<<>>, h, 0, j)
    BY DEF AskedOnce
  <2>. QED BY <1>3, <2>1, OnceRoutes
<1>7. Ended
  BY <1>2 DEF Ended, MonitorAt
<1>8. Scanned
  <2>1. \A k \in Storage : ~(k < 0)
    BY WireAssumption DEF Storage
  <2>2. /\ MonitorAt("scan").pc = "scan" /\ MonitorAt("scan").i = 0
        /\ MonitorAt("scan").ends = 0 /\ 0 <= 2 * 0
    BY DEF MonitorAt
  <2>3. \A c \in Client : CountedSo(c, MonitorAt("scan"), sendCount[c], serverUp[c])
    BY <2>1, <2>2 DEF CountedSo
  <2>. QED BY <1>2, <2>3, CountedParts
<1>9. Arriving
  <2>1. ASSUME NEW c \in Client, NEW s \in Storage
        PROVE  InFlight(c, s) = 0
    <3>1. up[c][s] = <<>> /\ DOMAIN <<>> = {}
      BY <1>3
    <3>. QED BY <3>1, SumEmpty DEF InFlight, ItemsIn
  <2>. QED BY <1>3, <2>1 DEF Arriving
<1>10. CompleteIsSent
  BY <1>2 DEF CompleteIsSent
<1>. QED BY <1>1, <1>4, <1>5, <1>6, <1>7, <1>8, <1>9, <1>10, BalancedInit DEF RInv

LEMMA RNext == RInv /\ [Next]_vars => RInv'
<1>. SUFFICES ASSUME RInv, [Next]_vars PROVE RInv'
  OBVIOUS
<1>1. /\ FInv /\ Chunks /\ Asking /\ Once /\ Ended /\ Scanned /\ Arriving /\ Balanced
      /\ CompleteIsSent
  BY DEF RInv
<1>2. TypeOK /\ Hands /\ Exclusive
  BY <1>1, LockedExclusive DEF FInv
<1>3. FInv'
  BY <1>1, TypeNext, LockedNext, LinesNext DEF FInv
<1>4. TypeOK' /\ Hands'
  BY <1>3 DEF FInv
<1>5. Chunks'
  BY <1>1, <1>2, <1>4, ChunksNext
<1>6. Asking'
  BY <1>1, <1>2, AskingNext
<1>7. Once'
  BY <1>1, <1>2, OnceNext
<1>8. Ended'
  BY <1>1, <1>2, EndedNext
<1>9. Scanned'
  BY <1>1, <1>2, ScannedNext
<1>10. Arriving'
  BY <1>1, <1>2, <1>4, ArrivingNext
<1>11. Balanced'
  BY <1>1, <1>2, <1>4, BalancedNext
<1>12. CompleteIsSent'
  BY <1>1, <1>2, <1>4, CompleteNext
<1>. QED BY <1>3, <1>5, <1>6, <1>7, <1>8, <1>9, <1>10, <1>11, <1>12 DEF RInv

LEMMA RelayInvariant == Spec => []RInv
BY RInit, RNext, PTL DEF Spec

(* What main() moves for one task is kept item by item: as long as the     *)
(* connections of a client hold, what is still to be asked for, asked for  *)
(* (add_send_head), being answered, on its way, counted in the buffers     *)
(* (add_send_count), in the hands of a send thread (fetch_send_count) and  *)
(* sent adds up to what init_storages() counted, for every index and any   *)
(* number of storages and threads.                                         *)
THEOREM ItemsConserved == Spec => []Conserved
<1>1. ASSUME RInv
      PROVE  Conserved
  <2>1. TypeOK /\ Balanced
    BY <1>1 DEF RInv, FInv
  <2>2. ASSUME NEW c \in Client, outcome[c] = "none", Intact(c), NEW j \in Storage
        PROVE  ToSend(c, j) =
                 SumFunctionOnSet([i \in Storage |-> Outstanding(c, i, j)], Storage)
                 + buffered[c][j] + Sending(c, j) + sendCount[c][j]
    <3>. DEFINE o == OwedTo(c, j)  b == buffered[c][j]
                w == Sending(c, j)  z == sendCount[c][j]
    <3>1. Accounted(c, j) = ToSend(c, j)
      BY <2>1, <2>2 DEF Balanced
    <3>2. Accounted(c, j) = o + (b + w) + z
      BY DEF Accounted, Waiting
    <3>3. o \in Nat /\ b \in Nat /\ w \in Nat /\ z \in Nat
      BY <2>1, OwedNat, WaitingNat
    <3>. HIDE DEF o, b, w, z
    <3>4. o + (b + w) + z = o + b + w + z
      BY <3>3
    <3>. QED BY <3>1, <3>2, <3>4 DEF o, b, w, z, OwedTo
  <2>. QED BY <2>2 DEF Conserved
<1>. QED BY <1>1, RelayInvariant, PTL

(* The monitor loop of main() (idg_client.c) calls a session complete only *)
(* when every storage whose connection held has read all its items or has  *)
(* them coming, and they stay there when the client closes its sockets.    *)
THEOREM CompleteMeansSent == Spec => []CompleteIsSent
<1>1. RInv => CompleteIsSent
  BY DEF RInv
<1>. QED BY <1>1, RelayInvariant, PTL

-----------------------------------------------------------------------------
(* The refinement of Relay: what a client has fetched, holds and has sent, *)
(* as Relay sees it.                                                       *)

FetchedIn(c, s) == IF outcome[c] = "none" THEN Fetched(c, s) ELSE 0
HeldIn(c, s)    == IF outcome[c] = "none" THEN Waiting(c, s) ELSE 0
SentIn(c, s)    == IF outcome[c] = "none" THEN Sent(c, s) ELSE 0

AbsFetched == [c \in Client |-> [s \in Storage |-> FetchedIn(c, s)]]
AbsHeld    == [c \in Client |-> [s \in Storage |-> HeldIn(c, s)]]
AbsSent    == [c \in Client |-> [s \in Storage |-> SentIn(c, s)]]

(* Relay's sums are those of the model, and its actions act on these views.*)
LEMMA RelaySums ==
  ASSUME NEW c, NEW s
  PROVE  R!FromSource(c, s) = ToFetch(c, s) /\ R!ForDestination(c, s) = ToSend(c, s)
BY DEF R!FromSource, R!ForDestination, ToFetch, ToSend,
   R!SumFunctionOnSet, R!FoldFunctionOnSet, R!MapThenFoldSet,
   SumFunctionOnSet, FoldFunctionOnSet, MapThenFoldSet

LEMMA RelayInit ==
  R!Init <=> /\ AbsFetched = OnConn(0) /\ AbsHeld = OnConn(0) /\ AbsSent = OnConn(0)
             /\ serverUp = [c \in Client |-> TRUE]
             /\ outcome = [c \in Client |-> "none"]
BY DEF R!Init, R!OnConn, OnConn, OnStorage, InSession, AbsFetched, AbsHeld, AbsSent,
   FetchedIn, HeldIn, SentIn

LEMMA RelayStutter ==
  UNCHANGED <<AbsFetched, AbsHeld, AbsSent, serverUp, outcome>> => UNCHANGED R!vars
BY DEF R!vars, InSession, AbsFetched, AbsHeld, AbsSent, FetchedIn, HeldIn, SentIn

LEMMA RelayFetch ==
  ASSUME NEW c, NEW i, NEW j, NEW n
  PROVE  R!Fetch(c, i, j, n) <=>
           /\ outcome[c] = "none" /\ n \in 1 .. MTU
           /\ AbsFetched[c][i] + n <= ToFetch(c, i)
           /\ AbsFetched' = [AbsFetched EXCEPT ![c][i] = AbsFetched[c][i] + n]
           /\ AbsHeld' = [AbsHeld EXCEPT ![c][j] = AbsHeld[c][j] + n]
           /\ AbsSent' = AbsSent /\ serverUp' = serverUp /\ outcome' = outcome
BY RelaySums DEF R!Fetch, InSession, AbsFetched, AbsHeld, AbsSent,
   FetchedIn, HeldIn, SentIn

LEMMA RelayForward ==
  ASSUME NEW c, NEW j, NEW n
  PROVE  R!Forward(c, j, n) <=>
           /\ outcome[c] = "none" /\ n \in 1 .. MTU
           /\ n <= AbsHeld[c][j] /\ AbsSent[c][j] + n <= ToSend(c, j)
           /\ AbsHeld' = [AbsHeld EXCEPT ![c][j] = AbsHeld[c][j] - n]
           /\ AbsSent' = [AbsSent EXCEPT ![c][j] = AbsSent[c][j] + n]
           /\ AbsFetched' = AbsFetched /\ serverUp' = serverUp /\ outcome' = outcome
BY RelaySums DEF R!Forward, InSession, AbsFetched, AbsHeld, AbsSent,
   FetchedIn, HeldIn, SentIn

LEMMA RelayLose ==
  ASSUME NEW c, NEW j, NEW n
  PROVE  R!Lose(c, j, n) <=>
           /\ outcome[c] = "none" /\ n \in 1 .. MTU /\ n <= AbsHeld[c][j]
           /\ AbsHeld' = [AbsHeld EXCEPT ![c][j] = AbsHeld[c][j] - n]
           /\ AbsFetched' = AbsFetched /\ AbsSent' = AbsSent
           /\ serverUp' = serverUp /\ outcome' = outcome
BY DEF R!Lose, InSession, AbsFetched, AbsHeld, AbsSent, FetchedIn, HeldIn, SentIn

Cleared(c) ==
  /\ AbsFetched' = [AbsFetched EXCEPT ![c] = OnStorage(0)]
  /\ AbsHeld' = [AbsHeld EXCEPT ![c] = OnStorage(0)]
  /\ AbsSent' = [AbsSent EXCEPT ![c] = OnStorage(0)]

LEMMA RelayEnd ==
  ASSUME NEW c, NEW result
  PROVE  R!End(c, result) <=>
           /\ outcome[c] = "none"
           /\ result = "complete" /\ serverUp[c] =>
                \A j \in Storage : AbsSent[c][j] = ToSend(c, j)
           /\ outcome' = [outcome EXCEPT ![c] = result]
           /\ Cleared(c)
<1>1. \A s : R!ForDestination(c, s) = ToSend(c, s)
  BY RelaySums
<1>2. /\ InSession(Fetched) = AbsFetched /\ InSession(Fetched)' = AbsFetched'
      /\ InSession(Waiting) = AbsHeld /\ InSession(Waiting)' = AbsHeld'
      /\ InSession(Sent) = AbsSent /\ InSession(Sent)' = AbsSent'
  BY DEF InSession, AbsFetched, AbsHeld, AbsSent, FetchedIn, HeldIn, SentIn
<1>. QED BY <1>1, <1>2 DEF R!End, R!Clear, OnStorage, Cleared

LEMMA RelayKilled ==
  ASSUME NEW c
  PROVE  R!Killed(c) <=>
           /\ outcome[c] = "none"
           /\ outcome' = [outcome EXCEPT ![c] = "killed"]
           /\ serverUp' \in {serverUp, [serverUp EXCEPT ![c] = FALSE]}
           /\ Cleared(c)
BY DEF R!Killed, R!Clear, OnStorage, Cleared, InSession,
   AbsFetched, AbsHeld, AbsSent, FetchedIn, HeldIn, SentIn

LEMMA RelayServerLost ==
  ASSUME NEW c
  PROVE  R!ServerLost(c) <=>
           /\ outcome[c] = "none"
           /\ serverUp' = [serverUp EXCEPT ![c] = FALSE]
           /\ UNCHANGED <<AbsFetched, AbsHeld, AbsSent, outcome>>
BY DEF R!ServerLost, InSession, AbsFetched, AbsHeld, AbsSent, FetchedIn, HeldIn, SentIn

(* The views are numbers, and change where the numbers of a client do.     *)
LEMMA ViewTypes ==
  ASSUME TypeOK, TypeOK'
  PROVE  /\ AbsFetched \in PerConn(Nat) /\ AbsFetched' \in PerConn(Nat)
         /\ AbsHeld \in PerConn(Nat) /\ AbsHeld' \in PerConn(Nat)
         /\ AbsSent \in PerConn(Nat) /\ AbsSent' \in PerConn(Nat)
<1>1. ASSUME NEW c \in Client, NEW s \in Storage
      PROVE  /\ FetchedIn(c, s) \in Nat /\ FetchedIn(c, s)' \in Nat
             /\ HeldIn(c, s) \in Nat /\ HeldIn(c, s)' \in Nat
             /\ SentIn(c, s) \in Nat /\ SentIn(c, s)' \in Nat
  <2>1. /\ Fetched(c, s) \in Nat /\ Waiting(c, s) \in Nat /\ Sent(c, s) \in Nat
    BY WaitingNat DEF Waiting, Sent
  <2>2. /\ Fetched(c, s)' \in Nat /\ Waiting(c, s)' \in Nat /\ Sent(c, s)' \in Nat
    BY NextWaitingNat DEF Sent
  <2>. QED BY <2>1, <2>2 DEF FetchedIn, HeldIn, SentIn
<1>. QED BY <1>1 DEF PerConn, AbsFetched, AbsHeld, AbsSent

LEMMA ViewValues ==
  ASSUME NEW c \in Client, NEW s \in Storage
  PROVE  /\ AbsFetched[c][s] = FetchedIn(c, s) /\ AbsFetched'[c][s] = FetchedIn(c, s)'
         /\ AbsHeld[c][s] = HeldIn(c, s) /\ AbsHeld'[c][s] = HeldIn(c, s)'
         /\ AbsSent[c][s] = SentIn(c, s) /\ AbsSent'[c][s] = SentIn(c, s)'
BY DEF AbsFetched, AbsHeld, AbsSent

LEMMA ConnSame ==
  ASSUME NEW f \in PerConn(Nat), NEW g \in PerConn(Nat),
         \A x \in Client, s \in Storage : g[x][s] = f[x][s]
  PROVE  g = f
<1>1. \A x \in Client : g[x] = f[x]
  BY DEF PerConn
<1>. QED BY <1>1 DEF PerConn

LEMMA ConnChange ==
  ASSUME NEW f \in PerConn(Nat), NEW g \in PerConn(Nat),
         NEW c \in Client, NEW i \in Storage, NEW v \in Nat, g[c][i] = v,
         \A x \in Client, s \in Storage : x # c \/ s # i => g[x][s] = f[x][s]
  PROVE  g = [f EXCEPT ![c][i] = v]
<1>. DEFINE h == [f EXCEPT ![c][i] = v]
<1>1. h \in PerConn(Nat)
  BY DEF PerConn
<1>2. \A x \in Client, s \in Storage : g[x][s] = h[x][s]
  BY DEF PerConn
<1>. HIDE DEF h
<1>3. g = h
  BY <1>1, <1>2, ConnSame
<1>. QED BY <1>3 DEF h

LEMMA ConnCleared ==
  ASSUME NEW f \in PerConn(Nat), NEW g \in PerConn(Nat), NEW c \in Client,
         \A s \in Storage : g[c][s] = 0,
         \A x \in Client \ {c}, s \in Storage : g[x][s] = f[x][s]
  PROVE  g = [f EXCEPT ![c] = OnStorage(0)]
<1>. DEFINE h == [f EXCEPT ![c] = OnStorage(0)]
<1>1. h \in PerConn(Nat)
  BY DEF PerConn, OnStorage
<1>2. \A x \in Client, s \in Storage : g[x][s] = h[x][s]
  BY DEF PerConn, OnStorage
<1>. HIDE DEF h
<1>3. g = h
  BY <1>1, <1>2, ConnSame
<1>. QED BY <1>3 DEF h

(* A client whose numbers stay, and one whose session has ended.           *)
LEMMA StillViews ==
  ASSUME NEW c \in Client, outcome'[c] = outcome[c], Still(c) \/ outcome[c] # "none"
  PROVE  \A s \in Storage : /\ FetchedIn(c, s)' = FetchedIn(c, s)
                            /\ HeldIn(c, s)' = HeldIn(c, s)
                            /\ SentIn(c, s)' = SentIn(c, s)
BY DEF Still, FetchedIn, HeldIn, SentIn, Sent

LEMMA ViewsKept ==
  ASSUME TypeOK, TypeOK', UNCHANGED outcome,
         \A x \in Client : Still(x) \/ outcome[x] # "none"
  PROVE  UNCHANGED <<AbsFetched, AbsHeld, AbsSent>>
<1>1. ASSUME NEW x \in Client, NEW s \in Storage
      PROVE  /\ AbsFetched'[x][s] = AbsFetched[x][s] /\ AbsHeld'[x][s] = AbsHeld[x][s]
             /\ AbsSent'[x][s] = AbsSent[x][s]
  <2>1. /\ FetchedIn(x, s)' = FetchedIn(x, s) /\ HeldIn(x, s)' = HeldIn(x, s)
        /\ SentIn(x, s)' = SentIn(x, s)
    BY StillViews
  <2>. QED BY <2>1, ViewValues
<1>2. AbsFetched' = AbsFetched
  BY <1>1, ViewTypes, ConnSame
<1>3. AbsHeld' = AbsHeld
  BY <1>1, ViewTypes, ConnSame
<1>4. AbsSent' = AbsSent
  BY <1>1, ViewTypes, ConnSame
<1>. QED BY <1>2, <1>3, <1>4

LEMMA ViewsCleared ==
  ASSUME TypeOK, TypeOK', NEW c \in Client, Apart(c), outcome'[c] # "none"
  PROVE  Cleared(c)
<1>1. ASSUME NEW x \in Client \ {c}, NEW s \in Storage
      PROVE  /\ AbsFetched'[x][s] = AbsFetched[x][s] /\ AbsHeld'[x][s] = AbsHeld[x][s]
             /\ AbsSent'[x][s] = AbsSent[x][s]
  <2>1. Still(x) /\ outcome'[x] = outcome[x]
    BY DEF Apart
  <2>2. /\ FetchedIn(x, s)' = FetchedIn(x, s) /\ HeldIn(x, s)' = HeldIn(x, s)
        /\ SentIn(x, s)' = SentIn(x, s)
    BY <2>1, StillViews
  <2>. QED BY <2>2, ViewValues
<1>2. ASSUME NEW s \in Storage
      PROVE  AbsFetched'[c][s] = 0 /\ AbsHeld'[c][s] = 0 /\ AbsSent'[c][s] = 0
  <2>1. FetchedIn(c, s)' = 0 /\ HeldIn(c, s)' = 0 /\ SentIn(c, s)' = 0
    BY DEF FetchedIn, HeldIn, SentIn
  <2>. QED BY <2>1, ViewValues
<1>3. AbsFetched' = [AbsFetched EXCEPT ![c] = OnStorage(0)]
  BY <1>1, <1>2, ViewTypes, ConnCleared
<1>4. AbsHeld' = [AbsHeld EXCEPT ![c] = OnStorage(0)]
  BY <1>1, <1>2, ViewTypes, ConnCleared
<1>5. AbsSent' = [AbsSent EXCEPT ![c] = OnStorage(0)]
  BY <1>1, <1>2, ViewTypes, ConnCleared
<1>. QED BY <1>3, <1>4, <1>5 DEF Cleared

(* A chunk received, sent or lost moves the views as Relay says.           *)
LEMMA FetchingStep ==
  ASSUME TypeOK, TypeOK', Balanced', UNCHANGED <<outcome, serverUp>>,
         NEW c \in Client, Apart(c), outcome[c] = "none",
         NEW i \in Storage, NEW j \in Storage, NEW n \in 1 .. MTU, Fetching(c, i, j, n)
  PROVE  R!Fetch(c, i, j, n)
<1>1. ASSUME NEW x \in Client, NEW s \in Storage
      PROVE  /\ x # c \/ s # i => AbsFetched'[x][s] = AbsFetched[x][s]
             /\ x # c \/ s # j => AbsHeld'[x][s] = AbsHeld[x][s]
             /\ AbsSent'[x][s] = AbsSent[x][s]
  <2>1. CASE x # c
    <3>1. /\ FetchedIn(x, s)' = FetchedIn(x, s) /\ HeldIn(x, s)' = HeldIn(x, s)
          /\ SentIn(x, s)' = SentIn(x, s)
      BY <2>1, StillViews DEF Apart
    <3>. QED BY <3>1, ViewValues
  <2>2. CASE x = c
    <3>1. /\ s # i => FetchedIn(c, s)' = FetchedIn(c, s)
          /\ s # j => HeldIn(c, s)' = HeldIn(c, s)
          /\ SentIn(c, s)' = SentIn(c, s)
      BY DEF Fetching, FetchedIn, HeldIn, SentIn, Sent
    <3>. QED BY <2>2, <3>1, ViewValues
  <2>. QED BY <2>1, <2>2
<1>2. AbsFetched'[c][i] = AbsFetched[c][i] + n /\ AbsHeld'[c][j] = AbsHeld[c][j] + n
  <2>1. FetchedIn(c, i)' = FetchedIn(c, i) + n /\ HeldIn(c, j)' = HeldIn(c, j) + n
    BY DEF Fetching, FetchedIn, HeldIn
  <2>. QED BY <2>1, ViewValues
<1>3. AbsFetched[c][i] \in Nat /\ AbsHeld[c][j] \in Nat /\ n \in Nat
  BY ViewTypes, WireAssumption DEF PerConn
<1>4. AbsFetched' = [AbsFetched EXCEPT ![c][i] = AbsFetched[c][i] + n]
  <2>1. AbsFetched[c][i] + n \in Nat
    BY <1>3
  <2>. QED BY <1>1, <1>2, <2>1, ViewTypes, ConnChange
<1>5. AbsHeld' = [AbsHeld EXCEPT ![c][j] = AbsHeld[c][j] + n]
  <2>1. AbsHeld[c][j] + n \in Nat
    BY <1>3
  <2>. QED BY <1>1, <1>2, <2>1, ViewTypes, ConnChange
<1>6. AbsSent' = AbsSent
  BY <1>1, ViewTypes, ConnSame
<1>7. AbsFetched[c][i] + n <= ToFetch(c, i)
  <2>1. Sourced(c, i)' <= ToFetch(c, i)
    BY DEF Balanced, ToFetch
  <2>2. Sourced(c, i)' = OwedBy(c, i)' + Fetched(c, i)'
    BY DEF Sourced
  <2>3. Fetched(c, i)' = AbsFetched[c][i] + n
    BY <1>2, ViewValues DEF FetchedIn
  <2>4. OwedBy(c, i)' \in Nat
    BY OwedNat
  <2>5. ToFetch(c, i) \in Nat
    BY MovesNat
  <2>. DEFINE o == OwedBy(c, i)'  f == AbsFetched[c][i] + n  w == ToFetch(c, i)
  <2>6. o + f <= w /\ o \in Nat /\ f \in Nat /\ w \in Nat
    BY <1>3, <2>1, <2>2, <2>3, <2>4, <2>5
  <2>. HIDE DEF o, f, w
  <2>7. f <= w
    BY <2>6
  <2>. QED BY <2>7 DEF f, w
<1>. QED BY <1>4, <1>5, <1>6, <1>7, RelayFetch

LEMMA TakingViews ==
  ASSUME TypeOK, TypeOK', UNCHANGED <<outcome, serverUp>>,
         NEW c \in Client, Apart(c), outcome[c] = "none",
         NEW j \in Storage, NEW n \in 1 .. MTU, Taking(c, j, n)
  PROVE  /\ AbsFetched' = AbsFetched
         /\ n <= AbsHeld[c][j]
         /\ AbsHeld' = [AbsHeld EXCEPT ![c][j] = AbsHeld[c][j] - n]
         /\ \A x \in Client, s \in Storage :
              x # c \/ s # j => AbsSent'[x][s] = AbsSent[x][s]
<1>1. ASSUME NEW x \in Client, NEW s \in Storage
      PROVE  /\ AbsFetched'[x][s] = AbsFetched[x][s]
             /\ x # c \/ s # j => /\ AbsHeld'[x][s] = AbsHeld[x][s]
                                  /\ AbsSent'[x][s] = AbsSent[x][s]
  <2>1. CASE x # c
    <3>1. /\ FetchedIn(x, s)' = FetchedIn(x, s) /\ HeldIn(x, s)' = HeldIn(x, s)
          /\ SentIn(x, s)' = SentIn(x, s)
      BY <2>1, StillViews DEF Apart
    <3>. QED BY <3>1, ViewValues
  <2>2. CASE x = c
    <3>1. /\ FetchedIn(c, s)' = FetchedIn(c, s)
          /\ s # j => HeldIn(c, s)' = HeldIn(c, s) /\ SentIn(c, s)' = SentIn(c, s)
      BY DEF Taking, FetchedIn, HeldIn, SentIn, Sent
    <3>. QED BY <2>2, <3>1, ViewValues
  <2>. QED BY <2>1, <2>2
<1>2. AbsHeld[c][j] = Waiting(c, j) /\ AbsHeld'[c][j] = Waiting(c, j)'
  BY ViewValues DEF HeldIn
<1>3. n <= AbsHeld[c][j] /\ AbsHeld'[c][j] = AbsHeld[c][j] - n
  BY <1>2 DEF Taking
<1>4. AbsHeld[c][j] \in Nat /\ n \in Nat
  BY ViewTypes, WireAssumption DEF PerConn
<1>5. AbsFetched' = AbsFetched
  BY <1>1, ViewTypes, ConnSame
<1>6. AbsHeld' = [AbsHeld EXCEPT ![c][j] = AbsHeld[c][j] - n]
  <2>1. AbsHeld[c][j] - n \in Nat
    BY <1>3, <1>4
  <2>. QED BY <1>1, <1>3, <2>1, ViewTypes, ConnChange
<1>. QED BY <1>1, <1>3, <1>5, <1>6

LEMMA ForwardingStep ==
  ASSUME TypeOK, TypeOK', Balanced', UNCHANGED <<outcome, serverUp>>,
         NEW c \in Client, Apart(c), outcome[c] = "none",
         NEW j \in Storage, NEW n \in 1 .. MTU, Forwarding(c, j, n)
  PROVE  R!Forward(c, j, n)
<1>1. Taking(c, j, n) /\ sendCount'[c][j] = sendCount[c][j] + n
  BY DEF Forwarding
<1>2. /\ AbsFetched' = AbsFetched /\ n <= AbsHeld[c][j]
      /\ AbsHeld' = [AbsHeld EXCEPT ![c][j] = AbsHeld[c][j] - n]
      /\ \A x \in Client, s \in Storage :
           x # c \/ s # j => AbsSent'[x][s] = AbsSent[x][s]
  BY <1>1, TakingViews
<1>3. AbsSent[c][j] = sendCount[c][j] /\ AbsSent'[c][j] = sendCount'[c][j]
  BY ViewValues DEF SentIn, Sent
<1>4. AbsSent[c][j] \in Nat /\ n \in Nat
  BY ViewTypes, WireAssumption DEF PerConn
<1>5. AbsSent' = [AbsSent EXCEPT ![c][j] = AbsSent[c][j] + n]
  <2>1. AbsSent[c][j] + n \in Nat /\ AbsSent'[c][j] = AbsSent[c][j] + n
    BY <1>1, <1>3, <1>4
  <2>. QED BY <1>2, <2>1, ViewTypes, ConnChange
<1>6. AbsSent[c][j] + n <= ToSend(c, j)
  <2>1. Accounted(c, j)' <= ToSend(c, j)
    BY DEF Balanced, ToSend
  <2>2. Accounted(c, j)' = OwedTo(c, j)' + Waiting(c, j)' + sendCount'[c][j]
    BY DEF Accounted
  <2>3. OwedTo(c, j)' \in Nat /\ Waiting(c, j)' \in Nat
    BY OwedNat, NextWaitingNat
  <2>4. ToSend(c, j) \in Nat
    BY MovesNat
  <2>. DEFINE o == OwedTo(c, j)'  w == Waiting(c, j)'
              z == AbsSent[c][j] + n  a == ToSend(c, j)
  <2>5. o + w + z <= a /\ o \in Nat /\ w \in Nat /\ z \in Nat /\ a \in Nat
    BY <1>1, <1>3, <1>4, <2>1, <2>2, <2>3, <2>4
  <2>. HIDE DEF o, w, z, a
  <2>6. z <= a
    BY <2>5
  <2>. QED BY <2>6 DEF z, a
<1>. QED BY <1>2, <1>5, <1>6, RelayForward

LEMMA LosingStep ==
  ASSUME TypeOK, TypeOK', UNCHANGED <<outcome, serverUp>>,
         NEW c \in Client, Apart(c), outcome[c] = "none",
         NEW j \in Storage, NEW n \in 1 .. MTU, Losing(c, j, n)
  PROVE  R!Lose(c, j, n)
<1>1. Taking(c, j, n) /\ sendCount'[c][j] = sendCount[c][j]
  BY DEF Losing
<1>2. /\ AbsFetched' = AbsFetched /\ n <= AbsHeld[c][j]
      /\ AbsHeld' = [AbsHeld EXCEPT ![c][j] = AbsHeld[c][j] - n]
      /\ \A x \in Client, s \in Storage :
           x # c \/ s # j => AbsSent'[x][s] = AbsSent[x][s]
  BY <1>1, TakingViews
<1>3. AbsSent'[c][j] = AbsSent[c][j]
  BY <1>1, ViewValues DEF SentIn, Sent
<1>4. AbsSent' = AbsSent
  BY <1>2, <1>3, ViewTypes, ConnSame
<1>. QED BY <1>2, <1>4, RelayLose

LEMMA MovedStep ==
  ASSUME TypeOK, TypeOK', Balanced', UNCHANGED <<outcome, serverUp>>,
         NEW c \in Client, Apart(c), Moved(c)
  PROVE  [R!Next]_R!vars
<1>1. CASE Still(c) \/ outcome[c] # "none"
  <2>1. \A x \in Client : Still(x) \/ outcome[x] # "none"
    BY <1>1 DEF Apart
  <2>2. UNCHANGED <<AbsFetched, AbsHeld, AbsSent>>
    BY <2>1, ViewsKept
  <2>. QED BY <2>2, RelayStutter
<1>2. CASE outcome[c] = "none" /\ ~Still(c)
  <2>1. ASSUME NEW i \in Storage, NEW j \in Storage, NEW n \in 1 .. MTU,
               Fetching(c, i, j, n)
        PROVE  R!Next
    <3>1. R!Fetch(c, i, j, n)
      BY <1>2, <2>1, FetchingStep
    <3>. QED BY <3>1 DEF R!Next
  <2>2. ASSUME NEW j \in Storage, NEW n \in 1 .. MTU,
               Forwarding(c, j, n) \/ Losing(c, j, n)
        PROVE  R!Next
    <3>1. R!Forward(c, j, n) \/ R!Lose(c, j, n)
      BY <1>2, <2>2, ForwardingStep, LosingStep
    <3>. QED BY <3>1 DEF R!Next
  <2>. QED BY <1>2, <2>1, <2>2 DEF Moved
<1>. QED BY <1>1, <1>2

LEMMA EndStep ==
  ASSUME TypeOK, TypeOK', Ended, Scanned, Balanced,
         NEW c \in Client, Apart(c), ClientFinish(c)
  PROVE  R!EndSession(c)
<1>. DEFINE result == IF mon[c].err THEN "error" ELSE "complete"
<1>1. /\ mon[c].pc = "join" /\ UNCHANGED serverUp
      /\ outcome' = [outcome EXCEPT ![c] = result]
  BY DEF ClientFinish
<1>2. outcome[c] = "none"
  BY <1>1, EndedParts
<1>3. outcome'[c] = result /\ result \in {"complete", "error"}
  BY <1>1 DEF TypeOK, ClientTypeOK
<1>4. Cleared(c)
  BY <1>3, ViewsCleared
<1>5. ASSUME result = "complete", serverUp[c], NEW s \in Storage
      PROVE  AbsSent[c][s] = ToSend(c, s)
  <2>1. sendCount[c][s] = ToSend(c, s)
    BY <1>3, <1>5, FinishSent
  <2>2. AbsSent[c][s] = sendCount[c][s]
    BY <1>2, ViewValues DEF SentIn, Sent
  <2>. QED BY <2>1, <2>2
<1>. HIDE DEF result
<1>6. R!End(c, result)
  BY <1>1, <1>2, <1>4, <1>5, RelayEnd
<1>. QED BY <1>1, <1>3, <1>6 DEF R!EndSession

LEMMA FlowStep ==
  ASSUME TypeOK, TypeOK', Ended, Scanned, Balanced, Balanced',
         NEW c \in Client, Flow(c)
  PROVE  [R!Next]_R!vars
<1>1. CASE Moved(c) /\ UNCHANGED <<outcome, serverUp>>
  BY <1>1, MovedStep DEF Flow
<1>2. CASE Still(c) /\ UNCHANGED outcome /\ ServerGone(c) /\ mon[c].pc = "report"
  <2>1. outcome[c] = "none"
    BY <1>2, EndedParts
  <2>2. \A x \in Client : Still(x)
    BY <1>2 DEF Flow, Apart
  <2>3. UNCHANGED <<AbsFetched, AbsHeld, AbsSent>>
    BY <1>2, <2>2, ViewsKept
  <2>4. R!ServerLost(c)
    BY <1>2, <2>1, <2>3, RelayServerLost DEF ServerGone
  <2>. QED BY <2>4 DEF R!Next
<1>3. CASE Killed(c)
  <2>1. outcome[c] = "none"
    BY <1>3, EndedParts DEF Killed, AtWork
  <2>2. outcome'[c] = "killed"
    BY <1>3 DEF Killed, TypeOK, ClientTypeOK
  <2>3. Cleared(c)
    BY <2>2, ViewsCleared DEF Flow
  <2>4. /\ outcome' = [outcome EXCEPT ![c] = "killed"]
        /\ serverUp' \in {serverUp, [serverUp EXCEPT ![c] = FALSE]}
    BY <1>3 DEF Killed, ServerGone
  <2>5. R!Killed(c)
    BY <2>1, <2>3, <2>4, RelayKilled
  <2>. QED BY <2>5 DEF R!Next
<1>4. CASE ClientFinish(c)
  <2>1. R!EndSession(c)
    BY <1>4, EndStep DEF Flow
  <2>. QED BY <2>1 DEF R!Next
<1>. QED BY <1>1, <1>2, <1>3, <1>4 DEF Flow

LEMMA RelayStep == RInv /\ RInv' /\ [Next]_vars => [R!Next]_R!vars
<1>. SUFFICES ASSUME RInv, RInv', [Next]_vars PROVE [R!Next]_R!vars
  OBVIOUS
<1>1. /\ TypeOK /\ TypeOK' /\ Hands /\ Hands' /\ Chunks /\ Asking /\ Once
      /\ Ended /\ Scanned /\ Balanced /\ Balanced'
  BY DEF RInv, FInv
<1>2. CASE \E c \in Client : Flow(c)
  BY <1>1, <1>2, FlowStep
<1>3. CASE (\A x \in Client : Still(x) /\ Shrinks(x)) /\ UNCHANGED <<outcome, serverUp>>
  <2>1. UNCHANGED <<AbsFetched, AbsHeld, AbsSent>>
    BY <1>1, <1>3, ViewsKept
  <2>. QED BY <1>3, <2>1, RelayStutter
<1>. QED BY <1>1, <1>2, <1>3, StepFlow

LEMMA RelayStart == Init => R!Init
<1>. SUFFICES ASSUME Init PROVE R!Init
  OBVIOUS
<1>1. TypeOK
  BY TypeInit
<1>2. /\ outcome = [c \in Client |-> "none"]
      /\ serverUp = [c \in Client |-> TRUE]
  BY DEF Init, ClientInit
<1>3. ASSUME NEW c \in Client, NEW s \in Storage
      PROVE  FetchedIn(c, s) = 0 /\ HeldIn(c, s) = 0 /\ SentIn(c, s) = 0
  BY <1>3, StartsEmpty DEF FetchedIn, HeldIn, SentIn, Sent
<1>4. AbsFetched = OnConn(0) /\ AbsHeld = OnConn(0) /\ AbsSent = OnConn(0)
  BY <1>3 DEF AbsFetched, AbsHeld, AbsSent, OnConn, OnStorage
<1>. QED BY <1>2, <1>4, RelayInit

(* The data phase of a client does what Relay promises its server, step by *)
(* step: recv_thread_routine() fetches what the index asks for and no more,*)
(* send_thread_routine() sends what was fetched, once, and main() reports  *)
(* a complete session to a server it can reach only when every item was    *)
(* sent (idg_client.c).                                                    *)
THEOREM RelayRefined == Spec => ImplementsRelay
<1>1. Init => R!Init
  BY RelayStart
<1>2. RInv /\ RInv' /\ [Next]_vars => [R!Next]_R!vars
  BY RelayStep
<1>. QED BY <1>1, <1>2, RelayInvariant, PTL DEF Spec, ImplementsRelay, R!Spec
=============================================================================
