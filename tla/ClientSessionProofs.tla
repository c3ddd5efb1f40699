------------------------- MODULE ClientSessionProofs -------------------------
(***************************************************************************)
(* Proofs about the task loop of the client: what every way out of a       *)
(* session leaves open, that the buffers keep their types, and that a      *)
(* clean session asks for its index, for any number of storages, any parts *)
(* of an index and any number of failures.                                 *)
(***************************************************************************)
EXTENDS ClientSession, SumsAndLoops

LEMMA Storages ==
  StorageCount \in Nat \ {0} /\ 0 \in StorageNo /\ Numbers(StorageNo)
BY SessionAssumption DEF StorageNo, Numbers

-----------------------------------------------------------------------------
(* The sockets.                                                            *)

(* The sockets of storage s a session has opened that stands at pc.        *)
Mine(s) ==
  IF pc \in {"starting", "data"} \/ (pc = "storages" /\ s < k) THEN 1 ELSE 0

Sockets ==
  /\ pc \in {"connect", "read", "storages", "starting", "data", "failed",
             "clear", "undefined", "dead"}
  /\ k \in 0 .. StorageCount
  /\ lost \in Nat
  /\ open \in [StorageNo -> Nat]
  /\ stray \in [StorageNo -> Nat]
  /\ pc \in {"connect", "read", "clear"} => k = 0
  /\ pc = "storages" => k < StorageCount
  /\ pc \notin {"undefined", "dead"} => 
       \A s \in StorageNo : open[s] = lost + stray[s] + Mine(s)

LEMMA SocketsInit == Init => Sockets
BY Storages DEF Init, Sockets, Mine, None

(* Closing the sockets 0 .. n-1.                                           *)
LEMMA ClosedSockets ==
  ASSUME NEW n \in 0 .. StorageCount, open \in [StorageNo -> Nat],
         lost \in Nat, stray \in [StorageNo -> Nat],
         \A s \in StorageNo : open[s] = lost + stray[s] + (IF s < n THEN 1 ELSE 0)
  PROVE  /\ Closed(n) \in [StorageNo -> Nat]
         /\ \A s \in StorageNo : Closed(n)[s] = lost + stray[s]
<1>1. ASSUME NEW s \in StorageNo
      PROVE  (IF s < n THEN open[s] - 1 ELSE open[s]) = lost + stray[s]
  <2>1. CASE s < n
    BY <2>1
  <2>2. CASE ~(s < n)
    BY <2>2
  <2>. QED BY <2>1, <2>2
<1>. QED BY <1>1 DEF Closed

LEMMA SocketsNext == Sockets /\ [Next]_vars => Sockets'
<1>. SUFFICES ASSUME Sockets, [Next]_vars PROVE Sockets'
  OBVIOUS
<1>t. /\ StorageCount \in Nat \ {0} /\ k \in 0 .. StorageCount /\ lost \in Nat
      /\ open \in [StorageNo -> Nat] /\ stray \in [StorageNo -> Nat]
  BY Storages DEF Sockets
<1>1. CASE ConnectServer \/ ServerRefuses \/ IndexLost
  BY <1>1 DEF ConnectServer, ServerRefuses, IndexLost, Sockets, Mine
<1>2. ASSUME NEW p \in Part, ReadIndex(p)
      PROVE  Sockets'
  <2>1. \A s \in StorageNo : ~(s < 0)
    BY <1>t DEF StorageNo
  <2>. QED BY <1>2, <1>t, <2>1 DEF ReadIndex, Sockets, Mine
<1>3. CASE ConnectStorage
  <2>1. /\ pc = "storages" /\ k \in StorageNo /\ k < StorageCount
        /\ open' = [open EXCEPT ![k] = open[k] + 1] /\ k' = k + 1
        /\ lost' = lost /\ stray' = stray
        /\ \/ pc' = "undefined"
           \/ pc' = "starting" /\ k + 1 = StorageCount
           \/ pc' = "storages" /\ k + 1 # StorageCount
    BY <1>3, <1>t DEF ConnectStorage, Sockets, StorageNo
  <2>2. k' \in 0 .. StorageCount /\ open' \in [StorageNo -> Nat]
    BY <1>t, <2>1
  <2>3. ASSUME NEW s \in StorageNo, pc' # "undefined"
        PROVE  open'[s] = lost + stray[s] + Mine(s)'
    <3>1. open[s] = lost + stray[s] + (IF s < k THEN 1 ELSE 0)
      BY <2>1 DEF Sockets, Mine
    <3>2. open'[s] = lost + stray[s] + (IF s < k + 1 THEN 1 ELSE 0)
      <4>1. CASE s = k
        BY <1>t, <2>1, <3>1, <4>1
      <4>2. CASE s # k
        <5>1. s \in Int /\ (s < k + 1 <=> s < k)
          BY <1>t, <4>2 DEF StorageNo
        <5>. QED BY <1>t, <2>1, <3>1, <4>2, <5>1
      <4>. QED BY <4>1, <4>2
    <3>3. k + 1 = StorageCount => s < k + 1
      BY <1>t DEF StorageNo
    <3>4. Mine(s)' = IF s < k + 1 THEN 1 ELSE 0
      BY <2>1, <2>3, <3>3 DEF Mine
    <3>. QED BY <3>2, <3>4
  <2>4. pc' = "storages" => k' < StorageCount
    BY <1>t, <2>1
  <2>. QED BY <1>t, <2>1, <2>2, <2>3, <2>4 DEF Sockets
<1>4. CASE StorageFails
  <2>1. \A s \in StorageNo : open[s] = lost + stray[s] + (IF s < k THEN 1 ELSE 0)
    BY <1>4 DEF StorageFails, Sockets, Mine
  <2>2. /\ Closed(k) \in [StorageNo -> Nat]
        /\ \A s \in StorageNo : Closed(k)[s] = lost + stray[s]
    BY <1>t, <2>1, ClosedSockets
  <2>. QED BY <1>4, <1>t, <2>2 DEF StorageFails, Sockets, Mine
<1>11. CASE SetupFails
  <2>1. \A s \in StorageNo : open[s] = lost + stray[s] + (IF s < k THEN 1 ELSE 0)
    BY <1>11 DEF SetupFails, Sockets, Mine
  <2>2. /\ Closed(k) \in [StorageNo -> Nat]
        /\ \A s \in StorageNo : Closed(k)[s] = lost + stray[s]
    BY <1>t, <2>1, ClosedSockets
  <2>3. /\ pc = "storages" /\ k \in StorageNo /\ pc' = "failed" /\ k' = k /\ lost' = lost
        /\ open' = [Closed(k) EXCEPT ![k] = open[k] + 1]
        /\ stray' = [stray EXCEPT ![k] = stray[k] + 1]
    BY <1>11, <1>t DEF SetupFails, Sockets, StorageNo
  <2>4. open[k] = lost + stray[k]
    BY <1>t, <2>1, <2>3
  <2>5. open' \in [StorageNo -> Nat] /\ stray' \in [StorageNo -> Nat]
    BY <1>t, <2>2, <2>3
  <2>6. ASSUME NEW s \in StorageNo
        PROVE  open'[s] = lost + stray'[s]
    <3>1. CASE s = k
      BY <1>t, <2>2, <2>3, <2>4, <3>1
    <3>2. CASE s # k
      BY <1>t, <2>2, <2>3, <3>2
    <3>. QED BY <3>1, <3>2
  <2>7. \A s \in StorageNo : open'[s] = lost' + stray'[s] + Mine(s)'
    <3>1. \A s \in StorageNo : Mine(s)' = 0 /\ stray'[s] \in Nat
      BY <2>3, <2>5 DEF Mine
    <3>. QED BY <1>t, <2>3, <2>6, <3>1
  <2>. QED BY <1>t, <2>3, <2>5, <2>7 DEF Sockets
<1>5. CASE Start
  BY <1>5 DEF Start, Sockets, Mine
<1>6. CASE StartFails
  BY <1>6, <1>t DEF StartFails, Sockets, Mine
<1>7. CASE EndTask
  <2>1. \A s \in StorageNo : s < StorageCount
    BY <1>t DEF StorageNo
  <2>2. \A s \in StorageNo : open[s] = lost + stray[s] + (IF s < StorageCount THEN 1 ELSE 0)
    BY <1>7, <2>1 DEF EndTask, Sockets, Mine
  <2>3. StorageCount \in 0 .. StorageCount /\ 0 \in 0 .. StorageCount
    BY <1>t
  <2>4. /\ Closed(StorageCount) \in [StorageNo -> Nat]
        /\ \A s \in StorageNo : Closed(StorageCount)[s] = lost + stray[s]
    BY <1>t, <2>2, <2>3, ClosedSockets
  <2>. QED BY <1>7, <1>t, <2>3, <2>4 DEF EndTask, Sockets, Mine
<1>8. CASE Recover \/ Clear
  BY <1>8, <1>t DEF Recover, Clear, Sockets, Mine
<1>9. CASE Dies
  BY <1>9, <1>t DEF Dies, Sockets, None
<1>10. CASE UNCHANGED vars
  BY <1>10 DEF vars, Sockets, Mine
<1>. QED BY <1>1, <1>2, <1>3, <1>4, <1>5, <1>6, <1>7, <1>8, <1>9, <1>10,
     <1>11 DEF Next, Work, Complete, EndRefused, EndByFault, Wait, Gone

(* Whichever way main() of idg_client.c leaves a session (580-644), the    *)
(* sockets still open to a storage are one for each session that failed in *)
(* wait_for_starting() (206-217) and one for each whose socket to that     *)
(* storage inet_pton() or setsockopt() refused (372-386): the rest of      *)
(* init_storages() and the end of the data phase leave none open, and      *)
(* close no number twice.                                                  *)
THEOREM SocketsAccountedFor == Spec => []SocketsAccounted
<1>1. Sockets => SocketsAccounted
  <2>1. ASSUME Sockets, pc = "connect", NEW s \in StorageNo
        PROVE  open[s] = lost + stray[s]
    <3>1. Mine(s) = 0 /\ open[s] = lost + stray[s] + Mine(s)
      BY <2>1 DEF Sockets, Mine
    <3>2. lost \in Nat /\ stray[s] \in Nat
      BY <2>1 DEF Sockets
    <3>. QED BY <3>1, <3>2
  <2>. QED BY <2>1 DEF SocketsAccounted
<1>. QED BY <1>1, SocketsInit, SocketsNext, PTL DEF Spec

-----------------------------------------------------------------------------
(* The types.                                                              *)

LEMMA SessionTypeInit == Init => TypeOK
<1>1. NoRange \in [from : Nat, thru : Nat, count : Int]
  BY DEF NoRange
<1>. QED BY <1>1, Storages, SessionAssumption
     DEF Init, TypeOK, Range0, NoHeads, None

LEMMA SessionTypeNext == TypeOK /\ Sockets /\ Sockets' /\ [Next]_vars => TypeOK'
<1>. SUFFICES ASSUME TypeOK, Sockets, Sockets', [Next]_vars PROVE TypeOK'
  OBVIOUS
<1>t. /\ part \in Part \cup {<<>>} /\ ranges \in [StorageNo -> RangeType]
      /\ heads \in [StorageNo -> [StorageNo -> Nat]] /\ toSend \in [StorageNo -> Nat]
      /\ faults \in 0 .. MaxFaults /\ MaxFaults \in Nat /\ dirty \in BOOLEAN
      /\ server \in {"none", "open", "stale"}
  BY SessionAssumption DEF TypeOK, RangeType
<1>k. /\ k' \in 0 .. StorageCount /\ lost' \in Nat /\ open' \in [StorageNo -> Nat]
      /\ stray' \in [StorageNo -> Nat]
      /\ pc' \in {"connect", "read", "storages", "starting", "data", "failed",
                  "clear", "undefined", "dead"}
  BY DEF Sockets
<1>f. Fault => faults' \in 0 .. MaxFaults
  BY <1>t DEF Fault
<1>. DEFINE Typed == /\ part' \in Part \cup {<<>>} /\ ranges' \in [StorageNo -> RangeType]
                     /\ heads' \in [StorageNo -> [StorageNo -> Nat]]
                     /\ toSend' \in [StorageNo -> Nat]
                     /\ faults' \in 0 .. MaxFaults /\ dirty' \in BOOLEAN
                     /\ server' \in {"none", "open", "stale"}
<1>. SUFFICES Typed
  BY <1>k DEF TypeOK, RangeType
<1>1. CASE ConnectServer \/ ServerRefuses \/ IndexLost
  BY <1>1, <1>t, <1>f DEF ConnectServer, ServerRefuses, IndexLost, buffers
<1>2. ASSUME NEW p \in Part, ReadIndex(p)
      PROVE  Typed
  <2>1. p \in Seq(Item)
    BY SessionAssumption
  <2>2. Ranges(p, ranges) \in [StorageNo -> RangeType]
    BY <1>t, <2>1, Storages, RangesType DEF Item
  <2>. QED BY <1>2, <1>t, <2>2 DEF ReadIndex
<1>3. CASE ConnectStorage
  <2>1. k \in StorageNo
    BY <1>3, Storages DEF ConnectStorage, Sockets, StorageNo
  <2>2. part \in Seq(Item)
    <3>1. Part \subseteq Seq(Item) /\ <<>> \in Seq(Item)
      BY SessionAssumption
    <3>. QED BY <1>t, <3>1
  <2>r. ranges[k] \in RangeType
    BY <1>t, <2>1
  <2>. DEFINE b == Group(part, ranges[k], [heads |-> heads[k], toSend |-> toSend])
  <2>3. [heads |-> heads[k], toSend |-> toSend] \in Buffers(StorageNo)
    BY <1>t, <2>1 DEF Buffers
  <2>4. Inside(ranges[k]) => b \in Buffers(StorageNo)
    <3>1. ASSUME Inside(ranges[k])
          PROVE  ranges[k].from > ranges[k].thru \/ ranges[k].thru < Len(part)
      BY <3>1 DEF Inside
    <3>2. part \in Seq(StorageNo \X StorageNo) /\ Numbers(StorageNo)
      BY <2>2, Storages DEF Item
    <3>. QED BY <2>r, <2>3, <3>1, <3>2, GroupType
  <2>5. /\ UNCHANGED <<server, part, ranges, faults, dirty>>
        /\ \/ /\ Inside(ranges[k])
              /\ heads' = [heads EXCEPT ![k] = b.heads] /\ toSend' = b.toSend
           \/ UNCHANGED <<heads, toSend>>
    BY <1>3 DEF ConnectStorage
  <2>. HIDE DEF b
  <2>6. b \in Buffers(StorageNo) => b.heads \in [StorageNo -> Nat] /\ b.toSend \in [StorageNo -> Nat]
    BY DEF Buffers
  <2>7. heads' \in [StorageNo -> [StorageNo -> Nat]] /\ toSend' \in [StorageNo -> Nat]
    BY <1>t, <2>1, <2>4, <2>5, <2>6
  <2>. QED BY <1>t, <2>5, <2>7
<1>4. CASE StorageFails \/ SetupFails \/ Start \/ StartFails
  BY <1>4, <1>t, <1>f DEF StorageFails, SetupFails, Start, StartFails, buffers
<1>5. CASE EndTask /\ (UNCHANGED faults \/ Fault)
  <2>1. Range0 \in [StorageNo -> RangeType]
    BY DEF Range0, NoRange, RangeType
  <2>2. NoHeads \in [StorageNo -> [StorageNo -> Nat]] /\ None \in [StorageNo -> Nat]
    BY DEF NoHeads, None
  <2>. QED BY <1>5, <1>t, <1>f, <2>1, <2>2 DEF EndTask, ClearBuffers
<1>6. CASE Recover \/ Clear
  BY <1>6, <1>t DEF Recover, Clear, buffers
<1>7. CASE Dies
  BY <1>7, <1>t, <1>f DEF Dies, buffers
<1>8. CASE UNCHANGED vars
  BY <1>8, <1>t DEF vars, buffers
<1>. HIDE DEF Typed
<1>. QED BY <1>1, <1>2, <1>3, <1>4, <1>5, <1>6, <1>7, <1>8
     DEF Next, Work, Complete, EndRefused, EndByFault, Wait, Gone

(* The buffers of the client keep their types, whatever read_index_data()  *)
(* and init_storages() of idg_client.c (141-198, 442-463) find in them and *)
(* in the index, also when a failed session has left them dirty: no range  *)
(* begins below 0 and no request is negative.                              *)
THEOREM SessionTyped == Spec => []TypeOK
<1>1. Init => TypeOK /\ Sockets
  BY SessionTypeInit, SocketsInit
<1>2. (TypeOK /\ Sockets) /\ [Next]_vars => (TypeOK /\ Sockets)'
  BY SessionTypeNext, SocketsNext
<1>. QED BY <1>1, <1>2, PTL DEF Spec

-----------------------------------------------------------------------------
(* The parts of ClientSession are sorted, so that RangeOfPart is about     *)
(* them.                                                                   *)
LEMMA PartsSorted ==
  ASSUME NEW p \in Part
  PROVE  p \in Seq(Item) /\ Len(p) \in Nat \ {0} /\ Sorted(p)
<1>1. p \in Seq(Item) /\ p # <<>>
  BY SessionAssumption
<1>2. Len(p) \in Nat \ {0}
  BY <1>1
<1>3. ASSUME NEW i \in 1 .. Len(p), NEW j \in 1 .. Len(p), i < j
      PROVE  p[i][1] < p[j][1] \/ (p[i][1] = p[j][1] /\ p[i][2] <= p[j][2])
  <2>1. ~Before(p[j], p[i])
    BY <1>3, SessionAssumption
  <2>2. p[i] \in Item /\ p[j] \in Item
    BY <1>1
  <2>3. /\ p[i][1] \in Int /\ p[i][2] \in Int /\ p[j][1] \in Int /\ p[j][2] \in Int
    BY <2>2, Storages DEF Item, StorageNo
  <2>. QED BY <2>1, <2>3 DEF Before
<1>. QED BY <1>1, <1>2, <1>3 DEF Sorted

(* A range of a part lies in it, and counts its items.                     *)
LEMMA RangeOfIndex ==
  ASSUME NEW p \in Part, NEW s \in StorageNo
  PROVE  LET r == Ranges(p, Range0)[s] IN
         /\ r \in RangeType /\ r.from <= r.thru /\ r.thru < Len(p)
         /\ Rising(p, r) /\ r.count = ItemsFrom(p, s)
         /\ \A d \in StorageNo : Tally(p, r.from, Last(r), d) = Requested(p, p[1], s, d)
<1>1. /\ p \in Seq(StorageNo \X StorageNo) /\ Sorted(p) /\ Len(p) # 0
      /\ Numbers(StorageNo) /\ Range0 = Empty(StorageNo)
  BY PartsSorted, Storages DEF Item, Range0, Empty
<1>. QED BY <1>1, RangeOfPart

(* The buffers as init_client() and the end of a data phase leave them.    *)
Fresh == ranges = Range0 /\ heads = NoHeads /\ toSend = None

AskedFor(d) == [i \in StorageNo |-> Requested(part, part[1], i, d)]

(* The buffers when k storages have been connected.                        *)
Filled ==
  /\ part \in Part /\ ranges = Ranges(part, Range0)
  /\ \A s, d \in StorageNo : heads[s][d] = IF s < k THEN Requested(part, part[1], s, d) ELSE 0
  /\ \A d \in StorageNo : toSend[d] = SumFunctionOnSet(AskedFor(d), 0 .. k - 1)

Clean ==
  /\ pc \in {"starting", "data"} => k = StorageCount
  /\ ~dirty => /\ pc # "undefined"
               /\ pc \in {"connect", "read", "failed", "clear"} => Fresh
               /\ pc \in {"storages", "starting", "data"} => Filled

LEMMA AskedNat ==
  ASSUME NEW p \in Part, NEW s \in StorageNo, NEW d \in StorageNo
  PROVE  Requested(p, p[1], s, d) \in Nat
<1>1. /\ Ranges(p, Range0)[s] \in RangeType
      /\ Ranges(p, Range0)[s].from <= Ranges(p, Range0)[s].thru
      /\ Tally(p, Ranges(p, Range0)[s].from, Last(Ranges(p, Range0)[s]), d) = Requested(p, p[1], s, d)
  BY RangeOfIndex
<1>. DEFINE r == Ranges(p, Range0)[s]
<1>2. r \in RangeType /\ r.from <= r.thru
  BY <1>1
<1>3. r.from \in Nat /\ Last(r) \in Nat
  <2>. HIDE DEF r
  <2>. QED BY <1>2 DEF RangeType, Last
<1>. QED BY <1>1, <1>3, TallyNat

LEMMA CleanInit == Init => Clean
BY DEF Init, Clean, Fresh

(* read_index_data() fills the ranges of clean buffers.                    *)
LEMMA ReadFills ==
  ASSUME NEW p \in Part, Fresh, k = 0, ReadIndex(p)
  PROVE  Filled'
<1>1. /\ part' = p /\ ranges' = Ranges(p, Range0) /\ k' = 0
      /\ heads' = NoHeads /\ toSend' = None
  BY DEF ReadIndex, Fresh
<1>2. \A s \in StorageNo : ~(s < 0)
  BY Storages DEF StorageNo
<1>3. \A s, d \in StorageNo : heads'[s][d] = 0
  BY <1>1 DEF NoHeads, None
<1>4. \A d \in StorageNo : toSend'[d] = 0
  BY <1>1 DEF None
<1>5. 0 .. 0 - 1 = {}
  OBVIOUS
<1>6. \A d \in StorageNo : SumFunctionOnSet(AskedFor(d)', 0 .. k' - 1) = 0
  BY <1>1, <1>5, SumEmpty
<1>. QED BY <1>1, <1>2, <1>3, <1>4, <1>6 DEF Filled

(* init_storages() finds the range of the next storage in the index, and   *)
(* adds its heads.                                                         *)
LEMMA ConnectFills ==
  ASSUME TypeOK, Filled, k \in StorageNo, ConnectStorage
  PROVE  Filled' /\ pc' # "undefined"
<1>. DEFINE r == ranges[k]
            buf == [heads |-> heads[k], toSend |-> toSend]
            b == Group(part, r, buf)
<1>1. /\ part \in Part /\ part \in Seq(Item) /\ ranges = Ranges(part, Range0)
      /\ heads \in [StorageNo -> [StorageNo -> Nat]] /\ toSend \in [StorageNo -> Nat]
      /\ k \in Nat
  <2>1. part \in Part /\ ranges = Ranges(part, Range0)
    BY DEF Filled
  <2>2. part \in Seq(Item)
    BY <2>1, PartsSorted
  <2>3. k \in Nat
    BY Storages DEF StorageNo
  <2>. QED BY <2>1, <2>2, <2>3 DEF TypeOK
<1>2. /\ r \in RangeType /\ r.from <= r.thru /\ r.thru < Len(part) /\ Rising(part, r)
      /\ \A d \in StorageNo : Tally(part, r.from, Last(r), d) = Requested(part, part[1], k, d)
  BY <1>1, RangeOfIndex
<1>3. buf \in Buffers(StorageNo) /\ \A t \in StorageNo : buf.heads[t] = 0 /\ buf.toSend[t] = toSend[t]
  <2>1. ~(k < k)
    BY <1>1
  <2>. QED BY <1>1, <2>1 DEF Filled, Buffers
<1>4. ClosedHeads(StorageNo, part, r.from, buf, Last(r), b)
  <2>1. part \in Seq(StorageNo \X StorageNo) /\ Numbers(StorageNo)
    BY <1>1, Storages DEF Item
  <2>. HIDE DEF r, buf
  <2>. QED BY <1>2, <1>3, <2>1, GroupFound
<1>5. Inside(r)
  BY <1>2 DEF Inside
<1>6. /\ k' = k + 1 /\ pc' # "undefined" /\ UNCHANGED <<part, ranges>>
      /\ heads' = [heads EXCEPT ![k] = b.heads] /\ toSend' = b.toSend
  BY <1>5 DEF ConnectStorage
<1>. HIDE DEF r, buf, b
<1>7. \A t \in StorageNo : /\ b.heads[t] = Requested(part, part[1], k, t)
                           /\ b.toSend[t] = toSend[t] + Requested(part, part[1], k, t)
  BY <1>2, <1>3, <1>4 DEF ClosedHeads
<1>8. ASSUME NEW s \in StorageNo, NEW d \in StorageNo
      PROVE  heads'[s][d] = IF s < k + 1 THEN Requested(part, part[1], s, d) ELSE 0
  <2>1. s \in Int
    BY Storages DEF StorageNo
  <2>2. CASE s = k
    BY <1>1, <1>6, <1>7, <2>2
  <2>3. CASE s # k
    <3>1. heads'[s][d] = heads[s][d] /\ (s < k <=> s < k + 1)
      BY <1>1, <1>6, <2>1, <2>3
    <3>. QED BY <3>1 DEF Filled
  <2>. QED BY <2>2, <2>3
<1>9. ASSUME NEW d \in StorageNo
      PROVE  toSend'[d] = SumFunctionOnSet(AskedFor(d), 0 .. k)
  <2>. DEFINE a == AskedFor(d)
  <2>1. \A i \in StorageNo : a[i] = Requested(part, part[1], i, d) /\ a[i] \in Nat
    BY <1>1, AskedNat DEF AskedFor
  <2>2. /\ 0 .. k - 1 \subseteq StorageNo /\ k \notin 0 .. k - 1
        /\ 0 .. k = (0 .. k - 1) \cup {k} /\ k - 1 \in Int
    BY <1>1, Storages DEF StorageNo
  <2>3. IsFiniteSet(0 .. k - 1)
    BY <2>2, FS_Interval
  <2>. HIDE DEF a
  <2>4. \A i \in 0 .. k - 1 : a[i] \in Int
    BY <2>1, <2>2
  <2>5. SumFunctionOnSet(a, (0 .. k - 1) \cup {k}) = SumFunctionOnSet(a, 0 .. k - 1) + a[k]
    <3>1. a[k] \in Int
      BY <2>1
    <3>. DEFINE S == 0 .. k - 1
    <3>2. IsFiniteSet(S) /\ k \notin S /\ \A i \in S : a[i] \in Int
      BY <2>2, <2>3, <2>4
    <3>. HIDE DEF S
    <3>3. SumFunctionOnSet(a, S \cup {k}) = SumFunctionOnSet(a, S) + a[k]
      BY <3>1, <3>2, SumAdds
    <3>. QED BY <3>3 DEF S
  <2>6. toSend[d] = SumFunctionOnSet(a, 0 .. k - 1)
    BY DEF Filled, a
  <2>7. toSend'[d] = toSend[d] + Requested(part, part[1], k, d)
    BY <1>6, <1>7
  <2>. QED BY <2>1, <2>2, <2>5, <2>6, <2>7 DEF a
<1>10. /\ part' \in Part /\ ranges' = Ranges(part', Range0)
       /\ \A s, d \in StorageNo : heads'[s][d] = IF s < k' THEN Requested(part', part'[1], s, d) ELSE 0
  BY <1>1, <1>6, <1>8
<1>11. \A d \in StorageNo : toSend'[d] = SumFunctionOnSet(AskedFor(d)', 0 .. k' - 1)
  <2>1. k' - 1 = k
    BY <1>1, <1>6
  <2>2. \A d \in StorageNo : AskedFor(d)' = AskedFor(d)
    BY <1>6 DEF AskedFor
  <2>. QED BY <1>9, <2>1, <2>2
<1>. QED BY <1>6, <1>10, <1>11 DEF Filled

LEMMA CleanNext == TypeOK /\ Sockets /\ Clean /\ [Next]_vars => Clean'
<1>. SUFFICES ASSUME TypeOK, Sockets, Clean, [Next]_vars PROVE Clean'
  OBVIOUS
<1>f. UNCHANGED <<ranges, heads, toSend>> /\ Fresh => Fresh'
  BY DEF Fresh
<1>g. UNCHANGED <<k, part, ranges, heads, toSend>> /\ Filled => Filled'
  BY DEF Filled, AskedFor
<1>1. CASE ConnectServer \/ ServerRefuses \/ IndexLost
  BY <1>1, <1>f DEF ConnectServer, ServerRefuses, IndexLost, buffers, Clean
<1>2. ASSUME NEW p \in Part, ReadIndex(p)
      PROVE  Clean'
  <2>1. k = 0 /\ pc = "read" /\ pc' = "storages" /\ dirty' = dirty
    BY <1>2 DEF ReadIndex, Sockets
  <2>2. ~dirty => Filled'
    BY <1>2, <2>1, ReadFills DEF Clean
  <2>. QED BY <2>1, <2>2 DEF Clean
<1>3. CASE ConnectStorage
  <2>1. k \in StorageNo /\ pc = "storages" /\ k' = k + 1 /\ dirty' = dirty
    BY <1>3, Storages DEF ConnectStorage, Sockets, StorageNo
  <2>2. pc' \in {"storages", "starting", "undefined"} /\ (pc' = "starting" => k' = StorageCount)
    BY <1>3, <2>1 DEF ConnectStorage
  <2>3. ~dirty => Filled' /\ pc' # "undefined"
    BY <1>3, <2>1, ConnectFills DEF Clean
  <2>. QED BY <2>1, <2>2, <2>3 DEF Clean
<1>4. CASE StorageFails \/ SetupFails \/ StartFails
  BY <1>4 DEF StorageFails, SetupFails, StartFails, Clean
<1>5. CASE Start
  BY <1>5, <1>g DEF Start, Clean, buffers
<1>6. CASE EndTask
  BY <1>6 DEF EndTask, ClearBuffers, Clean, Fresh
<1>7. CASE Recover \/ Clear
  BY <1>7, <1>f DEF Recover, Clear, buffers, Clean
<1>8. CASE Dies
  BY <1>8 DEF Dies, Clean
<1>9. CASE UNCHANGED vars
  BY <1>9, <1>f, <1>g DEF vars, buffers, Clean
<1>. QED BY <1>1, <1>2, <1>3, <1>4, <1>5, <1>6, <1>7, <1>8, <1>9
     DEF Next, Work, Complete, EndRefused, EndByFault, Wait, Gone

-----------------------------------------------------------------------------
(* What the storages are asked for on behalf of d, after any sessions.     *)

HeadsFor(d) == [i \in StorageNo |-> heads[i][d]]
Backed == \A d \in StorageNo : SumFunctionOnSet(HeadsFor(d), StorageNo) <= toSend[d]

LEMMA StoragesFinite == IsFiniteSet(StorageNo)
<1>1. StorageCount - 1 \in Int /\ 0 \in Int
  BY Storages
<1>. QED BY <1>1, FS_Interval DEF StorageNo

(* x has grown a head from what it was in buf by no more than its to_send. *)
Grown(buf, x) ==
  \A t \in StorageNo : x.heads[t] + buf.toSend[t] <= buf.heads[t] + x.toSend[t]

LEMMA HeadBacked ==
  ASSUME NEW buf \in Buffers(StorageNo), NEW x \in Buffers(StorageNo), Grown(buf, x),
         NEW d \in StorageNo, NEW n \in Nat
  PROVE  Grown(buf, AddHead(x, d, n))
<1>1. ASSUME NEW t \in StorageNo
      PROVE  AddHead(x, d, n).heads[t] + buf.toSend[t]
               <= buf.heads[t] + AddHead(x, d, n).toSend[t]
  <2>1. /\ x.heads[t] \in Nat /\ x.toSend[t] \in Nat
        /\ buf.heads[t] \in Nat /\ buf.toSend[t] \in Nat
        /\ x.heads \in [StorageNo -> Nat] /\ x.toSend \in [StorageNo -> Nat]
    BY DEF Buffers
  <2>2. x.heads[t] + buf.toSend[t] <= buf.heads[t] + x.toSend[t]
    BY DEF Grown
  <2>3. CASE t = d
    <3>1. AddHead(x, d, n).heads[t] = n /\ AddHead(x, d, n).toSend[t] = x.toSend[t] + n
      BY <2>1, <2>3 DEF AddHead
    <3>. QED BY <2>1, <2>2, <3>1
  <2>4. CASE t # d
    <3>1. AddHead(x, d, n).heads[t] = x.heads[t] /\ AddHead(x, d, n).toSend[t] = x.toSend[t]
      BY <2>1, <2>4 DEF AddHead
    <3>. QED BY <2>2, <3>1
  <2>. QED BY <2>3, <2>4
<1>. QED BY <1>1 DEF Grown

LEMMA TurnBacked ==
  ASSUME NEW p \in Seq(StorageNo \X StorageNo), NEW range \in RangeType, Covered(p, range),
         NEW buf \in Buffers(StorageNo), NEW m \in 1 .. Last(range),
         NEW x \in GroupState(StorageNo), Grown(buf, x.buf)
  PROVE  Grown(buf, GroupTurn(p, range, m, x).buf)
<1>. DEFINE d == p[range.from + m][2]
            changed == m > 1 /\ d # x.cur
            b == IF changed THEN AddHead(x.buf, x.cur, x.n) ELSE x.buf
            n == IF changed THEN 1 ELSE x.n + 1
<1>1. d \in StorageNo /\ x.buf \in Buffers(StorageNo) /\ x.cur \in StorageNo /\ x.n \in Nat
  BY DEF Covered, GroupState
<1>2. b \in Buffers(StorageNo) /\ n \in Nat /\ Grown(buf, b)
  <2>1. /\ AddHead(x.buf, x.cur, x.n) \in Buffers(StorageNo)
        /\ Grown(buf, AddHead(x.buf, x.cur, x.n))
    BY <1>1, Storages, AddHeadType, HeadBacked
  <2>2. x.n + 1 \in Nat
    BY <1>1
  <2>. QED BY <1>1, <2>1, <2>2
<1>3. GroupTurn(p, range, m, x) =
        IF m = Last(range) THEN [buf |-> AddHead(b, d, n), cur |-> d, n |-> 0]
        ELSE [buf |-> b, cur |-> d, n |-> n]
  BY DEF GroupTurn
<1>. HIDE DEF d, b, n
<1>4. Grown(buf, AddHead(b, d, n))
  BY <1>1, <1>2, HeadBacked
<1>. QED BY <1>2, <1>3, <1>4

(* The heads of a range ask for no more than they add to to_send.          *)
LEMMA GroupBacked ==
  ASSUME NEW p \in Seq(StorageNo \X StorageNo), NEW range \in RangeType,
         range.from > range.thru \/ range.thru < Len(p),
         NEW buf \in Buffers(StorageNo)
  PROVE  Grown(buf, Group(p, range, buf))
<1>1. range.from \in Nat /\ range.thru \in Nat
  BY DEF RangeType
<1>2. Grown(buf, buf)
  BY DEF Grown, Buffers
<1>3. CASE Last(range) < 1
  BY <1>2, <1>3, GroupsTurns
<1>4. CASE ~(Last(range) < 1)
  <2>. DEFINE last == Last(range)
              f == GroupTurns(p, range, buf)
              S == {m \in 0 .. last : Grown(buf, f[m].buf)}
  <2>1. last \in Nat /\ Covered(p, range)
    BY <1>1, <1>4 DEF Last, Covered
  <2>2. /\ f \in [0 .. last -> GroupState(StorageNo)] /\ f[0] = GroupStart(buf)
        /\ \A m \in 1 .. last : f[m] = GroupTurn(p, range, m, f[m - 1])
    BY <2>1, Storages, GroupStates
  <2>3. 0 \in S
    BY <1>2, <2>1, <2>2 DEF GroupStart
  <2>4. ASSUME NEW m \in 1 .. last, m - 1 \in S
        PROVE  m \in S
    <3>1. m - 1 \in 0 .. last /\ m \in 0 .. last
      BY <2>1
    <3>2. f[m - 1] \in GroupState(StorageNo) /\ Grown(buf, f[m - 1].buf)
      <4>. HIDE DEF f, last
      <4>. QED BY <2>2, <2>4, <3>1
    <3>3. Grown(buf, GroupTurn(p, range, m, f[m - 1]).buf)
      BY <2>1, <3>2, TurnBacked
    <3>. QED BY <2>2, <3>1, <3>3
  <2>5. S \subseteq 0 .. last
    OBVIOUS
  <2>6. S = 0 .. last
    <3>. HIDE DEF S, last
    <3>. QED BY <2>1, <2>3, <2>4, <2>5, LoopKeeps
  <2>7. Grown(buf, f[last].buf)
    BY <2>1, <2>6
  <2>. QED BY <1>4, <2>7, GroupsTurns
<1>. QED BY <1>3, <1>4

LEMMA BackedInit == Init => Backed
<1>. SUFFICES ASSUME Init, NEW d \in StorageNo
              PROVE  SumFunctionOnSet(HeadsFor(d), StorageNo) <= toSend[d]
  BY DEF Backed
<1>1. \A i \in StorageNo : HeadsFor(d)[i] = 0
  BY DEF HeadsFor, Init, NoHeads, None
<1>2. SumFunctionOnSet(HeadsFor(d), StorageNo) = 0
  BY <1>1, StoragesFinite, SumZero
<1>. QED BY <1>2 DEF Init, None

LEMMA ConnectBacked ==
  ASSUME TypeOK, Backed, k \in StorageNo, ConnectStorage
  PROVE  Backed'
<1>. DEFINE r == ranges[k]
            buf == [heads |-> heads[k], toSend |-> toSend]
            b == Group(part, r, buf)
<1>1. CASE ~Inside(r)
  <2>1. heads' = heads /\ toSend' = toSend
    BY <1>1 DEF ConnectStorage
  <2>. QED BY <2>1 DEF Backed, HeadsFor
<1>2. CASE Inside(r)
  <2>1. heads' = [heads EXCEPT ![k] = b.heads] /\ toSend' = b.toSend
    BY <1>2 DEF ConnectStorage
  <2>2. /\ part \in Seq(StorageNo \X StorageNo) /\ r \in RangeType
        /\ heads \in [StorageNo -> [StorageNo -> Nat]] /\ toSend \in [StorageNo -> Nat]
        /\ r.from > r.thru \/ r.thru < Len(part)
    <3>1. part \in Part \/ part = <<>>
      BY DEF TypeOK
    <3>2. part \in Seq(Item)
      <4>1. Part \subseteq Seq(Item) /\ <<>> \in Seq(Item)
        BY SessionAssumption
      <4>. QED BY <3>1, <4>1
    <3>. QED BY <1>2, <3>2 DEF TypeOK, RangeType, Inside, Item
  <2>3. buf \in Buffers(StorageNo)
    BY <2>2 DEF Buffers
  <2>. HIDE DEF r, buf
  <2>4. b \in Buffers(StorageNo) /\ Grown(buf, b)
    BY <2>2, <2>3, Storages, GroupType, GroupBacked
  <2>5. buf.heads = heads[k] /\ buf.toSend = toSend
    BY DEF buf
  <2>. HIDE DEF b
  <2>6. ASSUME NEW d \in StorageNo
        PROVE  SumFunctionOnSet(HeadsFor(d)', StorageNo) <= toSend'[d]
    <3>. DEFINE f == HeadsFor(d)
                g == HeadsFor(d)'
    <3>1. /\ b.heads[d] \in Nat /\ b.toSend[d] \in Nat
          /\ heads[k][d] \in Nat /\ toSend[d] \in Nat
          /\ b.heads[d] + toSend[d] <= heads[k][d] + b.toSend[d]
      BY <2>2, <2>4, <2>5 DEF Buffers, Grown
    <3>2. /\ \A i \in StorageNo : f[i] \in Int
          /\ f[k] = heads[k][d]
      BY <2>2 DEF HeadsFor
    <3>3. /\ \A i \in StorageNo \ {k} : g[i] = f[i]
          /\ g[k] = b.heads[d]
      BY <2>1, <2>2 DEF HeadsFor
    <3>. HIDE DEF f, g
    <3>4. SumFunctionOnSet(g, StorageNo) = SumFunctionOnSet(f, StorageNo) + (g[k] - f[k])
      <4>1. g[k] \in Int
        BY <3>1, <3>3
      <4>. QED BY <3>2, <3>3, <4>1, StoragesFinite, SumChanges
    <3>5. SumFunctionOnSet(f, StorageNo) \in Int
      BY <3>2, StoragesFinite, SumType
    <3>6. SumFunctionOnSet(f, StorageNo) <= toSend[d]
      BY DEF Backed, f
    <3>7. SumFunctionOnSet(g, StorageNo) <= b.toSend[d]
      BY <3>1, <3>2, <3>3, <3>4, <3>5, <3>6
    <3>. QED BY <2>1, <3>7 DEF g
  <2>. QED BY <2>6 DEF Backed
<1>. QED BY <1>1, <1>2

LEMMA BackedNext == TypeOK /\ Sockets /\ Backed /\ [Next]_vars => Backed'
<1>. SUFFICES ASSUME TypeOK, Sockets, Backed, [Next]_vars PROVE Backed'
  OBVIOUS
<1>1. CASE UNCHANGED <<heads, toSend>>
  BY <1>1 DEF Backed, HeadsFor
<1>2. CASE ConnectStorage
  <2>1. k \in StorageNo
    BY <1>2, Storages DEF ConnectStorage, Sockets, StorageNo
  <2>. QED BY <1>2, <2>1, ConnectBacked
<1>3. CASE EndTask
  <2>1. heads' = NoHeads /\ toSend' = None
    BY <1>3 DEF EndTask, ClearBuffers
  <2>2. ASSUME NEW d \in StorageNo
        PROVE  SumFunctionOnSet(HeadsFor(d)', StorageNo) <= toSend'[d]
    <3>1. \A i \in StorageNo : HeadsFor(d)'[i] = 0
      BY <2>1 DEF HeadsFor, NoHeads, None
    <3>2. SumFunctionOnSet(HeadsFor(d)', StorageNo) = 0
      BY <3>1, StoragesFinite, SumZero
    <3>. QED BY <2>1, <3>2 DEF None
  <2>. QED BY <2>2 DEF Backed
<1>. QED BY <1>1, <1>2, <1>3
     DEF Next, Work, ConnectServer, ServerRefuses, ReadIndex, IndexLost, StorageFails,
         SetupFails, Start, StartFails, Complete, EndRefused, EndByFault, Recover, Dies,
         Clear, Wait, Gone, vars, buffers

LEMMA CleanAsks == Clean /\ Backed => AsksForIndex
<1>. SUFFICES ASSUME Clean, Backed, ~dirty, pc \in {"starting", "data"},
                     NEW s \in StorageNo, NEW d \in StorageNo
              PROVE  /\ heads[s][d] = Requested(part, part[1], s, d)
                     /\ ranges[s].count = ItemsFrom(part, s)
                     /\ toSend[d] = SumFunctionOnSet(AskedFor(d), StorageNo)
  BY DEF AsksForIndex, Clean, Backed, AskedFor, HeadsFor
<1>1. Filled /\ k = StorageCount
  BY DEF Clean
<1>2. s < k /\ 0 .. k - 1 = StorageNo
  BY <1>1, Storages DEF StorageNo
<1>3. ranges[s].count = ItemsFrom(part, s)
  BY <1>1, RangeOfIndex DEF Filled
<1>. QED BY <1>1, <1>2, <1>3 DEF Filled

(* However many sessions have run and however they have ended, no storage  *)
(* is asked for more on behalf of another than that one has to be sent     *)
(* before the session is over, and a session that no failed one has left   *)
(* anything to asks each storage for exactly the items of its index, waits *)
(* for exactly those, and never reads past it: what read_index_data() and  *)
(* init_storages() of idg_client.c (168-198, 442-463) make of every part   *)
(* of an index, and what the end of a data phase clears (605-610).         *)
THEOREM IndexAskedFor == Spec => []AsksForIndex
<1>1. Init => TypeOK /\ Sockets /\ Clean /\ Backed
  BY SessionTypeInit, SocketsInit, CleanInit, BackedInit
<1>2. (TypeOK /\ Sockets /\ Clean /\ Backed) /\ [Next]_vars
        => (TypeOK /\ Sockets /\ Clean /\ Backed)'
  BY SessionTypeNext, SocketsNext, CleanNext, BackedNext
<1>3. Clean /\ Backed => AsksForIndex
  BY CleanAsks
<1>. QED BY <1>1, <1>2, <1>3, PTL DEF Spec

=============================================================================
