--------------------------- MODULE IdgServerProofs ---------------------------
(***************************************************************************)
(* Proofs about the server: the barrier before the start command, the life *)
(* of the index buffer and what becomes of the reports of the clients, for *)
(* any number of clients and sessions and any number of faults.            *)
(***************************************************************************)
EXTENDS IdgServer, FiniteSetTheorems, SequenceTheorems, TLAPS

(* The slots whose thread has not counted down sending_count: the threads  *)
(* that failed before they got there have left it, the ones to come are    *)
(* in it.                                                                  *)
Early == {"none", "head", "items", "wait", "count"}
NotYet == {i \in Slot : tpc[i] \in Early}

(* A start command is on its way, or has been followed.                    *)
GoOut ==
  \E x \in Session : cpc[x] = "work"
                     \/ \E k \in DOMAIN toClient[x] : toClient[x][k] = "go"

(* sending_count is an upper bound of the threads yet to count down, and   *)
(* whoever is past the barrier has seen it at 0.                           *)
Count ==
  /\ Cardinality(NotYet) <= sendingCount
  /\ sendingCount = 0 => spawned = ClientCount
  /\ freed => sendingCount = 0
  /\ \A i \in Slot : tpc[i] \in {"start", "progress"} => sendingCount = 0
  /\ GoOut => sendingCount = 0

(* main() creates the threads in order, and they end with it.              *)
Threads ==
  /\ ServerEnded => \A i \in Slot : tpc[i] = "exit"
  /\ ~ServerEnded => \A i \in Slot : tpc[i] = "none" <=> i >= spawned
  /\ mpc \in {"accept", "index"} => spawned = 0
  /\ mpc = "spawn" => spawned < ClientCount
  /\ mpc \in {"initwait", "monitor"} => spawned = ClientCount

(* A thread past its first send has a connection; finish_count counts the  *)
(* pass so far.                                                            *)
Slots ==
  /\ \A i \in Slot : tpc[i] \notin {"none", "head", "exit"} => slot[i] \in Session
  /\ finished <= scan

IInv == TypeOK /\ Count /\ Threads /\ Slots

-----------------------------------------------------------------------------
(* The slots that are in NotYet are finitely many; one less after a count  *)
(* down, and not more when no thread enters Early.                         *)
LEMMA SlotFacts ==
  /\ Slot \subseteq Int /\ IsFiniteSet(Slot) /\ Cardinality(Slot) = ClientCount
  /\ ClientCount - 1 \in Slot /\ 0 \in Slot
  /\ \A i \in Slot : 0 <= i /\ i < ClientCount
<1>1. ClientCount \in Nat /\ ClientCount > 0
  BY ServerAssumption
<1> QED
  BY <1>1, FS_Interval DEF Slot

(* What a client is asked for.                                             *)
LEMMA AskedFacts == Asked \in Nat /\ Items \in 0 .. Asked
BY ServerAssumption DEF Asked

(* Cardinality on sets of slots.                                           *)
LEMMA CardinalityFacts ==
  /\ \A A, B \in SUBSET Slot :
       /\ Cardinality(A) \in Nat
       /\ A \subseteq B => Cardinality(A) <= Cardinality(B)
       /\ Cardinality(A) = 0 => A = {}
  /\ \A A \in SUBSET Slot : \A i \in A : Cardinality(A \ {i}) = Cardinality(A) - 1
<1>1. \A A \in SUBSET Slot : IsFiniteSet(A)
  BY SlotFacts, FS_Subset
<1>2. ASSUME NEW A \in SUBSET Slot, NEW B \in SUBSET Slot
      PROVE  /\ Cardinality(A) \in Nat
             /\ A \subseteq B => Cardinality(A) <= Cardinality(B)
             /\ Cardinality(A) = 0 => A = {}
  <2>1. Cardinality(A) \in Nat
    BY <1>1, FS_CardinalityType
  <2>2. A \subseteq B => Cardinality(A) <= Cardinality(B)
    BY <1>1, FS_Subset
  <2>3. Cardinality(A) = 0 => A = {}
    BY <1>1, FS_EmptySet
  <2> QED
    BY <2>1, <2>2, <2>3
<1>3. ASSUME NEW A \in SUBSET Slot, NEW i \in A
      PROVE  Cardinality(A \ {i}) = Cardinality(A) - 1
  BY <1>1, FS_RemoveElement
<1> QED
  BY <1>2, <1>3

(* The server starts with every thread to come and the count at its top.   *)
LEMMA InitInv == Init => IInv
<1> SUFFICES ASSUME Init PROVE IInv
  OBVIOUS
<1>1. TypeOK
  <2>1. /\ ClientCount \in 0 .. ClientCount /\ 0 \in 0 .. ClientCount
        /\ 0 \in 0 .. Asked /\ 0 \in -2 .. Asked /\ MaxFaults \in Nat
    BY ServerAssumption, AskedFacts
  <2>2. \A S : <<>> \in Seq(S)
    OBVIOUS
  <2> QED
    BY <2>1, <2>2 DEF Init, TypeOK, MainPC, ThreadPC, ClientPC
<1>2. Count
  <2>1. ClientCount \in Nat /\ ClientCount > 0
    BY ServerAssumption
  <2>2. Cardinality(NotYet) <= ClientCount
    <3>1. NotYet \in SUBSET Slot /\ Slot \in SUBSET Slot
      BY DEF NotYet
    <3> QED
      BY <3>1, CardinalityFacts, SlotFacts
  <2>3. ~GoOut
    BY DEF Init, GoOut
  <2> QED
    BY <2>1, <2>2, <2>3 DEF Init, Count
<1>3. Threads /\ Slots
  BY SlotFacts DEF Init, Threads, Slots, ServerEnded
<1> QED
  BY <1>1, <1>2, <1>3 DEF IInv

-----------------------------------------------------------------------------
(* What the actions do to the barrier.                                     *)

Quiet == UNCHANGED <<mpc, spawned, tpc, sendingCount, freed>>

(* The bound of the count survives when no thread enters Early.            *)
LEMMA FewerEarly ==
  ASSUME TypeOK, Count, NotYet' \subseteq NotYet, UNCHANGED sendingCount
  PROVE  Cardinality(NotYet') <= sendingCount'
<1>1. NotYet \in SUBSET Slot /\ NotYet' \in SUBSET Slot
  BY DEF NotYet
<1>2. /\ Cardinality(NotYet) \in Nat /\ Cardinality(NotYet') \in Nat
      /\ Cardinality(NotYet') <= Cardinality(NotYet)
  BY <1>1, CardinalityFacts
<1>3. sendingCount \in Nat
  BY ServerAssumption DEF TypeOK
<1>4. Cardinality(NotYet) <= sendingCount
  BY DEF Count
<1> QED
  BY <1>2, <1>3, <1>4

(* A step that leaves main(), the threads and the count alone.             *)
LEMMA QuietStep ==
  ASSUME Count, Threads, Quiet, GoOut' => GoOut
  PROVE  Count' /\ Threads'
<1>1. NotYet' = NotYet
  BY DEF Quiet, NotYet
<1>2. Count'
  BY <1>1 DEF Count, Quiet
<1>3. Threads'
  BY DEF Threads, Quiet, ServerEnded
<1> QED
  BY <1>2, <1>3

(* The end of the server ends the threads.                                 *)
LEMMA ExitStep ==
  ASSUME TypeOK, Count, Threads, GoOut' => GoOut,
         NEW how \in {"complete", "error", "failed", "killed"},
         ServerExit(how), UNCHANGED <<spawned, sendingCount, freed>>
  PROVE  Count' /\ Threads'
<1>1. NotYet' \subseteq NotYet
  BY DEF NotYet, ServerExit, Early
<1>2. Cardinality(NotYet') <= sendingCount'
  BY <1>1, FewerEarly
<1>3. Count'
  BY <1>2 DEF Count, ServerExit
<1>4. Threads'
  BY DEF Threads, ServerExit, ServerEnded
<1> QED
  BY <1>3, <1>4

(* A thread goes on to p without counting down.                            *)
LEMMA MoveStep ==
  ASSUME TypeOK, Count, Threads, NEW i \in Slot, NEW p \in ThreadPC \ {"none"},
         tpc[i] \notin {"none", "exit"},
         tpc' = [tpc EXCEPT ![i] = p],
         p \in Early => tpc[i] \in Early,
         p \in {"start", "progress"} => sendingCount = 0,
         GoOut' => GoOut \/ sendingCount = 0,
         UNCHANGED <<mpc, spawned, sendingCount, freed>>
  PROVE  Count' /\ Threads'
<1>1. \A j \in Slot : tpc'[j] = IF j = i THEN p ELSE tpc[j]
  BY DEF TypeOK
<1>2. NotYet' \subseteq NotYet
  BY <1>1 DEF NotYet
<1>3. Cardinality(NotYet') <= sendingCount'
  BY <1>2, FewerEarly
<1>4. Count'
  BY <1>1, <1>3 DEF Count
<1>5. Threads'
  BY <1>1 DEF Threads, ServerEnded
<1> QED
  BY <1>4, <1>5

(* A thread counts down: the one that gets to 0 is the last of all.        *)
LEMMA CountStep ==
  ASSUME IInv, NEW i \in Slot, CountDown(i)
  PROVE  /\ sendingCount' \in 0 .. ClientCount
         /\ Count' /\ Threads'
<1> USE DEF IInv
<1>1. \A j \in Slot : tpc'[j] = IF j = i THEN "barrier" ELSE tpc[j]
  BY DEF TypeOK, CountDown
<1>2. /\ tpc[i] = "count" /\ sendingCount' = sendingCount - 1
      /\ UNCHANGED <<mpc, spawned, cpc, toClient>>
  BY DEF CountDown, clientVars, netVars
<1>3. i \in NotYet /\ NotYet' = NotYet \ {i} /\ NotYet \in SUBSET Slot
  BY <1>1, <1>2 DEF NotYet, Early
<1>4. /\ Cardinality(NotYet') = Cardinality(NotYet) - 1
      /\ Cardinality(NotYet') \in Nat /\ Cardinality(NotYet) \in Nat
  BY <1>3, CardinalityFacts
<1>5. /\ sendingCount \in 1 .. ClientCount
      /\ Cardinality(NotYet') <= sendingCount'
  BY <1>2, <1>4, ServerAssumption DEF Count, TypeOK
<1>6. Threads'
  BY <1>1, <1>2 DEF Threads, ServerEnded
<1>7. ASSUME sendingCount' = 0 PROVE spawned' = ClientCount
  <2>1. NotYet' = {}
    BY <1>3, <1>4, <1>5, <1>7, CardinalityFacts
  <2>2. \A j \in Slot : tpc'[j] # "none"
    BY <2>1 DEF NotYet, Early
  <2>3. ~ServerEnded
    BY <1>2 DEF Threads
  <2>4. ~(ClientCount - 1 >= spawned')
    BY <1>2, <2>2, <2>3, <1>6, SlotFacts DEF Threads, ServerEnded
  <2> QED
    BY <1>2, <2>4, ServerAssumption DEF TypeOK
<1>8. freed' => sendingCount' = 0
  BY <1>2, <1>5 DEF CountDown, Freed, Count, TypeOK
<1>9. ~GoOut'
  BY <1>2, <1>5 DEF Count, GoOut
<1>10. \A j \in Slot : tpc'[j] \notin {"start", "progress"}
  BY <1>1, <1>5 DEF Count
<1>11. Count'
  BY <1>5, <1>7, <1>8, <1>9, <1>10 DEF Count
<1>12. sendingCount' \in 0 .. ClientCount
  BY <1>2, <1>5, ServerAssumption
<1> QED
  BY <1>6, <1>11, <1>12

-----------------------------------------------------------------------------
(* What the actions do to the types.                                       *)

Item == {"head", "items", "go"}
ProgressMessage == [state : {Go, Normal, Failed}, count : 0 .. Asked]

(* A thread's pc and its progress keep their types when one is set.        *)
LEMMA ThreadUpdates ==
  ASSUME TypeOK, NEW i \in Slot
  PROVE  /\ \A p \in ThreadPC : [tpc EXCEPT ![i] = p] \in [Slot -> ThreadPC]
         /\ \A n \in -2 .. Asked : [progress EXCEPT ![i] = n] \in [Slot -> -2 .. Asked]
BY DEF TypeOK

(* So do the two ends of a connection and the pc of a client.              *)
LEMMA SessionUpdates ==
  ASSUME TypeOK, NEW x \in Session
  PROVE  /\ \A b \in BOOLEAN : [sopen EXCEPT ![x] = b] \in [Session -> BOOLEAN]
         /\ \A b \in BOOLEAN : [copen EXCEPT ![x] = b] \in [Session -> BOOLEAN]
         /\ \A p \in ClientPC : [cpc EXCEPT ![x] = p] \in [Session -> ClientPC]
BY DEF TypeOK

(* So do the streams when a message is added, taken or lost.               *)
LEMMA StreamUpdates ==
  ASSUME TypeOK, NEW x \in Session
  PROVE  /\ \A d \in Item :
              [toClient EXCEPT ![x] = Append(@, d)] \in [Session -> Seq(Item)]
         /\ toClient[x] # <<>> =>
              [toClient EXCEPT ![x] = Tail(@)] \in [Session -> Seq(Item)]
         /\ \A m \in ProgressMessage :
              [toServer EXCEPT ![x] = Append(@, m)] \in [Session -> Seq(ProgressMessage)]
         /\ toServer[x] # <<>> =>
              /\ [toServer EXCEPT ![x] = Tail(@)] \in [Session -> Seq(ProgressMessage)]
              /\ Head(toServer[x]).count \in 0 .. Asked
         /\ Len(toServer[x]) \in Nat
         /\ \A n \in 0 .. Len(toServer[x]) :
              [toServer EXCEPT ![x] = SubSeq(@, 1, n)] \in [Session -> Seq(ProgressMessage)]
<1>1. /\ toClient \in [Session -> Seq(Item)]
      /\ toServer \in [Session -> Seq(ProgressMessage)]
  BY DEF TypeOK, Item, ProgressMessage
<1>2. toClient[x] \in Seq(Item) /\ toServer[x] \in Seq(ProgressMessage)
  BY <1>1
<1>3. \A d \in Item : Append(toClient[x], d) \in Seq(Item)
  BY <1>2
<1>4. toClient[x] # <<>> => Tail(toClient[x]) \in Seq(Item)
  BY <1>2
<1>5. \A m \in ProgressMessage : Append(toServer[x], m) \in Seq(ProgressMessage)
  BY <1>2
<1>6. toServer[x] # <<>> => /\ Tail(toServer[x]) \in Seq(ProgressMessage)
                            /\ Head(toServer[x]) \in ProgressMessage
  BY <1>2
<1>7. /\ Len(toServer[x]) \in Nat
      /\ \A n \in 0 .. Len(toServer[x]) : SubSeq(toServer[x], 1, n) \in Seq(ProgressMessage)
  BY <1>2
<1>8. \A m \in ProgressMessage : m.count \in 0 .. Asked
  BY DEF ProgressMessage
<1> QED
  BY <1>1, <1>3, <1>4, <1>5, <1>6, <1>7, <1>8

(* The end of the server keeps the types.                                  *)
LEMMA ExitTypes ==
  ASSUME NEW how \in {"complete", "error", "failed", "killed"}, ServerExit(how)
  PROVE  /\ mpc' \in MainPC /\ tpc' \in [Slot -> ThreadPC]
         /\ sopen' \in [Session -> BOOLEAN] /\ backlog' \in SUBSET Session
BY DEF ServerExit, MainPC, ThreadPC

(* A thread past its first send has a connection.                          *)
LEMMA Connected ==
  ASSUME IInv, NEW i \in Slot, tpc[i] \notin {"none", "head", "exit"}
  PROVE  slot[i] \in Session
BY DEF IInv, Slots

-----------------------------------------------------------------------------
(* main() of the server keeps the invariant.                               *)

(* wait_for_clients: the last slot is filled when the index is read.       *)
LEMMA AcceptInv == IInv /\ Accept => IInv'
<1> SUFFICES ASSUME IInv, Accept PROVE IInv'
  OBVIOUS
<1> USE DEF IInv
<1>1. PICK x \in backlog, i \in Slot :
        /\ \A j \in 0 .. i - 1 : slot[j] # NoSession
        /\ slot' = [slot EXCEPT ![i] = x]
        /\ IF i = ClientCount - 1
           THEN /\ mpc' = "index"
                /\ sopen' = [y \in Session |-> sopen[y] /\ y \notin backlog \ {x}]
                /\ backlog' = {}
           ELSE /\ backlog' = backlog \ {x}
                /\ UNCHANGED <<mpc, sopen>>
  BY DEF Accept
<1>2. /\ mpc = "accept"
      /\ UNCHANGED <<spawned, tpc, progress, sendingCount, freed, scan, finished,
                     hasError, cpc, sent, copen, toClient, toServer, faults>>
  BY DEF Accept, clientVars
<1>3. x \in Session /\ slot' \in [Slot -> Session \cup {NoSession}]
  BY <1>1 DEF TypeOK
<1>4. mpc' \in MainPC /\ sopen' \in [Session -> BOOLEAN] /\ backlog' \in SUBSET Session
  BY <1>1 DEF TypeOK, MainPC
<1>5. TypeOK'
  BY <1>2, <1>3, <1>4 DEF TypeOK
<1>6. NotYet' = NotYet /\ GoOut' = GoOut
  BY <1>2 DEF NotYet, GoOut
<1>7. Count'
  BY <1>2, <1>6 DEF Count
<1>8. mpc' \in {"accept", "index"}
  BY <1>1, <1>2
<1>9. Threads'
  BY <1>2, <1>8 DEF Threads, ServerEnded
<1>10. \A j \in Slot : tpc[j] = "none"
  BY <1>2, SlotFacts DEF Threads, ServerEnded
<1>11. Slots'
  BY <1>2, <1>10 DEF Slots
<1> QED
  BY <1>5, <1>7, <1>9, <1>11

(* wait_for_clients: the loop ends early.                                  *)
LEMMA AcceptNothingInv == IInv /\ AcceptNothing => IInv'
<1> SUFFICES ASSUME IInv, AcceptNothing PROVE IInv'
  OBVIOUS
<1> USE DEF IInv
<1>1. /\ mpc = "accept" /\ mpc' = "index" /\ backlog' = {} /\ faults' \in Nat
      /\ sopen' = [y \in Session |-> sopen[y] /\ y \notin backlog]
      /\ UNCHANGED <<slot, spawned, tpc, progress, sendingCount, freed, scan,
                     finished, hasError, cpc, sent, copen, toClient, toServer>>
  BY DEF AcceptNothing, TakeFault, clientVars, TypeOK
<1>2. TypeOK'
  BY <1>1 DEF TypeOK, MainPC
<1>3. NotYet' = NotYet /\ GoOut' = GoOut
  BY <1>1 DEF NotYet, GoOut
<1>4. Count'
  BY <1>1, <1>3 DEF Count
<1>5. Threads' /\ Slots'
  BY <1>1 DEF Threads, Slots, ServerEnded
<1> QED
  BY <1>2, <1>4, <1>5

(* exit(-1) before the threads exist.                                      *)
LEMMA ServerGivesUpInv == IInv /\ ServerGivesUp => IInv'
<1> SUFFICES ASSUME IInv, ServerGivesUp PROVE IInv'
  OBVIOUS
<1> USE DEF IInv
<1>1. /\ ServerExit("failed") /\ faults' \in Nat
      /\ UNCHANGED <<slot, spawned, progress, sendingCount, freed, scan,
                     finished, hasError, cpc, sent, copen, toClient, toServer>>
  BY DEF ServerGivesUp, TakeFault, clientVars, TypeOK
<1>2. TypeOK'
  BY <1>1, ExitTypes DEF TypeOK
<1>3. GoOut' = GoOut
  BY <1>1 DEF GoOut
<1>4. Count' /\ Threads'
  BY <1>1, <1>3, ExitStep
<1>5. Slots'
  BY <1>1 DEF Slots, ServerExit
<1> QED
  BY <1>2, <1>4, <1>5

(* The steps of main() that change no thread.                              *)
LEMMA MainStep ==
  ASSUME IInv,
         UNCHANGED <<slot, spawned, tpc, progress, sendingCount, freed,
                     clientVars, netVars, faults>>,
         mpc' \in MainPC, mpc \notin {"accept"}, ~ServerEnded, ~ServerEnded',
         mpc' \notin {"accept", "index"},
         mpc' = "spawn" => spawned < ClientCount,
         mpc' \in {"initwait", "monitor"} => spawned = ClientCount,
         hasError' \in BOOLEAN, scan' \in 0 .. ClientCount,
         finished' \in 0 .. scan'
  PROVE  IInv'
<1> USE DEF IInv
<1>1. finished' \in 0 .. ClientCount /\ finished' <= scan'
  BY ServerAssumption
<1>2. TypeOK'
  BY <1>1 DEF TypeOK, clientVars, netVars
<1>3. NotYet' = NotYet /\ GoOut' = GoOut
  BY DEF NotYet, GoOut, clientVars, netVars
<1>4. Count'
  BY <1>3 DEF Count
<1>5. Threads'
  BY DEF Threads, ServerEnded
<1>6. Slots'
  BY <1>1 DEF Slots
<1> QED
  BY <1>2, <1>4, <1>5, <1>6

(* wait_for_computing creates thread i for slot i.                         *)
LEMMA SpawnInv == IInv /\ Spawn => IInv'
<1> SUFFICES ASSUME IInv, Spawn PROVE IInv'
  OBVIOUS
<1> USE DEF IInv
<1>1. /\ mpc = "spawn" /\ spawned < ClientCount /\ spawned \in Nat
      /\ spawned' = spawned + 1
      /\ mpc' = IF spawned = ClientCount - 1 THEN "initwait" ELSE "spawn"
      /\ UNCHANGED <<slot, progress, sendingCount, freed, scan, finished,
                     hasError, cpc, sent, backlog, copen, sopen, toClient,
                     toServer, faults>>
  BY ServerAssumption DEF Spawn, Threads, TypeOK, clientVars, netVars
<1>2. spawned \in Slot
  BY <1>1, ServerAssumption DEF Slot
<1>3. /\ tpc' \in [Slot -> ThreadPC]
      /\ \A i \in Slot : tpc'[i] = IF i = spawned THEN "head" ELSE tpc[i]
  BY <1>2, ThreadUpdates DEF Spawn, TypeOK, ThreadPC
<1>4. ~ServerEnded /\ ~ServerEnded' /\ mpc' \in MainPC /\ spawned' \in 0 .. ClientCount
  BY <1>1, ServerAssumption DEF ServerEnded, MainPC
<1>5. TypeOK'
  BY <1>1, <1>3, <1>4 DEF TypeOK
<1>6. tpc[spawned] = "none"
  BY <1>1, <1>2, <1>4 DEF Threads
<1>7. NotYet' = NotYet /\ GoOut' = GoOut
  BY <1>1, <1>3, <1>6 DEF NotYet, GoOut, Early
<1>8. sendingCount # 0
  BY <1>1 DEF Count
<1>9. Count'
  BY <1>1, <1>3, <1>7, <1>8 DEF Count
<1>10. \A i \in Slot : tpc'[i] = "none" <=> i >= spawned'
  BY <1>1, <1>3, <1>4, SlotFacts DEF Threads
<1>11. Threads'
  BY <1>1, <1>4, <1>10, ServerAssumption DEF Threads
<1>12. Slots'
  BY <1>1, <1>3 DEF Slots
<1> QED
  BY <1>5, <1>9, <1>11, <1>12

(* The end of the progress loop.                                           *)
LEMMA FinishInv == IInv /\ Finish => IInv'
<1> SUFFICES ASSUME IInv, Finish PROVE IInv'
  OBVIOUS
<1> USE DEF IInv
<1>1. PICK how \in {"complete", "error"} : ServerExit(how)
  BY DEF Finish
<1>2. UNCHANGED <<slot, spawned, progress, sendingCount, freed, scan, finished,
                  hasError, cpc, sent, copen, toClient, toServer, faults>>
  BY DEF Finish, clientVars
<1>3. TypeOK'
  BY <1>1, <1>2, ExitTypes DEF TypeOK
<1>4. GoOut' = GoOut
  BY <1>2 DEF GoOut
<1>5. Count' /\ Threads'
  BY <1>1, <1>2, <1>4, ExitStep
<1>6. Slots'
  BY <1>1, <1>2 DEF Slots, ServerExit
<1> QED
  BY <1>3, <1>5, <1>6

(* All steps of main().                                                    *)
LEMMA MainInv == IInv /\ Main => IInv'
<1> SUFFICES ASSUME IInv, Main PROVE IInv'
  OBVIOUS
<1>1. /\ ClientCount \in Nat \ {0} /\ spawned \in Nat
      /\ hasError \in BOOLEAN /\ scan \in 0 .. ClientCount
      /\ finished \in 0 .. scan
  BY ServerAssumption DEF IInv, TypeOK, Slots
<1>2. CASE LoadIndex
  <2>1. spawned = 0
    BY <1>2 DEF LoadIndex, IInv, Threads
  <2> QED
    BY <1>1, <1>2, <2>1, MainStep DEF LoadIndex, MainPC, ServerEnded
<1>3. CASE InitComplete
  <2>1. spawned = ClientCount
    BY <1>3 DEF InitComplete, IInv, Threads
  <2> QED
    BY <1>1, <1>3, <2>1, MainStep DEF InitComplete, MainPC, ServerEnded
<1>4. CASE ScanSlot
  <2>1. spawned = ClientCount
    BY <1>4 DEF ScanSlot, IInv, Threads
  <2>2. scan' \in 0 .. ClientCount /\ finished' \in 0 .. scan'
    BY <1>1, <1>4 DEF ScanSlot
  <2>3. hasError' \in BOOLEAN
    BY <1>1, <1>4 DEF ScanSlot, NextError
  <2> QED
    BY <1>1, <1>4, <2>1, <2>2, <2>3, MainStep DEF ScanSlot, MainPC, ServerEnded
<1>5. CASE ScanAgain
  <2>1. spawned = ClientCount
    BY <1>5 DEF ScanAgain, IInv, Threads
  <2>2. scan' \in 0 .. ClientCount /\ finished' \in 0 .. scan'
    BY <1>1, <1>5 DEF ScanAgain
  <2> QED
    BY <1>1, <1>5, <2>1, <2>2, MainStep DEF ScanAgain, MainPC, ServerEnded
<1> QED
  BY <1>2, <1>3, <1>4, <1>5, AcceptInv, SpawnInv, FinishInv DEF Main

-----------------------------------------------------------------------------
(* The threads of the server keep the invariant.                           *)

(* A thread that ends.                                                     *)
LEMMA EndStep ==
  ASSUME IInv, NEW i \in Slot, tpc[i] \notin {"none", "exit"},
         NEW p \in {-1, -2}, ThreadEnds(i, p),
         UNCHANGED <<mpc, slot, spawned, sendingCount, freed, scan, finished,
                     hasError, clientVars, backlog, copen, toClient, faults>>,
         toServer' \in [Session -> Seq(ProgressMessage)]
  PROVE  IInv'
<1> USE DEF IInv
<1>1. sopen' \in [Session -> BOOLEAN]
  BY DEF ThreadEnds, TypeOK
<1>2. "exit" \in ThreadPC \ {"none"} /\ p \in -2 .. Asked
  BY AskedFacts DEF ThreadPC
<1>3. /\ tpc' = [tpc EXCEPT ![i] = "exit"] /\ tpc' \in [Slot -> ThreadPC]
      /\ progress' \in [Slot -> -2 .. Asked]
      /\ \A j \in Slot : tpc'[j] = IF j = i THEN "exit" ELSE tpc[j]
  BY <1>2, ThreadUpdates DEF ThreadEnds, TypeOK
<1>4. TypeOK'
  BY <1>1, <1>3 DEF TypeOK, clientVars, ProgressMessage
<1>5. GoOut' = GoOut
  BY DEF GoOut, clientVars
<1>6. Count' /\ Threads'
  BY <1>2, <1>3, <1>5, MoveStep DEF Early
<1>7. Slots'
  BY <1>3 DEF Slots
<1> QED
  BY <1>4, <1>6, <1>7

(* A thread that goes on to p, and what it does to its connection.         *)
LEMMA GoOnStep ==
  ASSUME IInv, NEW i \in Slot, tpc[i] \notin {"none", "exit"}, slot[i] \in Session,
         NEW p \in ThreadPC \ {"none"}, tpc' = [tpc EXCEPT ![i] = p],
         p \in Early => tpc[i] \in Early,
         p \in {"start", "progress"} => sendingCount = 0,
         UNCHANGED <<mpc, slot, spawned, sendingCount, freed, scan, finished,
                     hasError, clientVars, backlog, copen, sopen, faults>>,
         progress' \in [Slot -> -2 .. Asked],
         toServer' \in [Session -> Seq(ProgressMessage)],
         toClient' \in [Session -> Seq(Item)],
         GoOut' => GoOut \/ sendingCount = 0
  PROVE  IInv'
<1> USE DEF IInv
<1>1. /\ tpc' \in [Slot -> ThreadPC]
      /\ \A j \in Slot : tpc'[j] = IF j = i THEN p ELSE tpc[j]
  BY ThreadUpdates DEF TypeOK
<1>2. TypeOK'
  BY <1>1 DEF TypeOK, clientVars, ProgressMessage, Item
<1>3. Count' /\ Threads'
  BY MoveStep
<1>4. Slots'
  BY <1>1 DEF Slots
<1> QED
  BY <1>2, <1>3, <1>4

(* The server is killed by a send.                                         *)
LEMMA KilledStep ==
  ASSUME IInv, ServerExit("killed"),
         UNCHANGED <<slot, spawned, progress, sendingCount, freed, scan, finished,
                     hasError, clientVars, copen, toClient, toServer, faults>>
  PROVE  IInv'
<1> USE DEF IInv
<1>1. TypeOK'
  BY ExitTypes DEF TypeOK, clientVars
<1>2. GoOut' = GoOut
  BY DEF GoOut, clientVars
<1>3. Count' /\ Threads'
  BY <1>2, ExitStep
<1>4. Slots'
  BY DEF Slots, ServerExit
<1> QED
  BY <1>1, <1>3, <1>4

(* Only SendStart puts a start command on its way.                         *)
LEMMA GoAppend ==
  ASSUME TypeOK, NEW x \in Session, NEW d \in Item \ {"go"}, UNCHANGED cpc,
         toClient' = [toClient EXCEPT ![x] = Append(@, d)]
  PROVE  GoOut' => GoOut
<1>1. toClient \in [Session -> Seq(Item)]
  BY DEF TypeOK, Item
<1> SUFFICES ASSUME NEW y \in Session, NEW k \in DOMAIN toClient'[y],
                    toClient'[y][k] = "go"
             PROVE  \E l \in DOMAIN toClient[y] : toClient[y][l] = "go"
  BY DEF GoOut
<1>2. CASE y # x
  BY <1>1, <1>2
<1>3. CASE y = x
  <2>1. toClient'[x] = Append(toClient[x], d) /\ toClient[x] \in Seq(Item)
    BY <1>1
  <2>2. k # Len(toClient[x]) + 1
    BY <1>3, <2>1
  <2>3. k \in DOMAIN toClient[x] /\ toClient'[x][k] = toClient[x][k]
    BY <1>3, <2>1, <2>2
  <2> QED
    BY <1>3, <2>3
<1> QED
  BY <1>2, <1>3

(* A client follows the start command it has received.                     *)
LEMMA GoReceive ==
  ASSUME TypeOK, NEW x \in Session, NEW p \in ClientPC, toClient[x] # <<>>,
         p = "work" => Head(toClient[x]) = "go",
         toClient' = [toClient EXCEPT ![x] = Tail(@)],
         cpc' = [cpc EXCEPT ![x] = p]
  PROVE  GoOut' => GoOut
<1>1. toClient \in [Session -> Seq(Item)] /\ cpc \in [Session -> ClientPC]
  BY DEF TypeOK, Item
<1>2. toClient[x] \in Seq(Item) /\ toClient'[x] = Tail(toClient[x])
  BY <1>1
<1> SUFFICES ASSUME NEW y \in Session,
                    \/ cpc'[y] = "work"
                    \/ \E k \in DOMAIN toClient'[y] : toClient'[y][k] = "go"
             PROVE  \/ cpc[y] = "work"
                    \/ \E l \in DOMAIN toClient[y] : toClient[y][l] = "go"
  BY DEF GoOut
<1>3. CASE y # x
  BY <1>1, <1>3
<1>4. CASE y = x
  <2>1. CASE cpc'[y] = "work"
    <3>1. 1 \in DOMAIN toClient[x] /\ toClient[x][1] = "go"
      BY <1>1, <1>2, <1>4, <2>1
    <3> QED
      BY <1>4, <3>1
  <2>2. ASSUME NEW k \in DOMAIN toClient'[y], toClient'[y][k] = "go"
        PROVE  \E l \in DOMAIN toClient[y] : toClient[y][l] = "go"
    <3>1. \A q \in Seq(Item) : q # <<>> =>
             \A n \in DOMAIN Tail(q) : n + 1 \in DOMAIN q /\ Tail(q)[n] = q[n + 1]
      OBVIOUS
    <3>2. k + 1 \in DOMAIN toClient[x] /\ toClient[x][k + 1] = "go"
      BY <1>2, <1>4, <2>2, <3>1
    <3> QED
      BY <1>4, <3>2
  <2> QED
    BY <2>1, <2>2
<1> QED
  BY <1>3, <1>4

(* Sending the head or the items of the index.                             *)
LEMMA SendPartInv ==
  ASSUME IInv, NEW i \in Slot, tpc[i] \in {"head", "items"}, slot[i] \in Session,
         NEW data \in Item \ {"go"}, NEW next \in {"items", "wait"},
         SendTo(i, data, next, ThreadEnds(i, -2)),
         UNCHANGED <<slot, spawned, sendingCount, freed, scan, finished, hasError,
                     clientVars, copen, toServer, faults>>
  PROVE  IInv'
<1>1. slot[i] \in Session
  OBVIOUS
<1>2. /\ progress \in [Slot -> -2 .. Asked]
      /\ toServer' \in [Session -> Seq(ProgressMessage)]
      /\ toClient \in [Session -> Seq(Item)] /\ TypeOK
  BY DEF IInv, TypeOK, Item, ProgressMessage
<1>3. next \in ThreadPC \ {"none"} /\ next \notin {"start", "progress"} /\ tpc[i] \in Early
  BY DEF ThreadPC, Early
<1>4. CASE /\ toClient' = [toClient EXCEPT ![slot[i]] = Append(@, data)]
           /\ tpc' = [tpc EXCEPT ![i] = next]
           /\ UNCHANGED <<mpc, progress, backlog, sopen>>
  <2>1. toClient' \in [Session -> Seq(Item)]
    BY <1>1, <1>2, <1>4, StreamUpdates
  <2>2. GoOut' => GoOut
    BY <1>1, <1>2, <1>4, GoAppend DEF clientVars
  <2> QED
    BY <1>1, <1>2, <1>3, <1>4, <2>1, <2>2, GoOnStep
<1>5. CASE /\ tpc' = [tpc EXCEPT ![i] = next]
           /\ UNCHANGED <<mpc, progress, backlog, sopen, toClient>>
  <2>1. GoOut' = GoOut
    BY <1>5 DEF GoOut, clientVars
  <2> QED
    BY <1>1, <1>2, <1>3, <1>5, <2>1, GoOnStep
<1>6. CASE ThreadEnds(i, -2) /\ UNCHANGED <<mpc, backlog, toClient>>
  BY <1>2, <1>6, EndStep
<1>7. CASE ServerExit("killed") /\ UNCHANGED <<progress, toClient>>
  BY <1>7, KilledStep
<1> QED
  BY <1>4, <1>5, <1>6, <1>7 DEF SendTo

(* The start command goes out when sending_count is 0.                     *)
LEMMA SendStartInv ==
  ASSUME IInv, NEW i \in Slot, SendStart(i)
  PROVE  IInv'
<1> DEFINE goOn == tpc' = [tpc EXCEPT ![i] = "progress"] /\ UNCHANGED <<progress, sopen>>
<1>1. slot[i] \in Session
  BY Connected DEF SendStart
<1>2. /\ progress \in [Slot -> -2 .. Asked]
      /\ toServer \in [Session -> Seq(ProgressMessage)]
      /\ toClient \in [Session -> Seq(Item)] /\ TypeOK
  BY DEF IInv, TypeOK, Item, ProgressMessage
<1>3. /\ tpc[i] = "start" /\ sendingCount = 0
      /\ UNCHANGED <<slot, spawned, sendingCount, freed, scan, finished, hasError,
                     clientVars, copen, toServer, faults>>
  BY DEF SendStart, IInv, Count
<1>4. "progress" \in ThreadPC \ {"none"} /\ "progress" \notin Early /\ "go" \in Item
  BY DEF ThreadPC, Early, Item
<1>5. CASE goOn /\ UNCHANGED <<mpc, backlog>> /\
           toClient' \in {toClient, [toClient EXCEPT ![slot[i]] = Append(@, "go")]}
  <2>1. [toClient EXCEPT ![slot[i]] = Append(@, "go")] \in [Session -> Seq(Item)]
    BY <1>1, <1>2, <1>4, StreamUpdates
  <2>2. toClient' \in [Session -> Seq(Item)]
    BY <1>2, <1>5, <2>1
  <2> QED
    BY <1>1, <1>2, <1>3, <1>4, <1>5, <2>2, GoOnStep
<1>6. CASE ServerExit("killed") /\ UNCHANGED <<progress, toClient>>
  BY <1>3, <1>6, KilledStep
<1>7. \/ goOn /\ UNCHANGED <<mpc, backlog>> /\
         toClient' \in {toClient, [toClient EXCEPT ![slot[i]] = Append(@, "go")]}
      \/ ServerExit("killed") /\ UNCHANGED <<progress, toClient>>
  BY DEF SendStart, SendTo
<1> QED
  BY <1>5, <1>6, <1>7

(* The first message of a client, or its end.                              *)
LEMMA AwaitReadyInv ==
  ASSUME IInv, NEW i \in Slot, AwaitReady(i)
  PROVE  IInv'
<1>1. slot[i] \in Session
  BY Connected DEF AwaitReady
<1>2. /\ progress \in [Slot -> -2 .. Asked]
      /\ toServer \in [Session -> Seq(ProgressMessage)]
      /\ toClient \in [Session -> Seq(Item)] /\ TypeOK
  BY DEF IInv, TypeOK, Item, ProgressMessage
<1>3. /\ tpc[i] = "wait"
      /\ UNCHANGED <<mpc, slot, spawned, sendingCount, freed, scan, finished,
                     hasError, clientVars, backlog, copen, toClient, faults>>
  BY DEF AwaitReady
<1>4. GoOut' = GoOut
  BY <1>3 DEF GoOut, clientVars
<1>5. CASE /\ Pop(slot[i])
           /\ tpc' = [tpc EXCEPT ![i] = "count"]
           /\ UNCHANGED <<progress, sopen>>
  <2>1. toServer' \in [Session -> Seq(ProgressMessage)]
    BY <1>1, <1>2, <1>5, StreamUpdates DEF Pop
  <2>2. "count" \in ThreadPC \ {"none"} /\ tpc[i] \in Early
    BY <1>3 DEF ThreadPC, Early
  <2> QED
    BY <1>1, <1>2, <1>3, <1>4, <1>5, <2>1, <2>2, GoOnStep
<1>6. CASE ThreadEnds(i, -2) /\ UNCHANGED toServer
  BY <1>2, <1>3, <1>6, EndStep
<1> QED
  BY <1>5, <1>6 DEF AwaitReady

(* sending_count is decremented, the last thread frees the index.          *)
LEMMA CountDownInv ==
  ASSUME IInv, NEW i \in Slot, CountDown(i)
  PROVE  IInv'
<1>1. "barrier" \in ThreadPC /\ tpc' = [tpc EXCEPT ![i] = "barrier"]
  BY DEF ThreadPC, CountDown
<1>2. tpc' \in [Slot -> ThreadPC] /\ freed' \in BOOLEAN
  BY <1>1, ThreadUpdates DEF IInv, TypeOK, CountDown, Freed
<1>3. sendingCount' \in 0 .. ClientCount /\ Count' /\ Threads'
  BY CountStep
<1>4. TypeOK'
  BY <1>2, <1>3 DEF IInv, TypeOK, CountDown, clientVars, netVars
<1>5. Slots'
  <2>1. \A j \in Slot : tpc'[j] = IF j = i THEN "barrier" ELSE tpc[j]
    BY <1>1 DEF IInv, TypeOK
  <2>2. slot[i] \in Session
    BY Connected DEF CountDown
  <2> QED
    BY <2>1, <2>2 DEF IInv, Slots, CountDown
<1> QED
  BY <1>3, <1>4, <1>5 DEF IInv

(* A thread that has read sending_count = 0.                               *)
LEMMA PassBarrierInv ==
  ASSUME IInv, NEW i \in Slot, PassBarrier(i)
  PROVE  IInv'
<1>1. /\ progress \in [Slot -> -2 .. Asked]
      /\ toServer \in [Session -> Seq(ProgressMessage)]
      /\ toClient \in [Session -> Seq(Item)] /\ TypeOK
  BY DEF IInv, TypeOK, Item, ProgressMessage
<1>2. "start" \in ThreadPC \ {"none"} /\ "start" \notin Early
  BY DEF ThreadPC, Early
<1>3. GoOut' = GoOut
  BY DEF GoOut, PassBarrier, clientVars, netVars
<1> QED
  BY <1>1, <1>2, <1>3, Connected, GoOnStep DEF PassBarrier, netVars

(* A progress report, or the end of the client.                            *)
LEMMA ReadProgressInv ==
  ASSUME IInv, NEW i \in Slot, ReadProgress(i)
  PROVE  IInv'
<1>1. slot[i] \in Session
  BY Connected DEF ReadProgress
<1>2. /\ progress \in [Slot -> -2 .. Asked] /\ tpc \in [Slot -> ThreadPC]
      /\ toServer \in [Session -> Seq(ProgressMessage)]
      /\ toClient \in [Session -> Seq(Item)] /\ TypeOK
  BY DEF IInv, TypeOK, Item, ProgressMessage
<1>3. /\ tpc[i] = "progress" /\ sendingCount = 0
      /\ UNCHANGED <<mpc, slot, spawned, sendingCount, freed, scan, finished,
                     hasError, clientVars, backlog, copen, toClient, faults>>
  BY DEF ReadProgress, IInv, Count
<1>4. GoOut' = GoOut
  BY <1>3 DEF GoOut, clientVars
<1>5. Pop(slot[i]) => toServer' \in [Session -> Seq(ProgressMessage)]
  BY <1>1, <1>2, StreamUpdates DEF Pop
<1>6. CASE Pop(slot[i]) /\ ThreadEnds(i, -2)
  BY <1>3, <1>5, <1>6, EndStep
<1>7. CASE /\ Pop(slot[i])
           /\ progress' = [progress EXCEPT ![i] = Head(toServer[slot[i]]).count]
           /\ UNCHANGED <<tpc, sopen>>
  <2>1. Head(toServer[slot[i]]).count \in -2 .. Asked
    BY <1>1, <1>2, <1>7, StreamUpdates, ServerAssumption DEF Pop
  <2>2. progress' \in [Slot -> -2 .. Asked]
    BY <1>2, <1>7, <2>1, ThreadUpdates
  <2>3. tpc' = [tpc EXCEPT ![i] = "progress"] /\ "progress" \in ThreadPC \ {"none"}
    BY <1>2, <1>3, <1>7 DEF ThreadPC
  <2> QED
    BY <1>1, <1>2, <1>3, <1>4, <1>5, <1>7, <2>2, <2>3, GoOnStep DEF Early
<1>8. CASE ThreadEnds(i, -1) /\ UNCHANGED toServer
  BY <1>2, <1>3, <1>8, EndStep
<1> QED
  BY <1>6, <1>7, <1>8 DEF ReadProgress

(* The types of the client's and the network's variables.                  *)
LEMMA TypesNow ==
  ASSUME TypeOK
  PROVE  /\ cpc \in [Session -> ClientPC]
         /\ sent \in [Session -> 0 .. Asked]
         /\ backlog \in SUBSET Session
         /\ copen \in [Session -> BOOLEAN] /\ sopen \in [Session -> BOOLEAN]
         /\ toClient \in [Session -> Seq(Item)]
         /\ toServer \in [Session -> Seq(ProgressMessage)]
         /\ faults \in Nat
BY DEF TypeOK, Item, ProgressMessage

(* All steps of client_thread.                                             *)
LEMMA ThreadInv ==
  ASSUME IInv, NEW i \in Slot, Thread(i)
  PROVE  IInv'
<1>1. CASE SendHead(i)
  <2>1. tpc[i] = "head" /\ slot[i] \in Session \cup {NoSession}
    BY <1>1 DEF SendHead, IInv, TypeOK
  <2>2. CASE slot[i] = NoSession
    BY <1>1, <2>1, <2>2, EndStep, TypesNow DEF SendHead, IInv
  <2>3. CASE slot[i] # NoSession
    BY <1>1, <2>1, <2>3, SendPartInv DEF SendHead, Item
  <2> QED
    BY <2>2, <2>3
<1>2. CASE SendItems(i)
  BY <1>2, Connected, SendPartInv DEF SendItems, Item
<1> QED
  BY <1>1, <1>2, AwaitReadyInv, CountDownInv, PassBarrierInv, SendStartInv,
     ReadProgressInv DEF Thread

-----------------------------------------------------------------------------
(* The clients keep the invariant: they do not touch the server, and none  *)
(* works without a start command.                                          *)

ClientTypes ==
  /\ cpc' \in [Session -> ClientPC]
  /\ sent' \in [Session -> 0 .. Asked]
  /\ backlog' \in SUBSET Session
  /\ copen' \in [Session -> BOOLEAN] /\ sopen' \in [Session -> BOOLEAN]
  /\ toClient' \in [Session -> Seq(Item)]
  /\ toServer' \in [Session -> Seq(ProgressMessage)]
  /\ faults' \in Nat

(* A client step leaves the server's variables alone.                      *)
LEMMA ClientFrame ==
  ASSUME IInv, UNCHANGED serverVars, ClientTypes, GoOut' => GoOut
  PROVE  IInv'
<1>1. TypeOK'
  BY DEF IInv, TypeOK, serverVars, ClientTypes, Item, ProgressMessage
<1>2. Count' /\ Threads'
  BY QuietStep DEF IInv, Quiet, serverVars
<1>3. Slots'
  BY DEF IInv, Slots, serverVars
<1> QED
  BY <1>1, <1>2, <1>3 DEF IInv

(* A client that receives nothing does not begin to work.                  *)
LEMMA GoSame ==
  ASSUME TypeOK, NEW x \in Session, NEW p \in ClientPC \ {"work"},
         cpc' = [cpc EXCEPT ![x] = p], UNCHANGED toClient
  PROVE  GoOut' => GoOut
BY DEF TypeOK, GoOut

(* What a client sends is a TProgress.                                     *)
LEMMA ReplyType ==
  ASSUME TypeOK, NEW x \in Session, NEW m \in ProgressMessage, Reply(x, m)
  PROVE  toServer' \in [Session -> Seq(ProgressMessage)]
<1>1. CASE sopen[x]
  BY <1>1, StreamUpdates DEF Reply
<1>2. CASE ~sopen[x]
  BY <1>2, TypesNow DEF Reply
<1> QED
  BY <1>1, <1>2

(* A step of session x that receives nothing and starts no work.           *)
LEMMA LocalStep ==
  ASSUME IInv, NEW x \in Session, NEW p \in ClientPC \ {"work"},
         NEW b \in BOOLEAN, UNCHANGED <<serverVars, sent, backlog, sopen, toClient>>,
         cpc' = [cpc EXCEPT ![x] = p], copen' = [copen EXCEPT ![x] = b],
         toServer' \in [Session -> Seq(ProgressMessage)], faults' \in Nat
  PROVE  IInv'
<1>1. TypeOK
  BY DEF IInv
<1>2. ClientTypes
  BY <1>1, TypesNow, SessionUpdates DEF ClientTypes
<1>3. GoOut' => GoOut
  BY <1>1, GoSame
<1> QED
  BY <1>2, <1>3, ClientFrame

(* A client receives its index or the start command.                       *)
LEMMA ReceiveInv ==
  ASSUME IInv, NEW x \in Session, NEW data \in Item, NEW next \in ClientPC,
         next = "work" => data = "go", Receive(x, data, next)
  PROVE  IInv'
<1>1. TypeOK
  BY DEF IInv
<1>2. ClientTypes
  BY <1>1, TypesNow, SessionUpdates, StreamUpdates DEF ClientTypes, Receive
<1>3. GoOut' => GoOut
  BY <1>1, GoReceive DEF Receive
<1> QED
  BY <1>2, <1>3, ClientFrame DEF Receive

(* The messages of a client are well typed.                                *)
LEMMA Messages ==
  /\ \A n \in 0 .. Asked : /\ Message(Normal, n) \in ProgressMessage
                           /\ Message(Failed, n) \in ProgressMessage
                           /\ Message(Go, n) \in ProgressMessage
  /\ 0 \in 0 .. Asked /\ FinalCount \in 0 .. Asked
BY AskedFacts DEF Message, ProgressMessage, FinalCount

(* init_server_socket.                                                     *)
LEMMA ConnectInv ==
  ASSUME IInv, NEW x \in Session, Connect(x)
  PROVE  IInv'
<1>1. TypeOK /\ "head" \in ClientPC \ {"work"}
  BY DEF IInv, ClientPC
<1>2. ClientTypes
  BY <1>1, TypesNow, SessionUpdates DEF ClientTypes, Connect
<1>3. GoOut' => GoOut
  BY <1>1, GoSame DEF Connect
<1> QED
  BY <1>2, <1>3, ClientFrame DEF Connect

(* The steps of a session without a fault.                                 *)
LEMMA ClientStepInv ==
  ASSUME IInv, NEW x \in Session, ClientStep(x)
  PROVE  IInv'
<1>1. TypeOK /\ faults \in Nat /\ copen[x] \in BOOLEAN
      /\ copen = [copen EXCEPT ![x] = copen[x]]
      /\ toServer \in [Session -> Seq(ProgressMessage)]
  BY DEF IInv, TypeOK, ProgressMessage
<1>2. {"items", "storages", "ready", "starting", "complete", "lost"}
         \subseteq ClientPC \ {"work"}
      /\ "work" \in ClientPC
  BY DEF ClientPC, Over
<1>3. CASE ReceiveHead(x)
  BY <1>2, <1>3, ReceiveInv DEF ReceiveHead, Item
<1>4. CASE ReceiveItems(x)
  BY <1>2, <1>4, ReceiveInv DEF ReceiveItems, Item
<1>5. CASE ReceiveStart(x)
  BY <1>2, <1>5, ReceiveInv DEF ReceiveStart, Item
<1>6. CASE InitStorages(x)
  BY <1>1, <1>2, <1>6, LocalStep DEF InitStorages, netVars
<1>7. CASE SendReady(x)
  <2>1. toServer' \in [Session -> Seq(ProgressMessage)]
    BY <1>1, <1>7, ReplyType, Messages DEF SendReady
  <2> QED
    BY <1>1, <1>2, <1>7, <2>1, LocalStep DEF SendReady
<1>8. CASE EndComplete(x)
  <2>1. toServer' \in [Session -> Seq(ProgressMessage)]
    BY <1>1, <1>8, ReplyType, Messages DEF EndComplete
  <2> QED
    BY <1>1, <1>2, <1>8, <2>1, LocalStep DEF EndComplete, Close
<1>9. CASE ServerGone(x)
  BY <1>1, <1>2, <1>9, LocalStep DEF ServerGone, Close
<1> QED
  BY <1>3, <1>4, <1>5, <1>6, <1>7, <1>8, <1>9, ConnectInv DEF ClientStep

(* A session that fails or crashes.                                        *)
LEMMA ClientFaultInv ==
  ASSUME IInv, NEW x \in Session, ClientFault(x)
  PROVE  IInv'
<1>1. TypeOK /\ (TakeFault => faults' \in Nat)
  <2>1. TypeOK
    BY DEF IInv
  <2>2. faults \in Nat
    BY <2>1, TypesNow
  <2> QED
    BY <2>1, <2>2 DEF TakeFault
<1>2. {"initfail", "error", "lost"} \subseteq ClientPC \ {"work"}
  BY DEF ClientPC, Over
<1>3. CASE InitStoragesFails(x)
  <2>1. toServer' \in [Session -> Seq(ProgressMessage)]
    BY <1>1, <1>3, ReplyType, Messages DEF InitStoragesFails
  <2> QED
    BY <1>1, <1>2, <1>3, <2>1, LocalStep DEF InitStoragesFails, Close
<1>4. CASE EndError(x)
  <2>1. toServer' \in [Session -> Seq(ProgressMessage)]
    BY <1>1, <1>4, ReplyType, Messages DEF EndError
  <2> QED
    BY <1>1, <1>2, <1>4, <2>1, LocalStep DEF EndError, Close
<1>5. CASE Crash(x)
  <2>1. toServer' \in [Session -> Seq(ProgressMessage)]
    BY <1>1, <1>5, StreamUpdates DEF Crash
  <2> QED
    BY <1>1, <1>2, <1>5, <2>1, LocalStep DEF Crash, Close
<1> QED
  BY <1>3, <1>4, <1>5 DEF ClientFault

(* The data phase and its reports.                                         *)
LEMMA WorkReportInv ==
  ASSUME IInv, NEW x \in Session, Work(x) \/ Report(x)
  PROVE  IInv'
<1>1. TypeOK
  BY DEF IInv
<1>2. CASE Work(x)
  <2>1. sent' \in [Session -> 0 .. Asked]
    <3>1. sent[x] + 1 \in 0 .. Asked
      BY <1>1, <1>2, TypesNow, AskedFacts DEF Work
    <3> QED
      BY <1>1, <1>2, <3>1, TypesNow DEF Work
  <2>2. ClientTypes
    BY <1>1, <1>2, <2>1, TypesNow DEF ClientTypes, Work, netVars
  <2> QED
    BY <1>2, <2>2, ClientFrame DEF Work, netVars, GoOut
<1>3. CASE Report(x)
  <2>1. Message(Normal, sent[x]) \in ProgressMessage
    BY <1>1, TypesNow, Messages
  <2>2. toServer' \in [Session -> Seq(ProgressMessage)]
    BY <1>1, <1>3, <2>1, ReplyType DEF Report
  <2>3. ClientTypes
    BY <1>1, <1>3, <2>2, TypesNow DEF ClientTypes, Report, clientVars
  <2> QED
    BY <1>3, <2>3, ClientFrame DEF Report, clientVars, GoOut
<1> QED
  BY <1>2, <1>3

-----------------------------------------------------------------------------
(* The invariant is inductive.                                             *)
LEMMA NextInv == IInv /\ [Next]_vars => IInv'
<1> SUFFICES ASSUME IInv, [Next]_vars PROVE IInv'
  OBVIOUS
<1>1. CASE UNCHANGED vars
  <2>1. ClientTypes /\ GoOut' = GoOut
    BY <1>1, TypesNow DEF IInv, ClientTypes, GoOut, vars, clientVars, netVars
  <2> QED
    BY <1>1, <2>1, ClientFrame DEF vars
<1>2. CASE Poll \/ AtRest
  BY <1>1, <1>2 DEF Poll, AtRest
<1>3. ASSUME NEW i \in Slot, Thread(i) PROVE IInv'
  BY <1>3, ThreadInv
<1>4. ASSUME NEW x \in Session, ClientStep(x) \/ Work(x) \/ Report(x) \/ ClientFault(x)
      PROVE  IInv'
  BY <1>4, ClientStepInv, WorkReportInv, ClientFaultInv
<1> QED
  BY <1>1, <1>2, <1>3, <1>4, MainInv, AcceptNothingInv, ServerGivesUpInv DEF Next

(* The inductive invariant holds in every reachable state.                 *)
THEOREM Invariant == Spec => []IInv
BY InitInv, NextInv, PTL DEF Spec

(* The server and its sessions keep their types: sending_count never goes  *)
(* below zero, no thread is created past the last slot.                    *)
THEOREM ServerTypeCorrect == Spec => []TypeOK
<1>1. IInv => TypeOK
  BY DEF IInv
<1> QED
  BY Invariant, <1>1, PTL

(* Until the last thread has counted down, sending_count is the number of  *)
(* those that have not: the threads that fail on the way stay counted.     *)
(* Who has counted down has had an answer.                                 *)
Behind == {i \in Slot : tpc[i] # "barrier"}

Answers ==
  /\ \A x \in Session : toServer[x] # <<>> => cpc[x] \in Answered
  /\ \A i \in Slot : tpc[i] \in {"count", "barrier"} => cpc[slot[i]] \in Answered
  /\ ~ServerEnded /\ sendingCount > 0 => Cardinality(Behind) = sendingCount
  /\ sendingCount = 0 => \A i \in Slot : slot[i] \in Session /\ cpc[slot[i]] \in Answered

LEMMA AnswersInit == Init => Answers
<1> SUFFICES ASSUME Init PROVE Answers
  OBVIOUS
<1>1. Behind = Slot
  BY DEF Init, Behind
<1>2. Cardinality(Behind) = ClientCount /\ ClientCount # 0
  BY <1>1, SlotFacts, ServerAssumption
<1> QED BY <1>2 DEF Init, Answers

(* A session that has answered stays one, and nobody else has sent.        *)
Replies ==
  \A x \in Session : /\ cpc[x] \in Answered => cpc'[x] \in Answered
                     /\ toServer'[x] = <<>> \/ toServer[x] # <<>> \/ cpc'[x] \in Answered

LEMMA ClientAnswers ==
  ASSUME IInv, Answers, Replies, UNCHANGED serverVars
  PROVE  Answers'
<1>1. \A i \in Slot : tpc[i] \in {"count", "barrier"} => slot[i] \in Session
  BY DEF IInv, Slots
<1>2. Behind' = Behind /\ ServerEnded' = ServerEnded
  BY DEF Behind, ServerEnded, serverVars
<1> QED BY <1>1, <1>2 DEF Answers, Replies, serverVars

(* A step of the server in which no thread counts down.                    *)
LEMMA ServerAnswers ==
  ASSUME IInv, IInv', Answers, UNCHANGED <<sendingCount, cpc>>,
         \A x \in Session : toServer'[x] = <<>> \/ toServer[x] # <<>>,
         ~ServerEnded' => ~ServerEnded /\ (sendingCount > 0 => Behind' = Behind),
         \A i \in Slot : /\ slot'[i] = slot[i] \/ slot[i] = NoSession
                        /\ \/ tpc'[i] \notin {"count", "barrier"}
                           \/ tpc'[i] = tpc[i]
                           \/ slot[i] \in Session /\ toServer[slot[i]] # <<>>
  PROVE  Answers'
<1>1. \A i \in Slot : tpc[i] \in {"count", "barrier"} => slot[i] \in Session
  BY DEF IInv, Slots
<1>2. \A i \in Slot : slot[i] \in Session => slot'[i] = slot[i]
  BY ServerAssumption
<1>3. ASSUME NEW i \in Slot, tpc'[i] \in {"count", "barrier"}
      PROVE  cpc'[slot'[i]] \in Answered
  BY <1>1, <1>2, <1>3 DEF Answers
<1>4. \A x \in Session : toServer'[x] # <<>> => cpc'[x] \in Answered
  BY DEF Answers
<1>5. ASSUME ~ServerEnded', sendingCount' > 0
      PROVE  Cardinality(Behind') = sendingCount'
  BY <1>5 DEF Answers
<1>6. sendingCount' = 0 => \A i \in Slot : slot'[i] \in Session /\ cpc'[slot'[i]] \in Answered
  BY <1>2 DEF Answers
<1> QED BY <1>3, <1>4, <1>5, <1>6 DEF Answers

(* The last thread that counts down is the last of all slots, and every    *)
(* slot has had an answer.                                                 *)
LEMMA CountAnswers ==
  ASSUME IInv, IInv', Answers, NEW i \in Slot, CountDown(i)
  PROVE  Answers'
<1>1. /\ tpc[i] = "count" /\ tpc' = [tpc EXCEPT ![i] = "barrier"]
      /\ sendingCount' = sendingCount - 1
      /\ UNCHANGED <<mpc, slot, cpc, toServer>>
  BY DEF CountDown, clientVars, netVars
<1>2. /\ \A j \in Slot : tpc'[j] = IF j = i THEN "barrier" ELSE tpc[j]
      /\ \A j \in Slot : tpc'[j] = "barrier" => slot[j] \in Session
  BY <1>1 DEF IInv, TypeOK, Slots
<1>3. i \in Behind /\ Behind' = Behind \ {i} /\ Behind \in SUBSET Slot /\ Behind' \in SUBSET Slot
  BY <1>1, <1>2 DEF Behind
<1>4. Cardinality(Behind') = Cardinality(Behind) - 1
  BY <1>3, CardinalityFacts
<1>5. sendingCount \in Nat /\ sendingCount' \in Nat /\ sendingCount > 0
  BY <1>1, ServerAssumption DEF IInv, TypeOK
<1>6. ~ServerEnded /\ ~ServerEnded'
  BY <1>1 DEF IInv, Threads, ServerEnded
<1>7. Cardinality(Behind') = sendingCount'
  BY <1>1, <1>4, <1>5, <1>6 DEF Answers
<1>8. \A j \in Slot : tpc'[j] \in {"count", "barrier"} => cpc'[slot'[j]] \in Answered
  BY <1>1, <1>2 DEF Answers
<1>9. ASSUME sendingCount' = 0, NEW j \in Slot
      PROVE  slot'[j] \in Session /\ cpc'[slot'[j]] \in Answered
  <2>1. Behind' = {}
    BY <1>3, <1>7, <1>9, CardinalityFacts
  <2>2. tpc'[j] = "barrier"
    BY <2>1 DEF Behind
  <2> QED BY <1>1, <1>2, <1>8, <2>2
<1> QED BY <1>1, <1>7, <1>8, <1>9 DEF Answers

LEMMA ThreadAnswers ==
  ASSUME IInv, IInv', Answers, NEW i \in Slot, Thread(i)
  PROVE  Answers'
<1>0. ~ServerEnded /\ (tpc[i] = "wait" => slot[i] \in Session)
  BY DEF IInv, Threads, Slots, Thread, SendHead, SendItems, AwaitReady, CountDown,
         PassBarrier, SendStart, ReadProgress
<1>1. CASE CountDown(i)
  BY <1>1, CountAnswers
<1>2. CASE ~CountDown(i)
  <2>1. UNCHANGED <<sendingCount, cpc, slot>>
    BY <1>2 DEF Thread, SendHead, SendItems, AwaitReady, PassBarrier, SendStart,
                ReadProgress, clientVars
  <2>2. \A x \in Session : toServer'[x] = <<>> \/ toServer[x] # <<>>
    <3>1. UNCHANGED toServer \/ Pop(slot[i])
      BY <1>2 DEF Thread, SendHead, SendItems, AwaitReady, PassBarrier, SendStart,
                  ReadProgress, netVars
    <3>2. ASSUME Pop(slot[i]), NEW x \in Session
          PROVE  toServer'[x] = <<>> \/ toServer[x] # <<>>
      BY <3>2 DEF Pop, IInv, TypeOK
    <3> QED BY <3>1, <3>2
  <2>3. ASSUME ServerEnded' PROVE Answers'
    <3>1. \A j \in Slot : tpc'[j] = "exit"
      BY <2>3 DEF IInv, Threads
    <3> QED BY <2>1, <2>2, <2>3, <3>1, ServerAnswers
  <2>4. ASSUME ~ServerEnded' PROVE Answers'
    <3>1. PICK p : /\ tpc' = [tpc EXCEPT ![i] = p]
                   /\ p = "barrier" => FALSE
                   /\ p = "count" => tpc[i] = "wait" /\ toServer[slot[i]] # <<>>
                   /\ tpc[i] = "barrier" => sendingCount = 0
      <4>1. CASE SendHead(i) \/ SendItems(i) \/ SendStart(i)
        BY <2>4, <4>1 DEF SendHead, SendItems, SendStart, SendTo, ThreadEnds, ServerExit, ServerEnded
      <4>2. CASE AwaitReady(i)
        BY <4>2 DEF AwaitReady, ThreadEnds, Pop
      <4>3. CASE PassBarrier(i)
        <5>1. tpc' = [tpc EXCEPT ![i] = "start"] /\ sendingCount = 0
          BY <4>3 DEF PassBarrier
        <5>2. "start" # "barrier" /\ "start" # "count"
          OBVIOUS
        <5> WITNESS "start"
        <5> QED BY <5>1, <5>2
      <4>4. CASE ReadProgress(i)
        <5>1. tpc[i] = "progress"
          BY <4>4 DEF ReadProgress
        <5>2. \/ tpc' = [tpc EXCEPT ![i] = "exit"]
              \/ tpc' = tpc
          BY <4>4 DEF ReadProgress, ThreadEnds
        <5>3. tpc = [tpc EXCEPT ![i] = "progress"]
          BY <5>1 DEF IInv, TypeOK
        <5> QED BY <5>1, <5>2, <5>3
      <4> QED BY <1>2, <4>1, <4>2, <4>3, <4>4 DEF Thread
    <3>2. \A j \in Slot : tpc'[j] = IF j = i THEN p ELSE tpc[j]
      BY <3>1 DEF IInv, TypeOK
    <3>3. sendingCount > 0 => Behind' = Behind
      BY <3>1, <3>2 DEF Behind
    <3>4. \A j \in Slot : \/ tpc'[j] \notin {"count", "barrier"}
                          \/ tpc'[j] = tpc[j]
                          \/ slot[j] \in Session /\ toServer[slot[j]] # <<>>
      BY <1>0, <3>1, <3>2
    <3> QED BY <1>0, <2>1, <2>2, <3>3, <3>4, ServerAnswers
  <2> QED BY <2>3, <2>4
<1> QED BY <1>1, <1>2

LEMMA MainAnswers ==
  ASSUME IInv, IInv', Answers, Main \/ AcceptNothing \/ ServerGivesUp
  PROVE  Answers'
<1>1. UNCHANGED <<sendingCount, cpc, toServer>>
  BY DEF Main, Accept, LoadIndex, Spawn, InitComplete, ScanSlot, ScanAgain, Finish,
         AcceptNothing, ServerGivesUp, clientVars, netVars
<1>2. \A i \in Slot : slot'[i] = slot[i] \/ slot[i] = NoSession
  <2>1. CASE Accept
    BY <2>1 DEF Accept, IInv, TypeOK
  <2>2. CASE ~Accept
    BY <2>2 DEF Main, LoadIndex, Spawn, InitComplete, ScanSlot, ScanAgain, Finish,
                AcceptNothing, ServerGivesUp
  <2> QED BY <2>1, <2>2
<1>3. ~ServerEnded
  BY DEF Main, Accept, LoadIndex, Spawn, InitComplete, ScanSlot, ScanAgain, Finish,
         AcceptNothing, ServerGivesUp, ServerEnded
<1>4. \/ UNCHANGED tpc
      \/ ServerEnded' /\ \A j \in Slot : tpc'[j] = "exit"
      \/ \A j \in Slot : tpc'[j] = tpc[j] \/ (tpc[j] = "none" /\ tpc'[j] = "head")
  <2>1. CASE Spawn
    <3>1. spawned \in Slot /\ tpc[spawned] = "none"
      <4>1. spawned \in Slot /\ mpc = "spawn"
        BY <2>1, ServerAssumption DEF Spawn, IInv, TypeOK, Threads, Slot
      <4> QED BY <4>1, SlotFacts DEF IInv, Threads, ServerEnded
    <3> QED BY <2>1, <3>1 DEF Spawn, IInv, TypeOK
  <2>2. CASE ~Spawn
    BY <2>2 DEF Main, Accept, LoadIndex, InitComplete, ScanSlot, ScanAgain, Finish,
                AcceptNothing, ServerGivesUp, ServerExit, ServerEnded
  <2> QED BY <2>1, <2>2
<1>5. ~ServerEnded' => Behind' = Behind
  BY <1>4 DEF Behind
<1>6. \A i \in Slot : tpc'[i] \notin {"count", "barrier"} \/ tpc'[i] = tpc[i]
  BY <1>4
<1> QED BY <1>1, <1>2, <1>3, <1>5, <1>6, ServerAnswers

LEMMA SessionAnswers ==
  ASSUME IInv, IInv', Answers, NEW x \in Session,
         ClientStep(x) \/ Work(x) \/ Report(x) \/ ClientFault(x)
  PROVE  Answers'
<1>1. UNCHANGED serverVars
  BY DEF ClientStep, Work, Report, ClientFault, Connect, ReceiveHead, ReceiveItems,
         InitStorages, SendReady, ReceiveStart, EndComplete, ServerGone,
         InitStoragesFails, EndError, Crash, Receive
<1>2. \A y \in Session : y # x => cpc'[y] = cpc[y] /\ toServer'[y] = toServer[y]
  BY DEF ClientStep, Work, Report, ClientFault, Connect, ReceiveHead, ReceiveItems,
         InitStorages, SendReady, ReceiveStart, EndComplete, ServerGone,
         InitStoragesFails, EndError, Crash, Receive, Reply, Close, IInv, TypeOK,
         clientVars, netVars
<1>3. /\ cpc[x] \in Answered => cpc'[x] \in Answered
      /\ UNCHANGED toServer \/ cpc'[x] \in Answered
  <2>1. cpc' = [cpc EXCEPT ![x] = cpc'[x]] /\ cpc \in [Session -> ClientPC]
    BY <1>2 DEF IInv, TypeOK
  <2>2. CASE Connect(x) \/ ReceiveHead(x) \/ ReceiveItems(x) \/ InitStorages(x)
    BY <2>1, <2>2 DEF Connect, ReceiveHead, ReceiveItems, InitStorages, Receive, Answered,
                      Over, netVars
  <2>3. CASE SendReady(x) \/ ReceiveStart(x) \/ Work(x) \/ Report(x)
    BY <2>1, <2>3 DEF SendReady, ReceiveStart, Work, Report, Receive, Answered, clientVars,
                      netVars
  <2>4. CASE EndComplete(x) \/ ServerGone(x) \/ ClientFault(x)
    <3>1. PICK how \in Over : Close(x, how)
      BY <2>4 DEF EndComplete, ServerGone, ClientFault, InitStoragesFails, EndError, Crash,
                  Over
    <3> QED BY <2>1, <3>1 DEF Close, Answered
  <2> QED BY <2>2, <2>3, <2>4 DEF ClientStep
<1>4. Replies
  BY <1>2, <1>3 DEF Replies
<1> QED BY <1>1, <1>4, ClientAnswers

LEMMA AnswersNext == IInv /\ IInv' /\ Answers /\ [Next]_vars => Answers'
<1> SUFFICES ASSUME IInv, IInv', Answers, [Next]_vars PROVE Answers'
  OBVIOUS
<1>1. CASE UNCHANGED vars
  BY <1>1 DEF vars, serverVars, clientVars, netVars, Answers, Behind, ServerEnded
<1>2. CASE Poll \/ AtRest
  BY <1>1, <1>2 DEF Poll, AtRest
<1>3. ASSUME NEW i \in Slot, Thread(i) PROVE Answers'
  BY <1>3, ThreadAnswers
<1>4. ASSUME NEW x \in Session, ClientStep(x) \/ Work(x) \/ Report(x) \/ ClientFault(x)
      PROVE  Answers'
  BY <1>4, SessionAnswers
<1> QED BY <1>1, <1>2, <1>3, <1>4, MainAnswers DEF Next

(* When a client is told to start, or works, every thread has counted      *)
(* down, and every slot has a client that has had its storages connected   *)
(* or is gone by now (client_thread, the wait for sending_count).          *)
THEOREM StartsTogether == Spec => []StartTogether
<1>1. IInv /\ Answers => StartTogether
  BY DEF IInv, Count, Answers, GoOut, StartTogether
<1>2. Init => IInv /\ Answers
  BY InitInv, AnswersInit
<1>3. IInv /\ Answers /\ [Next]_vars => (IInv /\ Answers)'
  BY NextInv, AnswersNext
<1> QED
  BY <1>1, <1>2, <1>3, PTL DEF Spec

(* index_items is not used after the thread that counts down last has      *)
(* freed it.                                                               *)
THEOREM IndexNotUsedAfterFree == Spec => []NoUseAfterFree
<1>1. ASSUME IInv, freed, NEW i \in Slot, tpc[i] \in {"none", "head", "items"}
      PROVE  FALSE
  <2>1. NotYet \in SUBSET Slot /\ i \in NotYet
    BY <1>1 DEF NotYet, Early
  <2>2. Cardinality(NotYet) <= 0
    BY <1>1 DEF IInv, Count
  <2> QED
    BY <2>1, <2>2, CardinalityFacts
<1>2. IInv => NoUseAfterFree
  BY <1>1 DEF NoUseAfterFree
<1> QED
  BY Invariant, <1>2, PTL

-----------------------------------------------------------------------------
(* What the server makes of the reports of its clients: the progress of a  *)
(* client only grows, and the error of a client is not overlooked, however *)
(* the passes of the progress loop fall between the reports.               *)

(* A client that is told to start, or works.                               *)
Told(x) ==
  cpc[x] = "work" \/ (copen[x] /\ \E k \in DOMAIN toClient[x] : toClient[x][k] = "go")

(* The client's end is open while its session lasts.                       *)
LiveEnds == \A x \in Session : copen[x] <=> cpc[x] \notin {"idle"} \cup Over

(* A connection is in the backlog or in one slot, and the server keeps its *)
(* end of it open as long as the thread of the slot has not ended.         *)
Places ==
  /\ \A i, j \in Slot : slot[i] = slot[j] /\ slot[i] \in Session => i = j
  /\ \A i \in Slot : slot[i] \in Session =>
        /\ slot[i] \notin backlog /\ cpc[slot[i]] # "idle"
        /\ tpc[i] # "exit" => sopen[slot[i]]
  /\ \A x \in backlog : sopen[x] /\ cpc[x] # "idle"

(* A message that may carry less than those before it: an error, or the    *)
(* last report of a client that has completed.                             *)
Lower(how, m) == m.state = Failed \/ (how = "complete" /\ m.count = Items)

(* The other reports on their way carry counts in their order, none beyond *)
(* what the client has sent.                                               *)
Reports ==
  \A x \in Session :
    /\ cpc[x] \notin {"work"} \cup Over => sent[x] = 0
    /\ \A a \in DOMAIN toServer[x] :
          toServer[x][a].count <= sent[x] \/ cpc[x] \in Over
    /\ \A a, b \in DOMAIN toServer[x] : a <= b =>
          \/ toServer[x][a].count <= toServer[x][b].count
          \/ Lower(cpc[x], toServer[x][b])

(* The progress of a client is a count it has reported, as long as its     *)
(* thread runs; the reports to come are beyond it.                         *)
Progress ==
  \A i \in Slot :
    /\ tpc[i] \notin {"progress", "exit"} => progress[i] = 0
    /\ tpc[i] = "progress" => progress[i] >= 0
    /\ progress[i] = -1 => slot[i] \in Session
    /\ slot[i] \in Session =>
         /\ progress[i] <= sent[slot[i]] \/ cpc[slot[i]] \in Over
         /\ \A a \in DOMAIN toServer[slot[i]] :
               \/ progress[i] <= toServer[slot[i]][a].count
               \/ Lower(cpc[slot[i]], toServer[slot[i]][a])

(* An error is on its way to the thread of its client, or has arrived.     *)
Errors ==
  /\ \A x \in Session :
       /\ cpc[x] \notin Over => \A a \in DOMAIN toServer[x] : toServer[x][a].state # Failed
       /\ cpc[x] = "error" => sendingCount = 0
  /\ \A i \in Slot : slot[i] \in Session /\ ~ServerEnded =>
       /\ Told(slot[i]) => tpc[i] = "progress"
       /\ cpc[slot[i]] = "error" =>
            \/ progress[i] = -2
            \/ /\ tpc[i] = "progress"
               /\ \E a \in DOMAIN toServer[slot[i]] :
                     toServer[slot[i]][a].state = Failed

(* A pass that has found every client finished so far has not missed an    *)
(* error among them.                                                       *)
Pass ==
  /\ mpc \in {"accept", "index", "spawn", "initwait"} => scan = 0
  /\ mpc = "monitor" /\ finished = scan =>
       \A j \in Slot : j < scan =>
          progress[j] < 0 /\ (progress[j] = -2 => hasError)

(* What "complete" rests on.                                               *)
Completion ==
  mpc = "complete" =>
    \A i \in Slot : slot[i] \in Session /\ cpc[slot[i]] # "error" /\ ~Told(slot[i])

RInv == LiveEnds /\ Places /\ Reports /\ Progress /\ Errors /\ Pass /\ Completion

-----------------------------------------------------------------------------
Msg == [state : {Go, Normal, Failed}, count : 0 .. Asked]

(* The types the proofs below need.                                        *)
LEMMA Types ==
  ASSUME IInv
  PROVE  /\ slot \in [Slot -> Session \cup {NoSession}]
         /\ tpc \in [Slot -> ThreadPC] /\ progress \in [Slot -> Int]
         /\ cpc \in [Session -> ClientPC] /\ sent \in [Session -> Int]
         /\ backlog \in SUBSET Session /\ sendingCount \in Int
         /\ scan \in Int /\ finished \in Int /\ mpc \in MainPC
         /\ copen \in [Session -> BOOLEAN] /\ sopen \in [Session -> BOOLEAN]
         /\ toServer \in [Session -> Seq(Msg)]
         /\ toClient \in [Session -> Seq({"head", "items", "go"})]
         /\ Slot \subseteq Int /\ ClientCount \in Int /\ Items \in Int /\ Asked \in Nat
<1>1. /\ -2 .. Asked \subseteq Int /\ 0 .. Asked \subseteq Int
      /\ 0 .. ClientCount \subseteq Int
  BY ServerAssumption, AskedFacts
<1>2. Slot \subseteq Int /\ ClientCount \in Int /\ Items \in Int /\ Asked \in Nat
  BY SlotFacts, ServerAssumption, AskedFacts
<1> QED
  BY <1>1, <1>2 DEF IInv, TypeOK, Msg

(* What the server still has to read of a connection is a piece of what    *)
(* there was: nothing new, nothing out of order.                           *)
Piece(x) ==
  \E k \in Nat : \A a \in DOMAIN toServer'[x] :
     a + k \in DOMAIN toServer[x] /\ toServer'[x][a] = toServer[x][a + k]

LEMMA PieceFacts ==
  ASSUME IInv, IInv', NEW x \in Session
  PROVE  /\ toServer'[x] = toServer[x] => Piece(x)
         /\ toServer[x] # <<>> /\ toServer'[x] = Tail(toServer[x]) => Piece(x)
         /\ \A n \in 0 .. Len(toServer[x]) :
               toServer'[x] = SubSeq(toServer[x], 1, n) => Piece(x)
<1>1. toServer[x] \in Seq(Msg) /\ toServer'[x] \in Seq(Msg)
  BY DEF IInv, TypeOK, Msg
<1>2. ASSUME toServer'[x] = toServer[x] PROVE Piece(x)
  <2>1. \A a \in DOMAIN toServer'[x] :
           a + 0 \in DOMAIN toServer[x] /\ toServer'[x][a] = toServer[x][a + 0]
    BY <1>1, <1>2
  <2> QED BY <2>1 DEF Piece
<1>3. ASSUME toServer[x] # <<>>, toServer'[x] = Tail(toServer[x]) PROVE Piece(x)
  <2>1. \A a \in DOMAIN toServer'[x] :
           a + 1 \in DOMAIN toServer[x] /\ toServer'[x][a] = toServer[x][a + 1]
    BY <1>1, <1>3
  <2> QED BY <2>1 DEF Piece
<1>4. ASSUME NEW n \in 0 .. Len(toServer[x]), toServer'[x] = SubSeq(toServer[x], 1, n)
      PROVE  Piece(x)
  <2>1. \A a \in DOMAIN toServer'[x] :
           a + 0 \in DOMAIN toServer[x] /\ toServer'[x][a] = toServer[x][a + 0]
    BY <1>1, <1>4
  <2> QED BY <2>1 DEF Piece
<1> QED BY <1>2, <1>3, <1>4

(* The reports to come are still in their order, and none is an error that *)
(* was not there.                                                          *)
LEMMA PieceKeeps ==
  ASSUME IInv, IInv', Reports, NEW x \in Session, Piece(x)
  PROVE  /\ \A a, b \in DOMAIN toServer'[x] :
               a <= b => \/ toServer'[x][a].count <= toServer'[x][b].count
                         \/ Lower(cpc[x], toServer'[x][b])
         /\ \A a \in DOMAIN toServer'[x] : \E b \in DOMAIN toServer[x] :
               toServer'[x][a] = toServer[x][b]
<1>0. toServer[x] \in Seq(Msg) /\ toServer'[x] \in Seq(Msg)
  BY DEF IInv, TypeOK, Msg
<1>1. PICK k \in Nat : \A a \in DOMAIN toServer'[x] :
         a + k \in DOMAIN toServer[x] /\ toServer'[x][a] = toServer[x][a + k]
  BY DEF Piece
<1>2. ASSUME NEW a \in DOMAIN toServer'[x], NEW b \in DOMAIN toServer'[x], a <= b
      PROVE  \/ toServer'[x][a].count <= toServer'[x][b].count
             \/ Lower(cpc[x], toServer'[x][b])
  <2>1. a \in Int /\ b \in Int
    BY <1>0
  <2>2. a + k <= b + k /\ a + k \in DOMAIN toServer[x] /\ b + k \in DOMAIN toServer[x]
    BY <2>1, <1>1, <1>2
  <2>3. \/ toServer[x][a + k].count <= toServer[x][b + k].count
        \/ Lower(cpc[x], toServer[x][b + k])
    BY <2>2 DEF Reports
  <2> QED BY <2>3, <1>1
<1> QED BY <1>1, <1>2

-----------------------------------------------------------------------------
(* The steps of the server.                                                *)

(* Those that do not touch the connections.                                *)
LEMMA ExitReports ==
  ASSUME IInv, IInv', RInv,
         NEW how \in {"complete", "error", "failed", "killed"}, ServerExit(how),
         UNCHANGED <<slot, progress, sendingCount, cpc, sent, copen, toClient,
                     toServer>>,
         how = "complete" =>
           \A i \in Slot : slot[i] \in Session /\ cpc[slot[i]] # "error"
                           /\ ~Told(slot[i])
  PROVE  RInv'
<1>1. mpc' = how /\ ServerEnded' /\ backlog' = {} /\ \A i \in Slot : tpc'[i] = "exit"
  BY DEF ServerExit, ServerEnded
<1>2. LiveEnds' /\ Reports'
  BY DEF RInv, LiveEnds, Reports
<1>3. Places'
  BY <1>1 DEF RInv, Places
<1>4. Progress'
  BY <1>1 DEF RInv, Progress
<1>5. Errors'
  BY <1>1 DEF RInv, Errors
<1>6. Pass'
  BY <1>1 DEF RInv, Pass
<1>7. Completion'
  BY <1>1 DEF RInv, Completion, Told
<1> QED BY <1>2, <1>3, <1>4, <1>5, <1>6, <1>7 DEF RInv

(* A thread goes on to a place that is not its end.                        *)
LEMMA AdvanceReports ==
  ASSUME IInv, IInv', RInv, NEW i \in Slot, NEW pc \in ThreadPC \ {"exit"},
         tpc' = [tpc EXCEPT ![i] = pc], tpc[i] \notin {"progress", "exit"},
         ~ServerEnded, ~ServerEnded', mpc' = "monitor" => mpc = "monitor",
         mpc' \in {"accept", "index", "spawn", "initwait"} =>
           mpc \in {"accept", "index", "spawn", "initwait"},
         sendingCount = 0 => sendingCount' = 0,
         UNCHANGED <<slot, progress, scan, finished, hasError, cpc, sent,
                     backlog, copen, sopen>>,
         \A x \in Session : x # slot[i] =>
            toServer'[x] = toServer[x] /\ toClient'[x] = toClient[x],
         \A x \in Session : Piece(x),
         pc # "progress" => UNCHANGED toClient
                            \/ \E k \in {"head", "items"} : slot[i] \in Session
                                 /\ toClient' = [toClient EXCEPT ![slot[i]] = Append(@, k)]
  PROVE  RInv'
<1>1. LiveEnds'
  BY DEF RInv, LiveEnds
<1>2. Places'
  BY Types DEF RInv, Places
<1>3. Reports'
  <2>1. SUFFICES ASSUME NEW x \in Session
                 PROVE  /\ cpc[x] \notin {"work"} \cup Over => sent[x] = 0
                        /\ \A a \in DOMAIN toServer'[x] :
                              toServer'[x][a].count <= sent[x] \/ cpc[x] \in Over
                        /\ \A a, b \in DOMAIN toServer'[x] :
                              a <= b => \/ toServer'[x][a].count <= toServer'[x][b].count
                                        \/ Lower(cpc[x], toServer'[x][b])
    BY DEF Reports
  <2> QED BY PieceKeeps DEF RInv, Reports
<1>4. Progress'
  <2>1. SUFFICES ASSUME NEW j \in Slot
                 PROVE  /\ tpc'[j] \notin {"progress", "exit"} => progress[j] = 0
                        /\ tpc'[j] = "progress" => progress[j] >= 0
                        /\ progress[j] = -1 => slot[j] \in Session
                        /\ slot[j] \in Session =>
                             /\ progress[j] <= sent[slot[j]] \/ cpc[slot[j]] \in Over
                             /\ \A a \in DOMAIN toServer'[slot[j]] :
                                   \/ progress[j] <= toServer'[slot[j]][a].count
                                   \/ Lower(cpc[slot[j]], toServer'[slot[j]][a])
    BY DEF Progress
  <2>2. tpc'[j] = IF j = i THEN pc ELSE tpc[j]
    BY Types
  <2>3. progress[i] = 0
    BY DEF RInv, Progress
  <2>4. slot[j] \in Session => \A a \in DOMAIN toServer'[slot[j]] :
           \E b \in DOMAIN toServer[slot[j]] : toServer'[slot[j]][a] = toServer[slot[j]][b]
    BY PieceKeeps DEF RInv
  <2> QED BY <2>2, <2>3, <2>4, Types DEF RInv, Progress
<1>5. Errors'
  <2>1. ASSUME NEW x \in Session
        PROVE  /\ cpc[x] \notin Over => \A a \in DOMAIN toServer'[x] : toServer'[x][a].state # Failed
               /\ cpc[x] = "error" => sendingCount' = 0
    BY PieceKeeps DEF RInv, Errors
  <2>2. ASSUME NEW j \in Slot, slot[j] \in Session
        PROVE  /\ Told(slot[j])' => tpc'[j] = "progress"
               /\ cpc[slot[j]] = "error" =>
                    \/ progress[j] = -2
                    \/ /\ tpc'[j] = "progress"
                       /\ \E a \in DOMAIN toServer'[slot[j]] :
                             toServer'[slot[j]][a].state = Failed
    <3>1. CASE j = i
      <4>1. ~Told(slot[i]) /\ cpc[slot[i]] # "error"
        BY <2>2, <3>1 DEF RInv, Errors, Progress
      <4>2. pc # "progress" => ~Told(slot[i])'
        <5> SUFFICES ASSUME pc # "progress" PROVE ~Told(slot[i])'
          OBVIOUS
        <5>1. toClient[slot[i]] \in Seq({"head", "items", "go"})
          BY <2>2, <3>1, Types
        <5>2. \A k \in DOMAIN toClient'[slot[i]] :
                 \/ /\ k \in DOMAIN toClient[slot[i]]
                    /\ toClient'[slot[i]][k] = toClient[slot[i]][k]
                 \/ toClient'[slot[i]][k] # "go"
          <6>1. CASE UNCHANGED toClient
            BY <6>1
          <6>2. ASSUME NEW d \in {"head", "items"},
                       toClient' = [toClient EXCEPT ![slot[i]] = Append(@, d)]
                PROVE  \A k \in DOMAIN toClient'[slot[i]] :
                         \/ /\ k \in DOMAIN toClient[slot[i]]
                            /\ toClient'[slot[i]][k] = toClient[slot[i]][k]
                         \/ toClient'[slot[i]][k] # "go"
            <7>1. toClient'[slot[i]] = Append(toClient[slot[i]], d)
              BY <6>2, <2>2, <3>1, Types
            <7> QED BY <5>1, <7>1
          <6> QED BY <6>1, <6>2
        <5> QED BY <4>1, <5>2 DEF Told
      <4> QED BY <3>1, <4>1, <4>2, Types
    <3>2. CASE j # i
      <4>1. slot[j] # slot[i]
        BY <2>2, <3>2 DEF RInv, Places
      <4>2. /\ toServer'[slot[j]] = toServer[slot[j]] /\ tpc'[j] = tpc[j]
            /\ toClient'[slot[j]] = toClient[slot[j]]
        BY <4>1, <3>2, <2>2, Types
      <4> QED BY <4>2, <2>2 DEF RInv, Errors, Told
    <3> QED BY <3>1, <3>2
  <2> QED BY <2>1, <2>2 DEF Errors
<1>6. Pass'
  BY DEF RInv, Pass
<1>7. Completion'
  BY DEF ServerEnded, Completion
<1> QED BY <1>1, <1>2, <1>3, <1>4, <1>5, <1>6, <1>7 DEF RInv

(* A thread ends with -2, or with -1 when its client has no error.         *)
LEMMA EndReports ==
  ASSUME IInv, IInv', RInv, NEW i \in Slot, NEW p \in {-1, -2}, ThreadEnds(i, p),
         tpc[i] \notin {"none", "exit"}, ~ServerEnded,
         UNCHANGED <<mpc, slot, sendingCount, scan, finished, hasError, cpc, sent,
                     backlog, copen, toClient>>,
         \A x \in Session : Piece(x),
         \A x \in Session : x # slot[i] => toServer'[x] = toServer[x],
         p = -1 => slot[i] \in Session,
         slot[i] \in Session => ~Told(slot[i]),
         slot[i] \in Session /\ cpc[slot[i]] = "error" => p = -2
  PROVE  RInv'
<1>0. /\ progress' = [progress EXCEPT ![i] = p]
      /\ tpc' = [tpc EXCEPT ![i] = "exit"]
      /\ sopen' = [sopen EXCEPT ![slot[i]] = FALSE]
  BY DEF ThreadEnds
<1>a. \A j \in Slot : /\ tpc'[j] = IF j = i THEN "exit" ELSE tpc[j]
                      /\ progress'[j] = IF j = i THEN p ELSE progress[j]
  BY <1>0, Types
<1>b. progress[i] >= 0
  BY Types DEF RInv, Progress
<1>1. LiveEnds'
  BY DEF RInv, LiveEnds
<1>2. Places'
  <2>1. \A x \in backlog : x # slot[i]
    BY Types DEF RInv, Places
  <2>2. \A x \in Session : x # slot[i] => sopen'[x] = sopen[x]
    BY <1>0, Types
  <2>3. \A j \in Slot : slot[j] \in Session /\ tpc'[j] # "exit" => sopen'[slot[j]]
    <3> SUFFICES ASSUME NEW j \in Slot, slot[j] \in Session, tpc'[j] # "exit"
                 PROVE  sopen'[slot[j]]
      OBVIOUS
    <3>1. j # i /\ tpc[j] # "exit"
      BY <1>a
    <3>2. slot[j] # slot[i]
      BY <3>1 DEF RInv, Places
    <3> QED BY <3>1, <3>2, <2>2 DEF RInv, Places
  <2> QED BY <2>1, <2>2, <2>3, Types DEF RInv, Places
<1>3. Reports'
  <2>1. SUFFICES ASSUME NEW x \in Session
                 PROVE  /\ cpc[x] \notin {"work"} \cup Over => sent[x] = 0
                        /\ \A a \in DOMAIN toServer'[x] :
                              toServer'[x][a].count <= sent[x] \/ cpc[x] \in Over
                        /\ \A a, b \in DOMAIN toServer'[x] :
                              a <= b => \/ toServer'[x][a].count <= toServer'[x][b].count
                                        \/ Lower(cpc[x], toServer'[x][b])
    BY DEF Reports
  <2> QED BY PieceKeeps DEF RInv, Reports
<1>4. Progress'
  <2>1. SUFFICES ASSUME NEW j \in Slot
                 PROVE  /\ tpc'[j] \notin {"progress", "exit"} => progress'[j] = 0
                        /\ tpc'[j] = "progress" => progress'[j] >= 0
                        /\ progress'[j] = -1 => slot[j] \in Session
                        /\ slot[j] \in Session =>
                             /\ progress'[j] <= sent[slot[j]] \/ cpc[slot[j]] \in Over
                             /\ \A a \in DOMAIN toServer'[slot[j]] :
                                   \/ progress'[j] <= toServer'[slot[j]][a].count
                                   \/ Lower(cpc[slot[j]], toServer'[slot[j]][a])
    BY DEF Progress
  <2>2. slot[j] \in Session => \A a \in DOMAIN toServer'[slot[j]] :
           \E b \in DOMAIN toServer[slot[j]] : toServer'[slot[j]][a] = toServer[slot[j]][b]
    BY PieceKeeps DEF RInv
  <2>3. CASE j = i
    <3>1. progress'[j] <= progress[j] /\ tpc'[j] = "exit" /\ progress'[j] = p
      BY <1>a, <1>b, <2>3, Types
    <3>2. slot[j] \in Session =>
            /\ progress[j] <= sent[slot[j]] \/ cpc[slot[j]] \in Over
            /\ \A b \in DOMAIN toServer[slot[j]] :
                  \/ progress[j] <= toServer[slot[j]][b].count
                  \/ Lower(cpc[slot[j]], toServer[slot[j]][b])
      BY DEF RInv, Progress
    <3>3. progress'[j] \in Int /\ progress[j] \in Int
          /\ (slot[j] \in Session => sent[slot[j]] \in Int
              /\ \A b \in DOMAIN toServer[slot[j]] : toServer[slot[j]][b].count \in Int)
      <4>1. slot[j] \in Session =>
              \A b \in DOMAIN toServer[slot[j]] : toServer[slot[j]][b] \in Msg
        BY Types
      <4>2. \A m \in Msg : m.count \in Int
        BY Types DEF Msg
      <4> QED BY <4>1, <4>2, <1>a, Types
    <3> QED BY <2>3, <3>1, <3>2, <3>3, <2>2
  <2>4. CASE j # i
    BY <2>4, <1>a, <2>2 DEF RInv, Progress
  <2> QED BY <2>3, <2>4
<1>5. Errors'
  <2>1. ASSUME NEW x \in Session
        PROVE  /\ cpc[x] \notin Over => \A a \in DOMAIN toServer'[x] : toServer'[x][a].state # Failed
               /\ cpc[x] = "error" => sendingCount = 0
    BY PieceKeeps DEF RInv, Errors
  <2>2. ASSUME NEW j \in Slot, slot[j] \in Session
        PROVE  /\ Told(slot[j])' => tpc'[j] = "progress"
               /\ cpc[slot[j]] = "error" =>
                    \/ progress'[j] = -2
                    \/ /\ tpc'[j] = "progress"
                       /\ \E a \in DOMAIN toServer'[slot[j]] :
                             toServer'[slot[j]][a].state = Failed
    <3>1. CASE j = i
      BY <3>1, <2>2, <1>a DEF Told
    <3>2. CASE j # i
      <4>1. slot[j] # slot[i]
        BY <2>2, <3>2 DEF RInv, Places
      <4>2. toServer'[slot[j]] = toServer[slot[j]]
        BY <4>1, <2>2
      <4> QED BY <4>2, <3>2, <2>2, <1>a DEF RInv, Errors, Told
    <3> QED BY <3>1, <3>2
  <2> QED BY <2>1, <2>2 DEF Errors
<1>6. Pass'
  BY <1>a, <1>b, Types DEF RInv, Pass
<1>7. Completion'
  BY DEF ServerEnded, Completion
<1> QED BY <1>1, <1>2, <1>3, <1>4, <1>5, <1>6, <1>7 DEF RInv

(* A thread takes a count from its client.                                 *)
LEMMA CountReports ==
  ASSUME IInv, IInv', RInv, NEW i \in Slot, tpc[i] = "progress", ~ServerEnded,
         slot[i] \in Session, toServer[slot[i]] # <<>>,
         Head(toServer[slot[i]]).state # Failed,
         progress' = [progress EXCEPT ![i] = Head(toServer[slot[i]]).count],
         toServer' = [toServer EXCEPT ![slot[i]] = Tail(@)],
         UNCHANGED <<mpc, slot, tpc, sendingCount, scan, finished, hasError, cpc,
                     sent, backlog, copen, sopen, toClient>>
  PROVE  RInv'
<1> DEFINE x == slot[i]
           q == toServer[x]
<1>1. /\ q \in Seq(Msg) /\ q # <<>> /\ toServer'[x] = Tail(q)
      /\ \A y \in Session : y # x => toServer'[y] = toServer[y]
      /\ \A j \in Slot : progress'[j] = IF j = i THEN Head(q).count ELSE progress[j]
  BY Types
<1>2. /\ 1 \in DOMAIN q /\ Head(q) = q[1]
      /\ \A a \in DOMAIN Tail(q) : a + 1 \in DOMAIN q /\ Tail(q)[a] = q[a + 1] /\ 1 <= a + 1
  BY <1>1
<1>3. \A y \in Session : Piece(y)
  BY <1>1, PieceFacts
<1>4. progress[i] >= 0 /\ Head(q).count >= 0 /\ Head(q).count \in Int
      /\ progress[i] \in Int
  <2>1. q[1] \in Msg
    BY <1>1, <1>2
  <2> QED BY <1>2, <2>1, Types DEF RInv, Progress, Msg
<1>5. LiveEnds' /\ Places' /\ Completion'
  BY DEF RInv, LiveEnds, Places, Completion, Told, ServerEnded
<1>6. Reports'
  <2>1. SUFFICES ASSUME NEW y \in Session
                 PROVE  /\ cpc[y] \notin {"work"} \cup Over => sent[y] = 0
                        /\ \A a \in DOMAIN toServer'[y] :
                              toServer'[y][a].count <= sent[y] \/ cpc[y] \in Over
                        /\ \A a, b \in DOMAIN toServer'[y] :
                              a <= b => \/ toServer'[y][a].count <= toServer'[y][b].count
                                        \/ Lower(cpc[y], toServer'[y][b])
    BY DEF Reports
  <2> QED BY <1>3, PieceKeeps DEF RInv, Reports
<1>7. Progress'
  <2>1. SUFFICES ASSUME NEW j \in Slot
                 PROVE  /\ tpc[j] \notin {"progress", "exit"} => progress'[j] = 0
                        /\ tpc[j] = "progress" => progress'[j] >= 0
                        /\ progress'[j] = -1 => slot[j] \in Session
                        /\ slot[j] \in Session =>
                             /\ progress'[j] <= sent[slot[j]] \/ cpc[slot[j]] \in Over
                             /\ \A a \in DOMAIN toServer'[slot[j]] :
                                   \/ progress'[j] <= toServer'[slot[j]][a].count
                                   \/ Lower(cpc[slot[j]], toServer'[slot[j]][a])
    BY DEF Progress
  <2>2. CASE j = i
    <3>1. progress'[j] = q[1].count /\ progress'[j] >= 0
      BY <1>1, <1>2, <1>4, <2>2
    <3>2. q[1].count <= sent[x] \/ cpc[x] \in Over
      BY <1>2 DEF RInv, Reports
    <3>3. \A a \in DOMAIN Tail(q) :
            q[1].count <= Tail(q)[a].count \/ Lower(cpc[x], Tail(q)[a])
      BY <1>2 DEF RInv, Reports
    <3> QED BY <1>1, <2>2, <3>1, <3>2, <3>3
  <2>3. CASE j # i
    <3>1. slot[j] \in Session => slot[j] # x
      BY <2>3 DEF RInv, Places
    <3> QED BY <2>3, <3>1, <1>1 DEF RInv, Progress
  <2> QED BY <2>2, <2>3
<1>8. Errors'
  <2>1. ASSUME NEW y \in Session
        PROVE  /\ cpc[y] \notin Over => \A a \in DOMAIN toServer'[y] : toServer'[y][a].state # Failed
               /\ cpc[y] = "error" => sendingCount = 0
    BY <1>3, PieceKeeps DEF RInv, Errors
  <2>2. ASSUME NEW j \in Slot, slot[j] \in Session, cpc[slot[j]] = "error"
        PROVE  \/ progress'[j] = -2
               \/ /\ tpc[j] = "progress"
                  /\ \E a \in DOMAIN toServer'[slot[j]] :
                        toServer'[slot[j]][a].state = Failed
    <3>1. CASE j = i
      <4>1. PICK b \in DOMAIN q : q[b].state = Failed
        BY <1>4, <2>2, <3>1 DEF RInv, Errors
      <4>2. b - 1 \in DOMAIN Tail(q) /\ Tail(q)[b - 1] = q[b]
        <5>1. b # 1
          BY <1>2, <4>1
        <5>2. b \in 1 .. Len(q) /\ Len(Tail(q)) = Len(q) - 1
          BY <1>1
        <5> QED BY <1>1, <5>1, <5>2
      <4> QED BY <4>1, <4>2, <1>1, <3>1
    <3>2. CASE j # i
      <4>1. slot[j] # x
        BY <2>2, <3>2 DEF RInv, Places
      <4> QED BY <4>1, <3>2, <2>2, <1>1 DEF RInv, Errors
    <3> QED BY <3>1, <3>2
  <2>3. \A j \in Slot : slot[j] \in Session /\ Told(slot[j])' => tpc[j] = "progress"
    BY DEF RInv, Errors, Told
  <2> QED BY <2>1, <2>2, <2>3 DEF Errors
<1>9. Pass'
  <2>1. ASSUME mpc = "monitor", finished = scan, NEW j \in Slot, j < scan
        PROVE  progress'[j] < 0 /\ (progress'[j] = -2 => hasError)
    <3>1. progress[j] < 0 /\ (progress[j] = -2 => hasError)
      BY <2>1 DEF RInv, Pass
    <3>2. j # i
      BY <3>1, <1>4
    <3> QED BY <3>1, <3>2, <1>1
  <2> QED BY <2>1 DEF RInv, Pass
<1> QED BY <1>5, <1>6, <1>7, <1>8, <1>9 DEF RInv

(* SIGPIPE ends the server.                                                *)
LEMMA KilledReports ==
  ASSUME IInv, IInv', RInv, ServerExit("killed"),
         UNCHANGED <<slot, progress, sendingCount, cpc, sent, copen, toClient,
                     toServer>>
  PROVE  RInv'
BY ExitReports

(* The two threads of sends that may fail.                                 *)
LEMMA SendReports ==
  ASSUME IInv, IInv', RInv, NEW i \in Slot, NEW data \in {"head", "items"},
         NEW ok \in {"items", "wait"}, tpc[i] \in {"head", "items"},
         slot[i] \in Session,
         SendTo(i, data, ok, ThreadEnds(i, -2)),
         UNCHANGED <<slot, sendingCount, scan, finished, hasError, cpc, sent,
                     copen, toServer>>
  PROVE  RInv'
<1>0. ~ServerEnded
  BY DEF IInv, Threads
<1>1. \A x \in Session : Piece(x)
  BY PieceFacts
<1>2. ok \in ThreadPC \ {"exit"} /\ ok # "progress"
  BY DEF ThreadPC
<1>3. ASSUME UNCHANGED <<mpc, progress, backlog, sopen>>,
             tpc' = [tpc EXCEPT ![i] = ok],
             UNCHANGED toClient
             \/ toClient' = [toClient EXCEPT ![slot[i]] = Append(@, data)]
      PROVE  RInv'
  <2>1. \A x \in Session : x # slot[i] => toClient'[x] = toClient[x]
    BY <1>3, Types
  <2>2. ~ServerEnded'
    BY <1>0, <1>3 DEF ServerEnded
  <2> QED BY <1>0, <1>1, <1>2, <1>3, <2>1, <2>2, AdvanceReports
<1>4. ASSUME ThreadEnds(i, -2), ~copen[slot[i]], UNCHANGED <<mpc, backlog, toClient>>
      PROVE  RInv'
  <2>1. ~Told(slot[i])
    BY <1>0 DEF RInv, Errors
  <2> QED BY <1>0, <1>1, <1>4, <2>1, EndReports
<1>5. ASSUME ServerExit("killed"), UNCHANGED <<progress, toClient>> PROVE RInv'
  BY <1>5, KilledReports
<1> QED BY <1>3, <1>4, <1>5 DEF SendTo

(* client_thread                                                           *)
LEMMA ThreadReports ==
  ASSUME IInv, IInv', RInv, NEW i \in Slot, Thread(i)
  PROVE  RInv'
<1>0. /\ tpc[i] \notin {"none", "exit"} => ~ServerEnded
      /\ tpc[i] \notin {"none", "head", "exit"} => slot[i] \in Session
      /\ slot[i] \in Session \cup {NoSession}
  BY Types DEF IInv, Threads, Slots
<1>1. CASE SendHead(i)
  <2>1. CASE slot[i] = NoSession
    <3>1. slot[i] \notin Session
      BY <2>1, ServerAssumption
    <3>2. ThreadEnds(i, -2) /\ UNCHANGED <<mpc, backlog, toClient>>
      BY <1>1, <2>1 DEF SendHead
    <3>3. UNCHANGED <<slot, sendingCount, scan, finished, hasError, cpc, sent, copen,
                      toServer>>
      BY <1>1 DEF SendHead, clientVars
    <3>4. \A x \in Session : Piece(x)
      BY <3>3, PieceFacts
    <3>5. tpc[i] = "head"
      BY <1>1 DEF SendHead
    <3> QED BY <1>0, <3>1, <3>2, <3>3, <3>4, <3>5, EndReports
  <2>2. CASE slot[i] # NoSession
    <3>1. /\ SendTo(i, "head", "items", ThreadEnds(i, -2)) /\ tpc[i] = "head"
          /\ UNCHANGED <<slot, sendingCount, scan, finished, hasError, cpc, sent, copen,
                         toServer>>
      BY <1>1, <2>2 DEF SendHead, clientVars
    <3> QED BY <1>0, <2>2, <3>1, SendReports
  <2> QED BY <2>1, <2>2
<1>2. CASE SendItems(i)
  <2>1. /\ SendTo(i, "items", "wait", ThreadEnds(i, -2)) /\ tpc[i] = "items"
        /\ UNCHANGED <<slot, sendingCount, scan, finished, hasError, cpc, sent, copen,
                       toServer>>
    BY <1>2 DEF SendItems, clientVars
  <2> QED BY <1>0, <2>1, SendReports
<1>3. CASE AwaitReady(i)
  <2>0. /\ tpc[i] = "wait" /\ ~ServerEnded /\ slot[i] \in Session
        /\ UNCHANGED <<mpc, slot, sendingCount, scan, finished, hasError, cpc, sent,
                       backlog, copen, toClient>>
    BY <1>0, <1>3 DEF AwaitReady, clientVars
  <2>1. CASE Pop(slot[i]) /\ tpc' = [tpc EXCEPT ![i] = "count"]
             /\ UNCHANGED <<progress, sopen>>
    <3>1. \A x \in Session : Piece(x) /\ (x # slot[i] => toServer'[x] = toServer[x])
      BY <2>0, <2>1, PieceFacts, Types DEF Pop
    <3>2. ~ServerEnded' /\ "count" \in ThreadPC
      BY <2>0 DEF ServerEnded, ThreadPC
    <3> QED BY <2>0, <2>1, <3>1, <3>2, AdvanceReports
  <2>2. CASE Ended(slot[i]) /\ ThreadEnds(i, -2) /\ UNCHANGED toServer
    <3>1. \A x \in Session : Piece(x)
      BY <2>2, PieceFacts
    <3>2. ~Told(slot[i])
      BY <2>0 DEF RInv, Errors
    <3> QED BY <2>0, <2>2, <3>1, <3>2, EndReports
  <2> QED BY <1>3, <2>1, <2>2 DEF AwaitReady
<1>4. CASE CountDown(i) \/ PassBarrier(i)
  <2>1. PICK pc \in {"barrier", "start"} : tpc' = [tpc EXCEPT ![i] = pc]
    BY <1>4 DEF CountDown, PassBarrier
  <2>2. /\ tpc[i] \in {"count", "barrier"}
        /\ UNCHANGED <<mpc, slot, progress, scan, finished, hasError, cpc, sent,
                       backlog, copen, sopen, toClient, toServer>>
        /\ sendingCount' = sendingCount \/ sendingCount' = sendingCount - 1
    BY <1>4 DEF CountDown, PassBarrier, clientVars, netVars
  <2>3. sendingCount = 0 => sendingCount' = 0
    <3>1. sendingCount' >= 0 /\ sendingCount' \in Int
      BY ServerAssumption DEF IInv, TypeOK
    <3> QED BY <2>2, <3>1, Types
  <2>4. ~ServerEnded /\ ~ServerEnded' /\ pc \in ThreadPC /\ \A x \in Session : Piece(x)
    BY <1>0, <2>2, PieceFacts DEF ServerEnded, ThreadPC
  <2> QED BY <2>1, <2>2, <2>3, <2>4, AdvanceReports
<1>5. CASE SendStart(i)
  <2>0. /\ tpc[i] = "start" /\ ~ServerEnded /\ slot[i] \in Session
        /\ UNCHANGED <<slot, sendingCount, scan, finished, hasError, cpc, sent, copen,
                       toServer>>
        /\ \A x \in Session : Piece(x)
    BY <1>0, <1>5, PieceFacts DEF SendStart, clientVars
  <2>1. ASSUME tpc' = [tpc EXCEPT ![i] = "progress"],
               UNCHANGED <<mpc, progress, backlog, sopen>>,
               UNCHANGED toClient
               \/ toClient' = [toClient EXCEPT ![slot[i]] = Append(@, "go")]
        PROVE  RInv'
    <3>1. \A x \in Session : x # slot[i] => toClient'[x] = toClient[x]
      BY <2>1, Types
    <3>2. ~ServerEnded' /\ "progress" \in ThreadPC
      BY <2>0, <2>1 DEF ServerEnded, ThreadPC
    <3> QED BY <2>0, <2>1, <3>1, <3>2, AdvanceReports
  <2>2. ASSUME ServerExit("killed"), UNCHANGED <<progress, toClient>> PROVE RInv'
    BY <2>0, <2>2, KilledReports
  <2>3. SendTo(i, "go", "progress",
               tpc' = [tpc EXCEPT ![i] = "progress"] /\ UNCHANGED <<progress, sopen>>)
    BY <1>5 DEF SendStart
  <2> QED BY <2>1, <2>2, <2>3 DEF SendTo
<1>6. CASE ReadProgress(i)
  <2> DEFINE x == slot[i]
  <2>0. /\ tpc[i] = "progress" /\ ~ServerEnded /\ x \in Session
        /\ UNCHANGED <<mpc, slot, sendingCount, scan, finished, hasError, cpc, sent,
                       backlog, copen, toClient>>
    BY <1>0, <1>6 DEF ReadProgress, clientVars
  <2>1. CASE Pop(x)
    <3>1. /\ \A y \in Session : Piece(y) /\ (y # x => toServer'[y] = toServer[y])
          /\ toServer[x] # <<>> /\ toServer' = [toServer EXCEPT ![x] = Tail(@)]
      BY <2>0, <2>1, PieceFacts, Types DEF Pop
    <3>2. CASE Head(toServer[x]).state = Failed
      <4>1. toServer[x] \in Seq(Msg) /\ 1 \in DOMAIN toServer[x]
            /\ Head(toServer[x]) = toServer[x][1]
        BY <2>0, <3>1, Types
      <4>2. cpc[x] \in Over
        BY <2>0, <3>2, <4>1 DEF RInv, Errors
      <4>3. ~copen[x]
        BY <2>0, <4>2 DEF RInv, LiveEnds
      <4>4. ~Told(x)
        BY <4>2, <4>3 DEF Told, Over
      <4>5. ThreadEnds(i, -2)
        BY <1>6, <2>1, <2>0, <3>1, <3>2 DEF ReadProgress, Ended
      <4> QED BY <2>0, <3>1, <4>4, <4>5, EndReports
    <3>3. CASE Head(toServer[x]).state # Failed
      <4>1. progress' = [progress EXCEPT ![i] = Head(toServer[x]).count]
            /\ UNCHANGED <<tpc, sopen>>
        BY <1>6, <2>1, <2>0, <3>1, <3>3 DEF ReadProgress, Ended
      <4> QED BY <2>0, <3>1, <3>3, <4>1, CountReports
    <3> QED BY <3>2, <3>3
  <2>2. CASE Ended(x) /\ ThreadEnds(i, -1) /\ UNCHANGED toServer
    <3>1. \A y \in Session : Piece(y)
      BY <2>2, PieceFacts
    <3>2. cpc[x] \in {"idle"} \cup Over /\ ~copen[x]
      BY <2>0, <2>2 DEF RInv, LiveEnds, Ended
    <3>3. ~Told(x)
      BY <3>2 DEF Told, Over
    <3>4. cpc[x] # "error"
      <4>1. DOMAIN toServer[x] = {} /\ progress[i] >= 0
        BY <2>0, <2>2 DEF Ended, RInv, Progress
      <4>2. cpc[x] = "error" =>
              progress[i] = -2 \/ \E a \in DOMAIN toServer[x] : TRUE
        BY <2>0 DEF RInv, Errors
      <4>3. progress[i] # -2
        BY <4>1, Types
      <4> QED BY <4>1, <4>2, <4>3
    <3> QED BY <2>0, <2>2, <3>1, <3>3, <3>4, EndReports
  <2> QED BY <1>6, <2>1, <2>2 DEF ReadProgress
<1> QED BY <1>1, <1>2, <1>3, <1>4, <1>5, <1>6 DEF Thread

(* main() of the server.                                                   *)
LEMMA MainReports ==
  ASSUME IInv, IInv', RInv, Main \/ AcceptNothing \/ ServerGivesUp
  PROVE  RInv'
<1>0. \A x \in Session : UNCHANGED toServer => Piece(x)
  BY PieceFacts
<1>1. CASE Accept \/ AcceptNothing
  <2>0. /\ mpc = "accept" /\ mpc' \in {"accept", "index"}
        /\ UNCHANGED <<tpc, progress, sendingCount, scan, finished, hasError, cpc, sent,
                       copen, toClient, toServer>>
        /\ backlog' \subseteq backlog /\ \A j \in Slot : tpc[j] = "none"
    <3>1. spawned = 0 /\ ~ServerEnded
      BY <1>1 DEF IInv, Threads, Accept, AcceptNothing, ServerEnded
    <3>2. \A j \in Slot : j >= 0
      BY SlotFacts
    <3> QED BY <1>1, <3>1, <3>2 DEF Accept, AcceptNothing, clientVars, IInv, Threads
  <2>1. \A x \in Session : ~Told(x) /\ cpc[x] # "error"
    <3>1. sendingCount # 0
      BY <2>0, ServerAssumption DEF IInv, Threads, Count
    <3> QED BY <3>1 DEF IInv, Count, GoOut, RInv, Errors, Told
  <2>2. Places'
    <3>1. CASE Accept
      <4>0. PICK x \in backlog, i \in Slot :
               /\ slot[i] = NoSession
               /\ slot' = [slot EXCEPT ![i] = x]
               /\ IF i = ClientCount - 1
                  THEN /\ mpc' = "index"
                       /\ sopen' = [y \in Session |-> sopen[y] /\ y \notin backlog \ {x}]
                       /\ backlog' = {}
                  ELSE /\ backlog' = backlog \ {x}
                       /\ UNCHANGED <<mpc, sopen>>
        BY <3>1 DEF Accept
      <4>1. /\ slot[i] = NoSession /\ slot' = [slot EXCEPT ![i] = x]
            /\ backlog' \subseteq backlog \ {x}
            /\ \/ UNCHANGED sopen
               \/ /\ backlog' = {}
                  /\ sopen' = [y \in Session |-> sopen[y] /\ y \notin backlog \ {x}]
        BY <4>0
      <4>2. x \in Session /\ slot[i] \notin Session
        BY <4>1, Types, ServerAssumption
      <4>3. \A j \in Slot : slot'[j] = IF j = i THEN x ELSE slot[j]
        BY <4>1, Types
      <4>4. \A j \in Slot : slot[j] \in Session => slot[j] \notin backlog
        BY DEF RInv, Places
      <4>5. \A j, k \in Slot : slot'[j] = slot'[k] /\ slot'[j] \in Session => j = k
        BY <4>1, <4>2, <4>3, <4>4 DEF RInv, Places
      <4>6. \A j \in Slot : slot'[j] \in Session =>
              /\ slot'[j] \notin backlog' /\ cpc[slot'[j]] # "idle" /\ sopen'[slot'[j]]
        <5> SUFFICES ASSUME NEW j \in Slot, slot'[j] \in Session
                     PROVE  /\ slot'[j] \notin backlog' /\ cpc[slot'[j]] # "idle"
                            /\ sopen'[slot'[j]]
          OBVIOUS
        <5>1. CASE j = i
          <6>1. slot'[j] = x /\ x \notin backlog'
            BY <4>1, <4>3, <5>1
          <6>2. cpc[x] # "idle" /\ sopen[x]
            BY DEF RInv, Places
          <6> QED BY <4>1, <4>2, <6>1, <6>2
        <5>2. CASE j # i
          <6>1. slot'[j] = slot[j] /\ slot[j] \notin backlog
            BY <4>3, <4>4, <5>2
          <6>2. cpc[slot[j]] # "idle" /\ sopen[slot[j]]
            BY <2>0, <6>1 DEF RInv, Places
          <6> QED BY <4>1, <6>1, <6>2
        <5> QED BY <5>1, <5>2
      <4>7. \A y \in backlog' : sopen'[y] /\ cpc[y] # "idle"
        BY <4>1 DEF RInv, Places
      <4> QED BY <2>0, <4>5, <4>6, <4>7 DEF Places
    <3>2. CASE AcceptNothing
      BY <2>0, <3>2, Types DEF AcceptNothing, RInv, Places
    <3> QED BY <1>1, <3>1, <3>2
  <2>3. LiveEnds' /\ Reports' /\ Pass' /\ Completion'
    BY <2>0 DEF RInv, LiveEnds, Reports, Pass, Completion
  <2>4. Progress'
    <3>1. ASSUME NEW j \in Slot
          PROVE  /\ progress[j] = 0
                 /\ slot'[j] \in Session =>
                      /\ 0 <= sent[slot'[j]]
                      /\ \A a \in DOMAIN toServer[slot'[j]] : 0 <= toServer[slot'[j]][a].count
      <4>1. progress[j] = 0
        BY <2>0 DEF RInv, Progress
      <4>2. slot'[j] \in Session => 0 <= sent[slot'[j]]
        BY ServerAssumption DEF IInv, TypeOK
      <4>3. \A y \in Session : \A a \in DOMAIN toServer[y] : toServer[y][a] \in Msg
        BY Types
      <4>4. \A m \in Msg : 0 <= m.count
        BY ServerAssumption DEF Msg
      <4> QED BY <4>1, <4>2, <4>3, <4>4
    <3>2. \A j \in Slot : progress'[j] = 0 /\ tpc'[j] = "none"
      BY <2>0, <3>1
    <3> QED BY <2>0, <3>1, <3>2 DEF Progress
  <2>5. Errors'
    BY <2>0, <2>1 DEF RInv, Errors, Told
  <2> QED BY <2>2, <2>3, <2>4, <2>5 DEF RInv
<1>2. CASE ServerGivesUp
  <2>1. ServerExit("failed")
        /\ UNCHANGED <<slot, progress, sendingCount, cpc, sent, copen, toClient, toServer>>
    BY <1>2 DEF ServerGivesUp, clientVars
  <2> QED BY <2>1, ExitReports
<1>3. CASE LoadIndex \/ InitComplete \/ ScanAgain
  <2>0. UNCHANGED <<slot, tpc, progress, sendingCount, hasError, cpc, sent, backlog,
                    copen, sopen, toClient, toServer>>
    BY <1>3 DEF LoadIndex, InitComplete, ScanAgain, clientVars, netVars
  <2>1. ~ServerEnded /\ ~ServerEnded' /\ mpc' # "complete"
    BY <1>3 DEF LoadIndex, InitComplete, ScanAgain, ServerEnded
  <2>2. Pass'
    <3>1. \A j \in Slot : ~(j < 0)
      BY SlotFacts
    <3> QED BY <1>3, <3>1 DEF LoadIndex, InitComplete, ScanAgain, RInv, Pass
  <2> QED BY <2>0, <2>1, <2>2
          DEF RInv, LiveEnds, Places, Reports, Progress, Errors, Told, Completion
<1>4. CASE Spawn
  <2>1. /\ spawned \in Slot /\ tpc[spawned] = "none" /\ ~ServerEnded /\ ~ServerEnded'
    <3>1. spawned \in Slot /\ mpc = "spawn"
      BY <1>4, ServerAssumption DEF Spawn, IInv, TypeOK, Threads, Slot
    <3>2. tpc[spawned] = "none"
      BY <3>1, SlotFacts DEF IInv, Threads, ServerEnded
    <3> QED BY <1>4, <3>1, <3>2 DEF Spawn, ServerEnded
  <2>2. /\ tpc' = [tpc EXCEPT ![spawned] = "head"] /\ mpc = "spawn"
        /\ mpc' \in {"spawn", "initwait"}
        /\ UNCHANGED <<slot, progress, sendingCount, scan, finished, hasError, cpc, sent,
                       backlog, copen, sopen, toClient, toServer>>
    BY <1>4 DEF Spawn, clientVars, netVars
  <2>3. "head" \in ThreadPC \ {"exit"}
    BY DEF ThreadPC
  <2> QED BY <1>0, <2>1, <2>2, <2>3, AdvanceReports
<1>5. CASE ScanSlot
  <2>1. UNCHANGED <<mpc, slot, tpc, progress, sendingCount, cpc, sent, backlog,
                    copen, sopen, toClient, toServer>>
    BY <1>5 DEF ScanSlot, clientVars, netVars
  <2>2. Pass'
    <3>0. /\ mpc = "monitor" /\ scan \in Slot /\ scan' = scan + 1
          /\ hasError' = (hasError \/ progress[scan] = -2)
          /\ finished' = IF progress[scan] < 0 THEN finished + 1 ELSE finished
          /\ finished <= scan
      BY <1>5, ServerAssumption DEF ScanSlot, NextError, IInv, TypeOK, Slot, Slots
    <3>1. ASSUME finished' = scan', NEW j \in Slot, j < scan'
          PROVE  progress[j] < 0 /\ (progress[j] = -2 => hasError')
      <4>1. progress[scan] < 0 /\ finished = scan
        BY <3>0, <3>1, Types
      <4>2. j = scan \/ j < scan
        BY <3>0, <3>1, Types
      <4>3. j < scan => progress[j] < 0 /\ (progress[j] = -2 => hasError)
        BY <3>0, <4>1 DEF RInv, Pass
      <4> QED BY <3>0, <4>1, <4>2, <4>3
    <3> QED BY <2>1, <3>0, <3>1 DEF Pass
  <2> QED BY <2>1, <2>2
          DEF RInv, LiveEnds, Places, Reports, Progress, Errors, Told, Completion,
              ServerEnded
<1>6. CASE Finish
  <2>1. ServerExit(IF hasError THEN "error" ELSE "complete")
        /\ UNCHANGED <<slot, progress, sendingCount, cpc, sent, copen, toClient, toServer>>
    BY <1>6 DEF Finish, clientVars
  <2>2. ASSUME ~hasError, NEW i \in Slot
        PROVE  slot[i] \in Session /\ cpc[slot[i]] # "error" /\ ~Told(slot[i])
    <3>1. i < scan /\ mpc = "monitor" /\ finished = scan /\ ~ServerEnded
      BY <1>6, SlotFacts, Types DEF Finish, IInv, Slots, ServerEnded
    <3>2. progress[i] < 0 /\ progress[i] # -2
      BY <2>2, <3>1 DEF RInv, Pass
    <3>3. progress[i] = -1
      BY <3>2, ServerAssumption DEF IInv, TypeOK
    <3>4. slot[i] \in Session /\ tpc[i] # "progress"
      BY <3>3 DEF RInv, Progress
    <3> QED BY <3>1, <3>2, <3>4 DEF RInv, Errors
  <2> QED BY <2>1, <2>2, ExitReports
<1> QED BY <1>1, <1>2, <1>3, <1>4, <1>5, <1>6 DEF Main

-----------------------------------------------------------------------------
(* The steps of a client.                                                  *)

(* What a step of session x must respect when the server does nothing.     *)
LEMMA SessionReports ==
  ASSUME IInv, IInv', RInv, NEW x \in Session, UNCHANGED serverVars,
         UNCHANGED <<backlog, sopen>>,
         \A y \in Session : y # x =>
            /\ cpc'[y] = cpc[y] /\ sent'[y] = sent[y] /\ copen'[y] = copen[y]
            /\ toClient'[y] = toClient[y] /\ toServer'[y] = toServer[y],
         copen'[x] <=> cpc'[x] \notin {"idle"} \cup Over,
         copen[x], cpc'[x] # "idle",
         cpc'[x] \notin {"work"} \cup Over => sent'[x] = 0,
         sent[x] <= sent'[x],
         \A a \in DOMAIN toServer'[x] :
            toServer'[x][a].count <= sent'[x] \/ cpc'[x] \in Over,
         \A a, b \in DOMAIN toServer'[x] :
            a <= b => \/ toServer'[x][a].count <= toServer'[x][b].count
                      \/ Lower(cpc'[x], toServer'[x][b]),
         \A a \in DOMAIN toServer'[x] :
            \/ \E b \in DOMAIN toServer[x] : toServer'[x][a].count = toServer[x][b].count
            \/ sent[x] <= toServer'[x][a].count
            \/ Lower(cpc'[x], toServer'[x][a]),
         cpc'[x] \notin Over => \A a \in DOMAIN toServer'[x] : toServer'[x][a].state # Failed,
         Told(x)' => Told(x),
         cpc'[x] = "error" =>
           /\ Told(x) /\ sendingCount = 0
           /\ sopen[x] => \E a \in DOMAIN toServer'[x] : toServer'[x][a].state = Failed
  PROVE  RInv'
<1>0. cpc[x] \notin {"idle"} \cup Over /\ cpc[x] # "error"
  BY DEF RInv, LiveEnds, Over
<1>1. LiveEnds'
  BY DEF RInv, LiveEnds
<1>2. Places'
  BY <1>0, Types DEF RInv, Places, serverVars
<1>3. Reports'
  BY DEF RInv, Reports
<1>4. Progress'
  <2>1. SUFFICES ASSUME NEW j \in Slot, slot[j] \in Session
                 PROVE  /\ progress[j] <= sent'[slot[j]] \/ cpc'[slot[j]] \in Over
                        /\ \A a \in DOMAIN toServer'[slot[j]] :
                              \/ progress[j] <= toServer'[slot[j]][a].count
                              \/ Lower(cpc'[slot[j]], toServer'[slot[j]][a])
    BY DEF RInv, Progress, serverVars
  <2>2. CASE slot[j] # x
    BY <2>1, <2>2 DEF RInv, Progress
  <2>3. CASE slot[j] = x
    <3>1. progress[j] <= sent[x]
      BY <1>0, <2>3 DEF RInv, Progress
    <3>2. /\ progress[j] \in Int /\ sent[x] \in Int /\ sent'[x] \in Int
          /\ \A a \in DOMAIN toServer'[x] : toServer'[x][a].count \in Int
      <4>1. 0 .. Asked \subseteq Int
        OBVIOUS
      <4>2. toServer'[x] \in Seq(Msg)
        BY DEF IInv, TypeOK, Msg
      <4>3. \A a \in DOMAIN toServer'[x] : toServer'[x][a] \in Msg
        BY <4>2
      <4> QED BY <4>1, <4>3, Types DEF IInv, TypeOK, Msg
    <3>3. \A b \in DOMAIN toServer[x] : progress[j] <= toServer[x][b].count
      BY <1>0, <2>3 DEF RInv, Progress, Errors, Lower, Over
    <3>4. progress[j] <= sent'[x]
      BY <3>1, <3>2
    <3>5. ASSUME NEW a \in DOMAIN toServer'[x]
          PROVE  \/ progress[j] <= toServer'[x][a].count
                 \/ Lower(cpc'[x], toServer'[x][a])
      BY <3>1, <3>2, <3>3
    <3> QED BY <2>3, <3>4, <3>5
  <2> QED BY <2>2, <2>3
<1>5. Errors'
  <2>1. ASSUME NEW y \in Session
        PROVE  /\ cpc'[y] \notin Over => \A a \in DOMAIN toServer'[y] : toServer'[y][a].state # Failed
               /\ cpc'[y] = "error" => sendingCount' = 0
    BY DEF RInv, Errors, serverVars
  <2>2. ASSUME NEW j \in Slot, slot[j] \in Session, ~ServerEnded
        PROVE  /\ Told(slot[j])' => tpc[j] = "progress"
               /\ cpc'[slot[j]] = "error" =>
                    \/ progress[j] = -2
                    \/ /\ tpc[j] = "progress"
                       /\ \E a \in DOMAIN toServer'[slot[j]] :
                             toServer'[slot[j]][a].state = Failed
    <3>1. CASE slot[j] = x
      <4>1. Told(x) => tpc[j] = "progress" /\ sopen[x]
        BY <2>2, <3>1 DEF RInv, Errors, Places
      <4> QED BY <3>1, <4>1 DEF serverVars
    <3>2. CASE slot[j] # x
      <4>1. Told(slot[j])' <=> Told(slot[j])
        BY <2>2, <3>2 DEF Told, serverVars
      <4> QED BY <2>2, <3>2, <4>1 DEF RInv, Errors
    <3> QED BY <3>1, <3>2
  <2> QED BY <2>1, <2>2 DEF Errors, serverVars, ServerEnded
<1>6. Pass'
  BY DEF RInv, Pass, serverVars
<1>7. Completion'
  <2>1. ASSUME mpc = "complete", NEW i \in Slot
        PROVE  slot[i] \in Session /\ cpc'[slot[i]] # "error" /\ ~Told(slot[i])'
    <3>1. slot[i] \in Session /\ cpc[slot[i]] # "error" /\ ~Told(slot[i])
      BY <2>1 DEF RInv, Completion
    <3>2. slot[i] # x => (Told(slot[i])' <=> Told(slot[i]))
      BY <3>1 DEF Told, serverVars
    <3> QED BY <3>1, <3>2 DEF serverVars
  <2> QED BY <2>1 DEF Completion, serverVars
<1> QED BY <1>1, <1>2, <1>3, <1>4, <1>5, <1>6, <1>7 DEF RInv

(* What a client appends to its reports.                                   *)
LEMMA AppendReports ==
  ASSUME IInv, IInv', RInv, NEW x \in Session, cpc[x] \notin Over, NEW m \in Msg,
         toServer' = [toServer EXCEPT ![x] = IF sopen[x] THEN Append(@, m) ELSE @],
         NEW how, sent[x] <= m.count \/ Lower(how, m)
  PROVE  /\ \A a, b \in DOMAIN toServer'[x] :
               a <= b => \/ toServer'[x][a].count <= toServer'[x][b].count
                         \/ Lower(how, toServer'[x][b])
         /\ \A a \in DOMAIN toServer'[x] :
               \/ \E b \in DOMAIN toServer[x] : toServer'[x][a] = toServer[x][b]
               \/ toServer'[x][a] = m
         /\ sopen[x] => \E a \in DOMAIN toServer'[x] : toServer'[x][a] = m
         /\ \A y \in Session : y # x => toServer'[y] = toServer[y]
<1> DEFINE q == toServer[x]
<1>1. q \in Seq(Msg) /\ toServer'[x] = IF sopen[x] THEN Append(q, m) ELSE q
  BY Types
<1>2. /\ \A a \in DOMAIN Append(q, m) :
            (a \in DOMAIN q /\ Append(q, m)[a] = q[a])
            \/ (a = Len(q) + 1 /\ Append(q, m)[a] = m)
      /\ Len(q) + 1 \in DOMAIN Append(q, m)
      /\ \A a \in DOMAIN q : a \in Int /\ a <= Len(q) /\ q[a] \in Msg
      /\ Len(q) \in Int
  BY <1>1
<1>3. \A a \in DOMAIN q : q[a].count <= m.count \/ Lower(how, m)
  <2>1. ASSUME NEW a \in DOMAIN q PROVE q[a].count <= m.count \/ Lower(how, m)
    <3>1. q[a].count <= sent[x]
      BY DEF RInv, Reports
    <3>2. q[a].count \in Int /\ m.count \in Int /\ sent[x] \in Int
      BY <1>2, Types DEF Msg
    <3> QED BY <3>1, <3>2
  <2> QED BY <2>1
<1>4. m.count \in Int
  BY Types DEF Msg
<1>5. \A a, b \in DOMAIN q : a <= b => q[a].count <= q[b].count
  BY DEF RInv, Reports, Errors, Lower, Over
<1>6. \A a, b \in DOMAIN Append(q, m) :
         a <= b => \/ Append(q, m)[a].count <= Append(q, m)[b].count
                   \/ Lower(how, Append(q, m)[b])
  BY <1>2, <1>3, <1>4, <1>5
<1>7. \A y \in Session : y # x => toServer'[y] = toServer[y]
  BY Types
<1>8. CASE sopen[x]
  <2>1. toServer'[x] = Append(q, m)
    BY <1>1, <1>8
  <2>2. \A a \in DOMAIN Append(q, m) :
           (\E b \in DOMAIN q : Append(q, m)[a] = q[b]) \/ Append(q, m)[a] = m
    BY <1>2
  <2>3. \E a \in DOMAIN Append(q, m) : Append(q, m)[a] = m
    <3>1. Len(q) + 1 \in DOMAIN Append(q, m) /\ Append(q, m)[Len(q) + 1] = m
      BY <1>1
    <3> QED BY <3>1
  <2> QED BY <1>6, <1>7, <2>1, <2>2, <2>3
<1>9. CASE ~sopen[x]
  <2>1. toServer'[x] = q
    BY <1>1, <1>9
  <2> QED BY <1>5, <1>7, <1>9, <2>1
<1> QED BY <1>8, <1>9

(* A session that moves on without a word to the server.                   *)
LEMMA QuietReports ==
  ASSUME IInv, IInv', RInv, NEW x \in Session, UNCHANGED serverVars,
         UNCHANGED <<backlog, sopen>>,
         \A y \in Session : y # x =>
            /\ cpc'[y] = cpc[y] /\ sent'[y] = sent[y] /\ copen'[y] = copen[y]
            /\ toClient'[y] = toClient[y] /\ toServer'[y] = toServer[y],
         Piece(x),
         copen'[x] <=> cpc'[x] \notin {"idle"} \cup Over,
         copen[x], cpc'[x] \notin {"idle", "error"},
         cpc'[x] \notin {"work"} \cup Over => sent'[x] = 0,
         sent[x] <= sent'[x],
         Told(x)' => Told(x)
  PROVE  RInv'
<1>1. cpc[x] \notin Over
  BY DEF RInv, LiveEnds
<1>2. \A a \in DOMAIN toServer'[x] : \E b \in DOMAIN toServer[x] :
         toServer'[x][a] = toServer[x][b]
  BY PieceKeeps DEF RInv
<1>3. \A a \in DOMAIN toServer'[x] : toServer'[x][a].count <= sent'[x]
  <2>1. ASSUME NEW b \in DOMAIN toServer[x] PROVE toServer[x][b].count <= sent'[x]
    <3>1. toServer[x][b].count <= sent[x]
      BY <1>1 DEF RInv, Reports
    <3>2. toServer[x][b] \in Msg /\ sent[x] \in Int /\ sent'[x] \in Int
      <4>1. 0 .. Asked \subseteq Int
        OBVIOUS
      <4>2. toServer[x] \in Seq(Msg)
        BY Types
      <4>3. sent[x] \in 0 .. Asked /\ sent'[x] \in 0 .. Asked
        BY DEF IInv, TypeOK
      <4> QED BY <4>1, <4>2, <4>3
    <3>3. toServer[x][b].count \in Int
      BY <3>2, Types DEF Msg
    <3> QED BY <3>1, <3>2, <3>3
  <2> QED BY <1>2, <2>1
<1>4. \A a \in DOMAIN toServer'[x] : toServer'[x][a].state # Failed
  BY <1>1, <1>2 DEF RInv, Errors
<1>5. \A a, b \in DOMAIN toServer'[x] :
         a <= b => toServer'[x][a].count <= toServer'[x][b].count
  BY <1>1, <1>4, PieceKeeps DEF RInv, Lower, Over
<1> QED BY <1>2, <1>3, <1>4, <1>5, SessionReports

(* The session begins.                                                     *)
LEMMA ConnectReports ==
  ASSUME IInv, IInv', RInv, NEW x \in Session, Connect(x)
  PROVE  RInv'
<1>0. /\ cpc[x] = "idle" /\ mpc = "accept"
      /\ cpc' = [cpc EXCEPT ![x] = "head"] /\ copen' = [copen EXCEPT ![x] = TRUE]
      /\ sopen' = [sopen EXCEPT ![x] = TRUE] /\ backlog' = backlog \cup {x}
      /\ UNCHANGED <<mpc, slot, tpc, progress, sendingCount, scan, finished, hasError,
                     sent, toClient, toServer>>
  BY DEF Connect, serverVars
<1>a. /\ \A y \in Session : cpc'[y] = IF y = x THEN "head" ELSE cpc[y]
      /\ \A y \in Session : copen'[y] = (y = x \/ copen[y])
      /\ \A y \in Session : sopen'[y] = (y = x \/ sopen[y])
  BY <1>0, Types
<1>b. \A j \in Slot : slot[j] \in Session => slot[j] # x
  BY <1>0 DEF RInv, Places
<1>1. LiveEnds'
  BY <1>a DEF RInv, LiveEnds, Over
<1>2. Places'
  BY <1>0, <1>a, <1>b, Types DEF RInv, Places
<1>3. Reports' /\ Progress'
  BY <1>0, <1>a, <1>b DEF RInv, Reports, Progress, Over, Lower
<1>4. Errors'
  BY <1>0, <1>a, <1>b DEF RInv, Errors, Over, Told, ServerEnded
<1>5. Pass' /\ Completion'
  BY <1>0 DEF RInv, Pass, Completion
<1> QED BY <1>1, <1>2, <1>3, <1>4, <1>5 DEF RInv

(* All steps of a session.                                                 *)
LEMMA ClientReports ==
  ASSUME IInv, IInv', RInv, NEW x \in Session,
         ClientStep(x) \/ Work(x) \/ Report(x) \/ ClientFault(x)
  PROVE  RInv'
<1>0. /\ copen[x] <=> cpc[x] \notin {"idle"} \cup Over
      /\ cpc[x] \notin {"work"} \cup Over => sent[x] = 0
  BY DEF RInv, LiveEnds, Reports
<1>a. cpc[x] = "work" => Told(x) /\ sendingCount = 0
  BY DEF Told, IInv, Count, GoOut
<1>b. 0 <= sent[x] /\ sent[x] <= Asked /\ sent[x] \in Int
  BY AskedFacts DEF IInv, TypeOK
<1>c. \A n \in 0 .. Asked : Message(Go, n) \in Msg /\ Message(Normal, n) \in Msg
                            /\ Message(Failed, n) \in Msg
  BY DEF Message, Msg
<1>d. 0 \in 0 .. Asked /\ Items \in 0 .. Asked /\ sent[x] \in 0 .. Asked
  BY <1>b, AskedFacts
<1>1. CASE Connect(x)
  BY <1>1, ConnectReports
<1>2. ASSUME NEW data \in {"head", "items", "go"}, NEW next \in {"items", "storages", "work"},
             cpc[x] \in {"head", "items", "starting"},
             next = "work" <=> data = "go", Receive(x, data, next)
      PROVE  RInv'
  <2>1. /\ toClient[x] # <<>> /\ Head(toClient[x]) = data
        /\ toClient' = [toClient EXCEPT ![x] = Tail(@)]
        /\ cpc' = [cpc EXCEPT ![x] = next]
        /\ UNCHANGED serverVars
        /\ UNCHANGED <<sent, backlog, copen, sopen, toServer>>
    BY <1>2 DEF Receive
  <2>2. /\ toClient[x] \in Seq({"head", "items", "go"})
        /\ toClient'[x] = Tail(toClient[x]) /\ cpc'[x] = next
        /\ \A y \in Session : y # x => cpc'[y] = cpc[y] /\ toClient'[y] = toClient[y]
    BY <2>1, Types
  <2>3. copen[x] /\ copen'[x]
    BY <1>0, <1>2, <2>1 DEF Over
  <2>4. Told(x)' => Told(x)
    <3>1. ASSUME next = "work" PROVE Told(x)
      <4>1. 1 \in DOMAIN toClient[x] /\ toClient[x][1] = "go"
        BY <1>2, <2>1, <2>2, <3>1
      <4> QED BY <4>1, <2>3 DEF Told
    <3>2. ASSUME NEW k \in DOMAIN toClient'[x], toClient'[x][k] = "go" PROVE Told(x)
      <4> DEFINE q == toClient[x]
      <4>1. q \in Seq({"head", "items", "go"}) /\ q # <<>> /\ toClient'[x] = Tail(q)
        BY <2>1, <2>2
      <4>2. \A a \in DOMAIN Tail(q) : a + 1 \in DOMAIN q /\ Tail(q)[a] = q[a + 1]
        BY <4>1
      <4>3. k + 1 \in DOMAIN q /\ q[k + 1] = "go"
        BY <3>2, <4>1, <4>2
      <4> QED BY <4>3, <2>3 DEF Told
    <3> QED BY <3>1, <3>2, <2>2 DEF Told
  <2>5. Piece(x)
    BY <2>1, PieceFacts
  <2>6. cpc'[x] \notin {"idle", "error"} \cup Over
    BY <2>2 DEF Over
  <2>7. cpc'[x] \notin {"work"} \cup Over => sent'[x] = 0
    BY <1>0, <1>2, <2>1 DEF Over
  <2> QED BY <1>b, <2>1, <2>2, <2>3, <2>4, <2>5, <2>6, <2>7, QuietReports
<1>3. CASE ReceiveHead(x) \/ ReceiveItems(x) \/ ReceiveStart(x)
  BY <1>2, <1>3 DEF ReceiveHead, ReceiveItems, ReceiveStart
<1>4. CASE InitStorages(x)
  <2>1. /\ cpc[x] = "storages" /\ cpc' = [cpc EXCEPT ![x] = "ready"]
        /\ UNCHANGED serverVars
        /\ UNCHANGED <<sent, backlog, copen, sopen, toClient, toServer>>
    BY <1>4 DEF InitStorages, netVars
  <2>2. cpc'[x] = "ready" /\ \A y \in Session : y # x => cpc'[y] = cpc[y]
    BY <2>1, Types
  <2>3. Piece(x) /\ (Told(x)' => Told(x))
    BY <2>1, <2>2, PieceFacts DEF Told
  <2> QED BY <1>0, <1>b, <2>1, <2>2, <2>3, QuietReports DEF Over
<1>5. CASE Work(x)
  <2>1. /\ cpc[x] = "work" /\ sent' = [sent EXCEPT ![x] = @ + 1]
        /\ UNCHANGED serverVars
        /\ UNCHANGED <<cpc, backlog, copen, sopen, toClient, toServer>>
    BY <1>5 DEF Work, netVars
  <2>2. sent'[x] = sent[x] + 1 /\ \A y \in Session : y # x => sent'[y] = sent[y]
    BY <2>1, Types
  <2>3. Piece(x) /\ (Told(x)' => Told(x))
    BY <2>1, PieceFacts DEF Told
  <2> QED BY <1>0, <1>b, <2>1, <2>2, <2>3, QuietReports DEF Over
<1>6. CASE SendReady(x) \/ Report(x)
  <2>1. PICK m \in Msg : Reply(x, m) /\ m.count = sent[x] /\ m.state # Failed
    <3>1. CASE SendReady(x)
      <4>1. sent[x] = 0 /\ Reply(x, Message(Go, 0))
        BY <1>0, <3>1 DEF SendReady, Over
      <4>2. /\ Message(Go, 0) \in Msg /\ Message(Go, 0).count = 0
            /\ Message(Go, 0).state # Failed
          <5>1. Message(Go, 0) \in Msg
            BY <1>c, <1>d
          <5> QED BY <5>1 DEF Message, Go, Failed
      <4> QED BY <4>1, <4>2
    <3>2. CASE Report(x)
      <4>1. Reply(x, Message(Normal, sent[x]))
        BY <3>2 DEF Report
      <4>2. /\ Message(Normal, sent[x]) \in Msg /\ Message(Normal, sent[x]).count = sent[x]
            /\ Message(Normal, sent[x]).state # Failed
          <5>1. Message(Normal, sent[x]) \in Msg
            BY <1>c, <1>d
          <5> QED BY <5>1 DEF Message, Normal, Failed
      <4> QED BY <4>1, <4>2
    <3> QED BY <1>6, <3>1, <3>2
  <2>2. /\ cpc[x] \in {"ready", "work"}
        /\ cpc'[x] = IF cpc[x] = "ready" THEN "starting" ELSE "work"
        /\ \A y \in Session : y # x => cpc'[y] = cpc[y]
        /\ UNCHANGED serverVars /\ UNCHANGED <<sent, backlog, copen, sopen, toClient>>
    BY <1>6, Types DEF SendReady, Report, clientVars
  <2>3. Told(x)' => Told(x)
    BY <2>2 DEF Told
  <2>4. cpc[x] \notin Over
    BY <2>2 DEF Over
  <2>5. /\ \A a, b \in DOMAIN toServer'[x] :
              a <= b => \/ toServer'[x][a].count <= toServer'[x][b].count
                        \/ Lower(cpc'[x], toServer'[x][b])
        /\ \A a \in DOMAIN toServer'[x] :
              \/ \E b \in DOMAIN toServer[x] : toServer'[x][a] = toServer[x][b]
              \/ toServer'[x][a] = m
        /\ \A y \in Session : y # x => toServer'[y] = toServer[y]
    <3>1. toServer' = [toServer EXCEPT ![x] = IF sopen[x] THEN Append(@, m) ELSE @]
      BY <2>1 DEF Reply
    <3>2. sent[x] <= m.count
      BY <1>b, <2>1
    <3> QED BY <2>4, <3>1, <3>2, AppendReports
  <2>6. \A b \in DOMAIN toServer[x] :
           toServer[x][b].count <= sent[x] /\ toServer[x][b].state # Failed
    BY <2>4 DEF RInv, Reports, Errors
  <2>7. /\ \A a \in DOMAIN toServer'[x] : toServer'[x][a].count <= sent'[x]
        /\ \A a \in DOMAIN toServer'[x] : toServer'[x][a].state # Failed
    BY <1>b, <2>1, <2>2, <2>5, <2>6
  <2>8. \A a \in DOMAIN toServer'[x] :
           \/ \E b \in DOMAIN toServer[x] : toServer'[x][a].count = toServer[x][b].count
           \/ sent[x] <= toServer'[x][a].count
    BY <1>b, <2>1, <2>5
  <2>9. copen[x] /\ copen'[x] /\ cpc'[x] \notin {"idle", "error"} \cup Over
    BY <1>0, <2>2 DEF Over
  <2>10. cpc'[x] \notin {"work"} \cup Over => sent'[x] = 0
    BY <1>0, <2>2 DEF Over
  <2> QED BY <1>b, <2>2, <2>3, <2>5, <2>7, <2>8, <2>9, <2>10, SessionReports
<1>7. CASE EndComplete(x) \/ EndError(x) \/ InitStoragesFails(x)
  <2>1. PICK m \in Msg, how \in {"complete", "error", "initfail"} :
           /\ Reply(x, m) /\ Close(x, how) /\ (sent[x] <= m.count \/ Lower(how, m))
           /\ how = "error" => cpc[x] = "work" /\ m.state = Failed
    <3>1. CASE EndComplete(x)
      BY <1>b, <1>c, <1>d, <3>1 DEF EndComplete, FinalCount, Message, Lower
    <3>2. CASE EndError(x)
      BY <1>b, <1>c, <1>d, <3>2 DEF EndError, FinalCount, Message, Lower
    <3>3. CASE InitStoragesFails(x)
      <4>1. sent[x] = 0 /\ Reply(x, Message(Failed, 0)) /\ Close(x, "initfail")
        BY <1>0, <3>3 DEF InitStoragesFails, Over
      <4>2. Message(Failed, 0) \in Msg /\ Message(Failed, 0).count = 0
        BY <1>c, <1>d DEF Message
      <4> QED BY <4>1, <4>2
    <3> QED BY <1>7, <3>1, <3>2, <3>3
  <2>2. /\ cpc[x] \in {"work", "storages"}
        /\ UNCHANGED serverVars /\ UNCHANGED <<sent, backlog, sopen, toClient>>
    BY <1>7 DEF EndComplete, EndError, InitStoragesFails
  <2>3. /\ cpc'[x] = how /\ ~copen'[x]
        /\ \A y \in Session : y # x => cpc'[y] = cpc[y] /\ copen'[y] = copen[y]
    BY <2>1, Types DEF Close
  <2>4. cpc[x] \notin Over /\ cpc'[x] \in Over /\ ~Told(x)' /\ cpc'[x] # "idle"
    BY <2>2, <2>3 DEF Over, Told
  <2>5. /\ \A a, b \in DOMAIN toServer'[x] :
              a <= b => \/ toServer'[x][a].count <= toServer'[x][b].count
                        \/ Lower(cpc'[x], toServer'[x][b])
        /\ \A a \in DOMAIN toServer'[x] :
              \/ \E b \in DOMAIN toServer[x] : toServer'[x][a] = toServer[x][b]
              \/ toServer'[x][a] = m
        /\ sopen[x] => \E a \in DOMAIN toServer'[x] : toServer'[x][a] = m
        /\ \A y \in Session : y # x => toServer'[y] = toServer[y]
    BY <2>1, <2>3, <2>4, AppendReports DEF Reply
  <2>6. \A a \in DOMAIN toServer'[x] :
           \/ \E b \in DOMAIN toServer[x] : toServer'[x][a].count = toServer[x][b].count
           \/ sent[x] <= toServer'[x][a].count
           \/ Lower(cpc'[x], toServer'[x][a])
    BY <2>1, <2>3, <2>5
  <2>7. cpc'[x] = "error" =>
          /\ Told(x) /\ sendingCount = 0
          /\ sopen[x] => \E a \in DOMAIN toServer'[x] : toServer'[x][a].state = Failed
    BY <1>a, <2>1, <2>3, <2>5
  <2>8. copen[x]
    BY <1>0, <2>2 DEF Over
  <2> QED BY <1>b, <2>2, <2>3, <2>4, <2>5, <2>6, <2>7, <2>8, SessionReports
<1>8. CASE ServerGone(x) \/ Crash(x)
  <2>1. /\ Close(x, "lost") /\ cpc[x] \notin {"idle"} \cup Over
        /\ UNCHANGED serverVars /\ UNCHANGED <<sent, backlog, sopen, toClient>>
    BY <1>8 DEF ServerGone, Crash, Over
  <2>2. Piece(x) /\ \A y \in Session : y # x => toServer'[y] = toServer[y]
    <3>1. CASE ServerGone(x)
      BY <3>1, PieceFacts DEF ServerGone
    <3>2. CASE Crash(x)
      <4>1. PICK n \in 0 .. Len(toServer[x]) :
               toServer' = [toServer EXCEPT ![x] = SubSeq(@, 1, n)]
        BY <3>2 DEF Crash
      <4>2. toServer'[x] = SubSeq(toServer[x], 1, n)
            /\ \A y \in Session : y # x => toServer'[y] = toServer[y]
        BY <4>1, Types
      <4> QED BY <4>2, PieceFacts
    <3> QED BY <1>8, <3>1, <3>2
  <2>3. /\ cpc'[x] = "lost" /\ ~copen'[x]
        /\ \A y \in Session : y # x => cpc'[y] = cpc[y] /\ copen'[y] = copen[y]
    BY <2>1, Types DEF Close
  <2>4. ~Told(x)' /\ cpc'[x] \in Over
    BY <2>3 DEF Told, Over
  <2> QED BY <1>0, <1>b, <2>1, <2>2, <2>3, <2>4, QuietReports
<1> QED BY <1>1, <1>3, <1>4, <1>5, <1>6, <1>7, <1>8 DEF ClientStep, ClientFault

-----------------------------------------------------------------------------
(* The invariant.                                                          *)
LEMMA InitReports == Init => RInv
<1> SUFFICES ASSUME Init PROVE RInv
  OBVIOUS
<1>1. NoSession \notin Session
  BY ServerAssumption
<1>2. DOMAIN <<>> = {}
  OBVIOUS
<1>3. LiveEnds /\ Places
  BY <1>1 DEF Init, LiveEnds, Places
<1>4. Reports /\ Progress /\ Errors
  BY <1>1, <1>2 DEF Init, Reports, Progress, Errors, Told, Over
<1>5. Pass /\ Completion
  BY DEF Init, Pass, Completion
<1> QED BY <1>3, <1>4, <1>5 DEF RInv

LEMMA NextReports == IInv /\ IInv' /\ RInv /\ [Next]_vars => RInv'
<1> SUFFICES ASSUME IInv, IInv', RInv, [Next]_vars PROVE RInv'
  OBVIOUS
<1>1. CASE UNCHANGED vars
  BY <1>1 DEF vars, serverVars, clientVars, netVars, RInv, LiveEnds, Places, Reports,
              Progress, Errors, Told, Pass, Completion, ServerEnded
<1>2. CASE Poll \/ AtRest
  BY <1>1, <1>2 DEF Poll, AtRest
<1>3. ASSUME NEW i \in Slot, Thread(i) PROVE RInv'
  BY <1>3, ThreadReports
<1>4. ASSUME NEW x \in Session, ClientStep(x) \/ Work(x) \/ Report(x) \/ ClientFault(x)
      PROVE  RInv'
  BY <1>4, ClientReports
<1> QED BY <1>1, <1>2, <1>3, <1>4, MainReports DEF Next

LEMMA ReportInvariant == Spec => [](IInv /\ RInv)
<1>1. Init => IInv /\ RInv
  BY InitInv, InitReports
<1>2. IInv /\ RInv /\ [Next]_vars => (IInv /\ RInv)'
  BY NextInv, NextReports
<1> QED BY <1>1, <1>2, PTL DEF Spec

(* A client that ended its work with an error is not overlooked (the scan  *)
(* of the progress in wait_for_computing, idg_server.c:455-487): the       *)
(* server does not call the transfer complete.                             *)
THEOREM ErrorsReported == Spec => []ErrorReported
<1>1. IInv /\ RInv => ErrorReported
  BY DEF RInv, Completion, ErrorReported
<1> QED BY <1>1, ReportInvariant, PTL

(* A step of the progress of client i.                                     *)
Forward(i) ==
  /\ progress[i] < 0 => progress'[i] = progress[i]
  /\ progress'[i] >= 0 => \/ progress'[i] >= progress[i]
                          \/ progress'[i] = Items /\ cpc[slot[i]] = "complete"

(* The -1 or -2 a client's thread ends with is final, and before it the    *)
(* progress of the client grows (client_thread of idg_server.c, 394-417),  *)
(* but for the last report of one that has completed: it carries           *)
(* index_head.count, where the reports before it carry the sum of          *)
(* send_count (idg_client.c:543, 581, 616).                                *)
THEOREM ProgressOnlyGrows == Spec => ProgressGrows
<1>1. ASSUME IInv, RInv, [Next]_vars
      PROVE  \A i \in Slot : Forward(i)
  <2> SUFFICES ASSUME NEW i \in Slot
               PROVE  Forward(i)
    OBVIOUS
  <2>0. /\ progress \in [Slot -> Int]
        /\ tpc[i] # "exit" => progress[i] >= 0
    BY <1>1, Types DEF RInv, Progress
  <2>1. ASSUME UNCHANGED progress
        PROVE  Forward(i)
    BY <2>0, <2>1 DEF Forward
  <2>2. ASSUME NEW j \in Slot, NEW p \in {-1, -2}, ThreadEnds(j, p), tpc[j] # "exit"
        PROVE  Forward(i)
    BY <2>0, <2>2 DEF ThreadEnds, Forward
  <2>3. ASSUME NEW j \in Slot, ReadProgress(j), Pop(slot[j]),
               Head(toServer[slot[j]]).state # Failed
        PROVE  Forward(i)
    <3>1. /\ tpc[j] = "progress" /\ toServer[slot[j]] # <<>>
          /\ progress' = [progress EXCEPT ![j] = Head(toServer[slot[j]]).count]
      BY <2>3 DEF ReadProgress, Pop, Ended
    <3>2. slot[j] \in Session
      BY <1>1, <3>1 DEF IInv, Slots
    <3>3. toServer[slot[j]] \in Seq(Msg)
      BY <1>1, <3>2, Types
    <3>4. 1 \in DOMAIN toServer[slot[j]] /\ Head(toServer[slot[j]]) = toServer[slot[j]][1]
      BY <3>1, <3>3
    <3>5. \/ progress[j] <= Head(toServer[slot[j]]).count
          \/ Head(toServer[slot[j]]).count = Items /\ cpc[slot[j]] = "complete"
      BY <1>1, <2>3, <3>2, <3>4 DEF RInv, Progress, Lower
    <3> QED BY <2>0, <3>1, <3>5 DEF Forward
  <2>4. ASSUME NEW j \in Slot, Thread(j)
        PROVE  \/ UNCHANGED progress
               \/ tpc[j] # "exit" /\ \E p \in {-1, -2} : ThreadEnds(j, p)
               \/ /\ ReadProgress(j) /\ Pop(slot[j])
                  /\ Head(toServer[slot[j]]).state # Failed
    BY <2>4 DEF Thread, SendHead, SendItems, AwaitReady, CountDown, PassBarrier,
                SendStart, ReadProgress, SendTo
  <2>5. ASSUME NEW j \in Slot, Thread(j)
        PROVE  Forward(i)
    BY <2>1, <2>2, <2>3, <2>4, <2>5
  <2>6. ASSUME ~\E j \in Slot : Thread(j) PROVE UNCHANGED progress
    <3>1. CASE Main \/ AcceptNothing \/ ServerGivesUp
      BY <3>1 DEF Main, Accept, LoadIndex, Spawn, InitComplete, ScanSlot, ScanAgain,
                  Finish, AcceptNothing, ServerGivesUp
    <3>2. ASSUME NEW x \in Session,
                 ClientStep(x) \/ Work(x) \/ Report(x) \/ ClientFault(x)
          PROVE  UNCHANGED progress
      BY <3>2 DEF ClientStep, Work, Report, ClientFault, Connect, ReceiveHead,
                  ReceiveItems, InitStorages, SendReady, ReceiveStart, EndComplete,
                  ServerGone, InitStoragesFails, EndError, Crash, Receive, serverVars
    <3>3. CASE Poll \/ AtRest \/ UNCHANGED vars
      BY <3>3 DEF Poll, AtRest, vars, serverVars
    <3> QED BY <1>1, <2>6, <3>1, <3>2, <3>3 DEF Next
  <2> QED BY <2>1, <2>5, <2>6
<1>2. IInv /\ RInv /\ [Next]_vars
      => [\A i \in Slot : Forward(i)]_vars
  BY <1>1
<1> QED BY <1>2, ReportInvariant, PTL DEF Spec, ProgressGrows, Forward

=============================================================================
