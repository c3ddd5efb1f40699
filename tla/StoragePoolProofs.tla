-------------------------- MODULE StoragePoolProofs --------------------------
(***************************************************************************)
(* Proofs about the connection pool of the storage, for any number of      *)
(* slots, connections and threads: its types; and, as long as no accept    *)
(* has met a thread at work on what it hands out (raced), that one thread  *)
(* of each kind serves a connection, that a reply goes where its request   *)
(* came from, that the count of a head stays in its range and that no      *)
(* descriptor is lost.                                                     *)
(***************************************************************************)
EXTENDS StoragePool, TLAPS

Pos == [pc : {"select", "scan", "clear", "cleanup", "join", "done"},
        i : 0 .. ClientCount, fd : Fd \cup {Closed}]

(* The types, with the slot of a thread or of main() that works on one,    *)
(* and the steps that only one kind of thread takes.                       *)
TypeInv ==
  /\ TypeOK
  /\ \A t \in Thread : th[t].pc # "idle" => th[t].i \in Slot
  /\ \A t \in RecvThread : th[t].pc \notin {"fetch", "test", "take"}
  /\ \A t \in SendThread : th[t].pc \notin {"check", "add"}
  /\ main.pc = "clear" => main.i \in Slot

-----------------------------------------------------------------------------
(* The invariant, which holds until an accept meets a thread at work.      *)

(* A connection is behind one descriptor.                                  *)
Files ==
  /\ \A f \in Fd : file[f] # NoConn => arrived[file[f]] = "accepted"
  /\ \A f, g \in Fd : file[f] = file[g] /\ file[f] # NoConn => f = g

(* A descriptor is in one slot, and an open one nowhere else but with      *)
(* main() while it looks for a slot.                                       *)
Slots ==
  /\ \A i, j \in Slot : sockfd[i] = sockfd[j] /\ sockfd[i] # Closed => i = j
  /\ main.pc = "scan" =>
        main.fd \in Fd /\ file[main.fd] # NoConn /\ \A i \in Slot : sockfd[i] # main.fd
  /\ \A f \in Fd : file[f] # NoConn =>
        (main.pc = "scan" /\ main.fd = f) \/ \E i \in Slot : sockfd[i] = f

(* What the final pass has closed stays closed.                            *)
Ending ==
  /\ main.pc = "cleanup" => \A i \in Slot : i < main.i => Of(sockfd[i]) = NoConn
  /\ main.pc \in {"join", "done"} => \A f \in Fd : file[f] = NoConn

(* The request of connection k is read.                                    *)
AskedFor(k) == \E a \in DOMAIN Frames : a <= taken[k] /\ Frames[a] = "request"

(* A slot that is not being cleared has the head of its own connection.    *)
Heads ==
  \A i \in Slot : ~StatusHeld(i) /\ Of(sockfd[i]) # NoConn =>
    /\ count[i] > 0 => asker[i] = Of(sockfd[i])
    /\ ~AskedFor(Of(sockfd[i])) => count[i] = 0

(* Thread t has the flag of its kind of its slot.                          *)
HoldingPC == {"check", "fetch", "test", "take", "head", "items", "add",
              "close", "reset", "unlock", "done"}
Holding(t) == th[t].pc \in HoldingPC

(* It works on a slot main() is not clearing, and as the only one of its   *)
(* kind, since the flag is set.                                            *)
Flags ==
  /\ \A t \in RecvThread : Holding(t) => recving[th[t].i]
  /\ \A t \in SendThread : Holding(t) => sending[th[t].i]
  /\ \A t \in Thread : th[t].pc \notin {"idle", "exit"} => ~StatusHeld(th[t].i)
  /\ \A t \in Thread : th[t].pc # "lost"

Alone ==
  \A t, u \in Thread :
    Holding(t) /\ Holding(u) /\ th[t].i = th[u].i
    /\ (t \in RecvThread <=> u \in RecvThread) => t = u

(* What thread t in state s has read of its slot is still so.              *)
Fits(t, s) ==
  /\ s.pc \in {"head", "items"} /\ Of(s.fd) # NoConn =>
        sockfd[s.i] = s.fd /\ (t \in SendThread => Of(s.fd) = s.k)
  /\ s.pc = "reset" => Of(sockfd[s.i]) = NoConn
  /\ s.pc = "take" => count[s.i] > MTU
  /\ s.pc = "add" =>
        /\ s.k \in Conn /\ AskedFor(s.k)
        /\ Of(sockfd[s.i]) \in {NoConn, s.k}
        /\ count[s.i] = 0

Fitting == \A t \in Thread : Fits(t, th[t])

Core == Files /\ Slots /\ Ending /\ Heads /\ Flags /\ Alone /\ Fitting

PInv == TypeInv /\ (~raced => Core)
-----------------------------------------------------------------------------
LEMMA Numbers == ClientCount \in Nat /\ 0 \in Slot /\ Closed \notin Fd
BY PoolAssumption DEF Slot, Fd, Closed

(* A count stays in the width of its field.                                *)
LEMMA Width == ASSUME NEW c \in 0 .. Wrap - 1 PROVE (c - MTU) % Wrap \in 0 .. Wrap - 1
BY PoolAssumption

(* The fields of the states of a thread.                                   *)
LEMMA AtState ==
  ASSUME NEW pc, NEW i, NEW f, NEW k
  PROVE  /\ At(pc, i, f, k).pc = pc /\ At(pc, i, f, k).i = i
         /\ At(pc, i, f, k).fd = f /\ At(pc, i, f, k).k = k
         /\ pc \in ThreadPC /\ i \in 0 .. ClientCount
            /\ f \in Fd \cup {Closed} /\ k \in Conn \cup {NoConn}
            => At(pc, i, f, k) \in ThreadState
BY DEF At, ThreadState

LEMMA InSlotState ==
  ASSUME NEW pc, NEW i
  PROVE  /\ InSlot(pc, i).pc = pc /\ InSlot(pc, i).i = i
         /\ InSlot(pc, i).fd = Closed /\ InSlot(pc, i).k = NoConn
         /\ pc \in ThreadPC /\ i \in 0 .. ClientCount => InSlot(pc, i) \in ThreadState
BY AtState DEF InSlot

LEMMA IdleState ==
  ASSUME NEW i
  PROVE  /\ Idle(i).pc = "idle" /\ Idle(i).i = i
         /\ Idle(i).fd = Closed /\ Idle(i).k = NoConn
         /\ i \in 0 .. ClientCount => Idle(i) \in ThreadState
BY AtState DEF Idle, ThreadPC

LEMMA TypeInit == Init => TypeInv
<1> SUFFICES ASSUME Init PROVE TypeInv
  OBVIOUS
<1>1. Len(Frames) \in Nat
  BY PoolAssumption
<1>2. 0 \in 0 .. ClientCount
  BY Numbers
<1>3. main \in Pos /\ main.pc = "select"
  BY <1>2 DEF Init, MainAt, Pos
<1>4. th \in [Thread -> ThreadState]
  BY <1>2, IdleState DEF Init
<1>5. count \in [Slot -> 0 .. Wrap - 1]
  BY PoolAssumption DEF Init
<1>6. sent \in [Conn -> 0 .. Len(Frames)] /\ taken \in [Conn -> 0 .. Len(Frames)]
  BY <1>1 DEF Init
<1>7. TypeOK
  BY <1>3, <1>4, <1>5, <1>6 DEF Init, TypeOK, Pos
<1>8. QED
  BY <1>3, <1>7, IdleState DEF Init, TypeInv, Thread

(* A thread that goes to a proper state leaves the rest typed.             *)
LEMMA TypeGoto ==
  ASSUME TypeInv, NEW t \in Thread, NEW s \in ThreadState, Goto(t, s),
         s.pc # "idle" => s.i \in Slot,
         t \in RecvThread => s.pc \notin {"fetch", "test", "take"},
         t \in SendThread => s.pc \notin {"check", "add"}
  PROVE  /\ th' \in [Thread -> ThreadState]
         /\ \A u \in Thread : th'[u].pc # "idle" => th'[u].i \in Slot
         /\ \A u \in RecvThread : th'[u].pc \notin {"fetch", "test", "take"}
         /\ \A u \in SendThread : th'[u].pc \notin {"check", "add"}
<1> USE DEF TypeInv, TypeOK, Goto
<1>1. th' \in [Thread -> ThreadState]
  OBVIOUS
<1>2. \A u \in Thread : th'[u] = IF u = t THEN s ELSE th[u]
  OBVIOUS
<1>3. QED
  BY <1>1, <1>2 DEF Thread

LEMMA TypeStep == TypeInv /\ [Next]_vars => TypeInv'
<1> SUFFICES ASSUME TypeInv, [Next]_vars PROVE TypeInv'
  OBVIOUS
<1> DEFINE Same(t) == /\ th' \in [Thread -> ThreadState]
                      /\ \A u \in Thread : th'[u].pc # "idle" => th'[u].i \in Slot
                      /\ \A u \in RecvThread : th'[u].pc \notin {"fetch", "test", "take"}
                      /\ \A u \in SendThread : th'[u].pc \notin {"check", "add"}
<1> DEFINE Good(t, s) == /\ s \in ThreadState
                         /\ s.pc # "idle" => s.i \in Slot
                         /\ t \in RecvThread => s.pc \notin {"fetch", "test", "take"}
                         /\ t \in SendThread => s.pc \notin {"check", "add"}
<1>0. \A t \in Thread : \A s : Goto(t, s) /\ Good(t, s) => Same(t)
  BY TypeGoto
<1>1. \A t \in Thread :
        /\ th[t] \in ThreadState /\ th[t].pc \in ThreadPC /\ th[t].i \in 0 .. ClientCount
        /\ th[t].fd \in Fd \cup {Closed} /\ th[t].k \in Conn \cup {NoConn}
        /\ th[t].i < ClientCount => th[t].i \in Slot /\ th[t].i + 1 \in 0 .. ClientCount
        /\ th[t].i \in Slot => th[t].i < ClientCount
  BY Numbers DEF TypeInv, TypeOK, ThreadState, Slot
<1>2. \A f : Of(f) \in Conn \cup {NoConn}
  BY DEF TypeInv, TypeOK, Of
<1>3. 0 \in 0 .. ClientCount /\ ClientCount \in 0 .. ClientCount
  BY Numbers
<1>4. RecvThread \subseteq Thread /\ SendThread \subseteq Thread
      /\ RecvThread \cap SendThread = {}
  BY PoolAssumption DEF Thread
<1>5. ASSUME NEW t \in Thread, NextPass(t) PROVE TypeInv'
  <2>1. Good(t, Idle(0)) /\ Good(t, InSlot("exit", 0))
    BY AtState, InSlotState, IdleState, <1>3, Numbers DEF ThreadPC
  <2>2. Same(t)
    BY <1>5, <2>1, <1>0 DEF NextPass
  <2>3. QED
    BY <2>2, <1>5 DEF NextPass, TypeInv, TypeOK, peerVars, slotVars
<1>6. ASSUME NEW t \in Thread, Look(t) PROVE TypeInv'
  <2>1. Good(t, Idle(th[t].i + 1)) /\ Good(t, InSlot("lock", th[t].i))
    BY AtState, InSlotState, IdleState, <1>1, <1>6 DEF ThreadPC, Look
  <2>2. Same(t)
    BY <1>6, <2>1, <1>0 DEF Look
  <2>3. raced' \in BOOLEAN
    BY <1>6 DEF Look, TypeInv, TypeOK, StatusHeld
  <2>4. QED
    BY <2>2, <2>3, <1>6 DEF Look, TypeInv, TypeOK, peerVars, slotVars
<1>7. ASSUME NEW t \in Thread, Lock(t) PROVE TypeInv'
  <2>1. th[t].i \in Slot
    BY <1>7 DEF Lock, TypeInv
  <2>2. /\ Good(t, Idle(th[t].i + 1))
        /\ t \in RecvThread => Good(t, InSlot("check", th[t].i))
        /\ t \notin RecvThread => Good(t, InSlot("fetch", th[t].i))
    BY AtState, InSlotState, IdleState, <1>1, <1>4, <2>1 DEF ThreadPC
  <2>3. Same(t)
    BY <1>7, <2>2, <1>0 DEF Lock
  <2>4. recving' \in [Slot -> BOOLEAN] /\ sending' \in [Slot -> BOOLEAN]
    BY <1>7, <2>1 DEF Lock, TypeInv, TypeOK
  <2>5. QED
    BY <2>3, <2>4, <1>7 DEF Lock, TypeInv, TypeOK, peerVars
<1>8. ASSUME NEW t \in Thread, CallFails(t) PROVE TypeInv'
  <2>1. Good(t, At("close", th[t].i, Closed, Of(th[t].fd)))
    BY AtState, InSlotState, IdleState, <1>1, <1>2, <1>8 DEF ThreadPC, CallFails, Calling, TypeInv
  <2>2. Same(t)
    BY <1>8, <2>1, <1>0 DEF CallFails
  <2>3. QED
    BY <2>2, <1>8 DEF CallFails, TypeInv, TypeOK, peerVars, slotVars
<1>9. ASSUME NEW t \in Thread, CloseSlot(t) PROVE TypeInv'
  <2>1. Good(t, InSlot("reset", th[t].i))
    BY AtState, InSlotState, IdleState, <1>1, <1>9 DEF ThreadPC, CloseSlot, TypeInv
  <2>2. Same(t)
    BY <1>9, <2>1, <1>0 DEF CloseSlot
  <2>3. file' \in [Fd -> Conn \cup {NoConn}]
    BY <1>9 DEF CloseSlot, CloseFd, TypeInv, TypeOK
  <2>4. QED
    BY <2>2, <2>3, <1>9 DEF CloseSlot, TypeInv, TypeOK, peerVars, slotVars
<1>10. ASSUME NEW t \in Thread, ResetSlot(t) PROVE TypeInv'
  <2>1. Good(t, InSlot("unlock", th[t].i)) /\ Good(t, InSlot("done", th[t].i))
    BY AtState, InSlotState, IdleState, <1>1, <1>10 DEF ThreadPC, ResetSlot, TypeInv
  <2>2. Same(t)
    BY <1>10, <2>1, <1>0 DEF ResetSlot
  <2>3. sockfd' \in [Slot -> Fd \cup {Closed}]
    BY <1>10 DEF ResetSlot, TypeInv, TypeOK
  <2>4. QED
    BY <2>2, <2>3, <1>10 DEF ResetSlot, TypeInv, TypeOK, peerVars
<1>11. ASSUME NEW t \in Thread, Unlock(t) PROVE TypeInv'
  <2>1. th[t].i \in Slot
    BY <1>11 DEF Unlock, TypeInv
  <2>2. Good(t, Idle(ClientCount)) /\ Good(t, Idle(th[t].i + 1))
    BY AtState, InSlotState, IdleState, <1>1, <1>3, <2>1
  <2>3. Same(t)
    BY <1>11, <2>2, <1>0 DEF Unlock
  <2>4. recving' \in [Slot -> BOOLEAN] /\ sending' \in [Slot -> BOOLEAN]
    BY <1>11, <2>1 DEF Unlock, TypeInv, TypeOK
  <2>5. QED
    BY <2>3, <2>4, <1>11 DEF Unlock, TypeInv, TypeOK, peerVars
<1>12. ASSUME NEW t \in RecvThread, Check(t) PROVE TypeInv'
  <2>1. th[t].i \in Slot /\ t \in Thread
    BY <1>12, <1>4 DEF Check, TypeInv
  <2>2. sockfd[th[t].i] \in Fd \cup {Closed}
    BY <2>1 DEF TypeInv, TypeOK
  <2>3. /\ Good(t, At("head", th[t].i, sockfd[th[t].i], NoConn))
        /\ Good(t, InSlot("unlock", th[t].i))
    BY AtState, InSlotState, IdleState, <1>1, <2>1, <2>2 DEF ThreadPC
  <2>4. Same(t)
    BY <1>12, <2>1, <2>3, <1>0 DEF Check
  <2>5. QED
    BY <2>4, <1>12 DEF Check, TypeInv, TypeOK, peerVars, slotVars
<1>13. ASSUME NEW t \in RecvThread, RecvHead(t) PROVE TypeInv'
  <2>1. th[t].i \in Slot /\ t \in Thread /\ t \notin SendThread
    BY <1>13, <1>4 DEF RecvHead, TypeInv
  <2>2. sockfd[th[t].i] \in Fd \cup {Closed}
    BY <2>1 DEF TypeInv, TypeOK
  <2>3. /\ Good(t, At("items", th[t].i, sockfd[th[t].i], NoConn))
        /\ Good(t, At("add", th[t].i, Closed, Of(th[t].fd)))
    BY AtState, InSlotState, IdleState, <1>1, <1>2, <2>1, <2>2 DEF ThreadPC
  <2>4. Same(t)
    BY <1>13, <2>1, <2>3, <1>0 DEF RecvHead
  <2>5. Of(th[t].fd) \in Conn
    BY <1>13, <1>2 DEF RecvHead
  <2>6. Len(Frames) \in Nat
    BY PoolAssumption
  <2>7. taken' \in [Conn -> 0 .. Len(Frames)]
    BY <1>13, <2>5, <2>6 DEF RecvHead, Unread, TypeInv, TypeOK
  <2>8. QED
    BY <2>4, <2>7, <1>13 DEF RecvHead, TypeInv, TypeOK, slotVars
<1>14. ASSUME NEW t \in RecvThread, RecvItems(t) PROVE TypeInv'
  <2>1. th[t].i \in Slot /\ t \in Thread
    BY <1>14, <1>4 DEF RecvItems, TypeInv
  <2>2. Good(t, InSlot("done", th[t].i))
    BY AtState, InSlotState, IdleState, <1>1, <2>1 DEF ThreadPC
  <2>3. Same(t)
    BY <1>14, <2>1, <2>2, <1>0 DEF RecvItems
  <2>4. QED
    BY <2>3, <1>14 DEF RecvItems, TypeInv, TypeOK, peerVars, slotVars
<1>15. ASSUME NEW t \in RecvThread, AddHead(t) PROVE TypeInv'
  <2>1. th[t].i \in Slot /\ t \in Thread
    BY <1>15, <1>4 DEF AddHead, TypeInv
  <2>2. Good(t, InSlot("done", th[t].i))
    BY AtState, InSlotState, IdleState, <1>1, <2>1 DEF ThreadPC
  <2>3. Same(t)
    BY <1>15, <2>1, <2>2, <1>0 DEF AddHead
  <2>4. count' \in [Slot -> 0 .. Wrap - 1] /\ asker' \in [Slot -> Conn \cup {NoConn}]
    BY <1>15, <2>1, <1>1, PoolAssumption DEF AddHead, TypeInv, TypeOK
  <2>5. QED
    BY <2>3, <2>4, <1>15 DEF AddHead, TypeInv, TypeOK, peerVars
<1>16. ASSUME NEW t \in SendThread, Fetch(t) PROVE TypeInv'
  <2>1. th[t].i \in Slot /\ t \in Thread /\ t \notin RecvThread
    BY <1>16, <1>4 DEF Fetch, TypeInv
  <2>2. Good(t, InSlot("test", th[t].i)) /\ Good(t, InSlot("unlock", th[t].i))
    BY AtState, InSlotState, IdleState, <1>1, <2>1 DEF ThreadPC
  <2>3. Same(t)
    BY <1>16, <2>1, <2>2, <1>0 DEF Fetch
  <2>4. QED
    BY <2>3, <1>16 DEF Fetch, TypeInv, TypeOK, peerVars, slotVars
<1>17. ASSUME NEW t \in SendThread, TestCount(t) PROVE TypeInv'
  <2>1. th[t].i \in Slot /\ t \in Thread /\ t \notin RecvThread
    BY <1>17, <1>4 DEF TestCount, TypeInv
  <2>2. sockfd[th[t].i] \in Fd \cup {Closed} /\ asker[th[t].i] \in Conn \cup {NoConn}
    BY <2>1 DEF TypeInv, TypeOK
  <2>3. /\ Good(t, InSlot("done", th[t].i)) /\ Good(t, InSlot("take", th[t].i))
        /\ Good(t, At("head", th[t].i, sockfd[th[t].i], asker[th[t].i]))
    BY AtState, InSlotState, IdleState, <1>1, <2>1, <2>2 DEF ThreadPC
  <2>4. Same(t)
    BY <1>17, <2>1, <2>3, <1>0 DEF TestCount
  <2>5. count' \in [Slot -> 0 .. Wrap - 1]
    BY <1>17, <2>1, PoolAssumption DEF TestCount, TypeInv, TypeOK
  <2>6. QED
    BY <2>4, <2>5, <1>17 DEF TestCount, TypeInv, TypeOK, peerVars
<1>18. ASSUME NEW t \in SendThread, TakeChunk(t) PROVE TypeInv'
  <2>1. th[t].i \in Slot /\ t \in Thread /\ t \notin RecvThread
    BY <1>18, <1>4 DEF TakeChunk, TypeInv
  <2>2. /\ sockfd[th[t].i] \in Fd \cup {Closed} /\ asker[th[t].i] \in Conn \cup {NoConn}
        /\ count[th[t].i] \in 0 .. Wrap - 1
    BY <2>1 DEF TypeInv, TypeOK
  <2>3. Good(t, At("head", th[t].i, sockfd[th[t].i], asker[th[t].i]))
    BY AtState, InSlotState, IdleState, <1>1, <2>1, <2>2 DEF ThreadPC
  <2>4. Same(t)
    BY <1>18, <2>1, <2>3, <1>0 DEF TakeChunk
  <2>5. (count[th[t].i] - MTU) % Wrap \in 0 .. Wrap - 1
    BY <2>2, Width
  <2>6. count' \in [Slot -> 0 .. Wrap - 1]
    BY <1>18, <2>5 DEF TakeChunk, TypeInv, TypeOK
  <2>7. QED
    BY <2>4, <2>6, <1>18 DEF TakeChunk, TypeInv, TypeOK, peerVars
<1>19. ASSUME NEW t \in SendThread, SendHead(t) \/ SendItems(t) PROVE TypeInv'
  <2>1. th[t].i \in Slot /\ t \in Thread /\ t \notin RecvThread
    BY <1>19, <1>4 DEF SendHead, SendItems, TypeInv
  <2>2. sockfd[th[t].i] \in Fd \cup {Closed}
    BY <2>1 DEF TypeInv, TypeOK
  <2>3. /\ Good(t, At("items", th[t].i, sockfd[th[t].i], th[t].k))
        /\ Good(t, InSlot("test", th[t].i))
    BY AtState, InSlotState, IdleState, <1>1, <2>1, <2>2 DEF ThreadPC
  <2>4. Same(t)
    BY <1>19, <2>1, <2>3, <1>0 DEF SendHead, SendItems
  <2>5. QED
    BY <2>4, <1>19 DEF SendHead, SendItems, TypeInv, TypeOK, peerVars, slotVars
<1>20. CASE Peer
  <2>1. Len(Frames) \in Nat
    BY PoolAssumption
  <2>2. PICK k \in Conn : Connect(k) \/ SendFrame(k) \/ Leave(k)
    BY <1>20 DEF Peer
  <2>3. arrived' \in [Conn -> {"new", "waiting", "accepted"}]
    BY <2>2 DEF Connect, SendFrame, Leave, TypeInv, TypeOK
  <2>4. gone' \in [Conn -> BOOLEAN]
    BY <2>2 DEF Connect, SendFrame, Leave, TypeInv, TypeOK
  <2>5. sent' \in [Conn -> 0 .. Len(Frames)] /\ taken' \in [Conn -> 0 .. Len(Frames)]
    BY <2>1, <2>2 DEF Connect, SendFrame, Leave, TypeInv, TypeOK
  <2>6. QED
    BY <1>20, <2>3, <2>4, <2>5 DEF Peer, TypeInv, TypeOK, slotVars
<1>21. ASSUME NEW k \in Conn, Accept(k) PROVE TypeInv'
  <2>1. PICK f \in Fd : /\ file' = [file EXCEPT ![f] = k]
                        /\ main' = MainAt("scan", 0, f)
                        /\ raced' = (raced \/ InUse(f))
    BY <1>21 DEF Accept
  <2>2. main' \in Pos /\ main'.pc = "scan"
    BY <2>1, <1>3 DEF MainAt, Pos
  <2>3. raced' \in BOOLEAN
    BY <2>1 DEF TypeInv, TypeOK, InUse
  <2>4. file' \in [Fd -> Conn \cup {NoConn}] /\ arrived' \in [Conn -> {"new", "waiting", "accepted"}]
    BY <2>1, <1>21 DEF Accept, TypeInv, TypeOK
  <2>5. QED
    BY <2>2, <2>3, <2>4, <1>21 DEF Accept, TypeInv, TypeOK, slotVars, Pos
<1>22. CASE ScanSlot
  <2>1. main.i \in Slot /\ main \in Pos /\ main.i + 1 \in 0 .. ClientCount
        /\ main.fd \in Fd \cup {Closed}
    BY <1>22, Numbers DEF ScanSlot, TypeInv, TypeOK, Slot, Pos
  <2>2. main' \in Pos /\ (main'.pc = "clear" => main'.i = main.i)
    BY <1>22, <2>1 DEF ScanSlot, Pos
  <2>3. sockfd' \in [Slot -> Fd \cup {Closed}]
    <3>1. sockfd \in [Slot -> Fd \cup {Closed}]
      BY DEF TypeInv, TypeOK
    <3>2. QED
      BY <1>22, <2>1, <3>1 DEF ScanSlot
  <2>4. raced' \in BOOLEAN
    BY <1>22 DEF ScanSlot, TypeInv, TypeOK, Inside
  <2>5. QED
    BY <1>22, <2>1, <2>2, <2>3, <2>4 DEF ScanSlot, TypeInv, TypeOK, peerVars, Pos
<1>23. CASE ClearSlot
  <2>1. main.i \in Slot
    BY <1>23 DEF ClearSlot, TypeInv
  <2>2. main' \in Pos /\ main'.pc = "select"
    BY <1>23, <1>3 DEF ClearSlot, MainAt, Pos
  <2>3. /\ recving' \in [Slot -> BOOLEAN] /\ sending' \in [Slot -> BOOLEAN]
        /\ count' \in [Slot -> 0 .. Wrap - 1] /\ asker' \in [Slot -> Conn \cup {NoConn}]
    BY <1>23, PoolAssumption DEF ClearSlot, TypeInv, TypeOK
  <2>4. PICK lost \in SUBSET Thread :
          th' = [t \in Thread |-> IF t \in lost THEN InSlot("lost", main.i) ELSE th[t]]
    BY <1>23 DEF ClearSlot
  <2>5. Good(CHOOSE t \in Thread : TRUE, InSlot("lost", main.i))
    BY <2>1, InSlotState, Numbers DEF ThreadPC, Slot
  <2>6. \A t \in Thread : th'[t] \in ThreadState
    BY <2>4, <2>5, <1>1
  <2>7. th' \in [Thread -> ThreadState]
    BY <2>4, <2>6
  <2>8. /\ \A u \in Thread : th'[u].pc # "idle" => th'[u].i \in Slot
        /\ \A u \in RecvThread : th'[u].pc \notin {"fetch", "test", "take"}
        /\ \A u \in SendThread : th'[u].pc \notin {"check", "add"}
    BY <2>1, <2>4, <1>4, InSlotState DEF TypeInv
  <2>9. QED
    BY <1>23, <2>2, <2>3, <2>7, <2>8 DEF ClearSlot, TypeInv, TypeOK, peerVars, Pos
<1>24. CASE Refuse \/ LoopEnds \/ Join
  <2>1. main' \in Pos /\ main'.pc # "clear"
    BY <1>24, <1>3 DEF Refuse, LoopEnds, Join, MainAt, Pos
  <2>2. file' \in [Fd -> Conn \cup {NoConn}]
    BY <1>24 DEF Refuse, LoopEnds, Join, CloseFd, TypeInv, TypeOK
  <2>3. QED
    BY <1>24, <2>1, <2>2
       DEF Refuse, LoopEnds, Join, TypeInv, TypeOK, peerVars, slotVars, Pos
<1>25. CASE Cleanup
  <2>1. main \in Pos /\ (main.i < ClientCount => main.i + 1 \in 0 .. ClientCount)
    BY Numbers DEF TypeInv, TypeOK, Pos
  <2>2. main' \in Pos /\ main'.pc # "clear"
    BY <1>25, <1>3, <2>1 DEF Cleanup, MainAt, Pos
  <2>3. file' \in [Fd -> Conn \cup {NoConn}]
    BY <1>25 DEF Cleanup, CloseFd, TypeInv, TypeOK
  <2>4. QED
    BY <1>25, <2>2, <2>3 DEF Cleanup, TypeInv, TypeOK, peerVars, slotVars, Pos
<1>26. CASE UNCHANGED vars
  BY <1>26 DEF vars, peerVars, slotVars, TypeInv, TypeOK
<1>27. QED
  BY <1>4, <1>5, <1>6, <1>7, <1>8, <1>9, <1>10, <1>11, <1>12, <1>13, <1>14, <1>15,
     <1>16, <1>17, <1>18, <1>19, <1>20, <1>21, <1>22, <1>23, <1>24, <1>25, <1>26
     DEF Next, RecvStep, SendStep, Both, MainStep, AtRest

-----------------------------------------------------------------------------
LEMMA CoreInit == Init => Core
<1> SUFFICES ASSUME Init PROVE Core
  OBVIOUS
<1>1. \A t \in Thread : th[t] = Idle(0)
  BY DEF Init
<1>2. \A f : Of(f) = NoConn
  BY DEF Init, Of
<1>3. main.pc = "select"
  BY DEF Init, MainAt
<1>4. Files /\ Slots /\ Ending
  BY <1>2, <1>3 DEF Files, Slots, Ending, Init
<1>5. Heads
  BY <1>2 DEF Heads
<1>6. Flags /\ Alone /\ Fitting
  BY <1>1, IdleState DEF Flags, Alone, Fitting, Fits, Holding, HoldingPC, Thread
<1>7. QED
  BY <1>4, <1>5, <1>6 DEF Core

(* A step of thread t that leaves the pool alone.                          *)
LEMMA Quiet ==
  ASSUME TypeInv, Core, NEW t \in Thread, NEW s, Goto(t, s), Fits(t, s),
         UNCHANGED <<file, sockfd, arrived, taken, count, asker, main>>
  PROVE  Files' /\ Slots' /\ Ending' /\ Heads' /\ Fitting'
<1>1. Files' /\ Slots' /\ Ending'
  BY DEF Core, Files, Slots, Ending, Of
<1>2. Heads'
  BY DEF Core, Heads, Of, StatusHeld, AskedFor
<1>3. \A u \in Thread : th'[u] = IF u = t THEN s ELSE th[u]
  BY DEF TypeInv, TypeOK, Goto
<1>4. \A u \in Thread : Fits(u, th'[u])
  BY <1>3 DEF Core, Fitting
<1>5. Fitting'
  BY <1>4 DEF Fitting, Fits, Of, AskedFor
<1>6. QED
  BY <1>1, <1>2, <1>5

(* A thread that goes on with the slot it holds.                           *)
LEMMA Onward ==
  ASSUME TypeInv, Core, NEW t \in Thread, NEW s, Goto(t, s),
         Holding(t), s.pc \in HoldingPC, s.i = th[t].i,
         UNCHANGED <<recving, sending, main>>
  PROVE  Flags' /\ Alone'
<1>1. \A u \in Thread : th'[u] = IF u = t THEN s ELSE th[u]
  BY DEF TypeInv, TypeOK, Goto
<1>2. \A u \in Thread : th'[u].i = th[u].i /\ (th'[u].pc \in HoldingPC => Holding(u))
  BY <1>1 DEF Holding
<1>3. /\ \A u \in RecvThread : Holding(u)' => recving'[th'[u].i]
      /\ \A u \in SendThread : Holding(u)' => sending'[th'[u].i]
  BY <1>2 DEF Core, Flags, Holding, Thread
<1>4. \A u \in Thread : th'[u].pc # "lost"
  BY <1>1 DEF Core, Flags, HoldingPC
<1>5. \A u \in Thread : th'[u].pc \notin {"idle", "exit"} => ~StatusHeld(th'[u].i)
  BY <1>1 DEF Core, Flags, Holding, HoldingPC, StatusHeld
<1>6. Alone'
  BY <1>2 DEF Core, Alone, Holding
<1>7. QED
  BY <1>3, <1>4, <1>5, <1>6 DEF Flags, StatusHeld

(* A thread that holds no slot, and takes none.                            *)
LEMMA Outside ==
  ASSUME TypeInv, Core, NEW t \in Thread, NEW s, Goto(t, s),
         s.pc \in {"idle", "lock", "exit"},
         s.pc = "lock" => ~StatusHeld(s.i),
         UNCHANGED <<file, sockfd, arrived, taken, count, asker, main,
                     recving, sending>>
  PROVE  Core'
<1>1. \A u \in Thread : th'[u] = IF u = t THEN s ELSE th[u]
  BY DEF TypeInv, TypeOK, Goto
<1>2. Fits(t, s)
  BY DEF Fits
<1>3. Files' /\ Slots' /\ Ending' /\ Heads' /\ Fitting'
  BY <1>2, Quiet
<1>4. \A u \in Thread : th'[u].pc \in HoldingPC => Holding(u) /\ th'[u] = th[u]
  BY <1>1 DEF Holding, HoldingPC
<1>5. /\ \A u \in RecvThread : Holding(u)' => recving'[th'[u].i]
      /\ \A u \in SendThread : Holding(u)' => sending'[th'[u].i]
  BY <1>4 DEF Core, Flags, Holding, Thread
<1>6. \A u \in Thread : th'[u].pc # "lost"
  BY <1>1 DEF Core, Flags
<1>7. \A u \in Thread : th'[u].pc \notin {"idle", "exit"} => ~StatusHeld(th'[u].i)
  BY <1>1 DEF Core, Flags, StatusHeld
<1>8. Alone'
  BY <1>4 DEF Core, Alone, Holding
<1>9. QED
  BY <1>3, <1>5, <1>6, <1>7, <1>8 DEF Core, Flags, StatusHeld

(* The threads of the two kinds are not the same.                          *)
LEMMA Kinds ==
  /\ \A t \in SendThread : t \notin RecvThread /\ t \in Thread
  /\ \A t \in RecvThread : t \notin SendThread /\ t \in Thread
  /\ \A t \in Thread : t \in RecvThread \/ t \in SendThread
BY PoolAssumption DEF Thread

(* A thread takes or gives back the flag of its slot.                      *)
LEMMA CoreLock ==
  ASSUME TypeInv, Core, NEW t \in Thread, Lock(t)
  PROVE  Core'
<1> DEFINE i == th[t].i
<1>1. i \in Slot /\ th[t].pc = "lock" /\ ~Holding(t) /\ ~StatusHeld(i)
  BY DEF Lock, TypeInv, Core, Flags, Holding, HoldingPC
<1>2. PICK s \in {Idle(i + 1), InSlot("check", i), InSlot("fetch", i)} :
        /\ Goto(t, s)
        /\ t \in RecvThread =>
             /\ sending' = sending /\ recving' = [recving EXCEPT ![i] = TRUE]
             /\ recving[i] <=> s = Idle(i + 1)
        /\ t \notin RecvThread =>
             /\ recving' = recving /\ sending' = [sending EXCEPT ![i] = TRUE]
             /\ sending[i] <=> s = Idle(i + 1)
  <2>1. Idle(i + 1) # InSlot("check", i) /\ Idle(i + 1) # InSlot("fetch", i)
    BY IdleState, InSlotState
  <2>2. QED
    BY <2>1 DEF Lock
<1>3. s.pc \in {"idle", "check", "fetch"} /\ (s.pc # "idle" => s.i = i)
      /\ (s.pc = "idle" <=> s = Idle(i + 1))
  BY <1>2, IdleState, InSlotState
<1>4. Fits(t, s)
  BY <1>3 DEF Fits
<1>5. UNCHANGED <<file, sockfd, arrived, taken, count, asker, main>>
  BY DEF Lock, peerVars
<1>6. Files' /\ Slots' /\ Ending' /\ Heads' /\ Fitting'
  BY <1>2, <1>4, <1>5, Quiet
<1>7. \A u \in Thread : th'[u] = IF u = t THEN s ELSE th[u]
  BY <1>2 DEF TypeInv, TypeOK, Goto
<1>8. /\ \A j \in Slot : recving[j] => recving'[j]
      /\ \A j \in Slot : sending[j] => sending'[j]
      /\ t \in RecvThread => recving'[i]
      /\ t \notin RecvThread => sending'[i]
  BY <1>1, <1>2 DEF TypeInv, TypeOK
<1>9. /\ \A u \in RecvThread : Holding(u)' => recving'[th'[u].i]
      /\ \A u \in SendThread : Holding(u)' => sending'[th'[u].i]
  <2>1. \A u \in Thread : Holding(u) => th[u].i \in Slot
    BY DEF TypeInv, Holding, HoldingPC
  <2>2. ASSUME NEW u \in RecvThread, Holding(u)' PROVE recving'[th'[u].i]
    BY <1>3, <1>7, <1>8, <2>1, <2>2, Kinds DEF Core, Flags, Holding, HoldingPC
  <2>3. ASSUME NEW u \in SendThread, Holding(u)' PROVE sending'[th'[u].i]
    BY <1>3, <1>7, <1>8, <2>1, <2>3, Kinds DEF Core, Flags, Holding, HoldingPC
  <2>4. QED
    BY <2>2, <2>3
<1>10. \A u \in Thread : th'[u].pc # "lost"
  BY <1>3, <1>7 DEF Core, Flags
<1>11. \A u \in Thread : th'[u].pc \notin {"idle", "exit"} => ~StatusHeld(th'[u].i)
  BY <1>1, <1>3, <1>7 DEF Core, Flags
<1>12. ASSUME NEW u \in Thread, NEW v \in Thread, Holding(u)', Holding(v)',
              th'[u].i = th'[v].i, u \in RecvThread <=> v \in RecvThread
       PROVE  u = v
  <2>1. CASE s = Idle(i + 1)
    <3>1. u # t /\ v # t
      BY <2>1, <1>3, <1>7, <1>12 DEF Holding, HoldingPC
    <3>2. QED
      BY <3>1, <1>7, <1>12 DEF Core, Alone, Holding
  <2>2. CASE s # Idle(i + 1)
    <3>1. ASSUME NEW w \in Thread, w # t, th[w].i = i, Holding(w)
          PROVE  ~(w \in RecvThread <=> t \in RecvThread)
      <4>1. w \in RecvThread => recving[i]
        BY <3>1 DEF Core, Flags
      <4>2. w \in SendThread => sending[i]
        BY <3>1 DEF Core, Flags
      <4>3. QED
        BY <4>1, <4>2, <2>2, <1>2, Kinds
    <3>2. CASE u = t \/ v = t
      BY <3>1, <3>2, <1>3, <1>7, <1>12, <2>2 DEF Holding
    <3>3. CASE u # t /\ v # t
      BY <3>3, <1>7, <1>12 DEF Core, Alone, Holding
    <3>4. QED
      BY <3>2, <3>3
  <2>3. QED
    BY <2>1, <2>2
<1>13. QED
  BY <1>5, <1>6, <1>9, <1>10, <1>11, <1>12 DEF Core, Flags, Alone, StatusHeld

LEMMA CoreUnlock ==
  ASSUME TypeInv, Core, NEW t \in Thread, Unlock(t)
  PROVE  Core'
<1> DEFINE i == th[t].i
<1>1. i \in Slot /\ Holding(t)
  BY DEF Unlock, TypeInv, Holding, HoldingPC
<1>2. PICK s \in {Idle(ClientCount), Idle(i + 1)} : Goto(t, s)
  BY DEF Unlock
<1>3. s.pc = "idle"
  BY <1>2, IdleState
<1>4. Fits(t, s)
  BY <1>3 DEF Fits
<1>5. UNCHANGED <<file, sockfd, arrived, taken, count, asker, main>>
  BY DEF Unlock, peerVars
<1>6. Files' /\ Slots' /\ Ending' /\ Heads' /\ Fitting'
  BY <1>2, <1>4, <1>5, Quiet
<1>7. \A u \in Thread : th'[u] = IF u = t THEN s ELSE th[u]
  BY <1>2 DEF TypeInv, TypeOK, Goto
<1>8. \A u \in Thread : th'[u].pc \in HoldingPC => u # t /\ Holding(u) /\ th'[u] = th[u]
  BY <1>3, <1>7 DEF Holding, HoldingPC
<1>9. /\ \A j \in Slot : recving[j] => recving'[j] \/ (j = i /\ t \in RecvThread)
      /\ \A j \in Slot : sending[j] => sending'[j] \/ (j = i /\ t \notin RecvThread)
  BY DEF Unlock, TypeInv, TypeOK
<1>10. /\ \A u \in RecvThread : Holding(u)' => recving'[th'[u].i]
       /\ \A u \in SendThread : Holding(u)' => sending'[th'[u].i]
  <2>1. \A u \in Thread : Holding(u) => th[u].i \in Slot
    BY DEF TypeInv, Holding, HoldingPC
  <2>2. \A u \in Thread : u # t /\ Holding(u) /\ th[u].i = i
                          => ~(u \in RecvThread <=> t \in RecvThread)
    BY <1>1 DEF Core, Alone
  <2>3. ASSUME NEW u \in RecvThread, Holding(u)' PROVE recving'[th'[u].i]
    BY <1>8, <1>9, <2>1, <2>2, <2>3, Kinds DEF Core, Flags, Holding
  <2>4. ASSUME NEW u \in SendThread, Holding(u)' PROVE sending'[th'[u].i]
    BY <1>8, <1>9, <2>1, <2>2, <2>4, Kinds DEF Core, Flags, Holding
  <2>5. QED
    BY <2>3, <2>4
<1>11. \A u \in Thread : th'[u].pc # "lost"
  BY <1>3, <1>7 DEF Core, Flags
<1>12. \A u \in Thread : th'[u].pc \notin {"idle", "exit"} => ~StatusHeld(th'[u].i)
  BY <1>3, <1>7 DEF Core, Flags
<1>13. Alone'
  BY <1>8 DEF Core, Alone, Holding
<1>14. QED
  BY <1>5, <1>6, <1>10, <1>11, <1>12, <1>13 DEF Core, Flags, StatusHeld

(* Only an accept sets raced: until then Look does not meet one.           *)
LEMMA CoreOutside ==
  ASSUME TypeInv, Core, ~raced', NEW t \in Thread, NextPass(t) \/ Look(t)
  PROVE  Core'
<1>1. CASE NextPass(t)
  <2>1. UNCHANGED <<file, sockfd, arrived, taken, count, asker, main, recving, sending>>
    BY <1>1 DEF NextPass, peerVars, slotVars
  <2>2. PICK s \in {Idle(0), InSlot("exit", 0)} : Goto(t, s)
    BY <1>1 DEF NextPass
  <2>3. s.pc \in {"idle", "exit"}
    BY <2>2, IdleState, InSlotState
  <2>4. QED
    BY <2>1, <2>2, <2>3, Outside
<1>2. CASE Look(t)
  <2>1. UNCHANGED <<file, sockfd, arrived, taken, count, asker, main, recving, sending>>
    BY <1>2 DEF Look, peerVars, slotVars
  <2>2. CASE sockfd[th[t].i] = Closed
    <3>1. Goto(t, Idle(th[t].i + 1))
      BY <1>2, <2>2 DEF Look
    <3>2. QED
      BY <2>1, <3>1, IdleState, Outside
  <2>3. CASE sockfd[th[t].i] # Closed
    <3>1. Goto(t, InSlot("lock", th[t].i)) /\ ~StatusHeld(th[t].i)
      BY <1>2, <2>3 DEF Look
    <3>2. QED
      BY <2>1, <3>1, InSlotState, Outside
  <2>4. QED
    BY <2>2, <2>3
<1>3. QED
  BY <1>1, <1>2

(* The steps of a thread on its slot that change nothing but the thread.   *)
LEMMA CoreCalls ==
  ASSUME TypeInv, Core, NEW t \in Thread,
         \/ CallFails(t)
         \/ t \in RecvThread /\ (Check(t) \/ RecvItems(t))
         \/ t \in SendThread /\ (Fetch(t) \/ SendHead(t) \/ SendItems(t))
  PROVE  Core'
<1> DEFINE i == th[t].i
<1>1. UNCHANGED <<file, sockfd, arrived, taken, count, asker, main, recving, sending>>
  BY DEF CallFails, Check, RecvItems, Fetch, SendHead, SendItems, peerVars, slotVars
<1>2. Holding(t)
  BY DEF CallFails, Calling, Check, RecvItems, Fetch, SendHead, SendItems,
         Holding, HoldingPC
<1>3. ASSUME NEW s, Goto(t, s), s.pc \in HoldingPC, s.i = i, Fits(t, s)
      PROVE  Core'
  BY <1>1, <1>2, <1>3, Quiet, Onward DEF Core
<1>4. CASE CallFails(t)
  <2>1. Goto(t, At("close", i, Closed, Of(th[t].fd)))
    BY <1>4 DEF CallFails
  <2>2. QED
    BY <2>1, <1>3, AtState DEF Fits, HoldingPC
<1>5. CASE Check(t) /\ t \in RecvThread
  <2>1. CASE Goto(t, At("head", i, sockfd[i], NoConn))
    BY <1>5, <2>1, <1>3, AtState, Kinds DEF Fits, HoldingPC
  <2>2. CASE Goto(t, InSlot("unlock", i))
    BY <2>2, <1>3, InSlotState DEF Fits, HoldingPC
  <2>3. QED
    BY <1>5, <2>1, <2>2 DEF Check
<1>6. CASE RecvItems(t)
  <2>1. Goto(t, InSlot("done", i))
    BY <1>6 DEF RecvItems
  <2>2. QED
    BY <2>1, <1>3, InSlotState DEF Fits, HoldingPC
<1>7. CASE Fetch(t)
  <2>1. PICK pc \in {"test", "unlock"} : Goto(t, InSlot(pc, i))
    BY <1>7 DEF Fetch
  <2>2. QED
    BY <2>1, <1>3, InSlotState DEF Fits, HoldingPC
<1>8. CASE SendHead(t) /\ t \in SendThread
  <2>1. Goto(t, At("items", i, sockfd[i], th[t].k))
    BY <1>8 DEF SendHead
  <2>2. sockfd[i] = th[t].fd /\ Of(th[t].fd) = th[t].k
    BY <1>8 DEF SendHead, Core, Fitting, Fits
  <2>3. Fits(t, At("items", i, sockfd[i], th[t].k))
    BY <2>2, AtState DEF Fits
  <2>4. QED
    BY <2>1, <2>3, <1>3, AtState DEF HoldingPC
<1>9. CASE SendItems(t)
  <2>1. Goto(t, InSlot("test", i))
    BY <1>9 DEF SendItems
  <2>2. QED
    BY <2>1, <1>3, InSlotState DEF Fits, HoldingPC
<1>10. QED
  BY <1>4, <1>5, <1>6, <1>7, <1>8, <1>9

(* A descriptor is closed, and with it nothing else.                       *)
LEMMA Closing ==
  ASSUME TypeInv, NEW f, CloseFd(f)
  PROVE  \A g \in Fd : file'[g] = IF g = f THEN NoConn ELSE file[g]
BY DEF CloseFd

LEMMA ClosingKeeps ==
  ASSUME TypeInv, Core, NEW f, CloseFd(f),
         UNCHANGED <<sockfd, arrived, taken, count, asker>>
  PROVE  /\ Files'
         /\ \A t \in Thread : \A s : Fits(t, s) => Fits(t, s)'
         /\ (\A i \in Slot : StatusHeld(i)' <=> StatusHeld(i)) => Heads'
<1>1. Files'
  BY Closing DEF Core, Files
<1>2. ASSUME NEW t \in Thread, NEW s, Fits(t, s) PROVE Fits(t, s)'
  BY <1>2, Closing DEF Fits, AskedFor, Of
<1>3. ASSUME \A i \in Slot : StatusHeld(i)' <=> StatusHeld(i) PROVE Heads'
  <2>1. ASSUME NEW i \in Slot, ~StatusHeld(i), Of(sockfd[i])' # NoConn
        PROVE  /\ Of(sockfd[i]) # NoConn /\ Of(sockfd[i])' = Of(sockfd[i])
               /\ AskedFor(Of(sockfd[i]))' <=> AskedFor(Of(sockfd[i]))
    <3>1. Of(sockfd[i]) # NoConn /\ Of(sockfd[i])' = Of(sockfd[i])
      BY <2>1, Closing DEF Of
    <3>2. QED
      BY <3>1 DEF AskedFor
  <2>2. QED
    BY <1>3, <2>1 DEF Core, Heads
<1>4. QED
  BY <1>1, <1>2, <1>3

LEMMA CoreCloseSlot ==
  ASSUME TypeInv, Core, NEW t \in Thread, CloseSlot(t)
  PROVE  Core'
<1> DEFINE i == th[t].i
           s == InSlot("reset", i)
<1>1. /\ UNCHANGED <<sockfd, arrived, taken, count, asker, main, recving, sending>>
      /\ CloseFd(sockfd[i]) /\ Goto(t, s)
  BY DEF CloseSlot, peerVars, slotVars
<1>2. Holding(t) /\ i \in Slot
  BY DEF CloseSlot, Holding, HoldingPC, TypeInv
<1>3. s.pc = "reset" /\ s.i = i
  BY InSlotState
<1>4. Flags' /\ Alone'
  BY <1>1, <1>2, <1>3, Onward DEF HoldingPC
<1>5. Files'
  BY <1>1, ClosingKeeps
<1>6. Slots' /\ Ending'
  BY <1>1, <1>2, Closing DEF Core, Slots, Ending, Of
<1>7. Heads'
  BY <1>1, ClosingKeeps DEF StatusHeld
<1>8. Fitting'
  <2>1. \A u \in Thread : th'[u] = IF u = t THEN s ELSE th[u]
    BY <1>1 DEF TypeInv, TypeOK, Goto
  <2>2. \A u \in Thread : Fits(u, th[u])'
    <3>1. ASSUME NEW u \in Thread, u # t PROVE Fits(u, th[u])'
      <4>1. th'[u] = th[u]
        BY <2>1, <3>1
      <4>2. Fits(u, th[u])
        BY DEF Core, Fitting
      <4>3. QED
        BY <1>1, <4>1, <4>2, Closing DEF Fits, AskedFor, Of
    <3>2. Fits(t, th[t])'
      <4>1. th'[t] = s
        BY <2>1
      <4>2. QED
        BY <1>1, <1>3, <4>1, Closing DEF Fits, Of
    <3>3. QED
      BY <3>1, <3>2
  <2>3. QED
    BY <2>2 DEF Fitting
<1>9. QED
  BY <1>4, <1>5, <1>6, <1>7, <1>8 DEF Core

LEMMA CoreResetSlot ==
  ASSUME TypeInv, Core, NEW t \in Thread, ResetSlot(t)
  PROVE  Core'
<1> DEFINE i == th[t].i
<1>1. PICK s \in {InSlot("unlock", i), InSlot("done", i)} : Goto(t, s)
  BY DEF ResetSlot
<1>2. /\ UNCHANGED <<file, arrived, taken, count, asker, main, recving, sending>>
      /\ sockfd' = [sockfd EXCEPT ![i] = Closed]
  BY DEF ResetSlot, peerVars
<1>3. Holding(t) /\ i \in Slot /\ th[t].pc = "reset"
  BY DEF ResetSlot, Holding, HoldingPC, TypeInv
<1>4. s.pc \in {"unlock", "done"} /\ s.i = i
  BY <1>1, InSlotState
<1>5. Flags' /\ Alone'
  BY <1>1, <1>2, <1>3, <1>4, Onward DEF HoldingPC
<1>6. Of(sockfd[i]) = NoConn /\ Of(Closed) = NoConn
  BY <1>3, Numbers DEF Core, Fitting, Fits, Of
<1>7. \A j \in Slot : sockfd'[j] = IF j = i THEN Closed ELSE sockfd[j]
  BY <1>2 DEF TypeInv, TypeOK
<1>8. \A f : Of(f)' = Of(f)
  BY <1>2 DEF Of
<1>9. Files'
  BY <1>2 DEF Core, Files
<1>10. Slots'
  <2>1. \A j, k \in Slot : sockfd'[j] = sockfd'[k] /\ sockfd'[j] # Closed => j = k
    BY <1>7 DEF Core, Slots
  <2>2. main'.pc = "scan" =>
          main'.fd \in Fd /\ file'[main'.fd] # NoConn
          /\ \A j \in Slot : sockfd'[j] # main'.fd
    BY <1>2, <1>7, Numbers DEF Core, Slots
  <2>3. ASSUME NEW f \in Fd, file[f] # NoConn, NEW j \in Slot, sockfd[j] = f
        PROVE  sockfd'[j] = f
    BY <2>3, <1>6, <1>7 DEF Of
  <2>4. QED
    BY <1>2, <2>1, <2>2, <2>3 DEF Core, Slots
<1>11. Ending'
  BY <1>2, <1>6, <1>7, <1>8 DEF Core, Ending
<1>12. Heads'
  BY <1>2, <1>6, <1>7, <1>8 DEF Core, Heads, StatusHeld, AskedFor
<1>13. \A u \in Thread : th'[u] = IF u = t THEN s ELSE th[u]
  BY <1>1 DEF TypeInv, TypeOK, Goto
<1>14. ASSUME NEW u \in Thread PROVE Fits(u, th[u])'
  <2>1. CASE u = t
    BY <1>4, <1>13, <2>1 DEF Fits
  <2>2. CASE u # t
    <3>1. th'[u] = th[u]
      BY <1>13, <2>2
    <3>2. th[u].pc # "idle" => th[u].i \in Slot
      BY DEF TypeInv
    <3>3. Fits(u, th[u])
      BY DEF Core, Fitting
    <3>4. QED
      BY <1>2, <1>6, <1>7, <1>8, <3>1, <3>2, <3>3 DEF Fits, AskedFor
  <2>3. QED
    BY <2>1, <2>2
<1>15. QED
  BY <1>5, <1>9, <1>10, <1>11, <1>12, <1>14 DEF Core, Fitting

LEMMA CoreRecvHead ==
  ASSUME TypeInv, Core, NEW t \in RecvThread, RecvHead(t)
  PROVE  Core'
<1> DEFINE i == th[t].i
<1> PICK k : k = Of(th[t].fd)
  OBVIOUS
<1>1. /\ UNCHANGED <<file, sockfd, arrived, count, asker, main, recving, sending>>
      /\ k # NoConn /\ Unread(k) /\ th[t].pc = "head"
      /\ taken' = [taken EXCEPT ![k] = @ + 1]
  BY DEF RecvHead, slotVars
<1>2. Holding(t) /\ i \in Slot /\ t \in Thread /\ t \notin SendThread
  BY <1>1, Kinds DEF Holding, HoldingPC, TypeInv
<1>3. k \in Conn /\ taken[k] \in Nat /\ sent[k] \in 0 .. Len(Frames)
  BY <1>1, PoolAssumption DEF Of, TypeInv, TypeOK
<1>4. taken'[k] = taken[k] + 1 /\ taken'[k] \in DOMAIN Frames
  <2>1. taken'[k] = taken[k] + 1
    BY <1>1, <1>3 DEF TypeInv, TypeOK
  <2>2. Len(Frames) \in Nat /\ DOMAIN Frames = 1 .. Len(Frames)
    BY PoolAssumption
  <2>3. QED
    BY <1>1, <1>3, <2>1, <2>2 DEF Unread
<1>5. \A c \in Conn : AskedFor(c) => AskedFor(c)'
  <2>1. \A c \in Conn : taken[c] <= taken'[c] /\ taken[c] \in Int /\ taken'[c] \in Int
    BY <1>1, <1>3 DEF TypeInv, TypeOK
  <2>2. \A a \in DOMAIN Frames : a \in Int
    BY PoolAssumption
  <2>3. QED
    BY <2>1, <2>2 DEF AskedFor
<1>6. Of(sockfd[i]) = k
  BY <1>1, <1>2 DEF Core, Fitting, Fits
<1>7. Frames[taken'[k]] = "request" => ~AskedFor(k)
  <2>1. ASSUME Frames[taken'[k]] = "request", NEW a \in DOMAIN Frames,
               a <= taken[k], Frames[a] = "request"
        PROVE  FALSE
    <3>1. a = taken'[k]
      BY <2>1, <1>4, PoolAssumption
    <3>2. QED
      BY <2>1, <3>1, <1>3, <1>4
  <2>2. QED
    BY <2>1 DEF AskedFor
<1>8. Frames[taken'[k]] = "request" => count[i] = 0
  BY <1>1, <1>2, <1>6, <1>7 DEF Core, Flags, Heads
<1>9. PICK s : /\ Goto(t, s)
               /\ s = IF Frames[taken'[k]] = "request" THEN At("add", i, Closed, k)
                      ELSE At("items", i, sockfd[i], NoConn)
  BY DEF RecvHead
<1>10. s.pc \in HoldingPC /\ s.i = i
  BY <1>9, AtState DEF HoldingPC
<1>11. Flags' /\ Alone'
  BY <1>1, <1>2, <1>9, <1>10, Onward
<1>12. Files' /\ Slots' /\ Ending'
  BY <1>1 DEF Core, Files, Slots, Ending, Of
<1>13. \A f : Of(f)' = Of(f) /\ Of(f) \in Conn \cup {NoConn}
  BY <1>1 DEF Of, TypeInv, TypeOK
<1>14. Heads'
  BY <1>1, <1>5, <1>13 DEF Core, Heads, StatusHeld
<1>15. \A u \in Thread : th'[u] = IF u = t THEN s ELSE th[u]
  BY <1>9 DEF TypeInv, TypeOK, Goto
<1>16. ASSUME NEW u \in Thread PROVE Fits(u, th[u])'
  <2>1. CASE u # t
    <3>1. th'[u] = th[u] /\ Fits(u, th[u])
      BY <1>15, <2>1 DEF Core, Fitting
    <3>2. QED
      BY <1>1, <1>5, <1>13, <3>1 DEF Fits
  <2>2. CASE u = t /\ Frames[taken'[k]] = "request"
    <3>1. /\ th'[u].pc = "add" /\ th'[u].i = i /\ th'[u].k = k
      BY <1>9, <1>15, <2>2, AtState
    <3>2. AskedFor(k)'
      <4>1. taken'[k] \in DOMAIN Frames /\ taken'[k] <= taken'[k]
        BY <1>3, <1>4
      <4>2. \E a \in DOMAIN Frames : a <= taken'[k] /\ Frames[a] = "request"
        BY <2>2, <4>1
      <4>3. QED
        BY <4>2 DEF AskedFor
    <3>3. QED
      BY <1>1, <1>3, <1>6, <1>8, <2>2, <3>1, <3>2 DEF Fits, Of
  <2>3. CASE u = t /\ Frames[taken'[k]] # "request"
    <3>1. th'[u].pc = "items" /\ th'[u].i = i /\ th'[u].fd = sockfd[i]
      BY <1>9, <1>15, <2>3, AtState
    <3>2. QED
      BY <1>1, <1>2, <2>3, <3>1 DEF Fits
  <2>4. QED
    BY <2>1, <2>2, <2>3
<1>17. QED
  BY <1>11, <1>12, <1>14, <1>16 DEF Core, Fitting

(* A thread sets the count of the head of its slot, which no other thread  *)
(* relies on.                                                              *)
LEMMA Recount ==
  ASSUME TypeInv, Core, NEW t \in Thread, NEW s, Goto(t, s),
         th[t].i \in Slot,
         \A j \in Slot \ {th[t].i} : count'[j] = count[j] /\ asker'[j] = asker[j],
         UNCHANGED <<file, sockfd, arrived, taken, main>>,
         \/ count'[th[t].i] = 0
         \/ Of(sockfd[th[t].i]) = NoConn
         \/ /\ asker'[th[t].i] = Of(sockfd[th[t].i])
            /\ AskedFor(Of(sockfd[th[t].i])),
         \A u \in Thread : u # t /\ th[u].i = th[t].i =>
            th[u].pc # "take" /\ (th[u].pc = "add" => count'[th[t].i] = 0),
         Fits(t, s), s.pc \notin {"take", "add"}
  PROVE  Files' /\ Slots' /\ Ending' /\ Heads' /\ Fitting'
<1> PICK i \in Slot : i = th[t].i
  OBVIOUS
<1>1. Files' /\ Slots' /\ Ending'
  BY DEF Core, Files, Slots, Ending, Of
<1>2. Heads'
  <2>1. ASSUME NEW j \in Slot, ~StatusHeld(j), Of(sockfd[j]) # NoConn
        PROVE  /\ count'[j] > 0 => asker'[j] = Of(sockfd[j])
               /\ ~AskedFor(Of(sockfd[j])) => count'[j] = 0
    <3>1. CASE j = i
      BY <2>1, <3>1
    <3>2. CASE j # i
      BY <2>1, <3>2 DEF Core, Heads
    <3>3. QED
      BY <3>1, <3>2
  <2>2. QED
    BY <2>1 DEF Heads, Of, StatusHeld, AskedFor
<1>3. \A u \in Thread : th'[u] = IF u = t THEN s ELSE th[u]
  BY DEF TypeInv, TypeOK, Goto
<1>4. ASSUME NEW u \in Thread PROVE Fits(u, th[u])'
  <2>1. CASE u = t
    <3>1. th'[u] = s
      BY <1>3, <2>1
    <3>2. QED
      BY <2>1, <3>1 DEF Fits, Of
  <2>2. CASE u # t
    <3>1. th'[u] = th[u] /\ Fits(u, th[u])
      BY <1>3, <2>2 DEF Core, Fitting
    <3>2. th[u].pc # "idle" => th[u].i \in Slot
      BY DEF TypeInv
    <3>3. QED
      BY <2>2, <3>1, <3>2 DEF Fits, Of, AskedFor
  <2>3. QED
    BY <2>1, <2>2
<1>5. QED
  BY <1>1, <1>2, <1>4 DEF Fitting

(* The threads of one kind that have read the count of a slot.             *)
LEMMA OneReader ==
  ASSUME TypeInv, Core, NEW t \in Thread, Holding(t),
         NEW u \in Thread, u # t, th[u].i = th[t].i
  PROVE  /\ t \in SendThread => th[u].pc # "take"
         /\ t \in RecvThread => th[u].pc # "add"
         /\ th[u].pc = "add" => count[th[t].i] = 0
         /\ th[u].pc = "take" => count[th[t].i] > MTU
<1>1. th[u].pc = "take" => u \in SendThread /\ u \notin RecvThread /\ Holding(u)
  BY Kinds DEF TypeInv, Holding, HoldingPC
<1>2. th[u].pc = "add" => u \in RecvThread /\ Holding(u)
  BY Kinds DEF TypeInv, Holding, HoldingPC
<1>3. QED
  BY <1>1, <1>2, Kinds DEF Core, Alone, Fitting, Fits

LEMMA CoreAddHead ==
  ASSUME TypeInv, Core, NEW t \in RecvThread, AddHead(t)
  PROVE  Core'
<1> DEFINE i == th[t].i
           s == InSlot("done", i)
<1>1. PICK n \in Asked : count' = [count EXCEPT ![i] = n]
  BY DEF AddHead
<1>2. /\ UNCHANGED <<file, sockfd, arrived, taken, main, recving, sending>>
      /\ th[t].pc = "add" /\ Goto(t, s) /\ asker' = [asker EXCEPT ![i] = th[t].k]
  BY DEF AddHead, peerVars
<1>3. Holding(t) /\ i \in Slot /\ t \in Thread
  BY <1>2, Kinds DEF Holding, HoldingPC, TypeInv
<1>4. s.pc = "done" /\ s.i = i
  BY InSlotState
<1>5. Flags' /\ Alone'
  BY <1>2, <1>3, <1>4, Onward DEF HoldingPC
<1>6. /\ th[t].k \in Conn /\ AskedFor(th[t].k)
      /\ Of(sockfd[i]) \in {NoConn, th[t].k} /\ count[i] = 0
  BY <1>2, <1>3 DEF Core, Fitting, Fits
<1>7. /\ \A j \in Slot \ {i} : count'[j] = count[j] /\ asker'[j] = asker[j]
      /\ asker'[i] = th[t].k
  BY <1>1, <1>2, <1>3 DEF TypeInv, TypeOK
<1>8. ASSUME NEW u \in Thread, u # t, th[u].i = i
      PROVE  th[u].pc # "take" /\ th[u].pc # "add"
  BY <1>3, <1>6, <1>8, OneReader, PoolAssumption
<1>9. Fits(t, s)
  BY <1>4 DEF Fits
<1>10. Files' /\ Slots' /\ Ending' /\ Heads' /\ Fitting'
  BY <1>2, <1>3, <1>4, <1>6, <1>7, <1>8, <1>9, Recount
<1>11. QED
  BY <1>5, <1>10 DEF Core

LEMMA CoreTestCount ==
  ASSUME TypeInv, Core, NEW t \in SendThread, TestCount(t)
  PROVE  Core'
<1> DEFINE i == th[t].i
<1>1. /\ UNCHANGED <<file, sockfd, arrived, taken, asker, main, recving, sending>>
      /\ th[t].pc = "test"
  BY DEF TestCount, peerVars
<1>2. Holding(t) /\ i \in Slot /\ t \in Thread
  BY <1>1, Kinds DEF Holding, HoldingPC, TypeInv
<1>3. CASE count[i] = 0 /\ Goto(t, InSlot("done", i)) /\ UNCHANGED count
  <2>1. Fits(t, InSlot("done", i))
    BY InSlotState DEF Fits
  <2>2. Flags' /\ Alone'
    BY <1>1, <1>2, <1>3, InSlotState, Onward DEF HoldingPC
  <2>3. QED
    BY <1>1, <1>2, <1>3, <2>1, <2>2, Quiet DEF Core
<1>4. CASE count[i] > MTU /\ Goto(t, InSlot("take", i)) /\ UNCHANGED count
  <2>1. Fits(t, InSlot("take", i))
    BY <1>4, InSlotState DEF Fits
  <2>2. Flags' /\ Alone'
    BY <1>1, <1>2, <1>4, InSlotState, Onward DEF HoldingPC
  <2>3. QED
    BY <1>1, <1>2, <1>4, <2>1, <2>2, Quiet DEF Core
<1>5. CASE /\ count[i] \in 1 .. MTU
           /\ count' = [count EXCEPT ![i] = 0]
           /\ Goto(t, At("head", i, sockfd[i], asker[i]))
  <2> DEFINE s == At("head", i, sockfd[i], asker[i])
  <2>1. s.pc = "head" /\ s.i = i /\ s.fd = sockfd[i] /\ s.k = asker[i]
    BY AtState
  <2>2. Flags' /\ Alone'
    BY <1>1, <1>2, <1>5, <2>1, Onward DEF HoldingPC
  <2>3. Of(sockfd[i]) # NoConn => asker[i] = Of(sockfd[i])
    BY <1>1, <1>2, <1>5 DEF Core, Flags, Heads
  <2>4. Fits(t, s)
    BY <2>1, <2>3 DEF Fits
  <2>5. /\ \A j \in Slot \ {i} : count'[j] = count[j] /\ asker'[j] = asker[j]
        /\ count'[i] = 0
    BY <1>1, <1>2, <1>5 DEF TypeInv, TypeOK
  <2>6. \A u \in Thread : u # t /\ th[u].i = i => th[u].pc # "take"
    BY <1>2, OneReader
  <2>7. Files' /\ Slots' /\ Ending' /\ Heads' /\ Fitting'
    BY <1>1, <1>2, <1>5, <2>1, <2>4, <2>5, <2>6, Recount
  <2>8. QED
    BY <2>2, <2>7 DEF Core
<1>6. QED
  BY <1>3, <1>4, <1>5 DEF TestCount

LEMMA CoreTakeChunk ==
  ASSUME TypeInv, Core, NEW t \in SendThread, TakeChunk(t)
  PROVE  Core'
<1> DEFINE i == th[t].i
           s == At("head", i, sockfd[i], asker[i])
<1>1. /\ UNCHANGED <<file, sockfd, arrived, taken, asker, main, recving, sending>>
      /\ th[t].pc = "take" /\ Goto(t, s)
      /\ count' = [count EXCEPT ![i] = (@ - MTU) % Wrap]
  BY DEF TakeChunk, peerVars
<1>2. Holding(t) /\ i \in Slot /\ t \in Thread
  BY <1>1, Kinds DEF Holding, HoldingPC, TypeInv
<1>3. s.pc = "head" /\ s.i = i /\ s.fd = sockfd[i] /\ s.k = asker[i]
  BY AtState
<1>4. Flags' /\ Alone'
  BY <1>1, <1>2, <1>3, Onward DEF HoldingPC
<1>5. count[i] > MTU /\ count[i] \in 0 .. Wrap - 1
  BY <1>1, <1>2 DEF Core, Fitting, Fits, TypeInv, TypeOK
<1>6. Of(sockfd[i]) # NoConn => asker[i] = Of(sockfd[i]) /\ AskedFor(asker[i])
  BY <1>1, <1>2, <1>5, PoolAssumption DEF Core, Flags, Heads
<1>7. Fits(t, s)
  BY <1>3, <1>6 DEF Fits
<1>8. \A j \in Slot \ {i} : count'[j] = count[j] /\ asker'[j] = asker[j]
  BY <1>1 DEF TypeInv, TypeOK
<1>9. ASSUME NEW u \in Thread, u # t, th[u].i = i
       PROVE  th[u].pc # "take" /\ th[u].pc # "add"
  BY <1>2, <1>5, <1>9, OneReader, PoolAssumption
<1>10. Files' /\ Slots' /\ Ending' /\ Heads' /\ Fitting'
  BY <1>1, <1>2, <1>3, <1>6, <1>7, <1>8, <1>9, Recount
<1>11. QED
  BY <1>4, <1>10 DEF Core

-----------------------------------------------------------------------------
(* The steps of main() and of the clients.                                 *)

(* No slot is being cleared, before or after.                              *)
LEMMA ThreadsStay ==
  ASSUME TypeInv, Core, UNCHANGED <<th, recving, sending>>,
         \A i \in Slot : ~StatusHeld(i)'
  PROVE  Flags' /\ Alone'
<1>1. \A t \in Thread : th[t].pc # "idle" => th[t].i \in Slot
  BY DEF TypeInv
<1>2. Flags'
  BY <1>1 DEF Core, Flags, Holding
<1>3. Alone'
  BY DEF Core, Alone, Holding
<1>4. QED
  BY <1>2, <1>3

LEMMA CorePeer ==
  ASSUME TypeInv, Core, Peer
  PROVE  Core'
<1>1. UNCHANGED <<file, sockfd, taken, count, asker, main, th, recving, sending>>
  BY DEF Peer, Connect, SendFrame, Leave, slotVars
<1>2. \A k \in Conn : arrived[k] = "accepted" => arrived'[k] = "accepted"
  BY DEF Peer, Connect, SendFrame, Leave, TypeInv, TypeOK
<1>3. \A f \in Fd : file[f] \in Conn \cup {NoConn}
  BY DEF TypeInv, TypeOK
<1>4. Files'
  BY <1>1, <1>2, <1>3 DEF Core, Files
<1>5. Slots' /\ Ending' /\ Heads'
  BY <1>1 DEF Core, Slots, Ending, Heads, Of, StatusHeld, AskedFor
<1>6. Flags' /\ Alone' /\ Fitting'
  BY <1>1 DEF Core, Flags, Alone, Fitting, Fits, Holding, Of, StatusHeld, AskedFor
<1>7. QED
  BY <1>4, <1>5, <1>6 DEF Core

(* Nothing goes by the number that accept() returns.                       *)
LEMMA CoreAccept ==
  ASSUME TypeInv, Core, ~raced', NEW k \in Conn, Accept(k)
  PROVE  Core'
<1>1. PICK f \in Fd : /\ file[f] = NoConn
                      /\ file' = [file EXCEPT ![f] = k]
                      /\ main' = MainAt("scan", 0, f)
                      /\ ~InUse(f)
  BY DEF Accept
<1>2. /\ UNCHANGED <<sockfd, taken, count, asker, th, recving, sending>>
      /\ main.pc = "select" /\ arrived[k] = "waiting"
      /\ arrived' = [arrived EXCEPT ![k] = "accepted"]
  BY DEF Accept, slotVars
<1>3. main'.pc = "scan" /\ main'.fd = f
  BY <1>1 DEF MainAt
<1>4. \A g \in Fd : file'[g] = IF g = f THEN k ELSE file[g]
  BY <1>1 DEF TypeInv, TypeOK
<1>5. \A c \in Conn : arrived'[c] = IF c = k THEN "accepted" ELSE arrived[c]
  BY <1>2 DEF TypeInv, TypeOK
<1>6. \A g \in Fd : file[g] \in Conn \cup {NoConn}
  BY DEF TypeInv, TypeOK
<1>7. k # NoConn
  BY PoolAssumption
<1>8. \A i \in Slot : sockfd[i] # f
  BY <1>1 DEF InUse
<1>9. \A t \in Thread : th[t].pc \in {"head", "items"} => th[t].fd # f
  BY <1>1 DEF InUse, Calling
<1>10. Files'
  BY <1>2, <1>4, <1>5, <1>6, <1>7 DEF Core, Files
<1>11. Slots'
  BY <1>2, <1>3, <1>4, <1>7, <1>8 DEF Core, Slots
<1>12. Ending'
  BY <1>3 DEF Ending
<1>13. \A g : g # f => Of(g)' = Of(g)
  BY <1>4 DEF Of
<1>14. \A i \in Slot : Of(sockfd[i])' = Of(sockfd[i])
  BY <1>2, <1>4, <1>8 DEF Of
<1>15. Heads'
  <2>1. \A i \in Slot : ~StatusHeld(i)
    BY <1>2 DEF StatusHeld
  <2>2. ASSUME NEW i \in Slot, Of(sockfd[i])' # NoConn
        PROVE  /\ Of(sockfd[i]) # NoConn
               /\ AskedFor(Of(sockfd[i]))' <=> AskedFor(Of(sockfd[i]))
    BY <1>2, <1>14, <2>2 DEF AskedFor
  <2>3. QED
    BY <1>2, <1>14, <2>1, <2>2 DEF Core, Heads
<1>16. Flags' /\ Alone'
  BY <1>2, <1>3, ThreadsStay DEF StatusHeld
<1>17. ASSUME NEW t \in Thread PROVE Fits(t, th[t])'
  <2>1. Fits(t, th[t]) /\ (th[t].pc # "idle" => th[t].i \in Slot)
    BY DEF Core, Fitting, TypeInv
  <2>2. QED
    BY <1>2, <1>4, <1>8, <1>9, <2>1 DEF Fits, AskedFor, Of
<1>18. QED
  BY <1>10, <1>11, <1>12, <1>15, <1>16, <1>17 DEF Core, Fitting

(* No thread is at work on the slot that the accept fills.                 *)
LEMMA CoreScanSlot ==
  ASSUME TypeInv, Core, ~raced', ScanSlot
  PROVE  Core'
<1> DEFINE i == main.i
<1>1. /\ UNCHANGED <<file, arrived, taken, count, asker, th, recving, sending>>
      /\ main.pc = "scan" /\ i \in Slot
      /\ main.fd \in Fd /\ \A j \in Slot : sockfd[j] # main.fd
  BY Numbers DEF ScanSlot, TypeInv, TypeOK, Slot, peerVars, Core, Slots
<1>2. \A j \in Slot : ~StatusHeld(j)
  BY <1>1 DEF StatusHeld
<1>3. Files'
  BY <1>1 DEF Core, Files
<1>4. CASE sockfd[i] # Closed
  <2>1. UNCHANGED sockfd /\ main'.pc = "scan" /\ main'.fd = main.fd
    BY <1>1, <1>4 DEF ScanSlot, TypeInv, TypeOK
  <2>2. Slots' /\ Ending'
    BY <1>1, <2>1 DEF Core, Slots, Ending
  <2>3. Heads'
    BY <1>1, <1>2, <2>1 DEF Core, Heads, Of, AskedFor
  <2>4. Flags' /\ Alone'
    BY <1>1, <2>1, ThreadsStay DEF StatusHeld
  <2>5. Fitting'
    BY <1>1, <2>1 DEF Core, Fitting, Fits, Of, AskedFor
  <2>6. QED
    BY <1>3, <2>2, <2>3, <2>4, <2>5 DEF Core
<1>5. CASE sockfd[i] = Closed
  <2>1. /\ sockfd' = [sockfd EXCEPT ![i] = main.fd]
        /\ main'.pc = "clear" /\ main'.i = i
        /\ ~Inside(i)
    BY <1>1, <1>5 DEF ScanSlot, TypeInv, TypeOK
  <2>2. \A j \in Slot : sockfd'[j] = IF j = i THEN main.fd ELSE sockfd[j]
    BY <2>1 DEF TypeInv, TypeOK
  <2>3. \A t \in Thread : th[t].i = i => th[t].pc \in {"idle", "exit"}
    BY <2>1 DEF Inside
  <2>4. Slots'
    <3>1. \A j, k \in Slot : sockfd'[j] = sockfd'[k] /\ sockfd'[j] # Closed => j = k
      BY <1>1, <2>2 DEF Core, Slots
    <3>2. ASSUME NEW f \in Fd, file[f] # NoConn
          PROVE  \E j \in Slot : sockfd'[j] = f
      <4>1. CASE main.fd = f
        BY <1>1, <2>2, <4>1
      <4>2. CASE main.fd # f
        <5>1. PICK j \in Slot : sockfd[j] = f
          BY <3>2, <4>2 DEF Core, Slots
        <5>2. sockfd'[j] = f
          BY <5>1, <1>5, <2>2, Numbers
        <5>3. QED
          BY <5>2
      <4>3. QED
        BY <4>1, <4>2
    <3>3. QED
      BY <1>1, <2>1, <3>1, <3>2 DEF Slots
  <2>5. Ending'
    BY <2>1 DEF Ending
  <2>6. Heads'
    <3>1. ASSUME NEW j \in Slot, j # i, Of(sockfd'[j]) # NoConn
          PROVE  /\ count[j] > 0 => asker[j] = Of(sockfd'[j])
                 /\ ~AskedFor(Of(sockfd'[j])) => count[j] = 0
      <4>1. sockfd'[j] = sockfd[j]
        BY <2>2, <3>1
      <4>2. QED
        BY <1>2, <3>1, <4>1 DEF Core, Heads
    <3>2. QED
      BY <1>1, <2>1, <3>1 DEF Heads, Of, StatusHeld, AskedFor
  <2>7. Flags'
    <3>1. \A t \in Thread : th[t].pc \notin {"idle", "exit"} => ~StatusHeld(th[t].i)'
      BY <1>1, <2>1, <2>3 DEF StatusHeld
    <3>2. QED
      BY <1>1, <2>1, <2>3 DEF Core, Flags, Holding, StatusHeld
  <2>8. Alone'
    BY <1>1 DEF Core, Alone, Holding
  <2>9. ASSUME NEW t \in Thread PROVE Fits(t, th[t])'
    <3>1. Fits(t, th[t]) /\ (th[t].pc # "idle" => th[t].i \in Slot)
      BY DEF Core, Fitting, TypeInv
    <3>2. QED
      BY <1>1, <2>2, <2>3, <3>1 DEF Fits, AskedFor, Of
  <2>10. QED
    BY <1>3, <2>4, <2>5, <2>6, <2>7, <2>8, <2>9 DEF Core, Fitting
<1>6. QED
  BY <1>4, <1>5

LEMMA CoreClearSlot ==
  ASSUME TypeInv, Core, ClearSlot
  PROVE  Core'
<1> DEFINE i == main.i
<1>1. /\ UNCHANGED <<file, sockfd, arrived, taken>>
      /\ main.pc = "clear" /\ i \in Slot /\ main'.pc = "select"
  BY DEF ClearSlot, TypeInv, peerVars, MainAt
<1>2. \A t \in Thread : th[t].i = i => th[t].pc \in {"idle", "exit"}
  BY <1>1 DEF Core, Flags, StatusHeld
<1>3. th' = th
  <2>1. PICK lost \in SUBSET {t \in Thread : th[t].pc \in {"fetch", "add"} /\ th[t].i = i} :
          th' = [t \in Thread |-> IF t \in lost THEN InSlot("lost", i) ELSE th[t]]
    BY DEF ClearSlot
  <2>2. lost = {}
    BY <1>2
  <2>3. QED
    BY <2>1, <2>2 DEF TypeInv, TypeOK
<1>4. \A j \in Slot : /\ recving'[j] = (j # i /\ recving[j])
                      /\ sending'[j] = (j # i /\ sending[j])
  BY <1>1 DEF ClearSlot, TypeInv, TypeOK
<1>5. \A j \in Slot : /\ count'[j] = IF j = i THEN 0 ELSE count[j]
                      /\ j # i => asker'[j] = asker[j]
  BY <1>1 DEF ClearSlot, TypeInv, TypeOK
<1>6. Files' /\ Ending'
  BY <1>1 DEF Core, Files, Ending
<1>7. Slots'
  BY <1>1 DEF Core, Slots
<1>8. Heads'
  <2>1. ASSUME NEW j \in Slot, Of(sockfd[j]) # NoConn
        PROVE  /\ count'[j] > 0 => asker'[j] = Of(sockfd[j])
               /\ ~AskedFor(Of(sockfd[j])) => count'[j] = 0
    <3>1. CASE j = i
      BY <3>1, <1>5
    <3>2. CASE j # i
      BY <3>2, <2>1, <1>5 DEF Core, Heads, StatusHeld
    <3>3. QED
      BY <3>1, <3>2
  <2>2. QED
    BY <1>1, <2>1 DEF Heads, Of, AskedFor
<1>9. Flags'
  <2>1. \A t \in Thread : Holding(t) => th[t].i \in Slot /\ th[t].i # i
    BY <1>2 DEF TypeInv, Holding, HoldingPC
  <2>2. QED
    BY <1>1, <1>3, <1>4, <2>1, Kinds DEF Core, Flags, Holding, StatusHeld
<1>10. Alone'
  BY <1>3 DEF Core, Alone, Holding
<1>11. ASSUME NEW t \in Thread PROVE Fits(t, th[t])'
  <2>1. Fits(t, th[t]) /\ (th[t].pc # "idle" => th[t].i \in Slot)
    BY DEF Core, Fitting, TypeInv
  <2>2. QED
    BY <1>1, <1>2, <1>3, <1>5, <2>1 DEF Fits, AskedFor, Of
<1>12. QED
  BY <1>6, <1>7, <1>8, <1>9, <1>10, <1>11 DEF Core, Fitting

LEMMA CoreRefuse ==
  ASSUME TypeInv, Core, Refuse
  PROVE  Core'
<1>1. /\ UNCHANGED <<sockfd, arrived, taken, count, asker, th, recving, sending>>
      /\ CloseFd(main.fd) /\ main.pc = "scan" /\ main'.pc = "select"
  BY DEF Refuse, peerVars, slotVars, MainAt
<1>2. Files' /\ Heads'
  BY <1>1, ClosingKeeps DEF StatusHeld
<1>3. Slots' /\ Ending'
  BY <1>1, Closing DEF Core, Slots, Ending
<1>4. Flags' /\ Alone'
  BY <1>1, ThreadsStay DEF StatusHeld
<1>5. ASSUME NEW t \in Thread PROVE Fits(t, th[t])'
  <2>1. Fits(t, th[t])
    BY DEF Core, Fitting
  <2>2. QED
    BY <1>1, <2>1, Closing DEF Fits, AskedFor, Of
<1>6. QED
  BY <1>2, <1>3, <1>4, <1>5 DEF Core, Fitting

(* Every open descriptor is in a slot when the loop is left, so that the   *)
(* pass over the slots closes all of them.                                 *)
LEMMA CoreEnds ==
  ASSUME TypeInv, Core, LoopEnds \/ Cleanup \/ Join
  PROVE  Core'
<1>1. /\ UNCHANGED <<sockfd, arrived, taken, count, asker, th, recving, sending>>
      /\ main.pc \in {"select", "cleanup", "join"}
      /\ main'.pc \in {"cleanup", "join", "done"}
  BY DEF LoopEnds, Cleanup, Join, peerVars, slotVars, MainAt, TypeInv, TypeOK
<1>2. Flags' /\ Alone'
  BY <1>1, ThreadsStay DEF StatusHeld
<1>3. CASE UNCHANGED file
  <2>1. Files' /\ Slots' /\ Heads' /\ Fitting'
    BY <1>1, <1>3
       DEF Core, Files, Slots, Heads, Fitting, Fits, Of, StatusHeld, AskedFor
  <2>2. Ending'
    <3>1. CASE LoopEnds
      <4>1. main'.pc = "cleanup" /\ main'.i = 0
        BY <3>1 DEF LoopEnds, MainAt
      <4>2. QED
        BY <4>1 DEF Ending, Slot
    <3>2. CASE Join
      <4>1. main.pc = "join" /\ main'.pc = "done"
        BY <3>2 DEF Join, MainAt
      <4>2. QED
        BY <1>3, <4>1 DEF Core, Ending
    <3>3. CASE Cleanup /\ main.i < ClientCount
      <4>1. /\ main'.pc = "cleanup" /\ main'.i = main.i + 1 /\ main.i \in Int
            /\ main.pc = "cleanup" /\ CloseFd(sockfd[main.i])
        BY <3>3 DEF Cleanup, TypeInv, TypeOK
      <4>2. ASSUME NEW j \in Slot, j < main'.i PROVE Of(sockfd[j])' = NoConn
        <5>1. CASE j = main.i
          BY <1>1, <4>1, <5>1, Closing DEF Of
        <5>2. CASE j # main.i
          <6>1. j < main.i
            BY <4>1, <4>2, <5>2 DEF Slot
          <6>2. QED
            BY <1>1, <1>3, <4>1, <6>1 DEF Core, Ending, Of
        <5>3. QED
          BY <5>1, <5>2
      <4>3. QED
        BY <4>1, <4>2 DEF Ending
    <3>4. CASE Cleanup /\ ~(main.i < ClientCount)
      <4>1. /\ main'.pc = "join" /\ main.pc = "cleanup"
            /\ \A j \in Slot : j < main.i
        BY <3>4, Numbers DEF Cleanup, MainAt, Slot, TypeInv, TypeOK
      <4>2. \A f \in Fd : file[f] = NoConn
        <5>1. ASSUME NEW f \in Fd, file[f] # NoConn PROVE FALSE
          <6>1. PICK j \in Slot : sockfd[j] = f
            BY <4>1, <5>1 DEF Core, Slots
          <6>2. QED
            BY <4>1, <5>1, <6>1 DEF Core, Ending, Of
        <5>2. QED
          BY <5>1
      <4>3. QED
        BY <1>3, <4>1, <4>2 DEF Ending
    <3>5. QED
      BY <3>1, <3>2, <3>3, <3>4
  <2>3. QED
    BY <1>2, <2>1, <2>2 DEF Core
<1>4. CASE ~UNCHANGED file
  <2>1. /\ main.pc = "cleanup" /\ main'.pc = "cleanup" /\ main'.i = main.i + 1
        /\ main.i \in Slot /\ CloseFd(sockfd[main.i])
    BY <1>4, Numbers DEF LoopEnds, Cleanup, Join, TypeInv, TypeOK, Slot
  <2>2. Files' /\ Heads'
    BY <1>1, <2>1, ClosingKeeps DEF StatusHeld
  <2>3. Slots'
    BY <1>1, <2>1, Closing DEF Core, Slots
  <2>4. Ending'
    <3>1. ASSUME NEW j \in Slot, j < main'.i PROVE Of(sockfd[j])' = NoConn
      <4>1. CASE j = main.i
        BY <1>1, <2>1, <4>1, Closing DEF Of
      <4>2. CASE j # main.i
        <5>1. j < main.i
          BY <2>1, <3>1, <4>2 DEF Slot
        <5>2. QED
          BY <1>1, <2>1, <5>1, Closing DEF Core, Ending, Of
      <4>3. QED
        BY <4>1, <4>2
    <3>2. QED
      BY <2>1, <3>1 DEF Ending
  <2>5. ASSUME NEW t \in Thread PROVE Fits(t, th[t])'
    <3>1. Fits(t, th[t])
      BY DEF Core, Fitting
    <3>2. QED
      BY <1>1, <2>1, <3>1, Closing DEF Fits, AskedFor, Of
  <2>6. QED
    BY <1>2, <2>2, <2>3, <2>4, <2>5 DEF Core, Fitting
<1>5. QED
  BY <1>3, <1>4

-----------------------------------------------------------------------------
LEMMA CoreStep ==
  ASSUME TypeInv, Core, ~raced', [Next]_vars
  PROVE  Core'
<1>1. CASE UNCHANGED vars
  BY <1>1 DEF vars, peerVars, slotVars, Core, Files, Slots, Ending, Heads, Flags,
              Alone, Fitting, Fits, Holding, Of, StatusHeld, AskedFor
<1>2. ASSUME NEW t \in Thread, Both(t) PROVE Core'
  BY <1>2, CoreOutside, CoreLock, CoreCalls, CoreCloseSlot, CoreResetSlot, CoreUnlock
     DEF Both
<1>3. ASSUME NEW t \in RecvThread, RecvStep(t) PROVE Core'
  BY <1>2, <1>3, Kinds, CoreCalls, CoreRecvHead, CoreAddHead DEF RecvStep
<1>4. ASSUME NEW t \in SendThread, SendStep(t) PROVE Core'
  BY <1>2, <1>4, Kinds, CoreCalls, CoreTestCount, CoreTakeChunk DEF SendStep
<1>5. CASE MainStep \/ LoopEnds
  BY <1>5, CoreAccept, CoreScanSlot, CoreClearSlot, CoreRefuse, CoreEnds DEF MainStep
<1>6. QED
  BY <1>1, <1>3, <1>4, <1>5, CorePeer DEF Next, AtRest

LEMMA RacedStays == ASSUME TypeInv, [Next]_vars, raced PROVE raced'
BY DEF Next, Peer, RecvStep, SendStep, Both, MainStep, LoopEnds, AtRest, NextPass,
       Look, Lock, CallFails, CloseSlot, ResetSlot, Unlock, Check, RecvHead, RecvItems,
       AddHead, Fetch, TestCount, TakeChunk, SendHead, SendItems, Accept, ScanSlot,
       ClearSlot, Refuse, Cleanup, Join, vars

(* What the threads and main() rely on, of every slot and every descriptor *)
(* at once, in every state before an accept has met a thread at work.      *)
LEMMA PoolInvariant == Spec => []PInv
<1>1. Init => PInv
  BY TypeInit, CoreInit DEF PInv
<1>2. PInv /\ [Next]_vars => PInv'
  BY TypeStep, CoreStep, RacedStays DEF PInv
<1>3. QED
  BY <1>1, <1>2, PTL DEF Spec

(* Every variable keeps its type, and a count the width of its field,      *)
(* whatever the accepts meet.                                              *)
THEOREM PoolTyped == Spec => []TypeOK
<1>1. PInv => TypeOK
  BY DEF PInv, TypeInv
<1>2. QED
  BY <1>1, PoolInvariant, PTL

(* The flags recving and sending, which a thread takes after it has looked *)
(* at the slot and which an accept clears, keep a second thread of its     *)
(* kind off a connection (idg_storage.c:122-215).                          *)
THEOREM ThreadsApart == Spec => []OneThreadEach
<1>1. PInv => OneThreadEach
  <2> SUFFICES ASSUME PInv, ~raced, NEW t \in Thread, NEW u \in Thread, t # u,
                      Calling(t), Calling(u), t \in RecvThread <=> u \in RecvThread,
                      Of(th[t].fd) # NoConn, Of(th[t].fd) = Of(th[u].fd)
               PROVE  FALSE
    BY DEF OneThreadEach
  <2>1. Holding(t) /\ Holding(u) /\ th[t].i \in Slot /\ th[u].i \in Slot
    BY DEF PInv, TypeInv, Calling, Holding, HoldingPC
  <2>2. th[t].fd \in Fd /\ th[u].fd \in Fd /\ th[t].fd = th[u].fd
    BY DEF PInv, Core, Files, Of
  <2>3. sockfd[th[t].i] = th[t].fd /\ sockfd[th[u].i] = th[u].fd
    BY DEF PInv, Core, Fitting, Fits, Calling
  <2>4. th[t].i = th[u].i
    BY <2>1, <2>2, <2>3, Numbers DEF PInv, Core, Slots
  <2>5. QED
    BY <2>1, <2>4 DEF PInv, Core, Alone
<1>2. QED
  BY <1>1, PoolInvariant, PTL

(* A thread writes to the descriptor of its slot the reply to a request    *)
(* that came over it (idg_storage.c:180-210).                              *)
THEOREM RepliesArrive == Spec => []RepliesToAsker
<1>1. PInv => RepliesToAsker
  BY Kinds DEF PInv, Core, Fitting, Fits, Calling, RepliesToAsker
<1>2. QED
  BY <1>1, PoolInvariant, PTL

(* The count a thread has found longer than a chunk is so when it takes    *)
(* the chunk off it, without the mutex (idg_storage.c:184-190).            *)
THEOREM CountsInRange == Spec => []CountInRange
<1>1. PInv => CountInRange
  BY Kinds DEF PInv, Core, Fitting, Fits, CountInRange
<1>2. QED
  BY <1>1, PoolInvariant, PTL

(* An open connection is in one slot or in the hands of main(), and closed *)
(* when main() waits for its threads.                                      *)
THEOREM NothingLeaks == Spec => []NoLeak
<1>1. PInv => NoLeak
  <2> SUFFICES ASSUME PInv, ~raced, NEW f \in Fd, file[f] # NoConn
               PROVE  /\ main.pc \notin {"join", "done"}
                      /\ IF main.fd = f /\ main.pc = "scan"
                         THEN \A i \in Slot : sockfd[i] # f
                         ELSE \E i \in Slot : \A j \in Slot : (sockfd[j] = f) <=> (j = i)
    BY DEF NoLeak
  <2>1. main.pc \notin {"join", "done"}
    BY DEF PInv, Core, Ending
  <2>2. CASE main.fd = f /\ main.pc = "scan"
    BY <2>1, <2>2 DEF PInv, Core, Slots
  <2>3. CASE ~(main.fd = f /\ main.pc = "scan")
    <3>1. PICK i \in Slot : sockfd[i] = f
      BY <2>3 DEF PInv, Core, Slots
    <3>2. \A j \in Slot : (sockfd[j] = f) <=> (j = i)
      BY <3>1, Numbers DEF PInv, Core, Slots
    <3>3. QED
      BY <2>1, <2>3, <3>2
  <2>4. QED
    BY <2>2, <2>3
<1>2. QED
  BY <1>1, PoolInvariant, PTL

=============================================================================
