----------------------------- MODULE StoragePool -----------------------------
(***************************************************************************)
(* The connection pool of the IDG storage (idg_storage.c): main() accepts  *)
(* clients into CLIENT_COUNT slots that its receive and send threads work  *)
(* on at the same time.  The steps are those of the code: a slot is read   *)
(* (clients[i].sockfd) before its flag is taken, is given back by close(), *)
(* sockfd = -1 and the unlock one after the other, and is reused by an     *)
(* accept that stores the descriptor before it clears the rest.  The       *)
(* descriptor numbers are the kernel's, which gives a number out again as  *)
(* soon as it is closed.                                                   *)
(*                                                                         *)
(* The heads of a slot are one head here, which a client asks for once.    *)
(***************************************************************************)
EXTENDS Integers, Sequences, FiniteSets

CONSTANTS
  Conn,         \* connections that clients open, each of them once
  NoConn,       \* what a closed descriptor refers to
  ClientCount,  \* CLIENT_COUNT, the number of slots
  RecvThread, SendThread,
  MTU,          \* REPORT_MTU_COUNT
  Asked,        \* counts of the read requests
  Wrap,         \* 2^32: counts are unsigned
  Frames        \* what a client sends: "request"s, and "data" with its items

ASSUME PoolAssumption ==
  /\ NoConn \notin Conn
  /\ RecvThread \cap SendThread = {}
  /\ IsFiniteSet(Conn)
  /\ ClientCount \in Nat \ {0}
  /\ MTU \in Nat \ {0}
  /\ Wrap \in Nat \ {0}
  /\ Asked \subseteq 1 .. Wrap - 1
  /\ Frames \in Seq({"request", "data"})
  /\ \A a, b \in DOMAIN Frames :
        Frames[a] = "request" /\ Frames[b] = "request" => a = b

Thread == RecvThread \cup SendThread
Slot == 0 .. ClientCount - 1
Fd == 1 .. Cardinality(Conn)
Closed == -1

VARIABLES
  arrived,  \* arrived[k]: "new", "waiting" in the backlog, "accepted"
  gone,     \* gone[k]: the client has closed its end
  sent,     \* sent[k]: the frames that are sent
  taken,    \* taken[k]: those the storage has read
  file,     \* file[f]: the connection descriptor f refers to
  sockfd,   \* clients[i].sockfd
  recving, sending,  \* clients[i].send_buffer.recving and .sending
  count,    \* clients[i].send_buffer.heads[].count
  asker,    \* auxiliary: the connection that count was read from
  th,       \* the threads of both kinds
  main,     \* main(): program counter, slot, descriptor accepted
  running,  \* storage_running
  raced     \* auxiliary: an accept met a thread at work (see Inside)

peerVars == <<arrived, gone, sent, taken>>
slotVars == <<sockfd, recving, sending, count, asker>>
vars == <<peerVars, file, slotVars, th, main, running, raced>>

Of(f) == IF f \in Fd THEN file[f] ELSE NoConn
CloseFd(f) == file' = [g \in Fd |-> IF g = f THEN NoConn ELSE file[g]]

(* A thread: where it is, its slot, the descriptor it passed to the call   *)
(* it is in and the connection it means by it.                             *)
At(pc, i, f, k) == [pc |-> pc, i |-> i, fd |-> f, k |-> k]
Idle(i) == At("idle", i, Closed, NoConn)
InSlot(pc, i) == At(pc, i, Closed, NoConn)

ThreadPC == {"idle", "lock", "check", "fetch", "test", "take", "head", "items",
             "add", "close", "reset", "unlock", "done", "lost", "exit"}
ThreadState == [pc : ThreadPC, i : 0 .. ClientCount, fd : Fd \cup {Closed},
                k : Conn \cup {NoConn}]

TypeOK ==
  /\ arrived \in [Conn -> {"new", "waiting", "accepted"}]
  /\ gone \in [Conn -> BOOLEAN]
  /\ sent \in [Conn -> 0 .. Len(Frames)]
  /\ taken \in [Conn -> 0 .. Len(Frames)]
  /\ file \in [Fd -> Conn \cup {NoConn}]
  /\ sockfd \in [Slot -> Fd \cup {Closed}]
  /\ recving \in [Slot -> BOOLEAN]
  /\ sending \in [Slot -> BOOLEAN]
  /\ count \in [Slot -> 0 .. Wrap - 1]
  /\ asker \in [Slot -> Conn \cup {NoConn}]
  /\ th \in [Thread -> ThreadState]
  /\ main \in [pc : {"select", "scan", "clear", "cleanup", "join", "done"},
               i : 0 .. ClientCount, fd : Fd \cup {Closed}]
  /\ running \in BOOLEAN
  /\ raced \in BOOLEAN

MainAt(pc, i, f) == [pc |-> pc, i |-> i, fd |-> f]

Init ==
  /\ arrived = [k \in Conn |-> "new"]
  /\ gone = [k \in Conn |-> FALSE]
  /\ sent = [k \in Conn |-> 0]
  /\ taken = [k \in Conn |-> 0]
  /\ file = [f \in Fd |-> NoConn]
  /\ sockfd = [i \in Slot |-> Closed]
  /\ recving = [i \in Slot |-> FALSE]
  /\ sending = [i \in Slot |-> FALSE]
  /\ count = [i \in Slot |-> 0]
  /\ asker = [i \in Slot |-> NoConn]
  /\ th = [t \in Thread |-> Idle(0)]
  /\ main = MainAt("select", 0, Closed)
  /\ running = TRUE
  /\ raced = FALSE

-----------------------------------------------------------------------------
(* The clients.                                                            *)

Connect(k) ==
  /\ arrived[k] = "new"
  /\ arrived' = [arrived EXCEPT ![k] = "waiting"]
  /\ UNCHANGED <<gone, sent, taken>>

SendFrame(k) ==
  /\ arrived[k] # "new" /\ ~gone[k]
  /\ sent[k] < Len(Frames)
  /\ sent' = [sent EXCEPT ![k] = @ + 1]
  /\ UNCHANGED <<arrived, gone, taken>>

Leave(k) ==
  /\ arrived[k] # "new" /\ ~gone[k]
  /\ gone' = [gone EXCEPT ![k] = TRUE]
  /\ UNCHANGED <<arrived, sent, taken>>

Peer ==
  /\ \E k \in Conn : Connect(k) \/ SendFrame(k) \/ Leave(k)
  /\ UNCHANGED <<file, slotVars, th, main, running, raced>>

-----------------------------------------------------------------------------
(* The slots and the descriptors in use.                                   *)

(* A thread has looked at slot i and is not done with it.                  *)
Inside(i) ==
  \E t \in Thread : th[t].pc \notin {"idle", "exit"} /\ th[t].i = i

Calling(t) == th[t].pc \in {"head", "items"}

(* A slot, or a call in progress, still goes by the number f.              *)
InUse(f) ==
  \/ \E i \in Slot : sockfd[i] = f
  \/ \E t \in Thread : Calling(t) /\ th[t].fd = f

(* main() holds status_mutex of slot i while it clears the slot.           *)
StatusHeld(i) == main.pc = "clear" /\ main.i = i

-----------------------------------------------------------------------------
(* What both kinds of thread do.                                           *)

Goto(t, state) == th' = [th EXCEPT ![t] = state]

(* Mutant: the threads do not look at storage_running.                     *)
NextPassForever(t) ==
  /\ th[t].pc = "idle" /\ th[t].i = ClientCount
  /\ Goto(t, Idle(0))
  /\ UNCHANGED <<peerVars, file, slotVars, main, running, raced>>

(* for (i = 0; i < CLIENT_COUNT; i ++) inside while (storage_running).     *)
NextPass(t) ==
  /\ th[t].pc = "idle" /\ th[t].i = ClientCount
  /\ Goto(t, IF running THEN Idle(0) ELSE InSlot("exit", 0))
  /\ UNCHANGED <<peerVars, file, slotVars, main, running, raced>>

Look(t) ==
  LET i == th[t].i IN
  /\ th[t].pc = "idle" /\ i < ClientCount
  /\ IF sockfd[i] = Closed
     THEN Goto(t, Idle(i + 1)) /\ UNCHANGED raced
     ELSE Goto(t, InSlot("lock", i)) /\ raced' = (raced \/ StatusHeld(i))
  /\ UNCHANGED <<peerVars, file, slotVars, main, running>>

(* Mutant: a receive thread does not look at the flag.                     *)
LockAnyway(t) ==
  LET i == th[t].i IN
  /\ th[t].pc = "lock"
  /\ IF t \in RecvThread
     THEN /\ Goto(t, InSlot("check", i))
          /\ recving' = [recving EXCEPT ![i] = TRUE]
          /\ UNCHANGED sending
     ELSE /\ Goto(t, IF sending[i] THEN Idle(i + 1) ELSE InSlot("fetch", i))
          /\ sending' = [sending EXCEPT ![i] = TRUE]
          /\ UNCHANGED recving
  /\ UNCHANGED <<peerVars, file, sockfd, count, asker, main, running, raced>>

(* recv_check_and_lock, send_check_and_lock.                               *)
Lock(t) ==
  LET i == th[t].i IN
  /\ th[t].pc = "lock"
  /\ IF t \in RecvThread
     THEN /\ Goto(t, IF recving[i] THEN Idle(i + 1) ELSE InSlot("check", i))
          /\ recving' = [recving EXCEPT ![i] = TRUE]
          /\ UNCHANGED sending
     ELSE /\ Goto(t, IF sending[i] THEN Idle(i + 1) ELSE InSlot("fetch", i))
          /\ sending' = [sending EXCEPT ![i] = TRUE]
          /\ UNCHANGED recving
  /\ UNCHANGED <<peerVars, file, sockfd, count, asker, main, running, raced>>

(* A call on a closed descriptor fails, one on an open connection at the   *)
(* end of the file, when the client is gone, or after RECV_TIMEOUT or      *)
(* SEND_TIMEOUT, which may be at any moment.                               *)
CallFails(t) ==
  /\ Calling(t)
  /\ Goto(t, At("close", th[t].i, Closed, Of(th[t].fd)))
  /\ UNCHANGED <<peerVars, file, slotVars, main, running, raced>>

(* Mutant: the descriptor is not closed.                                   *)
CloseSlotForgets(t) ==
  /\ th[t].pc = "close"
  /\ Goto(t, InSlot("reset", th[t].i))
  /\ UNCHANGED <<peerVars, file, slotVars, main, running, raced>>

(* close(clients[i].sockfd), whatever the slot holds by now.               *)
CloseSlot(t) ==
  /\ th[t].pc = "close"
  /\ CloseFd(sockfd[th[t].i])
  /\ Goto(t, InSlot("reset", th[t].i))
  /\ UNCHANGED <<peerVars, slotVars, main, running, raced>>

(* clients[i].sockfd = -1; then "unlock" is a continue with the next slot, *)
(* "done" a break out of the pass.                                         *)
ResetSlot(t) ==
  LET i == th[t].i IN
  /\ th[t].pc = "reset"
  /\ sockfd' = [sockfd EXCEPT ![i] = Closed]
  /\ Goto(t, InSlot(IF t \in RecvThread THEN "unlock" ELSE "done", i))
  /\ UNCHANGED <<peerVars, file, recving, sending, count, asker, main,
                 running, raced>>

(* Mutant: a connection without data is left locked.                       *)
UnlockServed(t) ==
  LET i == th[t].i IN
  /\ th[t].pc \in {"unlock", "done"}
  /\ IF t \in RecvThread
     THEN recving' = [recving EXCEPT ![i] = th[t].pc = "unlock"] /\ UNCHANGED sending
     ELSE sending' = [sending EXCEPT ![i] = FALSE] /\ UNCHANGED recving
  /\ Goto(t, Idle(IF th[t].pc = "done" THEN ClientCount ELSE i + 1))
  /\ UNCHANGED <<peerVars, file, sockfd, count, asker, main, running, raced>>

(* recv_unlock, send_unlock.                                               *)
Unlock(t) ==
  LET i == th[t].i IN
  /\ th[t].pc \in {"unlock", "done"}
  /\ IF t \in RecvThread
     THEN recving' = [recving EXCEPT ![i] = FALSE] /\ UNCHANGED sending
     ELSE sending' = [sending EXCEPT ![i] = FALSE] /\ UNCHANGED recving
  /\ Goto(t, Idle(IF th[t].pc = "done" THEN ClientCount ELSE i + 1))
  /\ UNCHANGED <<peerVars, file, sockfd, count, asker, main, running, raced>>

-----------------------------------------------------------------------------
(* recv_thread_routine                                                     *)

(* check_recv_status: data or the end of the file is pending.              *)
Unread(k) == taken[k] < sent[k]
Readable(f) == Of(f) # NoConn /\ (Unread(Of(f)) \/ gone[Of(f)])

Check(t) ==
  LET i == th[t].i IN
  /\ th[t].pc = "check"
  /\ Goto(t, IF Readable(sockfd[i]) THEN At("head", i, sockfd[i], NoConn)
             ELSE InSlot("unlock", i))
  /\ UNCHANGED <<peerVars, file, slotVars, main, running, raced>>

(* The head of a frame: a read request, or items follow.                   *)
RecvHead(t) ==
  LET i == th[t].i
      k == Of(th[t].fd)
  IN
  /\ t \in RecvThread /\ th[t].pc = "head"
  /\ k # NoConn /\ Unread(k)
  /\ taken' = [taken EXCEPT ![k] = @ + 1]
  /\ Goto(t, IF Frames[taken'[k]] = "request" THEN At("add", i, Closed, k)
             ELSE At("items", i, sockfd[i], NoConn))
  /\ UNCHANGED <<arrived, gone, sent, file, slotVars, main, running, raced>>

RecvItems(t) ==
  /\ t \in RecvThread /\ th[t].pc = "items"
  /\ Of(th[t].fd) # NoConn
  /\ Goto(t, InSlot("done", th[t].i))
  /\ UNCHANGED <<peerVars, file, slotVars, main, running, raced>>

(* add_send_head.                                                          *)
AddHead(t) ==
  LET i == th[t].i IN
  /\ th[t].pc = "add" /\ ~StatusHeld(i)
  /\ \E n \in Asked : count' = [count EXCEPT ![i] = n]
  /\ asker' = [asker EXCEPT ![i] = th[t].k]
  /\ Goto(t, InSlot("done", i))
  /\ UNCHANGED <<peerVars, file, sockfd, recving, sending, main, running,
                 raced>>

-----------------------------------------------------------------------------
(* send_thread_routine                                                     *)

(* fetch_send_head.                                                        *)
Fetch(t) ==
  LET i == th[t].i IN
  /\ th[t].pc = "fetch" /\ ~StatusHeld(i)
  /\ Goto(t, InSlot(IF count[i] > 0 THEN "test" ELSE "unlock", i))
  /\ UNCHANGED <<peerVars, file, slotVars, main, running, raced>>

(* Mutant: a head of exactly one chunk is taken for a longer one.          *)
TestCountAtLeast(t) ==
  LET i == th[t].i IN
  /\ th[t].pc = "test"
  /\ \/ /\ count[i] = 0
        /\ Goto(t, InSlot("done", i))
        /\ UNCHANGED count
     \/ /\ count[i] >= MTU
        /\ Goto(t, InSlot("take", i))
        /\ UNCHANGED count
     \/ /\ count[i] \in 1 .. MTU - 1
        /\ count' = [count EXCEPT ![i] = 0]
        /\ Goto(t, At("head", i, sockfd[i], asker[i]))
  /\ UNCHANGED <<peerVars, file, sockfd, recving, sending, asker, main,
                 running, raced>>

(* Through the pointer and without the mutex: count > 0, then whether more *)
(* than a chunk is left, then the count without the chunk.                 *)
TestCount(t) ==
  LET i == th[t].i IN
  /\ th[t].pc = "test"
  /\ \/ /\ count[i] = 0
        /\ Goto(t, InSlot("done", i))
        /\ UNCHANGED count
     \/ /\ count[i] > MTU
        /\ Goto(t, InSlot("take", i))
        /\ UNCHANGED count
     \/ /\ count[i] \in 1 .. MTU
        /\ count' = [count EXCEPT ![i] = 0]
        /\ Goto(t, At("head", i, sockfd[i], asker[i]))
  /\ UNCHANGED <<peerVars, file, sockfd, recving, sending, asker, main,
                 running, raced>>

(* Mutant: the count is signed.                                            *)
TakeChunkSigned(t) ==
  LET i == th[t].i IN
  /\ th[t].pc = "take"
  /\ count' = [count EXCEPT ![i] = @ - MTU]
  /\ Goto(t, At("head", i, sockfd[i], asker[i]))
  /\ UNCHANGED <<peerVars, file, sockfd, recving, sending, asker, main,
                 running, raced>>

TakeChunk(t) ==
  LET i == th[t].i IN
  /\ th[t].pc = "take"
  /\ count' = [count EXCEPT ![i] = (@ - MTU) % Wrap]
  /\ Goto(t, At("head", i, sockfd[i], asker[i]))
  /\ UNCHANGED <<peerVars, file, sockfd, recving, sending, asker, main,
                 running, raced>>

(* The head and its items; a write may succeed when the client is gone.    *)
SendHead(t) ==
  /\ t \in SendThread /\ th[t].pc = "head"
  /\ Of(th[t].fd) # NoConn
  /\ Goto(t, At("items", th[t].i, sockfd[th[t].i], th[t].k))
  /\ UNCHANGED <<peerVars, file, slotVars, main, running, raced>>

SendItems(t) ==
  /\ t \in SendThread /\ th[t].pc = "items"
  /\ Of(th[t].fd) # NoConn
  /\ Goto(t, InSlot("test", th[t].i))
  /\ UNCHANGED <<peerVars, file, slotVars, main, running, raced>>

-----------------------------------------------------------------------------
(* main                                                                    *)

(* accept() returns the lowest number that is free.                        *)
Accept(k) ==
  /\ main.pc = "select"
  /\ arrived[k] = "waiting"
  /\ \E f \in Fd :
        /\ file[f] = NoConn
        /\ \A g \in Fd : g < f => file[g] # NoConn
        /\ file' = [file EXCEPT ![f] = k]
        /\ main' = MainAt("scan", 0, f)
        /\ raced' = (raced \/ InUse(f))
  /\ arrived' = [arrived EXCEPT ![k] = "accepted"]
  /\ UNCHANGED <<gone, sent, taken, slotVars, th, running>>

(* The first slot without a descriptor gets the new one.                   *)
ScanSlot ==
  LET i == main.i IN
  /\ main.pc = "scan" /\ i < ClientCount
  /\ IF sockfd[i] = Closed
     THEN /\ sockfd' = [sockfd EXCEPT ![i] = main.fd]
          /\ main' = [main EXCEPT !.pc = "clear"]
          /\ raced' = (raced \/ Inside(i))
     ELSE /\ main' = [main EXCEPT !.i = i + 1]
          /\ UNCHANGED <<sockfd, raced>>
  /\ UNCHANGED <<peerVars, file, recving, sending, count, asker, th, running>>

(* Mutant: the heads are kept.                                             *)
ClearSlotKeepsHeads ==
  LET i == main.i IN
  /\ main.pc = "clear"
  /\ recving' = [recving EXCEPT ![i] = FALSE]
  /\ sending' = [sending EXCEPT ![i] = FALSE]
  /\ main' = MainAt("select", 0, Closed)
  /\ UNCHANGED <<peerVars, file, sockfd, count, asker, th, running, raced>>

(* bzero() of the send buffer, its mutexes included: one that is zero is   *)
(* free, and the unlock that follows may wake nobody up: who waits for    *)
(* status_mutex is then lost.                                              *)
ClearSlot ==
  LET i == main.i
      waiting == {t \in Thread : th[t].pc \in {"fetch", "add"} /\ th[t].i = i}
  IN
  /\ main.pc = "clear"
  /\ recving' = [recving EXCEPT ![i] = FALSE]
  /\ sending' = [sending EXCEPT ![i] = FALSE]
  /\ count' = [count EXCEPT ![i] = 0]
  /\ asker' = [asker EXCEPT ![i] = NoConn]
  /\ \E lost \in SUBSET waiting :
        th' = [t \in Thread |-> IF t \in lost THEN InSlot("lost", i) ELSE th[t]]
  /\ main' = MainAt("select", 0, Closed)
  /\ UNCHANGED <<peerVars, file, sockfd, running, raced>>

(* "Connection pool is full".                                              *)
Refuse ==
  /\ main.pc = "scan" /\ main.i = ClientCount
  /\ CloseFd(main.fd)
  /\ main' = MainAt("select", 0, Closed)
  /\ UNCHANGED <<peerVars, slotVars, th, running, raced>>

(* An hour without a connection, an error of select() or accept(), or a    *)
(* connection that was gone before the accept().                           *)
LoopEnds ==
  /\ main.pc = "select"
  /\ main' = MainAt("cleanup", 0, Closed)
  /\ UNCHANGED <<peerVars, file, slotVars, th, running, raced>>

Cleanup ==
  LET i == main.i IN
  /\ main.pc = "cleanup"
  /\ IF i < ClientCount
     THEN /\ CloseFd(sockfd[i])
          /\ main' = [main EXCEPT !.i = i + 1]
          /\ UNCHANGED running
     ELSE /\ running' = FALSE
          /\ main' = MainAt("join", 0, Closed)
          /\ UNCHANGED file
  /\ UNCHANGED <<peerVars, slotVars, th, raced>>

Join ==
  /\ main.pc = "join"
  /\ \A t \in Thread : th[t].pc = "exit"
  /\ main' = MainAt("done", 0, Closed)
  /\ UNCHANGED <<peerVars, file, slotVars, th, running, raced>>

-----------------------------------------------------------------------------
Both(t) ==
  \/ NextPass(t) \/ Look(t) \/ Lock(t) \/ CallFails(t)
  \/ CloseSlot(t) \/ ResetSlot(t) \/ Unlock(t)

RecvStep(t) == Both(t) \/ Check(t) \/ RecvHead(t) \/ RecvItems(t) \/ AddHead(t)

SendStep(t) ==
  \/ Both(t) \/ Fetch(t) \/ TestCount(t) \/ TakeChunk(t)
  \/ SendHead(t) \/ SendItems(t)

MainStep ==
  \/ \E k \in Conn : Accept(k)
  \/ ScanSlot \/ ClearSlot \/ Refuse \/ Cleanup \/ Join

(* main() waits for a connection or for its threads, or has returned.      *)
AtRest == main.pc \in {"select", "join", "done"} /\ UNCHANGED vars

Next ==
  \/ Peer
  \/ \E t \in RecvThread : RecvStep(t)
  \/ \E t \in SendThread : SendStep(t)
  \/ MainStep \/ LoopEnds
  \/ AtRest

(* Threads and main() are scheduled; clients need do nothing, and the hour *)
(* need not pass.                                                          *)
Fairness ==
  /\ \A t \in RecvThread : WF_vars(RecvStep(t))
  /\ \A t \in SendThread : WF_vars(SendStep(t))
  /\ WF_vars(MainStep)

Spec == Init /\ [][Next]_vars
FairSpec == Spec /\ Fairness

-----------------------------------------------------------------------------
(* Safety.                                                                 *)

(* As long as no accept met a thread at work on the slot or the number it  *)
(* hands out, no two threads read, or write, one connection.               *)
OneThreadEach ==
  ~raced =>
    \A t, u \in Thread :
       t # u /\ Calling(t) /\ Calling(u) /\ (t \in RecvThread <=> u \in RecvThread)
       => Of(th[t].fd) = NoConn \/ Of(th[t].fd) # Of(th[u].fd)

(* ... a reply goes to the connection its request came from.               *)
RepliesToAsker ==
  ~raced =>
    \A t \in SendThread :
       Calling(t) /\ Of(th[t].fd) # NoConn => Of(th[t].fd) = th[t].k

(* ... an open connection is in exactly one slot, or in the hands of       *)
(* main(): none is left open without a thread that will ever look at it,   *)
(* or when the slots have been closed in the end.                          *)
NoLeak ==
  ~raced =>
    \A f \in Fd : file[f] # NoConn =>
       /\ main.pc \notin {"join", "done"}
       /\ IF main.fd = f /\ main.pc = "scan"
          THEN \A i \in Slot : sockfd[i] # f
          ELSE \E i \in Slot : \A j \in Slot : (sockfd[j] = f) <=> (j = i)

(* ... and the unsigned count of a head is not taken below zero.           *)
CountInRange ==
  ~raced =>
    \A t \in SendThread : th[t].pc = "take" => count[th[t].i] > MTU

(* Liveness.                                                               *)

ServedBy(k) == \E f \in Fd : file[f] = k

(* The storage closes a connection whose client is gone, so that its slot  *)
(* can be used again, unless an accept met a thread at work.               *)
SlotGivenBack ==
  \A k \in Conn : gone[k] /\ arrived[k] = "accepted" ~> ~ServedBy(k) \/ raced

(* Once the loop is left, whatever the threads are doing, they are joined  *)
(* and main() returns, unless a waiter was lost with its mutex.            *)
StorageEnds ==
  main.pc = "cleanup" ~>
    main.pc = "done" \/ \E t \in Thread : th[t].pc = "lost"

=============================================================================
