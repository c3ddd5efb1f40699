------------------------------ MODULE IndexFlow ------------------------------
(***************************************************************************)
(* The way of an index from its file to the buffers of the clients: the    *)
(* server generates, reads, sorts and cuts it (idg_server.c), each client  *)
(* receives its part, finds the ranges and fills its read requests         *)
(* (idg_client.c).  The clients start afresh; ClientSession is about those *)
(* that do not.  A generation that is killed, or fills the disk, leaves a  *)
(* short file, which nothing tells from a whole one.                       *)
(***************************************************************************)
EXTENDS IndexMath, FiniteSetsExt

CONSTANTS
  MaxItems,    \* size of the largest index
  MaxShuffled  \* size of the largest one taken in every order

(* A float counts the items, and the clients are few beside what it can    *)
(* tell apart: 3 and 2 ^ 24 (idg_common.h:36).                             *)
ASSUME FlowAssumption ==
  /\ MaxItems \in Nat \ {0} /\ MaxShuffled \in Nat
  /\ MaxItems < Two[FloatBits]
  /\ (ClientCount + 1) * (ClientCount + 1) <= Two[FloatBits]

VARIABLES
  stage,    \* what the server has done
  file,     \* the index file: its count, and the index1 of its items
  items,    \* index_items
  parts,    \* clients[].from_index, .thru_index
  cstage,   \* what client c has done
  part,     \* index_items of client c
  ranges,   \* ranges[c][s]: storages[s].range in client c
  heads,    \* heads[c][s]: storages[s].send_buffer.heads in client c
  toSend    \* toSend[c][s]: storages[s].send_buffer.to_send

vars == <<stage, file, items, parts, cstage, part, ranges, heads, toSend>>

None == [s \in StorageNo |-> 0]
PerClient(v) == [c \in ClientNo |-> v]
Junk == -1  \* an index1 that memory not written to happens to hold
NoFile == [count |-> 0, items |-> <<>>]
RangeSet == [from : Nat, thru : Nat, count : Nat]

TypeOK ==
  /\ stage \in {"start", "generated", "read", "sorted", "cut", "failed"}
  /\ file \in [count : Nat, items : Seq(StorageNo)]
  /\ items \in Seq((StorageNo \cup {Junk}) \X StorageNo)
  /\ parts.from \in [ClientNo -> Nat] /\ parts.thru \in [ClientNo -> Nat]
  /\ cstage \in [ClientNo -> {"start", "ranges", "heads", "undefined"}]
  /\ part \in [ClientNo -> Seq(Item)]
  /\ ranges \in [ClientNo -> [StorageNo -> RangeSet]]
  /\ heads \in [ClientNo -> [StorageNo -> [StorageNo -> Nat]]]
  /\ toSend \in [ClientNo -> [StorageNo -> Nat]]

Init ==
  /\ stage = "start"
  /\ file = NoFile
  /\ items = <<>>
  /\ parts = [old |-> 0, from |-> PerClient(0), thru |-> PerClient(0)]
  /\ cstage = PerClient("start")
  /\ part = PerClient(<<>>)
  /\ ranges = PerClient(Range0)
  /\ heads = PerClient([s \in StorageNo |-> None])
  /\ toSend = PerClient(None)

clientVars == <<cstage, part, ranges, heads, toSend>>

(* gen_index_data; index2 is 0 in the file.                                *)
Generate(n) ==
  /\ stage = "start"
  /\ stage' = "generated"
  /\ file' = [count |-> n, items |-> GeneratedSource(n)]
  /\ UNCHANGED <<items, parts, clientVars>>

(* gen_index_data is killed, or the disk is full (nobody looks at what     *)
(* fwrite() returns, nor main() at what gen_index_data() does): the file   *)
(* is empty, or has k items of the n of its header.                        *)
GenerateShort(n) ==
  /\ stage = "start" /\ n <= MaxShuffled
  /\ stage' = "generated"
  /\ \/ file' = NoFile
     \/ \E k \in 0 .. n - 1 :
          file' = [count |-> n, items |-> SubSeq(GeneratedSource(n), 1, k)]
  /\ UNCHANGED <<items, parts, clientVars>>

(* read_index_data.  The loop ends at the end of the file and leaves the   *)
(* rest of index_items as malloc() gave it.                                *)
ReadIndex ==
  LET n == file.count
      got == Len(file.items)
  IN
  /\ stage = "generated"
  /\ stage' = IF file = NoFile THEN "failed" ELSE "read"
  /\ \E rest \in [got + 1 .. n -> {0, Junk}] :
       items' = [p \in 1 .. n |->
                  <<IF p <= got THEN file.items[p] ELSE rest[p], 0>>]
  /\ UNCHANGED <<file, parts, clientVars>>

(* qsort() by dim1 and dim2, which are random: any order.                  *)
Shuffle ==
  LET n == Len(items)
      Sources == StorageNo \cup {Junk}
      Count(q, s) == Quantify(1 .. n, LAMBDA p : q[p][1] = s)
  IN
  /\ stage = "read"
  /\ stage' = "sorted"
  /\ IF n <= MaxShuffled
     THEN \E q \in [1 .. n -> Sources \X {0}] :
            /\ \A s \in Sources : Count(q, s) = Count(items, s)
            /\ items' = q
     ELSE UNCHANGED items
  /\ UNCHANGED <<file, parts, clientVars>>

(* The loop of sort_index_data.                                            *)
Cut ==
  LET n == Len(items) IN
  /\ stage = "sorted"
  /\ stage' = "cut"
  /\ items' = [p \in 1 .. n |-> <<items[p][1], Destination(n)[p]>>]
  /\ parts' = Parts(n)
  /\ UNCHANGED <<file, clientVars>>

(* read_index_data of client c.                                            *)
Receive(c) ==
  /\ stage = "cut" /\ cstage[c] = "start" /\ Len(items) <= MaxShuffled
  /\ PartOf(items, parts, c) \in Seq(Item)
  /\ part' = [part EXCEPT ![c] = InOrder(PartOf(items, parts, c))]
  /\ ranges' = [ranges EXCEPT ![c] = Ranges(part'[c], @)]
  /\ cstage' = [cstage EXCEPT ![c] = "ranges"]
  /\ UNCHANGED <<stage, file, items, parts, heads, toSend>>

(* read_index_data of client c writes past storages[].                     *)
ReceiveJunk(c) ==
  /\ stage = "cut" /\ cstage[c] = "start" /\ Len(items) <= MaxShuffled
  /\ PartOf(items, parts, c) \notin Seq(Item)
  /\ cstage' = [cstage EXCEPT ![c] = "undefined"]
  /\ UNCHANGED <<stage, file, items, parts, part, ranges, heads, toSend>>

(* init_storages of client c: one storage after the other.                 *)
FillHeads(c) ==
  LET turn[k \in 0 .. StorageCount] ==
        IF k = 0 THEN [heads |-> heads[c], toSend |-> toSend[c]]
        ELSE LET s == k - 1
                 b == Group(part[c], ranges[c][s],
                            [heads |-> turn[s].heads[s], toSend |-> turn[s].toSend])
             IN  [heads |-> [turn[s].heads EXCEPT ![s] = b.heads],
                  toSend |-> b.toSend]
  IN
  /\ cstage[c] = "ranges"
  /\ heads' = [heads EXCEPT ![c] = turn[StorageCount].heads]
  /\ toSend' = [toSend EXCEPT ![c] = turn[StorageCount].toSend]
  /\ cstage' = [cstage EXCEPT ![c] = "heads"]
  /\ UNCHANGED <<stage, file, items, parts, part, ranges>>

(* Everything is prepared, or the server has given up.                     *)
AtRest ==
  /\ stage \in {"cut", "failed"}
  /\ \/ stage = "failed" \/ Len(items) > MaxShuffled
     \/ \A c \in ClientNo : cstage[c] \in {"heads", "undefined"}
  /\ UNCHANGED vars

Next ==
  \/ \E n \in 1 .. MaxItems : Generate(n) \/ GenerateShort(n)
  \/ ReadIndex \/ Shuffle \/ Cut
  \/ \E c \in ClientNo : Receive(c) \/ ReceiveJunk(c) \/ FillHeads(c)
  \/ AtRest

Spec == Init /\ [][Next]_vars

-----------------------------------------------------------------------------
InPart(c, i) == parts.from[c] <= i /\ i <= parts.thru[c]

(* By how many items one part may be larger than another: one, but two     *)
(* when the rounding of the divisor adds up to an item over four or more   *)
(* clients and a number of items near the limit of a float.                *)
Uneven ==
  IF ClientCount <= 3 \/ Len(items) * ClientCount <= Two[FloatBits] THEN 1 ELSE 2

(* Every item is in the part of exactly one client, and no part is more    *)
(* than one item larger than another (Uneven): the loop of sort_index_data *)
(* has neither gaps nor overlaps -- but for fewer items than clients.      *)
(* Then the clients it skips keep the part 0..0, and with them item 0, and *)
(* no other, has more than one client.                                     *)
OnePartEach ==
  stage = "cut" =>
    /\ \A i \in 0 .. Len(items) - 1 :
         \E c \in ClientNo :
           /\ InPart(c, i)
           /\ \A d \in ClientNo : InPart(d, i) => c = d \/ (i = 0 /\ Len(items) < ClientCount)
    /\ \A c, d \in ClientNo :
         parts.thru[c] - parts.from[c] <= parts.thru[d] - parts.from[d] + Uneven

(* The items that client c was sent.                                       *)
Sent(c) == PartOf(items, parts, c)

(* A client asks every storage for exactly the items of its part of the    *)
(* index that are there, by destination -- and one that has none for one   *)
(* item, with the destination of the item that its sorting puts first.     *)
AsksForItsPart ==
  \A c \in ClientNo : cstage[c] = "heads" =>
    \A s, d \in StorageNo : heads[c][s][d] = Requested(Sent(c), part[c][1], s, d)

(* to_send and range.count, by which the monitor loop of the client ends a *)
(* session, fit the requests: a destination waits for what is asked for on *)
(* its behalf, a source for what it has.                                   *)
CountsFit ==
  \A c \in ClientNo : cstage[c] = "heads" =>
    \A s \in StorageNo :
      /\ toSend[c][s] = SumFunctionOnSet([i \in StorageNo |-> heads[c][i][s]], StorageNo)
      /\ ranges[c][s].count = ItemsFrom(Sent(c), s)

=============================================================================
