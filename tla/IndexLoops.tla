----------------------------- MODULE IndexLoops -----------------------------
(***************************************************************************)
(* What a client makes of its part of the index: the loops of idg_client.c *)
(* that sort it, find the range of each storage in it and group a range by *)
(* destination.                                                            *)
(*                                                                         *)
(* An item is <<index1, index2>>, the storage it comes from and the one it *)
(* goes to.  Positions count from 0 as in the code, sequences from 1.  A   *)
(* loop is a function from the number of its turns to its variables.       *)
(***************************************************************************)
EXTENDS Integers, Sequences, FiniteSets

(* index_item_comp                                                         *)
Before(a, b) == a[1] < b[1] \/ (a[1] = b[1] /\ a[2] < b[2])

(* The items that qsort() has before item i, and that one.                 *)
UpTo(part, i) ==
  {j \in 1 .. Len(part) : Before(part[j], part[i]) \/ (part[j] = part[i] /\ j <= i)}

(* qsort() by index_item_comp: the k-th item has k items up to it.         *)
InOrder(part) ==
  [k \in 1 .. Len(part) |->
     part[CHOOSE i \in 1 .. Len(part) : Cardinality(UpTo(part, i)) = k]]

NoRange == [from |-> 0, thru |-> 0, count |-> 0]

EndRange(ranges, s, thru) ==
  [ranges EXCEPT ![s].thru = thru, ![s].count = thru - ranges[s].from + 1]

(* Mutant: a range starts at the item before its first.                    *)
RangesOneEarly(part, ranges) ==
  LET n == Len(part)
      turn[k \in 0 .. n] ==
        IF k = 0 THEN [cur |-> 0, ranges |-> ranges]
        ELSE LET i == k - 1
                 s == part[k][1]
                 prev == turn[k - 1]
                 r == IF i > 0 /\ s # prev.cur
                      THEN [EndRange(prev.ranges, prev.cur, i - 1) EXCEPT ![s].from = i - 1]
                      ELSE prev.ranges
             IN  [cur |-> s, ranges |-> IF i = n - 1 THEN EndRange(r, s, i) ELSE r]
  IN  turn[n].ranges

(* read_index_data: the range of every storage in a sorted part.  The      *)
(* range of the first one starts where it started before, and a storage    *)
(* without items keeps the range it had.                                   *)
Ranges(part, ranges) ==
  LET n == Len(part)
      turn[k \in 0 .. n] ==
        IF k = 0 THEN [cur |-> 0, ranges |-> ranges]
        ELSE LET i == k - 1
                 s == part[k][1]
                 prev == turn[k - 1]
                 r == IF i > 0 /\ s # prev.cur
                      THEN [EndRange(prev.ranges, prev.cur, i - 1) EXCEPT ![s].from = i]
                      ELSE prev.ranges
             IN  [cur |-> s, ranges |-> IF i = n - 1 THEN EndRange(r, s, i) ELSE r]
  IN  turn[n].ranges

(* Mutant: to_send of the destination is set, not added to.                *)
AddHeadSets(b, d, n) ==
  [heads |-> [b.heads EXCEPT ![d] = n], toSend |-> [b.toSend EXCEPT ![d] = n]]

(* add_send_head, and to_send of the destination.                          *)
AddHead(b, d, n) ==
  [heads |-> [b.heads EXCEPT ![d] = n], toSend |-> [b.toSend EXCEPT ![d] = @ + n]]

(* init_storages: the heads of the storage with the given range, and what  *)
(* they add to to_send.  The range is read from its first to its last item *)
(* also when it is the empty one, 0 .. 0.                                  *)
Group(part, range, buf) ==
  LET last == range.thru - range.from + 1
      turn[k \in 0 .. last] ==
        IF k = 0 THEN [buf |-> buf, cur |-> 0, n |-> 0]
        ELSE LET d == part[range.from + k][2]
                 prev == turn[k - 1]
                 changed == k > 1 /\ d # prev.cur
                 b == IF changed THEN AddHead(prev.buf, prev.cur, prev.n) ELSE prev.buf
                 n == IF changed THEN 1 ELSE prev.n + 1
             IN  IF k = last THEN [buf |-> AddHead(b, d, n), cur |-> d, n |-> 0]
                 ELSE [buf |-> b, cur |-> d, n |-> n]
  IN  IF last < 1 THEN buf ELSE turn[last].buf

-----------------------------------------------------------------------------
(* What the loops should yield.                                            *)

(* Items of a part that come from s.                                       *)
ItemsFrom(part, s) == Cardinality({p \in 1 .. Len(part) : part[p][1] = s})

(* Items of a part that are x.                                             *)
ItemsOf(part, x) == Cardinality({p \in 1 .. Len(part) : part[p] = x})

(* What storage s is asked for on behalf of d: the items of the part that  *)
(* go from s to d -- and, of a storage that has none, one, with the        *)
(* destination of the first item, first, of the sorted part.               *)
Requested(part, first, s, d) ==
  IF ItemsFrom(part, s) > 0 THEN ItemsOf(part, <<s, d>>)
  ELSE IF d = first[2] THEN 1 ELSE 0

=============================================================================
