------------------------------ MODULE IndexMath ------------------------------
(***************************************************************************)
(* How the server makes the index and cuts it: the loops of idg_server.c   *)
(* that number the items with a float as divisor and find the part of each *)
(* client.                                                                 *)
(***************************************************************************)
EXTENDS IndexLoops

CONSTANTS
  ClientCount,   \* CLIENT_COUNT
  StorageCount,  \* STORAGE_COUNT
  FloatBits      \* significant bits of a float: 24

ASSUME IndexAssumption ==
  /\ ClientCount \in Nat \ {0}
  /\ StorageCount \in Nat \ {0}
  /\ FloatBits \in Nat \ {0}

ClientNo == 0 .. ClientCount - 1
StorageNo == 0 .. StorageCount - 1
Item == StorageNo \X StorageNo
Range0 == [s \in StorageNo |-> NoRange]

(* Powers of two.                                                          *)
Two[k \in Nat] == IF k = 0 THEN 1 ELSE 2 * Two[k - 1]

-----------------------------------------------------------------------------
(* The float nearest to n / m is mant / 2^e, a mantissa of FloatBits bits  *)
(* rounded to even (n / m is below 2^FloatBits).                           *)
Exponent(n, m) ==
  CHOOSE e \in 0 .. FloatBits + m :
    Two[FloatBits - 1] * m <= n * Two[e] /\ n * Two[e] < Two[FloatBits] * m

Mantissa(n, m) ==
  LET scaled == n * Two[Exponent(n, m)]
      mant == scaled \div m
      rest == scaled % m
  IN  IF 2 * rest > m \/ (2 * rest = m /\ mant % 2 = 1) THEN mant + 1 ELSE mant

(* Mutant: the divisor is an integer.                                      *)
QuotientInt(i, n, m) == IF n < m THEN i ELSE i \div (n \div m)

(* float divisor = n * 1.0 / m; (long long)(i * 1.0 / divisor).            *)
Quotient(i, n, m) == (i * Two[Exponent(n, m)]) \div Mantissa(n, m)

(* gen_index_data: the items of a file of n items come from the storages   *)
(* in turn.                                                                *)
GeneratedSource(n) == [p \in 1 .. n |-> Quotient(p - 1, n, StorageCount)]

(* sort_index_data: where the items go, by their place in the order.       *)
Destination(n) == [p \in 1 .. n |-> Quotient(p - 1, n, StorageCount)]

(* Mutant: the last part is not closed.                                    *)
PartsLastOpen(n) ==
  LET zero == [c \in ClientNo |-> 0]
      turn[k \in 0 .. n] ==
        IF k = 0 THEN [old |-> 0, from |-> zero, thru |-> zero]
        ELSE LET i == k - 1
                 prev == turn[k - 1]
                 new == Quotient(i, n, ClientCount)
             IN  IF new = prev.old THEN prev
                 ELSE [old |-> new,
                       from |-> [prev.from EXCEPT ![new] = i],
                       thru |-> [prev.thru EXCEPT ![prev.old] = i - 1]]
  IN  turn[n]

(* sort_index_data: from_index and thru_index of the clients.  A quotient  *)
(* that is no client would be written past the end of clients[].           *)
Parts(n) ==
  LET zero == [c \in ClientNo |-> 0]
      turn[k \in 0 .. n] ==
        IF k = 0 THEN [old |-> 0, from |-> zero, thru |-> zero]
        ELSE LET i == k - 1
                 prev == turn[k - 1]
                 new == Quotient(i, n, ClientCount)
                 from == IF new = prev.old THEN prev.from
                         ELSE [prev.from EXCEPT ![new] = i]
                 thru == IF new = prev.old THEN prev.thru
                         ELSE [prev.thru EXCEPT ![prev.old] = i - 1]
             IN  [old |-> new, from |-> from,
                  thru |-> IF i = n - 1 THEN [thru EXCEPT ![new] = i] ELSE thru]
  IN  turn[n]

(* client_thread: the items sent to client c.                              *)
PartOf(items, parts, c) == SubSeq(items, parts.from[c] + 1, parts.thru[c] + 1)

=============================================================================
