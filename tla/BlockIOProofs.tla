--------------------------- MODULE BlockIOProofs ---------------------------
(***************************************************************************)
(* What is proved of BlockIO, for every size of unit, packet, buffer and   *)
(* time-out: its types, that it implements UnitPipe, and that every byte   *)
(* comes to lie in its place.  The argument is one of counting: the bytes  *)
(* received and those on the wire are never more than those sent, and a    *)
(* call returns its size when it has reached the end of its unit, where    *)
(* the unit begins that the next one is for.  Bytes keep their order, so   *)
(* that the places they are of say where they go.                          *)
(***************************************************************************)
EXTENDS BlockIO, TLAPS

-----------------------------------------------------------------------------
(* Where the units begin in the stream.                                    *)

(* Items before call c.                                                    *)
ItemsBefore(c) == IF c = Calls + 1 THEN Count ELSE (c - 2) * Mtu

(* Bytes before call c.                                                    *)
Base(c) == IF c = 1 THEN 0 ELSE HeadSize + ItemSize * ItemsBefore(c)

LEMMA Divide ==
  ASSUME NEW n \in Nat, NEW d \in Nat \ {0}
  PROVE  /\ n \div d \in Nat
         /\ (n \div d) * d <= n
         /\ n < (n \div d) * d + d
BY SMT

LEMMA TimesGrows ==
  ASSUME NEW a \in Int, NEW b \in Int, NEW k \in Nat, a <= b
  PROVE  a * k <= b * k
BY SMT

LEMMA TurnFacts ==
  /\ Turns \in Nat \ {0} /\ Calls \in Nat \ {0, 1}
  /\ (Turns - 1) * Mtu < Count
  /\ Count <= Turns * Mtu
<1>1. Count \in Nat \ {0} /\ Mtu \in Nat \ {0}
  BY BlockAssumption
<1>2. /\ Turns \in Nat
      /\ Turns * Mtu <= Count + Mtu - 1
      /\ Count + Mtu - 1 < Turns * Mtu + Mtu
  BY <1>1, Divide, Count + Mtu - 1 \in Nat DEF Turns
<1>3. Turns * Mtu \in Nat /\ (Turns - 1) * Mtu = Turns * Mtu - Mtu
  BY <1>1, <1>2
<1>4. Turns # 0
  <2>1. SUFFICES ASSUME Turns = 0 PROVE FALSE
    OBVIOUS
  <2>2. Turns * Mtu = 0
    BY <2>1, <1>1
  <2>. QED BY <2>2, <1>1, <1>2
<1>. QED BY <1>1, <1>2, <1>3, <1>4 DEF Calls

LEMMA ItemsStep ==
  ASSUME NEW c \in 2 .. Calls
  PROVE  /\ ItemsBefore(c) \in Nat
         /\ ItemsBefore(c + 1) = ItemsBefore(c) + Min(Mtu, Count - (c - 2) * Mtu)
         /\ Min(Mtu, Count - (c - 2) * Mtu) \in 1 .. Mtu
<1>1. Count \in Nat \ {0} /\ Mtu \in Nat \ {0} /\ Turns \in Nat \ {0}
      /\ Calls = Turns + 1 /\ c \in Int
  BY BlockAssumption, TurnFacts DEF Calls
<1>2. (c - 2) * Mtu \in Nat /\ (c - 1) * Mtu = (c - 2) * Mtu + Mtu
  BY <1>1
<1>3. ItemsBefore(c) = (c - 2) * Mtu
  BY <1>1 DEF ItemsBefore
<1>4. CASE c = Calls
  <2>1. c - 2 = Turns - 1 /\ c - 1 = Turns
    BY <1>1, <1>4
  <2>2. (c - 2) * Mtu < Count /\ Count <= (c - 1) * Mtu
    BY <2>1, TurnFacts
  <2>3. ItemsBefore(c + 1) = Count
    BY <1>4 DEF ItemsBefore
  <2>. QED BY <1>1, <1>2, <1>3, <2>2, <2>3 DEF Min
<1>5. CASE c < Calls
  <2>1. (c - 1) * Mtu <= (Turns - 1) * Mtu
    BY <1>1, <1>5, TimesGrows
  <2>2. (c - 1) * Mtu < Count
    BY <2>1, <1>1, <1>2, TurnFacts
  <2>3. ItemsBefore(c + 1) = (c - 1) * Mtu
    BY <1>1, <1>5 DEF ItemsBefore
  <2>. QED BY <1>1, <1>2, <1>3, <2>2, <2>3 DEF Min
<1>. QED BY <1>1, <1>4, <1>5

LEMMA SizeStep ==
  ASSUME NEW c \in 1 .. Calls
  PROVE  /\ Base(c) \in Nat
         /\ Size(c) \in 1 .. MaxSize
         /\ Base(c + 1) = Base(c) + Size(c)
<1>1. HeadSize \in Nat \ {0} /\ ItemSize \in Nat \ {0} /\ Mtu \in Nat \ {0}
      /\ Calls \in Nat \ {0, 1}
  BY BlockAssumption, TurnFacts
<1>2. ItemSize * Mtu \in Nat /\ MaxSize \in Nat /\ HeadSize <= MaxSize
      /\ ItemSize * Mtu <= MaxSize
  BY <1>1 DEF MaxSize
<1>3. CASE c = 1
  <2>1. ItemsBefore(2) = 0
    BY <1>1 DEF ItemsBefore
  <2>. QED BY <1>1, <1>2, <1>3, <2>1 DEF Base, Size
<1>4. CASE c \in 2 .. Calls
  <2>. DEFINE chunk == Min(Mtu, Count - (c - 2) * Mtu)
  <2>1. ItemsBefore(c) \in Nat /\ ItemsBefore(c + 1) = ItemsBefore(c) + chunk
        /\ chunk \in 1 .. Mtu
    BY <1>4, ItemsStep
  <2>. HIDE DEF chunk
  <2>2. Size(c) = ItemSize * chunk
    BY <1>4 DEF Size, chunk
  <2>3. ItemSize * chunk \in Nat \ {0} /\ ItemSize * chunk <= ItemSize * Mtu
    <3>1. chunk * ItemSize <= Mtu * ItemSize
      BY <2>1, <1>1, TimesGrows
    <3>. QED BY <2>1, <1>1, <3>1
  <2>4. Base(c) = HeadSize + ItemSize * ItemsBefore(c)
        /\ Base(c + 1) = HeadSize + ItemSize * ItemsBefore(c + 1)
    BY <1>4, <1>1 DEF Base
  <2>5. ItemSize * ItemsBefore(c + 1) = ItemSize * ItemsBefore(c) + ItemSize * chunk
        /\ ItemSize * ItemsBefore(c) \in Nat
    BY <2>1, <1>1
  <2>. QED BY <1>1, <1>2, <2>2, <2>3, <2>4, <2>5
<1>. QED BY <1>1, <1>3, <1>4

LEMMA BaseGrows ==
  ASSUME NEW a \in 1 .. Calls, NEW b \in 1 .. Calls, a <= b
  PROVE  Base(a) <= Base(b)
<1>1. HeadSize \in Nat /\ ItemSize \in Nat /\ Mtu \in Nat /\ Calls \in Nat
  BY BlockAssumption, TurnFacts
<1>2. CASE a = 1
  BY <1>2, SizeStep, Base(b) \in Nat DEF Base
<1>3. CASE a # 1
  <2>1. a \in 2 .. Calls /\ b \in 2 .. Calls
    BY <1>1, <1>3
  <2>2. ItemsBefore(a) = (a - 2) * Mtu /\ ItemsBefore(b) = (b - 2) * Mtu
    BY <2>1, <1>1 DEF ItemsBefore
  <2>3. ItemsBefore(a) <= ItemsBefore(b) /\ ItemsBefore(a) \in Nat /\ ItemsBefore(b) \in Nat
    BY <2>1, <2>2, <1>1, TimesGrows, ItemsStep
  <2>4. ItemsBefore(a) * ItemSize <= ItemsBefore(b) * ItemSize
    BY <2>3, <1>1, TimesGrows
  <2>. QED BY <2>1, <2>3, <2>4, <1>1 DEF Base
<1>. QED BY <1>2, <1>3

-----------------------------------------------------------------------------
(* The invariant.                                                          *)

(* How far a side is in the stream.                                        *)
Pos(side) == Base(side.call) + side.n

(* A side is inside its call until it has come to the end of the last one. *)
SideOK(side) ==
  /\ side \in Side
  /\ side.at # "ok" => side.n < Size(side.call)
  /\ side.at = "ok" => side.call = Calls /\ side.n = Size(Calls)

Counted == Pos(rcv) + Len(wire) <= Pos(snd)

IInv == TypeOK /\ SideOK(snd) /\ SideOK(rcv) /\ Counted

LEMMA MaxSizeNat == MaxSize \in Nat
BY BlockAssumption DEF MaxSize

LEMMA BeginFacts ==
  ASSUME NEW c \in 1 .. Calls
  PROVE  /\ SideOK(Begin(c)) /\ Works(Begin(c))
         /\ Begin(c).call = c /\ Begin(c).n = 0
         /\ Begin(c).at # "ok"
<1>1. Size(c) \in 1 .. MaxSize /\ Timeout \in Nat /\ Calls \in Nat
  BY SizeStep, BlockAssumption, TurnFacts
<1>2. Begin(c).at \in {"select", "ready"}
  BY DEF Begin
<1>3. Begin(c).call = c /\ Begin(c).n = 0 /\ Begin(c).left = Timeout
  BY DEF Begin
<1>4. Begin(c) \in Side
  <2>1. 0 \in 0 .. MaxSize /\ Timeout \in 0 .. Timeout
    BY <1>1, MaxSizeNat
  <2>2. (IF blocking THEN "ready" ELSE "select") \in At
    BY DEF At
  <2>. QED BY <2>1, <2>2 DEF Begin, Side
<1>. QED BY <1>1, <1>2, <1>3, <1>4 DEF SideOK, Works

LEMMA PosNat ==
  ASSUME NEW side, SideOK(side)
  PROVE  Pos(side) \in Nat
<1>1. side.call \in 1 .. Calls /\ side.n \in Nat
  BY MaxSizeNat DEF SideOK, Side
<1>2. Base(side.call) \in Nat
  BY <1>1, SizeStep
<1>. QED BY <1>1, <1>2 DEF Pos

(* m more bytes: the side is m further in the stream, and has passed its   *)
(* unit just when it has come to the end of it.                            *)
LEMMA DoneFacts ==
  ASSUME NEW side, SideOK(side), side.at = "ready",
         NEW m \in 1 .. Size(side.call) - side.n
  PROVE  /\ SideOK(Done(side, m))
         /\ Pos(Done(side, m)) = Pos(side) + m
         /\ side.n + m < Size(side.call) =>
              /\ Passed(Done(side, m)) = Passed(side)
              /\ End(Done(side, m)) = End(side)
         /\ ~(side.n + m < Size(side.call)) =>
              /\ side.n + m = Size(side.call)
              /\ Passed(Done(side, m)) = Passed(side) + 1
              /\ End(Done(side, m)) =
                   IF Passed(Done(side, m)) = Calls THEN "ok" ELSE End(side)
<1>1. /\ side \in Side /\ side.call \in 1 .. Calls /\ side.n \in 0 .. MaxSize
      /\ Calls \in Nat /\ side.n \in Nat /\ m \in Nat
  BY TurnFacts DEF SideOK, Side
<1>2. /\ Base(side.call) \in Nat /\ Size(side.call) \in 1 .. MaxSize
      /\ Base(side.call + 1) = Base(side.call) + Size(side.call)
      /\ MaxSize \in Nat
  BY <1>1, SizeStep, BlockAssumption DEF MaxSize
<1>3. Passed(side) = side.call - 1 /\ End(side) = "none"
  BY DEF Passed, End, Works
<1>4. CASE side.n + m < Size(side.call)
  <2>1. Done(side, m) = [side EXCEPT !.n = side.n + m]
    BY <1>4 DEF Done
  <2>2. /\ Done(side, m) \in Side
        /\ Done(side, m).n = side.n + m /\ Done(side, m).call = side.call
        /\ Done(side, m).at = "ready" /\ Done(side, m).left = side.left
    BY <2>1, <1>1, <1>2, <1>4 DEF Side
  <2>3. SideOK(Done(side, m))
    BY <2>2, <1>4 DEF SideOK
  <2>4. Pos(Done(side, m)) = Pos(side) + m
    BY <2>2, <1>1, <1>2 DEF Pos
  <2>5. Passed(Done(side, m)) = Passed(side) /\ End(Done(side, m)) = End(side)
    BY <2>2, <1>3 DEF Passed, End, Works
  <2>. QED BY <2>3, <2>4, <2>5, <1>4
<1>5. CASE ~(side.n + m < Size(side.call)) /\ side.call < Calls
  <2>1. Done(side, m) = Begin(side.call + 1) /\ side.call + 1 \in 1 .. Calls
    BY <1>1, <1>5 DEF Done
  <2>2. /\ SideOK(Done(side, m)) /\ Works(Done(side, m))
        /\ Done(side, m).call = side.call + 1
        /\ Done(side, m).n = 0 /\ Done(side, m).at # "ok"
    BY <2>1, BeginFacts
  <2>3. side.n + m = Size(side.call)
    BY <1>1, <1>2, <1>5
  <2>4. Pos(Done(side, m)) = Pos(side) + m
    BY <2>2, <2>3, <1>1, <1>2 DEF Pos
  <2>5. Passed(Done(side, m)) = side.call /\ End(Done(side, m)) = "none"
    BY <2>2, <1>1 DEF Passed, End
  <2>. QED BY <2>2, <2>3, <2>4, <2>5, <1>1, <1>3, <1>5
<1>6. CASE ~(side.n + m < Size(side.call)) /\ ~(side.call < Calls)
  <2>1. side.n + m = Size(side.call) /\ side.call = Calls
    BY <1>1, <1>2, <1>6
  <2>2. Done(side, m) = [side EXCEPT !.n = side.n + m, !.at = "ok"]
    BY <1>6 DEF Done
  <2>3. /\ Done(side, m) \in Side
        /\ Done(side, m).n = side.n + m /\ Done(side, m).call = side.call
        /\ Done(side, m).at = "ok" /\ Done(side, m).left = side.left
    <3>1. side.n + m \in 0 .. MaxSize /\ "ok" \in At /\ side \in Side
      BY <2>1, <1>1, <1>2 DEF At
    <3>. QED BY <2>2, <3>1 DEF Side
  <2>4. SideOK(Done(side, m))
    BY <2>1, <2>3 DEF SideOK
  <2>5. Pos(Done(side, m)) = Pos(side) + m
    BY <2>3, <1>1, <1>2 DEF Pos
  <2>6. Passed(Done(side, m)) = Calls /\ End(Done(side, m)) = "ok"
    BY <2>3 DEF Passed, End, Works
  <2>. QED BY <2>1, <2>4, <2>5, <2>6, <1>1, <1>3
<1>. QED BY <1>4, <1>5, <1>6

(* A side that stays in its call, or fails in it.                          *)
Stay(side, at, left) ==
  [side EXCEPT !.at = at, !.left = left]

LEMMA StayFacts ==
  ASSUME NEW side, SideOK(side), side.at # "ok",
         NEW at \in At \ {"ok"}, NEW left \in 0 .. Timeout
  PROVE  LET side2 == Stay(side, at, left)
         IN  /\ SideOK(side2)
             /\ Pos(side2) = Pos(side)
             /\ Passed(side2) = Passed(side)
             /\ at \in {"select", "ready"} => End(side2) = "none"
             /\ at \notin {"select", "ready"} => End(side2) = "failed"
<1>. DEFINE side2 == Stay(side, at, left)
<1>1. Timeout \in Nat
  BY BlockAssumption
<1>2. /\ side2.at = at /\ side2.n = side.n /\ side2.call = side.call
      /\ side2.left = left
  BY DEF SideOK, Side, Stay
<1>3. side2 \in Side
  <2>1. at \in At
    BY <1>1
  <2>2. side \in Side
    BY DEF SideOK
  <2>. QED BY <2>1, <2>2 DEF Side, Stay
<1>. HIDE DEF side2
<1>4. SideOK(side2)
  BY <1>2, <1>3 DEF SideOK
<1>5. /\ Pos(side2) = Pos(side) /\ Passed(side2) = Passed(side)
      /\ at \in {"select", "ready"} => End(side2) = "none"
      /\ at \notin {"select", "ready"} => End(side2) = "failed"
  BY <1>2 DEF Pos, Passed, End, Works
<1>. QED BY <1>4, <1>5 DEF side2

LEMMA StoreType ==
  ASSUME TypeOK, NEW m \in 1 .. Len(wire)
  PROVE  Store(m) \in [{"head", "items"} -> [1 .. MaxSize -> Byte \cup {Empty}]]
<1>1. rcv.n \in Nat /\ MaxSize \in Nat /\ wire \in Seq(Byte)
  BY BlockAssumption DEF TypeOK, Side, MaxSize
<1>2. \A i \in 1 .. m : wire[i] \in Byte
  <2>1. \A i \in 1 .. Len(wire) : wire[i] \in Byte
    BY <1>1
  <2>2. Len(wire) \in Nat
    BY <1>1
  <2>. QED BY <2>1, <2>2
<1>. DEFINE field == IF rcv.call = 1 THEN "head" ELSE "items"
            offset == IF rcv.call = 1 THEN rcv.n ELSE 0
            Put(old) == [p \in 1 .. MaxSize |->
                           IF p - offset \in 1 .. m THEN wire[p - offset] ELSE old[p]]
<1>3. field \in {"head", "items"} /\ Store(m) = [buf EXCEPT ![field] = Put(buf[field])]
  BY DEF Store
<1>4. buf \in [{"head", "items"} -> [1 .. MaxSize -> Byte \cup {Empty}]]
  BY DEF TypeOK
<1>5. Put(buf[field]) \in [1 .. MaxSize -> Byte \cup {Empty}]
  BY <1>2, <1>3, <1>4
<1>. HIDE DEF field, Put
<1>. QED BY <1>3, <1>4, <1>5

-----------------------------------------------------------------------------
(* The mapping: what an action does to the invariant and to the pipe.      *)

pipeVars == <<Passed(snd), Passed(rcv), End(snd), End(rcv)>>

(* A step that only moves a side inside its call, or ends it.              *)
LEMMA SndStays ==
  ASSUME IInv, Works(snd), UNCHANGED <<blocking, rcv, buf>>,
         wire' \in Seq(Byte), Len(wire') <= Len(wire),
         link' \in {"up", "cut", "reset"},
         NEW at \in At \ {"ok"}, NEW left \in 0 .. Timeout,
         snd' = Stay(snd, at, left)
  PROVE  IInv' /\ [Pipe!Next]_pipeVars
<1>. SideOK(snd) /\ snd.at # "ok"
  BY DEF IInv, Works
<1>1. SideOK(snd') /\ Pos(snd') = Pos(snd) /\ Passed(snd') = Passed(snd)
      /\ (at \in {"select", "ready"} => End(snd') = "none")
      /\ (at \notin {"select", "ready"} => End(snd') = "failed")
  BY StayFacts
<1>2. SideOK(rcv') /\ Pos(rcv') = Pos(rcv) /\ Passed(rcv') = Passed(rcv)
      /\ End(rcv') = End(rcv)
  BY DEF IInv
<1>3. Len(wire) \in Nat /\ Len(wire') \in Nat /\ Len(wire) <= Capacity
      /\ Capacity \in Nat
  BY BlockAssumption DEF IInv, TypeOK
<1>4. TypeOK'
  BY <1>1, <1>2, <1>3 DEF IInv, TypeOK, SideOK
<1>5. Pos(snd) \in Nat /\ Pos(rcv) \in Nat
  BY PosNat DEF IInv
<1>6. Counted'
  BY <1>1, <1>2, <1>3, <1>5 DEF IInv, Counted
<1>7. End(snd) = "none"
  BY DEF End
<1>8. [Pipe!Next]_pipeVars
  BY <1>1, <1>2, <1>7 DEF pipeVars, Pipe!Next, Pipe!SenderFails
<1>. QED BY <1>1, <1>2, <1>4, <1>6, <1>8 DEF IInv

LEMMA RcvStays ==
  ASSUME IInv, Works(rcv), UNCHANGED <<blocking, wire, link, snd, buf>>,
         NEW at \in At \ {"ok"}, NEW left \in 0 .. Timeout,
         rcv' = Stay(rcv, at, left)
  PROVE  IInv' /\ [Pipe!Next]_pipeVars
<1>. SideOK(rcv) /\ rcv.at # "ok"
  BY DEF IInv, Works
<1>1. SideOK(rcv') /\ Pos(rcv') = Pos(rcv) /\ Passed(rcv') = Passed(rcv)
      /\ (at \in {"select", "ready"} => End(rcv') = "none")
      /\ (at \notin {"select", "ready"} => End(rcv') = "failed")
  BY StayFacts
<1>2. SideOK(snd') /\ Pos(snd') = Pos(snd) /\ Passed(snd') = Passed(snd)
      /\ End(snd') = End(snd)
  BY DEF IInv
<1>3. TypeOK'
  BY <1>1, <1>2 DEF IInv, TypeOK, SideOK
<1>4. Counted'
  BY <1>1, <1>2 DEF IInv, Counted
<1>5. End(rcv) = "none"
  BY DEF End
<1>6. [Pipe!Next]_pipeVars
  BY <1>1, <1>2, <1>5 DEF pipeVars, Pipe!Next, Pipe!ReceiverFails
<1>. QED BY <1>1, <1>2, <1>3, <1>4, <1>6 DEF IInv

LEMMA SendKeeps ==
  ASSUME IInv, Send
  PROVE  IInv' /\ [Pipe!Next]_pipeVars
<1>1. PICK m \in 1 .. Min(Piece(snd), Capacity - Len(wire)) :
        /\ wire' = wire \o [p \in 1 .. m |-> <<snd.call, snd.n + p>>]
        /\ snd' = Done(snd, m)
  BY DEF Send
<1>2. /\ snd.at = "ready" /\ UNCHANGED <<blocking, link, rcv, buf>>
      /\ SideOK(snd) /\ snd \in Side /\ Len(wire) \in Nat /\ wire \in Seq(Byte)
      /\ Capacity \in Nat /\ PacketSize \in Nat
  BY BlockAssumption DEF Send, IInv, SideOK, TypeOK
<1>3. /\ snd.call \in 1 .. Calls /\ snd.n \in Nat /\ snd.n < Size(snd.call)
      /\ Size(snd.call) \in 1 .. MaxSize /\ MaxSize \in Nat
  BY <1>2, SizeStep, MaxSizeNat DEF SideOK, Side
<1>4. m \in 1 .. Size(snd.call) - snd.n /\ Len(wire) + m <= Capacity /\ m \in Nat
  BY <1>1, <1>2, <1>3 DEF Min, Piece
<1>. DEFINE new == [p \in 1 .. m |-> <<snd.call, snd.n + p>>]
<1>5. new \in Seq(Byte) /\ Len(new) = m
  <2>1. \A p \in 1 .. m : snd.n + p \in 1 .. MaxSize
    BY <1>3, <1>4
  <2>2. new \in [1 .. m -> Byte]
    BY <2>1, <1>3 DEF Byte
  <2>. QED BY <2>2, <1>4
<1>. HIDE DEF new
<1>6. wire' \in Seq(Byte) /\ Len(wire') = Len(wire) + m
  BY <1>1, <1>2, <1>5 DEF new
<1>7. /\ SideOK(snd') /\ Pos(snd') = Pos(snd) + m
      /\ snd.n + m < Size(snd.call) =>
           Passed(snd') = Passed(snd) /\ End(snd') = End(snd)
      /\ ~(snd.n + m < Size(snd.call)) =>
           /\ Passed(snd') = Passed(snd) + 1
           /\ End(snd') = IF Passed(snd') = Calls THEN "ok" ELSE End(snd)
  BY <1>1, <1>2, <1>4, DoneFacts
<1>8. SideOK(rcv') /\ Pos(rcv') = Pos(rcv) /\ Passed(rcv') = Passed(rcv)
      /\ End(rcv') = End(rcv)
  BY <1>2 DEF IInv
<1>9. TypeOK'
  BY <1>2, <1>4, <1>6, <1>7, <1>8 DEF IInv, TypeOK, SideOK
<1>10. Counted'
  <2>1. Pos(snd) \in Nat /\ Pos(rcv) \in Nat
    BY PosNat DEF IInv
  <2>. QED BY <2>1, <1>2, <1>4, <1>6, <1>7, <1>8 DEF IInv, Counted
<1>11. Passed(snd) = snd.call - 1 /\ End(snd) = "none" /\ Calls \in Nat
  BY <1>2, TurnFacts DEF Passed, End, Works
<1>12. [Pipe!Next]_pipeVars
  <2>1. CASE snd.n + m < Size(snd.call)
    BY <2>1, <1>7, <1>8 DEF pipeVars
  <2>2. CASE ~(snd.n + m < Size(snd.call))
    <3>1. Pipe!Push
      BY <2>2, <1>3, <1>7, <1>8, <1>11 DEF Pipe!Push
    <3>. QED BY <3>1 DEF Pipe!Next
  <2>. QED BY <2>1, <2>2
<1>. QED BY <1>7, <1>8, <1>9, <1>10, <1>12 DEF IInv

LEMMA Between ==
  ASSUME NEW a \in Int, NEW b \in Int, NEW c \in Int, NEW d \in Int,
         a <= b, b <= c, c < d
  PROVE  a < d
OBVIOUS

LEMMA Covers ==
  ASSUME NEW base \in Int, NEW n \in Int, NEW m \in Int, NEW w \in Int,
         m <= w
  PROVE  base + (n + m) <= base + n + w
OBVIOUS

(* The bytes a receiver has cannot be more than those that were sent: a    *)
(* unit it has passed has been passed by the sender.                       *)
LEMMA SentBefore ==
  ASSUME IInv, Len(wire) \in Nat,
         NEW m \in 1 .. Len(wire), rcv.n + m = Size(rcv.call)
  PROVE  Passed(rcv) < Passed(snd) \/ rcv.at = "ok"
<1>1. SUFFICES ASSUME rcv.at # "ok", ~(rcv.call - 1 < Passed(snd)) PROVE FALSE
  BY DEF Passed
<1>2. /\ rcv.call \in 1 .. Calls /\ snd.call \in 1 .. Calls
      /\ rcv.n \in Nat /\ snd.n \in Nat /\ Calls \in Nat
  BY TurnFacts, MaxSizeNat DEF IInv, SideOK, Side
<1>3. snd.at # "ok" /\ Passed(snd) = snd.call - 1
  BY <1>1, <1>2 DEF Passed
<1>4. snd.call <= rcv.call /\ snd.n < Size(snd.call)
  BY <1>1, <1>2, <1>3 DEF IInv, SideOK
<1>5. /\ Base(rcv.call) \in Nat /\ Base(snd.call) \in Nat
      /\ Size(rcv.call) \in Nat /\ Size(snd.call) \in Nat
      /\ Base(rcv.call + 1) = Base(rcv.call) + Size(rcv.call)
      /\ Base(snd.call + 1) = Base(snd.call) + Size(snd.call)
  <2>1. /\ Base(rcv.call) \in Nat /\ Size(rcv.call) \in 1 .. MaxSize
        /\ Base(rcv.call + 1) = Base(rcv.call) + Size(rcv.call)
    BY <1>2, SizeStep
  <2>2. /\ Base(snd.call) \in Nat /\ Size(snd.call) \in 1 .. MaxSize
        /\ Base(snd.call + 1) = Base(snd.call) + Size(snd.call)
    BY <1>2, SizeStep
  <2>. QED BY <2>1, <2>2, MaxSizeNat
<1>6. Base(rcv.call) + rcv.n + Len(wire) <= Base(snd.call) + snd.n
  BY DEF IInv, Counted, Pos
<1>7. Base(rcv.call + 1) < Base(snd.call + 1)
  <2>1. Base(rcv.call + 1) <= Base(rcv.call) + rcv.n + Len(wire)
    <3>1. Base(rcv.call) \in Int /\ rcv.n \in Int /\ m \in Int /\ Len(wire) \in Int
      BY <1>2, <1>5
    <3>2. m <= Len(wire)
      OBVIOUS
    <3>3. Base(rcv.call) + (rcv.n + m) <= Base(rcv.call) + rcv.n + Len(wire)
      BY <3>1, <3>2, Covers
    <3>4. Base(rcv.call + 1) = Base(rcv.call) + (rcv.n + m)
      BY <1>5
    <3>. QED BY <3>3, <3>4
  <2>2. Base(snd.call) + snd.n < Base(snd.call + 1)
    BY <1>2, <1>4, <1>5
  <2>. DEFINE a == Base(rcv.call + 1)  d == Base(snd.call + 1)
              b == Base(rcv.call) + rcv.n + Len(wire)
              c == Base(snd.call) + snd.n
  <2>3. a \in Int /\ d \in Int
    BY <1>5
  <2>4. b \in Int /\ c \in Int
    <3>1. Len(wire) \in Int /\ rcv.n \in Int /\ snd.n \in Int
      BY <1>2
    <3>2. Base(rcv.call) \in Int /\ Base(snd.call) \in Int
      BY <1>5
    <3>. QED BY <3>1, <3>2
  <2>5. a <= b /\ b <= c /\ c < d
    BY <2>1, <2>2, <1>6
  <2>. HIDE DEF a, b, c, d
  <2>6. a < d
    BY <2>3, <2>4, <2>5, Between
  <2>. QED BY <2>6 DEF a, d
<1>8. CASE snd.call = rcv.call
  BY <1>5, <1>7, <1>8
<1>9. CASE snd.call # rcv.call
  <2>1. snd.call + 1 \in 1 .. Calls /\ snd.call + 1 <= rcv.call
    BY <1>2, <1>4, <1>9
  <2>2. Base(snd.call + 1) <= Base(rcv.call)
    BY <2>1, <1>2, BaseGrows
  <2>. QED BY <2>2, <1>5, <1>7
<1>. QED BY <1>8, <1>9

LEMMA RecvKeeps ==
  ASSUME IInv, Recv
  PROVE  IInv' /\ [Pipe!Next]_pipeVars
<1>1. PICK m \in 1 .. Min(Piece(rcv), Len(wire)) :
        /\ wire' = SubSeq(wire, m + 1, Len(wire))
        /\ buf' = Store(m)
        /\ rcv' = Done(rcv, m)
  BY DEF Recv
<1>2. /\ rcv.at = "ready" /\ UNCHANGED <<blocking, link, snd>>
      /\ SideOK(rcv) /\ rcv \in Side /\ Len(wire) \in Nat /\ wire \in Seq(Byte)
      /\ Capacity \in Nat /\ PacketSize \in Nat /\ Len(wire) <= Capacity
  BY BlockAssumption DEF Recv, IInv, SideOK, TypeOK
<1>3. /\ rcv.call \in 1 .. Calls /\ rcv.n \in Nat /\ rcv.n < Size(rcv.call)
      /\ Size(rcv.call) \in 1 .. MaxSize /\ MaxSize \in Nat
  BY <1>2, SizeStep, MaxSizeNat DEF SideOK, Side
<1>4. m \in 1 .. Size(rcv.call) - rcv.n /\ m \in 1 .. Len(wire) /\ m \in Nat
  BY <1>1, <1>2, <1>3 DEF Min, Piece
<1>5. wire' \in Seq(Byte) /\ Len(wire') = Len(wire) - m
  BY <1>1, <1>2, <1>4
<1>6. buf' \in [{"head", "items"} -> [1 .. MaxSize -> Byte \cup {Empty}]]
  BY <1>1, <1>4, StoreType DEF IInv
<1>7. /\ SideOK(rcv') /\ Pos(rcv') = Pos(rcv) + m
      /\ rcv.n + m < Size(rcv.call) =>
           Passed(rcv') = Passed(rcv) /\ End(rcv') = End(rcv)
      /\ ~(rcv.n + m < Size(rcv.call)) =>
           /\ rcv.n + m = Size(rcv.call)
           /\ Passed(rcv') = Passed(rcv) + 1
           /\ End(rcv') = IF Passed(rcv') = Calls THEN "ok" ELSE End(rcv)
  BY <1>1, <1>2, <1>4, DoneFacts
<1>8. SideOK(snd') /\ Pos(snd') = Pos(snd) /\ Passed(snd') = Passed(snd)
      /\ End(snd') = End(snd)
  BY <1>2 DEF IInv
<1>9. TypeOK'
  BY <1>2, <1>4, <1>5, <1>6, <1>7, <1>8 DEF IInv, TypeOK, SideOK
<1>10. Counted'
  <2>1. Pos(snd) \in Nat /\ Pos(rcv) \in Nat
    BY PosNat DEF IInv
  <2>. QED BY <2>1, <1>2, <1>4, <1>5, <1>7, <1>8 DEF IInv, Counted
<1>11. Passed(rcv) = rcv.call - 1 /\ End(rcv) = "none"
  BY <1>2 DEF Passed, End, Works
<1>12. [Pipe!Next]_pipeVars
  <2>1. CASE rcv.n + m < Size(rcv.call)
    BY <2>1, <1>7, <1>8 DEF pipeVars
  <2>2. CASE ~(rcv.n + m < Size(rcv.call))
    <3>1. Passed(rcv) < Passed(snd)
      BY <2>2, <1>2, <1>4, <1>7, SentBefore
    <3>2. Pipe!Pop
      BY <2>2, <3>1, <1>7, <1>8, <1>11 DEF Pipe!Pop
    <3>. QED BY <3>2 DEF Pipe!Next
  <2>. QED BY <2>1, <2>2
<1>. QED BY <1>7, <1>8, <1>9, <1>10, <1>12 DEF IInv

(* Time passes for a side that waits.                                      *)
LEMMA PassFacts ==
  ASSUME NEW side, SideOK(side), side.at = "select", side.left > 0
  PROVE  /\ SideOK(Pass(side)) /\ Pos(Pass(side)) = Pos(side)
         /\ Passed(Pass(side)) = Passed(side) /\ End(Pass(side)) = End(side)
<1>1. side \in Side /\ Timeout \in Nat
  BY BlockAssumption DEF SideOK
<1>2. side.left \in Nat /\ side.left <= Timeout
  BY <1>1 DEF Side
<1>3. Pass(side) = Stay(side, "select", side.left - 1)
  BY <1>1 DEF Pass, Stay, Side
<1>4. "select" \in At \ {"ok"} /\ side.left - 1 \in 0 .. Timeout
  BY <1>1, <1>2 DEF At
<1>5. End(side) = "none"
  BY DEF End, Works
<1>. QED BY <1>3, <1>4, <1>5, StayFacts

LEMMA TickKeeps ==
  ASSUME IInv, Tick
  PROVE  IInv' /\ [Pipe!Next]_pipeVars
<1>1. /\ SideOK(snd') /\ Pos(snd') = Pos(snd)
      /\ Passed(snd') = Passed(snd) /\ End(snd') = End(snd)
  <2>1. CASE WaitsToSend
    BY <2>1, PassFacts DEF IInv, Tick, WaitsToSend
  <2>2. CASE ~WaitsToSend
    BY <2>2 DEF IInv, Tick
  <2>. QED BY <2>1, <2>2
<1>2. /\ SideOK(rcv') /\ Pos(rcv') = Pos(rcv)
      /\ Passed(rcv') = Passed(rcv) /\ End(rcv') = End(rcv)
  <2>1. CASE WaitsToRecv
    BY <2>1, PassFacts DEF IInv, Tick, WaitsToRecv
  <2>2. CASE ~WaitsToRecv
    BY <2>2 DEF IInv, Tick
  <2>. QED BY <2>1, <2>2
<1>3. UNCHANGED <<blocking, wire, link, buf>>
  BY DEF Tick
<1>4. TypeOK'
  BY <1>1, <1>2, <1>3 DEF IInv, TypeOK, SideOK
<1>5. Counted'
  BY <1>1, <1>2, <1>3 DEF IInv, Counted
<1>. QED BY <1>1, <1>2, <1>4, <1>5 DEF IInv, pipeVars

(* The connection breaks: what is on the wire is lost at most.             *)
LEMMA LinkKeeps ==
  ASSUME IInv, UNCHANGED <<blocking, snd, rcv, buf>>,
         link' \in {"up", "cut", "reset"},
         wire' = wire \/ wire' = <<>>
  PROVE  IInv' /\ [Pipe!Next]_pipeVars
<1>1. wire \in Seq(Byte) /\ Len(wire) \in Nat /\ Len(wire) <= Capacity
      /\ Capacity \in Nat /\ Pos(rcv) \in Nat /\ Pos(snd) \in Nat
  BY PosNat, BlockAssumption DEF IInv, TypeOK
<1>2. wire' \in Seq(Byte) /\ Len(wire') \in Nat /\ Len(wire') <= Len(wire)
  <2>1. CASE wire' = wire
    BY <2>1, <1>1
  <2>2. CASE wire' = <<>>
    <3>1. Len(wire') = 0
      BY <2>2
    <3>2. wire' \in Seq(Byte)
      BY <2>2
    <3>. QED BY <3>1, <3>2, <1>1
  <2>. QED BY <2>1, <2>2
<1>3. TypeOK'
  BY <1>1, <1>2 DEF IInv, TypeOK
<1>4. Counted'
  BY <1>1, <1>2 DEF IInv, Counted
<1>. QED BY <1>3, <1>4 DEF IInv, pipeVars

-----------------------------------------------------------------------------
LEMMA InitOK == Init => IInv /\ Pipe!Init
<1>. SUFFICES ASSUME Init PROVE IInv /\ Pipe!Init
  OBVIOUS
<1>1. 1 \in 1 .. Calls /\ Calls \in Nat \ {0, 1}
  BY TurnFacts
<1>2. /\ SideOK(snd) /\ SideOK(rcv) /\ Works(snd) /\ Works(rcv)
      /\ snd.call = 1 /\ rcv.call = 1 /\ snd.at # "ok" /\ rcv.at # "ok"
      /\ snd = rcv
  BY <1>1, BeginFacts DEF Init
<1>3. buf \in [{"head", "items"} -> [1 .. MaxSize -> Byte \cup {Empty}]]
  BY DEF Init, Clean
<1>4. wire = <<>> /\ Len(wire) = 0 /\ wire \in Seq(Byte) /\ link = "up"
      /\ blocking \in BOOLEAN
  BY DEF Init
<1>5. TypeOK
  BY <1>2, <1>3, <1>4, BlockAssumption DEF TypeOK, SideOK
<1>6. Counted
  BY <1>2, <1>4, PosNat DEF Counted
<1>7. Pipe!Init
  BY <1>2 DEF Pipe!Init, Passed, End
<1>. QED BY <1>2, <1>5, <1>6, <1>7 DEF IInv

LEMMA NextOK ==
  ASSUME IInv, [Next]_vars
  PROVE  IInv' /\ [Pipe!Next]_pipeVars
<1>1. /\ Timeout \in Nat
      /\ snd.left \in 0 .. Timeout
      /\ rcv.left \in 0 .. Timeout
      /\ snd \in Side /\ rcv \in Side
  BY BlockAssumption DEF IInv, SideOK, Side
<1>2. /\ {"select", "ready", "error", "timeout", "eof"} \subseteq At \ {"ok"}
      /\ wire \in Seq(Byte) /\ Len(wire) \in Nat /\ link \in {"up", "cut", "reset"}
  BY <1>1 DEF IInv, TypeOK, At
<1>3. CASE SendSelect
  <2>1. snd' = Stay(snd, "ready", snd.left) /\ Works(snd)
    BY <1>1, <1>3 DEF SendSelect, Stay, Side, Works
  <2>. QED BY <2>1, <1>1, <1>2, <1>3, SndStays DEF SendSelect
<1>4. CASE Send
  BY <1>4, SendKeeps
<1>5. CASE SendWouldBlock
  <2>1. snd' = Stay(snd, "select", snd.left) /\ Works(snd)
    BY <1>1, <1>5 DEF SendWouldBlock, Stay, Side, Works
  <2>. QED BY <2>1, <1>1, <1>2, <1>5, SndStays DEF SendWouldBlock
<1>6. CASE SendError
  <2>1. snd' = Stay(snd, "error", snd.left) /\ Works(snd)
    BY <1>1, <1>6 DEF SendError, Stay, Side, Works
  <2>. QED BY <2>1, <1>1, <1>2, <1>6, SndStays DEF SendError
<1>7. CASE SendTimeout
  <2>1. snd' = Stay(snd, "timeout", snd.left) /\ Works(snd)
    BY <1>1, <1>7 DEF SendTimeout, Stay, Side, Works
  <2>2. UNCHANGED <<blocking, wire, link, rcv, buf>>
    BY <1>7 DEF SendTimeout
  <2>. QED BY <2>1, <2>2, <1>1, <1>2, SndStays
<1>8. CASE RecvSelect
  <2>1. rcv' = Stay(rcv, "ready", rcv.left) /\ Works(rcv)
    BY <1>1, <1>8 DEF RecvSelect, Stay, Side, Works
  <2>. QED BY <2>1, <1>1, <1>2, <1>8, RcvStays DEF RecvSelect
<1>9. CASE Recv
  BY <1>9, RecvKeeps
<1>10. CASE RecvWouldBlock
  <2>1. rcv' = Stay(rcv, "select", rcv.left) /\ Works(rcv)
    BY <1>1, <1>10 DEF RecvWouldBlock, Stay, Side, Works
  <2>. QED BY <2>1, <1>1, <1>2, <1>10, RcvStays DEF RecvWouldBlock
<1>11. CASE RecvEof
  <2>1. rcv' = Stay(rcv, "eof", rcv.left) /\ Works(rcv)
    BY <1>1, <1>11 DEF RecvEof, Stay, Side, Works
  <2>. QED BY <2>1, <1>1, <1>2, <1>11, RcvStays DEF RecvEof
<1>12. CASE RecvError
  <2>1. rcv' = Stay(rcv, "error", rcv.left) /\ Works(rcv)
    BY <1>1, <1>12 DEF RecvError, Stay, Side, Works
  <2>. QED BY <2>1, <1>1, <1>2, <1>12, RcvStays DEF RecvError
<1>13. CASE RecvTimeout
  <2>1. rcv' = Stay(rcv, "timeout", rcv.left) /\ Works(rcv)
    BY <1>1, <1>13 DEF RecvTimeout, Stay, Side, Works
  <2>. QED BY <2>1, <1>1, <1>2, <1>13, RcvStays DEF RecvTimeout
<1>14. CASE Tick
  BY <1>14, TickKeeps
<1>15. CASE PeerReset \/ Reset \/ Cut
  BY <1>15, LinkKeeps DEF PeerReset, Reset, Cut
<1>16. CASE UNCHANGED vars
  <2>1. UNCHANGED <<blocking, wire, link, snd, rcv, buf>>
    BY <1>16 DEF vars
  <2>. QED BY <2>1, <1>2, LinkKeeps
<1>17. AtRest => UNCHANGED vars
  BY DEF AtRest
<1>. QED
  BY <1>3, <1>4, <1>5, <1>6, <1>7, <1>8, <1>9, <1>10, <1>11, <1>12, <1>13,
     <1>14, <1>15, <1>16, <1>17 DEF Next, Sender, Receiver

LEMMA Invariance == Spec => []IInv
<1>1. IInv /\ [Next]_vars => IInv'
  BY NextOK
<1>. QED BY <1>1, InitOK, PTL DEF Spec

(* The counts of a call stay inside its unit, the place of every byte on   *)
(* the wire inside a unit, and the time left of a call inside the one it   *)
(* was given, in every state of every transfer.                            *)
THEOREM BlockTypeCorrect == Spec => []TypeOK
<1>1. IInv => TypeOK
  BY DEF IInv
<1>. QED BY <1>1, Invariance, PTL

(* Over a stream that is cut at every byte and may break at any moment,    *)
(* send_data_non_block() and recv_data_non_block() pass units as a whole,  *)
(* in order and once.                                                      *)
THEOREM PipeImplemented == Spec => ImplementsPipe
<1>1. IInv /\ [Next]_vars => [Pipe!Next]_pipeVars
  BY NextOK
<1>2. Spec => Pipe!Init
  BY InitOK DEF Spec
<1>. QED BY <1>1, <1>2, Invariance, PTL DEF Spec, ImplementsPipe, Pipe!Spec, pipeVars

-----------------------------------------------------------------------------
(* Every byte in its place.  A byte is of one place of the stream: what is *)
(* on the wire are the places that follow those the receiver has, up to    *)
(* those the sender has come to, so that a call that stops at the end of   *)
(* its unit has put away the bytes of that unit and no others.             *)

(* Where a byte is in the stream.                                          *)
Spot(byte) == Base(byte[1]) + byte[2]

Ordered ==
  \A q \in 1 .. Len(wire) :
    /\ wire[q][2] <= Size(wire[q][1])
    /\ Spot(wire[q]) = Pos(rcv) + q

(* Nothing is lost on a connection that is not reset.                      *)
Whole ==
  /\ link # "reset" => Pos(rcv) + Len(wire) = Pos(snd)
  /\ link = "reset" => wire = <<>>

Stored ==
  /\ \A p \in 1 .. (IF rcv.call = 1 THEN rcv.n ELSE HeadSize) :
       buf.head[p] = <<1, p>>
  /\ \A p \in PacketSize + 1 .. MaxSize : buf.items[p] = Empty

PInv == IInv /\ Ordered /\ Whole /\ Stored

(* A place of the stream is of one byte.                                   *)
LEMMA SpotUnique ==
  ASSUME NEW c \in 1 .. Calls, NEW d \in 1 .. Calls,
         NEW i \in 1 .. Size(c), NEW j \in 1 .. Size(d),
         Base(c) + i = Base(d) + j
  PROVE  c = d /\ i = j
<1>1. \A a, b \in 1 .. Calls : \A x \in 1 .. Size(a), y \in 1 .. Size(b) :
        a < b => Base(a) + x < Base(b) + y
  <2>1. SUFFICES ASSUME NEW a \in 1 .. Calls, NEW b \in 1 .. Calls,
                        NEW x \in 1 .. Size(a), NEW y \in 1 .. Size(b), a < b
                 PROVE  Base(a) + x < Base(b) + y
    OBVIOUS
  <2>2. Calls \in Nat /\ a + 1 \in 1 .. Calls /\ a + 1 <= b
    BY TurnFacts, <2>1
  <2>3. Base(a + 1) <= Base(b)
    BY <2>2, BaseGrows
  <2>4. Base(a) \in Nat /\ Base(b) \in Nat /\ Base(a + 1) = Base(a) + Size(a)
        /\ Size(a) \in Nat /\ Size(b) \in Nat
    BY SizeStep, MaxSizeNat
  <2>. QED BY <2>3, <2>4
<1>2. c \in Int /\ d \in Int /\ Base(c) \in Nat /\ Base(d) \in Nat
      /\ i \in Int /\ j \in Int
  BY TurnFacts, SizeStep, MaxSizeNat
<1>3. ~(c < d) /\ ~(d < c)
  BY <1>1, <1>2
<1>4. c = d
  BY <1>2, <1>3
<1>. QED BY <1>2, <1>4

LEMMA ByteFacts ==
  ASSUME wire \in Seq(Byte), NEW q \in 1 .. Len(wire)
  PROVE  /\ wire[q] = <<wire[q][1], wire[q][2]>>
         /\ wire[q][1] \in 1 .. Calls /\ wire[q][2] \in 1 .. MaxSize
<1>1. wire[q] \in Byte
  OBVIOUS
<1>. QED BY <1>1 DEF Byte

(* What is on the wire for the call of the receiver.                       *)
LEMMA OwnBytes ==
  ASSUME IInv, Ordered, Works(rcv), NEW q \in 1 .. Len(wire),
         rcv.n + q <= Size(rcv.call)
  PROVE  wire[q] = <<rcv.call, rcv.n + q>>
<1>1. /\ rcv.call \in 1 .. Calls /\ rcv.n \in Nat /\ wire \in Seq(Byte)
      /\ Len(wire) \in Nat /\ q \in Nat \ {0}
  BY MaxSizeNat DEF IInv, TypeOK, Side
<1>2. Base(rcv.call) \in Nat /\ Size(rcv.call) \in Nat
  BY <1>1, SizeStep, MaxSizeNat
<1>. DEFINE c == wire[q][1]  i == wire[q][2]
<1>3. wire[q] = <<c, i>> /\ c \in 1 .. Calls /\ i \in 1 .. MaxSize
  BY <1>1, ByteFacts
<1>4. i <= Size(c) /\ Base(c) + i = Pos(rcv) + q
  BY DEF Ordered, Spot
<1>. HIDE DEF c, i
<1>5. Size(c) \in Nat /\ i \in 1 .. Size(c)
  BY <1>3, <1>4, SizeStep, MaxSizeNat
<1>6. rcv.n + q \in 1 .. Size(rcv.call)
  BY <1>1, <1>2
<1>7. Base(c) + i = Base(rcv.call) + (rcv.n + q)
  BY <1>1, <1>2, <1>4 DEF Pos
<1>8. c = rcv.call /\ i = rcv.n + q
  BY <1>1, <1>3, <1>5, <1>6, <1>7, SpotUnique
<1>. QED BY <1>3, <1>8

LEMMA PInvInPlace == PInv => InPlace
<1>. SUFFICES ASSUME PInv, Works(rcv), wire # <<>>
              PROVE  wire[1] = <<rcv.call, rcv.n + 1>>
  BY DEF PInv, Stored, InPlace
<1>1. /\ rcv.call \in 1 .. Calls /\ rcv.n \in Nat /\ wire \in Seq(Byte)
      /\ rcv.n < Size(rcv.call)
  BY MaxSizeNat DEF PInv, IInv, TypeOK, Side, SideOK, Works
<1>2. Size(rcv.call) \in Nat
  BY <1>1, SizeStep, MaxSizeNat
<1>3. 1 \in 1 .. Len(wire)
  BY <1>1
<1>. QED BY <1>1, <1>2, <1>3, OwnBytes DEF PInv

(* What Store writes, and where.                                           *)
LEMMA StoreHead ==
  ASSUME TypeOK, NEW m \in 1 .. Len(wire), rcv.call = 1, NEW p \in 1 .. MaxSize
  PROVE  /\ p - rcv.n \in 1 .. m => Store(m).head[p] = wire[p - rcv.n]
         /\ p - rcv.n \notin 1 .. m => Store(m).head[p] = buf.head[p]
         /\ Store(m).items[p] = buf.items[p]
<1>1. buf \in [{"head", "items"} -> [1 .. MaxSize -> Byte \cup {Empty}]]
  BY DEF TypeOK
<1>. DEFINE put == [p2 \in 1 .. MaxSize |->
                      IF p2 - rcv.n \in 1 .. m THEN wire[p2 - rcv.n] ELSE buf["head"][p2]]
<1>2. Store(m) = [buf EXCEPT !["head"] = put]
  BY DEF Store
<1>3. put[p] = IF p - rcv.n \in 1 .. m THEN wire[p - rcv.n] ELSE buf["head"][p]
  OBVIOUS
<1>. HIDE DEF put
<1>4. Store(m)["head"] = put /\ Store(m)["items"] = buf["items"]
  BY <1>1, <1>2
<1>. QED BY <1>3, <1>4

LEMMA StoreItems ==
  ASSUME TypeOK, NEW m \in 1 .. Len(wire), rcv.call # 1, NEW p \in 1 .. MaxSize
  PROVE  /\ p \notin 1 .. m => Store(m).items[p] = buf.items[p]
         /\ Store(m).head[p] = buf.head[p]
<1>1. buf \in [{"head", "items"} -> [1 .. MaxSize -> Byte \cup {Empty}]]
      /\ MaxSize \in Nat
  BY MaxSizeNat DEF TypeOK
<1>. DEFINE put == [p2 \in 1 .. MaxSize |->
                      IF p2 - 0 \in 1 .. m THEN wire[p2 - 0] ELSE buf["items"][p2]]
<1>2. Store(m) = [buf EXCEPT !["items"] = put]
  BY DEF Store
<1>3. p \notin 1 .. m => put[p] = buf["items"][p]
  BY <1>1
<1>. HIDE DEF put
<1>4. Store(m)["items"] = put /\ Store(m)["head"] = buf["head"]
  BY <1>1, <1>2
<1>. QED BY <1>3, <1>4

LEMMA Concatenates ==
  ASSUME NEW s \in Seq(Byte), NEW t \in Seq(Byte)
  PROVE  /\ Len(s \o t) = Len(s) + Len(t)
         /\ \A q \in 1 .. Len(s) : (s \o t)[q] = s[q]
         /\ \A p \in 1 .. Len(t) : (s \o t)[Len(s) + p] = t[p]
OBVIOUS

LEMMA Shifts ==
  ASSUME NEW r \in Int, NEW w \in Int, NEW b \in Int, NEW n \in Int, NEW p \in Int,
         r + w = b + n
  PROVE  b + (n + p) = r + (w + p)
OBVIOUS

LEMMA SendPlaces ==
  ASSUME PInv, Send, IInv'
  PROVE  PInv'
<1>1. PICK m \in 1 .. Min(Piece(snd), Capacity - Len(wire)) :
        /\ wire' = wire \o [p \in 1 .. m |-> <<snd.call, snd.n + p>>]
        /\ snd' = Done(snd, m)
  BY DEF Send
<1>2. /\ snd.at = "ready" /\ link # "reset" /\ UNCHANGED <<blocking, link, rcv, buf>>
      /\ SideOK(snd) /\ snd \in Side /\ Len(wire) \in Nat /\ wire \in Seq(Byte)
      /\ Capacity \in Nat /\ PacketSize \in Nat
  BY BlockAssumption DEF Send, PInv, IInv, SideOK, TypeOK
<1>3. /\ snd.call \in 1 .. Calls /\ snd.n \in Nat /\ snd.n < Size(snd.call)
      /\ Size(snd.call) \in 1 .. MaxSize /\ MaxSize \in Nat /\ Base(snd.call) \in Nat
  BY <1>2, SizeStep, MaxSizeNat DEF SideOK, Side
<1>4. m \in 1 .. Size(snd.call) - snd.n /\ m \in Nat
  BY <1>1, <1>2, <1>3 DEF Min, Piece
<1>. DEFINE new == [p \in 1 .. m |-> <<snd.call, snd.n + p>>]
<1>5. new \in Seq(Byte) /\ Len(new) = m
      /\ \A p \in 1 .. m : new[p] = <<snd.call, snd.n + p>>
  <2>1. \A p \in 1 .. m : snd.n + p \in 1 .. MaxSize
    BY <1>3, <1>4
  <2>2. new \in [1 .. m -> Byte]
    BY <2>1, <1>3 DEF Byte
  <2>. QED BY <2>2, <1>4
<1>. HIDE DEF new
<1>6. wire' = wire \o new
  BY <1>1 DEF new
<1>7. /\ Len(wire') = Len(wire) + m
      /\ \A q \in 1 .. Len(wire) : wire'[q] = wire[q]
      /\ \A p \in 1 .. m : wire'[Len(wire) + p] = new[p]
  BY <1>2, <1>5, <1>6, Concatenates
<1>8. Pos(snd') = Pos(snd) + m /\ Pos(snd) \in Nat /\ Pos(rcv) \in Nat
      /\ Pos(rcv') = Pos(rcv)
  BY <1>1, <1>2, <1>4, DoneFacts, PosNat DEF PInv, IInv
<1>9. Pos(rcv) + Len(wire) = Pos(snd)
  BY <1>2 DEF PInv, Whole
<1>10. Whole'
  BY <1>2, <1>4, <1>7, <1>8, <1>9 DEF Whole
<1>11. ASSUME NEW q \in 1 .. Len(wire')
       PROVE  wire'[q][2] <= Size(wire'[q][1]) /\ Spot(wire'[q]) = Pos(rcv') + q
  <2>1. CASE q \in 1 .. Len(wire)
    BY <2>1, <1>7, <1>8 DEF PInv, Ordered
  <2>2. CASE q \notin 1 .. Len(wire)
    <3>1. PICK p \in 1 .. m : q = Len(wire) + p
      <4>1. q - Len(wire) \in 1 .. m /\ q = Len(wire) + (q - Len(wire))
        BY <2>2, <1>2, <1>4, <1>7
      <4>. QED BY <4>1
    <3>2. wire'[q] = <<snd.call, snd.n + p>>
      BY <3>1, <1>5, <1>7
    <3>3. snd.n + p <= Size(snd.call)
      BY <1>3, <1>4
    <3>4. Spot(wire'[q]) = Base(snd.call) + (snd.n + p)
      BY <3>2 DEF Spot
    <3>5. Base(snd.call) + (snd.n + p) = Pos(rcv) + q
      <4>1. p \in Int /\ Len(wire) \in Int /\ Base(snd.call) \in Int /\ snd.n \in Int
            /\ Pos(rcv) \in Int
        BY <1>2, <1>3, <1>4, <1>8
      <4>2. Pos(rcv) + Len(wire) = Base(snd.call) + snd.n
        BY <1>9 DEF Pos
      <4>. DEFINE r == Pos(rcv)  w == Len(wire)  b == Base(snd.call)  n == snd.n
      <4>3. p \in Int /\ w \in Int /\ b \in Int /\ n \in Int /\ r \in Int
        BY <4>1
      <4>4. r + w = b + n /\ q = w + p
        BY <4>2, <3>1
      <4>. HIDE DEF r, w, b, n
      <4>5. b + (n + p) = r + (w + p)
        BY <4>3, <4>4, Shifts
      <4>. QED BY <4>4, <4>5 DEF r, w, b, n
    <3>. QED BY <3>2, <3>3, <3>4, <3>5, <1>8
  <2>. QED BY <2>1, <2>2
<1>12. Ordered'
  BY <1>11 DEF Ordered
<1>13. Stored'
  BY <1>2 DEF PInv, Stored
<1>. QED BY <1>10, <1>12, <1>13 DEF PInv

LEMMA RecvPlaces ==
  ASSUME PInv, Recv, IInv'
  PROVE  PInv'
<1>1. PICK m \in 1 .. Min(Piece(rcv), Len(wire)) :
        /\ wire' = SubSeq(wire, m + 1, Len(wire))
        /\ buf' = Store(m)
        /\ rcv' = Done(rcv, m)
  BY DEF Recv
<1>2. /\ rcv.at = "ready" /\ Works(rcv) /\ UNCHANGED <<blocking, link, snd>>
      /\ link = "up" /\ SideOK(rcv) /\ rcv \in Side /\ Len(wire) \in Nat
      /\ wire \in Seq(Byte) /\ PacketSize \in Nat
  BY BlockAssumption DEF Recv, Arrived, Works, PInv, IInv, SideOK, TypeOK
<1>3. /\ rcv.call \in 1 .. Calls /\ rcv.n \in Nat /\ rcv.n < Size(rcv.call)
      /\ Size(rcv.call) \in 1 .. MaxSize /\ MaxSize \in Nat /\ Base(rcv.call) \in Nat
  BY <1>2, SizeStep, MaxSizeNat DEF SideOK, Side
<1>4. m \in 1 .. Size(rcv.call) - rcv.n /\ m \in 1 .. Len(wire) /\ m \in Nat
      /\ m <= PacketSize
  BY <1>1, <1>2, <1>3 DEF Min, Piece
<1>5. /\ Len(wire') = Len(wire) - m
      /\ \A q \in 1 .. Len(wire') : q + m \in 1 .. Len(wire) /\ wire'[q] = wire[q + m]
  BY <1>1, <1>2, <1>4
<1>6. /\ Pos(rcv') = Pos(rcv) + m /\ Pos(rcv) \in Nat /\ Pos(snd) \in Nat
      /\ Pos(snd') = Pos(snd)
  BY <1>1, <1>2, <1>4, DoneFacts, PosNat DEF PInv, IInv
<1>7. Whole'
  BY <1>2, <1>4, <1>5, <1>6 DEF PInv, Whole
<1>8. ASSUME NEW q \in 1 .. Len(wire')
      PROVE  wire'[q][2] <= Size(wire'[q][1]) /\ Spot(wire'[q]) = Pos(rcv') + q
  <2>1. q + m \in 1 .. Len(wire) /\ wire'[q] = wire[q + m] /\ q \in Nat
    BY <1>2, <1>4, <1>5
  <2>2. wire[q + m][2] <= Size(wire[q + m][1]) /\ Spot(wire[q + m]) = Pos(rcv) + (q + m)
    BY <2>1 DEF PInv, Ordered
  <2>3. Pos(rcv) + (q + m) = Pos(rcv') + q
    BY <2>1, <1>4, <1>6
  <2>. QED BY <2>1, <2>2, <2>3
<1>9. Ordered'
  BY <1>8 DEF Ordered
<1>10. HeadSize \in Nat \ {0} /\ HeadSize <= MaxSize /\ Size(1) = HeadSize
       /\ ItemSize \in Nat /\ Mtu \in Nat
  BY BlockAssumption DEF MaxSize, Size
<1>11. ASSUME NEW p \in PacketSize + 1 .. MaxSize
       PROVE  buf'.items[p] = Empty
  <2>1. p \in 1 .. MaxSize /\ p \notin 1 .. m
    BY <1>2, <1>3, <1>4
  <2>2. Store(m).items[p] = buf.items[p]
    BY <2>1, <1>4, StoreHead, StoreItems DEF PInv, IInv
  <2>. QED BY <2>2, <1>1 DEF PInv, Stored
<1>12. ASSUME NEW p \in 1 .. (IF rcv'.call = 1 THEN rcv'.n ELSE HeadSize)
       PROVE  buf'.head[p] = <<1, p>>
  <2>1. CASE rcv.call = 1
    <3>1. p \in 1 .. rcv.n + m
      <4>1. CASE rcv.n + m < Size(rcv.call)
        <5>1. rcv'.call = 1 /\ rcv'.n = rcv.n + m
          BY <4>1, <2>1, <1>1, <1>2 DEF Done, Side
        <5>. QED BY <5>1
      <4>2. CASE ~(rcv.n + m < Size(rcv.call))
        <5>1. rcv.n + m = HeadSize
          BY <4>2, <2>1, <1>3, <1>4, <1>10
        <5>2. rcv' = Begin(2)
          BY <4>2, <2>1, <1>1, TurnFacts DEF Done
        <5>3. rcv'.call = 2
          BY <5>2 DEF Begin
        <5>. QED BY <5>1, <5>3
      <4>. QED BY <4>1, <4>2
    <3>2. p \in 1 .. MaxSize
      BY <3>1, <1>3, <1>4
    <3>3. CASE p \in 1 .. rcv.n
      <4>1. p - rcv.n \notin 1 .. m
        BY <3>3, <1>3, <1>4
      <4>2. Store(m).head[p] = buf.head[p]
        BY <4>1, <3>2, <2>1, <1>4, StoreHead DEF PInv, IInv
      <4>. QED BY <4>2, <3>3, <2>1, <1>1 DEF PInv, Stored
    <3>4. CASE p \notin 1 .. rcv.n
      <4>1. p - rcv.n \in 1 .. m /\ p - rcv.n \in 1 .. Len(wire)
            /\ rcv.n + (p - rcv.n) = p /\ p <= Size(rcv.call)
        BY <3>1, <3>4, <1>2, <1>3, <1>4
      <4>2. Store(m).head[p] = wire[p - rcv.n]
        BY <4>1, <3>2, <2>1, <1>4, StoreHead DEF PInv, IInv
      <4>3. wire[p - rcv.n] = <<rcv.call, rcv.n + (p - rcv.n)>>
        BY <4>1, <1>2, OwnBytes DEF PInv
      <4>. QED BY <4>1, <4>2, <4>3, <2>1, <1>1
    <3>. QED BY <3>3, <3>4
  <2>2. CASE rcv.call # 1
    <3>1. rcv'.call # 1
      <4>1. rcv.call + 1 # 1
        BY <1>3, TurnFacts
      <4>. QED BY <4>1, <2>2, <1>1, <1>2 DEF Done, Begin, Side
    <3>2. p \in 1 .. HeadSize /\ p \in 1 .. MaxSize
      BY <3>1, <1>3, <1>10
    <3>3. Store(m).head[p] = buf.head[p]
      BY <3>2, <2>2, <1>4, StoreItems DEF PInv, IInv
    <3>. QED BY <3>2, <3>3, <2>2, <1>1 DEF PInv, Stored
  <2>. QED BY <2>1, <2>2
<1>13. Stored'
  BY <1>11, <1>12 DEF Stored
<1>. QED BY <1>7, <1>9, <1>13 DEF PInv

(* The other steps leave every byte where it is, or lose the wire.         *)
LEMMA OtherPlaces ==
  ASSUME PInv, IInv', buf' = buf,
         snd'.call = snd.call, snd'.n = snd.n,
         rcv'.call = rcv.call, rcv'.n = rcv.n,
         \/ wire' = wire /\ link' = link
         \/ wire' = wire /\ link = "up" /\ link' = "cut"
         \/ wire' = <<>> /\ link' = "reset"
  PROVE  PInv'
<1>1. Pos(snd') = Pos(snd) /\ Pos(rcv') = Pos(rcv)
  BY DEF Pos
<1>2. Stored'
  BY DEF PInv, Stored
<1>3. CASE wire' = wire /\ (link' = link \/ (link = "up" /\ link' = "cut"))
  BY <1>1, <1>2, <1>3 DEF PInv, Ordered, Whole
<1>4. CASE wire' = <<>> /\ link' = "reset"
  <2>1. Len(wire') = 0
    BY <1>4
  <2>2. Ordered'
    BY <2>1 DEF Ordered
  <2>. QED BY <2>2, <1>2, <1>4 DEF PInv, Whole
<1>. QED BY <1>3, <1>4

LEMMA NextPlaces ==
  ASSUME PInv, [Next]_vars
  PROVE  PInv'
<1>1. IInv'
  BY NextOK DEF PInv
<1>2. snd \in Side /\ rcv \in Side
  BY DEF PInv, IInv, TypeOK
<1>3. CASE Send
  BY <1>1, <1>3, SendPlaces
<1>4. CASE Recv
  BY <1>1, <1>4, RecvPlaces
<1>5. CASE SendSelect \/ SendWouldBlock \/ SendError \/ SendTimeout
  <2>1. snd'.call = snd.call /\ snd'.n = snd.n
    BY <1>2, <1>5 DEF SendSelect, SendWouldBlock, SendError, SendTimeout, Side
  <2>2. UNCHANGED <<wire, link, rcv, buf>>
    BY <1>5 DEF SendSelect, SendWouldBlock, SendError, SendTimeout
  <2>. QED BY <2>1, <2>2, <1>1, OtherPlaces
<1>6. CASE RecvSelect \/ RecvWouldBlock \/ RecvEof \/ RecvError \/ RecvTimeout
  <2>1. rcv'.call = rcv.call /\ rcv'.n = rcv.n
    BY <1>2, <1>6
    DEF RecvSelect, RecvWouldBlock, RecvEof, RecvError, RecvTimeout, Side
  <2>2. UNCHANGED <<wire, link, snd, buf>>
    BY <1>6 DEF RecvSelect, RecvWouldBlock, RecvEof, RecvError, RecvTimeout
  <2>. QED BY <2>1, <2>2, <1>1, OtherPlaces
<1>7. CASE Tick
  <2>1. snd'.call = snd.call /\ snd'.n = snd.n
    BY <1>2, <1>7 DEF Tick, Pass, Side
  <2>2. rcv'.call = rcv.call /\ rcv'.n = rcv.n
    BY <1>2, <1>7 DEF Tick, Pass, Side
  <2>3. UNCHANGED <<wire, link, buf>>
    BY <1>7 DEF Tick
  <2>. QED BY <2>1, <2>2, <2>3, <1>1, OtherPlaces
<1>8. CASE PeerReset \/ Reset \/ Cut
  BY <1>1, <1>8, OtherPlaces DEF PeerReset, Reset, Cut
<1>9. CASE UNCHANGED vars
  BY <1>1, <1>9, OtherPlaces DEF vars
<1>10. AtRest => UNCHANGED vars
  BY DEF AtRest
<1>. QED
  BY <1>3, <1>4, <1>5, <1>6, <1>7, <1>8, <1>9, <1>10 DEF Next, Sender, Receiver

LEMMA InitPlaces == Init => PInv
<1>. SUFFICES ASSUME Init PROVE PInv
  OBVIOUS
<1>1. IInv
  BY InitOK
<1>2. /\ wire = <<>> /\ Len(wire) = 0 /\ link = "up" /\ snd = rcv
      /\ rcv.call = 1 /\ rcv.n = 0
  BY DEF Init, Begin
<1>3. Pos(rcv) \in Nat
  BY <1>1, PosNat DEF IInv
<1>4. Ordered /\ Whole
  BY <1>2, <1>3 DEF Ordered, Whole
<1>5. \A p \in PacketSize + 1 .. MaxSize : buf.items[p] = Empty
  BY MaxSizeNat, BlockAssumption DEF Init, Clean
<1>6. Stored
  BY <1>2, <1>5 DEF Stored
<1>. QED BY <1>1, <1>4, <1>6 DEF PInv

(* However the stream is cut and however it breaks, the bytes of the head  *)
(* come to lie in their places, no byte lies behind the buffer the items   *)
(* are thrown away in, and no call of send_data_non_block() and            *)
(* recv_data_non_block() takes a byte of the next unit or leaves one of    *)
(* its own.                                                                *)
THEOREM BytesInPlace == Spec => []InPlace
<1>1. PInv /\ [Next]_vars => PInv'
  BY NextPlaces
<1>. QED BY <1>1, InitPlaces, PInvInPlace, PTL DEF Spec

=============================================================================
