-------------------------- MODULE IndexFlowProofs --------------------------
(***************************************************************************)
(* Proofs about the way of an index, for any number of clients and         *)
(* storages, any float and every index it can count: that the parts of the *)
(* clients neither overlap nor leave anything out, and that each client    *)
(* asks for exactly its part.  First the divisors and quotients of         *)
(* sort_index_data, then its loop, the sorting of a part and the loop of   *)
(* init_storages, last the inductive invariant of IndexFlow.               *)
(***************************************************************************)
EXTENDS IndexFlow, SumsAndLoops

-----------------------------------------------------------------------------
(* Arithmetic that the provers do not find on their own.                   *)

LEMMA Times ==
  ASSUME NEW a \in Int, NEW b \in Int, NEW c \in Int, c >= 0, a <= b
  PROVE  a * c <= b * c
<1>1. (b - a) * c >= 0
  <2>. DEFINE d == b - a
  <2>1. d \in Nat /\ c \in Nat
    OBVIOUS
  <2>2. d * c \in Nat
    <3>. HIDE DEF d
    <3>. QED BY <2>1
  <2>. QED BY <2>2
<1>2. (b - a) * c = b * c - a * c
  OBVIOUS
<1>3. a * c \in Int /\ b * c \in Int
  OBVIOUS
<1>. QED BY <1>1, <1>2, <1>3

LEMMA Cancels ==
  ASSUME NEW a \in Int, NEW b \in Int, NEW c \in Int, c > 0, a * c < b * c
  PROVE  a < b
<1>1. SUFFICES ASSUME b <= a PROVE FALSE
  OBVIOUS
<1>2. b * c <= a * c
  BY <1>1, Times
<1>3. a * c \in Int /\ b * c \in Int
  OBVIOUS
<1>. QED BY <1>2, <1>3

(* The quotient of naturals.                                               *)
LEMMA Quotients ==
  ASSUME NEW a \in Nat, NEW b \in Nat \ {0}
  PROVE  /\ a \div b \in Nat
         /\ b * (a \div b) <= a /\ a < b * (a \div b) + b
         /\ \A q \in Nat : b * q <= a => q <= a \div b
         /\ \A q \in Nat : a < b * q => a \div b < q
<1>1. a \div b \in Nat /\ b * (a \div b) <= a /\ a < b * (a \div b) + b
  OBVIOUS
<1>. DEFINE d == a \div b
<1>2. ASSUME NEW q \in Nat, b * q <= a
      PROVE  q <= d
  <2>1. q * b < (d + 1) * b
    <3>1. d \in Nat /\ a < b * d + b
      BY <1>1
    <3>. HIDE DEF d
    <3>2. (d + 1) * b = b * d + b /\ q * b = b * q /\ b * d \in Int /\ b * q \in Int
      BY <3>1
    <3>. QED BY <1>2, <3>1, <3>2
  <2>2. d + 1 \in Int /\ q \in Int /\ b \in Int /\ b > 0
    BY <1>1
  <2>3. q < d + 1
    <3>. HIDE DEF d
    <3>. QED BY <2>1, <2>2, Cancels
  <2>. QED BY <1>1, <2>3
<1>3. ASSUME NEW q \in Nat, a < b * q
      PROVE  d < q
  <2>1. d * b < q * b
    <3>1. d \in Nat /\ b * d <= a
      BY <1>1
    <3>. HIDE DEF d
    <3>2. d * b = b * d /\ q * b = b * q /\ b * d \in Int /\ b * q \in Int
      BY <3>1
    <3>. QED BY <1>3, <3>1, <3>2
  <2>2. d \in Int /\ q \in Int /\ b \in Int /\ b > 0
    BY <1>1
  <2>. HIDE DEF d
  <2>. QED BY <2>1, <2>2, Cancels
<1>. QED BY <1>1, <1>2, <1>3

-----------------------------------------------------------------------------
(* The powers of two: a function that calls itself, so that first there is *)
(* one, from those that go as far as n.                                    *)

Doubles(n, f) ==
  /\ f \in [0 .. n -> Nat]
  /\ f[0] = 1
  /\ \A k \in 1 .. n : f[k] = 2 * f[k - 1]

LEMMA DoublesExists ==
  ASSUME NEW n \in Nat
  PROVE  \E f : Doubles(n, f)
<1>. DEFINE G == [y \in (1 .. n) \X Nat |-> 2 * y[2]]
<1>1. G \in [(1 .. n) \X Nat -> Nat]
  OBVIOUS
<1>2. PICK f \in [0 .. n -> Nat] : Runs(f, n, 1, G)
  <2>. HIDE DEF G
  <2>. QED BY <1>1, LoopRuns
<1>3. ASSUME NEW k \in 1 .. n
      PROVE  f[k] = 2 * f[k - 1]
  <2>1. k - 1 \in 0 .. n
    OBVIOUS
  <2>2. <<k, f[k - 1]>> \in (1 .. n) \X Nat
    BY <2>1
  <2>3. G[<<k, f[k - 1]>>] = 2 * f[k - 1]
    BY <2>2
  <2>4. f[k] = G[<<k, f[k - 1]>>]
    <3>. HIDE DEF G
    <3>. QED BY <1>2 DEF Runs
  <2>. QED BY <2>3, <2>4
<1>4. f[0] = 1
  BY <1>2 DEF Runs
<1>. QED BY <1>2, <1>3, <1>4 DEF Doubles

LEMMA DoublesAgree ==
  ASSUME NEW n \in Nat, NEW m \in Nat, n <= m, NEW f, NEW g, Doubles(n, f), Doubles(m, g)
  PROVE  f[n] = g[n]
<1>. DEFINE S == {k \in 0 .. n : f[k] = g[k]}
<1>1. 0 \in S /\ S \subseteq 0 .. n
  BY DEF Doubles
<1>2. ASSUME NEW k \in 1 .. n, k - 1 \in S
      PROVE  k \in S
  <2>1. k \in 0 .. n /\ k \in 1 .. m /\ f[k - 1] = g[k - 1]
    BY <1>2
  <2>. QED BY <2>1 DEF Doubles
<1>. HIDE DEF S
<1>3. S = 0 .. n
  BY <1>1, <1>2, LoopKeeps
<1>. QED BY <1>3 DEF S

LEMMA Powers ==
  /\ Two[0] = 1
  /\ \A k \in Nat : Two[k] \in Nat /\ Two[k + 1] = 2 * Two[k]
<1>. DEFINE Upto(n) == CHOOSE f : Doubles(n, f)
            h == [k \in Nat |-> Upto(k)[k]]
            Solves2(f) == f = [k \in Nat |-> IF k = 0 THEN 1 ELSE 2 * f[k - 1]]
<1>1. \A n \in Nat : Doubles(n, Upto(n))
  BY DoublesExists
<1>2. h[0] = 1
  <2>1. h[0] = Upto(0)[0]
    OBVIOUS
  <2>. QED BY <1>1, <2>1 DEF Doubles
<1>3. ASSUME NEW k \in Nat
      PROVE  h[k] \in Nat /\ h[k + 1] = 2 * h[k]
  <2>1. h[k] = Upto(k)[k] /\ h[k + 1] = Upto(k + 1)[k + 1] /\ k + 1 \in Nat
    OBVIOUS
  <2>. HIDE DEF Upto, h
  <2>2. Doubles(k, Upto(k)) /\ Doubles(k + 1, Upto(k + 1))
    BY <1>1, <2>1
  <2>3. Upto(k)[k] = Upto(k + 1)[k]
    BY <2>1, <2>2, DoublesAgree
  <2>4. k + 1 \in 1 .. k + 1 /\ (k + 1) - 1 = k /\ k \in 0 .. k
    OBVIOUS
  <2>5. Upto(k + 1)[k + 1] = 2 * Upto(k + 1)[k]
    BY <2>2, <2>4 DEF Doubles
  <2>6. Upto(k)[k] \in Nat
    BY <2>2, <2>4 DEF Doubles
  <2>. QED BY <2>1, <2>3, <2>5, <2>6
<1>4. Solves2(h)
  <2>1. ASSUME NEW k \in Nat
        PROVE  h[k] = IF k = 0 THEN 1 ELSE 2 * h[k - 1]
    <3>1. CASE k = 0
      BY <1>2, <3>1
    <3>2. CASE k # 0
      <4>1. k - 1 \in Nat /\ (k - 1) + 1 = k
        BY <3>2
      <4>. HIDE DEF h
      <4>2. h[(k - 1) + 1] = 2 * h[k - 1]
        BY <1>3, <4>1
      <4>. QED BY <3>2, <4>1, <4>2
    <3>. QED BY <3>1, <3>2
  <2>2. h = [k \in Nat |-> h[k]]
    OBVIOUS
  <2>. HIDE DEF h
  <2>. QED BY <2>1, <2>2
<1>5. Solves2(Two)
  <2>. HIDE DEF h
  <2>. QED BY <1>4 DEF Two
<1>6. Two[0] = 1 /\ \A k \in Nat : k # 0 => Two[k] = 2 * Two[k - 1]
  <2>1. \A k \in Nat : Two[k] = IF k = 0 THEN 1 ELSE 2 * Two[k - 1]
    BY <1>5
  <2>. QED BY <2>1
<1>. DEFINE T == {k \in Nat : Two[k] \in Nat}
<1>7. T = Nat
  <2>1. 0 \in T
    BY <1>6
  <2>2. ASSUME NEW k \in T
        PROVE  k + 1 \in T
    <3>1. k \in Nat /\ k + 1 # 0 /\ k + 1 \in Nat /\ (k + 1) - 1 = k /\ Two[k] \in Nat
      OBVIOUS
    <3>2. Two[k + 1] = 2 * Two[k]
      BY <1>6, <3>1
    <3>. QED BY <3>1, <3>2
  <2>3. T \subseteq Nat
    OBVIOUS
  <2>. HIDE DEF T
  <2>. QED BY <2>1, <2>2, <2>3, SetInduction
<1>8. ASSUME NEW k \in Nat
      PROVE  Two[k + 1] = 2 * Two[k]
  <2>1. k + 1 # 0 /\ k + 1 \in Nat /\ (k + 1) - 1 = k
    OBVIOUS
  <2>. QED BY <1>6, <2>1
<1>9. \A k \in Nat : Two[k] \in Nat
  BY <1>7
<1>. QED BY <1>6, <1>8, <1>9

LEMMA PowersGrow ==
  /\ \A k \in Nat : Two[k] >= 1
  /\ \A j, k \in Nat : Two[j] * (k + 1) <= Two[j + k]
<1>1. \A k \in Nat : Two[k] \in Nat /\ Two[k + 1] = 2 * Two[k]
  BY Powers
<1>2. ASSUME NEW j \in Nat
      PROVE  \A k \in Nat : Two[j] * (k + 1) <= Two[j + k]
  <2>. DEFINE T == {k \in Nat : Two[j] * (k + 1) <= Two[j + k]}
  <2>1. 0 \in T
    <3>1. j + 0 = j /\ Two[j] * (0 + 1) = Two[j] /\ Two[j] <= Two[j]
      BY <1>1
    <3>. QED BY <3>1
  <2>2. ASSUME NEW k \in T
        PROVE  k + 1 \in T
    <3>1. k \in Nat /\ Two[j] \in Nat /\ Two[j] * (k + 1) <= Two[j + k]
      BY <1>1
    <3>2. j + k \in Nat /\ Two[j + (k + 1)] = 2 * Two[j + k] /\ Two[j + k] \in Nat
      <4>1. j + k \in Nat /\ j + (k + 1) = (j + k) + 1
        OBVIOUS
      <4>. QED BY <1>1, <4>1
    <3>3. ASSUME NEW a \in Nat, NEW b \in Nat, a * (k + 1) <= b
          PROVE  a * ((k + 1) + 1) <= 2 * b
      <4>1. a * ((k + 1) + 1) = a * (k + 1) + a /\ a * (k + 1) = a * k + a /\ a * k \in Nat
        BY <3>1
      <4>. QED BY <3>3, <4>1
    <3>. QED BY <3>1, <3>2, <3>3
  <2>3. T \subseteq Nat
    OBVIOUS
  <2>. HIDE DEF T
  <2>4. T = Nat
    BY <2>1, <2>2, <2>3, SetInduction
  <2>. QED BY <2>4 DEF T
<1>3. ASSUME NEW k \in Nat
      PROVE  Two[k] >= 1
  <2>1. Two[0] * (k + 1) <= Two[0 + k] /\ 0 + k = k /\ Two[0] = 1
    BY <1>2, Powers
  <2>. QED BY <1>1, <2>1
<1>. QED BY <1>2, <1>3

-----------------------------------------------------------------------------
(* The divisors.                                                           *)

(* The float nearest to n / m is M / E, with A for half of what its        *)
(* mantissa is below.                                                      *)
Nearest(A, E, M, n, m) ==
  /\ A \in Nat \ {0} /\ E \in Nat \ {0} /\ M \in Nat \ {0}
  /\ n < 2 * A /\ A * m <= n * E
  /\ 2 * (M * m) <= 2 * (n * E) + m
  /\ 2 * (n * E) <= 2 * (M * m) + m
  /\ n >= m => M >= E

LEMMA ExponentFound ==
  ASSUME NEW n \in Nat \ {0}, NEW m \in Nat \ {0}, n < Two[FloatBits]
  PROVE  LET e == Exponent(n, m) IN
         /\ e \in Nat
         /\ Two[FloatBits - 1] * m <= n * Two[e] /\ n * Two[e] < Two[FloatBits] * m
<1>. DEFINE top == Two[FloatBits]
            Enough(e) == top * m <= n * Two[e + 1]
            T == {e \in Nat : Enough(e)}
<1>1. FloatBits \in Nat \ {0} /\ FloatBits - 1 \in Nat /\ (FloatBits - 1) + 1 = FloatBits
  BY IndexAssumption
<1>2. \A k \in Nat : Two[k] \in Nat /\ Two[k] >= 1 /\ Two[k + 1] = 2 * Two[k]
  BY Powers, PowersGrow
<1>3. top \in Nat /\ n < top /\ top = 2 * Two[FloatBits - 1] /\ Two[FloatBits - 1] \in Nat
  BY <1>1, <1>2
<1>4. (FloatBits + m) - 1 \in T
  <2>1. (FloatBits + m) - 1 \in Nat /\ ((FloatBits + m) - 1) + 1 = FloatBits + m
    BY <1>1
  <2>2. top * (m + 1) <= Two[FloatBits + m]
    BY <1>1, PowersGrow
  <2>3. FloatBits + m \in Nat /\ Two[FloatBits + m] \in Nat
    BY <1>1, <1>2
  <2>. HIDE DEF top
  <2>4. top * m <= Two[FloatBits + m]
    <3>1. top * (m + 1) = top * m + top /\ top * m \in Nat
      BY <1>3
    <3>. QED BY <1>3, <2>2, <2>3, <3>1
  <2>5. Two[FloatBits + m] <= n * Two[FloatBits + m]
    <3>1. ASSUME NEW a \in Nat
          PROVE  a <= n * a
      <4>1. 1 * a <= n * a
        BY Times
      <4>. QED BY <4>1
    <3>. QED BY <2>3, <3>1
  <2>6. top * m \in Nat /\ n * Two[FloatBits + m] \in Nat
    BY <1>3, <2>3
  <2>7. top * m <= n * Two[FloatBits + m]
    BY <2>3, <2>4, <2>5, <2>6
  <2>. QED BY <2>1, <2>7
<1>. HIDE DEF top
<1>5. PICK e \in T : \A d \in T : e <= d
  <2>1. T \subseteq Nat /\ T # {}
    BY <1>4
  <2>. HIDE DEF T
  <2>. QED BY <2>1, Least
<1>6. e \in Nat /\ e <= (FloatBits + m) - 1 /\ Enough(e)
  BY <1>4, <1>5
<1>7. Two[FloatBits - 1] * m <= n * Two[e]
  <2>. DEFINE a == Two[FloatBits - 1]  b == Two[e]
  <2>1. a \in Nat /\ b \in Nat /\ top = 2 * a /\ Two[e + 1] = 2 * b
    BY <1>2, <1>3, <1>6
  <2>2. top * m <= n * Two[e + 1]
    BY <1>6
  <2>. HIDE DEF a, b
  <2>3. (2 * a) * m <= n * (2 * b)
    BY <2>1, <2>2
  <2>4. (2 * a) * m = 2 * (a * m) /\ n * (2 * b) = 2 * (n * b) /\ a * m \in Int /\ n * b \in Int
    BY <2>1
  <2>5. a * m <= n * b
    BY <2>3, <2>4
  <2>. QED BY <2>5 DEF a, b
<1>8. n * Two[e] < top * m
  <2>1. CASE e = 0
    <3>1. n * Two[e] = n
      BY <2>1, Powers
    <3>2. top * 1 <= top * m
      <4>1. 1 * top <= m * top
        BY <1>3, Times
      <4>. QED BY <1>3, <4>1
    <3>3. top * m \in Nat
      BY <1>3
    <3>. QED BY <1>3, <3>1, <3>2, <3>3
  <2>2. CASE e # 0
    <3>1. e - 1 \in Nat /\ (e - 1) + 1 = e /\ e - 1 \notin T
      BY <1>5, <1>6, <2>2
    <3>2. ~(top * m <= n * Two[e])
      BY <3>1
    <3>3. top * m \in Nat /\ n * Two[e] \in Nat
      BY <1>2, <1>3, <1>6
    <3>. QED BY <3>2, <3>3
  <2>. QED BY <2>1, <2>2
<1>9. e \in 0 .. FloatBits + m
  BY <1>1, <1>6
<1>10. \E d \in 0 .. FloatBits + m :
         Two[FloatBits - 1] * m <= n * Two[d] /\ n * Two[d] < Two[FloatBits] * m
  BY <1>7, <1>8, <1>9 DEF top
<1>11. /\ Exponent(n, m) \in 0 .. FloatBits + m
       /\ Two[FloatBits - 1] * m <= n * Two[Exponent(n, m)]
       /\ n * Two[Exponent(n, m)] < Two[FloatBits] * m
  BY <1>10 DEF Exponent
<1>12. \A d \in 0 .. FloatBits + m : d \in Nat
  BY <1>1
<1>. QED BY <1>11, <1>12

LEMMA DivisorFound ==
  ASSUME NEW n \in Nat \ {0}, NEW m \in Nat \ {0}, n < Two[FloatBits]
  PROVE  Nearest(Two[FloatBits - 1], Two[Exponent(n, m)], Mantissa(n, m), n, m)
<1>. DEFINE A == Two[FloatBits - 1]
            E == Two[Exponent(n, m)]
            a == n * E
            q == a \div m
            r == a % m
            M == Mantissa(n, m)
<1>1. A \in Nat \ {0} /\ Two[FloatBits] = 2 * A
  <2>1. FloatBits - 1 \in Nat /\ (FloatBits - 1) + 1 = FloatBits
    BY IndexAssumption
  <2>2. A \in Nat /\ A >= 1
    BY <2>1, Powers, PowersGrow
  <2>. QED BY <2>1, <2>2, Powers
<1>2. /\ E \in Nat \ {0}
      /\ A * m <= n * E
  <2>1. Exponent(n, m) \in Nat /\ A * m <= n * E
    BY ExponentFound
  <2>2. E \in Nat /\ E >= 1
    BY <2>1, Powers, PowersGrow
  <2>. QED BY <2>1, <2>2
<1>3. M = q \/ M = q + 1
  BY DEF Mantissa
<1>4. (M = q => 2 * r <= m) /\ (M = q + 1 => 2 * r >= m)
  <2>1. M = IF 2 * r > m \/ (2 * r = m /\ q % 2 = 1) THEN q + 1 ELSE q
    BY DEF Mantissa
  <2>2. a \in Nat
    BY <1>2
  <2>. HIDE DEF a
  <2>3. q \in Int /\ r \in Int
    BY <2>2
  <2>. HIDE DEF q, r, M
  <2>. QED BY <2>1, <2>3
<1>. HIDE DEF M, E, A
<1>5. a \in Nat
  BY <1>2
<1>6. q \in Nat /\ r \in Nat /\ a = (m * q) + r /\ r < m
  <2>. HIDE DEF a
  <2>. QED BY <1>5
<1>7. \A k \in Nat : k * m <= a => k <= q
  <2>. HIDE DEF a
  <2>1. ASSUME NEW k \in Nat, k * m <= a
        PROVE  k <= a \div m
    <3>1. m * k <= a
      BY <2>1
    <3>. QED BY <1>5, <3>1, Quotients
  <2>. QED BY <2>1
<1>8. q >= A
  BY <1>1, <1>2, <1>7
<1>9. n >= m => q >= E
  <2>1. ASSUME n >= m
        PROVE  E * m <= a
    <3>1. m * E <= n * E
      BY <1>2, <2>1, Times
    <3>2. E * m = m * E
      BY <1>2
    <3>. QED BY <3>1, <3>2
  <2>2. E \in Nat
    BY <1>2
  <2>. HIDE DEF a, q
  <2>. QED BY <1>7, <2>1, <2>2
<1>. HIDE DEF q, r
<1>10. /\ M \in Nat /\ 2 * (M * m) <= 2 * a + m /\ 2 * a <= 2 * (M * m) + m /\ M >= q
  <2>1. CASE M = q
    <3>1. q * m = m * q /\ q * m \in Int
      BY <1>6
    <3>2. a = q * m + r /\ 2 * r <= m
      BY <1>4, <1>6, <2>1, <3>1
    <3>. HIDE DEF a
    <3>3. 2 * (q * m) <= 2 * a + m /\ 2 * a <= 2 * (q * m) + m
      BY <1>5, <1>6, <3>1, <3>2
    <3>. QED BY <1>6, <2>1, <3>3
  <2>2. CASE M = q + 1
    <3>1. (q + 1) * m = (m * q) + m /\ m * q \in Int
      BY <1>6
    <3>2. 2 * r >= m
      BY <1>4, <2>2
    <3>. HIDE DEF a
    <3>3. 2 * ((q + 1) * m) <= 2 * a + m /\ 2 * a <= 2 * ((q + 1) * m) + m
      BY <1>5, <1>6, <3>1, <3>2
    <3>. QED BY <1>6, <2>2, <3>3
  <2>. QED BY <1>3, <2>1, <2>2
<1>11. M \in Nat \ {0} /\ (n >= m => M >= E)
  BY <1>1, <1>2, <1>6, <1>8, <1>9, <1>10
<1>12. n < 2 * A
  BY <1>1
<1>13. Nearest(A, E, M, n, m)
  BY <1>1, <1>2, <1>10, <1>11, <1>12 DEF Nearest
<1>. QED BY <1>13 DEF A, E, M

-----------------------------------------------------------------------------
(* The quotients by a divisor.                                             *)

LEMMA EnoughBits ==
  ASSUME NEW A, NEW E, NEW M, NEW n \in Nat \ {0}, NEW m \in Nat \ {0},
         Nearest(A, E, M, n, m)
  PROVE  m < 2 * E
<1>. USE DEF Nearest
<1>1. SUFFICES ASSUME 2 * E <= m PROVE FALSE
  OBVIOUS
<1>2. (2 * E) * A <= m * A
  BY <1>1, Times
<1>3. n * E <= (2 * A - 1) * E
  <2>1. n <= 2 * A - 1 /\ 2 * A - 1 \in Int /\ n \in Int /\ E \in Int /\ E >= 0
    OBVIOUS
  <2>. QED BY <2>1, Times
<1>4. (2 * A - 1) * E = (2 * E) * A - E /\ (2 * E) * A \in Int
  OBVIOUS
<1>5. m * A = A * m /\ A * m \in Int /\ n * E \in Int /\ E \in Int /\ E > 0 /\ A * m <= n * E
  OBVIOUS
<1>. HIDE DEF Nearest
<1>. QED BY <1>2, <1>3, <1>4, <1>5

(* All quotients are in 0 .. m-1, and none is skipped.                     *)
LEMMA QuotientsOf ==
  ASSUME NEW A, NEW E, NEW M, NEW n \in Nat \ {0}, NEW m \in Nat \ {0},
         Nearest(A, E, M, n, m)
  PROVE  /\ (0 * E) \div M = 0
         /\ \A i \in Nat : (i * E) \div M \in Nat
         /\ \A i \in Nat : i < n => (i * E) \div M < m
         /\ \A i \in Nat : (i * E) \div M <= ((i + 1) * E) \div M
         /\ n >= m => \A i \in Nat : ((i + 1) * E) \div M <= (i * E) \div M + 1
<1>t. /\ E \in Nat \ {0} /\ M \in Nat \ {0}
      /\ 2 * (n * E) <= 2 * (M * m) + m /\ (n >= m => M >= E)
  BY DEF Nearest
<1>1. \A i \in Nat : i * E \in Nat /\ (i + 1) * E = i * E + E /\ i + 1 \in Nat /\ (i + 1) * E \in Nat
  BY <1>t
<1>2. \A i \in Nat : (i * E) \div M \in Nat
  BY <1>t, <1>1, Quotients
<1>3. (0 * E) \div M = 0
  <2>1. 0 * E = 0 /\ M * 1 = M /\ 0 < M * 1 /\ 0 \in Nat /\ 1 \in Nat
    BY <1>t
  <2>2. 0 \div M < 1 /\ 0 \div M \in Nat
    BY <1>t, <2>1, Quotients
  <2>. QED BY <2>1, <2>2
<1>4. ASSUME NEW i \in Nat, i < n
      PROVE  (i * E) \div M < m
  <2>1. (i + 1) * E <= n * E
    BY <1>t, <1>1, <1>4, Times
  <2>2. m < 2 * E
    BY EnoughBits
  <2>3. n * E \in Int /\ M * m \in Int /\ i * E \in Int /\ (i + 1) * E = i * E + E
    BY <1>t, <1>1
  <2>4. i * E < M * m
    BY <1>t, <2>1, <2>2, <2>3
  <2>. QED BY <1>t, <1>1, <2>4, Quotients
<1>5. ASSUME NEW i \in Nat
      PROVE  (i * E) \div M <= ((i + 1) * E) \div M
  <2>. DEFINE a == i * E  b == (i + 1) * E  d == a \div M
  <2>1. a \in Nat /\ b \in Nat /\ a <= b /\ d \in Nat
    BY <1>t, <1>1, <1>2
  <2>2. M * d <= a
    BY <1>t, <2>1, Quotients
  <2>3. M * d <= b
    <3>1. M * d \in Int
      BY <1>t, <2>1
    <3>. HIDE DEF a, b, d
    <3>. QED BY <2>1, <2>2, <3>1
  <2>. HIDE DEF a, b, d
  <2>4. d <= b \div M
    BY <1>t, <2>1, <2>3, Quotients
  <2>. QED BY <2>4 DEF a, b, d
<1>6. ASSUME n >= m, NEW i \in Nat
      PROVE  ((i + 1) * E) \div M <= (i * E) \div M + 1
  <2>. DEFINE a == i * E  b == (i + 1) * E  d == a \div M
  <2>1. a \in Nat /\ b \in Nat /\ b = a + E /\ d \in Nat /\ E <= M
    BY <1>t, <1>1, <1>2, <1>6
  <2>2. a < M * d + M
    BY <1>t, <2>1, Quotients
  <2>. HIDE DEF a, b, d
  <2>3. b < M * (d + 2)
    <3>1. M * d \in Int /\ M * (d + 2) = M * d + 2 * M
      BY <1>t, <2>1
    <3>. QED BY <1>t, <2>1, <2>2, <3>1
  <2>4. b \div M < d + 2 /\ b \div M \in Nat
    <3>1. d + 2 \in Nat
      BY <2>1
    <3>. QED BY <1>t, <2>1, <2>3, <3>1, Quotients
  <2>5. b \div M <= d + 1
    BY <2>1, <2>4
  <2>. QED BY <2>5 DEF a, b, d
<1>. QED BY <1>2, <1>3, <1>4, <1>5, <1>6

(* The last item is the last client's.                                     *)
LEMMA LastQuotient ==
  ASSUME NEW A, NEW E, NEW M, NEW n \in Nat \ {0}, NEW m \in Nat \ {0},
         Nearest(A, E, M, n, m), n >= m, (m + 1) * (m + 1) <= 2 * A
  PROVE  ((n - 1) * E) \div M = m - 1
<1>t. /\ A \in Nat \ {0} /\ E \in Nat \ {0} /\ M \in Nat \ {0}
      /\ A * m <= n * E /\ M >= E
      /\ 2 * (M * m) <= 2 * (n * E) + m /\ 2 * (n * E) <= 2 * (M * m) + m
  BY DEF Nearest
<1>. DEFINE x == (n - 1) * E
<1>1. x \in Nat /\ x = n * E - E /\ n - 1 \in Nat /\ n - 1 < n /\ m - 1 \in Nat
  <2>1. n - 1 \in Nat
    OBVIOUS
  <2>. QED BY <1>t, <2>1
<1>2. x \div M < m /\ x \div M \in Nat
  BY <1>1, QuotientsOf
<1>3. M * (m - 1) <= x
  <2>1. CASE n = m
    <3>1. M = E
      <4>1. SUFFICES ASSUME M # E PROVE FALSE
        OBVIOUS
      <4>2. (E + 1) * m <= M * m
        <5>1. E + 1 <= M /\ E + 1 \in Int /\ M \in Int
          BY <1>t, <4>1
        <5>. QED BY <5>1, Times
      <4>3. (E + 1) * m = n * E + m /\ n * E \in Int /\ M * m \in Int
        BY <1>t, <2>1
      <4>. QED BY <1>t, <4>2, <4>3
    <3>. QED BY <1>t, <2>1, <3>1
  <2>2. CASE n # m
    <3>. DEFINE d == n - m
    <3>1. d \in Nat \ {0} /\ n = m + d
      BY <2>2
    <3>. HIDE DEF d
    <3>2. (m + 1) * (m + d) <= (m + 1) * ((m + 1) * d)
      <4>1. m + d <= (m + 1) * d
        <5>1. 1 * m <= d * m
          BY <3>1, Times
        <5>2. (m + 1) * d = d * m + d /\ d * m \in Int
          BY <3>1
        <5>. QED BY <3>1, <5>1, <5>2
      <4>2. m + d \in Int /\ (m + 1) * d \in Int
        BY <3>1
      <4>3. (m + d) * (m + 1) <= ((m + 1) * d) * (m + 1)
        BY <4>1, <4>2, Times
      <4>. QED BY <3>1, <4>2, <4>3
    <3>3. (m + 1) * ((m + 1) * d) <= (2 * A) * d
      <4>1. ((m + 1) * (m + 1)) * d <= (2 * A) * d
        BY <1>t, <3>1, Times
      <4>2. ((m + 1) * (m + 1)) * d = (m + 1) * ((m + 1) * d)
        BY <3>1
      <4>. QED BY <4>1, <4>2
    <3>4. (m + 1) * n <= (2 * A) * d
      <4>1. (m + 1) * n \in Int /\ (m + 1) * ((m + 1) * d) \in Int /\ (2 * A) * d \in Int
        BY <1>t, <3>1
      <4>. QED BY <3>1, <3>2, <3>3, <4>1
    <3>5. (m * (m + 1)) * n <= (2 * d) * (A * m)
      <4>1. ((m + 1) * n) * m <= ((2 * A) * d) * m
        BY <1>t, <3>1, <3>4, Times
      <4>2. ((m + 1) * n) * m = (m * (m + 1)) * n
        OBVIOUS
      <4>3. ((2 * A) * d) * m = (2 * d) * (A * m)
        BY <1>t, <3>1
      <4>. QED BY <4>1, <4>2, <4>3
    <3>6. (2 * d) * (A * m) <= (2 * d) * (n * E)
      <4>1. A * m \in Int /\ n * E \in Int /\ 2 * d \in Int /\ 2 * d >= 0
        BY <1>t, <3>1
      <4>2. (A * m) * (2 * d) <= (n * E) * (2 * d)
        BY <1>t, <4>1, Times
      <4>. QED BY <4>1, <4>2
    <3>7. (m * (m + 1)) * n <= ((2 * d) * E) * n
      <4>1. (2 * d) * (n * E) = ((2 * d) * E) * n
        BY <1>t, <3>1
      <4>2. (m * (m + 1)) * n \in Int /\ (2 * d) * (A * m) \in Int /\ (2 * d) * (n * E) \in Int
        BY <1>t, <3>1
      <4>. QED BY <3>5, <3>6, <4>1, <4>2
    <3>8. m * (m + 1) <= (2 * d) * E
      <4>1. m * (m + 1) \in Int /\ (2 * d) * E \in Int
        BY <1>t, <3>1
      <4>2. SUFFICES ASSUME (2 * d) * E < m * (m + 1) PROVE FALSE
        BY <4>1
      <4>3. (2 * d) * E + 1 <= m * (m + 1) /\ (2 * d) * E + 1 \in Int
        BY <4>1, <4>2
      <4>4. ((2 * d) * E + 1) * n <= (m * (m + 1)) * n
        BY <4>1, <4>3, Times
      <4>5. ((2 * d) * E + 1) * n = ((2 * d) * E) * n + n
        BY <4>1
      <4>6. ((2 * d) * E) * n \in Int /\ (m * (m + 1)) * n \in Int
        BY <4>1
      <4>. QED BY <3>7, <4>4, <4>5, <4>6
    <3>9. m <= 2 * (M - E)
      <4>1. SUFFICES ASSUME 2 * (M - E) < m PROVE FALSE
        BY <1>t
      <4>2. 2 * (M - E) + 1 <= m /\ 2 * (M - E) + 1 \in Int
        BY <1>t, <4>1
      <4>3. (2 * (M - E) + 1) * m <= m * m
        BY <4>2, Times
      <4>4. (2 * (M - E) + 1) * m = (2 * (M * m) - 2 * (m * E)) + m
        BY <1>t
      <4>5. n * E = m * E + d * E /\ m * (m + 1) = m * m + m /\ (2 * d) * E = 2 * (d * E)
        BY <1>t, <3>1
      <4>6. M * m \in Int /\ m * E \in Int /\ d * E \in Int /\ m * m \in Int /\ n * E \in Int
        BY <1>t, <3>1
      <4>. QED BY <1>t, <3>8, <4>3, <4>4, <4>5, <4>6
    <3>10. M * (m - 1) = M * m - M /\ M * m \in Int /\ n * E \in Int
      BY <1>t
    <3>. QED BY <1>t, <1>1, <3>9, <3>10
  <2>. QED BY <2>1, <2>2
<1>4. m - 1 <= x \div M
  <2>. HIDE DEF x
  <2>. QED BY <1>t, <1>1, <1>3, Quotients
<1>. HIDE DEF x
<1>5. x \div M = m - 1
  BY <1>2, <1>4
<1>. QED BY <1>5 DEF x

-----------------------------------------------------------------------------
(* How even the parts are.                                                 *)

(* Part c, of the items a .. b - 1, or the last one.                       *)
Section(E, M, n, m, c, a, b) ==
  /\ a \in Nat /\ b \in Nat /\ c \in 0 .. m - 1
  /\ M * c <= a * E /\ a * E < M * c + E
  /\ c = m - 1 => b = n
  /\ c # m - 1 => M * c + M <= b * E /\ b * E < M * c + M + E

(* The size of a part is that of the divisor up to one item, or to two.    *)
LEMMA SectionSize ==
  ASSUME NEW A, NEW E, NEW M, NEW n \in Nat \ {0}, NEW m \in Nat \ {0},
         Nearest(A, E, M, n, m), NEW c, NEW a, NEW b, Section(E, M, n, m, c, a, b)
  PROVE  /\ (b - a) * E < M + E
         /\ c = m - 1 => M < (b - a) * E + 2 * E
         /\ c # m - 1 => M < (b - a) * E + E
<1>t. /\ E \in Nat \ {0} /\ M \in Nat \ {0}
      /\ 2 * (M * m) <= 2 * (n * E) + m /\ 2 * (n * E) <= 2 * (M * m) + m
      /\ m < 2 * E
  BY EnoughBits DEF Nearest
<1>1. a \in Nat /\ b \in Nat /\ c \in Int
  BY DEF Section
<1>2. (b - a) * E = b * E - a * E /\ a * E \in Int /\ b * E \in Int
  BY <1>t, <1>1
<1>3. M * c \in Int /\ M * m \in Int /\ n * E \in Int
  BY <1>t, <1>1
<1>4. M * c <= a * E /\ a * E < M * c + E
  BY DEF Section
<1>5. CASE c = m - 1
  <2>1. b * E = n * E /\ M * c = M * m - M
    BY <1>t, <1>5 DEF Section
  <2>. QED BY <1>t, <1>2, <1>3, <1>4, <1>5, <2>1
<1>6. CASE c # m - 1
  <2>1. M * c + M <= b * E /\ b * E < M * c + M + E
    BY <1>6 DEF Section
  <2>. QED BY <1>t, <1>2, <1>3, <1>4, <1>6, <2>1
<1>. QED BY <1>5, <1>6

LEMMA SmallerByOne ==
  ASSUME NEW A, NEW E, NEW M, NEW n \in Nat \ {0}, NEW m \in Nat \ {0},
         Nearest(A, E, M, n, m), NEW c, NEW a, NEW b, Section(E, M, n, m, c, a, b),
         NEW x, Section(E, M, n, m, m - 1, x, n), c # m - 1,
         m <= 3 \/ n * m <= 2 * A
  PROVE  b - a # (n - x) + 2
<1>1. SUFFICES ASSUME b - a = (n - x) + 2 PROVE FALSE
  OBVIOUS
<1>t. /\ A \in Nat \ {0} /\ E \in Nat \ {0} /\ M \in Nat \ {0} /\ A * m <= n * E
      /\ 2 * (M * m) <= 2 * (n * E) + m /\ x \in Int
      /\ x * E < M * (m - 1) + E
  BY DEF Nearest, Section
<1>. DEFINE g == (n - x) + 1
            h == M - g * E
            e == M * m - n * E
<1>2. /\ g * E = n * E - x * E + E /\ n * E \in Int /\ x * E \in Int /\ M * m \in Int
      /\ M * (m - 1) = M * m - M /\ g \in Int /\ g * E \in Int /\ h \in Int /\ e \in Int
  BY <1>t
<1>3. h > 0
  <2>1. (b - a) * E < M + E
    BY SectionSize
  <2>2. (b - a) * E = g * E + E
    BY <1>1, <1>t
  <2>. HIDE DEF g
  <2>. QED BY <1>t, <1>2, <2>1, <2>2
<1>4. h < e /\ 2 * e <= m
  <2>. HIDE DEF g
  <2>. QED BY <1>t, <1>2
<1>5. m > 3
  <2>. HIDE DEF h, e
  <2>. QED BY <1>2, <1>3, <1>4
<1>6. n * m <= 2 * A
  BY <1>5
<1>7. m * m <= 2 * E
  <2>1. (n * m) * m <= (2 * A) * m
    <3>1. n * m \in Int /\ 2 * A \in Int
      BY <1>t
    <3>. QED BY <1>6, <3>1, Times
  <2>2. (n * m) * m = (m * m) * n /\ (2 * A) * m = 2 * (A * m) /\ 2 * (n * E) = (2 * E) * n
    BY <1>t
  <2>3. (m * m) * n \in Int /\ A * m \in Int /\ n * E \in Int /\ m * m \in Int /\ 2 * E \in Int
    BY <1>t
  <2>4. (m * m) * n <= (2 * E) * n
    BY <1>t, <2>1, <2>2, <2>3
  <2>5. SUFFICES ASSUME 2 * E + 1 <= m * m PROVE FALSE
    BY <2>3
  <2>6. (2 * E + 1) * n <= (m * m) * n
    BY <2>3, <2>5, Times
  <2>7. (2 * E + 1) * n = (2 * E) * n + n
    BY <2>3
  <2>8. (2 * E) * n \in Int
    BY <2>3
  <2>. QED BY <2>3, <2>4, <2>6, <2>7, <2>8
<1>8. m * h = e + (n - m * g) * E
  <2>1. m * h = M * m - (m * g) * E
    <3>. HIDE DEF g
    <3>. QED BY <1>t, <1>2
  <2>2. (n - m * g) * E = n * E - (m * g) * E /\ m * g \in Int
    <3>. HIDE DEF g
    <3>. QED BY <1>t, <1>2
  <2>3. (m * g) * E \in Int
    <3>. HIDE DEF g
    <3>. QED BY <1>t, <2>2
  <2>. HIDE DEF g, h
  <2>. QED BY <1>2, <2>1, <2>2, <2>3
<1>. DEFINE u == n - m * g
<1>9. u \in Int /\ m * h = e + u * E
  <2>1. u \in Int
    <3>. HIDE DEF g
    <3>. QED BY <1>2
  <2>. QED BY <1>8, <2>1
<1>. HIDE DEF g, h, e, u
<1>10. m <= m * h /\ m * h \in Int
  <2>1. 1 * m <= h * m
    BY <1>2, <1>3, Times
  <2>. QED BY <1>2, <2>1
<1>11. u > 0
  <2>1. SUFFICES ASSUME u <= 0 PROVE FALSE
    BY <1>9
  <2>2. u * E <= 0 * E
    BY <1>t, <1>9, <2>1, Times
  <2>3. 0 * E = 0 /\ u * E \in Int
    BY <1>t, <1>9
  <2>. QED BY <1>2, <1>4, <1>9, <1>10, <2>2, <2>3
<1>12. E <= u * E /\ u * E \in Int
  <2>1. 1 * E <= u * E
    BY <1>t, <1>9, <1>11, Times
  <2>. QED BY <1>t, <1>9, <2>1
<1>13. 2 * (m * h) <= m * m
  <2>1. (2 * h) * m <= m * m
    BY <1>2, <1>4, Times
  <2>. QED BY <1>2, <2>1
<1>14. m * m \in Int
  OBVIOUS
<1>. QED BY <1>t, <1>2, <1>3, <1>4, <1>7, <1>9, <1>10, <1>12, <1>13, <1>14

(* No part is much larger than another.                                    *)
LEMMA SectionsEven ==
  ASSUME NEW A, NEW E, NEW M, NEW n \in Nat \ {0}, NEW m \in Nat \ {0},
         Nearest(A, E, M, n, m), NEW c, NEW a, NEW b, Section(E, M, n, m, c, a, b),
         NEW d, NEW x, NEW y, Section(E, M, n, m, d, x, y), c # d
  PROVE  b - a <= (y - x) + (IF m <= 3 \/ n * m <= 2 * A THEN 1 ELSE 2)
<1>t. /\ E \in Nat \ {0} /\ M \in Nat \ {0}
      /\ a \in Int /\ b \in Int /\ x \in Int /\ y \in Int /\ b - a \in Int /\ y - x \in Int
  BY DEF Nearest, Section
<1>1. (b - a) * E < M + E
  BY SectionSize
<1>2. (b - a) * E \in Int /\ (y - x) * E \in Int
  BY <1>t
<1>3. CASE d # m - 1
  <2>1. M < (y - x) * E + E
    BY <1>3, SectionSize
  <2>2. (b - a) * E < ((y - x) + 2) * E
    <3>1. ((y - x) + 2) * E = (y - x) * E + 2 * E
      BY <1>t
    <3>. QED BY <1>t, <1>1, <1>2, <2>1, <3>1
  <2>3. b - a < (y - x) + 2
    BY <1>t, <2>2, Cancels
  <2>. QED BY <1>t, <2>3
<1>4. CASE d = m - 1
  <2>1. M < (y - x) * E + 2 * E
    BY <1>4, SectionSize
  <2>2. (b - a) * E < ((y - x) + 3) * E
    <3>1. ((y - x) + 3) * E = (y - x) * E + 3 * E
      BY <1>t
    <3>. QED BY <1>t, <1>1, <1>2, <2>1, <3>1
  <2>3. b - a < (y - x) + 3
    BY <1>t, <2>2, Cancels
  <2>4. y = n
    BY <1>4 DEF Section
  <2>5. m <= 3 \/ n * m <= 2 * A => b - a # (y - x) + 2
    BY <1>4, <2>4, SmallerByOne
  <2>. QED BY <1>t, <2>3, <2>5
<1>. QED BY <1>3, <1>4

-----------------------------------------------------------------------------
(* The quotients of the items of an index of n items by m storages or      *)
(* clients (gen_index_data, sort_index_data).                              *)

(* n items are counted by a float.                                         *)
Countable(n) == n \in Nat \ {0} /\ n < Two[FloatBits]

LEMMA HalfOfPower ==
  Two[FloatBits] = 2 * Two[FloatBits - 1] /\ Two[FloatBits] \in Nat
<1>1. FloatBits - 1 \in Nat /\ (FloatBits - 1) + 1 = FloatBits
  BY IndexAssumption
<1>. QED BY <1>1, Powers

LEMMA QuotientFound ==
  ASSUME NEW n, Countable(n), NEW m \in Nat \ {0}
  PROVE  /\ Quotient(0, n, m) = 0
         /\ \A i \in Nat : Quotient(i, n, m) \in Nat
         /\ \A i \in Nat : i < n => Quotient(i, n, m) < m
         /\ \A i \in Nat : Quotient(i, n, m) <= Quotient(i + 1, n, m)
         /\ n >= m => \A i \in Nat : Quotient(i + 1, n, m) <= Quotient(i, n, m) + 1
<1>. DEFINE A == Two[FloatBits - 1]  E == Two[Exponent(n, m)]  M == Mantissa(n, m)
<1>1. n \in Nat \ {0} /\ Nearest(A, E, M, n, m)
  BY DivisorFound DEF Countable
<1>. DEFINE q(i) == (i * E) \div M
<1>2. \A i \in Nat : Quotient(i, n, m) = q(i) /\ Quotient(i + 1, n, m) = q(i + 1)
  BY DEF Quotient
<1>3. Quotient(0, n, m) = q(0)
  BY DEF Quotient
<1>. HIDE DEF A, E, M
<1>4. /\ q(0) = 0
      /\ \A i \in Nat : q(i) \in Nat
      /\ \A i \in Nat : i < n => q(i) < m
      /\ \A i \in Nat : q(i) <= q(i + 1)
      /\ n >= m => \A i \in Nat : q(i + 1) <= q(i) + 1
  BY <1>1, QuotientsOf
<1>. HIDE DEF q
<1>. QED BY <1>2, <1>3, <1>4

LEMMA QuotientLast ==
  ASSUME NEW n, Countable(n), NEW m \in Nat \ {0},
         n >= m, (m + 1) * (m + 1) <= Two[FloatBits]
  PROVE  Quotient(n - 1, n, m) = m - 1
<1>. DEFINE A == Two[FloatBits - 1]  E == Two[Exponent(n, m)]  M == Mantissa(n, m)
<1>1. n \in Nat \ {0} /\ Nearest(A, E, M, n, m)
  BY DivisorFound DEF Countable
<1>2. Quotient(n - 1, n, m) = ((n - 1) * E) \div M
  BY DEF Quotient
<1>3. (m + 1) * (m + 1) <= 2 * A
  BY HalfOfPower
<1>. HIDE DEF A, E, M
<1>4. ((n - 1) * E) \div M = m - 1
  BY <1>1, <1>3, LastQuotient
<1>. QED BY <1>2, <1>4

-----------------------------------------------------------------------------
(* The parts of the clients (sort_index_data).                             *)

(* The client of item i.                                                   *)
ClientOf(i, n) == Quotient(i, n, ClientCount)

LEMMA ClientOfItem ==
  ASSUME NEW n, Countable(n)
  PROVE  ClientOf(0, n) = 0 /\ \A i \in 0 .. n - 1 : ClientOf(i, n) \in ClientNo
<1>1. ClientCount \in Nat \ {0} /\ n \in Nat
  BY IndexAssumption DEF Countable
<1>2. \A i \in 0 .. n - 1 : i \in Nat /\ i < n
  BY <1>1
<1>3. ClientOf(0, n) = 0
  BY <1>1, QuotientFound DEF ClientOf
<1>4. ASSUME NEW i \in 0 .. n - 1
      PROVE  ClientOf(i, n) \in ClientNo
  <2>1. Quotient(i, n, ClientCount) \in Nat /\ Quotient(i, n, ClientCount) < ClientCount
    BY <1>1, <1>2, QuotientFound
  <2>. QED BY <1>1, <2>1 DEF ClientOf, ClientNo
<1>. QED BY <1>3, <1>4

(* The loop as in Parts: its first state and its turn k.                   *)
PartTurn(n, k, prev) ==
  LET i == k - 1
      new == ClientOf(i, n)
      from == IF new = prev.old THEN prev.from ELSE [prev.from EXCEPT ![new] = i]
      thru == IF new = prev.old THEN prev.thru ELSE [prev.thru EXCEPT ![prev.old] = i - 1]
  IN  [old |-> new, from |-> from,
       thru |-> IF i = n - 1 THEN [thru EXCEPT ![new] = i] ELSE thru]

NoPart == [c \in ClientNo |-> 0]
PartStart == [old |-> 0, from |-> NoPart, thru |-> NoPart]

PartTurns(n) ==
  CHOOSE turn : turn = [k \in 0 .. n |-> IF k = 0 THEN PartStart
                                         ELSE PartTurn(n, k, turn[k - 1])]

PartState == [old : ClientNo, from : [ClientNo -> Int], thru : [ClientNo -> Int]]

LEMMA PartsTurns ==
  ASSUME NEW n
  PROVE  Parts(n) = PartTurns(n)[n]
BY DEF Parts, PartTurns, PartTurn, PartStart, NoPart, ClientOf

LEMMA PartStartType == PartStart \in PartState
<1>1. 0 \in ClientNo
  BY IndexAssumption DEF ClientNo
<1>. QED BY <1>1 DEF PartStart, NoPart, PartState

LEMMA PartTurnType ==
  ASSUME NEW n, Countable(n), NEW k \in 1 .. n, NEW x \in PartState
  PROVE  PartTurn(n, k, x) \in PartState
<1>. DEFINE i == k - 1
            new == ClientOf(i, n)
            from == IF new = x.old THEN x.from ELSE [x.from EXCEPT ![new] = i]
            thru == IF new = x.old THEN x.thru ELSE [x.thru EXCEPT ![x.old] = i - 1]
<1>1. i \in Int /\ i - 1 \in Int /\ i \in 0 .. n - 1
  BY DEF Countable
<1>2. new \in ClientNo
  <2>. HIDE DEF i
  <2>. QED BY <1>1, ClientOfItem
<1>3. x.old \in ClientNo /\ x.from \in [ClientNo -> Int] /\ x.thru \in [ClientNo -> Int]
  BY DEF PartState
<1>4. PartTurn(n, k, x) = [old |-> new, from |-> from,
                           thru |-> IF i = n - 1 THEN [thru EXCEPT ![new] = i] ELSE thru]
  BY DEF PartTurn
<1>. HIDE DEF new, i
<1>5. from \in [ClientNo -> Int] /\ thru \in [ClientNo -> Int]
  BY <1>1, <1>2, <1>3
<1>. HIDE DEF from, thru
<1>. QED BY <1>1, <1>2, <1>4, <1>5 DEF PartState

LEMMA PartStates ==
  ASSUME NEW n, Countable(n)
  PROVE  LET f == PartTurns(n) IN
         /\ f \in [0 .. n -> PartState]
         /\ f[0] = PartStart
         /\ \A k \in 1 .. n : f[k] = PartTurn(n, k, f[k - 1])
<1>. DEFINE G == [y \in (1 .. n) \X PartState |-> PartTurn(n, y[1], y[2])]
            Loop(f) == f = [k \in 0 .. n |-> IF k = 0 THEN PartStart
                                             ELSE PartTurn(n, k, f[k - 1])]
            f == PartTurns(n)
<1>1. n \in Nat
  BY DEF Countable
<1>2. G \in [(1 .. n) \X PartState -> PartState]
  BY PartTurnType
<1>3. PICK g \in [0 .. n -> PartState] : Runs(g, n, PartStart, G)
  <2>. HIDE DEF G
  <2>. QED BY <1>1, <1>2, PartStartType, LoopRuns
<1>4. \A k \in 1 .. n : g[k] = PartTurn(n, k, g[k - 1])
  <2>1. ASSUME NEW k \in 1 .. n
        PROVE  g[k - 1] \in PartState /\ <<k, g[k - 1]>> \in (1 .. n) \X PartState
    <3>1. k - 1 \in 0 .. n
      BY <1>1
    <3>. QED BY <3>1
  <2>. QED BY <1>3, <2>1 DEF Runs
<1>5. Loop(g)
  <2>1. \A k \in 0 .. n : k = 0 \/ k \in 1 .. n
    BY <1>1
  <2>. QED BY <1>3, <1>4, <2>1 DEF Runs
<1>6. Loop(f)
  BY <1>5 DEF PartTurns
<1>. HIDE DEF f
<1>7. f[0] = PartStart /\ \A k \in 1 .. n : f[k] = PartTurn(n, k, f[k - 1])
  <2>1. \A k \in 1 .. n : k \in 0 .. n /\ k # 0
    BY <1>1
  <2>2. 0 \in 0 .. n
    BY <1>1
  <2>. QED BY <1>6, <2>1, <2>2
<1>8. {k \in 0 .. n : f[k] \in PartState} = 0 .. n
  <2>. DEFINE S == {k \in 0 .. n : f[k] \in PartState}
  <2>1. 0 \in S
    BY <1>1, <1>7, PartStartType
  <2>2. \A k \in 1 .. n : k - 1 \in S => k \in S
    BY <1>1, <1>7, PartTurnType
  <2>3. S \subseteq 0 .. n
    OBVIOUS
  <2>. HIDE DEF S
  <2>4. S = 0 .. n
    BY <1>1, <2>1, <2>2, <2>3, LoopKeeps
  <2>. QED BY <2>4 DEF S
<1>9. f = [k \in 0 .. n |-> f[k]]
  BY <1>6
<1>10. \A k \in 0 .. n : f[k] \in PartState
  BY <1>8
<1>11. f \in [0 .. n -> PartState]
  BY <1>9, <1>10
<1>. QED BY <1>7, <1>11 DEF f

(* After turn k the parts are natural, and only the last one is open.      *)
PartsPlaced(n, k, x) ==
  /\ \A c \in ClientNo : /\ x.from[c] \in Nat /\ (x.from[c] = 0 \/ x.from[c] < k)
                         /\ x.thru[c] \in Nat /\ (x.thru[c] = 0 \/ x.thru[c] < k)
                         /\ c # x.old => x.from[c] <= x.thru[c]
  /\ k = n => x.thru[x.old] = n - 1
  /\ k = 0 => x.old = 0

LEMMA PartTurnPlaced ==
  ASSUME NEW n, Countable(n), NEW k \in 1 .. n, NEW x \in PartState,
         PartsPlaced(n, k - 1, x)
  PROVE  PartsPlaced(n, k, PartTurn(n, k, x))
<1>. DEFINE i == k - 1
            new == ClientOf(i, n)
            from == IF new = x.old THEN x.from ELSE [x.from EXCEPT ![new] = i]
            thru == IF new = x.old THEN x.thru ELSE [x.thru EXCEPT ![x.old] = i - 1]
            last == IF i = n - 1 THEN [thru EXCEPT ![new] = i] ELSE thru
            y == PartTurn(n, k, x)
<1>1. /\ n \in Nat /\ i \in 0 .. n - 1 /\ i \in Nat /\ k = i + 1
      /\ (k = n <=> i = n - 1) /\ k # 0
  BY DEF Countable
<1>2. new \in ClientNo
  <2>. HIDE DEF i
  <2>. QED BY <1>1, ClientOfItem
<1>3. x.old \in ClientNo /\ x.from \in [ClientNo -> Int] /\ x.thru \in [ClientNo -> Int]
  BY DEF PartState
<1>4. i = 0 => new = x.old
  BY ClientOfItem DEF PartsPlaced
<1>5. y.old = new /\ y.from = from /\ y.thru = last
  BY DEF PartTurn
<1>6. PartsPlaced(n, i, x)
  OBVIOUS
<1>. HIDE DEF i, new
<1>7. /\ from \in [ClientNo -> Int]
      /\ \A c \in ClientNo : from[c] = IF c = new /\ new # x.old THEN i ELSE x.from[c]
  BY <1>1, <1>2, <1>3
<1>8. /\ thru \in [ClientNo -> Int]
      /\ \A c \in ClientNo : thru[c] = IF c = x.old /\ new # x.old THEN i - 1 ELSE x.thru[c]
  BY <1>1, <1>2, <1>3
<1>. HIDE DEF from, thru, y
<1>9. /\ last \in [ClientNo -> Int]
      /\ \A c \in ClientNo : last[c] = IF c = new /\ i = n - 1 THEN i ELSE thru[c]
  BY <1>1, <1>2, <1>8
<1>. HIDE DEF last
<1>10. ASSUME NEW c \in ClientNo
       PROVE  y.from[c] \in Nat /\ (y.from[c] = 0 \/ y.from[c] < k)
  BY <1>1, <1>5, <1>6, <1>7 DEF PartsPlaced
<1>11. ASSUME NEW c \in ClientNo
       PROVE  y.thru[c] \in Nat /\ (y.thru[c] = 0 \/ y.thru[c] < k)
  <2>1. thru[c] \in Nat /\ (thru[c] = 0 \/ thru[c] < k)
    BY <1>1, <1>4, <1>6, <1>8 DEF PartsPlaced
  <2>. QED BY <1>1, <1>5, <1>9, <2>1
<1>12. ASSUME NEW c \in ClientNo, c # y.old
       PROVE  y.from[c] <= y.thru[c]
  <2>1. y.thru[c] = thru[c] /\ y.from[c] = x.from[c] /\ c # new
    BY <1>5, <1>7, <1>9, <1>12
  <2>2. CASE c = x.old
    <3>1. thru[c] = i - 1 /\ i # 0
      BY <1>4, <1>8, <2>1, <2>2
    <3>2. x.from[c] \in Nat /\ (x.from[c] = 0 \/ x.from[c] < i)
      BY <1>6 DEF PartsPlaced
    <3>. QED BY <1>1, <2>1, <3>1, <3>2
  <2>3. CASE c # x.old
    BY <1>6, <1>8, <2>1, <2>3 DEF PartsPlaced
  <2>. QED BY <2>2, <2>3
<1>13. k = n => y.thru[y.old] = n - 1
  BY <1>1, <1>2, <1>5, <1>9
<1>14. PartsPlaced(n, k, y)
  BY <1>1, <1>10, <1>11, <1>12, <1>13 DEF PartsPlaced
<1>. QED BY <1>14 DEF y

LEMMA PartsNatural ==
  ASSUME NEW n, Countable(n)
  PROVE  /\ Parts(n) \in PartState
         /\ \A c \in ClientNo : /\ Parts(n).from[c] \in Nat /\ Parts(n).thru[c] \in Nat
                                /\ Parts(n).from[c] <= Parts(n).thru[c]
                                /\ Parts(n).thru[c] < n
<1>. DEFINE f == PartTurns(n)
            S == {k \in 0 .. n : PartsPlaced(n, k, f[k])}
<1>1. n \in Nat \ {0}
  BY DEF Countable
<1>2. /\ f \in [0 .. n -> PartState] /\ f[0] = PartStart
      /\ \A k \in 1 .. n : f[k] = PartTurn(n, k, f[k - 1])
  BY PartStates
<1>. HIDE DEF f
<1>3. 0 \in S
  <2>1. PartsPlaced(n, 0, PartStart)
    BY <1>1 DEF PartsPlaced, PartStart, NoPart
  <2>. QED BY <1>1, <1>2, <2>1
<1>4. ASSUME NEW k \in 1 .. n, k - 1 \in S
      PROVE  k \in S
  <2>1. k - 1 \in 0 .. n /\ k \in 0 .. n
    BY <1>1
  <2>2. f[k - 1] \in PartState
    BY <1>2, <2>1
  <2>3. PartsPlaced(n, k, PartTurn(n, k, f[k - 1]))
    BY <1>4, <2>2, PartTurnPlaced
  <2>. QED BY <1>2, <2>1, <2>3
<1>5. S \subseteq 0 .. n
  OBVIOUS
<1>6. PartsPlaced(n, n, f[n])
  <2>. HIDE DEF S
  <2>1. S = 0 .. n
    BY <1>1, <1>3, <1>4, <1>5, LoopKeeps
  <2>2. n \in S
    BY <1>1, <2>1
  <2>. QED BY <2>2 DEF S
<1>7. Parts(n) = f[n]
  BY PartsTurns DEF f
<1>8. Parts(n) \in PartState /\ PartsPlaced(n, n, Parts(n))
  <2>1. n \in 0 .. n
    BY <1>1
  <2>. QED BY <1>2, <1>6, <1>7, <2>1
<1>. DEFINE p == Parts(n)
<1>9. p \in PartState /\ PartsPlaced(n, n, p)
  BY <1>8
<1>. HIDE DEF p
<1>10. ASSUME NEW c \in ClientNo
       PROVE  p.from[c] \in Nat /\ p.thru[c] \in Nat /\ p.from[c] <= p.thru[c] /\ p.thru[c] < n
  <2>1. /\ p.from[c] \in Nat /\ p.thru[c] \in Nat /\ (p.from[c] = 0 \/ p.from[c] < n)
        /\ (p.thru[c] = 0 \/ p.thru[c] < n)
    BY <1>9 DEF PartsPlaced
  <2>2. p.from[c] <= p.thru[c]
    <3>1. CASE c = p.old
      BY <1>1, <1>9, <2>1, <3>1 DEF PartsPlaced
    <3>2. CASE c # p.old
      BY <1>9, <3>2 DEF PartsPlaced
    <3>. QED BY <3>1, <3>2
  <2>. QED BY <1>1, <2>1, <2>2
<1>. QED BY <1>9, <1>10 DEF p

(* After turn k the parts hold the items before k, when there are as many  *)
(* items as clients.                                                       *)
PartsRight(n, k, x) ==
  k > 0 =>
    /\ x.old = ClientOf(k - 1, n)
    /\ \A i \in 0 .. k - 1 : ClientOf(i, n) <= x.old
    /\ \A c \in ClientNo : \A i \in 0 .. k - 1 :
         /\ c < x.old => (ClientOf(i, n) = c <=> x.from[c] <= i /\ i <= x.thru[c])
         /\ c = x.old => (ClientOf(i, n) = c <=> x.from[c] <= i)

LEMMA PartTurnRight ==
  ASSUME NEW n, Countable(n), n >= ClientCount, NEW k \in 1 .. n, NEW x \in PartState,
         PartsPlaced(n, k - 1, x), PartsRight(n, k - 1, x)
  PROVE  PartsRight(n, k, PartTurn(n, k, x))
<1>. DEFINE i == k - 1
            new == ClientOf(i, n)
            from == IF new = x.old THEN x.from ELSE [x.from EXCEPT ![new] = i]
            thru == IF new = x.old THEN x.thru ELSE [x.thru EXCEPT ![x.old] = i - 1]
            last == IF i = n - 1 THEN [thru EXCEPT ![new] = i] ELSE thru
            y == PartTurn(n, k, x)
<1>1. n \in Nat /\ i \in 0 .. n - 1 /\ i \in Nat /\ k = i + 1
  BY DEF Countable
<1>2. \A j \in 0 .. n - 1 : ClientOf(j, n) \in ClientNo
  BY ClientOfItem
<1>3. x.old \in ClientNo /\ x.from \in [ClientNo -> Int] /\ x.thru \in [ClientNo -> Int]
  BY DEF PartState
<1>4. ClientNo \subseteq Int
  BY IndexAssumption DEF ClientNo
<1>5. y.old = new /\ y.from = from /\ y.thru = last
  BY DEF PartTurn
<1>6. PartsPlaced(n, i, x) /\ PartsRight(n, i, x)
  OBVIOUS
<1>7. new = ClientOf(i, n) /\ (i = 0 => new = 0)
  BY ClientOfItem
<1>8. i > 0 => ClientOf(i - 1, n) <= new /\ new <= ClientOf(i - 1, n) + 1
  <2>1. SUFFICES ASSUME i > 0
                 PROVE  ClientOf(i - 1, n) <= new /\ new <= ClientOf(i - 1, n) + 1
    OBVIOUS
  <2>2. i - 1 \in Nat /\ (i - 1) + 1 = i
    BY <1>1, <2>1
  <2>3. ClientCount \in Nat \ {0}
    BY IndexAssumption
  <2>. HIDE DEF i
  <2>. QED BY <2>2, <2>3, QuotientFound DEF ClientOf
<1>. HIDE DEF i, new
<1>9. new \in ClientNo
  BY <1>1, <1>2, <1>7
<1>10. /\ from \in [ClientNo -> Int]
       /\ \A c \in ClientNo : from[c] = IF c = new /\ new # x.old THEN i ELSE x.from[c]
  BY <1>1, <1>3, <1>9
<1>11. /\ thru \in [ClientNo -> Int]
       /\ \A c \in ClientNo : thru[c] = IF c = x.old /\ new # x.old THEN i - 1 ELSE x.thru[c]
  BY <1>1, <1>3, <1>9
<1>. HIDE DEF from, thru, y
<1>12. \A c \in ClientNo : c # new => last[c] = thru[c]
  BY <1>1, <1>9, <1>11
<1>. HIDE DEF last
<1>13. ASSUME i = 0 PROVE PartsRight(n, k, y)
  <2>1. y.from[0] = 0 /\ y.old = 0 /\ \A j \in 0 .. k - 1 : j = 0
    <3>1. 0 \in ClientNo /\ x.old = 0 /\ x.from[0] = 0
      BY <1>6, <1>7, <1>9, <1>13 DEF PartsPlaced
    <3>. QED BY <1>1, <1>5, <1>7, <1>10, <1>13, <3>1
  <2>2. ClientOf(0, n) = 0 /\ k - 1 = 0
    BY <1>1, <1>7, <1>13
  <2>3. \A c \in ClientNo : ~(c < 0)
    BY IndexAssumption DEF ClientNo
  <2>. QED BY <1>4, <1>5, <2>1, <2>2, <2>3 DEF PartsRight
<1>14. ASSUME i > 0 PROVE PartsRight(n, k, y)
  <2>1. /\ x.old = ClientOf(i - 1, n)
        /\ \A j \in 0 .. i - 1 : ClientOf(j, n) <= x.old
        /\ \A c \in ClientNo : \A j \in 0 .. i - 1 :
             /\ c < x.old => (ClientOf(j, n) = c <=> x.from[c] <= j /\ j <= x.thru[c])
             /\ c = x.old => (ClientOf(j, n) = c <=> x.from[c] <= j)
    BY <1>6, <1>14 DEF PartsRight
  <2>2. \A j \in 0 .. k - 1 : /\ j \in Int /\ ClientOf(j, n) \in ClientNo
                              /\ j = i \/ (j \in 0 .. i - 1 /\ j < i)
    BY <1>1, <1>2
  <2>3. x.old \in Int /\ new \in Int /\ x.old <= new /\ (new = x.old \/ new = x.old + 1)
    <3>1. x.old \in Int /\ new \in Int /\ x.old <= new /\ new <= x.old + 1
      BY <1>3, <1>4, <1>8, <1>9, <1>14, <2>1
    <3>. QED BY <3>1
  <2>4. y.old = ClientOf(k - 1, n)
    BY <1>1, <1>5, <1>7
  <2>5. ASSUME NEW j \in 0 .. k - 1
        PROVE  ClientOf(j, n) <= y.old
    <3>1. CASE j = i
      BY <1>4, <1>5, <1>7, <1>9, <3>1
    <3>2. CASE j # i
      <4>1. ClientOf(j, n) <= x.old /\ ClientOf(j, n) \in Int /\ x.old \in Int /\ x.old <= new
        <5>1. j \in 0 .. i - 1 /\ ClientOf(j, n) \in Int
          BY <1>4, <2>2, <3>2
        <5>. QED BY <2>1, <2>3, <5>1
      <4>. QED BY <1>5, <2>3, <4>1
    <3>. QED BY <3>1, <3>2
  <2>6. ASSUME NEW c \in ClientNo, NEW j \in 0 .. k - 1, c < y.old
        PROVE  ClientOf(j, n) = c <=> y.from[c] <= j /\ j <= y.thru[c]
    <3>1. c \in Int /\ x.old \in Int /\ new \in Int /\ c < new
      BY <1>3, <1>4, <1>5, <1>9, <2>6
    <3>2. y.from[c] = x.from[c] /\ y.thru[c] = thru[c]
      BY <1>5, <1>10, <1>12, <3>1
    <3>3. /\ x.from[c] \in Nat /\ x.thru[c] \in Nat /\ x.thru[c] < i /\ x.from[c] < i
      BY <1>1, <1>6, <1>14 DEF PartsPlaced
    <3>4. CASE c < x.old
      <4>1. thru[c] = x.thru[c]
        BY <1>11, <3>1, <3>4
      <4>2. CASE j = i
        <5>1. ClientOf(j, n) # c
          BY <1>7, <3>1, <4>2
        <5>. QED BY <1>1, <3>2, <3>3, <4>1, <4>2, <5>1
      <4>3. CASE j # i
        BY <2>1, <2>2, <3>2, <3>4, <4>1, <4>3
      <4>. QED BY <4>2, <4>3
    <3>5. CASE ~(c < x.old)
      <4>1. c = x.old /\ new # x.old
        BY <2>3, <3>1, <3>5
      <4>2. thru[c] = i - 1
        BY <1>11, <4>1
      <4>3. CASE j = i
        <5>1. ClientOf(j, n) # c
          BY <1>7, <3>1, <4>3
        <5>. QED BY <1>1, <3>2, <3>3, <4>2, <4>3, <5>1
      <4>4. CASE j # i
        <5>1. j \in 0 .. i - 1 /\ j \in Int /\ j < i
          BY <2>2, <4>4
        <5>2. ClientOf(j, n) = c <=> x.from[c] <= j
          BY <2>1, <4>1, <5>1
        <5>. QED BY <1>1, <3>2, <3>3, <4>2, <5>1, <5>2
      <4>. QED BY <4>3, <4>4
    <3>. QED BY <3>4, <3>5
  <2>7. ASSUME NEW c \in ClientNo, NEW j \in 0 .. k - 1, c = y.old
        PROVE  ClientOf(j, n) = c <=> y.from[c] <= j
    <3>1. c = new /\ x.old \in Int /\ new \in Int /\ y.from[c] = from[c]
      BY <1>3, <1>4, <1>5, <1>9, <2>7
    <3>2. x.from[c] \in Nat /\ x.from[c] < i
      BY <1>1, <1>6, <1>14 DEF PartsPlaced
    <3>3. CASE new = x.old
      <4>1. from[c] = x.from[c]
        BY <1>10, <3>3
      <4>2. CASE j = i
        BY <1>1, <1>7, <3>1, <3>2, <4>1, <4>2
      <4>3. CASE j # i
        BY <2>1, <2>2, <3>1, <3>3, <4>1, <4>3
      <4>. QED BY <4>2, <4>3
    <3>4. CASE new # x.old
      <4>1. from[c] = i /\ new = x.old + 1
        BY <1>10, <2>3, <3>1, <3>4
      <4>2. CASE j = i
        <5>1. ClientOf(j, n) = c /\ y.from[c] = j
          BY <1>7, <3>1, <4>1, <4>2
        <5>. QED BY <1>1, <4>2, <5>1
      <4>3. CASE j # i
        <5>1. j \in 0 .. i - 1 /\ j \in Int /\ j < i /\ ClientOf(j, n) \in Int
          BY <1>4, <2>2, <4>3
        <5>2. ClientOf(j, n) <= x.old
          BY <2>1, <5>1
        <5>3. ClientOf(j, n) # c
          BY <3>1, <4>1, <5>1, <5>2
        <5>. QED BY <1>1, <3>1, <4>1, <5>1, <5>3
      <4>. QED BY <4>2, <4>3
    <3>. QED BY <3>3, <3>4
  <2>. QED BY <2>4, <2>5, <2>6, <2>7 DEF PartsRight
<1>15. PartsRight(n, k, y)
  BY <1>1, <1>13, <1>14
<1>. QED BY <1>15 DEF y

(* The parts hold what they should, and meet.                              *)
LEMMA PartsFound ==
  ASSUME NEW n, Countable(n), n >= ClientCount, NEW c \in ClientNo, NEW i \in 0 .. n - 1
  PROVE  ClientOf(i, n) = c <=> Parts(n).from[c] <= i /\ i <= Parts(n).thru[c]
<1>. DEFINE f == PartTurns(n)
            Good(k) == PartsPlaced(n, k, f[k]) /\ PartsRight(n, k, f[k])
            S == {k \in 0 .. n : Good(k)}
<1>1. n \in Nat \ {0}
  BY DEF Countable
<1>2. /\ f \in [0 .. n -> PartState] /\ f[0] = PartStart
      /\ \A k \in 1 .. n : f[k] = PartTurn(n, k, f[k - 1])
  BY PartStates
<1>. HIDE DEF f
<1>3. Good(0)
  BY <1>1, <1>2 DEF PartsPlaced, PartsRight, PartStart, NoPart
<1>4. ASSUME NEW k \in 1 .. n, Good(k - 1)
      PROVE  Good(k)
  <2>1. k - 1 \in 0 .. n
    BY <1>1
  <2>2. f[k - 1] \in PartState
    BY <1>2, <2>1
  <2>3. /\ PartsPlaced(n, k, PartTurn(n, k, f[k - 1]))
        /\ PartsRight(n, k, PartTurn(n, k, f[k - 1]))
    BY <1>4, <2>2, PartTurnPlaced, PartTurnRight
  <2>. QED BY <1>2, <2>3
<1>. HIDE DEF Good
<1>5. S = 0 .. n
  <2>1. /\ S \subseteq 0 .. n /\ 0 \in S
        /\ \A k \in 1 .. n : k - 1 \in S => k \in S
    BY <1>1, <1>3, <1>4
  <2>. HIDE DEF S
  <2>. QED BY <1>1, <2>1, LoopKeeps
<1>6. Good(n)
  BY <1>1, <1>5
<1>. DEFINE p == Parts(n)
<1>7. p \in PartState /\ PartsPlaced(n, n, p) /\ PartsRight(n, n, p)
  <2>1. n \in 0 .. n
    BY <1>1
  <2>. QED BY <1>2, <1>6, <2>1, PartsTurns DEF f, Good
<1>. HIDE DEF p
<1>8. /\ p.old = ClientOf(n - 1, n) /\ p.thru[p.old] = n - 1
      /\ c < p.old => (ClientOf(i, n) = c <=> p.from[c] <= i /\ i <= p.thru[c])
      /\ c = p.old => (ClientOf(i, n) = c <=> p.from[c] <= i)
  BY <1>1, <1>7 DEF PartsPlaced, PartsRight
<1>9. ClientOf(n - 1, n) = ClientCount - 1
  <2>1. ClientCount \in Nat \ {0} /\ (ClientCount + 1) * (ClientCount + 1) <= Two[FloatBits]
    BY IndexAssumption, FlowAssumption
  <2>. QED BY <2>1, QuotientLast DEF ClientOf
<1>10. c \in Int /\ (c < p.old \/ c = p.old)
  BY <1>8, <1>9, IndexAssumption DEF ClientNo
<1>11. c = p.old => i <= p.thru[c]
  BY <1>1, <1>8
<1>12. ClientOf(i, n) = c <=> p.from[c] <= i /\ i <= p.thru[c]
  BY <1>8, <1>10, <1>11
<1>. QED BY <1>12 DEF p

(* With fewer items than clients the divisor is below 1, and no two items  *)
(* have the same quotient.                                                 *)
LEMMA QuotientsApart ==
  ASSUME NEW n, Countable(n), NEW m \in Nat \ {0}, n < m, NEW i \in Nat
  PROVE  Quotient(i, n, m) < Quotient(i + 1, n, m)
<1>. DEFINE A == Two[FloatBits - 1]  E == Two[Exponent(n, m)]  M == Mantissa(n, m)
            q == (i * E) \div M
            r == ((i + 1) * E) \div M
<1>1. n \in Nat \ {0} /\ Nearest(A, E, M, n, m)
  BY DivisorFound DEF Countable
<1>2. Quotient(i, n, m) = q /\ Quotient(i + 1, n, m) = r
  BY DEF Quotient
<1>. HIDE DEF A, E, M
<1>3. E \in Nat \ {0} /\ M \in Nat \ {0} /\ 2 * (M * m) <= 2 * (n * E) + m
  BY <1>1 DEF Nearest
<1>4. m < 2 * E
  BY <1>1, EnoughBits
<1>5. M < E
  <2>1. n * E <= (m - 1) * E
    BY <1>1, <1>3, Times
  <2>2. (m - 1) * E = E * m - E /\ n * E \in Int /\ E * m \in Int /\ M * m \in Int
    BY <1>1, <1>3
  <2>3. M * m < E * m
    BY <1>3, <1>4, <2>1, <2>2
  <2>. QED BY <1>3, <2>3, Cancels
<1>6. i * E \in Nat /\ (i + 1) * E \in Nat /\ (i + 1) * E = i * E + E
  BY <1>3
<1>7. /\ q \in Nat /\ M * q <= i * E
      /\ r \in Nat /\ (i + 1) * E < M * r + M
  BY <1>3, <1>6, Quotients
<1>. HIDE DEF q, r
<1>8. (q + 1) * M < (r + 1) * M
  <2>1. (q + 1) * M = M * q + M /\ (r + 1) * M = M * r + M /\ M * q \in Int /\ M * r \in Int
    BY <1>3, <1>7
  <2>. QED BY <1>3, <1>5, <1>6, <1>7, <2>1
<1>9. q + 1 < r + 1
  BY <1>3, <1>7, <1>8, Cancels
<1>. QED BY <1>2, <1>7, <1>9

(* After turn k, with fewer items than clients: each of the k items is a   *)
(* part of its own, and the other parts are as they were.                  *)
PartsFew(n, k, x) ==
  IF k = 0 THEN x = PartStart
  ELSE /\ x.old = ClientOf(k - 1, n)
       /\ \A i \in 0 .. k - 1 : ClientOf(i, n) <= x.old /\ x.from[ClientOf(i, n)] = i
       /\ \A c \in ClientNo :
            /\ x.from[c] = 0 \/ \E i \in 0 .. k - 1 : x.from[c] = i /\ c = ClientOf(i, n)
            /\ c # x.old => x.thru[c] = x.from[c]

LEMMA PartTurnFew ==
  ASSUME NEW n, Countable(n), n < ClientCount, NEW k \in 1 .. n, NEW x \in PartState,
         PartsFew(n, k - 1, x)
  PROVE  PartsFew(n, k, PartTurn(n, k, x))
<1>. DEFINE i == k - 1
            new == ClientOf(i, n)
            from == IF new = x.old THEN x.from ELSE [x.from EXCEPT ![new] = i]
            thru == IF new = x.old THEN x.thru ELSE [x.thru EXCEPT ![x.old] = i - 1]
            last == IF i = n - 1 THEN [thru EXCEPT ![new] = i] ELSE thru
            y == PartTurn(n, k, x)
<1>1. n \in Nat /\ i \in 0 .. n - 1 /\ i \in Nat /\ k = i + 1 /\ k # 0
  BY DEF Countable
<1>2. \A j \in 0 .. n - 1 : ClientOf(j, n) \in ClientNo
  BY ClientOfItem
<1>3. x.old \in ClientNo /\ x.from \in [ClientNo -> Int] /\ x.thru \in [ClientNo -> Int]
  BY DEF PartState
<1>4. ClientNo \subseteq Int /\ 0 \in ClientNo
  BY IndexAssumption DEF ClientNo
<1>5. y.old = new /\ y.from = from /\ y.thru = last
  BY DEF PartTurn
<1>6. PartsFew(n, i, x)
  OBVIOUS
<1>7. new = ClientOf(i, n) /\ (i = 0 => new = 0)
  BY ClientOfItem
<1>8. i > 0 => ClientOf(i - 1, n) < new
  <2>1. SUFFICES ASSUME i > 0
                 PROVE  ClientOf(i - 1, n) < new
    OBVIOUS
  <2>2. i - 1 \in Nat /\ (i - 1) + 1 = i
    BY <1>1, <2>1
  <2>3. ClientCount \in Nat \ {0}
    BY IndexAssumption
  <2>. HIDE DEF i
  <2>. QED BY <2>2, <2>3, QuotientsApart DEF ClientOf
<1>. HIDE DEF i, new
<1>9. new \in ClientNo
  BY <1>1, <1>2, <1>7
<1>10. /\ from \in [ClientNo -> Int]
       /\ \A c \in ClientNo : from[c] = IF c = new /\ new # x.old THEN i ELSE x.from[c]
  BY <1>1, <1>3, <1>9
<1>11. /\ thru \in [ClientNo -> Int]
       /\ \A c \in ClientNo : thru[c] = IF c = x.old /\ new # x.old THEN i - 1 ELSE x.thru[c]
  BY <1>1, <1>3, <1>9
<1>. HIDE DEF from, thru, y
<1>12. \A c \in ClientNo : c # new => last[c] = thru[c]
  BY <1>1, <1>9, <1>11
<1>. HIDE DEF last
<1>13. y.old = ClientOf(k - 1, n)
  BY <1>1, <1>5, <1>7
<1>14. ASSUME i = 0 PROVE PartsFew(n, k, y)
  <2>1. x.old = 0 /\ new = 0 /\ \A c \in ClientNo : x.from[c] = 0 /\ x.thru[c] = 0
    BY <1>6, <1>7, <1>14 DEF PartsFew, PartStart, NoPart
  <2>2. \A c \in ClientNo : y.from[c] = 0 /\ (c # y.old => y.thru[c] = 0)
    BY <1>5, <1>10, <1>11, <1>12, <2>1
  <2>3. \A j \in 0 .. k - 1 : j = 0
    BY <1>1, <1>14
  <2>4. ClientOf(0, n) = 0 /\ y.old = 0
    BY <1>5, <1>7, <1>14, <2>1
  <2>5. \A j \in 0 .. k - 1 : ClientOf(j, n) <= y.old /\ y.from[ClientOf(j, n)] = j
    BY <1>4, <2>2, <2>3, <2>4
  <2>. QED BY <1>1, <1>13, <2>2, <2>5 DEF PartsFew
<1>15. ASSUME i # 0 PROVE PartsFew(n, k, y)
  <2>1. /\ x.old = ClientOf(i - 1, n)
        /\ \A j \in 0 .. i - 1 : ClientOf(j, n) <= x.old /\ x.from[ClientOf(j, n)] = j
        /\ \A c \in ClientNo :
             /\ x.from[c] = 0 \/ \E j \in 0 .. i - 1 : x.from[c] = j /\ c = ClientOf(j, n)
             /\ c # x.old => x.thru[c] = x.from[c]
    BY <1>6, <1>15 DEF PartsFew
  <2>2. x.old \in Int /\ new \in Int /\ x.old < new
    <3>1. x.old \in Int /\ new \in Int
      BY <1>3, <1>4, <1>9
    <3>2. i > 0
      BY <1>1, <1>15
    <3>. QED BY <1>8, <2>1, <3>1, <3>2
  <2>3. \A j \in 0 .. k - 1 : /\ j = i \/ j \in 0 .. i - 1
                              /\ ClientOf(j, n) \in ClientNo
    BY <1>1, <1>2
  <2>4. \A c \in ClientNo : y.from[c] = IF c = new THEN i ELSE x.from[c]
    BY <1>5, <1>10, <2>2
  <2>5. ASSUME NEW j \in 0 .. k - 1
        PROVE  ClientOf(j, n) <= y.old /\ y.from[ClientOf(j, n)] = j
    <3>1. CASE j = i
      BY <1>4, <1>5, <1>7, <1>9, <2>4, <3>1
    <3>2. CASE j # i
      <4>1. ClientOf(j, n) \in ClientNo /\ ClientOf(j, n) <= x.old /\ x.from[ClientOf(j, n)] = j
        BY <2>1, <2>3, <3>2
      <4>2. ClientOf(j, n) \in Int
        BY <1>4, <4>1
      <4>3. ClientOf(j, n) < new
        BY <2>2, <4>1, <4>2
      <4>. QED BY <1>5, <2>4, <4>1, <4>2, <4>3, <2>2
    <3>. QED BY <3>1, <3>2
  <2>6. ASSUME NEW c \in ClientNo
        PROVE  y.from[c] = 0 \/ \E j \in 0 .. k - 1 : y.from[c] = j /\ c = ClientOf(j, n)
    <3>1. CASE c = new
      <4>1. i \in 0 .. k - 1
        BY <1>1
      <4>. QED BY <1>7, <2>4, <3>1, <4>1
    <3>2. CASE c # new
      <4>1. 0 .. i - 1 \subseteq 0 .. k - 1
        BY <1>1
      <4>. QED BY <2>1, <2>4, <3>2, <4>1
    <3>. QED BY <3>1, <3>2
  <2>7. ASSUME NEW c \in ClientNo, c # y.old
        PROVE  y.thru[c] = y.from[c]
    <3>1. y.thru[c] = thru[c] /\ y.from[c] = x.from[c] /\ c # new
      BY <1>5, <1>12, <2>4, <2>7
    <3>2. CASE c = x.old
      <4>1. thru[c] = i - 1
        BY <1>11, <2>2, <3>2
      <4>2. i - 1 \in 0 .. i - 1
        BY <1>1, <1>15
      <4>3. x.from[c] = i - 1
        BY <2>1, <3>2, <4>2
      <4>. QED BY <3>1, <4>1, <4>3
    <3>3. CASE c # x.old
      BY <1>11, <2>1, <3>1, <3>3
    <3>. QED BY <3>2, <3>3
  <2>. QED BY <1>1, <1>13, <2>5, <2>6, <2>7 DEF PartsFew
<1>16. PartsFew(n, k, y)
  BY <1>14, <1>15
<1>. QED BY <1>16 DEF y

(* Fewer items than clients: a part for every item, and item 0 for all     *)
(* others.                                                                 *)
LEMMA FewFound ==
  ASSUME NEW n, Countable(n), n < ClientCount
  PROVE  LET from == Parts(n).from
             thru == Parts(n).thru
         IN
         /\ \A c \in ClientNo : /\ thru[c] = from[c]
                                /\ from[c] = 0 \/ c = ClientOf(from[c], n)
         /\ \A i \in 0 .. n - 1 : from[ClientOf(i, n)] = i
<1>. DEFINE f == PartTurns(n)
            Good(k) == PartsPlaced(n, k, f[k]) /\ PartsFew(n, k, f[k])
            S == {k \in 0 .. n : Good(k)}
<1>1. n \in Nat \ {0}
  BY DEF Countable
<1>2. /\ f \in [0 .. n -> PartState] /\ f[0] = PartStart
      /\ \A k \in 1 .. n : f[k] = PartTurn(n, k, f[k - 1])
  BY PartStates
<1>. HIDE DEF f
<1>3. Good(0)
  BY <1>1, <1>2 DEF PartsPlaced, PartsFew, PartStart, NoPart
<1>4. ASSUME NEW k \in 1 .. n, Good(k - 1)
      PROVE  Good(k)
  <2>1. k - 1 \in 0 .. n
    BY <1>1
  <2>2. f[k - 1] \in PartState
    BY <1>2, <2>1
  <2>3. /\ PartsPlaced(n, k, PartTurn(n, k, f[k - 1]))
        /\ PartsFew(n, k, PartTurn(n, k, f[k - 1]))
    BY <1>4, <2>2, PartTurnPlaced, PartTurnFew
  <2>. QED BY <1>2, <2>3
<1>. HIDE DEF Good
<1>5. S = 0 .. n
  <2>1. /\ S \subseteq 0 .. n /\ 0 \in S
        /\ \A k \in 1 .. n : k - 1 \in S => k \in S
    BY <1>1, <1>3, <1>4
  <2>. HIDE DEF S
  <2>. QED BY <1>1, <2>1, LoopKeeps
<1>6. Good(n)
  BY <1>1, <1>5
<1>. DEFINE p == Parts(n)
<1>7. p \in PartState /\ PartsPlaced(n, n, p) /\ PartsFew(n, n, p)
  <2>1. n \in 0 .. n
    BY <1>1
  <2>. QED BY <1>2, <1>6, <2>1, PartsTurns DEF f, Good
<1>. HIDE DEF p
<1>8. /\ p.old = ClientOf(n - 1, n) /\ p.thru[p.old] = n - 1
      /\ \A i \in 0 .. n - 1 : p.from[ClientOf(i, n)] = i
      /\ \A c \in ClientNo :
           /\ p.from[c] = 0 \/ \E i \in 0 .. n - 1 : p.from[c] = i /\ c = ClientOf(i, n)
           /\ c # p.old => p.thru[c] = p.from[c]
  BY <1>1, <1>7 DEF PartsPlaced, PartsFew
<1>9. p.from[p.old] = n - 1
  <2>1. n - 1 \in 0 .. n - 1
    BY <1>1
  <2>. QED BY <1>8, <2>1
<1>10. \A c \in ClientNo : p.thru[c] = p.from[c] /\ (p.from[c] = 0 \/ c = ClientOf(p.from[c], n))
  BY <1>8, <1>9
<1>. QED BY <1>8, <1>10 DEF p

LEMMA SectionFound ==
  ASSUME NEW n, Countable(n), n >= ClientCount, NEW c \in ClientNo,
         NEW f \in Nat, NEW t \in Nat, f <= t, t < n,
         \A i \in 0 .. n - 1 : ClientOf(i, n) = c <=> f <= i /\ i <= t
  PROVE  Section(Two[Exponent(n, ClientCount)], Mantissa(n, ClientCount),
                 n, ClientCount, c, f, t + 1)
<1>. DEFINE m == ClientCount
            A == Two[FloatBits - 1]
            E == Two[Exponent(n, m)]
            M == Mantissa(n, m)
<1>1. n \in Nat \ {0} /\ m \in Nat \ {0} /\ c \in 0 .. m - 1 /\ c \in Nat
  BY IndexAssumption DEF Countable, ClientNo
<1>2. Nearest(A, E, M, n, m)
  BY <1>1, DivisorFound DEF Countable
<1>3. ClientOf(n - 1, n) = m - 1
  BY <1>1, FlowAssumption, QuotientLast DEF ClientOf
<1>4. \A i \in Nat : /\ ClientOf(i, n) = (i * E) \div M
                     /\ ClientOf(i, n) \in Nat /\ ClientOf(i + 1, n) \in Nat
                     /\ ClientOf(i, n) <= ClientOf(i + 1, n)
  <2>1. \A i \in Nat : i + 1 \in Nat
    OBVIOUS
  <2>2. \A i \in Nat : ClientOf(i, n) = (i * E) \div M
    BY DEF ClientOf, Quotient
  <2>3. \A i \in Nat : ClientOf(i, n) \in Nat /\ ClientOf(i, n) <= ClientOf(i + 1, n)
    BY <1>1, QuotientFound DEF ClientOf
  <2>. QED BY <2>1, <2>2, <2>3
<1>5. E \in Nat \ {0} /\ M \in Nat \ {0}
  BY <1>2 DEF Nearest
<1>. HIDE DEF m, A, E, M
<1>6. f \in 0 .. n - 1 /\ t \in 0 .. n - 1 /\ n - 1 \in 0 .. n - 1
  BY <1>1
<1>7. ASSUME NEW i \in Nat
      PROVE  /\ M * ClientOf(i, n) <= i * E
             /\ i * E < M * ClientOf(i, n) + M
             /\ i * E \in Nat
  <2>1. i * E \in Nat
    BY <1>5
  <2>2. M * ((i * E) \div M) <= i * E /\ i * E < M * ((i * E) \div M) + M
    BY <1>5, <2>1, Quotients
  <2>. QED BY <1>4, <2>1, <2>2
<1>8. M * c \in Int
  BY <1>1, <1>5
<1>9. M * c <= f * E
  <2>1. ClientOf(f, n) = c
    BY <1>6
  <2>. QED BY <1>7, <2>1
<1>10. f * E < M * c + E
  <2>1. CASE f = 0
    <3>1. f * E = 0 /\ M * c >= 0
      BY <1>1, <1>5, <2>1
    <3>. QED BY <1>5, <1>8, <3>1
  <2>2. CASE f # 0
    <3>. DEFINE i == f - 1
    <3>1. i \in Nat /\ i + 1 = f /\ i \in 0 .. n - 1 /\ ~(f <= i)
      BY <1>1, <2>2
    <3>2. f * E = i * E + E
      BY <1>5
    <3>. HIDE DEF i
    <3>3. ClientOf(i, n) # c /\ ClientOf(f, n) = c /\ ClientOf(i, n) \in Nat
          /\ ClientOf(i, n) <= ClientOf(f, n)
      BY <1>4, <1>6, <3>1
    <3>4. ClientOf(i, n) + 1 <= c
      BY <1>1, <3>3
    <3>5. (ClientOf(i, n) + 1) * M <= c * M
      BY <1>1, <1>5, <3>3, <3>4, Times
    <3>6. (ClientOf(i, n) + 1) * M = M * ClientOf(i, n) + M /\ c * M = M * c
          /\ M * ClientOf(i, n) \in Int
      BY <1>1, <1>5, <3>3
    <3>7. i * E < M * ClientOf(i, n) + M /\ i * E \in Nat
      BY <1>7, <3>1
    <3>. QED BY <1>5, <1>8, <3>2, <3>5, <3>6, <3>7
  <2>. QED BY <2>1, <2>2
<1>11. c = m - 1 => t + 1 = n
  <2>1. c = m - 1 => n - 1 <= t
    BY <1>3, <1>6
  <2>. QED BY <1>1, <2>1
<1>12. ASSUME c # m - 1
       PROVE  M * c + M <= (t + 1) * E /\ (t + 1) * E < M * c + M + E
  <2>1. ClientOf(t, n) = c
    BY <1>6
  <2>2. t # n - 1
    BY <1>3, <1>12, <2>1
  <2>3. t + 1 \in 0 .. n - 1 /\ t + 1 \in Nat /\ ~(t + 1 <= t)
    BY <1>1, <2>2
  <2>4. ClientOf(t + 1, n) # c
    BY <2>3
  <2>5. c + 1 <= ClientOf(t + 1, n) /\ ClientOf(t + 1, n) \in Nat
    BY <1>1, <1>4, <2>1, <2>4
  <2>6. (c + 1) * M <= ClientOf(t + 1, n) * M
    BY <1>1, <1>5, <2>5, Times
  <2>7. (c + 1) * M = M * c + M /\ ClientOf(t + 1, n) * M = M * ClientOf(t + 1, n)
        /\ M * ClientOf(t + 1, n) \in Int
    BY <1>1, <1>5, <2>5
  <2>8. M * ClientOf(t + 1, n) <= (t + 1) * E /\ (t + 1) * E \in Nat
    BY <1>7, <2>3
  <2>9. t * E < M * c + M /\ t * E \in Nat
    BY <1>7, <2>1
  <2>10. (t + 1) * E = t * E + E
    BY <1>5
  <2>11. M * c + M <= (t + 1) * E
    BY <1>5, <1>8, <2>6, <2>7, <2>8
  <2>12. (t + 1) * E < (M * c + M) + E
    BY <1>5, <1>8, <2>9, <2>10
  <2>. QED BY <1>8, <2>11, <2>12
<1>13. t + 1 \in Nat
  OBVIOUS
<1>14. Section(E, M, n, m, c, f, t + 1)
  BY <1>1, <1>9, <1>10, <1>11, <1>12, <1>13 DEF Section
<1>. QED BY <1>14 DEF E, M, m

(* The parts of n items, as OnePartEach has them: as many items as clients *)
(* or more, and fewer.                                                     *)
PartsOf(n) ==
  LET from == Parts(n).from
      thru == Parts(n).thru
  IN
  /\ \A i \in 0 .. n - 1 : \E c \in ClientNo :
       /\ from[c] <= i /\ i <= thru[c]
       /\ \A d \in ClientNo : from[d] <= i /\ i <= thru[d] =>
            c = d \/ (i = 0 /\ n < ClientCount)
  /\ \A c, d \in ClientNo :
       thru[c] - from[c] <= thru[d] - from[d]
         + (IF ClientCount <= 3 \/ n * ClientCount <= Two[FloatBits] THEN 1 ELSE 2)

LEMMA PartsMany ==
  ASSUME NEW n, Countable(n), n >= ClientCount
  PROVE  PartsOf(n)
<1>. DEFINE from == Parts(n).from
            thru == Parts(n).thru
            u == IF ClientCount <= 3 \/ n * ClientCount <= Two[FloatBits] THEN 1 ELSE 2
<1>1. \A c \in ClientNo : /\ from[c] \in Nat /\ thru[c] \in Nat
                          /\ from[c] <= thru[c] /\ thru[c] < n
  BY PartsNatural
<1>2. \A c \in ClientNo : \A i \in 0 .. n - 1 :
        ClientOf(i, n) = c <=> from[c] <= i /\ i <= thru[c]
  BY PartsFound
<1>. HIDE DEF from, thru
<1>3. ASSUME NEW i \in 0 .. n - 1
      PROVE  \E c \in ClientNo :
               /\ from[c] <= i /\ i <= thru[c]
               /\ \A d \in ClientNo : from[d] <= i /\ i <= thru[d] =>
                    c = d \/ (i = 0 /\ n < ClientCount)
  <2>1. ClientOf(i, n) \in ClientNo
    BY ClientOfItem
  <2>. QED BY <1>2, <2>1
<1>4. ASSUME NEW c \in ClientNo, NEW d \in ClientNo
      PROVE  thru[c] - from[c] <= thru[d] - from[d] + u
  <2>. DEFINE m == ClientCount
              A == Two[FloatBits - 1]
              E == Two[Exponent(n, m)]
              M == Mantissa(n, m)
  <2>1. /\ from[c] \in Nat /\ thru[c] \in Nat /\ from[d] \in Nat /\ thru[d] \in Nat
    BY <1>1
  <2>2. CASE c = d
    <3>1. u = 1 \/ u = 2
      OBVIOUS
    <3>. HIDE DEF u
    <3>. QED BY <2>1, <2>2, <3>1
  <2>3. CASE c # d
    <3>1. n \in Nat \ {0} /\ m \in Nat \ {0}
      BY IndexAssumption DEF Countable
    <3>2. Nearest(A, E, M, n, m)
      BY <3>1, DivisorFound DEF Countable
    <3>3. /\ Section(E, M, n, m, c, from[c], thru[c] + 1)
          /\ Section(E, M, n, m, d, from[d], thru[d] + 1)
      BY <1>1, <1>2, SectionFound
    <3>4. u = IF m <= 3 \/ n * m <= 2 * A THEN 1 ELSE 2
      BY HalfOfPower
    <3>. HIDE DEF m, A, E, M, u
    <3>5. (thru[c] + 1) - from[c] <= ((thru[d] + 1) - from[d]) + u
      BY <2>3, <3>1, <3>2, <3>3, <3>4, SectionsEven
    <3>6. u \in Int
      BY <3>4
    <3>. QED BY <2>1, <3>5, <3>6
  <2>. QED BY <2>2, <2>3
<1>. QED BY <1>3, <1>4 DEF from, thru, PartsOf

LEMMA PartsOfFew ==
  ASSUME NEW n, Countable(n), n < ClientCount
  PROVE  PartsOf(n)
<1>. DEFINE from == Parts(n).from
            thru == Parts(n).thru
            u == IF ClientCount <= 3 \/ n * ClientCount <= Two[FloatBits] THEN 1 ELSE 2
<1>1. \A c \in ClientNo : from[c] \in Nat
  BY PartsNatural
<1>2. /\ \A c \in ClientNo : thru[c] = from[c] /\ (from[c] = 0 \/ c = ClientOf(from[c], n))
      /\ \A i \in 0 .. n - 1 : from[ClientOf(i, n)] = i
  BY FewFound
<1>. HIDE DEF from, thru
<1>3. ASSUME NEW i \in 0 .. n - 1
      PROVE  \E c \in ClientNo :
               /\ from[c] <= i /\ i <= thru[c]
               /\ \A d \in ClientNo : from[d] <= i /\ i <= thru[d] =>
                    c = d \/ (i = 0 /\ n < ClientCount)
  <2>. DEFINE c == ClientOf(i, n)
  <2>1. c \in ClientNo
    BY ClientOfItem
  <2>2. from[c] <= i /\ i <= thru[c]
    BY <1>2, <2>1
  <2>3. ASSUME NEW d \in ClientNo, from[d] <= i, i <= thru[d]
        PROVE  c = d \/ (i = 0 /\ n < ClientCount)
    <3>1. from[d] = i
      BY <1>1, <1>2, <2>3
    <3>. QED BY <1>2, <3>1
  <2>. HIDE DEF c
  <2>. QED BY <2>1, <2>2, <2>3
<1>4. ASSUME NEW c \in ClientNo, NEW d \in ClientNo
      PROVE  thru[c] - from[c] <= thru[d] - from[d] + u
  <2>1. u = 1 \/ u = 2
    OBVIOUS
  <2>. HIDE DEF u
  <2>. QED BY <1>1, <1>2, <2>1
<1>. QED BY <1>3, <1>4 DEF from, thru, PartsOf

-----------------------------------------------------------------------------
(* The order of a part (read_index_data of the client).                    *)

(* Item j of the part is item i or before it.                              *)
NotAfter(p, j, i) == Before(p[j], p[i]) \/ (p[j] = p[i] /\ j <= i)

Rank(p) == [i \in 1 .. Len(p) |-> Cardinality(UpTo(p, i))]

LEMMA OrderTotal ==
  ASSUME NEW Nos, Nos \subseteq Int, NEW p \in Seq(Nos \X Nos),
         NEW i \in 1 .. Len(p), NEW j \in 1 .. Len(p)
  PROVE  /\ NotAfter(p, i, i)
         /\ i # j => (NotAfter(p, i, j) <=> ~NotAfter(p, j, i))
         /\ \A k \in 1 .. Len(p) : NotAfter(p, k, j) /\ NotAfter(p, j, i) => NotAfter(p, k, i)
<1>1. /\ i \in Int /\ j \in Int /\ \A k \in 1 .. Len(p) : k \in Int
  OBVIOUS
<1>2. \A k \in 1 .. Len(p) : /\ p[k] = <<p[k][1], p[k][2]>>
                             /\ p[k][1] \in Int /\ p[k][2] \in Int
  <2>1. \A k \in 1 .. Len(p) : p[k] \in Nos \X Nos
    OBVIOUS
  <2>2. \A x \in Nos \X Nos : x = <<x[1], x[2]>> /\ x[1] \in Nos /\ x[2] \in Nos
    OBVIOUS
  <2>3. \A y \in Nos : y \in Int
    OBVIOUS
  <2>. QED BY <2>1, <2>2, <2>3
<1>3. \A k, l \in 1 .. Len(p) : p[k] = p[l] <=> p[k][1] = p[l][1] /\ p[k][2] = p[l][2]
  BY <1>2
<1>4. NotAfter(p, i, i)
  BY <1>1 DEF NotAfter
<1>5. i # j => (NotAfter(p, i, j) <=> ~NotAfter(p, j, i))
  BY <1>1, <1>2, <1>3 DEF NotAfter, Before
<1>6. ASSUME NEW k \in 1 .. Len(p), NotAfter(p, k, j), NotAfter(p, j, i)
      PROVE  NotAfter(p, k, i)
  BY <1>1, <1>2, <1>3, <1>6 DEF NotAfter, Before
<1>. QED BY <1>4, <1>5, <1>6

LEMMA RankGrows ==
  ASSUME NEW Nos, Nos \subseteq Int, NEW p \in Seq(Nos \X Nos),
         NEW i \in 1 .. Len(p), NEW j \in 1 .. Len(p), i # j, NotAfter(p, j, i)
  PROVE  Cardinality(UpTo(p, j)) < Cardinality(UpTo(p, i))
<1>. DEFINE A == UpTo(p, j)
            B == UpTo(p, i)
<1>1. \A x : \A k : k \in UpTo(p, x) <=> k \in 1 .. Len(p) /\ NotAfter(p, k, x)
  BY DEF UpTo, NotAfter
<1>2. A \subseteq B /\ i \in B /\ i \notin A
  BY <1>1, OrderTotal
<1>3. IsFiniteSet(B)
  <2>1. IsFiniteSet(1 .. Len(p)) /\ B \subseteq 1 .. Len(p)
    BY <1>1, FS_Interval
  <2>. QED BY <2>1, FS_Subset
<1>. HIDE DEF A, B
<1>4. /\ Cardinality(A) <= Cardinality(B) /\ (Cardinality(B) = Cardinality(A) => B = A)
      /\ IsFiniteSet(A)
  BY <1>2, <1>3, FS_Subset
<1>5. Cardinality(A) \in Nat /\ Cardinality(B) \in Nat
  BY <1>3, <1>4, FS_CardinalityType
<1>6. Cardinality(A) < Cardinality(B)
  BY <1>2, <1>4, <1>5
<1>. QED BY <1>6 DEF A, B

(* Every place of the order is that of one item.                           *)
LEMMA RanksAll ==
  ASSUME NEW Nos, Nos \subseteq Int, NEW p \in Seq(Nos \X Nos)
  PROVE  Rank(p) \in Bijection(1 .. Len(p), 1 .. Len(p))
<1>. DEFINE n == Len(p)
            r == Rank(p)
<1>1. n \in Nat /\ IsFiniteSet(1 .. n) /\ Cardinality(1 .. n) = n
  <2>1. n \in Nat /\ n \in Int /\ 1 \in Int
    OBVIOUS
  <2>. HIDE DEF n
  <2>2. IsFiniteSet(1 .. n) /\ Cardinality(1 .. n) = IF 1 > n THEN 0 ELSE n - 1 + 1
    BY <2>1, FS_Interval
  <2>. QED BY <2>1, <2>2
<1>2. ASSUME NEW i \in 1 .. n
      PROVE  r[i] \in 1 .. n
  <2>. DEFINE B == UpTo(p, i)
  <2>1. B \subseteq 1 .. n /\ i \in B
    BY OrderTotal DEF UpTo, NotAfter
  <2>2. r[i] = Cardinality(B)
    BY DEF Rank
  <2>. HIDE DEF B, r
  <2>3. IsFiniteSet(B) /\ Cardinality(B) <= n
    BY <1>1, <2>1, FS_Subset
  <2>4. Cardinality(B) \in Nat /\ Cardinality(B) # 0
    BY <2>1, <2>3, FS_CardinalityType, FS_EmptySet
  <2>. QED BY <1>1, <2>2, <2>3, <2>4
<1>3. r \in [1 .. n -> 1 .. n]
  <2>1. r = [i \in 1 .. n |-> r[i]]
    BY DEF Rank
  <2>. HIDE DEF r
  <2>. QED BY <1>2, <2>1
<1>4. ASSUME NEW i \in 1 .. n, NEW j \in 1 .. n, i # j
      PROVE  r[i] # r[j]
  <2>1. r[i] = Cardinality(UpTo(p, i)) /\ r[j] = Cardinality(UpTo(p, j))
    BY DEF Rank
  <2>2. r[i] \in Int /\ r[j] \in Int
    BY <1>2
  <2>3. NotAfter(p, i, j) \/ NotAfter(p, j, i)
    BY <1>4, OrderTotal
  <2>4. r[i] < r[j] \/ r[j] < r[i]
    BY <1>4, <2>1, <2>3, RankGrows
  <2>. HIDE DEF r
  <2>. QED BY <2>2, <2>4
<1>. HIDE DEF n, r
<1>5. r \in Injection(1 .. n, 1 .. n)
  BY <1>3, <1>4 DEF Injection, IsInjective
<1>6. r \in Surjection(1 .. n, 1 .. n)
  BY <1>1, <1>5, FS_Injection
<1>7. r \in Bijection(1 .. n, 1 .. n)
  BY <1>5, <1>6 DEF Bijection
<1>. QED BY <1>7 DEF n, r

(* The item at place k.                                                    *)
Place(p) == [k \in 1 .. Len(p) |->
               CHOOSE i \in 1 .. Len(p) : Cardinality(UpTo(p, i)) = k]

LEMMA PlacesAll ==
  ASSUME NEW Nos, Nos \subseteq Int, NEW p \in Seq(Nos \X Nos)
  PROVE  /\ Place(p) \in Bijection(1 .. Len(p), 1 .. Len(p))
         /\ \A k \in 1 .. Len(p) : Rank(p)[Place(p)[k]] = k
<1>. DEFINE n == Len(p)
            r == Rank(p)
            t == Place(p)
<1>1. r \in Bijection(1 .. n, 1 .. n)
  BY RanksAll
<1>2. ASSUME NEW k \in 1 .. n
      PROVE  t[k] \in 1 .. n /\ r[t[k]] = k
  <2>1. \E i \in 1 .. n : r[i] = k
    <3>. HIDE DEF r, n
    <3>. QED BY <1>1 DEF Bijection, Surjection
  <2>2. \A i \in 1 .. n : r[i] = Cardinality(UpTo(p, i))
    BY DEF Rank
  <2>3. t[k] = CHOOSE i \in 1 .. n : Cardinality(UpTo(p, i)) = k
    BY DEF Place
  <2>4. \E i \in 1 .. n : Cardinality(UpTo(p, i)) = k
    BY <2>1, <2>2
  <2>. HIDE DEF r, n, t
  <2>5. t[k] \in 1 .. n /\ Cardinality(UpTo(p, t[k])) = k
    BY <2>3, <2>4
  <2>. QED BY <2>2, <2>5
<1>3. t = [k \in 1 .. n |-> t[k]]
  BY DEF Place
<1>. HIDE DEF n, r, t
<1>4. t \in [1 .. n -> 1 .. n]
  BY <1>2, <1>3
<1>5. \A k, l \in 1 .. n : t[k] = t[l] => k = l
  BY <1>2
<1>6. \A i \in 1 .. n : \E k \in 1 .. n : t[k] = i
  <2>1. TAKE i \in 1 .. n
  <2>2. r \in [1 .. n -> 1 .. n] /\ \A a, b \in 1 .. n : r[a] = r[b] => a = b
    BY <1>1 DEF Bijection, Injection, IsInjective
  <2>3. r[i] \in 1 .. n
    BY <2>2
  <2>4. t[r[i]] = i
    BY <1>2, <2>2, <2>3
  <2>. QED BY <2>3, <2>4
<1>7. t \in Bijection(1 .. n, 1 .. n)
  BY <1>4, <1>5, <1>6 DEF Bijection, Injection, Surjection, IsInjective
<1>. QED BY <1>2, <1>7 DEF n, r, t

(* What is moved is counted as before.                                     *)
LEMMA MovedCount ==
  ASSUME NEW n \in Nat, NEW t \in Bijection(1 .. n, 1 .. n),
         NEW A \in SUBSET (1 .. n), NEW B \in SUBSET (1 .. n),
         \A k \in 1 .. n : k \in A <=> t[k] \in B
  PROVE  Cardinality(A) = Cardinality(B)
<1>. DEFINE g == [k \in A |-> t[k]]
<1>1. /\ t \in [1 .. n -> 1 .. n]
      /\ \A a, b \in 1 .. n : t[a] = t[b] => a = b
      /\ \A i \in 1 .. n : \E k \in 1 .. n : t[k] = i
  BY DEF Bijection, Injection, Surjection, IsInjective
<1>2. g \in [A -> B]
  BY <1>1
<1>3. /\ \A a, b \in A : g[a] = g[b] => a = b
      /\ \A i \in B : \E k \in A : g[k] = i
  BY <1>1
<1>4. IsFiniteSet(A)
  <2>1. IsFiniteSet(1 .. n)
    BY FS_Interval
  <2>. QED BY <2>1, FS_Subset
<1>. HIDE DEF g
<1>5. g \in Bijection(A, B)
  BY <1>2, <1>3 DEF Bijection, Injection, Surjection, IsInjective
<1>6. ExistsBijection(A, B)
  BY <1>5 DEF ExistsBijection
<1>. QED BY <1>4, <1>6, FS_Bijection

LEMMA InOrderFound ==
  ASSUME NEW Nos, Nos \subseteq Int, NEW p \in Seq(Nos \X Nos)
  PROVE  LET q == InOrder(p) IN
         /\ q \in Seq(Nos \X Nos) /\ Len(q) = Len(p) /\ Sorted(q)
         /\ \A s : ItemsFrom(q, s) = ItemsFrom(p, s)
         /\ \A x : ItemsOf(q, x) = ItemsOf(p, x)
<1>. DEFINE n == Len(p)
            t == Place(p)
            q == InOrder(p)
<1>1. /\ n \in Nat /\ t \in Bijection(1 .. n, 1 .. n)
      /\ \A k \in 1 .. n : Rank(p)[t[k]] = k
      /\ \A k \in 1 .. n : p[k] \in Nos \X Nos
  <2>1. n \in Nat /\ \A k \in 1 .. n : p[k] \in Nos \X Nos
    OBVIOUS
  <2>. QED BY <2>1, PlacesAll
<1>2. t \in [1 .. n -> 1 .. n]
  BY <1>1 DEF Bijection, Injection
<1>3. q = [k \in 1 .. n |-> p[t[k]]]
  BY DEF InOrder, Place
<1>4. \A k \in 1 .. n : t[k] \in 1 .. n
  BY <1>2
<1>. HIDE DEF t, q
<1>5. q \in Seq(Nos \X Nos) /\ Len(q) = n
  BY <1>1, <1>3, <1>4
<1>6. Sorted(q)
  <2>1. SUFFICES ASSUME NEW k \in 1 .. n, NEW l \in 1 .. n, k < l
                 PROVE  q[k][1] < q[l][1] \/ (q[k][1] = q[l][1] /\ q[k][2] <= q[l][2])
    BY <1>5 DEF Sorted
  <2>2. Rank(p)[t[k]] = k /\ Rank(p)[t[l]] = l /\ t[k] \in 1 .. n /\ t[l] \in 1 .. n
    BY <1>1, <1>4
  <2>3. /\ Cardinality(UpTo(p, t[k])) = k /\ Cardinality(UpTo(p, t[l])) = l
        /\ k \in Int /\ l \in Int
    BY <2>2 DEF Rank
  <2>4. NotAfter(p, t[k], t[l])
    <3>1. SUFFICES ASSUME ~NotAfter(p, t[k], t[l]) PROVE FALSE
      OBVIOUS
    <3>2. t[k] # t[l]
      BY <2>1, <2>3
    <3>3. NotAfter(p, t[l], t[k])
      BY <2>2, <3>1, <3>2, OrderTotal
    <3>4. l < k
      BY <2>2, <2>3, <3>2, <3>3, RankGrows
    <3>. QED BY <2>1, <2>3, <3>4
  <2>5. /\ p[t[k]][1] \in Int /\ p[t[k]][2] \in Int
        /\ p[t[l]][1] \in Int /\ p[t[l]][2] \in Int
    <3>1. p[t[k]] \in Nos \X Nos /\ p[t[l]] \in Nos \X Nos
      BY <1>1, <2>2
    <3>. QED BY <3>1
  <2>6. q[k] = p[t[k]] /\ q[l] = p[t[l]]
    BY <1>3
  <2>7. Before(p[t[k]], p[t[l]]) \/ p[t[k]] = p[t[l]]
    BY <2>4 DEF NotAfter
  <2>8. CASE Before(p[t[k]], p[t[l]])
    BY <2>5, <2>6, <2>8 DEF Before
  <2>9. CASE p[t[k]] = p[t[l]]
    BY <2>5, <2>6, <2>9
  <2>. QED BY <2>7, <2>8, <2>9
<1>7. ASSUME NEW s
      PROVE  ItemsFrom(q, s) = ItemsFrom(p, s)
  <2>. DEFINE A == {k \in 1 .. n : q[k][1] = s}
              B == {i \in 1 .. n : p[i][1] = s}
  <2>1. /\ A \in SUBSET (1 .. n) /\ B \in SUBSET (1 .. n)
        /\ \A k \in 1 .. n : k \in A <=> t[k] \in B
    BY <1>3, <1>4
  <2>2. ItemsFrom(q, s) = Cardinality(A) /\ ItemsFrom(p, s) = Cardinality(B)
    BY <1>5 DEF ItemsFrom
  <2>. HIDE DEF A, B, n
  <2>. QED BY <1>1, <2>1, <2>2, MovedCount
<1>8. ASSUME NEW x
      PROVE  ItemsOf(q, x) = ItemsOf(p, x)
  <2>. DEFINE A == {k \in 1 .. n : q[k] = x}
              B == {i \in 1 .. n : p[i] = x}
  <2>1. /\ A \in SUBSET (1 .. n) /\ B \in SUBSET (1 .. n)
        /\ \A k \in 1 .. n : k \in A <=> t[k] \in B
    BY <1>3, <1>4
  <2>2. ItemsOf(q, x) = Cardinality(A) /\ ItemsOf(p, x) = Cardinality(B)
    BY <1>5 DEF ItemsOf
  <2>. HIDE DEF A, B, n
  <2>. QED BY <1>1, <2>1, <2>2, MovedCount
<1>. QED BY <1>5, <1>6, <1>7, <1>8 DEF q

-----------------------------------------------------------------------------
(* The buffers of a client (init_storages).                                *)
LEMMA FlowNumbers ==
  /\ StorageCount \in Nat \ {0} /\ 0 \in StorageNo
  /\ Numbers(StorageNo) /\ StorageNo \subseteq Nat /\ StorageNo \subseteq Int
BY IndexAssumption DEF StorageNo, Numbers

AskedOf(p, d) == [i \in StorageNo |-> Requested(p, p[1], i, d)]

(* The loop as in FillHeads: its first state and its turn k.               *)
FillTurn(p, r, k, prev) ==
  LET s == k - 1
      b == Group(p, r[s], [heads |-> prev.heads[s], toSend |-> prev.toSend])
  IN  [heads |-> [prev.heads EXCEPT ![s] = b.heads], toSend |-> b.toSend]

FillStart(h, t) == [heads |-> h, toSend |-> t]

FillTurns(p, r, h, t) ==
  CHOOSE turn : turn = [k \in 0 .. StorageCount |->
                          IF k = 0 THEN FillStart(h, t) ELSE FillTurn(p, r, k, turn[k - 1])]

FillState == [heads : [StorageNo -> [StorageNo -> Nat]], toSend : [StorageNo -> Nat]]

(* A part that a client has sorted.                                        *)
SortedPart(p) == p \in Seq(StorageNo \X StorageNo) /\ Sorted(p) /\ Len(p) # 0

LEMMA RangeOf ==
  ASSUME NEW p, SortedPart(p), NEW s \in StorageNo
  PROVE  LET r == Ranges(p, Range0)[s] IN
         /\ r \in RangeType /\ r.from <= r.thru /\ r.thru < Len(p)
         /\ Rising(p, r) /\ r.count = ItemsFrom(p, s)
         /\ \A d \in StorageNo : Tally(p, r.from, Last(r), d) = Requested(p, p[1], s, d)
<1>1. Range0 = Empty(StorageNo) /\ Numbers(StorageNo)
  BY FlowNumbers DEF Range0, Empty
<1>. QED BY <1>1, RangeOfPart DEF SortedPart

LEMMA RequestedNat ==
  ASSUME NEW p, SortedPart(p), NEW s \in StorageNo, NEW d \in StorageNo
  PROVE  Requested(p, p[1], s, d) \in Nat
<1>. DEFINE r == Ranges(p, Range0)[s]
<1>1. /\ r \in RangeType /\ r.from <= r.thru
      /\ Tally(p, r.from, Last(r), d) = Requested(p, p[1], s, d)
  BY RangeOf
<1>. HIDE DEF r
<1>2. r.from \in Nat /\ Last(r) \in Nat
  BY <1>1 DEF RangeType, Last
<1>. QED BY <1>1, <1>2, TallyNat

LEMMA FillTurnType ==
  ASSUME NEW p, SortedPart(p), NEW k \in 1 .. StorageCount, NEW x \in FillState
  PROVE  FillTurn(p, Ranges(p, Range0), k, x) \in FillState
<1>. DEFINE s == k - 1
            r == Ranges(p, Range0)[s]
            buf == [heads |-> x.heads[s], toSend |-> x.toSend]
            b == Group(p, r, buf)
<1>1. s \in StorageNo
  BY FlowNumbers DEF StorageNo
<1>2. FillTurn(p, Ranges(p, Range0), k, x)
        = [heads |-> [x.heads EXCEPT ![s] = b.heads], toSend |-> b.toSend]
  BY DEF FillTurn
<1>. HIDE DEF s
<1>3. x.heads \in [StorageNo -> [StorageNo -> Nat]] /\ x.toSend \in [StorageNo -> Nat]
  BY DEF FillState
<1>4. buf \in Buffers(StorageNo)
  BY <1>1, <1>3 DEF Buffers
<1>5. r \in RangeType /\ r.thru < Len(p)
  BY <1>1, RangeOf
<1>. HIDE DEF r, buf
<1>6. b \in Buffers(StorageNo)
  BY <1>4, <1>5, FlowNumbers, GroupType DEF SortedPart
<1>. HIDE DEF b
<1>7. b.heads \in [StorageNo -> Nat] /\ b.toSend \in [StorageNo -> Nat]
  BY <1>6 DEF Buffers
<1>. QED BY <1>1, <1>2, <1>3, <1>7 DEF FillState

LEMMA FillStates ==
  ASSUME NEW p, SortedPart(p), NEW h, NEW t, FillStart(h, t) \in FillState
  PROVE  LET f == FillTurns(p, Ranges(p, Range0), h, t) IN
         /\ f \in [0 .. StorageCount -> FillState]
         /\ f[0] = FillStart(h, t)
         /\ \A k \in 1 .. StorageCount : f[k] = FillTurn(p, Ranges(p, Range0), k, f[k - 1])
<1>. DEFINE n == StorageCount
            r == Ranges(p, Range0)
            Turn(k, x) == FillTurn(p, r, k, x)
            a == FillStart(h, t)
            G == [y \in (1 .. n) \X FillState |-> Turn(y[1], y[2])]
            Loop(f) == f = [k \in 0 .. n |-> IF k = 0 THEN a ELSE Turn(k, f[k - 1])]
            f == FillTurns(p, r, h, t)
<1>1. n \in Nat /\ a \in FillState
  BY FlowNumbers
<1>2. \A k \in 1 .. n : \A x \in FillState : Turn(k, x) \in FillState
  BY FillTurnType
<1>3. Loop(f) <=> \E g : Loop(g)
  <2>1. f = CHOOSE g : Loop(g)
    BY DEF FillTurns
  <2>. HIDE DEF f, Loop
  <2>. QED BY <2>1
<1>. HIDE DEF n, a, Turn, f
<1>4. G \in [(1 .. n) \X FillState -> FillState]
  BY <1>2
<1>5. PICK g \in [0 .. n -> FillState] : Runs(g, n, a, G)
  <2>. HIDE DEF G
  <2>. QED BY <1>1, <1>4, LoopRuns
<1>6. \A k \in 1 .. n : g[k] = Turn(k, g[k - 1])
  <2>1. ASSUME NEW k \in 1 .. n
        PROVE  g[k - 1] \in FillState /\ <<k, g[k - 1]>> \in (1 .. n) \X FillState
    <3>1. k - 1 \in 0 .. n
      BY <1>1
    <3>. QED BY <3>1
  <2>. QED BY <1>5, <2>1 DEF Runs
<1>7. Loop(g)
  <2>1. \A k \in 0 .. n : k = 0 \/ k \in 1 .. n
    BY <1>1
  <2>. QED BY <1>5, <1>6, <2>1 DEF Runs
<1>8. Loop(f)
  <2>. HIDE DEF Loop
  <2>. QED BY <1>3, <1>7
<1>9. f[0] = a /\ \A k \in 1 .. n : f[k] = Turn(k, f[k - 1])
  <2>1. \A k \in 1 .. n : k \in 0 .. n /\ k # 0
    BY <1>1
  <2>2. 0 \in 0 .. n
    BY <1>1
  <2>. QED BY <1>8, <2>1, <2>2
<1>10. {k \in 0 .. n : f[k] \in FillState} = 0 .. n
  <2>. DEFINE S == {k \in 0 .. n : f[k] \in FillState}
  <2>1. 0 \in S
    BY <1>1, <1>9
  <2>2. \A k \in 1 .. n : k - 1 \in S => k \in S
    BY <1>1, <1>2, <1>9
  <2>3. S \subseteq 0 .. n
    OBVIOUS
  <2>. HIDE DEF S
  <2>4. S = 0 .. n
    BY <1>1, <2>1, <2>2, <2>3, LoopKeeps
  <2>. QED BY <2>4 DEF S
<1>11. f = [k \in 0 .. n |-> f[k]]
  BY <1>8
<1>12. \A k \in 0 .. n : f[k] \in FillState
  BY <1>10
<1>13. f \in [0 .. n -> FillState]
  BY <1>11, <1>12
<1>. QED BY <1>9, <1>13 DEF n, a, Turn, f

(* After turn k the storages before k have their heads.                    *)
HeadsRight(p, k, x) ==
  \A d \in StorageNo :
    /\ \A s \in StorageNo : x.heads[s][d] = IF s < k THEN Requested(p, p[1], s, d) ELSE 0
    /\ x.toSend[d] = SumFunctionOnSet(AskedOf(p, d), 0 .. k - 1)

LEMMA FillTurnRight ==
  ASSUME NEW p, SortedPart(p), NEW k \in 1 .. StorageCount, NEW x \in FillState,
         HeadsRight(p, k - 1, x)
  PROVE  HeadsRight(p, k, FillTurn(p, Ranges(p, Range0), k, x))
<1>. DEFINE s == k - 1
            r == Ranges(p, Range0)[s]
            buf == [heads |-> x.heads[s], toSend |-> x.toSend]
            b == Group(p, r, buf)
            y == FillTurn(p, Ranges(p, Range0), k, x)
<1>1. s \in StorageNo /\ s \in Nat /\ k = s + 1
  BY FlowNumbers DEF StorageNo
<1>2. y.heads = [x.heads EXCEPT ![s] = b.heads] /\ y.toSend = b.toSend
  BY DEF FillTurn
<1>3. HeadsRight(p, s, x)
  OBVIOUS
<1>. HIDE DEF s, y
<1>4. x.heads \in [StorageNo -> [StorageNo -> Nat]] /\ x.toSend \in [StorageNo -> Nat]
  BY DEF FillState
<1>5. /\ buf \in Buffers(StorageNo)
      /\ \A d \in StorageNo : buf.heads[d] = 0 /\ buf.toSend[d] = x.toSend[d]
  <2>1. ~(s < s)
    BY <1>1
  <2>2. \A d \in StorageNo : x.heads[s][d] = 0
    BY <1>1, <1>3, <2>1 DEF HeadsRight
  <2>. QED BY <1>1, <1>4, <2>2 DEF Buffers
<1>6. /\ r \in RangeType /\ r.from <= r.thru /\ r.thru < Len(p) /\ Rising(p, r)
      /\ \A d \in StorageNo : Tally(p, r.from, Last(r), d) = Requested(p, p[1], s, d)
  BY <1>1, RangeOf
<1>. HIDE DEF r, buf
<1>7. ClosedHeads(StorageNo, p, r.from, buf, Last(r), b)
  BY <1>5, <1>6, FlowNumbers, GroupFound DEF SortedPart
<1>. HIDE DEF b
<1>8. \A d \in StorageNo : /\ b.heads[d] = Requested(p, p[1], s, d)
                           /\ b.toSend[d] = x.toSend[d] + Requested(p, p[1], s, d)
  BY <1>5, <1>6, <1>7 DEF ClosedHeads
<1>9. ASSUME NEW d \in StorageNo, NEW i \in StorageNo
      PROVE  y.heads[i][d] = IF i < k THEN Requested(p, p[1], i, d) ELSE 0
  <2>1. i \in Int
    BY FlowNumbers
  <2>2. CASE i = s
    BY <1>1, <1>2, <1>4, <1>8, <2>2
  <2>3. CASE i # s
    <3>1. y.heads[i][d] = x.heads[i][d] /\ (i < s <=> i < k)
      BY <1>1, <1>2, <1>4, <2>1, <2>3
    <3>. QED BY <1>3, <3>1 DEF HeadsRight
  <2>. QED BY <2>2, <2>3
<1>10. ASSUME NEW d \in StorageNo
       PROVE  y.toSend[d] = SumFunctionOnSet(AskedOf(p, d), 0 .. k - 1)
  <2>. DEFINE a == AskedOf(p, d)
              S == 0 .. s - 1
  <2>1. \A i \in StorageNo : a[i] = Requested(p, p[1], i, d) /\ a[i] \in Nat
    BY RequestedNat DEF AskedOf
  <2>2. S \subseteq StorageNo /\ s \notin S /\ 0 .. k - 1 = S \cup {s} /\ IsFiniteSet(S)
    <3>1. s - 1 \in Int
      BY <1>1
    <3>2. IsFiniteSet(S)
      BY <3>1, FS_Interval
    <3>3. s < StorageCount /\ StorageCount \in Nat /\ k - 1 = s
      BY <1>1, FlowNumbers DEF StorageNo
    <3>4. \A i : i \in 0 .. s <=> i \in S \/ i = s
      BY <1>1
    <3>5. S \subseteq StorageNo /\ s \notin S
      BY <1>1, <3>3 DEF StorageNo
    <3>. HIDE DEF S
    <3>6. 0 .. k - 1 = S \cup {s}
      BY <3>3, <3>4
    <3>. QED BY <3>2, <3>5, <3>6
  <2>3. x.toSend[d] = SumFunctionOnSet(a, S)
    BY <1>3 DEF HeadsRight
  <2>. HIDE DEF a, S
  <2>4. a[s] \in Int /\ \A i \in S : a[i] \in Int
    BY <1>1, <2>1, <2>2
  <2>5. SumFunctionOnSet(a, S \cup {s}) = SumFunctionOnSet(a, S) + a[s]
    BY <2>2, <2>4, SumAdds
  <2>6. y.toSend[d] = x.toSend[d] + a[s]
    BY <1>1, <1>2, <1>8, <2>1
  <2>. QED BY <2>2, <2>3, <2>5, <2>6 DEF a
<1>11. HeadsRight(p, k, y)
  BY <1>9, <1>10 DEF HeadsRight
<1>. QED BY <1>11 DEF y

(* init_storages() asks for the whole part.                                *)
LEMMA HeadsFilled ==
  ASSUME NEW p, SortedPart(p), NEW h, NEW t, FillStart(h, t) \in FillState,
         \A d \in StorageNo : t[d] = 0 /\ \A s \in StorageNo : h[s][d] = 0
  PROVE  LET x == FillTurns(p, Ranges(p, Range0), h, t)[StorageCount] IN
         /\ x \in FillState
         /\ \A d \in StorageNo :
              /\ \A s \in StorageNo : x.heads[s][d] = Requested(p, p[1], s, d)
              /\ x.toSend[d] = SumFunctionOnSet(AskedOf(p, d), StorageNo)
<1>. DEFINE n == StorageCount
            r == Ranges(p, Range0)
            f == FillTurns(p, r, h, t)
            S == {k \in 0 .. n : HeadsRight(p, k, f[k])}
<1>1. /\ f \in [0 .. n -> FillState] /\ f[0] = FillStart(h, t)
      /\ \A k \in 1 .. n : f[k] = FillTurn(p, r, k, f[k - 1])
  BY FillStates
<1>2. n \in Nat /\ 0 .. n - 1 = StorageNo /\ \A s \in StorageNo : s < n /\ ~(s < 0)
  BY FlowNumbers DEF StorageNo
<1>3. \A k \in 1 .. n : \A x \in FillState :
        HeadsRight(p, k - 1, x) => HeadsRight(p, k, FillTurn(p, r, k, x))
  BY FillTurnRight
<1>. HIDE DEF f, n, r
<1>4. HeadsRight(p, 0, f[0])
  <2>1. 0 .. 0 - 1 = {}
    OBVIOUS
  <2>2. \A d \in StorageNo : SumFunctionOnSet(AskedOf(p, d), 0 .. 0 - 1) = 0
    BY <2>1, SumEmpty
  <2>. QED BY <1>1, <1>2, <2>2 DEF HeadsRight, FillStart
<1>5. S = 0 .. n
  <2>1. S \subseteq 0 .. n /\ 0 \in S
    BY <1>2, <1>4
  <2>2. ASSUME NEW k \in 1 .. n, k - 1 \in S
        PROVE  k \in S
    <3>1. k \in 0 .. n /\ k - 1 \in 0 .. n
      BY <1>2
    <3>. QED BY <1>1, <1>3, <2>2, <3>1
  <2>. HIDE DEF S
  <2>. QED BY <1>2, <2>1, <2>2, LoopKeeps
<1>6. n \in 0 .. n
  BY <1>2
<1>7. f[n] \in FillState /\ HeadsRight(p, n, f[n])
  BY <1>1, <1>5, <1>6
<1>8. \A d \in StorageNo :
        /\ \A s \in StorageNo : f[n].heads[s][d] = Requested(p, p[1], s, d)
        /\ f[n].toSend[d] = SumFunctionOnSet(AskedOf(p, d), StorageNo)
  BY <1>2, <1>7 DEF HeadsRight
<1>. QED BY <1>7, <1>8 DEF f, n, r

-----------------------------------------------------------------------------
(* The inductive invariant.                                                *)

NoHeads == [s \in StorageNo |-> None]

(* What the server has read, and how it cuts it.                           *)
Read ==
  /\ file.count \in 0 .. MaxItems /\ (file # NoFile => file.count # 0)
  /\ stage \in {"read", "sorted", "cut"} => Len(items) \in 1 .. MaxItems
  /\ stage = "cut" => parts = Parts(Len(items))

(* What client c has prepared.                                             *)
Prepared(c) ==
  /\ stage # "cut" => cstage[c] = "start"
  /\ cstage[c] \in {"start", "undefined"} => part[c] = <<>> /\ ranges[c] = Range0
  /\ cstage[c] # "heads" => heads[c] = NoHeads /\ toSend[c] = None
  /\ cstage[c] \in {"ranges", "heads"} =>
       /\ Sent(c) \in Seq(Item) /\ Sent(c) # <<>>
       /\ part[c] = InOrder(Sent(c))
       /\ ranges[c] = Ranges(part[c], Range0)
  /\ cstage[c] = "heads" =>
       \A d \in StorageNo :
         /\ \A s \in StorageNo : heads[c][s][d] = Requested(part[c], part[c][1], s, d)
         /\ toSend[c][d] = SumFunctionOnSet(AskedOf(part[c], d), StorageNo)

FlowInv == TypeOK /\ Read /\ \A c \in ClientNo : Prepared(c)

LEMMA ItemsCountable ==
  ASSUME NEW n \in 1 .. MaxItems
  PROVE  Countable(n)
BY FlowAssumption, HalfOfPower DEF Countable

(* The storages of the items of an index.                                  *)
LEMMA SourcesFound ==
  ASSUME NEW n \in 1 .. MaxItems
  PROVE  /\ GeneratedSource(n) \in Seq(StorageNo) /\ Len(GeneratedSource(n)) = n
         /\ Destination(n) \in [1 .. n -> StorageNo]
<1>1. n \in Nat /\ Countable(n) /\ StorageCount \in Nat \ {0}
  BY ItemsCountable, IndexAssumption, FlowAssumption
<1>2. ASSUME NEW p \in 1 .. n
      PROVE  Quotient(p - 1, n, StorageCount) \in StorageNo
  <2>1. p - 1 \in Nat /\ p - 1 < n
    BY <1>1
  <2>2. Quotient(p - 1, n, StorageCount) \in Nat /\ Quotient(p - 1, n, StorageCount) < StorageCount
    BY <1>1, <2>1, QuotientFound
  <2>. QED BY <1>1, <2>2 DEF StorageNo
<1>3. Destination(n) \in [1 .. n -> StorageNo] /\ GeneratedSource(n) \in [1 .. n -> StorageNo]
  BY <1>2 DEF Destination, GeneratedSource
<1>. QED BY <1>1, <1>3

(* Every client gets some of the items.                                    *)
LEMMA SomethingSent ==
  ASSUME TypeOK, Len(items) \in 1 .. MaxItems, parts = Parts(Len(items)), NEW c \in ClientNo
  PROVE  Sent(c) # <<>>
<1>. DEFINE n == Len(items)
            X == (StorageNo \cup {Junk}) \X StorageNo
<1>1. /\ parts.from[c] \in Nat /\ parts.thru[c] \in Nat
      /\ parts.from[c] <= parts.thru[c] /\ parts.thru[c] < n
  BY ItemsCountable, PartsNatural
<1>2. items \in Seq(X)
  BY DEF TypeOK
<1>. HIDE DEF X
<1>3. Len(SubSeq(items, parts.from[c] + 1, parts.thru[c] + 1)) # 0
  BY <1>1, <1>2
<1>. QED BY <1>3 DEF Sent, PartOf

(* What a client makes of the items it is sent.                            *)
LEMMA PartReceived ==
  ASSUME NEW q \in Seq(Item), q # <<>>
  PROVE  LET p == InOrder(q) IN
         /\ p \in Seq(Item) /\ SortedPart(p)
         /\ Ranges(p, Range0) \in [StorageNo -> RangeSet]
         /\ \A s, d \in StorageNo : Requested(p, p[1], s, d) = Requested(q, p[1], s, d)
         /\ \A s \in StorageNo : Ranges(p, Range0)[s].count = ItemsFrom(q, s)
<1>. DEFINE p == InOrder(q)
<1>1. q \in Seq(StorageNo \X StorageNo) /\ Len(q) # 0
  BY DEF Item
<1>2. /\ p \in Seq(StorageNo \X StorageNo) /\ Len(p) = Len(q) /\ Sorted(p)
      /\ \A s : ItemsFrom(p, s) = ItemsFrom(q, s)
      /\ \A x : ItemsOf(p, x) = ItemsOf(q, x)
  BY <1>1, FlowNumbers, InOrderFound
<1>. HIDE DEF p
<1>3. SortedPart(p) /\ p \in Seq(Item)
  BY <1>1, <1>2 DEF SortedPart, Item
<1>4. Ranges(p, Range0) \in [StorageNo -> RangeType]
  <2>1. Range0 \in [StorageNo -> RangeType]
    BY DEF Range0, NoRange, RangeType
  <2>. QED BY <1>2, <2>1, FlowNumbers, RangesType
<1>5. ASSUME NEW s \in StorageNo
      PROVE  Ranges(p, Range0)[s] \in RangeSet /\ Ranges(p, Range0)[s].count = ItemsFrom(q, s)
  <2>. DEFINE r == Ranges(p, Range0)[s]
  <2>1. r \in RangeType /\ r.count = ItemsFrom(p, s)
    BY <1>3, RangeOf
  <2>2. ItemsFrom(p, s) \in Nat
    <3>1. IsFiniteSet(1 .. Len(p)) /\ {i \in 1 .. Len(p) : p[i][1] = s} \in SUBSET (1 .. Len(p))
      BY <1>2, FS_Interval
    <3>2. IsFiniteSet({i \in 1 .. Len(p) : p[i][1] = s})
      BY <3>1, FS_Subset
    <3>. QED BY <3>2, FS_CardinalityType DEF ItemsFrom
  <2>. HIDE DEF r
  <2>3. r \in RangeSet /\ r.count = ItemsFrom(q, s)
    BY <1>2, <2>1, <2>2 DEF RangeType, RangeSet
  <2>. QED BY <2>3 DEF r
<1>6. \A s, d \in StorageNo : Requested(p, p[1], s, d) = Requested(q, p[1], s, d)
  BY <1>2 DEF Requested
<1>7. Ranges(p, Range0) \in [StorageNo -> RangeSet]
  BY <1>4, <1>5
<1>. QED BY <1>3, <1>5, <1>6, <1>7 DEF p

-----------------------------------------------------------------------------
(* The invariant holds.                                                    *)
LEMMA FlowInit == Init => FlowInv
<1>. SUFFICES ASSUME Init PROVE FlowInv
  OBVIOUS
<1>1. 0 \in StorageNo /\ MaxItems \in Nat
  BY FlowNumbers, FlowAssumption
<1>2. Range0 \in [StorageNo -> RangeSet] /\ None \in [StorageNo -> Nat]
      /\ NoHeads \in [StorageNo -> [StorageNo -> Nat]]
  BY DEF Range0, NoRange, RangeSet, None, NoHeads
<1>3. \A c \in ClientNo : /\ cstage[c] = "start" /\ part[c] = <<>> /\ ranges[c] = Range0
                          /\ heads[c] = NoHeads /\ toSend[c] = None
  BY DEF Init, PerClient, NoHeads
<1>4. TypeOK
  <2>1. parts.from \in [ClientNo -> Nat] /\ parts.thru \in [ClientNo -> Nat]
    BY DEF Init, PerClient
  <2>2. /\ cstage \in [ClientNo -> {"start", "ranges", "heads", "undefined"}]
        /\ part \in [ClientNo -> Seq(Item)]
    BY DEF Init, PerClient
  <2>3. ranges \in [ClientNo -> [StorageNo -> RangeSet]]
    BY <1>2 DEF Init, PerClient
  <2>4. /\ heads \in [ClientNo -> [StorageNo -> [StorageNo -> Nat]]]
        /\ toSend \in [ClientNo -> [StorageNo -> Nat]]
    BY <1>2 DEF Init, PerClient, NoHeads
  <2>5. /\ file \in [count : Nat, items : Seq(StorageNo)]
        /\ items \in Seq((StorageNo \cup {Junk}) \X StorageNo)
        /\ stage = "start"
    BY DEF Init, NoFile
  <2>. QED BY <2>1, <2>2, <2>3, <2>4, <2>5 DEF TypeOK
<1>5. Read
  BY <1>1 DEF Init, NoFile, Read
<1>. QED BY <1>3, <1>4, <1>5 DEF FlowInv, Prepared

(* As long as the index is not cut, the clients have nothing.              *)
LEMMA ClientsWait ==
  ASSUME FlowInv, stage # "cut", UNCHANGED clientVars
  PROVE  \A c \in ClientNo : Prepared(c)'
<1>1. ASSUME NEW c \in ClientNo
      PROVE  Prepared(c)'
  <2>1. /\ cstage[c] = "start" /\ part[c] = <<>> /\ ranges[c] = Range0
        /\ heads[c] = NoHeads /\ toSend[c] = None
    BY DEF FlowInv, Prepared
  <2>2. /\ cstage'[c] = "start" /\ part'[c] = <<>> /\ ranges'[c] = Range0
        /\ heads'[c] = NoHeads /\ toSend'[c] = None
    BY <2>1 DEF clientVars
  <2>. QED BY <2>2 DEF Prepared
<1>. QED BY <1>1

LEMMA GenerateKeeps ==
  ASSUME FlowInv, NEW n \in 1 .. MaxItems, Generate(n) \/ GenerateShort(n)
  PROVE  FlowInv'
<1>. USE DEF FlowInv
<1>1. /\ stage = "start" /\ stage' = "generated"
      /\ UNCHANGED <<items, parts, clientVars>>
  BY DEF Generate, GenerateShort
<1>2. n \in Nat /\ n # 0 /\ n \in 0 .. MaxItems
  BY FlowAssumption
<1>3. /\ file' \in [count : Nat, items : Seq(StorageNo)]
      /\ file'.count \in 0 .. MaxItems /\ (file' # NoFile => file'.count # 0)
  <2>. DEFINE g == GeneratedSource(n)
  <2>1. g \in Seq(StorageNo) /\ Len(g) = n
    BY SourcesFound
  <2>2. \/ file' = [count |-> n, items |-> g]
        \/ file' = NoFile
        \/ \E k \in 0 .. n - 1 : file' = [count |-> n, items |-> SubSeq(g, 1, k)]
    BY DEF Generate, GenerateShort
  <2>3. \A k \in 0 .. n - 1 : SubSeq(g, 1, k) \in Seq(StorageNo)
    <3>. HIDE DEF g
    <3>. QED BY <1>2, <2>1
  <2>. HIDE DEF g
  <2>4. CASE file' = NoFile
    BY <2>4, FlowAssumption DEF NoFile
  <2>5. CASE file' # NoFile
    <3>1. PICK s \in Seq(StorageNo) : file' = [count |-> n, items |-> s]
      BY <2>1, <2>2, <2>3, <2>5
    <3>. QED BY <1>2, <3>1
  <2>. QED BY <2>4, <2>5
<1>4. TypeOK'
  BY <1>1, <1>3 DEF TypeOK, clientVars
<1>5. Read'
  BY <1>1, <1>3 DEF Read
<1>. QED BY <1>1, <1>4, <1>5, ClientsWait

LEMMA ReadKeeps == FlowInv /\ ReadIndex => FlowInv'
<1>. SUFFICES ASSUME FlowInv, ReadIndex PROVE FlowInv'
  OBVIOUS
<1>. DEFINE n == file.count
            got == Len(file.items)
<1>1. /\ stage = "generated" /\ stage' = IF file = NoFile THEN "failed" ELSE "read"
      /\ UNCHANGED <<file, parts, clientVars>>
  BY DEF ReadIndex
<1>2. TypeOK /\ Read
  BY DEF FlowInv
<1>3. n \in 0 .. MaxItems /\ n \in Nat /\ file.items \in Seq(StorageNo) /\ got \in Nat
  BY <1>2 DEF TypeOK, Read
<1>4. PICK rest \in [got + 1 .. n -> {0, Junk}] :
        items' = [p \in 1 .. n |-> <<IF p <= got THEN file.items[p] ELSE rest[p], 0>>]
  BY DEF ReadIndex
<1>5. ASSUME NEW p \in 1 .. n
      PROVE  <<IF p <= got THEN file.items[p] ELSE rest[p], 0>>
               \in (StorageNo \cup {Junk}) \X StorageNo
  <2>1. 0 \in StorageNo
    BY FlowNumbers
  <2>2. CASE p <= got
    <3>1. file.items[p] \in StorageNo
      BY <1>3, <2>2
    <3>. QED BY <2>1, <2>2, <3>1
  <2>3. CASE ~(p <= got)
    <3>1. p \in got + 1 .. n
      BY <1>3, <2>3
    <3>. HIDE DEF n, got
    <3>2. rest[p] \in {0, Junk}
      BY <1>4, <3>1
    <3>. QED BY <2>1, <2>3, <3>2
  <2>. QED BY <2>2, <2>3
<1>6. items' \in Seq((StorageNo \cup {Junk}) \X StorageNo) /\ Len(items') = n
  <2>. HIDE DEF n, got
  <2>1. items' \in [1 .. n -> (StorageNo \cup {Junk}) \X StorageNo]
    BY <1>4, <1>5
  <2>. QED BY <1>3, <2>1
<1>7. stage' \in {"read", "failed"} /\ (stage' = "read" => n # 0)
  BY <1>1, <1>2 DEF Read
<1>8. TypeOK'
  BY <1>1, <1>2, <1>6, <1>7 DEF TypeOK, clientVars
<1>9. Read'
  BY <1>1, <1>2, <1>3, <1>6, <1>7 DEF Read
<1>10. \A c \in ClientNo : Prepared(c)'
  BY <1>1, ClientsWait
<1>. QED BY <1>8, <1>9, <1>10 DEF FlowInv

LEMMA ShuffleKeeps == FlowInv /\ Shuffle => FlowInv'
<1>. SUFFICES ASSUME FlowInv, Shuffle PROVE FlowInv'
  OBVIOUS
<1>. DEFINE n == Len(items)
            X == (StorageNo \cup {Junk}) \X StorageNo
<1>1. /\ stage = "read" /\ stage' = "sorted" /\ UNCHANGED <<file, parts, clientVars>>
  BY DEF Shuffle
<1>2. TypeOK /\ Read
  BY DEF FlowInv
<1>3. n \in 1 .. MaxItems /\ n \in Nat /\ items \in Seq(X)
  BY <1>1, <1>2 DEF TypeOK, Read
<1>4. items' = items \/ items' \in [1 .. n -> (StorageNo \cup {Junk}) \X {0}]
  BY DEF Shuffle
<1>5. (StorageNo \cup {Junk}) \X {0} \subseteq X
  BY FlowNumbers
<1>6. items' \in Seq(X) /\ Len(items') = n
  <2>1. CASE items' = items
    BY <1>3, <2>1
  <2>2. CASE items' \in [1 .. n -> (StorageNo \cup {Junk}) \X {0}]
    <3>1. items' \in [1 .. n -> X]
      BY <1>5, <2>2
    <3>. HIDE DEF n, X
    <3>. QED BY <1>3, <3>1
  <2>. QED BY <1>4, <2>1, <2>2
<1>7. TypeOK'
  BY <1>1, <1>2, <1>6 DEF TypeOK, clientVars
<1>8. Read'
  BY <1>1, <1>2, <1>3, <1>6 DEF Read
<1>9. \A c \in ClientNo : Prepared(c)'
  BY <1>1, ClientsWait
<1>. QED BY <1>7, <1>8, <1>9 DEF FlowInv

LEMMA CutKeeps == FlowInv /\ Cut => FlowInv'
<1>. SUFFICES ASSUME FlowInv, Cut PROVE FlowInv'
  OBVIOUS
<1>. DEFINE n == Len(items)
            X == (StorageNo \cup {Junk}) \X StorageNo
            to == Destination(n)
            cut == Parts(n)
<1>1. /\ stage = "sorted" /\ stage' = "cut" /\ UNCHANGED <<file, clientVars>>
      /\ items' = [p \in 1 .. n |-> <<items[p][1], to[p]>>] /\ parts' = cut
  BY DEF Cut
<1>2. TypeOK /\ Read
  BY DEF FlowInv
<1>3. n \in 1 .. MaxItems /\ n \in Nat /\ items \in Seq(X)
  BY <1>1, <1>2 DEF TypeOK, Read
<1>4. to \in [1 .. n -> StorageNo]
  BY <1>3, SourcesFound
<1>5. cut.from \in [ClientNo -> Nat] /\ cut.thru \in [ClientNo -> Nat]
  <2>1. cut \in PartState /\ \A c \in ClientNo : cut.from[c] \in Nat /\ cut.thru[c] \in Nat
    BY <1>3, ItemsCountable, PartsNatural
  <2>. HIDE DEF cut
  <2>2. cut.from \in [ClientNo -> Int] /\ cut.thru \in [ClientNo -> Int]
    BY <2>1 DEF PartState
  <2>. QED BY <2>1, <2>2
<1>6. items' \in Seq(X) /\ Len(items') = n
  <2>1. ASSUME NEW p \in 1 .. n
        PROVE  <<items[p][1], to[p]>> \in X
    <3>1. items[p] \in X /\ to[p] \in StorageNo
      BY <1>3, <1>4
    <3>. QED BY <3>1
  <2>. HIDE DEF n, X, to
  <2>2. items' \in [1 .. n -> X]
    BY <1>1, <2>1
  <2>. QED BY <1>3, <2>2
<1>. HIDE DEF to, cut
<1>7. TypeOK'
  BY <1>1, <1>2, <1>5, <1>6 DEF TypeOK, clientVars
<1>8. Read'
  BY <1>1, <1>2, <1>3, <1>6 DEF Read, cut
<1>9. \A c \in ClientNo : Prepared(c)'
  BY <1>1, ClientsWait
<1>. QED BY <1>7, <1>8, <1>9 DEF FlowInv

(* A step of client c leaves the others alone.                             *)
LEMMA OthersKeep ==
  ASSUME FlowInv, UNCHANGED <<stage, items, parts>>, NEW d \in ClientNo,
         cstage'[d] = cstage[d], part'[d] = part[d], ranges'[d] = ranges[d],
         heads'[d] = heads[d], toSend'[d] = toSend[d]
  PROVE  Prepared(d)'
<1>1. Prepared(d)
  BY DEF FlowInv
<1>2. Sent(d)' = Sent(d)
  BY DEF Sent
<1>. QED BY <1>1, <1>2 DEF Prepared

LEMMA ReceiveKeeps ==
  ASSUME FlowInv, NEW c \in ClientNo, Receive(c)
  PROVE  FlowInv'
<1>. DEFINE p == InOrder(Sent(c))
            r == Ranges(p, Range0)
<1>1. TypeOK /\ Read /\ Prepared(c)
  BY DEF FlowInv
<1>2. /\ stage = "cut" /\ cstage[c] = "start" /\ Sent(c) \in Seq(Item)
      /\ UNCHANGED <<stage, file, items, parts, heads, toSend>>
      /\ part' = [part EXCEPT ![c] = p]
      /\ cstage' = [cstage EXCEPT ![c] = "ranges"]
  BY DEF Receive, Sent
<1>3. /\ cstage \in [ClientNo -> {"start", "ranges", "heads", "undefined"}]
      /\ part \in [ClientNo -> Seq(Item)] /\ ranges \in [ClientNo -> [StorageNo -> RangeSet]]
  BY <1>1 DEF TypeOK
<1>4. ranges[c] = Range0 /\ heads[c] = NoHeads /\ toSend[c] = None
  BY <1>1, <1>2 DEF Prepared
<1>5. ranges' = [ranges EXCEPT ![c] = r]
  <2>1. ranges' = [ranges EXCEPT ![c] = Ranges(part'[c], ranges[c])]
    BY DEF Receive
  <2>2. part'[c] = p
    BY <1>2, <1>3
  <2>. QED BY <1>4, <2>1, <2>2
<1>6. Sent(c) # <<>>
  BY <1>1, <1>2, SomethingSent DEF Read
<1>7. p \in Seq(Item) /\ r \in [StorageNo -> RangeSet]
  BY <1>2, <1>6, PartReceived
<1>8. part'[c] = p /\ ranges'[c] = r /\ cstage'[c] = "ranges" /\ Sent(c)' = Sent(c)
  BY <1>2, <1>3, <1>5 DEF Sent
<1>9. TypeOK'
  <2>. HIDE DEF p, r
  <2>1. /\ part' \in [ClientNo -> Seq(Item)] /\ ranges' \in [ClientNo -> [StorageNo -> RangeSet]]
        /\ cstage' \in [ClientNo -> {"start", "ranges", "heads", "undefined"}]
    BY <1>2, <1>3, <1>5, <1>7
  <2>. QED BY <1>1, <1>2, <2>1 DEF TypeOK
<1>10. Read'
  BY <1>1, <1>2 DEF Read
<1>11. ASSUME NEW d \in ClientNo
       PROVE  Prepared(d)'
  <2>1. CASE d = c
    BY <1>2, <1>4, <1>6, <1>8, <2>1 DEF Prepared
  <2>2. CASE d # c
    <3>. HIDE DEF p, r
    <3>1. cstage'[d] = cstage[d] /\ part'[d] = part[d] /\ ranges'[d] = ranges[d]
      BY <1>2, <1>3, <1>5, <2>2
    <3>. QED BY <1>2, <3>1, OthersKeep
  <2>. QED BY <2>1, <2>2
<1>. QED BY <1>9, <1>10, <1>11 DEF FlowInv

LEMMA ReceiveJunkKeeps ==
  ASSUME FlowInv, NEW c \in ClientNo, ReceiveJunk(c)
  PROVE  FlowInv'
<1>1. TypeOK /\ Read /\ Prepared(c)
  BY DEF FlowInv
<1>2. /\ stage = "cut" /\ cstage[c] = "start"
      /\ cstage' = [cstage EXCEPT ![c] = "undefined"]
      /\ UNCHANGED <<stage, file, items, parts, part, ranges, heads, toSend>>
  BY DEF ReceiveJunk
<1>3. cstage \in [ClientNo -> {"start", "ranges", "heads", "undefined"}]
  BY <1>1 DEF TypeOK
<1>4. TypeOK' /\ Read'
  BY <1>1, <1>2 DEF TypeOK, Read
<1>5. ASSUME NEW d \in ClientNo
      PROVE  Prepared(d)'
  <2>1. CASE d = c
    BY <1>1, <1>2, <1>3, <2>1 DEF Prepared
  <2>2. CASE d # c
    BY <1>2, <1>3, <2>2, OthersKeep
  <2>. QED BY <2>1, <2>2
<1>. QED BY <1>4, <1>5 DEF FlowInv

LEMMA FillKeeps ==
  ASSUME FlowInv, NEW c \in ClientNo, FillHeads(c)
  PROVE  FlowInv'
<1>. DEFINE p == part[c]
            x == FillTurns(p, ranges[c], heads[c], toSend[c])[StorageCount]
<1>1. TypeOK /\ Read /\ Prepared(c)
  BY DEF FlowInv
<1>2. /\ cstage[c] = "ranges"
      /\ heads' = [heads EXCEPT ![c] = x.heads] /\ toSend' = [toSend EXCEPT ![c] = x.toSend]
      /\ cstage' = [cstage EXCEPT ![c] = "heads"]
      /\ UNCHANGED <<stage, file, items, parts, part, ranges>>
  BY DEF FillHeads, FillTurns, FillTurn, FillStart
<1>3. /\ cstage \in [ClientNo -> {"start", "ranges", "heads", "undefined"}]
      /\ heads \in [ClientNo -> [StorageNo -> [StorageNo -> Nat]]]
      /\ toSend \in [ClientNo -> [StorageNo -> Nat]]
  BY <1>1 DEF TypeOK
<1>4. /\ stage = "cut" /\ Sent(c) \in Seq(Item) /\ Sent(c) # <<>>
      /\ p = InOrder(Sent(c)) /\ ranges[c] = Ranges(p, Range0)
      /\ heads[c] = NoHeads /\ toSend[c] = None
  BY <1>1, <1>2 DEF Prepared
<1>5. SortedPart(p)
  BY <1>4, PartReceived
<1>6. /\ FillStart(heads[c], toSend[c]) \in FillState
      /\ \A d \in StorageNo : toSend[c][d] = 0 /\ \A s \in StorageNo : heads[c][s][d] = 0
  <2>1. \A d \in StorageNo : None[d] = 0 /\ \A s \in StorageNo : NoHeads[s][d] = 0
    BY DEF None, NoHeads
  <2>2. heads[c] \in [StorageNo -> [StorageNo -> Nat]] /\ toSend[c] \in [StorageNo -> Nat]
    BY <1>3
  <2>. QED BY <1>4, <2>1, <2>2 DEF FillStart, FillState
<1>7. /\ x \in FillState
      /\ \A d \in StorageNo :
           /\ \A s \in StorageNo : x.heads[s][d] = Requested(p, p[1], s, d)
           /\ x.toSend[d] = SumFunctionOnSet(AskedOf(p, d), StorageNo)
  BY <1>4, <1>5, <1>6, HeadsFilled
<1>. HIDE DEF x
<1>8. x.heads \in [StorageNo -> [StorageNo -> Nat]] /\ x.toSend \in [StorageNo -> Nat]
  BY <1>7 DEF FillState
<1>9. TypeOK'
  <2>1. /\ heads' \in [ClientNo -> [StorageNo -> [StorageNo -> Nat]]]
        /\ toSend' \in [ClientNo -> [StorageNo -> Nat]]
        /\ cstage' \in [ClientNo -> {"start", "ranges", "heads", "undefined"}]
    BY <1>2, <1>3, <1>8
  <2>. QED BY <1>1, <1>2, <2>1 DEF TypeOK
<1>10. Read'
  BY <1>1, <1>2 DEF Read
<1>11. ASSUME NEW d \in ClientNo
       PROVE  Prepared(d)'
  <2>1. CASE d = c
    <3>1. /\ stage' = "cut" /\ cstage'[c] = "heads" /\ part'[c] = p /\ ranges'[c] = Ranges(p, Range0)
          /\ heads'[c] = x.heads /\ toSend'[c] = x.toSend /\ Sent(c)' = Sent(c)
      BY <1>2, <1>3, <1>4 DEF Sent
    <3>2. Sent(c)' \in Seq(Item) /\ Sent(c)' # <<>> /\ part'[c] = InOrder(Sent(c)')
      BY <1>4, <3>1
    <3>3. \A e \in StorageNo :
            /\ \A s \in StorageNo : heads'[c][s][e] = Requested(part'[c], part'[c][1], s, e)
            /\ toSend'[c][e] = SumFunctionOnSet(AskedOf(part'[c], e), StorageNo)
      BY <1>7, <3>1
    <3>4. Prepared(c)'
      BY <3>1, <3>2, <3>3 DEF Prepared
    <3>. QED BY <2>1, <3>4
  <2>2. CASE d # c
    BY <1>2, <1>3, <2>2, OthersKeep
  <2>. QED BY <2>1, <2>2
<1>. QED BY <1>9, <1>10, <1>11 DEF FlowInv

LEMMA FlowStays == FlowInv /\ UNCHANGED vars => FlowInv'
<1>. SUFFICES ASSUME FlowInv, UNCHANGED vars PROVE FlowInv'
  OBVIOUS
<1>1. TypeOK' /\ Read'
  BY DEF FlowInv, TypeOK, Read, vars
<1>2. \A c \in ClientNo : Prepared(c)'
  BY OthersKeep DEF vars
<1>. QED BY <1>1, <1>2 DEF FlowInv

LEMMA FlowNext == FlowInv /\ [Next]_vars => FlowInv'
<1>. SUFFICES ASSUME FlowInv, [Next]_vars PROVE FlowInv'
  OBVIOUS
<1>1. CASE \E n \in 1 .. MaxItems : Generate(n) \/ GenerateShort(n)
  BY <1>1, GenerateKeeps
<1>2. CASE ReadIndex
  BY <1>2, ReadKeeps
<1>3. CASE Shuffle
  BY <1>3, ShuffleKeeps
<1>4. CASE Cut
  BY <1>4, CutKeeps
<1>5. ASSUME NEW c \in ClientNo, Receive(c) \/ ReceiveJunk(c) \/ FillHeads(c)
      PROVE  FlowInv'
  BY <1>5, ReceiveKeeps, ReceiveJunkKeeps, FillKeeps
<1>6. CASE AtRest
  BY <1>6, FlowStays DEF AtRest
<1>7. CASE UNCHANGED vars
  BY <1>7, FlowStays
<1>. QED BY <1>1, <1>2, <1>3, <1>4, <1>5, <1>6, <1>7 DEF Next

LEMMA FlowInvariant == Spec => []FlowInv
<1>. QED BY FlowInit, FlowNext, PTL DEF Spec

-----------------------------------------------------------------------------
(* What follows from it.                                                   *)

(* Whatever the size of the index, its order and the short file a killed   *)
(* generator may leave: no quotient of sort_index_data (idg_server.c:      *)
(* 303-317) is beyond the last storage or client, no range of a client     *)
(* (idg_client.c:170-190) gets a negative count.                           *)
THEOREM FlowTypeCorrect == Spec => []TypeOK
<1>1. FlowInv => TypeOK
  BY DEF FlowInv
<1>. QED BY <1>1, FlowInvariant, PTL

(* sort_index_data (idg_server.c:303-317), whatever the number of items    *)
(* below the one a float cannot count: every item goes to a client, and to *)
(* only one unless it is item 0 and there are fewer items than clients,    *)
(* and the clients get as many as one another but for one (or two),        *)
(* although the divisor is rounded.                                        *)
THEOREM PartsDisjoint == Spec => []OnePartEach
<1>1. ASSUME FlowInv, stage = "cut"
      PROVE  PartsOf(Len(items)) /\ parts = Parts(Len(items))
  <2>1. Len(items) \in 1 .. MaxItems /\ parts = Parts(Len(items))
    BY <1>1 DEF FlowInv, Read
  <2>2. Countable(Len(items)) /\ (Len(items) >= ClientCount \/ Len(items) < ClientCount)
    BY <2>1, ItemsCountable, IndexAssumption, FlowAssumption
  <2>. QED BY <2>1, <2>2, PartsMany, PartsOfFew
<1>2. FlowInv => OnePartEach
  BY <1>1 DEF OnePartEach, PartsOf, InPart, Uneven
<1>. QED BY <1>2, FlowInvariant, PTL

(* The heads that init_storages (idg_client.c:443-463) makes of the part   *)
(* that read_index_data (168-198) has sorted and searched are those of the *)
(* items the server has sent, in whatever order they came.                 *)
THEOREM PartAskedFor == Spec => []AsksForItsPart
<1>1. ASSUME FlowInv, NEW c \in ClientNo, cstage[c] = "heads",
             NEW s \in StorageNo, NEW d \in StorageNo
      PROVE  heads[c][s][d] = Requested(Sent(c), part[c][1], s, d)
  <2>1. /\ Sent(c) \in Seq(Item) /\ Sent(c) # <<>> /\ part[c] = InOrder(Sent(c))
        /\ heads[c][s][d] = Requested(part[c], part[c][1], s, d)
    BY <1>1 DEF FlowInv, Prepared
  <2>. QED BY <2>1, PartReceived
<1>2. FlowInv => AsksForItsPart
  BY <1>1 DEF AsksForItsPart
<1>. QED BY <1>2, FlowInvariant, PTL

(* to_send of a destination is the sum of what all storages are asked for  *)
(* on its behalf, and range.count of a source is the number of its items:  *)
(* the two numbers by which the monitor loop of the client (idg_client.c:  *)
(* 537-558) ends a session agree with the requests.                        *)
THEOREM CountsAgree == Spec => []CountsFit
<1>1. ASSUME FlowInv, NEW c \in ClientNo, cstage[c] = "heads", NEW s \in StorageNo
      PROVE  /\ toSend[c][s] = SumFunctionOnSet([i \in StorageNo |-> heads[c][i][s]], StorageNo)
             /\ ranges[c][s].count = ItemsFrom(Sent(c), s)
  <2>1. /\ Sent(c) \in Seq(Item) /\ Sent(c) # <<>> /\ part[c] = InOrder(Sent(c))
        /\ ranges[c] = Ranges(part[c], Range0)
        /\ \A i \in StorageNo : heads[c][i][s] = Requested(part[c], part[c][1], i, s)
        /\ toSend[c][s] = SumFunctionOnSet(AskedOf(part[c], s), StorageNo)
    BY <1>1 DEF FlowInv, Prepared
  <2>2. AskedOf(part[c], s) = [i \in StorageNo |-> heads[c][i][s]]
    BY <2>1 DEF AskedOf
  <2>3. ranges[c][s].count = ItemsFrom(Sent(c), s)
    BY <2>1, PartReceived
  <2>. QED BY <2>1, <2>2, <2>3
<1>2. FlowInv => CountsFit
  BY <1>1 DEF CountsFit
<1>. QED BY <1>2, FlowInvariant, PTL

=============================================================================
