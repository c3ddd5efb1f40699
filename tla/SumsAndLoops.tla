---------------------------- MODULE SumsAndLoops ----------------------------
(***************************************************************************)
(* Lemmas that several proofs need.  Sums over finite sets, what           *)
(* SumFunctionOnSet of the community modules computes: it folds a set by   *)
(* taking one element after the other out; that the fold is defined, and   *)
(* that the order does not matter, is proved by induction over the number  *)
(* of elements, from the theorem that a nonempty set of naturals has a     *)
(* least element.  And the loops of IndexLoops: that they run, and what    *)
(* they find, for any set of storage numbers.                              *)
(***************************************************************************)
EXTENDS IndexLoops, Functions, FiniteSetTheorems, SequenceTheorems,
        WellFoundedInduction, TLAPS

-----------------------------------------------------------------------------
(* Induction, stated with a set in place of a predicate.                   *)

LEMMA Least ==
  ASSUME NEW T, T \subseteq Nat, T # {}
  PROVE  \E m \in T : \A n \in T : m <= n
<1>. DEFINE less == OpToRel(<, Nat)
<1>1. IsWellFoundedOn(less, Nat)
  BY Zenon, NatLessThanWellFounded
<1>2. \A m, n \in Nat : <<n, m>> \in less <=> n < m
  BY Zenon DEF OpToRel
<1>. HIDE DEF less
<1>3. PICK m \in T : \A n \in T : ~ (<<n, m>> \in less)
  BY <1>1, WFMin
<1>4. \A n \in T : ~(n < m)
  BY <1>2, <1>3
<1>. QED BY <1>4

LEMMA SetInduction ==
  ASSUME NEW T, T \subseteq Nat, 0 \in T, \A n \in T : n + 1 \in T
  PROVE  T = Nat
<1>1. SUFFICES ASSUME Nat \ T # {} PROVE FALSE
  OBVIOUS
<1>2. PICK m \in Nat \ T : \A n \in Nat \ T : m <= n
  BY <1>1, Least
<1>3. m # 0 /\ m - 1 \in Nat
  BY <1>2
<1>4. m - 1 \in T
  BY <1>2, <1>3
<1>5. m - 1 + 1 = m
  BY <1>2
<1>. QED BY <1>2, <1>4, <1>5

-----------------------------------------------------------------------------
(* The sum of a function over a set, and the fold it is.                   *)
Pick(s) == CHOOSE x \in s : TRUE
Rest(s) == s \ {Pick(s)}
FoldTurn(f, g, s) == IF s = {} THEN 0 ELSE f[Pick(s)] + g[Rest(s)]
Fold(f, S) == CHOOSE g : g = [s \in SUBSET S |-> FoldTurn(f, g, s)]

LEMMA SumIsFold ==
  ASSUME NEW f, NEW S
  PROVE  SumFunctionOnSet(f, S) = Fold(f, S)[S]
BY DEF SumFunctionOnSet, FoldFunctionOnSet, MapThenFoldSet, FoldTurn, Pick, Rest, Fold

LEMMA RestSmaller ==
  ASSUME NEW s, IsFiniteSet(s), s # {}
  PROVE  /\ Pick(s) \in s /\ Rest(s) \subseteq s /\ IsFiniteSet(Rest(s))
         /\ Cardinality(s) \in Nat /\ Cardinality(Rest(s)) \in Nat
         /\ Cardinality(s) = Cardinality(Rest(s)) + 1
<1>1. Pick(s) \in s /\ Rest(s) \subseteq s
  BY DEF Pick, Rest
<1>2. IsFiniteSet(Rest(s)) /\ Cardinality(Rest(s)) = Cardinality(s) - 1
  BY <1>1, FS_RemoveElement DEF Rest
<1>3. Cardinality(s) \in Nat /\ Cardinality(Rest(s)) \in Nat
  BY <1>2, FS_CardinalityType
<1>. QED BY <1>1, <1>2, <1>3

(* The subsets of S of at most n elements.                                 *)
Small(S, n) == {s \in SUBSET S : Cardinality(s) <= n}

LEMMA SmallRest ==
  ASSUME NEW S, IsFiniteSet(S), NEW n \in Nat, NEW s \in Small(S, n + 1), s # {}
  PROVE  Rest(s) \in Small(S, n) /\ Pick(s) \in S
<1>1. s \subseteq S /\ IsFiniteSet(s) /\ Cardinality(s) <= n + 1
  BY FS_Subset DEF Small
<1>. QED BY <1>1, RestSmaller DEF Small

LEMMA SmallGrows ==
  ASSUME NEW S, IsFiniteSet(S), NEW n \in Nat
  PROVE  Small(S, n) \subseteq Small(S, n + 1)
<1>1. \A s \in SUBSET S : Cardinality(s) \in Nat
  BY FS_Subset, FS_CardinalityType
<1>. QED BY <1>1 DEF Small

Solves(f, g, S) == \A s \in SUBSET S : g[s] = FoldTurn(f, g, s)

(* Two functions that satisfy the equation of the fold agree.              *)
LEMMA FoldUnique ==
  ASSUME NEW f, NEW g, NEW h, NEW S, IsFiniteSet(S),
         Solves(f, g, S), Solves(f, h, S)
  PROVE  \A s \in SUBSET S : g[s] = h[s]
<1>. DEFINE T == {n \in Nat : \A s \in Small(S, n) : g[s] = h[s]}
<1>1. \A s \in SUBSET S : IsFiniteSet(s) /\ Cardinality(s) \in Nat
  BY FS_Subset, FS_CardinalityType
<1>2. 0 \in T
  <2>1. \A s \in Small(S, 0) : s = {} /\ s \in SUBSET S
    <3>1. \A s \in Small(S, 0) : Cardinality(s) = 0 /\ IsFiniteSet(s) /\ s \in SUBSET S
      BY <1>1 DEF Small
    <3>. QED BY <3>1, FS_EmptySet
  <2>. QED BY <2>1 DEF FoldTurn, Solves
<1>3. ASSUME NEW n \in T
      PROVE  n + 1 \in T
  <2>1. n \in Nat /\ \A s \in Small(S, n) : g[s] = h[s]
    OBVIOUS
  <2>2. ASSUME NEW s \in Small(S, n + 1)
        PROVE  g[s] = h[s]
    <3>1. s \in SUBSET S
      BY DEF Small
    <3>2. s # {} => g[Rest(s)] = h[Rest(s)]
      BY <2>1, SmallRest
    <3>. QED BY <3>1, <3>2 DEF FoldTurn, Solves
  <2>. QED BY <2>1, <2>2
<1>4. T = Nat
  <2>1. T \subseteq Nat
    OBVIOUS
  <2>. HIDE DEF T
  <2>. QED BY <1>2, <1>3, <2>1, SetInduction
<1>5. ASSUME NEW s \in SUBSET S
      PROVE  g[s] = h[s]
  <2>1. Cardinality(s) \in T
    BY <1>1, <1>4
  <2>2. s \in Small(S, Cardinality(s))
    BY <1>1 DEF Small
  <2>. QED BY <2>1, <2>2
<1>. QED BY <1>5

LEMMA FoldExists ==
  ASSUME NEW f, NEW S, IsFiniteSet(S), \A x \in S : f[x] \in Int
  PROVE  /\ Fold(f, S) = [s \in SUBSET S |-> FoldTurn(f, Fold(f, S), s)]
         /\ Fold(f, S) \in [SUBSET S -> Int]
<1>. DEFINE Good(n, g) == /\ g \in [Small(S, n) -> Int]
                          /\ \A s \in Small(S, n) : g[s] = FoldTurn(f, g, s)
            T == {n \in Nat : \E g : Good(n, g)}
<1>1. 0 \in T
  <2>. DEFINE g == [s \in Small(S, 0) |-> 0]
  <2>1. \A s \in Small(S, 0) : s = {}
    <3>1. \A s \in SUBSET S : IsFiniteSet(s) /\ Cardinality(s) \in Nat
      BY FS_Subset, FS_CardinalityType
    <3>2. \A s \in Small(S, 0) : Cardinality(s) = 0 /\ IsFiniteSet(s)
      BY <3>1 DEF Small
    <3>. QED BY <3>2, FS_EmptySet
  <2>2. Good(0, g)
    BY <2>1 DEF FoldTurn
  <2>. QED BY <2>2
<1>2. ASSUME NEW n \in T
      PROVE  n + 1 \in T
  <2>1. n \in Nat
    OBVIOUS
  <2>2. PICK g : Good(n, g)
    OBVIOUS
  <2>. DEFINE h == [s \in Small(S, n + 1) |-> FoldTurn(f, g, s)]
  <2>3. \A s \in Small(S, n + 1) : s # {} => Rest(s) \in Small(S, n) /\ Pick(s) \in S
    BY <2>1, SmallRest
  <2>4. \A s \in Small(S, n + 1) : h[s] \in Int /\ h[s] = FoldTurn(f, g, s)
    BY <2>2, <2>3 DEF FoldTurn
  <2>5. \A s \in Small(S, n) : h[s] = g[s]
    BY <2>1, <2>2, <2>4, SmallGrows
  <2>6. \A s \in Small(S, n + 1) : FoldTurn(f, h, s) = FoldTurn(f, g, s)
    BY <2>3, <2>5 DEF FoldTurn
  <2>7. h \in [Small(S, n + 1) -> Int]
    BY <2>4
  <2>. HIDE DEF h
  <2>8. Good(n + 1, h)
    BY <2>4, <2>6, <2>7
  <2>. QED BY <2>1, <2>8
<1>3. T = Nat
  <2>. HIDE DEF Good
  <2>1. T \subseteq Nat
    OBVIOUS
  <2>. HIDE DEF T
  <2>. QED BY <1>1, <1>2, <2>1, SetInduction
<1>4. Cardinality(S) \in Nat
  BY FS_CardinalityType
<1>5. PICK g : Good(Cardinality(S), g)
  BY <1>3, <1>4
<1>6. Small(S, Cardinality(S)) = SUBSET S
  BY FS_Subset DEF Small
<1>7. g = [s \in SUBSET S |-> FoldTurn(f, g, s)] /\ g \in [SUBSET S -> Int]
  BY <1>5, <1>6
<1>. HIDE DEF Good, T
<1>8. Fold(f, S) = [s \in SUBSET S |-> FoldTurn(f, Fold(f, S), s)]
  BY <1>7 DEF Fold
<1>9. Solves(f, Fold(f, S), S) /\ Solves(f, g, S)
  BY <1>7, <1>8 DEF Solves
<1>10. \A s \in SUBSET S : Fold(f, S)[s] = g[s]
  BY <1>9, FoldUnique
<1>11. DOMAIN Fold(f, S) = SUBSET S
       /\ Fold(f, S) = [s \in SUBSET S |-> Fold(f, S)[s]]
  BY <1>8
<1>. QED BY <1>7, <1>8, <1>10, <1>11

(* The fold over a set is that over a larger one, on its subsets.          *)
LEMMA FoldLocal ==
  ASSUME NEW f, NEW S, IsFiniteSet(S), \A x \in S : f[x] \in Int,
         NEW R \in SUBSET S
  PROVE  SumFunctionOnSet(f, R) = Fold(f, S)[R]
<1>1. IsFiniteSet(R) /\ \A x \in R : f[x] \in Int
  BY FS_Subset
<1>2. Solves(f, Fold(f, R), R)
  <2>1. Fold(f, R) = [s \in SUBSET R |-> FoldTurn(f, Fold(f, R), s)]
    BY <1>1, FoldExists
  <2>. QED BY <2>1 DEF Solves
<1>3. Solves(f, Fold(f, S), R)
  <2>1. Fold(f, S) = [s \in SUBSET S |-> FoldTurn(f, Fold(f, S), s)]
    BY FoldExists
  <2>. QED BY <2>1 DEF Solves
<1>4. \A s \in SUBSET R : Fold(f, R)[s] = Fold(f, S)[s]
  BY <1>1, <1>2, <1>3, FoldUnique
<1>. QED BY <1>4, SumIsFold

-----------------------------------------------------------------------------
(* What a sum is.                                                          *)

LEMMA SumType ==
  ASSUME NEW f, NEW S, IsFiniteSet(S), \A x \in S : f[x] \in Int
  PROVE  SumFunctionOnSet(f, S) \in Int
<1>1. Fold(f, S) \in [SUBSET S -> Int]
  BY FoldExists
<1>. QED BY <1>1, SumIsFold

LEMMA SumEmpty ==
  ASSUME NEW f
  PROVE  SumFunctionOnSet(f, {}) = 0
<1>1. IsFiniteSet({}) /\ \A x \in {} : f[x] \in Int
  BY FS_EmptySet
<1>2. Fold(f, {}) = [s \in SUBSET {} |-> FoldTurn(f, Fold(f, {}), s)]
  BY <1>1, FoldExists
<1>3. {} \in SUBSET {}
  OBVIOUS
<1>4. Fold(f, {})[{}] = FoldTurn(f, Fold(f, {}), {})
  BY <1>2, <1>3
<1>. QED BY <1>4, SumIsFold DEF FoldTurn

LEMMA SumPick ==
  ASSUME NEW f, NEW S, IsFiniteSet(S), \A x \in S : f[x] \in Int, S # {}
  PROVE  SumFunctionOnSet(f, S) = f[Pick(S)] + SumFunctionOnSet(f, Rest(S))
<1>1. Rest(S) \in SUBSET S /\ S \in SUBSET S
  BY DEF Rest
<1>2. Fold(f, S) = [s \in SUBSET S |-> FoldTurn(f, Fold(f, S), s)]
  BY FoldExists
<1>3. Fold(f, S)[S] = FoldTurn(f, Fold(f, S), S)
  BY <1>1, <1>2
<1>4. SumFunctionOnSet(f, S) = Fold(f, S)[S] /\ SumFunctionOnSet(f, Rest(S)) = Fold(f, S)[Rest(S)]
  BY <1>1, FoldLocal
<1>. QED BY <1>3, <1>4 DEF FoldTurn

(* Any element may be taken out first.                                     *)
LEMMA SumElement ==
  ASSUME NEW f, NEW S, IsFiniteSet(S), \A x \in S : f[x] \in Int,
         NEW e \in S
  PROVE  SumFunctionOnSet(f, S) = f[e] + SumFunctionOnSet(f, S \ {e})
<1>. DEFINE T == {n \in Nat : \A s \in Small(S, n) : \A x \in s :
                                SumFunctionOnSet(f, s) = f[x] + SumFunctionOnSet(f, s \ {x})}
<1>1. \A s \in SUBSET S : IsFiniteSet(s) /\ Cardinality(s) \in Nat
                          /\ \A x \in s : f[x] \in Int
  BY FS_Subset, FS_CardinalityType
<1>2. 0 \in T
  <2>1. \A s \in Small(S, 0) : s = {}
    <3>1. \A s \in Small(S, 0) : Cardinality(s) = 0 /\ IsFiniteSet(s)
      BY <1>1 DEF Small
    <3>. QED BY <3>1, FS_EmptySet
  <2>. QED BY <2>1
<1>3. ASSUME NEW n \in T
      PROVE  n + 1 \in T
  <2>1. n \in Nat
    OBVIOUS
  <2>2. \A s \in Small(S, n) : \A x \in s : SumFunctionOnSet(f, s) = f[x] + SumFunctionOnSet(f, s \ {x})
    OBVIOUS
  <2>3. ASSUME NEW s \in Small(S, n + 1), NEW x \in s
        PROVE  SumFunctionOnSet(f, s) = f[x] + SumFunctionOnSet(f, s \ {x})
    <3>. DEFINE y == Pick(s)
    <3>1. s \in SUBSET S /\ s # {}
      BY DEF Small
    <3>2. y \in s /\ Rest(s) = s \ {y}
      BY <3>1 DEF Pick, Rest
    <3>3. SumFunctionOnSet(f, s) = f[y] + SumFunctionOnSet(f, s \ {y})
      <4>1. IsFiniteSet(s) /\ \A z \in s : f[z] \in Int
        BY <1>1, <3>1
      <4>2. SumFunctionOnSet(f, s) = f[Pick(s)] + SumFunctionOnSet(f, Rest(s))
        BY <4>1, <3>1, SumPick
      <4>. QED BY <4>2, <3>2
    <3>4. CASE x = y
      BY <3>3, <3>4
    <3>5. CASE x # y
      <4>1. \A z \in s : s \ {z} \in Small(S, n)
        <5>1. ASSUME NEW z \in s
              PROVE  Cardinality(s \ {z}) <= n
          <6>1. Cardinality(s \ {z}) = Cardinality(s) - 1
            BY <1>1, <3>1, FS_RemoveElement
          <6>2. Cardinality(s) \in Nat /\ Cardinality(s) <= n + 1
            BY <1>1, <3>1 DEF Small
          <6>. QED BY <6>1, <6>2, <2>1
        <5>. QED BY <3>1, <5>1 DEF Small
      <4>2. SumFunctionOnSet(f, s \ {y}) = f[x] + SumFunctionOnSet(f, (s \ {y}) \ {x})
        BY <2>2, <3>2, <3>5, <4>1
      <4>3. SumFunctionOnSet(f, s \ {x}) = f[y] + SumFunctionOnSet(f, (s \ {x}) \ {y})
        BY <2>2, <3>2, <3>5, <4>1
      <4>4. (s \ {y}) \ {x} = (s \ {x}) \ {y}
        OBVIOUS
      <4>5. SumFunctionOnSet(f, (s \ {x}) \ {y}) \in Int /\ f[x] \in Int /\ f[y] \in Int
        <5>1. (s \ {x}) \ {y} \in SUBSET S
          BY <3>1
        <5>. QED BY <5>1, <1>1, <3>1, <3>2, SumType
      <4>. DEFINE a == f[x]  b == f[y]  c == SumFunctionOnSet(f, (s \ {x}) \ {y})
      <4>6. SumFunctionOnSet(f, s) = b + (a + c) /\ SumFunctionOnSet(f, s \ {x}) = b + c
        BY <3>3, <4>2, <4>3, <4>4
      <4>7. a \in Int /\ b \in Int /\ c \in Int
        BY <4>5
      <4>. HIDE DEF a, b, c
      <4>8. b + (a + c) = a + (b + c)
        BY <4>7
      <4>. QED BY <4>6, <4>8 DEF a
    <3>. QED BY <3>4, <3>5
  <2>. QED BY <2>1, <2>3
<1>4. T = Nat
  <2>1. T \subseteq Nat
    OBVIOUS
  <2>. HIDE DEF T
  <2>. QED BY <1>2, <1>3, <2>1, SetInduction
<1>5. S \in Small(S, Cardinality(S)) /\ Cardinality(S) \in T
  BY <1>1, <1>4 DEF Small
<1>. QED BY <1>5

LEMMA SumAdds ==
  ASSUME NEW f, NEW S, IsFiniteSet(S), \A x \in S : f[x] \in Int,
         NEW e, e \notin S, f[e] \in Int
  PROVE  SumFunctionOnSet(f, S \cup {e}) = SumFunctionOnSet(f, S) + f[e]
<1>1. IsFiniteSet(S \cup {e}) /\ \A x \in S \cup {e} : f[x] \in Int
  BY FS_AddElement
<1>2. e \in S \cup {e} /\ (S \cup {e}) \ {e} = S
  OBVIOUS
<1>3. SumFunctionOnSet(f, S \cup {e}) = f[e] + SumFunctionOnSet(f, (S \cup {e}) \ {e})
  BY <1>1, <1>2, SumElement
<1>4. SumFunctionOnSet(f, S \cup {e}) = f[e] + SumFunctionOnSet(f, S)
  BY <1>2, <1>3
<1>. DEFINE a == SumFunctionOnSet(f, S)  b == f[e]
<1>5. a \in Int /\ b \in Int
  BY SumType
<1>6. SumFunctionOnSet(f, S \cup {e}) = b + a
  BY <1>4
<1>. HIDE DEF a, b
<1>7. b + a = a + b
  BY <1>5
<1>. QED BY <1>6, <1>7 DEF a, b

(* Sums over sets of n + 1 elements follow from those over n: the step of  *)
(* the inductions below, which are over the subsets of a finite set.       *)
LEMMA SubsetInduction ==
  ASSUME NEW S, IsFiniteSet(S),
         NEW G, G \subseteq SUBSET S, {} \in G,
         \A s \in G : \A e \in S \ s : s \cup {e} \in G
  PROVE  G = SUBSET S
<1>. DEFINE T == {n \in Nat : Small(S, n) \subseteq G}
<1>1. \A s \in SUBSET S : IsFiniteSet(s) /\ Cardinality(s) \in Nat
  BY FS_Subset, FS_CardinalityType
<1>2. 0 \in T
  <2>1. \A s \in Small(S, 0) : s = {}
    <3>1. \A s \in Small(S, 0) : Cardinality(s) = 0 /\ IsFiniteSet(s)
      BY <1>1 DEF Small
    <3>. QED BY <3>1, FS_EmptySet
  <2>. QED BY <2>1
<1>3. ASSUME NEW n \in T
      PROVE  n + 1 \in T
  <2>1. n \in Nat /\ Small(S, n) \subseteq G
    OBVIOUS
  <2>2. ASSUME NEW s \in Small(S, n + 1), s # {}
        PROVE  s \in G
    <3>1. s \in SUBSET S
      BY DEF Small
    <3>2. Rest(s) \in G
      BY <2>1, <2>2, SmallRest
    <3>3. Pick(s) \in s /\ Pick(s) \in S \ Rest(s) /\ s = Rest(s) \cup {Pick(s)}
      BY <2>2, <3>1 DEF Pick, Rest
    <3>4. Rest(s) \cup {Pick(s)} \in G
      BY <3>2, <3>3
    <3>. QED BY <3>3, <3>4
  <2>3. Small(S, n + 1) \subseteq G
    BY <2>2
  <2>. QED BY <2>1, <2>3
<1>4. T = Nat
  <2>1. T \subseteq Nat
    OBVIOUS
  <2>. HIDE DEF T
  <2>. QED BY <1>2, <1>3, <2>1, SetInduction
<1>5. \A s \in SUBSET S : s \in Small(S, Cardinality(s)) /\ Cardinality(s) \in T
  BY <1>1, <1>4 DEF Small
<1>. QED BY <1>5

(* Functions that agree have one sum; so have functions that agree but for *)
(* the names of the elements.                                              *)
LEMMA SumRenamed ==
  ASSUME NEW f, NEW g, NEW b, NEW S, IsFiniteSet(S),
         \A x \in S : f[x] \in Int /\ g[b[x]] = f[x],
         \A x, y \in S : b[x] = b[y] => x = y
  PROVE  SumFunctionOnSet(g, {b[x] : x \in S}) = SumFunctionOnSet(f, S)
<1>. DEFINE Image(s) == {b[x] : x \in s}
            G == {s \in SUBSET S : IsFiniteSet(Image(s))
                                   /\ SumFunctionOnSet(g, Image(s)) = SumFunctionOnSet(f, s)}
<1>1. {} \in G
  <2>1. Image({}) = {}
    OBVIOUS
  <2>. QED BY <2>1, SumEmpty, FS_EmptySet
<1>2. ASSUME NEW s \in G, NEW e \in S \ s
      PROVE  s \cup {e} \in G
  <2>1. s \in SUBSET S /\ IsFiniteSet(s)
    BY FS_Subset
  <2>2. Image(s \cup {e}) = Image(s) \cup {b[e]} /\ b[e] \notin Image(s)
    BY <2>1
  <2>3. IsFiniteSet(Image(s)) /\ \A y \in Image(s) : g[y] \in Int
    BY <2>1
  <2>4. SumFunctionOnSet(g, Image(s)) = SumFunctionOnSet(f, s)
    OBVIOUS
  <2>5. g[b[e]] = f[e] /\ f[e] \in Int /\ e \notin s /\ \A x \in s : f[x] \in Int
    BY <2>1
  <2>6. SumFunctionOnSet(f, s \cup {e}) = SumFunctionOnSet(f, s) + f[e]
    BY <2>1, <2>5, SumAdds
  <2>. HIDE DEF Image, G
  <2>7. SumFunctionOnSet(g, Image(s) \cup {b[e]}) = SumFunctionOnSet(g, Image(s)) + g[b[e]]
    BY <2>2, <2>3, <2>5, SumAdds
  <2>8. IsFiniteSet(Image(s) \cup {b[e]})
    BY <2>3, FS_AddElement
  <2>. QED BY <2>1, <2>2, <2>4, <2>5, <2>6, <2>7, <2>8 DEF G
<1>3. G = SUBSET S
  <2>1. G \subseteq SUBSET S
    OBVIOUS
  <2>. HIDE DEF G
  <2>. QED BY <1>1, <1>2, <2>1, SubsetInduction
<1>. QED BY <1>3

LEMMA SumSame ==
  ASSUME NEW f, NEW g, NEW S, IsFiniteSet(S),
         \A x \in S : f[x] \in Int /\ g[x] = f[x]
  PROVE  SumFunctionOnSet(g, S) = SumFunctionOnSet(f, S)
<1>. DEFINE b == [x \in S |-> x]
<1>1. {b[x] : x \in S} = S
  OBVIOUS
<1>2. \A x \in S : f[x] \in Int /\ g[b[x]] = f[x]
  OBVIOUS
<1>3. \A x, y \in S : b[x] = b[y] => x = y
  OBVIOUS
<1>. HIDE DEF b
<1>4. SumFunctionOnSet(g, {b[x] : x \in S}) = SumFunctionOnSet(f, S)
  BY <1>2, <1>3, SumRenamed
<1>. QED BY <1>1, <1>4

(* One term changes.                                                       *)
LEMMA SumChanges ==
  ASSUME NEW f, NEW g, NEW S, IsFiniteSet(S), NEW e \in S,
         \A x \in S : f[x] \in Int,
         \A x \in S \ {e} : g[x] = f[x],
         g[e] \in Int
  PROVE  SumFunctionOnSet(g, S) = SumFunctionOnSet(f, S) + (g[e] - f[e])
<1>1. IsFiniteSet(S \ {e})
  BY FS_RemoveElement
<1>2. SumFunctionOnSet(g, S \ {e}) = SumFunctionOnSet(f, S \ {e})
  BY <1>1, SumSame
<1>3. SumFunctionOnSet(f, S \ {e}) \in Int
  BY <1>1, SumType
<1>4. SumFunctionOnSet(f, S) = f[e] + SumFunctionOnSet(f, S \ {e})
  BY SumElement
<1>5. \A x \in S : g[x] \in Int
  OBVIOUS
<1>6. SumFunctionOnSet(g, S) = g[e] + SumFunctionOnSet(g, S \ {e})
  BY <1>5, SumElement
<1>. DEFINE r == SumFunctionOnSet(f, S \ {e})
<1>7. SumFunctionOnSet(f, S) = f[e] + r /\ SumFunctionOnSet(g, S) = g[e] + r /\ r \in Int
      /\ f[e] \in Int /\ g[e] \in Int
  BY <1>2, <1>3, <1>4, <1>6
<1>. HIDE DEF r
<1>. QED BY <1>7

(* Terms that are nowhere larger make a sum that is not; where one is      *)
(* smaller the sum is.                                                     *)
LEMMA SumMonotone ==
  ASSUME NEW f, NEW g, NEW S, IsFiniteSet(S),
         \A x \in S : f[x] \in Int /\ g[x] \in Int /\ f[x] <= g[x]
  PROVE  SumFunctionOnSet(f, S) <= SumFunctionOnSet(g, S)
<1>. DEFINE G == {s \in SUBSET S : SumFunctionOnSet(f, s) <= SumFunctionOnSet(g, s)}
<1>1. {} \in G
  BY SumEmpty
<1>2. ASSUME NEW s \in G, NEW e \in S \ s
      PROVE  s \cup {e} \in G
  <2>1. s \in SUBSET S /\ IsFiniteSet(s) /\ e \notin s
    BY FS_Subset
  <2>2. f[e] \in Int /\ g[e] \in Int /\ f[e] <= g[e]
        /\ \A x \in s : f[x] \in Int /\ g[x] \in Int
    BY <2>1
  <2>3. SumFunctionOnSet(f, s \cup {e}) = SumFunctionOnSet(f, s) + f[e] /\ SumFunctionOnSet(f, s) \in Int
    BY <2>1, <2>2, SumAdds, SumType
  <2>4. SumFunctionOnSet(g, s \cup {e}) = SumFunctionOnSet(g, s) + g[e] /\ SumFunctionOnSet(g, s) \in Int
    BY <2>1, <2>2, SumAdds, SumType
  <2>5. SumFunctionOnSet(f, s) <= SumFunctionOnSet(g, s) /\ s \cup {e} \in SUBSET S
    OBVIOUS
  <2>6. SumFunctionOnSet(f, s \cup {e}) <= SumFunctionOnSet(g, s \cup {e})
    BY <2>2, <2>3, <2>4, <2>5
  <2>. QED BY <2>5, <2>6
<1>3. G = SUBSET S
  <2>1. G \subseteq SUBSET S
    OBVIOUS
  <2>. HIDE DEF G
  <2>. QED BY <1>1, <1>2, <2>1, SubsetInduction
<1>. QED BY <1>3

LEMMA SumZero ==
  ASSUME NEW f, NEW S, IsFiniteSet(S), \A x \in S : f[x] = 0
  PROVE  SumFunctionOnSet(f, S) = 0
<1>. DEFINE G == {s \in SUBSET S : SumFunctionOnSet(f, s) = 0}
<1>1. {} \in G
  BY SumEmpty
<1>2. ASSUME NEW s \in G, NEW e \in S \ s
      PROVE  s \cup {e} \in G
  <2>1. s \in SUBSET S /\ IsFiniteSet(s) /\ e \notin s
    BY FS_Subset
  <2>2. f[e] = 0 /\ \A x \in s : f[x] \in Int
    BY <2>1
  <2>3. SumFunctionOnSet(f, s \cup {e}) = SumFunctionOnSet(f, s) + f[e]
    BY <2>1, <2>2, SumAdds
  <2>. QED BY <2>2, <2>3
<1>3. G = SUBSET S
  <2>1. G \subseteq SUBSET S
    OBVIOUS
  <2>. HIDE DEF G
  <2>. QED BY <1>1, <1>2, <2>1, SubsetInduction
<1>. QED BY <1>3

LEMMA SumNat ==
  ASSUME NEW f, NEW S, IsFiniteSet(S), \A x \in S : f[x] \in Nat
  PROVE  SumFunctionOnSet(f, S) \in Nat /\ \A x \in S : f[x] <= SumFunctionOnSet(f, S)
<1>. DEFINE zero == [x \in S |-> 0]
<1>1. ASSUME NEW s \in SUBSET S
      PROVE  SumFunctionOnSet(f, s) \in Nat
  <2>1. IsFiniteSet(s) /\ \A x \in s : zero[x] = 0 /\ f[x] \in Nat
    BY FS_Subset
  <2>. HIDE DEF zero
  <2>2. SumFunctionOnSet(zero, s) = 0
    BY <2>1, SumZero
  <2>3. SumFunctionOnSet(f, s) \in Int
    BY <2>1, SumType
  <2>4. \A x \in s : zero[x] \in Int /\ f[x] \in Int /\ zero[x] <= f[x]
    BY <2>1
  <2>5. SumFunctionOnSet(zero, s) <= SumFunctionOnSet(f, s)
    BY <2>1, <2>4, SumMonotone
  <2>. QED BY <2>2, <2>3, <2>5
<1>2. ASSUME NEW x \in S
      PROVE  f[x] <= SumFunctionOnSet(f, S)
  <2>1. SumFunctionOnSet(f, S) = f[x] + SumFunctionOnSet(f, S \ {x})
    BY SumElement
  <2>2. SumFunctionOnSet(f, S \ {x}) \in Nat
    BY <1>1
  <2>. QED BY <2>1, <2>2
<1>. QED BY <1>1, <1>2

(* The sum of sums.                                                        *)
LEMMA SumPlus ==
  ASSUME NEW f, NEW g, NEW h, NEW S, IsFiniteSet(S),
         \A x \in S : f[x] \in Int /\ g[x] \in Int /\ h[x] = f[x] + g[x]
  PROVE  SumFunctionOnSet(h, S) = SumFunctionOnSet(f, S) + SumFunctionOnSet(g, S)
<1>. DEFINE G == {s \in SUBSET S : SumFunctionOnSet(h, s) = SumFunctionOnSet(f, s) + SumFunctionOnSet(g, s)}
<1>1. {} \in G
  BY SumEmpty
<1>2. ASSUME NEW s \in G, NEW e \in S \ s
      PROVE  s \cup {e} \in G
  <2>1. s \in SUBSET S /\ IsFiniteSet(s) /\ e \notin s
    BY FS_Subset
  <2>2. f[e] \in Int /\ g[e] \in Int /\ h[e] = f[e] + g[e] /\ h[e] \in Int
        /\ \A x \in s : f[x] \in Int /\ g[x] \in Int /\ h[x] \in Int
    BY <2>1
  <2>3. SumFunctionOnSet(f, s \cup {e}) = SumFunctionOnSet(f, s) + f[e] /\ SumFunctionOnSet(f, s) \in Int
    BY <2>1, <2>2, SumAdds, SumType
  <2>4. SumFunctionOnSet(g, s \cup {e}) = SumFunctionOnSet(g, s) + g[e] /\ SumFunctionOnSet(g, s) \in Int
    BY <2>1, <2>2, SumAdds, SumType
  <2>5. SumFunctionOnSet(h, s \cup {e}) = SumFunctionOnSet(h, s) + h[e]
    BY <2>1, <2>2, SumAdds
  <2>6. SumFunctionOnSet(h, s) = SumFunctionOnSet(f, s) + SumFunctionOnSet(g, s) /\ s \cup {e} \in SUBSET S
    OBVIOUS
  <2>7. SumFunctionOnSet(h, s \cup {e}) = SumFunctionOnSet(f, s \cup {e}) + SumFunctionOnSet(g, s \cup {e})
    BY <2>2, <2>3, <2>4, <2>5, <2>6
  <2>. QED BY <2>6, <2>7
<1>3. G = SUBSET S
  <2>1. G \subseteq SUBSET S
    OBVIOUS
  <2>. HIDE DEF G
  <2>. QED BY <1>1, <1>2, <2>1, SubsetInduction
<1>. QED BY <1>3

(* A part of a sum of naturals is no more than the whole.                  *)
LEMMA SumSubset ==
  ASSUME NEW f, NEW S, IsFiniteSet(S), \A x \in S : f[x] \in Nat,
         NEW R \in SUBSET S
  PROVE  SumFunctionOnSet(f, R) <= SumFunctionOnSet(f, S)
<1>. DEFINE part == [x \in S |-> IF x \in R THEN f[x] ELSE 0]
            G == {s \in SUBSET S : SumFunctionOnSet(part, s) =
                                   SumFunctionOnSet(f, s \cap R)}
<1>1. \A x \in S : part[x] \in Int /\ f[x] \in Int /\ part[x] <= f[x]
  OBVIOUS
<1>2. SumFunctionOnSet(part, S) <= SumFunctionOnSet(f, S)
  <2>. HIDE DEF part
  <2>. QED BY <1>1, SumMonotone
<1>3. {} \in G
  <2>1. {} \cap R = {}
    OBVIOUS
  <2>. QED BY <2>1, SumEmpty
<1>4. ASSUME NEW s \in G, NEW e \in S \ s
      PROVE  s \cup {e} \in G
  <2>1. s \in SUBSET S /\ SumFunctionOnSet(part, s) = SumFunctionOnSet(f, s \cap R)
    OBVIOUS
  <2>2. IsFiniteSet(s) /\ IsFiniteSet(s \cap R)
    BY <2>1, FS_Subset
  <2>3. \A x \in s : part[x] \in Int
    BY <1>1, <2>1
  <2>4. \A x \in s \cap R : f[x] \in Int
    BY <1>1, <2>1
  <2>5. e \notin s /\ e \notin s \cap R /\ part[e] \in Int /\ f[e] \in Int
    BY <1>1
  <2>6. SumFunctionOnSet(part, s \cup {e}) = SumFunctionOnSet(part, s) + part[e]
    <3>. HIDE DEF part, G
    <3>. QED BY <2>2, <2>3, <2>5, SumAdds
  <2>7. SumFunctionOnSet(f, s \cap R) \in Int
    BY <2>2, <2>4, SumType
  <2>8. CASE e \in R
    <3>1. part[e] = f[e] /\ (s \cup {e}) \cap R = (s \cap R) \cup {e}
      BY <2>8
    <3>2. SumFunctionOnSet(f, (s \cap R) \cup {e}) = SumFunctionOnSet(f, s \cap R) + f[e]
      <4>. HIDE DEF part, G
      <4>. QED BY <2>2, <2>4, <2>5, SumAdds
    <3>3. SumFunctionOnSet(part, s \cup {e}) = SumFunctionOnSet(f, (s \cup {e}) \cap R)
      <4>. HIDE DEF part, G
      <4>. QED BY <2>1, <2>6, <3>1, <3>2
    <3>. QED BY <2>1, <3>3
  <2>9. CASE e \notin R
    <3>1. part[e] = 0 /\ (s \cup {e}) \cap R = s \cap R
      BY <2>9
    <3>2. SumFunctionOnSet(part, s \cup {e}) = SumFunctionOnSet(f, (s \cup {e}) \cap R)
      <4>. HIDE DEF part, G
      <4>. QED BY <2>1, <2>6, <2>7, <3>1
    <3>. QED BY <2>1, <3>2
  <2>. QED BY <2>8, <2>9
<1>5. SumFunctionOnSet(part, S) = SumFunctionOnSet(f, S \cap R)
  <2>1. G \subseteq SUBSET S
    OBVIOUS
  <2>2. G = SUBSET S
    <3>. HIDE DEF G
    <3>. QED BY <1>3, <1>4, <2>1, SubsetInduction
  <2>3. S \in G
    BY <2>2
  <2>. QED BY <2>3
<1>6. S \cap R = R
  OBVIOUS
<1>. QED BY <1>2, <1>5, <1>6

-----------------------------------------------------------------------------
(* Sums over the positions of a sequence.                                  *)

LEMMA SumAppend ==
  ASSUME NEW n \in Nat, NEW f, NEW g,
         \A k \in 1 .. n : f[k] \in Nat /\ g[k] = f[k],
         g[n + 1] \in Nat
  PROVE  SumFunctionOnSet(g, 1 .. n + 1) = SumFunctionOnSet(f, 1 .. n) + g[n + 1]
<1>1. 1 .. n + 1 = (1 .. n) \cup {n + 1} /\ n + 1 \notin 1 .. n
  OBVIOUS
<1>2. IsFiniteSet(1 .. n)
  BY FS_Interval
<1>3. SumFunctionOnSet(g, 1 .. n) = SumFunctionOnSet(f, 1 .. n)
  BY <1>2, SumSame
<1>4. SumFunctionOnSet(g, (1 .. n) \cup {n + 1}) = SumFunctionOnSet(g, 1 .. n) + g[n + 1]
  <2>. DEFINE S == 1 .. n
              e == n + 1
  <2>1. IsFiniteSet(S) /\ (\A k \in S : g[k] \in Int) /\ e \notin S /\ g[e] \in Int
    BY <1>1, <1>2
  <2>. HIDE DEF S, e
  <2>2. SumFunctionOnSet(g, S \cup {e}) = SumFunctionOnSet(g, S) + g[e]
    BY <2>1, SumAdds
  <2>. QED BY <2>2 DEF S, e
<1>. QED BY <1>1, <1>3, <1>4

LEMMA SumTail ==
  ASSUME NEW n \in Nat, n # 0, NEW f, NEW g,
         \A k \in 1 .. n : f[k] \in Nat,
         \A k \in 1 .. n - 1 : g[k] = f[k + 1]
  PROVE  SumFunctionOnSet(f, 1 .. n) = f[1] + SumFunctionOnSet(g, 1 .. n - 1)
<1>. DEFINE b == [k \in 1 .. n - 1 |-> k + 1]
<1>1. IsFiniteSet(1 .. n) /\ IsFiniteSet(1 .. n - 1) /\ 1 \in 1 .. n
  BY FS_Interval
<1>2. SumFunctionOnSet(f, 1 .. n) = f[1] + SumFunctionOnSet(f, (1 .. n) \ {1})
  <2>. DEFINE S == 1 .. n
  <2>1. IsFiniteSet(S) /\ (\A k \in S : f[k] \in Int) /\ 1 \in S
    BY <1>1
  <2>. HIDE DEF S
  <2>2. SumFunctionOnSet(f, S) = f[1] + SumFunctionOnSet(f, S \ {1})
    BY <2>1, SumElement
  <2>. QED BY <2>2 DEF S
<1>3. (1 .. n) \ {1} = {b[k] : k \in 1 .. n - 1}
  <2>1. \A m \in (1 .. n) \ {1} : m - 1 \in 1 .. n - 1 /\ b[m - 1] = m
    OBVIOUS
  <2>2. \A k \in 1 .. n - 1 : b[k] \in (1 .. n) \ {1}
    OBVIOUS
  <2>. HIDE DEF b
  <2>. QED BY <2>1, <2>2
<1>4. SumFunctionOnSet(f, {b[k] : k \in 1 .. n - 1}) = SumFunctionOnSet(g, 1 .. n - 1)
  <2>1. \A k \in 1 .. n - 1 : g[k] \in Int /\ f[b[k]] = g[k]
    OBVIOUS
  <2>2. \A k, m \in 1 .. n - 1 : b[k] = b[m] => k = m
    OBVIOUS
  <2>. DEFINE S == 1 .. n - 1
  <2>3. /\ IsFiniteSet(S)
        /\ \A k \in S : g[k] \in Int /\ f[b[k]] = g[k]
        /\ \A k, m \in S : b[k] = b[m] => k = m
    BY <1>1, <2>1, <2>2
  <2>. HIDE DEF b, S
  <2>4. SumFunctionOnSet(f, {b[k] : k \in S}) = SumFunctionOnSet(g, S)
    BY <2>3, SumRenamed
  <2>. QED BY <2>4 DEF S
<1>. QED BY <1>2, <1>3, <1>4

-----------------------------------------------------------------------------
(* Loops.                                                                  *)

(* A loop of n turns that starts from a, and whose turn k makes of state x *)
(* state G[<<k, x>>], has a sequence of states.                            *)
Runs(f, n, a, G) == f[0] = a /\ \A m \in 1 .. n : f[m] = G[<<m, f[m - 1]>>]

LEMMA LoopRuns ==
  ASSUME NEW X, NEW n \in Nat, NEW a \in X, NEW G \in [(1 .. n) \X X -> X]
  PROVE  \E f \in [0 .. n -> X] : Runs(f, n, a, G)
<1>. DEFINE Good(m) == \E f \in [0 .. m -> X] : Runs(f, m, a, G)
            T == {m \in Nat : m <= n => Good(m)}
<1>1. 0 \in T
  <2>1. [m \in 0 .. 0 |-> a] \in [0 .. 0 -> X] /\ Runs([m \in 0 .. 0 |-> a], 0, a, G)
    BY DEF Runs
  <2>. QED BY <2>1
<1>2. ASSUME NEW m \in T, m + 1 <= n
      PROVE  Good(m + 1)
  <2>1. m \in Nat /\ m <= n
    BY <1>2
  <2>2. PICK f \in [0 .. m -> X] : Runs(f, m, a, G)
    BY <1>2, <2>1
  <2>. DEFINE g == [j \in 0 .. m + 1 |-> IF j = m + 1 THEN G[<<m + 1, f[m]>>] ELSE f[j]]
  <2>3. /\ m + 1 \in 1 .. n /\ m \in 0 .. m /\ f[m] \in X
        /\ \A j \in 0 .. m + 1 : j = m + 1 \/ j \in 0 .. m
    BY <1>2, <2>1
  <2>4. G[<<m + 1, f[m]>>] \in X
    BY <2>3
  <2>5. g \in [0 .. m + 1 -> X]
    BY <2>3, <2>4
  <2>6. g[0] = a
    <3>1. 0 \in 0 .. m + 1 /\ 0 # m + 1
      BY <2>1
    <3>. QED BY <2>2, <3>1 DEF Runs
  <2>7. ASSUME NEW j \in 1 .. m + 1
        PROVE  g[j] = G[<<j, g[j - 1]>>]
    <3>1. j - 1 \in 0 .. m + 1 /\ j - 1 # m + 1 /\ j \in 0 .. m + 1
      BY <2>1
    <3>2. g[j - 1] = f[j - 1]
      BY <3>1
    <3>3. CASE j = m + 1
      <4>1. j - 1 = m
        BY <2>1, <3>3
      <4>. QED BY <3>1, <3>2, <3>3, <4>1
    <3>4. CASE j # m + 1
      <4>1. j \in 1 .. m
        BY <2>1, <3>4
      <4>. QED BY <2>2, <3>1, <3>2, <3>4, <4>1 DEF Runs
    <3>. QED BY <3>3, <3>4
  <2>. HIDE DEF g
  <2>8. Runs(g, m + 1, a, G)
    BY <2>6, <2>7 DEF Runs
  <2>. QED BY <2>5, <2>8
<1>3. \A m \in T : m + 1 \in T
  <2>1. ASSUME NEW m \in T
        PROVE  m + 1 \in Nat /\ (m + 1 <= n => Good(m + 1))
    BY <1>2
  <2>. HIDE DEF Good
  <2>. QED BY <2>1
<1>. HIDE DEF Good
<1>4. T \subseteq Nat
  OBVIOUS
<1>. HIDE DEF T
<1>5. T = Nat
  BY <1>1, <1>3, <1>4, SetInduction
<1>. QED BY <1>5 DEF T, Good

(* What holds at the start of a loop and is kept by its turns holds after  *)
(* each of them.                                                           *)
LEMMA LoopKeeps ==
  ASSUME NEW n \in Nat, NEW S, S \subseteq 0 .. n, 0 \in S,
         \A m \in 1 .. n : m - 1 \in S => m \in S
  PROVE  S = 0 .. n
<1>. DEFINE T == {m \in Nat : m <= n => m \in S}
<1>1. 0 \in T
  OBVIOUS
<1>2. \A m \in T : m + 1 \in T
  <2>1. ASSUME NEW m \in T, m + 1 <= n
        PROVE  m + 1 \in S
    <3>1. m \in S /\ m + 1 \in 1 .. n /\ (m + 1) - 1 = m
      BY <2>1
    <3>. QED BY <3>1
  <2>. QED BY <2>1
<1>3. T \subseteq Nat
  OBVIOUS
<1>. HIDE DEF T
<1>4. T = Nat
  BY <1>1, <1>2, <1>3, SetInduction
<1>5. \A m \in 0 .. n : m \in T
  BY <1>4
<1>6. \A m \in 0 .. n : m \in S
  BY <1>5 DEF T
<1>. QED BY <1>6

-----------------------------------------------------------------------------
(* The loops of a client, over the numbers Nos of the storages.            *)
Numbers(Nos) == Nos \subseteq Int /\ 0 \in Nos
Empty(Nos) == [s \in Nos |-> NoRange]

-----------------------------------------------------------------------------
(* The ranges of a part (read_index_data).                                 *)

RangeType == [from : Nat, thru : Nat, count : Int]
RangeState(Nos) == [cur : Nos, ranges : [Nos -> RangeType]]

(* The loop as in Ranges: its first state and its turn k.                  *)
RangeTurn(p, m, prev) ==
  LET i == m - 1
      s == p[m][1]
      r == IF i > 0 /\ s # prev.cur
           THEN [EndRange(prev.ranges, prev.cur, i - 1) EXCEPT ![s].from = i]
           ELSE prev.ranges
  IN  [cur |-> s, ranges |-> IF i = Len(p) - 1 THEN EndRange(r, s, i) ELSE r]

RangeStart(r) == [cur |-> 0, ranges |-> r]

RangeTurns(p, r) ==
  CHOOSE turn : turn = [m \in 0 .. Len(p) |-> IF m = 0 THEN RangeStart(r)
                                              ELSE RangeTurn(p, m, turn[m - 1])]

LEMMA RangesTurns ==
  ASSUME NEW p, NEW r
  PROVE  Ranges(p, r) = RangeTurns(p, r)[Len(p)].ranges
BY DEF Ranges, RangeTurns, RangeTurn, RangeStart


LEMMA EndRangeType ==
  ASSUME NEW Nos, Numbers(Nos),
         NEW r \in [Nos -> RangeType], NEW s \in Nos, NEW thru \in Nat
  PROVE  EndRange(r, s, thru) \in [Nos -> RangeType]
<1>. DEFINE q == [r[s] EXCEPT !.thru = thru, !.count = thru - r[s].from + 1]
<1>1. r[s].from \in Nat /\ thru - r[s].from + 1 \in Int
  BY DEF RangeType
<1>2. q \in RangeType
  BY <1>1 DEF RangeType
<1>3. EndRange(r, s, thru) = [r EXCEPT ![s] = q]
  BY DEF EndRange, RangeType
<1>. HIDE DEF q
<1>. QED BY <1>2, <1>3

LEMMA RangeTurnType ==
  ASSUME NEW Nos, Numbers(Nos),
         NEW p \in Seq(Nos \X Nos), NEW m \in 1 .. Len(p), NEW x \in RangeState(Nos)
  PROVE  RangeTurn(p, m, x) \in RangeState(Nos)
<1>. DEFINE i == m - 1
            s == p[m][1]
            e == EndRange(x.ranges, x.cur, i - 1)
            b == [e EXCEPT ![s].from = i]
            r == IF i > 0 /\ s # x.cur THEN b ELSE x.ranges
<1>1. /\ i \in Nat /\ s \in Nos /\ x.cur \in Nos
      /\ x.ranges \in [Nos -> RangeType]
  BY DEF RangeState
<1>2. r \in [Nos -> RangeType]
  <2>1. CASE i > 0 /\ s # x.cur
    <3>1. i - 1 \in Nat
      BY <1>1, <2>1
    <3>. HIDE DEF i, s
    <3>2. e \in [Nos -> RangeType]
      BY <1>1, <3>1, EndRangeType
    <3>. HIDE DEF e
    <3>3. [e[s] EXCEPT !.from = i] \in RangeType
      BY <1>1, <3>2 DEF RangeType
    <3>4. b \in [Nos -> RangeType]
      BY <1>1, <3>2, <3>3
    <3>. QED BY <2>1, <3>4
  <2>2. CASE ~(i > 0 /\ s # x.cur)
    BY <1>1, <2>2
  <2>. QED BY <2>1, <2>2
<1>3. RangeTurn(p, m, x) = [cur |-> s, ranges |-> IF i = Len(p) - 1 THEN EndRange(r, s, i) ELSE r]
  BY DEF RangeTurn
<1>. HIDE DEF i, s, r
<1>4. EndRange(r, s, i) \in [Nos -> RangeType]
  BY <1>1, <1>2, EndRangeType
<1>. QED BY <1>1, <1>2, <1>3, <1>4 DEF RangeState

LEMMA RangeStates ==
  ASSUME NEW Nos, Numbers(Nos),
         NEW p \in Seq(Nos \X Nos), NEW r \in [Nos -> RangeType]
  PROVE  LET f == RangeTurns(p, r) IN
         /\ f \in [0 .. Len(p) -> RangeState(Nos)]
         /\ f[0] = RangeStart(r)
         /\ \A m \in 1 .. Len(p) : f[m] = RangeTurn(p, m, f[m - 1])
<1>. DEFINE n == Len(p)
            G == [y \in (1 .. n) \X RangeState(Nos) |-> RangeTurn(p, y[1], y[2])]
            Loop(f) == f = [m \in 0 .. n |-> IF m = 0 THEN RangeStart(r)
                                             ELSE RangeTurn(p, m, f[m - 1])]
            f == RangeTurns(p, r)
<1>1. n \in Nat /\ RangeStart(r) \in RangeState(Nos)
  BY DEF Numbers, RangeStart, RangeState
<1>2. G \in [(1 .. n) \X RangeState(Nos) -> RangeState(Nos)]
  BY RangeTurnType
<1>3. PICK g \in [0 .. n -> RangeState(Nos)] : Runs(g, n, RangeStart(r), G)
  <2>. HIDE DEF n, G
  <2>. QED BY <1>1, <1>2, LoopRuns
<1>4. \A m \in 1 .. n : g[m] = RangeTurn(p, m, g[m - 1])
  <2>1. ASSUME NEW m \in 1 .. n
        PROVE  g[m - 1] \in RangeState(Nos) /\ <<m, g[m - 1]>> \in (1 .. n) \X RangeState(Nos)
    <3>1. m - 1 \in 0 .. n
      BY <1>1
    <3>. QED BY <3>1
  <2>. QED BY <1>3, <2>1 DEF Runs
<1>5. Loop(g)
  <2>1. \A m \in 0 .. n : m = 0 \/ m \in 1 .. n
    BY <1>1
  <2>. QED BY <1>3, <1>4, <2>1 DEF Runs
<1>6. Loop(f)
  BY <1>5 DEF RangeTurns
<1>. HIDE DEF f
<1>7. f[0] = RangeStart(r) /\ \A m \in 1 .. n : f[m] = RangeTurn(p, m, f[m - 1])
  <2>1. \A m \in 1 .. n : m \in 0 .. n /\ m # 0
    BY <1>1
  <2>2. 0 \in 0 .. n
    BY <1>1
  <2>. HIDE DEF n
  <2>. QED BY <1>6, <2>1, <2>2
<1>8. {m \in 0 .. n : f[m] \in RangeState(Nos)} = 0 .. n
  <2>. DEFINE S == {m \in 0 .. n : f[m] \in RangeState(Nos)}
  <2>1. 0 \in S
    BY <1>1, <1>7
  <2>2. \A m \in 1 .. n : m - 1 \in S => m \in S
    BY <1>1, <1>7, RangeTurnType
  <2>3. S \subseteq 0 .. n
    OBVIOUS
  <2>. HIDE DEF S, n
  <2>4. S = 0 .. n
    BY <1>1, <2>1, <2>2, <2>3, LoopKeeps
  <2>. QED BY <2>4 DEF S
<1>9. f = [m \in 0 .. n |-> f[m]]
  BY <1>6
<1>10. \A m \in 0 .. n : f[m] \in RangeState(Nos)
  BY <1>8
<1>11. f \in [0 .. n -> RangeState(Nos)]
  BY <1>9, <1>10
<1>. QED BY <1>7, <1>11 DEF f

LEMMA RangesType ==
  ASSUME NEW Nos, Numbers(Nos),
         NEW p \in Seq(Nos \X Nos), NEW r \in [Nos -> RangeType]
  PROVE  Ranges(p, r) \in [Nos -> RangeType]
<1>1. RangeTurns(p, r) \in [0 .. Len(p) -> RangeState(Nos)] /\ Len(p) \in 0 .. Len(p)
  BY RangeStates
<1>2. RangeTurns(p, r)[Len(p)] \in RangeState(Nos)
  BY <1>1
<1>. QED BY <1>2, RangesTurns DEF RangeState

-----------------------------------------------------------------------------
(* The heads of a range (init_storages).                                   *)

Buffers(Nos) == [heads : [Nos -> Nat], toSend : [Nos -> Nat]]
GroupState(Nos) == [buf : Buffers(Nos), cur : Nos, n : Nat]

Last(range) == range.thru - range.from + 1

(* The loop as in Group: its first state and its turn m.                   *)
GroupTurn(p, range, m, prev) ==
  LET d == p[range.from + m][2]
      changed == m > 1 /\ d # prev.cur
      b == IF changed THEN AddHead(prev.buf, prev.cur, prev.n) ELSE prev.buf
      n == IF changed THEN 1 ELSE prev.n + 1
  IN  IF m = Last(range) THEN [buf |-> AddHead(b, d, n), cur |-> d, n |-> 0]
      ELSE [buf |-> b, cur |-> d, n |-> n]

GroupStart(buf) == [buf |-> buf, cur |-> 0, n |-> 0]

GroupTurns(p, range, buf) ==
  CHOOSE turn : turn = [m \in 0 .. Last(range) |->
                          IF m = 0 THEN GroupStart(buf)
                          ELSE GroupTurn(p, range, m, turn[m - 1])]

LEMMA GroupsTurns ==
  ASSUME NEW p, NEW range, NEW buf
  PROVE  Group(p, range, buf) =
           IF Last(range) < 1 THEN buf ELSE GroupTurns(p, range, buf)[Last(range)].buf
BY DEF Group, GroupTurns, GroupTurn, GroupStart, Last

LEMMA AddHeadType ==
  ASSUME NEW Nos, Numbers(Nos),
         NEW b \in Buffers(Nos), NEW d \in Nos, NEW n \in Nat
  PROVE  AddHead(b, d, n) \in Buffers(Nos)
BY DEF AddHead, Buffers

(* A range that lies in the part.                                          *)
Covered(p, range) == \A m \in 1 .. Last(range) : range.from + m \in 1 .. Len(p)

LEMMA GroupTurnType ==
  ASSUME NEW Nos, Numbers(Nos),
         NEW p \in Seq(Nos \X Nos), NEW range \in RangeType, Covered(p, range),
         NEW m \in 1 .. Last(range), NEW x \in GroupState(Nos)
  PROVE  GroupTurn(p, range, m, x) \in GroupState(Nos)
<1>. DEFINE d == p[range.from + m][2]
            changed == m > 1 /\ d # x.cur
            b == IF changed THEN AddHead(x.buf, x.cur, x.n) ELSE x.buf
            n == IF changed THEN 1 ELSE x.n + 1
<1>1. d \in Nos /\ x.buf \in Buffers(Nos) /\ x.cur \in Nos /\ x.n \in Nat
  BY DEF Covered, GroupState
<1>2. b \in Buffers(Nos) /\ n \in Nat
  <2>1. AddHead(x.buf, x.cur, x.n) \in Buffers(Nos)
    BY <1>1, AddHeadType
  <2>2. x.n + 1 \in Nat
    BY <1>1
  <2>. QED BY <1>1, <2>1, <2>2
<1>3. GroupTurn(p, range, m, x) =
        IF m = Last(range) THEN [buf |-> AddHead(b, d, n), cur |-> d, n |-> 0]
        ELSE [buf |-> b, cur |-> d, n |-> n]
  BY DEF GroupTurn
<1>. HIDE DEF d, b, n
<1>4. AddHead(b, d, n) \in Buffers(Nos)
  BY <1>1, <1>2, AddHeadType
<1>. QED BY <1>1, <1>2, <1>3, <1>4 DEF GroupState

LEMMA GroupStates ==
  ASSUME NEW Nos, Numbers(Nos),
         NEW p \in Seq(Nos \X Nos), NEW range \in RangeType, Covered(p, range),
         Last(range) \in Nat, NEW buf \in Buffers(Nos)
  PROVE  LET f == GroupTurns(p, range, buf) IN
         /\ f \in [0 .. Last(range) -> GroupState(Nos)]
         /\ f[0] = GroupStart(buf)
         /\ \A m \in 1 .. Last(range) : f[m] = GroupTurn(p, range, m, f[m - 1])
<1>. DEFINE n == Last(range)
            G == [y \in (1 .. n) \X GroupState(Nos) |-> GroupTurn(p, range, y[1], y[2])]
            Loop(f) == f = [m \in 0 .. n |-> IF m = 0 THEN GroupStart(buf)
                                             ELSE GroupTurn(p, range, m, f[m - 1])]
            f == GroupTurns(p, range, buf)
<1>1. n \in Nat /\ GroupStart(buf) \in GroupState(Nos)
  BY DEF Numbers, GroupStart, GroupState
<1>2. G \in [(1 .. n) \X GroupState(Nos) -> GroupState(Nos)]
  BY GroupTurnType
<1>3. PICK g \in [0 .. n -> GroupState(Nos)] : Runs(g, n, GroupStart(buf), G)
  <2>. HIDE DEF n, G
  <2>. QED BY <1>1, <1>2, LoopRuns
<1>4. \A m \in 1 .. n : g[m] = GroupTurn(p, range, m, g[m - 1])
  <2>1. ASSUME NEW m \in 1 .. n
        PROVE  g[m - 1] \in GroupState(Nos) /\ <<m, g[m - 1]>> \in (1 .. n) \X GroupState(Nos)
    <3>1. m - 1 \in 0 .. n
      BY <1>1
    <3>. HIDE DEF n
    <3>. QED BY <3>1
  <2>. QED BY <1>3, <2>1 DEF Runs
<1>5. Loop(g)
  <2>1. \A m \in 0 .. n : m = 0 \/ m \in 1 .. n
    BY <1>1
  <2>. HIDE DEF n
  <2>. QED BY <1>3, <1>4, <2>1 DEF Runs
<1>6. Loop(f)
  BY <1>5 DEF GroupTurns
<1>. HIDE DEF f
<1>7. f[0] = GroupStart(buf) /\ \A m \in 1 .. n : f[m] = GroupTurn(p, range, m, f[m - 1])
  <2>1. \A m \in 1 .. n : m \in 0 .. n /\ m # 0
    BY <1>1
  <2>2. 0 \in 0 .. n
    BY <1>1
  <2>. HIDE DEF n
  <2>. QED BY <1>6, <2>1, <2>2
<1>8. {m \in 0 .. n : f[m] \in GroupState(Nos)} = 0 .. n
  <2>. DEFINE S == {m \in 0 .. n : f[m] \in GroupState(Nos)}
  <2>1. 0 \in S
    BY <1>1, <1>7
  <2>2. \A m \in 1 .. n : m - 1 \in S => m \in S
    <3>1. ASSUME NEW m \in 1 .. n, f[m - 1] \in GroupState(Nos)
          PROVE  m \in 0 .. n /\ f[m] \in GroupState(Nos)
      BY <1>1, <1>7, <3>1, GroupTurnType
    <3>. QED BY <3>1
  <2>3. S \subseteq 0 .. n
    OBVIOUS
  <2>. HIDE DEF S, n
  <2>4. S = 0 .. n
    BY <1>1, <2>1, <2>2, <2>3, LoopKeeps
  <2>. QED BY <2>4 DEF S
<1>9. f = [m \in 0 .. n |-> f[m]]
  BY <1>6
<1>10. \A m \in 0 .. n : f[m] \in GroupState(Nos)
  BY <1>8
<1>11. f \in [0 .. n -> GroupState(Nos)]
  <2>. HIDE DEF n
  <2>. QED BY <1>9, <1>10
<1>. QED BY <1>7, <1>11 DEF f

LEMMA GroupType ==
  ASSUME NEW Nos, Numbers(Nos),
         NEW p \in Seq(Nos \X Nos), NEW range \in RangeType,
         range.from > range.thru \/ range.thru < Len(p), NEW buf \in Buffers(Nos)
  PROVE  Group(p, range, buf) \in Buffers(Nos)
<1>1. range.from \in Nat /\ range.thru \in Nat
  BY DEF RangeType
<1>2. CASE Last(range) < 1
  BY <1>2, GroupsTurns
<1>3. CASE ~(Last(range) < 1)
  <2>1. Last(range) \in Nat /\ Covered(p, range)
    BY <1>1, <1>3 DEF Last, Covered
  <2>2. /\ GroupTurns(p, range, buf) \in [0 .. Last(range) -> GroupState(Nos)]
        /\ Last(range) \in 0 .. Last(range)
    BY <2>1, GroupStates
  <2>3. GroupTurns(p, range, buf)[Last(range)] \in GroupState(Nos)
    BY <2>2
  <2>. QED BY <1>3, <2>3, GroupsTurns DEF GroupState
<1>. QED BY <1>2, <1>3

-----------------------------------------------------------------------------
(* The ranges of a sorted part.                                            *)

Sorted(p) ==
  \A i, j \in 1 .. Len(p) :
    i < j => p[i][1] < p[j][1] \/ (p[i][1] = p[j][1] /\ p[i][2] <= p[j][2])

(* Range r of storage s is right after m items: it is that of its items,   *)
(* or the empty one if there are none.                                     *)
Settled(p, r, s, m) ==
  \/ /\ \A i \in 1 .. m : p[i][1] # s
     /\ r = NoRange
  \/ /\ r.from \in Nat /\ r.thru \in r.from .. m - 1
     /\ r.count = r.thru - r.from + 1
     /\ \A i \in 1 .. m : p[i][1] = s <=> r.from < i /\ i <= r.thru + 1

(* The range of the storage the loop is at has its begin.                  *)
Begun(p, r, s, m) ==
  /\ r.from \in 0 .. m - 1
  /\ \A i \in 1 .. m : p[i][1] = s <=> r.from < i

RangesRight(Nos, p, m, x) ==
  /\ x.cur = p[m][1]
  /\ \A s \in Nos \ {x.cur} : Settled(p, x.ranges[s], s, m)
  /\ m = Len(p) => Settled(p, x.ranges[x.cur], x.cur, m)
  /\ m # Len(p) => Begun(p, x.ranges[x.cur], x.cur, m)

LEMMA NoRangeFields == NoRange.from = 0 /\ NoRange.thru = 0 /\ NoRange.count = 0
BY DEF NoRange

(* What EndRange and the begin of a range do to the storages.              *)
LEMMA EndedRange ==
  ASSUME NEW Nos, Numbers(Nos),
         NEW r \in [Nos -> RangeType], NEW s \in Nos, NEW thru \in Nat
  PROVE  /\ EndRange(r, s, thru)[s].from = r[s].from
         /\ EndRange(r, s, thru)[s].thru = thru
         /\ EndRange(r, s, thru)[s].count = thru - r[s].from + 1
         /\ \A t \in Nos \ {s} : EndRange(r, s, thru)[t] = r[t]
BY DEF EndRange, RangeType

LEMMA BegunRange ==
  ASSUME NEW Nos, Numbers(Nos),
         NEW r \in [Nos -> RangeType], NEW s \in Nos, NEW from \in Nat
  PROVE  LET q == [r EXCEPT ![s].from = from] IN
         /\ q[s].from = from /\ q \in [Nos -> RangeType]
         /\ \A t \in Nos \ {s} : q[t] = r[t]
BY DEF RangeType

(* The last item of a storage ends its range.                              *)
LEMMA EndSettles ==
  ASSUME NEW Nos, Numbers(Nos),
         NEW p \in Seq(Nos \X Nos), NEW r \in [Nos -> RangeType], NEW s \in Nos,
         NEW m \in 1 .. Len(p), Begun(p, r[s], s, m)
  PROVE  Settled(p, EndRange(r, s, m - 1)[s], s, m)
<1>1. m - 1 \in Nat /\ r[s].from \in Nat /\ r[s].from <= m - 1
  BY DEF Begun
<1>2. /\ EndRange(r, s, m - 1)[s].from = r[s].from
      /\ EndRange(r, s, m - 1)[s].thru = m - 1
      /\ EndRange(r, s, m - 1)[s].count = m - 1 - r[s].from + 1
  BY <1>1, EndedRange
<1>3. \A i \in 1 .. m : i <= (m - 1) + 1
  OBVIOUS
<1>. QED BY <1>1, <1>2, <1>3 DEF Settled, Begun

(* An item of another storage leaves a range right.                        *)
LEMMA OtherSettled ==
  ASSUME NEW Nos, Numbers(Nos),
         NEW p \in Seq(Nos \X Nos), NEW r, NEW s \in Nos,
         NEW m \in 2 .. Len(p), Settled(p, r, s, m - 1), p[m][1] # s
  PROVE  Settled(p, r, s, m)
<1>1. \A i \in 1 .. m : i = m \/ i \in 1 .. m - 1
  OBVIOUS
<1>2. m \in Nat /\ m - 1 \in Nat /\ m - 1 < m
  OBVIOUS
<1>3. CASE (\A i \in 1 .. m - 1 : p[i][1] # s) /\ r = NoRange
  BY <1>1, <1>3 DEF Settled
<1>4. CASE /\ r.from \in Nat /\ r.thru \in r.from .. (m - 1) - 1
           /\ r.count = r.thru - r.from + 1
           /\ \A i \in 1 .. m - 1 : p[i][1] = s <=> r.from < i /\ i <= r.thru + 1
  <2>1. r.from \in Nat /\ r.thru \in r.from .. m - 1 /\ r.thru \in Nat /\ ~(m <= r.thru + 1)
    BY <1>2, <1>4
  <2>2. \A i \in 1 .. m : p[i][1] = s <=> r.from < i /\ i <= r.thru + 1
    BY <1>1, <1>4, <2>1
  <2>. QED BY <1>4, <2>1, <2>2 DEF Settled
<1>. QED BY <1>3, <1>4 DEF Settled

LEMMA FirstTurnRight ==
  ASSUME NEW Nos, Numbers(Nos),
         NEW p \in Seq(Nos \X Nos), Len(p) \in Nat \ {0}
  PROVE  RangesRight(Nos, p, 1, RangeTurn(p, 1, RangeStart(Empty(Nos))))
<1>. DEFINE s == p[1][1]
            x == RangeTurn(p, 1, RangeStart(Empty(Nos)))
<1>1. 1 \in 1 .. Len(p) /\ s \in Nos /\ 1 - 1 = 0
  OBVIOUS
<1>2. x = [cur |-> s, ranges |-> IF 0 = Len(p) - 1 THEN EndRange(Empty(Nos), s, 0) ELSE Empty(Nos)]
  BY DEF RangeTurn, RangeStart
<1>3. Empty(Nos) \in [Nos -> RangeType] /\ \A t \in Nos : Empty(Nos)[t] = NoRange
  BY DEF Empty, NoRange, RangeType
<1>s. s = p[1][1]
  OBVIOUS
<1>. SUFFICES RangesRight(Nos, p, 1, x)
  OBVIOUS
<1>. HIDE DEF x, s
<1>4. Begun(p, Empty(Nos)[s], s, 1)
  <2>1. \A i \in 1 .. 1 : i = 1
    OBVIOUS
  <2>. QED BY <1>1, <1>3, <2>1, NoRangeFields DEF Begun, s
<1>5. ASSUME NEW t \in Nos \ {s}
      PROVE  Settled(p, x.ranges[t], t, 1)
  <2>1. x.ranges[t] = NoRange
    BY <1>1, <1>2, <1>3, EndedRange
  <2>2. \A i \in 1 .. 1 : p[i][1] # t
    BY DEF s
  <2>. QED BY <2>1, <2>2 DEF Settled
<1>6. CASE Len(p) = 1
  <2>1. Settled(p, EndRange(Empty(Nos), s, 1 - 1)[s], s, 1)
    BY <1>1, <1>3, <1>4, EndSettles
  <2>2. x.cur = s /\ x.ranges = EndRange(Empty(Nos), s, 1 - 1)
    BY <1>1, <1>2, <1>6
  <2>3. Settled(p, x.ranges[x.cur], x.cur, 1)
    BY <2>1, <2>2
  <2>. QED BY <1>s, <1>5, <1>6, <2>2, <2>3 DEF RangesRight
<1>7. CASE Len(p) # 1
  <2>1. x.cur = s /\ x.ranges = Empty(Nos)
    BY <1>2, <1>7
  <2>2. Begun(p, x.ranges[x.cur], x.cur, 1)
    BY <1>4, <2>1
  <2>. QED BY <1>s, <1>5, <1>7, <2>1, <2>2 DEF RangesRight
<1>. QED BY <1>6, <1>7

LEMMA SourceNo ==
  ASSUME NEW Nos, Numbers(Nos),
         NEW p \in Seq(Nos \X Nos), NEW i \in 1 .. Len(p)
  PROVE  p[i][1] \in Int /\ p[i][2] \in Int
<1>1. p[i] \in Nos \X Nos
  OBVIOUS
<1>. QED BY <1>1 DEF Numbers

LEMMA NextTurnRight ==
  ASSUME NEW Nos, Numbers(Nos),
         NEW p \in Seq(Nos \X Nos), Sorted(p), NEW m \in 2 .. Len(p), NEW x \in RangeState(Nos),
         RangesRight(Nos, p, m - 1, x)
  PROVE  RangesRight(Nos, p, m, RangeTurn(p, m, x))
<1>. DEFINE i == m - 1
            s == p[m][1]
            e == EndRange(x.ranges, x.cur, i - 1)
            b == [e EXCEPT ![s].from = i]
            r == IF s # x.cur THEN b ELSE x.ranges
            y == RangeTurn(p, m, x)
<1>1. /\ m - 1 \in 1 .. Len(p) /\ m \in 1 .. Len(p) /\ m - 1 # Len(p) /\ i \in Nat /\ i > 0
      /\ i - 1 \in Nat /\ i = m - 1 /\ Len(p) \in Nat /\ (m = Len(p) <=> i = Len(p) - 1)
  OBVIOUS
<1>2. /\ s \in Nos /\ x.cur \in Nos /\ x.ranges \in [Nos -> RangeType]
      /\ s = p[m][1] /\ x.cur = p[m - 1][1]
  BY DEF RangeState, RangesRight
<1>3. y = [cur |-> s, ranges |-> IF i = Len(p) - 1 THEN EndRange(r, s, i) ELSE r]
  BY <1>1 DEF RangeTurn
<1>4. /\ \A t \in Nos \ {x.cur} : Settled(p, x.ranges[t], t, m - 1)
      /\ Begun(p, x.ranges[x.cur], x.cur, m - 1)
  BY <1>1 DEF RangesRight
<1>5. s # x.cur => \A j \in 1 .. m - 1 : p[j][1] # s
  <2>1. ASSUME s # x.cur, NEW j \in 1 .. m - 1
        PROVE  p[j][1] < s
    <3>1. \A l \in 1 .. Len(p) : p[l][1] \in Int
      BY SourceNo
    <3>2. j \in 1 .. Len(p) /\ (j < m - 1 \/ j = m - 1) /\ m - 1 < m
      BY <1>1
    <3>3. p[m - 1][1] < p[m][1]
      BY <1>1, <1>2, <2>1, <3>1, <3>2 DEF Sorted
    <3>4. p[j][1] <= p[m - 1][1]
      <4>1. CASE j = m - 1
        BY <1>1, <3>1, <4>1
      <4>2. CASE j < m - 1
        BY <1>1, <3>1, <3>2, <4>2 DEF Sorted
      <4>. QED BY <3>2, <4>1, <4>2
    <3>. QED BY <1>1, <1>2, <3>1, <3>2, <3>3, <3>4
  <2>2. \A l \in 1 .. m - 1 : p[l][1] \in Int
    BY <1>1, SourceNo
  <2>3. s \in Int
    BY <1>2 DEF Numbers
  <2>. HIDE DEF s
  <2>. QED BY <2>1, <2>2, <2>3
<1>e. s # x.cur =>
        /\ e \in [Nos -> RangeType]
        /\ e[x.cur] = EndRange(x.ranges, x.cur, (m - 1) - 1)[x.cur]
        /\ \A t \in Nos \ {x.cur} : e[t] = x.ranges[t]
  <2>1. i - 1 \in Nat /\ i - 1 = (m - 1) - 1
    BY <1>1
  <2>2. Numbers(Nos) /\ x.ranges \in [Nos -> RangeType] /\ x.cur \in Nos
    BY <1>2
  <2>. HIDE DEF i
  <2>3. e \in [Nos -> RangeType]
    BY <2>1, <2>2, EndRangeType
  <2>4. \A t \in Nos \ {x.cur} : e[t] = x.ranges[t]
    BY <2>1, <2>2, EndedRange
  <2>. QED BY <2>1, <2>3, <2>4
<1>. HIDE DEF e
<1>b. s # x.cur =>
        /\ b \in [Nos -> RangeType] /\ b[s].from = i
        /\ \A t \in Nos \ {s} : b[t] = e[t]
  <2>1. ASSUME s # x.cur
        PROVE  e \in [Nos -> RangeType] /\ s \in Nos /\ i \in Nat
    BY <1>1, <1>2, <1>e, <2>1
  <2>. HIDE DEF i, s
  <2>. QED BY <2>1, BegunRange
<1>. HIDE DEF b, s, i
<1>r. r \in [Nos -> RangeType]
  BY <1>2, <1>b
<1>6. ASSUME NEW t \in Nos \ {s}
      PROVE  Settled(p, r[t], t, m)
  <2>1. CASE s = x.cur
    BY <1>2, <1>4, <1>6, <2>1, OtherSettled
  <2>2. CASE s # x.cur /\ t = x.cur
    <3>1. m - 1 \in 1 .. Len(p)
      BY <1>1
    <3>2. Settled(p, EndRange(x.ranges, x.cur, (m - 1) - 1)[x.cur], x.cur, m - 1)
      BY <1>2, <1>4, <3>1, EndSettles
    <3>3. r[t] = EndRange(x.ranges, x.cur, (m - 1) - 1)[x.cur]
      BY <1>2, <1>e, <1>b, <2>2
    <3>. QED BY <1>2, <1>6, <2>2, <3>2, <3>3, OtherSettled
  <2>3. CASE s # x.cur /\ t # x.cur
    <3>1. r[t] = x.ranges[t]
      BY <1>2, <1>e, <1>b, <2>3
    <3>. QED BY <1>2, <1>4, <1>6, <2>3, <3>1, OtherSettled
  <2>. QED BY <2>1, <2>2, <2>3
<1>7. Begun(p, r[s], s, m)
  <2>1. \A j \in 1 .. m : j = m \/ j \in 1 .. m - 1
    OBVIOUS
  <2>2. CASE s = x.cur
    <3>1. r[s] = x.ranges[x.cur]
      BY <2>2
    <3>2. x.ranges[x.cur].from \in 0 .. (m - 1) - 1
      BY <1>4 DEF Begun
    <3>3. x.ranges[x.cur].from \in 0 .. m - 1 /\ x.ranges[x.cur].from < m
      BY <1>1, <3>2
    <3>4. \A j \in 1 .. m - 1 : p[j][1] = s <=> x.ranges[x.cur].from < j
      BY <1>4, <2>2 DEF Begun
    <3>. QED BY <1>2, <2>1, <3>1, <3>3, <3>4 DEF Begun
  <2>3. CASE s # x.cur
    <3>1. r[s].from = m - 1
      BY <1>1, <1>b, <2>3
    <3>2. \A j \in 1 .. m - 1 : ~(m - 1 < j)
      OBVIOUS
    <3>3. m - 1 \in 0 .. m - 1 /\ m - 1 < m
      BY <1>1
    <3>. QED BY <1>2, <1>5, <2>1, <2>3, <3>1, <3>2, <3>3 DEF Begun
  <2>. QED BY <2>2, <2>3
<1>. SUFFICES RangesRight(Nos, p, m, y)
  OBVIOUS
<1>. HIDE DEF r
<1>8. CASE m = Len(p)
  <2>1. y.cur = s /\ y.ranges = EndRange(r, s, m - 1)
    BY <1>1, <1>3, <1>8
  <2>2. Settled(p, EndRange(r, s, m - 1)[s], s, m)
    BY <1>1, <1>2, <1>r, <1>7, EndSettles
  <2>3. \A t \in Nos \ {s} : EndRange(r, s, m - 1)[t] = r[t]
    <3>1. m - 1 \in Nat
      BY <1>1
    <3>. QED BY <1>2, <1>r, <3>1, EndedRange
  <2>4. \A t \in Nos \ {y.cur} : Settled(p, y.ranges[t], t, m)
    BY <1>6, <2>1, <2>3
  <2>5. Settled(p, y.ranges[y.cur], y.cur, m)
    BY <2>1, <2>2
  <2>. HIDE DEF y
  <2>. QED BY <1>2, <1>8, <2>1, <2>4, <2>5 DEF RangesRight
<1>9. CASE m # Len(p)
  <2>1. y.cur = s /\ y.ranges = r
    BY <1>1, <1>3, <1>9
  <2>2. \A t \in Nos \ {y.cur} : Settled(p, y.ranges[t], t, m)
    BY <1>6, <2>1
  <2>3. Begun(p, y.ranges[y.cur], y.cur, m)
    BY <1>7, <2>1
  <2>. HIDE DEF y
  <2>. QED BY <1>2, <1>9, <2>1, <2>2, <2>3 DEF RangesRight
<1>. QED BY <1>8, <1>9

(* The ranges that read_index_data() finds when it starts from clean ones. *)
LEMMA RangesFound ==
  ASSUME NEW Nos, Numbers(Nos),
         NEW p \in Seq(Nos \X Nos), Sorted(p), Len(p) # 0
  PROVE  \A s \in Nos : Settled(p, Ranges(p, Empty(Nos))[s], s, Len(p))
<1>. DEFINE n == Len(p)
            f == RangeTurns(p, Empty(Nos))
            S == {m \in 0 .. n : m # 0 => RangesRight(Nos, p, m, f[m])}
<1>1. p \in Seq(Nos \X Nos) /\ n \in Nat \ {0} /\ Sorted(p)
  OBVIOUS
<1>2. Empty(Nos) \in [Nos -> RangeType]
  BY DEF Empty, NoRange, RangeType
<1>3. /\ f \in [0 .. n -> RangeState(Nos)] /\ f[0] = RangeStart(Empty(Nos))
      /\ \A m \in 1 .. n : f[m] = RangeTurn(p, m, f[m - 1])
  BY <1>1, <1>2, RangeStates
<1>. HIDE DEF f
<1>4. ASSUME NEW m \in 1 .. n, m - 1 \in S
      PROVE  m \in S
  <2>1. m \in 0 .. n /\ m - 1 \in 0 .. n /\ m \in 1 .. Len(p)
    BY <1>1
  <2>2. CASE m = 1
    <3>1. f[1] = RangeTurn(p, 1, f[1 - 1]) /\ 1 - 1 = 0
      BY <1>3, <2>2
    <3>2. RangesRight(Nos, p, 1, f[1])
      BY <1>1, <1>3, <3>1, FirstTurnRight
    <3>. QED BY <2>1, <2>2, <3>2
  <2>3. CASE m # 1
    <3>1. m \in 2 .. Len(p) /\ m - 1 # 0
      BY <1>1, <2>3
    <3>2. RangesRight(Nos, p, m - 1, f[m - 1]) /\ f[m - 1] \in RangeState(Nos)
      BY <1>3, <1>4, <2>1, <3>1
    <3>3. f[m] = RangeTurn(p, m, f[m - 1])
      BY <1>3
    <3>4. RangesRight(Nos, p, m, f[m])
      BY <1>1, <3>1, <3>2, <3>3, NextTurnRight
    <3>. QED BY <2>1, <3>4
  <2>. QED BY <2>2, <2>3
<1>5. S \subseteq 0 .. n /\ 0 \in S /\ n \in Nat
  BY <1>1
<1>6. S = 0 .. n
  <2>. HIDE DEF S, n
  <2>. QED BY <1>4, <1>5, LoopKeeps
<1>7. RangesRight(Nos, p, n, f[n])
  BY <1>1, <1>6
<1>8. \A s \in Nos : Settled(p, f[n].ranges[s], s, n)
  BY <1>7 DEF RangesRight
<1>. QED BY <1>8, RangesTurns DEF f

-----------------------------------------------------------------------------
(* The heads of a range whose items are sorted by destination.             *)

(* Items of the m that follow from that go to d.                           *)
Going(p, from, m, d) == {i \in from + 1 .. from + m : p[i][2] = d}
Tally(p, from, m, d) == Cardinality(Going(p, from, m, d))

LEMMA TallyNat ==
  ASSUME NEW p, NEW from \in Nat, NEW m \in Nat, NEW d
  PROVE  /\ Tally(p, from, m, d) \in Nat
         /\ IsFiniteSet(Going(p, from, m, d))
<1>1. IsFiniteSet(from + 1 .. from + m)
  BY FS_Interval
<1>2. Going(p, from, m, d) \in SUBSET (from + 1 .. from + m)
  BY DEF Going
<1>3. IsFiniteSet(Going(p, from, m, d))
  BY <1>1, <1>2, FS_Subset
<1>. QED BY <1>3, FS_CardinalityType DEF Tally

LEMMA TallyZero ==
  ASSUME NEW p, NEW from \in Nat, NEW m \in Nat, NEW d,
         \A i \in 1 .. m : p[from + i][2] # d
  PROVE  Tally(p, from, m, d) = 0
<1>1. ASSUME NEW i \in from + 1 .. from + m
      PROVE  p[i][2] # d
  <2>1. i - from \in 1 .. m /\ from + (i - from) = i
    OBVIOUS
  <2>. QED BY <2>1
<1>2. Going(p, from, m, d) = {}
  BY <1>1 DEF Going
<1>. QED BY <1>2, FS_EmptySet DEF Tally

LEMMA TallyNext ==
  ASSUME NEW p, NEW from \in Nat, NEW m \in Nat \ {0}, NEW d
  PROVE  Tally(p, from, m, d) =
           IF p[from + m][2] = d THEN Tally(p, from, m - 1, d) + 1
           ELSE Tally(p, from, m - 1, d)
<1>. DEFINE S(n) == Going(p, from, n, d)
<1>1. m - 1 \in Nat /\ from + (m - 1) = (from + m) - 1
  OBVIOUS
<1>2. \A i : i \in from + 1 .. from + m <=> i \in from + 1 .. from + (m - 1) \/ i = from + m
  OBVIOUS
<1>3. from + m \notin from + 1 .. from + (m - 1)
  OBVIOUS
<1>4. IsFiniteSet(S(m - 1))
  BY <1>1, TallyNat
<1>5. CASE p[from + m][2] = d
  <2>1. S(m) = S(m - 1) \cup {from + m} /\ from + m \notin S(m - 1)
    BY <1>2, <1>3, <1>5 DEF Going
  <2>. HIDE DEF S
  <2>2. Cardinality(S(m)) = Cardinality(S(m - 1)) + 1
    BY <1>4, <2>1, FS_AddElement
  <2>. QED BY <1>5, <2>2 DEF Tally, S
<1>6. CASE p[from + m][2] # d
  <2>1. S(m) = S(m - 1)
    BY <1>2, <1>6 DEF Going
  <2>. QED BY <1>6, <2>1 DEF Tally
<1>. QED BY <1>5, <1>6

(* The items up to m have their heads, on top of buf.                      *)
ClosedHeads(Nos, p, from, buf, m, b) ==
  \A t \in Nos :
    /\ b.heads[t] = Tally(p, from, m, t)
    /\ b.toSend[t] = buf.toSend[t] + Tally(p, from, m, t)

(* The same, but for the n that go to d.                                   *)
OpenHeads(Nos, p, from, buf, m, b, d, n) ==
  /\ d = p[from + m][2] /\ n = Tally(p, from, m, d)
  /\ \A t \in Nos :
       LET c == IF t = d THEN 0 ELSE Tally(p, from, m, t) IN
       b.heads[t] = c /\ b.toSend[t] = buf.toSend[t] + c

LEMMA HeadAdded ==
  ASSUME NEW Nos, Numbers(Nos),
         NEW b \in Buffers(Nos), NEW d \in Nos, NEW n \in Nat
  PROVE  LET a == AddHead(b, d, n) IN
         /\ a.heads[d] = n /\ a.toSend[d] = b.toSend[d] + n
         /\ \A t \in Nos \ {d} : a.heads[t] = b.heads[t] /\ a.toSend[t] = b.toSend[t]
BY DEF AddHead, Buffers

LEMMA HeadCloses ==
  ASSUME NEW Nos, Numbers(Nos),
         NEW p, NEW from \in Nat, NEW buf \in Buffers(Nos), NEW m \in Nat, NEW b \in Buffers(Nos),
         NEW d \in Nos, NEW n \in Nat, OpenHeads(Nos, p, from, buf, m, b, d, n)
  PROVE  ClosedHeads(Nos, p, from, buf, m, AddHead(b, d, n))
<1>1. ASSUME NEW t \in Nos
      PROVE  /\ AddHead(b, d, n).heads[t] = Tally(p, from, m, t)
             /\ AddHead(b, d, n).toSend[t] = buf.toSend[t] + Tally(p, from, m, t)
  <2>1. buf.toSend[t] \in Nat /\ Tally(p, from, m, t) \in Nat
    BY TallyNat DEF Buffers
  <2>2. CASE t = d
    <3>1. n = Tally(p, from, m, d) /\ b.toSend[d] = buf.toSend[d] + 0
      BY <2>2 DEF OpenHeads
    <3>. QED BY <2>1, <2>2, <3>1, HeadAdded
  <2>3. CASE t # d
    <3>1. /\ b.heads[t] = Tally(p, from, m, t)
          /\ b.toSend[t] = buf.toSend[t] + Tally(p, from, m, t)
      BY <2>3 DEF OpenHeads
    <3>. QED BY <2>3, <3>1, HeadAdded
  <2>. QED BY <2>2, <2>3
<1>. QED BY <1>1 DEF ClosedHeads

LEMMA HeadOpens ==
  ASSUME NEW Nos, Numbers(Nos),
         NEW p, NEW from \in Nat, NEW buf \in Buffers(Nos), NEW m \in Nat \ {0}, NEW b \in Buffers(Nos),
         NEW d \in Nos, d = p[from + m][2],
         ClosedHeads(Nos, p, from, buf, m - 1, b), Tally(p, from, m - 1, d) = 0
  PROVE  OpenHeads(Nos, p, from, buf, m, b, d, 1)
<1>1. Tally(p, from, m, d) = 1
  BY TallyNext
<1>2. \A t \in Nos \ {d} : Tally(p, from, m, t) = Tally(p, from, m - 1, t)
  BY TallyNext
<1>3. \A t \in Nos : /\ b.heads[t] = Tally(p, from, m - 1, t)
                           /\ b.toSend[t] = buf.toSend[t] + Tally(p, from, m - 1, t)
  BY DEF ClosedHeads
<1>4. ASSUME NEW t \in Nos, NEW c, c = IF t = d THEN 0 ELSE Tally(p, from, m, t)
      PROVE  b.heads[t] = c /\ b.toSend[t] = buf.toSend[t] + c
  BY <1>2, <1>3, <1>4
<1>. QED BY <1>1, <1>4 DEF OpenHeads

LEMMA HeadGrows ==
  ASSUME NEW Nos, Numbers(Nos),
         NEW p, NEW from \in Nat, NEW buf \in Buffers(Nos), NEW m \in Nat \ {0}, NEW b \in Buffers(Nos),
         NEW d \in Nos, NEW n \in Nat, d = p[from + m][2],
         OpenHeads(Nos, p, from, buf, m - 1, b, d, n)
  PROVE  OpenHeads(Nos, p, from, buf, m, b, d, n + 1)
<1>1. Tally(p, from, m, d) = Tally(p, from, m - 1, d) + 1
  BY TallyNext
<1>2. \A t \in Nos \ {d} : Tally(p, from, m, t) = Tally(p, from, m - 1, t)
  BY TallyNext
<1>3. ASSUME NEW t \in Nos
      PROVE  LET c == IF t = d THEN 0 ELSE Tally(p, from, m, t) IN
             b.heads[t] = c /\ b.toSend[t] = buf.toSend[t] + c
  BY <1>2 DEF OpenHeads
<1>4. n = Tally(p, from, m - 1, d)
  BY DEF OpenHeads
<1>. QED BY <1>1, <1>3, <1>4 DEF OpenHeads

(* The destinations of a range are in ascending order.                     *)
Rising(p, range) ==
  \A i, j \in 1 .. Last(range) :
    i < j => p[range.from + i][2] <= p[range.from + j][2]

GroupRight(Nos, p, range, buf, m, x) ==
  /\ m = 0 => x.n = 0
  /\ m = 0 \/ m = Last(range) => ClosedHeads(Nos, p, range.from, buf, m, x.buf)
  /\ m # 0 /\ m # Last(range) => OpenHeads(Nos, p, range.from, buf, m, x.buf, x.cur, x.n)

LEMMA GroupTurnRight ==
  ASSUME NEW Nos, Numbers(Nos),
         NEW p \in Seq(Nos \X Nos), NEW range \in RangeType, Covered(p, range), Rising(p, range),
         NEW buf \in Buffers(Nos), Last(range) \in Nat,
         NEW m \in 1 .. Last(range), NEW x \in GroupState(Nos),
         GroupRight(Nos, p, range, buf, m - 1, x)
  PROVE  GroupRight(Nos, p, range, buf, m, GroupTurn(p, range, m, x))
<1>. DEFINE from == range.from
            d == p[from + m][2]
            changed == m > 1 /\ d # x.cur
            b == IF changed THEN AddHead(x.buf, x.cur, x.n) ELSE x.buf
            n == IF changed THEN 1 ELSE x.n + 1
            y == GroupTurn(p, range, m, x)
<1>1. /\ d \in Nos /\ x.buf \in Buffers(Nos) /\ x.cur \in Nos /\ x.n \in Nat
      /\ from \in Nat /\ d = p[from + m][2]
  BY DEF Covered, GroupState, RangeType
<1>2. b \in Buffers(Nos) /\ n \in Nat
  <2>1. AddHead(x.buf, x.cur, x.n) \in Buffers(Nos)
    BY <1>1, AddHeadType
  <2>2. x.n + 1 \in Nat
    BY <1>1
  <2>. QED BY <1>1, <2>1, <2>2
<1>3. y = IF m = Last(range) THEN [buf |-> AddHead(b, d, n), cur |-> d, n |-> 0]
          ELSE [buf |-> b, cur |-> d, n |-> n]
  BY DEF GroupTurn
<1>4. m \in Nat \ {0} /\ m - 1 \in Nat /\ m - 1 # Last(range) /\ m <= Last(range)
  OBVIOUS
<1>. SUFFICES GroupRight(Nos, p, range, buf, m, y)
  OBVIOUS
<1>. HIDE DEF y
<1>5. OpenHeads(Nos, p, from, buf, m, b, d, n)
  <2>1. CASE m = 1
    <3>1. m - 1 = 0 /\ ~changed /\ b = x.buf
      BY <2>1
    <3>2. n = 1 /\ ClosedHeads(Nos, p, from, buf, m - 1, x.buf)
      BY <1>1, <3>1 DEF GroupRight
    <3>3. Tally(p, from, m - 1, d) = 0
      <4>1. \A i \in 1 .. m - 1 : p[from + i][2] # d
        BY <3>1
      <4>. HIDE DEF d, from
      <4>. QED BY <1>1, <1>4, <4>1, TallyZero
    <3>. HIDE DEF b, n, d, from
    <3>. QED BY <1>1, <1>4, <3>1, <3>2, <3>3, HeadOpens
  <2>2. CASE m # 1 /\ ~changed
    <3>1. m > 1 /\ m - 1 # 0
      BY <1>4, <2>2
    <3>2. b = x.buf /\ n = x.n + 1 /\ d = x.cur
      BY <2>2, <3>1
    <3>3. OpenHeads(Nos, p, from, buf, m - 1, x.buf, x.cur, x.n)
      BY <1>4, <3>1 DEF GroupRight
    <3>. HIDE DEF b, n, d, from
    <3>. QED BY <1>1, <1>4, <3>2, <3>3, HeadGrows
  <2>3. CASE changed
    <3>1. m > 1 /\ m - 1 # 0 /\ d # x.cur
      BY <1>4, <2>3
    <3>2. b = AddHead(x.buf, x.cur, x.n) /\ n = 1
      BY <2>3
    <3>3. OpenHeads(Nos, p, from, buf, m - 1, x.buf, x.cur, x.n)
      BY <1>4, <3>1 DEF GroupRight
    <3>4. x.cur = p[from + (m - 1)][2]
      BY <3>3 DEF OpenHeads
    <3>5. \A i \in 1 .. Last(range) : p[from + i][2] \in Int
      BY SourceNo DEF Covered
    <3>6. ASSUME NEW i \in 1 .. m - 1
          PROVE  p[from + i][2] # d
      <4>1. i \in 1 .. Last(range) /\ m - 1 \in 1 .. Last(range) /\ m - 1 < m
        BY <1>4
      <4>2. p[from + (m - 1)][2] <= p[from + m][2]
        BY <1>4, <4>1 DEF Rising
      <4>3. p[from + i][2] <= p[from + (m - 1)][2]
        <5>1. CASE i = m - 1
          BY <3>5, <4>1, <5>1
        <5>2. CASE i # m - 1
          <6>1. i < m - 1
            BY <1>4, <5>2
          <6>. QED BY <4>1, <6>1 DEF Rising
        <5>. QED BY <5>1, <5>2
      <4>4. p[from + i][2] \in Int /\ p[from + (m - 1)][2] \in Int /\ d \in Int
        BY <3>5, <4>1
      <4>. QED BY <3>1, <3>4, <4>2, <4>3, <4>4
    <3>. HIDE DEF b, n, d, from
    <3>7. Tally(p, from, m - 1, d) = 0
      BY <1>1, <1>4, <3>6, TallyZero
    <3>8. ClosedHeads(Nos, p, from, buf, m - 1, AddHead(x.buf, x.cur, x.n))
      BY <1>1, <1>4, <3>3, HeadCloses
    <3>. QED BY <1>1, <1>2, <1>4, <3>2, <3>7, <3>8, HeadOpens
  <2>. QED BY <1>4, <2>1, <2>2, <2>3
<1>. HIDE DEF b, n, d
<1>6. CASE m = Last(range)
  <2>1. y.buf = AddHead(b, d, n)
    BY <1>3, <1>6
  <2>2. ClosedHeads(Nos, p, from, buf, m, y.buf)
    BY <1>1, <1>2, <1>4, <1>5, <2>1, HeadCloses
  <2>. QED BY <1>4, <1>6, <2>2 DEF GroupRight
<1>7. CASE m # Last(range)
  <2>1. y.buf = b /\ y.cur = d /\ y.n = n
    BY <1>3, <1>7
  <2>. QED BY <1>4, <1>5, <1>7, <2>1 DEF GroupRight
<1>. QED BY <1>6, <1>7

(* The heads that init_storages() adds for a range.                        *)
LEMMA GroupFound ==
  ASSUME NEW Nos, Numbers(Nos),
         NEW p \in Seq(Nos \X Nos), NEW range \in RangeType,
         range.from <= range.thru, range.thru < Len(p), Rising(p, range),
         NEW buf \in Buffers(Nos), \A t \in Nos : buf.heads[t] = 0
  PROVE  ClosedHeads(Nos, p, range.from, buf, Last(range), Group(p, range, buf))
<1>. DEFINE n == Last(range)
            f == GroupTurns(p, range, buf)
            S == {m \in 0 .. n : GroupRight(Nos, p, range, buf, m, f[m])}
<1>1. /\ range.from \in Nat /\ range.thru \in Nat /\ n \in Nat \ {0} /\ ~(n < 1)
      /\ Covered(p, range)
  BY DEF RangeType, Last, Covered
<1>2. /\ f \in [0 .. n -> GroupState(Nos)] /\ f[0] = GroupStart(buf)
      /\ \A m \in 1 .. n : f[m] = GroupTurn(p, range, m, f[m - 1])
  BY <1>1, GroupStates
<1>. HIDE DEF f
<1>3. GroupRight(Nos, p, range, buf, 0, f[0])
  <2>1. f[0].buf = buf /\ f[0].n = 0
    BY <1>2 DEF GroupStart
  <2>2. \A t \in Nos : Tally(p, range.from, 0, t) = 0
    <3>1. ASSUME NEW t \in Nos
          PROVE  Tally(p, range.from, 0, t) = 0
      <4>1. \A i \in 1 .. 0 : p[range.from + i][2] # t
        OBVIOUS
      <4>. QED BY <1>1, <4>1, TallyZero
    <3>. QED BY <3>1
  <2>3. \A t \in Nos : buf.toSend[t] = buf.toSend[t] + 0
    BY DEF Buffers
  <2>4. ClosedHeads(Nos, p, range.from, buf, 0, buf)
    BY <2>2, <2>3 DEF ClosedHeads
  <2>. QED BY <2>1, <2>4 DEF GroupRight
<1>4. ASSUME NEW m \in 1 .. n, m - 1 \in S
      PROVE  m \in S
  <2>1. m \in 0 .. n /\ m - 1 \in 0 .. n /\ n \in Nat
    BY <1>1
  <2>2. GroupRight(Nos, p, range, buf, m - 1, f[m - 1]) /\ f[m - 1] \in GroupState(Nos)
    BY <1>2, <1>4, <2>1
  <2>3. f[m] = GroupTurn(p, range, m, f[m - 1])
    BY <1>2
  <2>4. GroupRight(Nos, p, range, buf, m, f[m])
    BY <1>1, <2>1, <2>2, <2>3, GroupTurnRight
  <2>. QED BY <2>1, <2>4
<1>5. S \subseteq 0 .. n /\ 0 \in S /\ n \in Nat
  BY <1>1, <1>3
<1>6. S = 0 .. n
  <2>. HIDE DEF S, n
  <2>. QED BY <1>4, <1>5, LoopKeeps
<1>7. GroupRight(Nos, p, range, buf, n, f[n])
  BY <1>1, <1>6
<1>8. ClosedHeads(Nos, p, range.from, buf, n, f[n].buf)
  BY <1>7 DEF GroupRight
<1>9. Group(p, range, buf) = f[n].buf
  BY <1>1, GroupsTurns DEF f
<1>. QED BY <1>8, <1>9

-----------------------------------------------------------------------------
(* A range of a part lies in it, and counts its items.                     *)
LEMMA RangeOfPart ==
  ASSUME NEW Nos, Numbers(Nos),
         NEW p \in Seq(Nos \X Nos), Sorted(p), Len(p) # 0, NEW s \in Nos
  PROVE  LET r == Ranges(p, Empty(Nos))[s] IN
         /\ r \in RangeType /\ r.from <= r.thru /\ r.thru < Len(p)
         /\ Rising(p, r) /\ r.count = ItemsFrom(p, s)
         /\ \A d \in Nos : Tally(p, r.from, Last(r), d) = Requested(p, p[1], s, d)
<1>. DEFINE r == Ranges(p, Empty(Nos))[s]
            n == Len(p)
            Of == {i \in 1 .. n : p[i][1] = s}
<1>1. p \in Seq(Nos \X Nos) /\ n \in Nat \ {0} /\ Sorted(p)
  OBVIOUS
<1>2. Settled(p, r, s, n)
  BY RangesFound
<1>3. r \in RangeType
  <2>1. Empty(Nos) \in [Nos -> RangeType]
    BY DEF Empty, NoRange, RangeType
  <2>. QED BY <1>1, <2>1, RangesType
<1>4. ItemsFrom(p, s) = Cardinality(Of)
  BY DEF ItemsFrom
<1>. SUFFICES /\ r \in RangeType /\ r.from <= r.thru /\ r.thru < n
              /\ Rising(p, r) /\ r.count = ItemsFrom(p, s)
              /\ \A d \in Nos : Tally(p, r.from, Last(r), d) = Requested(p, p[1], s, d)
  OBVIOUS
<1>. HIDE DEF r
<1>5. CASE (\A i \in 1 .. n : p[i][1] # s) /\ r = NoRange
  <2>1. r.from = 0 /\ r.thru = 0 /\ r.count = 0 /\ Last(r) = 1
    BY <1>5, NoRangeFields DEF Last
  <2>2. ItemsFrom(p, s) = 0
    <3>1. Of = {}
      BY <1>5
    <3>. QED BY <1>4, <3>1, FS_EmptySet
  <2>3. Rising(p, r)
    BY <2>1 DEF Rising
  <2>4. ASSUME NEW d \in Nos
        PROVE  Tally(p, r.from, Last(r), d) = Requested(p, p[1], s, d)
    <3>1. Tally(p, 0, 0, d) = 0
      <4>1. \A i \in 1 .. 0 : p[0 + i][2] # d
        OBVIOUS
      <4>. QED BY <4>1, TallyZero
    <3>2. 1 \in Nat \ {0} /\ 1 - 1 = 0 /\ 0 + 1 = 1 /\ 0 \in Nat
      OBVIOUS
    <3>3. Tally(p, 0, 1, d) = IF p[1][2] = d THEN 1 ELSE 0
      BY <3>1, <3>2, TallyNext
    <3>4. Requested(p, p[1], s, d) = IF d = p[1][2] THEN 1 ELSE 0
      BY <2>2 DEF Requested
    <3>. QED BY <2>1, <3>3, <3>4
  <2>. QED BY <1>1, <1>3, <2>1, <2>2, <2>3, <2>4
<1>6. CASE /\ r.from \in Nat /\ r.thru \in r.from .. n - 1
           /\ r.count = r.thru - r.from + 1
           /\ \A i \in 1 .. n : p[i][1] = s <=> r.from < i /\ i <= r.thru + 1
  <2>1. /\ r.from \in Nat /\ r.thru \in Nat /\ r.from <= r.thru /\ r.thru < n
        /\ Last(r) = r.thru - r.from + 1 /\ Last(r) \in Nat \ {0}
        /\ r.from + Last(r) = r.thru + 1
    BY <1>1, <1>6 DEF Last
  <2>2. \A i : i \in 1 .. n /\ p[i][1] = s <=> i \in r.from + 1 .. r.thru + 1
    <3>1. ASSUME NEW i \in 1 .. n
          PROVE  p[i][1] = s <=> i \in r.from + 1 .. r.thru + 1
      <4>1. p[i][1] = s <=> r.from < i /\ i <= r.thru + 1
        BY <1>6
      <4>2. i \in Nat
        OBVIOUS
      <4>. HIDE DEF n
      <4>. QED BY <2>1, <4>1, <4>2
    <3>2. \A i \in r.from + 1 .. r.thru + 1 : i \in 1 .. n
      <4>1. n \in Nat
        BY <1>1
      <4>. HIDE DEF n
      <4>. QED BY <2>1, <4>1
    <3>. HIDE DEF n
    <3>. QED BY <3>1, <3>2
  <2>3. ItemsFrom(p, s) = r.count
    <3>1. Of = r.from + 1 .. r.thru + 1
      BY <2>2
    <3>2. Cardinality(r.from + 1 .. r.thru + 1) = r.thru - r.from + 1
      <4>1. ASSUME NEW a \in Nat, NEW b \in Nat, a <= b
            PROVE  Cardinality(a + 1 .. b + 1) = b - a + 1
        <5>1. a + 1 \in Int /\ b + 1 \in Int /\ ~(a + 1 > b + 1)
              /\ (b + 1) - (a + 1) + 1 = b - a + 1
          BY <4>1
        <5>. QED BY <5>1, FS_Interval
      <4>. QED BY <2>1, <4>1
    <3>. QED BY <1>4, <1>6, <3>1, <3>2
  <2>4. Rising(p, r)
    <3>1. ASSUME NEW i \in 1 .. Last(r), NEW j \in 1 .. Last(r), i < j
          PROVE  p[r.from + i][2] <= p[r.from + j][2]
      <4>1. /\ r.from + i \in r.from + 1 .. r.thru + 1 /\ r.from + j \in r.from + 1 .. r.thru + 1
            /\ r.from + i < r.from + j
        <5>1. ASSUME NEW a \in Nat, NEW b \in Nat, NEW m \in 1 .. b - a + 1
              PROVE  a + m \in a + 1 .. b + 1
          OBVIOUS
        <5>2. i \in 1 .. r.thru - r.from + 1 /\ j \in 1 .. r.thru - r.from + 1
          BY <2>1
        <5>3. r.from + i \in r.from + 1 .. r.thru + 1
          BY <2>1, <5>1, <5>2
        <5>4. r.from + j \in r.from + 1 .. r.thru + 1
          BY <2>1, <5>1, <5>2
        <5>5. i \in Int /\ j \in Int /\ r.from \in Int
          BY <2>1, <5>2
        <5>. QED BY <3>1, <5>3, <5>4, <5>5
      <4>2. /\ r.from + i \in 1 .. n /\ r.from + j \in 1 .. n
            /\ p[r.from + i][1] = s /\ p[r.from + j][1] = s
        BY <2>2, <4>1
      <4>3. s \in Int
        BY DEF Numbers
      <4>4. ~(p[r.from + i][1] < p[r.from + j][1])
        BY <4>2, <4>3
      <4>5. Sorted(p) /\ r.from + i \in 1 .. Len(p) /\ r.from + j \in 1 .. Len(p)
        BY <1>1, <4>2
      <4>. QED BY <4>1, <4>4, <4>5 DEF Sorted
    <3>. QED BY <3>1 DEF Rising
  <2>5. ASSUME NEW d \in Nos
        PROVE  Tally(p, r.from, Last(r), d) = Requested(p, p[1], s, d)
    <3>1. ItemsFrom(p, s) > 0
      BY <1>6, <2>1, <2>3
    <3>2. Going(p, r.from, Last(r), d) = {i \in 1 .. n : p[i] = <<s, d>>}
      <4>1. ASSUME NEW i \in 1 .. n
            PROVE  p[i] = <<s, d>> <=> p[i][1] = s /\ p[i][2] = d
        BY <1>1
      <4>2. \A i : i \in r.from + 1 .. r.from + Last(r) <=> i \in 1 .. n /\ p[i][1] = s
        BY <2>1, <2>2
      <4>. HIDE DEF n
      <4>. QED BY <4>1, <4>2 DEF Going
    <3>. QED BY <3>1, <3>2 DEF Tally, Requested, ItemsOf
  <2>. QED BY <1>3, <2>1, <2>3, <2>4, <2>5
<1>. QED BY <1>2, <1>5, <1>6 DEF Settled

=============================================================================
