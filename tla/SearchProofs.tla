----------------------------- MODULE SearchProofs -----------------------------
(***************************************************************************)
(* Theorems of Search, for any entities, scores and requests and any       *)
(* number of writes between the statements of a call.                      *)
(***************************************************************************)
EXTENDS Search, FiniteSetTheorems, TLAPS

-----------------------------------------------------------------------------
(* Orders of finite sets, given as sets of pairs.                          *)

StrictOrder(R, S) ==
  /\ \A x \in S : <<x, x>> \notin R
  /\ \A x, y, z \in S : <<x, y>> \in R /\ <<y, z>> \in R => <<x, z>> \in R

TotalOrder(R, S) ==
  /\ StrictOrder(R, S)
  /\ \A x, y \in S : x = y \/ <<x, y>> \in R \/ <<y, x>> \in R

Below(R, S, x) == {y \in S : <<y, x>> \in R}

LEMMA BelowFinite ==
  ASSUME NEW S, IsFiniteSet(S), NEW R, NEW x
  PROVE  IsFiniteSet(Below(R, S, x)) /\ Cardinality(Below(R, S, x)) \in Nat
<1>1. Below(R, S, x) \in SUBSET S
  BY DEF Below
<1>2. IsFiniteSet(Below(R, S, x))
  BY <1>1, FS_Subset
<1> QED
  BY <1>2, FS_CardinalityType

LEMMA BelowGrows ==
  ASSUME NEW S, IsFiniteSet(S), NEW R, StrictOrder(R, S),
         NEW x \in S, NEW y \in S, <<x, y>> \in R
  PROVE  Cardinality(Below(R, S, x)) < Cardinality(Below(R, S, y))
<1> DEFINE A == Below(R, S, x)
           B == Below(R, S, y)
<1>1. A \in SUBSET B /\ x \in B /\ x \notin A
  BY DEF Below, StrictOrder
<1>2. IsFiniteSet(B) /\ Cardinality(A) \in Nat /\ Cardinality(B) \in Nat
  BY BelowFinite
<1> HIDE DEF A, B
<1>3. Cardinality(A) <= Cardinality(B) /\ (Cardinality(B) = Cardinality(A) => B = A)
  BY <1>1, <1>2, FS_Subset
<1>4. Cardinality(A) < Cardinality(B)
  BY <1>1, <1>2, <1>3
<1> QED
  BY <1>4 DEF A, B

\* A statement that orders a non-empty result has a first row.
LEMMA LeastElement ==
  ASSUME NEW S, IsFiniteSet(S), S # {}, NEW R, StrictOrder(R, S)
  PROVE  \E m \in S : \A y \in S : <<y, m>> \notin R
<1> DEFINE N == {n \in Nat : \E x \in S : n = Cardinality(Below(R, S, x))}
<1>1. N \subseteq Nat /\ N # {}
  BY BelowFinite
<1>2. PICK n \in N : \A k \in N : <<k, n>> \notin OpToRel(<, Nat)
  <2> HIDE DEF N
  <2> QED
    BY <1>1, NatLessThanWellFounded, WFMin
<1>3. \A k \in N : ~(k < n)
  BY <1>1, <1>2 DEF OpToRel
<1>4. PICK m \in S : n = Cardinality(Below(R, S, m))
  BY <1>2
<1>5. ASSUME NEW y \in S, <<y, m>> \in R PROVE FALSE
  <2>1. Cardinality(Below(R, S, y)) < n
    BY <1>4, <1>5, BelowGrows
  <2>2. Cardinality(Below(R, S, y)) \in N
    BY BelowFinite
  <2> QED
    BY <1>3, <2>1, <2>2
<1> QED
  BY <1>5

LEMMA RankBound ==
  ASSUME NEW S, IsFiniteSet(S), NEW R, StrictOrder(R, S), NEW x \in S
  PROVE  Cardinality(Below(R, S, x)) \in 0 .. Cardinality(S) - 1
<1>1. Below(R, S, x) \in SUBSET (S \ {x})
  BY DEF Below, StrictOrder
<1>2. IsFiniteSet(S \ {x}) /\ Cardinality(S \ {x}) = Cardinality(S) - 1
  BY FS_RemoveElement
<1>3. Cardinality(Below(R, S, x)) <= Cardinality(S \ {x})
  BY <1>1, <1>2, FS_Subset
<1> QED
  BY <1>2, <1>3, BelowFinite, FS_CardinalityType

LEMMA RankUnique ==
  ASSUME NEW S, IsFiniteSet(S), NEW R, TotalOrder(R, S), NEW x \in S, NEW y \in S,
         Cardinality(Below(R, S, x)) = Cardinality(Below(R, S, y))
  PROVE  x = y
<1>1. Cardinality(Below(R, S, x)) \in Nat /\ Cardinality(Below(R, S, y)) \in Nat
  BY BelowFinite
<1>2. <<x, y>> \notin R
  BY <1>1, BelowGrows DEF TotalOrder
<1>3. <<y, x>> \notin R
  BY <1>1, BelowGrows DEF TotalOrder
<1> QED
  BY <1>2, <1>3 DEF TotalOrder

\* Positions have no gaps.
LEMMA RankExists ==
  ASSUME NEW S, IsFiniteSet(S), NEW R, TotalOrder(R, S), NEW i \in 0 .. Cardinality(S) - 1
  PROVE  \E x \in S : Cardinality(Below(R, S, x)) = i
<1> DEFINE T == 0 .. Cardinality(S) - 1
           f == [x \in S |-> Cardinality(Below(R, S, x))]
<1>1. Cardinality(S) \in Nat
  BY FS_CardinalityType
<1>2. IsFiniteSet(T) /\ Cardinality(T) = Cardinality(S)
  BY <1>1, FS_Interval
<1>3. f \in [S -> T]
  BY RankBound DEF TotalOrder
<1>4. f \in Injection(S, T)
  BY <1>3, RankUnique DEF Injection, IsInjective
<1>5. f \in Surjection(S, T)
  <2> HIDE DEF T, f
  <2> QED
    BY <1>2, <1>4, FS_Injection
<1>6. PICK x \in S : f[x] = i
  BY <1>5 DEF Surjection
<1> QED
  BY <1>6

Foremost(S, R, n) == {x \in S : Cardinality(Below(R, S, x)) < n}

\* The first n rows of a total order are n rows, or all of them.
LEMMA FirstRows ==
  ASSUME NEW S, IsFiniteSet(S), NEW R, TotalOrder(R, S), NEW n \in Nat
  PROVE  /\ n <= Cardinality(S) => Cardinality(Foremost(S, R, n)) = n
         /\ Cardinality(S) <= n => Foremost(S, R, n) = S
<1> DEFINE F == {x \in S : Cardinality(Below(R, S, x)) < n}
<1>1. IsFiniteSet(F) /\ Cardinality(S) \in Nat
  BY FS_Subset, FS_CardinalityType
<1>2. ASSUME n <= Cardinality(S) PROVE Cardinality(F) = n
  <2> DEFINE T == 0 .. n - 1
             f == [x \in F |-> Cardinality(Below(R, S, x))]
  <2>1. IsFiniteSet(T) /\ Cardinality(T) = n
    BY FS_Interval
  <2>2. f \in [F -> T]
    BY BelowFinite
  <2>3. f \in Injection(F, T)
    <3>1. \A x, y \in F : f[x] = f[y] => x = y
      BY RankUnique
    <3> HIDE DEF F, T, f
    <3> QED
      BY <2>2, <3>1 DEF Injection, IsInjective
  <2>4. ASSUME NEW i \in T PROVE \E x \in F : f[x] = i
    <3>1. i \in 0 .. Cardinality(S) - 1 /\ i < n
      BY <1>1, <1>2
    <3>2. PICK x \in S : Cardinality(Below(R, S, x)) = i
      BY <3>1, RankExists
    <3> QED
      BY <3>1, <3>2
  <2>5. f \in Surjection(F, T)
    <3> HIDE DEF F, T, f
    <3> QED
      BY <2>2, <2>4 DEF Surjection
  <2> HIDE DEF F, T, f
  <2> QED
    BY <2>1, <2>3, <2>5, FS_Injection
<1>3. ASSUME Cardinality(S) <= n PROVE F = S
  <2>1. \A x \in S : Cardinality(Below(R, S, x)) \in 0 .. Cardinality(S) - 1
    BY RankBound DEF TotalOrder
  <2> QED
    BY <1>1, <1>3, <2>1
<1>4. Foremost(S, R, n) = F
  BY DEF Foremost
<1> HIDE DEF F
<1> QED
  BY <1>2, <1>3, <1>4

-----------------------------------------------------------------------------
(* The result window: what a cut keeps.                                    *)

BetterOn(S) == {p \in S \X S : Better(p[1], p[2])}

\* The best item of each entity, and the window one cut leaves of a set of items.
Best(S) == {x \in S : \A y \in S : y.e = x.e => y.score <= x.score}
Window(S, n) == First(Best(S), n, Better)

\* The entities with an item that is better than x.
Above(S, x) == {y.e : y \in {z \in S : Better(z, x)}}

LEMMA ItemFacts ==
  /\ \A x \in Item : x.e \in Entities /\ x.score \in Nat /\ x.e \in Nat
  /\ \A x, y \in Item : x.e = y.e /\ x.score = y.score => x = y
  /\ \A e \in Entities, s \in Nat : [e |-> e, score |-> s] \in Item
<1>1. Entities \subseteq Nat
  BY SearchAssumption
<1>2. \A x \in Item : x.e \in Entities /\ x.score \in Nat
  BY DEF Item
<1>3. \A x \in Item : x = [e |-> x.e, score |-> x.score]
  BY DEF Item
<1>4. \A x, y \in Item : x.e = y.e /\ x.score = y.score => x = y
  BY <1>3
<1>5. \A e \in Entities, s \in Nat : [e |-> e, score |-> s] \in Item
  BY DEF Item
<1> QED
  BY <1>1, <1>2, <1>4, <1>5

LEMMA BetterOrder ==
  /\ \A x \in Item : ~Better(x, x)
  /\ \A x, y, z \in Item : Better(x, y) /\ Better(y, z) => Better(x, z)
  /\ \A x, y \in Item : x = y \/ Better(x, y) \/ Better(y, x)
BY ItemFacts DEF Better

LEMMA BetterTotal ==
  ASSUME NEW S \in SUBSET Item
  PROVE  TotalOrder(BetterOn(S), S)
BY BetterOrder DEF TotalOrder, StrictOrder, BetterOn

LEMMA FirstBetter ==
  ASSUME NEW S, NEW n
  PROVE  First(S, n, Better) = Foremost(S, BetterOn(S), n)
<1>1. \A x \in S : Below(BetterOn(S), S, x) = {y \in S : Better(y, x)}
  BY DEF Below, BetterOn
<1> QED
  BY <1>1 DEF First, Foremost

LEMMA BestIn ==
  ASSUME NEW S \in SUBSET Item, IsFiniteSet(S)
  PROVE  Best(S) \in SUBSET Item /\ Best(S) \in SUBSET S /\ IsFiniteSet(Best(S))
<1>1. Best(S) \in SUBSET S
  BY DEF Best
<1> QED
  BY <1>1, FS_Subset

LEMMA WindowIn ==
  ASSUME NEW S \in SUBSET Item, IsFiniteSet(S), NEW n
  PROVE  /\ Window(S, n) \in SUBSET Best(S) /\ Window(S, n) \in SUBSET S
         /\ Window(S, n) \in SUBSET Item /\ IsFiniteSet(Window(S, n))
<1>1. Window(S, n) \in SUBSET Best(S)
  BY DEF Window, First
<1> QED
  BY <1>1, BestIn, FS_Subset

\* Every offered entity has a best item.
LEMMA BestOf ==
  ASSUME NEW S \in SUBSET Item, IsFiniteSet(S), NEW y \in S
  PROVE  \E b \in Best(S) : b.e = y.e /\ y.score <= b.score /\ (b = y \/ Better(b, y))
<1> DEFINE T == {z \in S : z.e = y.e}
<1>1. T \in SUBSET Item /\ IsFiniteSet(T) /\ T # {}
  BY FS_Subset
<1>2. PICK b \in T : \A z \in T : <<z, b>> \notin BetterOn(T)
  <2> HIDE DEF T
  <2> QED
    BY <1>1, BetterTotal, LeastElement DEF TotalOrder
<1>3. \A z \in T : ~Better(z, b)
  BY <1>2 DEF BetterOn
<1>4. \A z \in T : z.score <= b.score
  BY <1>1, <1>3, ItemFacts DEF Better
<1>5. b \in Best(S) /\ b.e = y.e
  BY <1>4 DEF Best
<1>6. y \in T /\ (b = y \/ Better(b, y))
  BY <1>1, <1>3, BetterOrder
<1> QED
  BY <1>4, <1>5, <1>6

\* Items of different entities are as many as their entities.
LEMMA AsManyEntities ==
  ASSUME NEW U \in SUBSET Item, IsFiniteSet(U), \A x, y \in U : x.e = y.e => x = y
  PROVE  Cardinality({x.e : x \in U}) = Cardinality(U)
<1> DEFINE T == {x.e : x \in U}
           f == [x \in U |-> x.e]
<1>1. f \in [U -> T] /\ (\A x, y \in U : f[x] = f[y] => x = y) /\ \A t \in T : \E x \in U : f[x] = t
  OBVIOUS
<1> HIDE DEF T, f
<1>2. f \in Injection(U, T) /\ f \in Surjection(U, T)
  BY <1>1 DEF Injection, IsInjective, Surjection
<1>3. Cardinality(T) = Cardinality(U)
  BY <1>2, FS_Surjection
<1> QED
  BY <1>3 DEF T

LEMMA AboveFinite ==
  ASSUME NEW S \in SUBSET Item, NEW x
  PROVE  /\ Above(S, x) \in SUBSET Entities /\ IsFiniteSet(Above(S, x))
         /\ Cardinality(Above(S, x)) \in Nat
<1>1. Above(S, x) \in SUBSET Entities
  BY ItemFacts DEF Above
<1>2. IsFiniteSet(Above(S, x))
  BY <1>1, FS_Subset, SearchAssumption
<1> QED
  BY <1>1, <1>2, FS_CardinalityType

LEMMA AboveGrows ==
  ASSUME NEW S \in SUBSET Item, NEW T \in SUBSET Item, NEW x, NEW y,
         Above(S, x) \subseteq Above(T, y)
  PROVE  Cardinality(Above(S, x)) <= Cardinality(Above(T, y))
BY AboveFinite, FS_Subset

\* An item is kept when fewer than n entities have a better one.
LEMMA KeptWhen ==
  ASSUME NEW S \in SUBSET Item, IsFiniteSet(S), NEW n, NEW x
  PROVE  x \in Window(S, n) <=> x \in Best(S) /\ Cardinality(Above(S, x)) < n
<1> SUFFICES ASSUME x \in Best(S)
             PROVE  Cardinality({y \in Best(S) : Better(y, x)}) = Cardinality(Above(S, x))
  BY DEF Window, First
<1> DEFINE U == {y \in Best(S) : Better(y, x)}
<1>1. U \in SUBSET Item /\ IsFiniteSet(U)
  BY BestIn, FS_Subset
<1>2. \A y, z \in U : y.e = z.e => y = z
  <2>1. \A y, z \in U : y.e = z.e => y.score <= z.score /\ z.score <= y.score
    BY DEF Best
  <2> QED
    BY <1>1, <2>1, ItemFacts
<1>3. {y.e : y \in U} = Above(S, x)
  <2>1. ASSUME NEW z \in S, Better(z, x) PROVE \E y \in U : y.e = z.e
    <3>1. PICK b \in Best(S) : b.e = z.e /\ (b = z \/ Better(b, z))
      BY BestOf
    <3>2. b \in Item /\ z \in Item /\ x \in Item
      BY BestIn
    <3> QED
      BY <2>1, <3>1, <3>2, BetterOrder
  <2>2. U \subseteq {z \in S : Better(z, x)}
    BY BestIn
  <2> HIDE DEF U
  <2> QED
    BY <2>1, <2>2 DEF Above
<1> HIDE DEF U
<1>4. Cardinality(U) = Cardinality(Above(S, x))
  BY <1>1, <1>2, <1>3, AsManyEntities
<1> QED
  BY <1>4 DEF U

LEMMA KeptSize ==
  ASSUME NEW S \in SUBSET Item, IsFiniteSet(S), NEW n \in Nat
  PROVE  /\ Cardinality(Window(S, n)) \in Nat /\ Cardinality(Window(S, n)) <= n
         /\ \A b \in Best(S) \ Window(S, n) :
              Cardinality(Window(S, n)) = n /\ \A x \in Window(S, n) : Better(x, b)
<1> DEFINE B == Best(S)
           W == Window(S, n)
           R == BetterOn(B)
<1>1. B \in SUBSET Item /\ IsFiniteSet(B)
  BY BestIn
<1>2. TotalOrder(R, B)
  BY <1>1, BetterTotal
<1>3. W = Foremost(B, R, n)
  BY FirstBetter DEF Window
<1>4. Cardinality(B) \in Nat
  BY <1>1, FS_CardinalityType
<1> HIDE DEF B, W, R
<1>5. (n <= Cardinality(B) => Cardinality(W) = n) /\ (Cardinality(B) <= n => W = B)
  BY <1>1, <1>2, <1>3, FirstRows
<1>6. Cardinality(W) \in Nat /\ Cardinality(W) <= n
  BY <1>4, <1>5
<1>7. ASSUME NEW b \in B \ W PROVE Cardinality(W) = n /\ \A x \in W : Better(x, b)
  <2>1. Cardinality(W) = n
    BY <1>4, <1>5, <1>7
  <2>2. ASSUME NEW x \in W PROVE Better(x, b)
    <3>1. /\ Cardinality(Below(R, B, x)) < n /\ ~(Cardinality(Below(R, B, b)) < n)
          /\ x \in B /\ x # b
      BY <1>3 DEF Foremost
    <3>2. Cardinality(Below(R, B, x)) \in Nat /\ Cardinality(Below(R, B, b)) \in Nat
      BY <1>1, BelowFinite
    <3>3. <<b, x>> \notin R
      BY <1>1, <1>2, <3>1, <3>2, BelowGrows DEF TotalOrder
    <3>4. <<x, b>> \in R
      BY <1>2, <3>1, <3>3 DEF TotalOrder
    <3> QED
      BY <3>4 DEF R, BetterOn
  <2> QED
    BY <2>1, <2>2
<1> QED
  BY <1>6, <1>7 DEF B, W

\* Of whatever was offered, either the window has an item of the entity that is as good,
\* or n entities of the window are better.
LEMMA KeptOrOutranked ==
  ASSUME NEW S \in SUBSET Item, IsFiniteSet(S), NEW n \in Nat, NEW y \in S
  PROVE  \/ \E w \in Window(S, n) : w.e = y.e /\ y.score <= w.score /\ (w = y \/ Better(w, y))
         \/ n <= Cardinality(Above(Window(S, n), y))
<1> DEFINE W == Window(S, n)
<1>1. PICK b \in Best(S) : b.e = y.e /\ y.score <= b.score /\ (b = y \/ Better(b, y))
  BY BestOf
<1>2. CASE b \in W
  BY <1>1, <1>2
<1>3. CASE b \notin W
  <2>1. Cardinality(W) = n /\ \A x \in W : Better(x, b)
    BY <1>3, KeptSize
  <2>2. W \in SUBSET Item /\ W \in SUBSET Best(S) /\ IsFiniteSet(W) /\ b \in Item
    BY WindowIn, BestIn
  <2>3. \A x, z \in W : x.e = z.e => x = z
    <3>1. \A x, z \in W : x.e = z.e => x.score <= z.score /\ z.score <= x.score
      BY <2>2 DEF Best
    <3> HIDE DEF W
    <3> QED
      BY <2>2, <3>1, ItemFacts
  <2>4. \A x \in W : Better(x, y)
    BY <1>1, <2>1, <2>2, BetterOrder
  <2> HIDE DEF W
  <2>5. {x.e : x \in W} = Above(W, y)
    BY <2>4 DEF Above
  <2>6. Cardinality(Above(W, y)) = n
    BY <2>1, <2>2, <2>3, <2>5, AsManyEntities
  <2> QED
    BY <2>6 DEF W
<1> QED
  BY <1>2, <1>3

\* Cutting after each merge is cutting once (_merge_window).
LEMMA WindowOfWindow ==
  ASSUME NEW O \in SUBSET Item, NEW A \in SUBSET Item, IsFiniteSet(O), IsFiniteSet(A),
         NEW n \in Nat
  PROVE  Window(Window(O, n) \cup A, n) = Window(O \cup A, n)
<1> DEFINE W == Window(O, n)
           D == W \cup A
           E == O \cup A
<1>1. /\ W \in SUBSET O /\ W \in SUBSET Item /\ IsFiniteSet(W)
      /\ D \in SUBSET Item /\ E \in SUBSET Item /\ D \in SUBSET E
      /\ IsFiniteSet(D) /\ IsFiniteSet(E)
  BY WindowIn, FS_Union
<1>2. ASSUME NEW y \in E
      PROVE  \/ \E d \in D : d.e = y.e /\ y.score <= d.score /\ (d = y \/ Better(d, y))
             \/ n <= Cardinality(Above(D, y))
  <2>1. CASE y \in A
    <3>1. y.score <= y.score
      BY <2>1, ItemFacts
    <3> QED
      BY <2>1, <3>1
  <2>2. CASE y \in O
    <3>1. CASE n <= Cardinality(Above(W, y))
      <4>1. Above(W, y) \subseteq Above(D, y)
        BY DEF Above
      <4>2. Cardinality(Above(W, y)) <= Cardinality(Above(D, y))
        BY <1>1, <4>1, AboveGrows
      <4> QED
        BY <1>1, <3>1, <4>2, AboveFinite
    <3> QED
      BY <2>2, <3>1, KeptOrOutranked
  <2> QED
    BY <2>1, <2>2
<1> HIDE DEF W, D, E
<1>3. ASSUME NEW x \in Window(D, n) PROVE x \in Window(E, n)
  <2>1. x \in Best(D) /\ Cardinality(Above(D, x)) < n /\ x \in D /\ x \in Item
    BY <1>1, <1>3, KeptWhen DEF Best
  <2>2. ASSUME NEW y \in E, Better(y, x)
        PROVE  \E d \in D : d.e = y.e /\ y.score <= d.score /\ Better(d, x)
    <3>1. y \in Item /\ D \subseteq Item
      BY <1>1
    <3>2. ~(n <= Cardinality(Above(D, y)))
      <4>1. Above(D, y) \subseteq Above(D, x)
        BY <2>1, <2>2, <3>1, BetterOrder DEF Above
      <4>2. Cardinality(Above(D, y)) <= Cardinality(Above(D, x))
        BY <1>1, <4>1, AboveGrows
      <4>3. Cardinality(Above(D, y)) \in Nat /\ Cardinality(Above(D, x)) \in Nat
        BY <1>1, AboveFinite
      <4> QED
        BY <2>1, <4>2, <4>3
    <3>3. PICK d \in D : d.e = y.e /\ y.score <= d.score /\ (d = y \/ Better(d, y))
      BY <1>2, <3>2
    <3>4. Better(d, x)
      BY <2>1, <2>2, <3>1, <3>3, BetterOrder
    <3> QED
      BY <3>3, <3>4
  <2>3. x \in Best(E)
    <3>1. ASSUME NEW y \in E, y.e = x.e PROVE y.score <= x.score
      <4>1. y \in Item
        BY <1>1
      <4>2. CASE Better(y, x)
        <5>1. PICK d \in D : d.e = y.e /\ y.score <= d.score
          BY <2>2, <4>2
        <5>2. d.score <= x.score /\ d \in Item
          BY <1>1, <2>1, <3>1, <5>1 DEF Best
        <5> QED
          BY <2>1, <4>1, <5>1, <5>2, ItemFacts
      <4>3. CASE ~Better(y, x)
        BY <2>1, <4>1, <4>3, ItemFacts DEF Better
      <4> QED
        BY <4>2, <4>3
    <3> QED
      BY <1>1, <2>1, <3>1 DEF Best
  <2>4. Above(E, x) \subseteq Above(D, x)
    BY <2>2 DEF Above
  <2>5. Cardinality(Above(E, x)) < n
    <3>1. Cardinality(Above(E, x)) <= Cardinality(Above(D, x))
      BY <1>1, <2>4, AboveGrows
    <3> QED
      BY <1>1, <2>1, <3>1, AboveFinite
  <2> QED
    BY <1>1, <2>3, <2>5, KeptWhen
<1>4. ASSUME NEW x \in Window(E, n) PROVE x \in Window(D, n)
  <2>1. x \in Best(E) /\ Cardinality(Above(E, x)) < n /\ x \in E
    BY <1>1, <1>4, KeptWhen DEF Best
  <2>2. ASSUME NEW T \in SUBSET E, x \in T
        PROVE  x \in Best(T) /\ Cardinality(Above(T, x)) < n
    <3>1. T \in SUBSET Item /\ Above(T, x) \subseteq Above(E, x)
      BY <1>1 DEF Above
    <3>2. Cardinality(Above(T, x)) <= Cardinality(Above(E, x))
      BY <1>1, <3>1, AboveGrows
    <3>3. Cardinality(Above(T, x)) < n
      BY <1>1, <2>1, <3>1, <3>2, AboveFinite
    <3> QED
      BY <2>1, <2>2, <3>3 DEF Best
  <2>3. x \in D
    <3>1. CASE x \in O
      <4>1. x \in Best(O) /\ Cardinality(Above(O, x)) < n
        BY <2>2, <3>1 DEF E
      <4> QED
        BY <4>1, KeptWhen DEF D, W
    <3> QED
      BY <2>1, <3>1 DEF E, D
  <2> QED
    BY <1>1, <2>2, <2>3, KeptWhen
<1> QED
  BY <1>3, <1>4 DEF D, E, W

-----------------------------------------------------------------------------
(* The invariant of a call.                                                *)

Scopes == UNION {[K -> Entities] : K \in SUBSET {"document", "file", "paragraph"}}

SearchRecord ==
  [pc : {"idle", "embed", "failed", "page", "primary", "next", "closest", "children", "done"},
   asked : Query \cup {None}, q : Query \cup {None}, offset : Nat, shown : Seq(Chunks),
   queue : SUBSET Item, primary : SUBSET Item, at : Item \cup {None}, window : SUBSET Item,
   scope : Scopes]

\* The query that is executed.
Effective(q) == IF WantsEmbedding(q) THEN Embedded(q) ELSE q

Refining(q) == q.refine /\ Mode(q) = "semantic"

Loop == {"next", "closest", "children"}

\* Where the call is and what its locals are then.
CallOK ==
  /\ search.pc # "idle" => search.asked \in Query /\ search.q \in Query
  /\ search.pc = "embed" => search.q = search.asked /\ WantsEmbedding(search.asked)
  /\ search.pc \in Loop \cup {"page", "primary", "done"} => search.q = Effective(search.asked)
  /\ search.pc = "page" => ~Refining(search.q)
  /\ search.pc \in Loop \cup {"primary"} => Refining(search.q)
  /\ search.pc \in {"closest", "children"} => search.at \in Item
  /\ search.pc \notin Loop \cup {"done"} =>
       offered = {} /\ search.window = {} /\ search.primary = {} /\ search.queue = {}
  /\ search.pc = "done" /\ Refining(search.q) => search.queue = {}

\* The window is what one cut leaves of all that was offered.
WindowOK ==
  search.pc \in Loop \cup {"done"} => search.window = Window(offered, search.q.limit)

\* The sets of a call are finite, the candidates as many as were asked for.
SizesOK ==
  /\ IsFiniteSet(offered) /\ search.window \subseteq offered
  /\ search.queue \subseteq search.primary
  /\ Cardinality(search.primary) <= IF search.q = None THEN 0 ELSE search.q.candidateLimit

Position(q, c) == Cardinality({d \in Matches(q) : Precedes(q, d, c)})

Shown == {search.shown[i] : i \in DOMAIN search.shown}

\* The pages so far show the matches before the offset, once each.
PagesOK ==
  LET q == Effective(search.asked)
  IN ~touched /\ search.pc \in {"embed", "page", "done"} /\ ~Refining(q) =>
       /\ \A i, j \in DOMAIN search.shown : search.shown[i] = search.shown[j] => i = j
       /\ Shown = IF search.pc = "done" THEN Matches(q)
                  ELSE {c \in Matches(q) : Position(q, c) < search.offset}

Unlinked(d) == ~\E f \in Files : owner[f] = d
Parts(d) == {e \in Paragraphs \cup Chunks : DocOf[e] = d}

\* While nothing changes: the candidates are those that would be read now, each chunk
\* behind the loop was offered, and a document was offered only for want of parts.
RefinementOK ==
  ~touched /\ search.pc \in Loop \cup {"done"} /\ Refining(search.q) =>
    /\ search.primary = PrimaryCandidates(search.q)
    /\ \A x \in search.primary \ search.queue : x.e \in Chunks => x \in offered
    /\ \A x \in offered :
         x.e \in Docs /\ Unlinked(x.e) => \A e \in Parts(x.e) : ~Comparable(e)
    /\ search.pc = "closest" => search.at.e \in Docs \cup Files
    /\ search.pc = "closest" /\ search.at.e \in Docs =>
         search.scope = [key \in {"document"} |-> search.at.e]
    /\ search.pc = "children" /\ search.at.e \in Docs /\ Unlinked(search.at.e) =>
         \A e \in Parts(search.at.e) : InScope(e, search.scope)

RowTypes ==
  /\ owner \in [Docs \cup Files -> Owners]
  /\ live \subseteq Entities
  /\ current \in [Entities -> Versions]
  /\ vector \in [Entities -> Versions \cup {None}]
  /\ touched \in BOOLEAN /\ writes \in 0 .. MaxWrites

CallTypes == search \in SearchRecord /\ offered \subseteq Item /\ CallOK /\ SizesOK

SearchInv == RowTypes /\ CallTypes /\ WindowOK /\ PagesOK /\ RefinementOK

-----------------------------------------------------------------------------
(* What the statements return.                                             *)

LEMMA EffectiveQuery ==
  ASSUME NEW q \in Query
  PROVE  /\ Effective(q) \in Query /\ Effective(q).limit = q.limit
         /\ q.limit \in Nat \ {0} /\ q.candidateLimit \in Nat \ {0} /\ q.threshold \in Nat
<1>1. Embedded(q) \in Query /\ Embedded(q).limit = q.limit
  BY DEF Embedded, Query
<1>2. q.limit \in Nat \ {0} /\ q.candidateLimit \in Nat \ {0} /\ q.threshold \in Nat
  BY DEF Query
<1> QED
  BY <1>1, <1>2 DEF Effective

LEMMA ScoreType ==
  ASSUME RowTypes, NEW e \in Entities, CurrentVector(e)
  PROVE  Score(e) \in Nat
<1>1. vector[e] \in Versions
  BY DEF RowTypes, CurrentVector
<1>2. Similarity[e] \in [Versions -> Nat]
  BY SearchAssumption
<1> QED
  BY <1>1, <1>2 DEF Score

LEMMA HitsItems ==
  ASSUME RowTypes, NEW levels \in SUBSET Entities, NEW t
  PROVE  LET H == Hits(levels, t)
         IN /\ H \in SUBSET Item /\ IsFiniteSet(H)
            /\ \A x \in H : /\ x.e \in levels \cap live /\ CurrentVector(x.e)
                            /\ x.score = Score(x.e) /\ x.score >= t
            /\ \A e \in levels \cap live :
                 CurrentVector(e) /\ Score(e) >= t => [e |-> e, score |-> Score(e)] \in H
<1> DEFINE H == Hits(levels, t)
           f == [x \in H |-> x.e]
<1>1. \A x \in H : /\ x.e \in levels \cap live /\ CurrentVector(x.e) /\ x.score >= t
                   /\ x = [e |-> x.e, score |-> Score(x.e)]
  BY DEF Hits
<1>2. \A x \in H : x \in Item
  <2>1. \A x \in H : x.e \in Entities /\ Score(x.e) \in Nat
    BY <1>1, ScoreType
  <2> QED
    BY <1>1, <2>1, ItemFacts
<1>3. f \in [H -> Entities] /\ \A x, y \in H : f[x] = f[y] => x = y
  <2>1. \A x \in H : f[x] = x.e /\ x.e \in Entities
    BY <1>1
  <2> QED
    BY <1>1, <2>1
<1> HIDE DEF f
<1>4. IsFiniteSet(H)
  <2>1. f \in Injection(H, Entities)
    BY <1>3 DEF Injection, IsInjective
  <2> QED
    BY <2>1, FS_Injection, SearchAssumption
<1>5. \A e \in levels \cap live :
        CurrentVector(e) /\ Score(e) >= t => [e |-> e, score |-> Score(e)] \in H
  BY DEF Hits
<1>6. \A x \in H : x.score = Score(x.e)
  BY <1>1
<1> HIDE DEF H
<1> QED
  BY <1>1, <1>2, <1>4, <1>5, <1>6 DEF H

\* The candidates: at most as many as were asked for, and all there are if fewer.
LEMMA Candidates ==
  ASSUME RowTypes, NEW q \in Query
  PROVE  /\ PrimaryCandidates(q) \in SUBSET Hits(Entities, q.threshold)
         /\ PrimaryCandidates(q) \in SUBSET Item /\ IsFiniteSet(PrimaryCandidates(q))
         /\ Cardinality(PrimaryCandidates(q)) <= q.candidateLimit
         /\ Cardinality(PrimaryCandidates(q)) < q.candidateLimit =>
              PrimaryCandidates(q) = Hits(Entities, q.threshold)
<1> DEFINE H == Hits(Entities, q.threshold)
           n == q.candidateLimit
           P == PrimaryCandidates(q)
           R == BetterOn(H)
<1>1. H \in SUBSET Item /\ IsFiniteSet(H)
  BY HitsItems
<1>2. n \in Nat
  BY EffectiveQuery
<1>3. P = Foremost(H, R, n)
  BY FirstBetter DEF PrimaryCandidates
<1> HIDE DEF n, H, P
<1>4. TotalOrder(R, H) /\ Cardinality(H) \in Nat
  BY <1>1, BetterTotal, FS_CardinalityType
<1> HIDE DEF R
<1>5. (n <= Cardinality(H) => Cardinality(P) = n) /\ (Cardinality(H) <= n => P = H)
  BY <1>1, <1>2, <1>3, <1>4, FirstRows
<1>6. Cardinality(P) <= n /\ (Cardinality(P) < n => P = H)
  BY <1>2, <1>4, <1>5
<1>7. P \in SUBSET H
  BY <1>3 DEF Foremost
<1>8. IsFiniteSet(P)
  BY <1>1, <1>7, FS_Subset
<1> QED
  BY <1>1, <1>6, <1>7, <1>8 DEF H, n, P

-----------------------------------------------------------------------------
(* Writes of others.                                                       *)

LEMMA DisturbanceKeeps ==
  ASSUME SearchInv, RowTypes', touched', UNCHANGED <<search, offered>>
  PROVE  SearchInv'
<1>1. CallTypes' /\ WindowOK'
  BY DEF SearchInv, CallTypes, CallOK, SizesOK, WindowOK
<1>2. PagesOK' /\ RefinementOK'
  BY DEF PagesOK, RefinementOK
<1> QED
  BY <1>1, <1>2 DEF SearchInv

LEMMA WritersDisturb ==
  ASSUME SearchInv,
         \/ \E e \in Entities : Mark(e) \/ \E v \in Versions : Vectorize(e, v)
         \/ \E c \in Chunks : SelectVersion(c) \/ UpdateText(c)
         \/ \E e \in Docs \cup Files, o \in Owners : GiveOwner(e, o)
  PROVE  SearchInv'
<1>1. RowTypes
  BY DEF SearchInv
<1>2. ASSUME Write PROVE /\ touched' /\ touched' \in BOOLEAN /\ writes' \in 0 .. MaxWrites
                         /\ UNCHANGED <<search, offered>>
  BY <1>1, <1>2, SearchAssumption DEF Write, RowTypes
<1>3. CASE \E e \in Entities : Mark(e)
  BY <1>1, <1>2, <1>3, DisturbanceKeeps DEF Mark, RowTypes
<1>4. CASE \E e \in Entities, v \in Versions : Vectorize(e, v)
  BY <1>1, <1>2, <1>4, DisturbanceKeeps DEF Vectorize, RowTypes
<1>5. CASE \E c \in Chunks : SelectVersion(c) \/ UpdateText(c)
  <2>1. PICK c \in Chunks : SelectVersion(c) \/ UpdateText(c)
    BY <1>5
  <2>2. current' = [current EXCEPT ![c] = 3 - @] /\ Write /\ UNCHANGED <<owner, live>>
    BY <2>1 DEF SelectVersion, UpdateText
  <2>3. current' \in [Entities -> Versions]
    <3>1. \A v \in Versions : 3 - v \in Versions
      BY DEF Versions
    <3> QED
      BY <1>1, <2>2, <3>1 DEF RowTypes
  <2>4. vector' \in [Entities -> Versions \cup {None}]
    BY <1>1, <2>1 DEF RowTypes, SelectVersion, UpdateText
  <2> QED
    BY <1>1, <1>2, <2>2, <2>3, <2>4, DisturbanceKeeps DEF RowTypes
<1>6. CASE \E e \in Docs \cup Files, o \in Owners : GiveOwner(e, o)
  BY <1>1, <1>2, <1>6, DisturbanceKeeps DEF GiveOwner, RowTypes
<1> QED
  BY <1>3, <1>4, <1>5, <1>6

-----------------------------------------------------------------------------
(* The steps of a call.                                                    *)

LEMMA SameReads ==
  ASSUME UNCHANGED rows
  PROVE  /\ \A q : Matches(q)' = Matches(q)
         /\ \A q, c : Position(q, c)' = Position(q, c)
         /\ \A q : PrimaryCandidates(q)' = PrimaryCandidates(q)
         /\ \A d : Unlinked(d)' = Unlinked(d)
         /\ \A e : CurrentVector(e)' = CurrentVector(e) /\ Score(e)' = Score(e)
<1>1. /\ \A e : CurrentVector(e)' = CurrentVector(e) /\ Score(e)' = Score(e)
      /\ \A d : Unlinked(d)' = Unlinked(d)
  BY DEF rows, CurrentVector, Score, Unlinked
<1>2. \A q : Matches(q)' = Matches(q)
  BY <1>1 DEF rows, Matches
<1>3. \A q, c, d : Precedes(q, c, d)' = Precedes(q, c, d)
  <2>1. \A q, c : Rank(q, c)' = Rank(q, c)
    BY <1>1 DEF rows, Rank
  <2> QED
    BY <2>1 DEF Precedes
<1>4. \A q, c : Position(q, c)' = Position(q, c)
  BY <1>2, <1>3 DEF Position
<1>5. \A q : PrimaryCandidates(q)' = PrimaryCandidates(q)
  <2>1. \A levels, t : Hits(levels, t)' = Hits(levels, t)
    BY <1>1 DEF rows, Hits
  <2> QED
    BY <2>1 DEF PrimaryCandidates
<1> QED
  BY <1>1, <1>2, <1>4, <1>5

LEMMA SameRowTypes ==
  ASSUME RowTypes, UNCHANGED rows, writes' = writes, touched' \in BOOLEAN
  PROVE  RowTypes'
BY DEF RowTypes, rows

LEMMA MatchesFinite ==
  ASSUME NEW q
  PROVE  /\ Matches(q) \in SUBSET Chunks /\ IsFiniteSet(Matches(q))
         /\ \A c : Position(q, c) \in Nat
<1>1. Matches(q) \in SUBSET Chunks /\ Chunks \in SUBSET Entities
  BY DEF Matches, Entities
<1>2. IsFiniteSet(Matches(q))
  BY <1>1, FS_Subset, SearchAssumption
<1>3. ASSUME NEW c PROVE Position(q, c) \in Nat
  <2>1. {d \in Matches(q) : Precedes(q, d, c)} \in SUBSET Matches(q)
    OBVIOUS
  <2> QED
    BY <1>2, <2>1, FS_Subset, FS_CardinalityType DEF Position
<1> QED
  BY <1>1, <1>2, <1>3

LEMMA EmptyWindow ==
  ASSUME NEW n
  PROVE  Window({}, n) = {}
BY DEF Window, First, Best

\* A page is asked for: the first one, or the one after those shown.
LEMMA ReceivedKeeps ==
  ASSUME SearchInv, UNCHANGED rows, writes' = writes, offered' = offered,
         touched' \in BOOLEAN,
         NEW q \in Query, NEW offset \in Nat, NEW shown \in Seq(Chunks),
         search' = Received(q, offset, shown),
         search.pc \notin Loop \cup {"done"},
         ~touched' =>
           /\ \A i, j \in DOMAIN shown : shown[i] = shown[j] => i = j
           /\ {shown[i] : i \in DOMAIN shown} =
                {c \in Matches(Effective(q)) : Position(Effective(q), c) < offset}
  PROVE  SearchInv'
<1> DEFINE pc == IF WantsEmbedding(q) THEN "embed" ELSE Planned(q)
<1>1. /\ pc \in {"embed", "failed", "page", "primary"}
      /\ pc = "embed" <=> WantsEmbedding(q)
      /\ pc # "embed" => Effective(q) = q
      /\ pc = "page" => ~Refining(q)
      /\ pc = "primary" => Refining(q)
  BY DEF Planned, Effective, Refining
<1>2. /\ search \in SearchRecord
      /\ offered = {} /\ search.window = {} /\ search.primary = {} /\ search.queue = {}
  BY DEF SearchInv, CallTypes, CallOK
<1>3. search' = [search EXCEPT !.asked = q, !.q = q, !.offset = offset, !.shown = shown, !.pc = pc]
  BY DEF Received
<1> HIDE DEF pc
<1>4. /\ search' \in SearchRecord /\ search'.pc = pc /\ search'.asked = q /\ search'.q = q
      /\ search'.offset = offset /\ search'.shown = shown
      /\ search'.window = {} /\ search'.primary = {} /\ search'.queue = {}
  BY <1>1, <1>2, <1>3, ZenonT(60) DEF SearchRecord
<1>5. CallOK'
  BY <1>1, <1>2, <1>4 DEF CallOK, Loop
<1>6. CallTypes'
  <2>1. SizesOK'
    <3>1. q.candidateLimit \in Nat
      BY EffectiveQuery
    <3> QED
      BY <1>2, <1>4, <3>1, FS_EmptySet DEF SizesOK
  <2> QED
    BY <1>2, <1>4, <1>5, <2>1 DEF CallTypes
<1>7. RowTypes'
  BY SameRowTypes DEF SearchInv
<1>8. WindowOK' /\ RefinementOK'
  BY <1>1, <1>4 DEF WindowOK, RefinementOK, Loop
<1>9. PagesOK'
  <2>1. search'.pc # "done"
    BY <1>1, <1>4
  <2> QED
    BY <1>4, <2>1, SameReads DEF PagesOK, Shown
<1> QED
  BY <1>6, <1>7, <1>8, <1>9 DEF SearchInv

LEMMA AskKeeps ==
  ASSUME SearchInv, NEW q \in Queries, Ask(q)
  PROVE  SearchInv'
<1>1. q \in Query /\ 0 \in Nat /\ <<>> \in Seq(Chunks)
  BY SearchAssumption
<1>2. /\ search' = Received(q, 0, <<>>) /\ touched' \in BOOLEAN
      /\ UNCHANGED rows /\ writes' = writes /\ offered' = offered
      /\ search.pc \notin Loop \cup {"done"}
  BY DEF Ask, Undisturbed, Loop
<1>3. {c \in Matches(Effective(q)) : Position(Effective(q), c) < 0} = {}
  BY MatchesFinite
<1> DEFINE shown == <<>>
<1>4. shown \in Seq(Chunks) /\ DOMAIN shown = {} /\ search' = Received(q, 0, shown)
  BY <1>2
<1> HIDE DEF shown
<1>5. /\ \A i, j \in DOMAIN shown : shown[i] = shown[j] => i = j
      /\ {shown[i] : i \in DOMAIN shown} =
           {c \in Matches(Effective(q)) : Position(Effective(q), c) < 0}
  BY <1>3, <1>4
<1> QED
  BY <1>1, <1>2, <1>4, <1>5, ReceivedKeeps

LEMMA EmbedKeeps ==
  ASSUME SearchInv, Embed
  PROVE  SearchInv'
<1> DEFINE q == Embedded(search.q)
<1>1. /\ search \in SearchRecord /\ search.q = search.asked /\ search.asked \in Query
      /\ q = Effective(search.asked)
      /\ offered = {} /\ search.window = {} /\ search.primary = {} /\ search.queue = {}
  BY DEF SearchInv, CallTypes, CallOK, Loop, Embed, Effective
<1>2. q \in Query /\ q.candidateLimit \in Nat /\ search.asked.candidateLimit \in Nat
  BY <1>1, EffectiveQuery
<1>3. Planned(q) \in {"failed", "page", "primary"}
      /\ (Planned(q) = "page" => ~Refining(q)) /\ (Planned(q) = "primary" => Refining(q))
  BY DEF Planned, Refining
<1>4. \/ search' = [search EXCEPT !.q = q, !.pc = Planned(q)]
      \/ search' = [search EXCEPT !.pc = "failed"]
  BY DEF Embed
<1> HIDE DEF q
<1>5. /\ search' \in SearchRecord /\ search'.asked = search.asked
      /\ search'.offset = search.offset /\ search'.shown = search.shown
      /\ search'.window = {} /\ search'.primary = {} /\ search'.queue = {}
      /\ search'.pc \in {"failed", "page", "primary"}
      /\ search'.q \in {q, search.asked}
      /\ search'.pc \in {"page", "primary"} => search'.pc = Planned(q) /\ search'.q = q
  BY <1>1, <1>2, <1>3, <1>4 DEF SearchRecord
<1>6. UNCHANGED rows /\ writes' = writes /\ offered' = offered /\ touched' = touched
  BY DEF Embed, Undisturbed
<1>7. RowTypes'
  BY <1>6, SameRowTypes DEF SearchInv, RowTypes
<1>8. CallTypes'
  <2>1. CallOK'
    BY <1>1, <1>2, <1>3, <1>5, <1>6 DEF CallOK, Loop
  <2>2. SizesOK'
    BY <1>1, <1>2, <1>5, <1>6, FS_EmptySet DEF SizesOK
  <2> QED
    BY <1>1, <1>5, <1>6, <2>1, <2>2 DEF CallTypes
<1>9. WindowOK' /\ RefinementOK'
  BY <1>5 DEF WindowOK, RefinementOK, Loop
<1>10. PagesOK'
  <2>1. search.pc = "embed" /\ search'.pc # "done" /\ PagesOK
    BY <1>5 DEF Embed, SearchInv
  <2> QED
    BY <1>5, <1>6, <2>1, SameReads DEF PagesOK, Shown
<1> QED
  BY <1>7, <1>8, <1>9, <1>10 DEF SearchInv

LEMMA PrimaryKeeps ==
  ASSUME SearchInv, Primary
  PROVE  SearchInv'
<1> DEFINE q == search.q
           found == PrimaryCandidates(q)
<1>1. /\ search \in SearchRecord /\ q \in Query /\ q = Effective(search.asked)
      /\ search.asked \in Query /\ Refining(q) /\ offered = {} /\ search.window = {}
  BY DEF SearchInv, CallTypes, CallOK, Loop, Primary
<1>2. /\ found \in SUBSET Item /\ IsFiniteSet(found)
      /\ Cardinality(found) <= q.candidateLimit
  BY <1>1, Candidates DEF SearchInv
<1>3. search' = [search EXCEPT !.pc = "next", !.queue = found, !.primary = found]
  BY DEF Primary
<1>4. /\ UNCHANGED rows /\ writes' = writes /\ offered' = offered /\ touched' = touched
      /\ found = PrimaryCandidates(q)'
  BY SameReads DEF Primary, Undisturbed
<1> HIDE DEF found
<1>5. /\ search' \in SearchRecord /\ search'.pc = "next" /\ search'.asked = search.asked
      /\ search'.q = search.q /\ search'.window = {}
      /\ search'.primary = found /\ search'.queue = found
  BY <1>1, <1>2, <1>3 DEF SearchRecord
<1>6. RowTypes'
  BY <1>4, SameRowTypes DEF SearchInv, RowTypes
<1>7. CallTypes'
  <2>1. CallOK'
    BY <1>1, <1>5 DEF CallOK, Loop
  <2>2. SizesOK'
    BY <1>1, <1>2, <1>4, <1>5, FS_EmptySet, SearchAssumption DEF SizesOK
  <2> QED
    BY <1>1, <1>4, <1>5, <2>1, <2>2 DEF CallTypes
<1>8. WindowOK'
  BY <1>1, <1>4, <1>5, EmptyWindow DEF WindowOK
<1>9. PagesOK'
  BY <1>5 DEF PagesOK
<1>10. RefinementOK'
  <2>1. found = PrimaryCandidates(search.q)'
    BY <1>4, <1>5
  <2> QED
    BY <1>1, <1>4, <1>5, <2>1 DEF RefinementOK
<1> QED
  BY <1>6, <1>7, <1>8, <1>9, <1>10 DEF SearchInv

LEMMA FinishKeeps ==
  ASSUME SearchInv, Finish
  PROVE  SearchInv'
<1>1. /\ search \in SearchRecord /\ search.pc = "next" /\ search.queue = {}
      /\ Refining(search.q) /\ search.q = Effective(search.asked)
  BY DEF SearchInv, CallTypes, CallOK, Loop, Finish, Finished
<1>2. search' = [search EXCEPT !.pc = "done"]
  BY DEF Finish
<1>3. UNCHANGED rows /\ writes' = writes /\ offered' = offered /\ touched' = touched
  BY DEF Finish, Undisturbed
<1>4. /\ search' \in SearchRecord /\ search'.pc = "done" /\ search'.asked = search.asked
      /\ search'.q = search.q /\ search'.window = search.window
      /\ search'.primary = search.primary /\ search'.queue = search.queue
  BY <1>1, <1>2 DEF SearchRecord
<1>5. RowTypes'
  BY <1>3, SameRowTypes DEF SearchInv, RowTypes
<1>6. CallTypes' /\ WindowOK'
  BY <1>1, <1>3, <1>4 DEF SearchInv, CallTypes, CallOK, SizesOK, WindowOK, Loop
<1>7. PagesOK'
  BY <1>1, <1>4 DEF PagesOK
<1>8. RefinementOK'
  <2>1. PrimaryCandidates(search.q)' = PrimaryCandidates(search.q)
    BY <1>3, <1>4, SameReads
  <2>2. \A e : Comparable(e)' = Comparable(e)
    BY <1>3, <1>4 DEF Comparable, rows
  <2> QED
    BY <1>1, <1>3, <1>4, <2>1, <2>2, SameReads DEF RefinementOK, SearchInv, Loop
<1> QED
  BY <1>5, <1>6, <1>7, <1>8 DEF SearchInv

LEMMA Levels ==
  /\ Docs \cap (Files \cup Paragraphs \cup Chunks) = {}
  /\ Files \cap (Paragraphs \cup Chunks) = {} /\ Paragraphs \cap Chunks = {}
  /\ Docs \subseteq Entities /\ Files \subseteq Entities
  /\ Paragraphs \subseteq Entities /\ Chunks \subseteq Entities
  /\ Entities = Docs \cup Files \cup Paragraphs \cup Chunks
<1>1. \A e \in Entities : e \in Nat /\ ~(e < e)
  <2>1. Entities \subseteq Nat
    BY SearchAssumption
  <2> QED
    BY <2>1
<1>2. \A e \in Docs \cup Files \cup Paragraphs \cup Chunks : e \in Entities
  BY DEF Entities
<1> QED
  BY <1>1, <1>2, SearchAssumption DEF Entities

\* Merging is cutting what was offered.
LEMMA MergedWindow ==
  ASSUME SearchInv, search.pc \in Loop, NEW additions \in SUBSET Item, IsFiniteSet(additions)
  PROVE  LET n == search.q.limit
             window == Merged(search.window, additions, n)
         IN /\ window = Window(offered \cup additions, n)
            /\ window \in SUBSET Item /\ window \subseteq offered \cup additions
            /\ IsFiniteSet(offered \cup additions)
<1> DEFINE n == search.q.limit
           W == search.window
<1>1. /\ offered \in SUBSET Item /\ IsFiniteSet(offered) /\ search.q \in Query
      /\ W = Window(offered, n)
  BY DEF SearchInv, CallTypes, CallOK, SizesOK, WindowOK, Loop
<1>2. n \in Nat
  BY <1>1, EffectiveQuery
<1>3. Merged(W, additions, n) = Window(W \cup additions, n)
  BY DEF Merged, Window, Best
<1> HIDE DEF n, W
<1>4. Merged(W, additions, n) = Window(offered \cup additions, n)
  BY <1>1, <1>2, <1>3, WindowOfWindow
<1>5. offered \cup additions \in SUBSET Item /\ IsFiniteSet(offered \cup additions)
  BY <1>1, FS_Union
<1>6. Window(offered \cup additions, n) \in SUBSET (offered \cup additions)
  BY <1>5, WindowIn
<1> QED
  BY <1>4, <1>5, <1>6 DEF n, W

\* What a step of the loop may assume, and what it has to show.
LEMMA LoopStep ==
  ASSUME SearchInv, search.pc \in Loop,
         UNCHANGED rows, writes' = writes, touched' = touched,
         search' \in SearchRecord, search'.pc \in Loop,
         search'.asked = search.asked, search'.q = search.q,
         search'.primary = search.primary, search'.queue \subseteq search.queue,
         search'.pc # "next" => search'.at \in Item,
         \/ offered' = offered /\ search'.window = search.window
         \/ \E additions \in SUBSET Item :
              /\ IsFiniteSet(additions) /\ offered' = offered \cup additions
              /\ search'.window = Merged(search.window, additions, search.q.limit),
         RefinementOK'
  PROVE  SearchInv'
<1>1. /\ search \in SearchRecord /\ search.asked \in Query /\ search.q \in Query
      /\ search.q = Effective(search.asked) /\ Refining(search.q)
  BY DEF SearchInv, CallTypes, CallOK, Loop
<1>2. /\ offered' \subseteq Item /\ IsFiniteSet(offered') /\ search'.window \subseteq offered'
      /\ search'.window = Window(offered', search.q.limit)
  <2>1. CASE offered' = offered /\ search'.window = search.window
    BY <2>1 DEF SearchInv, CallTypes, SizesOK, WindowOK
  <2>2. CASE \E additions \in SUBSET Item :
              /\ IsFiniteSet(additions) /\ offered' = offered \cup additions
              /\ search'.window = Merged(search.window, additions, search.q.limit)
    <3>1. PICK additions \in SUBSET Item :
              /\ IsFiniteSet(additions) /\ offered' = offered \cup additions
              /\ search'.window = Merged(search.window, additions, search.q.limit)
      BY <2>2
    <3>2. offered \subseteq Item
      BY DEF SearchInv, CallTypes
    <3> QED
      BY <3>1, <3>2, MergedWindow
  <2> QED
    BY <2>1, <2>2
<1>3. CallOK'
  BY <1>1 DEF CallOK, Loop
<1>4. CallTypes'
  <2>1. SizesOK'
    BY <1>2 DEF SearchInv, CallTypes, SizesOK
  <2> QED
    BY <1>2, <1>3, <2>1 DEF CallTypes
<1>5. RowTypes'
  BY SameRowTypes DEF SearchInv, RowTypes
<1>6. WindowOK'
  BY <1>2 DEF WindowOK
<1>7. PagesOK'
  BY DEF PagesOK, Loop
<1> QED
  BY <1>4, <1>5, <1>6, <1>7 DEF SearchInv

\* The part of RefinementOK that reads rows, after a step that changes none.
LEMMA SameRefinement ==
  ASSUME SearchInv, UNCHANGED rows, search'.q = search.q
  PROVE  /\ PrimaryCandidates(search.q)' = PrimaryCandidates(search.q)
         /\ \A e : Comparable(e)' = Comparable(e)
         /\ \A d : Unlinked(d)' = Unlinked(d)
         /\ \A e, s : InScope(e, s)' = InScope(e, s)
<1>1. \A e : Comparable(e)' = Comparable(e)
  BY DEF Comparable, rows
<1>2. \A e, s : InScope(e, s)' = InScope(e, s)
  BY DEF InScope, rows
<1> QED
  BY <1>1, <1>2, SameReads

LEMMA ScopeTypes ==
  /\ \A key \in {"document", "file", "paragraph"}, e \in Entities :
       [k \in {key} |-> e] \in Scopes
  /\ \A s \in Scopes, key \in {"document", "file", "paragraph"}, e \in Entities :
       [k \in DOMAIN s \cup {key} |-> IF k = key THEN e ELSE s[k]] \in Scopes
<1> DEFINE Keys == {"document", "file", "paragraph"}
<1>1. \A K \in SUBSET Keys : \A s \in [K -> Entities] : s \in Scopes
  BY DEF Scopes
<1>2. \A s \in Scopes : DOMAIN s \in SUBSET Keys /\ \A k \in DOMAIN s : s[k] \in Entities
  BY DEF Scopes
<1>3. ASSUME NEW key \in Keys, NEW e \in Entities PROVE [k \in {key} |-> e] \in Scopes
  <2>1. {key} \in SUBSET Keys /\ [k \in {key} |-> e] \in [{key} -> Entities]
    OBVIOUS
  <2> QED
    BY <1>1, <2>1
<1>4. ASSUME NEW s \in Scopes, NEW key \in Keys, NEW e \in Entities
      PROVE  [k \in DOMAIN s \cup {key} |-> IF k = key THEN e ELSE s[k]] \in Scopes
  <2> DEFINE K == DOMAIN s \cup {key}
  <2>1. K \in SUBSET Keys /\ \A k \in K : (IF k = key THEN e ELSE s[k]) \in Entities
    BY <1>2
  <2>2. [k \in K |-> IF k = key THEN e ELSE s[k]] \in [K -> Entities]
    BY <2>1
  <2> HIDE DEF K
  <2> QED
    BY <1>1, <2>1, <2>2 DEF K
<1> QED
  BY <1>3, <1>4

LEMMA CandidateKeeps ==
  ASSUME SearchInv, Candidate
  PROVE  SearchInv'
<1>1. PICK x \in search.queue :
        IF x.e \in Chunks
        THEN /\ search' = [Taken(x) EXCEPT !.window = Merged(@, {x}, search.q.limit)]
             /\ offered' = offered \cup {x}
        ELSE /\ search' = [Taken(x) EXCEPT
                  !.pc = IF x.e \in Paragraphs THEN "children" ELSE "closest",
                  !.scope = CASE x.e \in Paragraphs -> [key \in {"paragraph"} |-> x.e]
                              [] x.e \in Docs -> [key \in {"document"} |-> x.e]
                              [] x.e \in Files -> [key \in {"file"} |-> x.e]]
             /\ UNCHANGED offered
  BY DEF Candidate
<1>2. /\ search \in SearchRecord /\ search.pc = "next" /\ search.q \in Query /\ x \in Item
      /\ Refining(search.q) /\ search.queue \subseteq search.primary
      /\ UNCHANGED rows /\ writes' = writes /\ touched' = touched
  BY <1>1 DEF SearchInv, CallTypes, CallOK, SizesOK, Loop, Candidate, Undisturbed, SearchRecord
<1>3. /\ Taken(x) \in SearchRecord /\ Taken(x).pc = "next" /\ Taken(x).at = x
      /\ Taken(x).queue = search.queue \ {x} /\ Taken(x).primary = search.primary
      /\ Taken(x).asked = search.asked /\ Taken(x).q = search.q
      /\ Taken(x).window = search.window
  BY <1>2 DEF Taken, SearchRecord
<1>4. RefinementOK /\ search.pc \in Loop
  BY <1>2 DEF SearchInv, Loop
<1>5. CASE x.e \in Chunks
  <2> DEFINE w == Merged(search.window, {x}, search.q.limit)
  <2>1. w \in SUBSET Item /\ {x} \in SUBSET Item /\ IsFiniteSet({x})
    BY <1>2, <1>4, MergedWindow, FS_Singleton
  <2>2. search' = [Taken(x) EXCEPT !.window = w] /\ offered' = offered \cup {x}
    BY <1>1, <1>3, <1>5 DEF SearchRecord
  <2> HIDE DEF w
  <2>3. /\ search' \in SearchRecord /\ search'.pc = "next" /\ search'.window = w
        /\ search'.queue = search.queue \ {x} /\ search'.primary = search.primary
        /\ search'.asked = search.asked /\ search'.q = search.q
    BY <1>3, <2>1, <2>2 DEF SearchRecord
  <2>4. RefinementOK'
    <3>1. x.e \notin Docs
      BY <1>5, Levels
    <3> QED
      BY <1>2, <1>4, <2>2, <2>3, <3>1, SameRefinement DEF RefinementOK
  <2> QED
    BY <1>2, <1>4, <2>1, <2>2, <2>3, <2>4, LoopStep DEF w, Loop
<1>6. CASE x.e \notin Chunks
  <2> DEFINE pc == IF x.e \in Paragraphs THEN "children" ELSE "closest"
             start == CASE x.e \in Paragraphs -> [key \in {"paragraph"} |-> x.e]
                        [] x.e \in Docs -> [key \in {"document"} |-> x.e]
                        [] x.e \in Files -> [key \in {"file"} |-> x.e]
  <2>1. PICK scope \in Scopes :
          /\ search' = [Taken(x) EXCEPT !.pc = pc, !.scope = scope]
          /\ x.e \in Docs => scope = [key \in {"document"} |-> x.e]
    <3>1. x.e \in Entities
      BY <1>2, ItemFacts
    <3>2. search' = [Taken(x) EXCEPT !.pc = pc, !.scope = start]
      BY <1>1, <1>6
    <3>3. \/ x.e \in Paragraphs /\ start = [key \in {"paragraph"} |-> x.e]
          \/ x.e \in Docs /\ start = [key \in {"document"} |-> x.e]
          \/ x.e \in Files /\ start = [key \in {"file"} |-> x.e]
      <4>1. CASE x.e \in Paragraphs
        <5>1. x.e \notin Docs /\ x.e \notin Files
          BY <4>1, Levels
        <5> QED
          BY <4>1, <5>1
      <4>2. CASE x.e \in Docs
        <5>1. x.e \notin Paragraphs /\ x.e \notin Files
          BY <4>2, Levels
        <5> QED
          BY <4>2, <5>1
      <4>3. CASE x.e \in Files
        <5>1. x.e \notin Docs /\ x.e \notin Paragraphs
          BY <4>3, Levels
        <5> QED
          BY <4>3, <5>1
      <4> QED
        BY <1>6, <3>1, <4>1, <4>2, <4>3, Levels
    <3> HIDE DEF start, pc
    <3>4. start \in Scopes
      BY <3>1, <3>3, ScopeTypes
    <3>5. x.e \in Docs => start = [key \in {"document"} |-> x.e]
      BY <3>3, Levels
    <3> QED
      BY <3>2, <3>4, <3>5
  <2>2. offered' = offered /\ pc \in {"children", "closest"}
    BY <1>1, <1>6
  <2>3. pc = "children" => x.e \notin Docs
    BY Levels
  <2>4. pc = "closest" => x.e \in Docs \cup Files
    BY <1>2, <1>6, ItemFacts, Levels
  <2> HIDE DEF pc
  <2>5. /\ search' \in SearchRecord /\ search'.pc = pc /\ search'.window = search.window
        /\ search'.queue = search.queue \ {x} /\ search'.primary = search.primary
        /\ search'.asked = search.asked /\ search'.q = search.q /\ search'.at = x
        /\ search'.scope = scope
    BY <1>3, <2>1, <2>2 DEF SearchRecord
  <2>6. RefinementOK'
    <3>1. /\ PrimaryCandidates(search.q)' = PrimaryCandidates(search.q)
          /\ \A e : Comparable(e)' = Comparable(e)
          /\ \A d : Unlinked(d)' = Unlinked(d)
      BY <1>2, <2>5, SameRefinement
    <3> QED
      BY <1>2, <1>4, <1>6, <2>1, <2>2, <2>3, <2>4, <2>5, <3>1 DEF RefinementOK
  <2> QED
    BY <1>2, <1>4, <2>2, <2>5, <2>6, LoopStep DEF Loop
<1> QED
  BY <1>5, <1>6

LEMMA LinkKeeps ==
  ASSUME SearchInv, Link
  PROVE  SearchInv'
<1> DEFINE x == search.at.e
           found == IF x \in Docs THEN LinkedFiles(x) ELSE LinkedDocuments(x)
           key == IF x \in Docs THEN "file" ELSE "document"
<1>1. PICK e \in Closest(found) :
        search' = [search EXCEPT !.pc = "children",
            !.scope = IF e = None THEN @
                      ELSE [k \in DOMAIN @ \cup {key} |-> IF k = key THEN e ELSE @[k]]]
  BY DEF Link
<1>2. /\ search \in SearchRecord /\ search.pc = "closest" /\ search.q \in Query
      /\ search.at \in Item /\ Refining(search.q)
      /\ UNCHANGED rows /\ writes' = writes /\ touched' = touched /\ offered' = offered
  BY DEF SearchInv, CallTypes, CallOK, Loop, Link, Undisturbed
<1>3. e = None \/ e \in found
  BY DEF Closest
<1>4. found \subseteq Entities
  BY Levels DEF LinkedFiles, LinkedDocuments
<1>5. PICK scope \in Scopes :
        /\ search' = [search EXCEPT !.pc = "children", !.scope = scope]
        /\ scope = IF e = None THEN search.scope
                   ELSE [k \in DOMAIN search.scope \cup {key} |->
                           IF k = key THEN e ELSE search.scope[k]]
  <2>1. search.scope \in Scopes /\ key \in {"document", "file", "paragraph"}
    BY <1>2 DEF SearchRecord
  <2>2. CASE e = None
    BY <1>1, <2>1, <2>2
  <2>3. CASE e # None
    <3>1. e \in Entities
      BY <1>3, <1>4, <2>3
    <3>2. [k \in DOMAIN search.scope \cup {key} |-> IF k = key THEN e ELSE search.scope[k]]
            \in Scopes
      BY <2>1, <3>1, ScopeTypes
    <3> QED
      BY <1>1, <2>3, <3>2
  <2> QED
    BY <2>2, <2>3
<1>6. /\ search' \in SearchRecord /\ search'.pc = "children" /\ search'.window = search.window
      /\ search'.queue = search.queue /\ search'.primary = search.primary
      /\ search'.asked = search.asked /\ search'.q = search.q /\ search'.at = search.at
      /\ search'.scope = scope
  BY <1>2, <1>5 DEF SearchRecord
<1>7. RefinementOK /\ search.pc \in Loop
  BY <1>2 DEF SearchInv, Loop
<1>8. ASSUME ~touched, x \in Docs, Unlinked(x), NEW p \in Parts(x)
      PROVE  InScope(p, scope)
  <2>1. search.scope = [k \in {"document"} |-> x]
    BY <1>2, <1>7, <1>8 DEF RefinementOK
  <2>2. DocOf[p] = x
    BY DEF Parts
  <2>3. CASE e = None
    BY <1>5, <2>1, <2>2, <2>3 DEF InScope
  <2>4. CASE e # None
    <3>1. e = owner[x]
      BY <1>3, <1>8, <2>4 DEF LinkedFiles, Unlinked
    <3>2. scope = [k \in {"document", "file"} |-> IF k = "file" THEN e ELSE x]
      BY <1>5, <1>8, <2>1, <2>4
    <3> QED
      BY <2>2, <3>1, <3>2 DEF InScope
  <2> QED
    BY <2>3, <2>4
<1>9. RefinementOK'
  <2>1. /\ PrimaryCandidates(search.q)' = PrimaryCandidates(search.q)
        /\ \A e1 : Comparable(e1)' = Comparable(e1)
        /\ \A d : Unlinked(d)' = Unlinked(d)
        /\ \A e1, s : InScope(e1, s)' = InScope(e1, s)
    BY <1>2, <1>6, SameRefinement
  <2>2. \A p : InScope(p, search.scope)' = InScope(p, scope)
    BY <1>6, <2>1
  <2> QED
    BY <1>2, <1>6, <1>7, <1>8, <2>1, <2>2 DEF RefinementOK, Parts
<1> QED
  BY <1>2, <1>6, <1>7, <1>9, LoopStep DEF Loop

\* A refinement with anything to return returns something.
LEMMA ChildrenFound ==
  ASSUME RowTypes, NEW q \in Query, NEW scope
  PROVE  /\ Children(q, scope) \in SUBSET Item /\ IsFiniteSet(Children(q, scope))
         /\ \A x \in Children(q, scope) : x.e \in Chunks \cup Paragraphs
         /\ \A e \in (Chunks \cup Paragraphs) \cap live :
              CurrentVector(e) /\ Score(e) >= q.threshold /\ InScope(e, scope) =>
                Children(q, scope) # {}
<1> DEFINE H == Hits(Chunks \cup Paragraphs, q.threshold)
           S == {x \in H : InScope(x.e, scope)}
           R == {p \in S \X S : ChildBetter(p[1], p[2])}
           C == Children(q, scope)
<1>1. /\ H \in SUBSET Item /\ IsFiniteSet(H)
      /\ \A x \in H : x.e \in Chunks \cup Paragraphs
      /\ \A e \in (Chunks \cup Paragraphs) \cap live :
           CurrentVector(e) /\ Score(e) >= q.threshold => [e |-> e, score |-> Score(e)] \in H
  <2>1. Chunks \cup Paragraphs \in SUBSET Entities
    BY Levels
  <2> QED
    BY <2>1, HitsItems
<1>2. C = {x \in S : Cardinality({y \in S : ChildBetter(y, x)}) < q.limit}
  BY DEF Children, First
<1>3. S \in SUBSET H /\ C \in SUBSET H
  BY <1>2
<1>4. S \in SUBSET Item /\ IsFiniteSet(S) /\ C \in SUBSET Item /\ IsFiniteSet(C)
  BY <1>1, <1>3, FS_Subset
<1>5. ASSUME S # {} PROVE C # {}
  <2>1. StrictOrder(R, S)
    <3> HIDE DEF S
    <3>1. \A x \in S : x.score \in Nat /\ x.e \in Nat
      BY <1>4, ItemFacts
    <3> QED
      BY <3>1 DEF StrictOrder, ChildBetter
  <2>2. PICK m \in S : \A y \in S : <<y, m>> \notin R
    <3> HIDE DEF R, S
    <3> QED
      BY <1>4, <1>5, <2>1, LeastElement
  <2>3. {y \in S : ChildBetter(y, m)} = {}
    BY <2>2
  <2>4. q.limit \in Nat /\ 0 < q.limit /\ Cardinality({}) = 0
    BY EffectiveQuery, FS_EmptySet
  <2> HIDE DEF C, S
  <2> QED
    BY <1>2, <2>3, <2>4
<1>6. ASSUME NEW e \in (Chunks \cup Paragraphs) \cap live,
             CurrentVector(e), Score(e) >= q.threshold, InScope(e, scope)
      PROVE  C # {}
  <2>1. [e |-> e, score |-> Score(e)] \in S
    BY <1>1, <1>6
  <2> HIDE DEF C, S
  <2> QED
    BY <1>5, <2>1
<1> HIDE DEF C, H
<1> QED
  BY <1>1, <1>3, <1>4, <1>6 DEF C

LEMMA ComparableIsCurrent ==
  ASSUME NEW e \in Entities, Comparable(e)
  PROVE  e \in live /\ CurrentVector(e) /\ Score(e) >= search.q.threshold
BY DEF Comparable, CurrentVector, Score

LEMMA RefineKeeps ==
  ASSUME SearchInv, Refine
  PROVE  SearchInv'
<1> DEFINE found == Children(search.q, search.scope)
           additions == IF found = {} THEN {search.at} ELSE found
           w == Merged(search.window, additions, search.q.limit)
<1>1. /\ search' = [search EXCEPT !.pc = "next", !.window = w]
      /\ offered' = offered \cup additions
  BY DEF Refine, Merge
<1>2. /\ search \in SearchRecord /\ search.pc = "children" /\ search.q \in Query
      /\ search.at \in Item /\ Refining(search.q)
      /\ UNCHANGED rows /\ writes' = writes /\ touched' = touched
  BY DEF SearchInv, CallTypes, CallOK, Loop, Refine, Undisturbed
<1>3. RefinementOK /\ search.pc \in Loop /\ RowTypes
  BY <1>2 DEF SearchInv, Loop
<1>4. /\ found \in SUBSET Item /\ IsFiniteSet(found)
      /\ \A x \in found : x.e \in Chunks \cup Paragraphs
      /\ \A e \in (Chunks \cup Paragraphs) \cap live :
           CurrentVector(e) /\ Score(e) >= search.q.threshold /\ InScope(e, search.scope) =>
             found # {}
  BY <1>2, <1>3, ChildrenFound
<1> HIDE DEF found
<1>5. additions \in SUBSET Item /\ IsFiniteSet(additions)
  BY <1>2, <1>4, FS_Singleton
<1>6. ASSUME ~touched, NEW x \in additions, x.e \in Docs, Unlinked(x.e),
             NEW p \in Parts(x.e), Comparable(p)
      PROVE  FALSE
  <2>1. x.e \notin Chunks \cup Paragraphs
    BY <1>6, Levels
  <2>2. found = {} /\ x = search.at
    BY <1>4, <2>1
  <2>3. InScope(p, search.scope)
    BY <1>2, <1>3, <1>6, <2>2 DEF RefinementOK, Loop
  <2>4. p \in Chunks \cup Paragraphs /\ p \in Entities
    BY Levels DEF Parts
  <2> QED
    BY <1>4, <1>6, <2>2, <2>3, <2>4, ComparableIsCurrent
<1> HIDE DEF additions
<1>7. w \in SUBSET Item
  BY <1>3, <1>5, MergedWindow DEF SearchInv
<1> HIDE DEF w
<1>8. /\ search' \in SearchRecord /\ search'.pc = "next" /\ search'.window = w
      /\ search'.queue = search.queue /\ search'.primary = search.primary
      /\ search'.asked = search.asked /\ search'.q = search.q
  BY <1>1, <1>2, <1>7 DEF SearchRecord
<1>9. RefinementOK'
  <2>1. /\ PrimaryCandidates(search.q)' = PrimaryCandidates(search.q)
        /\ \A e : Comparable(e)' = Comparable(e)
        /\ \A d : Unlinked(d)' = Unlinked(d)
    BY <1>2, <1>8, SameRefinement
  <2>2. ASSUME ~touched'
        PROVE  \A x \in offered' : x.e \in Docs /\ Unlinked(x.e)' =>
                 \A p \in Parts(x.e) : ~Comparable(p)'
    BY <1>1, <1>2, <1>3, <1>6, <2>1, <2>2 DEF RefinementOK
  <2>3. ASSUME ~touched'
        PROVE  /\ search'.primary = PrimaryCandidates(search.q)'
               /\ \A x \in search'.primary \ search'.queue : x.e \in Chunks => x \in offered'
    BY <1>1, <1>2, <1>3, <1>8, <2>1, <2>3 DEF RefinementOK
  <2> QED
    BY <1>8, <2>2, <2>3 DEF RefinementOK, Parts
<1> QED
  BY <1>1, <1>2, <1>3, <1>5, <1>8, <1>9, LoopStep DEF w, Loop

LEMMA SequenceOf ==
  ASSUME NEW T, NEW n \in Nat, NEW s \in [1 .. n -> T]
  PROVE  s \in Seq(T) /\ Len(s) = n /\ DOMAIN s = 1 .. n
OBVIOUS

LEMMA Appended ==
  ASSUME NEW T, NEW s \in Seq(T), NEW t \in Seq(T), IsInjective(s), IsInjective(t),
         Range(s) \cap Range(t) = {}
  PROVE  /\ s \o t \in Seq(T) /\ IsInjective(s \o t)
         /\ Range(s \o t) = Range(s) \cup Range(t)
<1> DEFINE u == s \o t
           m == Len(s)
           n == Len(t)
<1>1. /\ u \in Seq(T) /\ m \in Nat /\ n \in Nat /\ Len(u) = m + n
      /\ DOMAIN s = 1 .. m /\ DOMAIN t = 1 .. n /\ DOMAIN u = 1 .. m + n
      /\ \A i \in 1 .. m + n : u[i] = IF i <= m THEN s[i] ELSE t[i - m]
  OBVIOUS
<1> HIDE DEF u, m, n
<1>0. /\ \A i, j \in DOMAIN s : s[i] = s[j] => i = j
      /\ \A i, j \in DOMAIN t : t[i] = t[j] => i = j
      /\ \A i \in DOMAIN s, j \in DOMAIN t : s[i] # t[j]
  BY DEF IsInjective, Range
<1>2. \A i \in DOMAIN u : \/ i \in DOMAIN s /\ u[i] = s[i]
                          \/ i - m \in DOMAIN t /\ u[i] = t[i - m]
  BY <1>1
<1>3. ASSUME NEW i \in DOMAIN u, NEW j \in DOMAIN u, u[i] = u[j] PROVE i = j
  <2>1. CASE i \in DOMAIN s /\ u[i] = s[i]
    BY <1>0, <1>2, <1>3, <2>1
  <2>2. CASE i - m \in DOMAIN t /\ u[i] = t[i - m]
    <3>1. j - m \in DOMAIN t /\ u[j] = t[j - m]
      BY <1>0, <1>2, <1>3, <2>2
    <3>2. i - m = j - m
      BY <1>0, <1>3, <2>2, <3>1
    <3>3. i \in Int /\ j \in Int /\ m \in Int
      BY <1>1
    <3> QED
      BY <3>2, <3>3
  <2> QED
    BY <1>2, <2>1, <2>2
<1>4. \A i \in DOMAIN s : i \in DOMAIN u /\ u[i] = s[i]
  BY <1>1
<1>5. ASSUME NEW i \in DOMAIN t PROVE \E k \in DOMAIN u : u[k] = t[i]
  <2>1. i + m \in 1 .. m + n /\ ~(i + m <= m) /\ (i + m) - m = i
    BY <1>1
  <2> QED
    BY <1>1, <2>1
<1>6. Range(u) = Range(s) \cup Range(t)
  BY <1>2, <1>4, <1>5 DEF Range
<1>7. IsInjective(u)
  BY <1>3 DEF IsInjective
<1> QED
  BY <1>1, <1>6, <1>7 DEF u

\* A sequence of all of S in the order R.
Sorted(s, S, R) ==
  /\ s \in [1 .. Cardinality(S) -> S]
  /\ \A i \in 1 .. Cardinality(S) : Cardinality(Below(R, S, s[i])) = i - 1

\* The rows of a page, put in their order, are each shown once.
LEMMA PageSequence ==
  ASSUME NEW found \in SUBSET Chunks, IsFiniteSet(found), NEW R, TotalOrder(R, found),
         NEW page, Sorted(page, found, R)
  PROVE  page \in Seq(Chunks) /\ IsInjective(page) /\ Range(page) = found
<1> DEFINE n == Cardinality(found)
<1>1. n \in Nat
  BY FS_CardinalityType
<1> HIDE DEF n
<1>2. page \in [1 .. n -> found] /\ page \in [1 .. n -> Chunks]
  BY DEF n, Sorted
<1>3. \A i \in 1 .. n : Cardinality(Below(R, found, page[i])) = i - 1
  BY DEF n, Sorted
<1>4. page \in Seq(Chunks) /\ DOMAIN page = 1 .. n
  BY <1>1, <1>2, SequenceOf
<1>5. ASSUME NEW i \in 1 .. n, NEW j \in 1 .. n, page[i] = page[j] PROVE i = j
  <2>1. i - 1 = j - 1
    BY <1>3, <1>5
  <2> QED
    BY <1>1, <2>1
<1>6. ASSUME NEW c \in found PROVE \E i \in 1 .. n : page[i] = c
  <2>1. Cardinality(Below(R, found, c)) \in 0 .. n - 1
    BY RankBound DEF TotalOrder, n
  <2>2. PICK r \in 0 .. n - 1 : r = Cardinality(Below(R, found, c))
    BY <2>1
  <2>3. r + 1 \in 1 .. n /\ (r + 1) - 1 = r
    BY <1>1
  <2>4. page[r + 1] \in found /\ Cardinality(Below(R, found, page[r + 1])) = r
    BY <1>2, <1>3, <2>3
  <2>5. page[r + 1] = c
    BY <2>2, <2>4, RankUnique
  <2> QED
    BY <2>3, <2>5
<1>7. IsInjective(page)
  BY <1>4, <1>5 DEF IsInjective
<1>8. Range(page) = found
  BY <1>2, <1>4, <1>6 DEF Range
<1> QED
  BY <1>4, <1>7, <1>8

\* Matches are totally ordered by what a page is ordered by.
LEMMA PrecedesTotal ==
  ASSUME RowTypes, NEW q \in Query, NEW S \in SUBSET Matches(q)
  PROVE  TotalOrder({p \in S \X S : Precedes(q, p[1], p[2])}, S)
<1>1. \A c \in S : c \in Chunks /\ c \in Entities /\ c \in Nat /\ Order[c] \in Nat
  <2>1. \A e \in Entities : e \in Nat
    BY SearchAssumption
  <2> QED
    BY <2>1, MatchesFinite, Levels, SearchAssumption
<1>2. ASSUME NEW c \in S PROVE Rank(q, c) \in Int
  <2>1. CASE Mode(q) = "full_text"
    <3>1. Relevance[c][current[c]] \in Nat
      BY <1>1, SearchAssumption DEF RowTypes
    <3> QED
      BY <2>1, <3>1 DEF Rank
  <2>2. CASE Mode(q) = "semantic"
    <3>1. CurrentVector(c)
      BY <2>2 DEF Matches
    <3>2. Score(c) \in Nat
      BY <1>1, <3>1, ScoreType
    <3> QED
      BY <2>2, <3>2 DEF Rank
  <2>3. CASE Mode(q) = "structured"
    <3>1. DocOf[c] \in Nat
      <4>1. DocOf[c] \in Entities
        BY <1>1, SearchAssumption, Levels
      <4> QED
        BY <4>1, SearchAssumption
    <3> QED
      BY <2>3, <3>1 DEF Rank
  <2> QED
    BY <2>1, <2>2, <2>3 DEF Mode
<1>3. /\ \A c \in S : ~Precedes(q, c, c)
      /\ \A c, d, e \in S : Precedes(q, c, d) /\ Precedes(q, d, e) => Precedes(q, c, e)
      /\ \A c, d \in S : c = d \/ Precedes(q, c, d) \/ Precedes(q, d, c)
  BY <1>1, <1>2 DEF Precedes
<1> QED
  BY <1>3 DEF TotalOrder, StrictOrder

LEMMA PageKeeps ==
  ASSUME SearchInv, Page
  PROVE  SearchInv'
<1> DEFINE q == search.q
           M == Matches(q)
           R == {p \in M \X M : Precedes(q, p[1], p[2])}
           found == PageRows(q, search.offset)
           position(c) == Cardinality({d \in found : Precedes(q, d, c)})
           page == [i \in 1 .. Cardinality(found) |-> CHOOSE c \in found : position(c) = i - 1]
<1>1. /\ search \in SearchRecord /\ search.pc = "page" /\ search.asked \in Query
      /\ q = Effective(search.asked) /\ q \in Query /\ ~Refining(q)
      /\ search.offset \in Nat /\ search.shown \in Seq(Chunks)
      /\ offered = {} /\ search.window = {} /\ search.primary = {} /\ search.queue = {}
  BY DEF SearchInv, CallTypes, CallOK, Loop, Page, SearchRecord
<1>2. UNCHANGED rows /\ writes' = writes /\ offered' = offered /\ touched' = touched
  BY DEF Page, Undisturbed
<1>3. search' = IF found = {} THEN [search EXCEPT !.pc = "done"]
                ELSE Received(search.asked, search.offset + q.limit, search.shown \o page)
  BY DEF Page
<1>4. RowTypes /\ PagesOK
  BY DEF SearchInv
<1>5. q.limit \in Nat /\ 0 < q.limit
  BY <1>1, EffectiveQuery
<1>6. /\ M \in SUBSET Chunks /\ IsFiniteSet(M) /\ Cardinality(M) \in Nat
      /\ \A c \in M : Position(q, c) \in Nat
  BY MatchesFinite, FS_CardinalityType
<1>7. found = {c \in M : Position(q, c) \in search.offset .. search.offset + q.limit - 1}
  BY DEF PageRows, Position
<1>8. TotalOrder(R, M)
  BY <1>1, <1>4, PrecedesTotal
<1>9. \A c \in M : Position(q, c) = Cardinality(Below(R, M, c))
  <2>1. \A c \in M : {d \in M : Precedes(q, d, c)} = Below(R, M, c)
    BY DEF Below
  <2> QED
    BY <2>1 DEF Position
<1>10. ~touched => /\ \A i, j \in DOMAIN search.shown : search.shown[i] = search.shown[j] => i = j
                   /\ Shown = {c \in M : Position(q, c) < search.offset}
  BY <1>1, <1>4 DEF PagesOK
<1>11. CASE found = {}
  <2> HIDE DEF found, page, M, R
  <2>1. Cardinality(M) <= search.offset
    <3>1. SUFFICES ASSUME search.offset < Cardinality(M) PROVE FALSE
      BY <1>1, <1>6
    <3>2. search.offset \in 0 .. Cardinality(M) - 1
      BY <1>1, <1>6, <3>1
    <3>3. PICK c \in M : Cardinality(Below(R, M, c)) = search.offset
      BY <1>6, <1>8, <3>2, RankExists
    <3>4. Position(q, c) = search.offset
      BY <1>9, <3>3
    <3>5. search.offset \in search.offset .. search.offset + q.limit - 1
      BY <1>1, <1>5
    <3> QED
      BY <1>7, <1>11, <3>4, <3>5
  <2>2. \A c \in M : Position(q, c) < search.offset
    <3>1. \A c \in M : Cardinality(Below(R, M, c)) \in 0 .. Cardinality(M) - 1
      BY <1>6, <1>8, RankBound DEF TotalOrder
    <3> QED
      BY <1>1, <1>6, <1>9, <2>1, <3>1
  <2>3. search' = [search EXCEPT !.pc = "done"]
    BY <1>3, <1>11
  <2>4. /\ search' \in SearchRecord /\ search'.pc = "done" /\ search'.asked = search.asked
        /\ search'.q = search.q /\ search'.shown = search.shown
        /\ search'.window = {} /\ search'.primary = {} /\ search'.queue = {}
    BY <1>1, <2>3 DEF SearchRecord
  <2>5. RowTypes'
    BY <1>2, <1>4, SameRowTypes DEF RowTypes
  <2>6. CallOK'
    BY <1>1, <1>2, <2>4 DEF CallOK, Loop
  <2>7. CallTypes'
    <3>1. SizesOK'
      BY <1>1, <1>2, <2>4, FS_EmptySet, EffectiveQuery DEF SizesOK
    <3> QED
      BY <1>1, <1>2, <2>4, <2>6, <3>1 DEF CallTypes
  <2>8. WindowOK'
    BY <1>1, <1>2, <2>4, EmptyWindow DEF WindowOK
  <2>9. RefinementOK'
    BY <1>1, <2>4 DEF RefinementOK
  <2>10. PagesOK'
    <3>1. ~touched => Shown = M
      BY <1>10, <2>2
    <3>2. Shown' = Shown
      BY <2>4 DEF Shown
    <3>3. Matches(q)' = Matches(q) /\ Effective(search.asked)' = q /\ q' = q
      BY <1>1, <1>2, <2>4, SameReads
    <3> QED
      BY <1>1, <1>2, <1>10, <2>4, <3>1, <3>2, <3>3 DEF PagesOK, M
  <2> QED
    BY <2>5, <2>7, <2>8, <2>9, <2>10 DEF SearchInv
<1>12. CASE found # {}
  <2> DEFINE F == {p \in found \X found : Precedes(q, p[1], p[2])}
             shown == search.shown \o page
  <2>1. found \in SUBSET M /\ found \in SUBSET Chunks /\ IsFiniteSet(found)
    <3>1. found \in SUBSET M
      BY <1>7
    <3> HIDE DEF found, M
    <3> QED
      BY <1>6, <3>1, FS_Subset
  <2>2. TotalOrder(F, found)
    <3> HIDE DEF found
    <3> QED
      BY <1>1, <1>4, <2>1, PrecedesTotal
  <2>3. Sorted(page, found, F)
    <3>1. \A c \in found : {d \in found : Precedes(q, d, c)} = Below(F, found, c)
      BY DEF Below
    <3>2. \A c \in found : position(c) = Cardinality(Below(F, found, c))
      BY <3>1
    <3>3. ASSUME NEW i \in 1 .. Cardinality(found)
          PROVE  page[i] \in found /\ Cardinality(Below(F, found, page[i])) = i - 1
      <4>1. page[i] = CHOOSE c \in found : position(c) = i - 1
        OBVIOUS
      <4> HIDE DEF found, F, position, page
      <4>2. i - 1 \in 0 .. Cardinality(found) - 1
        BY <2>1, FS_CardinalityType
      <4>3. \E c \in found : Cardinality(Below(F, found, c)) = i - 1
        BY <2>1, <2>2, <4>2, RankExists
      <4>4. \E c \in found : position(c) = i - 1
        BY <3>2, <4>3
      <4>5. page[i] \in found /\ position(page[i]) = i - 1
        BY <4>1, <4>4
      <4> QED
        BY <3>2, <4>5
    <3> HIDE DEF found, F, position
    <3> QED
      BY <3>3 DEF Sorted
  <2>4. search' = Received(search.asked, search.offset + q.limit, shown)
    BY <1>3, <1>12
  <2> HIDE DEF found, F, page, M
  <2>5. page \in Seq(Chunks) /\ IsInjective(page) /\ Range(page) = found
    BY <2>1, <2>2, <2>3, PageSequence
  <2>6. shown \in Seq(Chunks) /\ search.offset + q.limit \in Nat
    BY <1>1, <1>5, <2>5
  <2>7. ASSUME ~touched
        PROVE  /\ \A i, j \in DOMAIN shown : shown[i] = shown[j] => i = j
               /\ {shown[i] : i \in DOMAIN shown} =
                    {c \in M : Position(q, c) < search.offset + q.limit}
    <3> DEFINE before == search.shown
               limit == q.limit
               offset == search.offset
    <3>1. IsInjective(before) /\ Range(before) = {c \in M : Position(q, c) < offset}
      BY <1>10, <2>7 DEF Shown, IsInjective, Range
    <3>2. found = {c \in M : Position(q, c) \in offset .. offset + limit - 1}
      BY <1>7
    <3>3. offset \in Nat /\ limit \in Nat /\ \A c \in M : Position(q, c) \in Nat
      BY <1>1, <1>5, <1>6
    <3> HIDE DEF before, limit, offset
    <3>4. Range(before) \cap Range(page) = {}
      <4>1. \A c \in found : ~(Position(q, c) < offset)
        BY <3>2, <3>3
      <4> QED
        BY <2>5, <3>1, <4>1
    <3>5. IsInjective(shown) /\ Range(shown) = Range(before) \cup found
      <4>1. shown = before \o page /\ before \in Seq(Chunks)
        BY <1>1 DEF before
      <4> HIDE DEF shown
      <4> QED
        BY <2>5, <3>1, <3>4, <4>1, Appended
    <3>6. {c \in M : Position(q, c) < offset} \cup found = {c \in M : Position(q, c) < offset + limit}
      <4>1. \A k \in Nat : k < offset + limit <=> k < offset \/ k \in offset .. offset + limit - 1
        BY <3>3
      <4> QED
        BY <3>2, <3>3, <4>1
    <3>7. Range(shown) = {c \in M : Position(q, c) < offset + limit}
      BY <3>1, <3>5, <3>6
    <3> HIDE DEF shown
    <3> QED
      BY <3>5, <3>7 DEF offset, limit, IsInjective, Range
  <2> HIDE DEF shown
  <2>8. search.pc \notin Loop \cup {"done"} /\ touched' \in BOOLEAN
    BY <1>1, <1>2, <1>4 DEF Loop, RowTypes
  <2> QED
    BY <1>1, <1>2, <2>4, <2>6, <2>7, <2>8, ReceivedKeeps DEF M
<1> QED
  BY <1>11, <1>12

-----------------------------------------------------------------------------
(* The theorems.                                                           *)

LEMMA InitKeeps ==
  ASSUME Init
  PROVE  SearchInv
<1>1. PICK s \in Starts :
        owner = s.owner /\ vector = [e \in Entities |-> IF e \in s.embedded THEN 1 ELSE None]
  BY DEF Init
<1>2. /\ live = Entities /\ current = [e \in Entities |-> 1] /\ touched = FALSE
      /\ offered = {} /\ writes = MaxWrites
      /\ search = [pc |-> "idle", asked |-> None, q |-> None, offset |-> 0, shown |-> <<>>,
                   queue |-> {}, primary |-> {}, at |-> None, window |-> {},
                   scope |-> [e \in {} |-> None]]
  BY DEF Init
<1>3. RowTypes
  <2>1. 1 \in Versions /\ MaxWrites \in 0 .. MaxWrites
    BY SearchAssumption DEF Versions
  <2>2. owner \in [Docs \cup Files -> Owners]
    BY <1>1, SearchAssumption
  <2>3. /\ current \in [Entities -> Versions]
        /\ vector \in [Entities -> Versions \cup {None}]
    BY <1>1, <1>2, <2>1
  <2> QED
    BY <1>2, <2>1, <2>2, <2>3 DEF RowTypes
<1>4. [e \in {} |-> None] \in Scopes
  <2>1. {} \in SUBSET {"document", "file", "paragraph"}
    OBVIOUS
  <2>2. [e \in {} |-> None] \in [{} -> Entities]
    OBVIOUS
  <2> QED
    BY <2>1, <2>2 DEF Scopes
<1>5. search \in SearchRecord /\ search.pc = "idle" /\ search.q = None
      /\ search.window = {} /\ search.primary = {} /\ search.queue = {}
  BY <1>2, <1>4 DEF SearchRecord
<1>6. CallTypes
  BY <1>2, <1>5, FS_EmptySet DEF CallTypes, CallOK, SizesOK, Loop
<1>7. WindowOK /\ PagesOK /\ RefinementOK
  BY <1>5 DEF WindowOK, PagesOK, RefinementOK, Loop
<1> QED
  BY <1>3, <1>6, <1>7 DEF SearchInv

LEMMA NextKeeps ==
  ASSUME SearchInv, [Next]_vars
  PROVE  SearchInv'
<1>1. CASE UNCHANGED vars
  <2>1. UNCHANGED rows /\ search' = search /\ offered' = offered /\ writes' = writes
        /\ touched' = touched
    BY <1>1 DEF vars
  <2>2. RowTypes' /\ CallTypes' /\ WindowOK'
    BY <2>1, SameRowTypes
       DEF SearchInv, RowTypes, CallTypes, CallOK, SizesOK, WindowOK
  <2>3. PagesOK'
    BY <2>1, SameReads DEF SearchInv, PagesOK, Shown
  <2>4. RefinementOK'
    BY <2>1, SameRefinement DEF SearchInv, RefinementOK
  <2> QED
    BY <2>2, <2>3, <2>4 DEF SearchInv
<1>2. CASE \E q \in Queries : Ask(q)
  BY <1>2, AskKeeps
<1>3. CASE Step
  BY <1>3, EmbedKeeps, PageKeeps, PrimaryKeeps, FinishKeeps, CandidateKeeps, LinkKeeps,
     RefineKeeps DEF Step
<1>4. CASE \/ \E e \in Entities : Mark(e) \/ \E v \in Versions : Vectorize(e, v)
           \/ \E c \in Chunks : SelectVersion(c) \/ UpdateText(c)
           \/ \E e \in Docs \cup Files, o \in Owners : GiveOwner(e, o)
  BY <1>4, WritersDisturb
<1> QED
  BY <1>1, <1>2, <1>3, <1>4 DEF Next

LEMMA SearchInvHolds == Spec => []SearchInv
<1>1. Init => SearchInv
  BY InitKeeps
<1>2. SearchInv /\ [Next]_vars => SearchInv'
  BY NextKeeps
<1> QED
  BY <1>1, <1>2, PTL DEF Spec

\* Whatever is merged and however often others write in between, the window of a
\* hierarchical search is what one cut of all that its statements returned would
\* leave (_merge_window), and a call never holds more candidates than it asked for.
THEOREM WindowCorrect == Spec => []WindowInv
<1>1. SearchInv => TypeOK
  BY DEF SearchInv, RowTypes, CallTypes, SizesOK, SearchRecord, TypeOK
<1>2. SearchInv => WindowIsBestOffered
  <2> SUFFICES ASSUME SearchInv, search.q # None
               PROVE  search.window = Window(offered, search.q.limit)
    BY DEF WindowIsBestOffered, Window, Best
  <2>1. CASE search.pc \in Loop \cup {"done"}
    BY <2>1 DEF SearchInv, WindowOK
  <2>2. CASE search.pc \notin Loop \cup {"done"}
    BY <2>2, EmptyWindow DEF SearchInv, CallTypes, CallOK
  <2> QED
    BY <2>1, <2>2
<1> QED
  BY <1>1, <1>2, SearchInvHolds, PTL DEF WindowInv

\* With more candidates asked for than there are, a chunk the search left out is
\* outranked by a full window.
LEMMA NothingLeftOut ==
  ASSUME SearchInv
  PROVE  NothingBetterIsLeftOut
<1> SUFFICES ASSUME Refined, Cardinality(search.primary) < search.q.candidateLimit,
                    NEW c \in Chunks, Comparable(c)
             PROVE  \/ \E x \in search.window : x.e = c
                    \/ /\ Cardinality(search.window) = search.q.limit
                       /\ \A x \in search.window : x.score >= Similarity[c][vector[c]]
  BY DEF NothingBetterIsLeftOut
<1> DEFINE n == search.q.limit
           item == [e |-> c, score |-> Score(c)]
<1>1. /\ search.pc = "done" /\ ~touched /\ Refining(search.q) /\ search.queue = {}
      /\ search.q \in Query /\ RowTypes /\ offered \in SUBSET Item /\ IsFiniteSet(offered)
      /\ search.window = Window(offered, n)
  BY DEF Refined, Answered, Refining, SearchInv, CallTypes, CallOK, SizesOK, WindowOK
<1>2. /\ search.primary = PrimaryCandidates(search.q)
      /\ \A x \in search.primary : x.e \in Chunks => x \in offered
  BY <1>1 DEF SearchInv, RefinementOK
<1>3. search.primary = Hits(Entities, search.q.threshold)
  BY <1>1, <1>2, Candidates
<1>4. item \in offered
  <2>1. /\ c \in Entities /\ c \in live /\ CurrentVector(c) /\ Score(c) >= search.q.threshold
    BY Levels, ComparableIsCurrent
  <2>2. item \in Hits(Entities, search.q.threshold)
    BY <1>1, <2>1, HitsItems
  <2> QED
    BY <1>2, <1>3, <2>2
<1>5. n \in Nat
  BY <1>1, EffectiveQuery
<1>6. item.e = c /\ item.score = Similarity[c][vector[c]]
  BY DEF Score
<1> HIDE DEF item, n
<1>7. PICK b \in Best(offered) : b.e = item.e /\ item.score <= b.score
  BY <1>1, <1>4, BestOf
<1>8. CASE b \in search.window
  BY <1>6, <1>7, <1>8
<1>9. CASE b \notin search.window
  <2>1. Cardinality(search.window) = n /\ \A x \in search.window : Better(x, b)
    BY <1>1, <1>5, <1>9, KeptSize
  <2>2. search.window \in SUBSET Item /\ b \in Item /\ item \in Item
    BY <1>1, <1>4, WindowIn, BestIn
  <2>3. \A x \in search.window : x.score >= item.score
    BY <1>7, <2>1, <2>2, ItemFacts DEF Better
  <2> QED
    BY <1>6, <2>1, <2>3 DEF n
<1> QED
  BY <1>8, <1>9

LEMMA DocumentsRefined ==
  ASSUME SearchInv
  PROVE  DocumentsAreRefined
<1> SUFFICES ASSUME Refined, NEW x \in search.window, x.e \in Docs, Unlinked(x.e),
                    NEW p \in Parts(x.e), Comparable(p)
             PROVE  FALSE
  BY DEF DocumentsAreRefined, Unlinked, Parts
<1>1. x \in offered
  BY DEF SearchInv, CallTypes, SizesOK
<1> QED
  BY <1>1 DEF SearchInv, RefinementOK, Refined, Answered, Refining

LEMMA PagesShown ==
  ASSUME SearchInv
  PROVE  PagesShowEachMatchOnce
<1> SUFFICES ASSUME Answered, ~Refined PROVE
      /\ \A i, j \in DOMAIN search.shown : search.shown[i] = search.shown[j] => i = j
      /\ Shown = {c \in Chunks \cap live :
            CASE search.q.text -> Relevance[c][current[c]] > 0
              [] ~search.q.text /\ search.q.vector -> vector[c] = current[c]
              [] ~search.q.text /\ ~search.q.vector -> TRUE}
  BY DEF PagesShowEachMatchOnce, Shown
<1> DEFINE q == search.q
<1>1. /\ search.pc = "done" /\ ~touched /\ ~Refining(q) /\ q = Effective(search.asked)
      /\ q \in Query /\ RowTypes
  BY DEF Refined, Answered, Refining, SearchInv, CallTypes, CallOK
<1>2. /\ \A i, j \in DOMAIN search.shown : search.shown[i] = search.shown[j] => i = j
      /\ Shown = Matches(q)
  BY <1>1 DEF SearchInv, PagesOK
<1>3. q.text \in BOOLEAN /\ q.vector \in BOOLEAN
  BY <1>1 DEF Query
<1>4. ASSUME NEW c \in Chunks PROVE CurrentVector(c) <=> vector[c] = current[c]
  BY <1>1, Levels, SearchAssumption DEF CurrentVector, RowTypes
<1>5. CASE q.text
  BY <1>2, <1>5 DEF Matches, Mode
<1>6. CASE ~q.text /\ q.vector
  BY <1>2, <1>4, <1>6 DEF Matches, Mode
<1>7. CASE ~q.text /\ ~q.vector
  BY <1>2, <1>7 DEF Matches, Mode
<1> QED
  BY <1>3, <1>5, <1>6, <1>7

\* If nothing changed while it ran, an answer is complete: no better chunk is missing from a
\* refined one, a document is a result only for want of parts, and pages of any mode show
\* every match once.
THEOREM AnswersCorrect == Spec => []AnswersAreComplete
<1>1. SearchInv => AnswersAreComplete
  BY NothingLeftOut, DocumentsRefined, PagesShown DEF AnswersAreComplete
<1> QED
  BY <1>1, SearchInvHolds, PTL

=============================================================================
