------------------------------ MODULE DeskProofs ------------------------------
(***************************************************************************)
(* Theorems about what the run of MCDesk is made of, for any candidates,   *)
(* policies, quotes and frames: the choice of a basket, the paper account, *)
(* the cycles of evolution and the research track, in this order.          *)
(*                                                                         *)
(* A fold, a sum or a concatenation is computed by a function that is      *)
(* recursive on the subsets of a finite set or on an interval.  What it    *)
(* computes is proved here by taking a smallest subset, or a least number, *)
(* for which the claim would fail.                                         *)
(***************************************************************************)
EXTENDS MCDesk, FiniteSetTheorems, WellFoundedInduction, TLAPS

(* Induction over the subsets of a finite set: a set of subsets that is not *)
(* empty has a member none of whose proper subsets is in it.                *)
LEMMA SmallestSubset ==
  ASSUME NEW S, IsFiniteSet(S), NEW B \in SUBSET (SUBSET S), B # {}
  PROVE  \E s \in B : \A u \in B : u \subseteq s => u = s
  <1>1. IsWellFoundedOn(StrictSubsetOrdering(S), FiniteSubsetsOf(S))
    BY FS_StrictSubsetOrderingWellFounded
  <1>2. B \subseteq FiniteSubsetsOf(S)
    BY FS_Subset DEF FiniteSubsetsOf
  <1>3. PICK s \in B : \A u \in B : ~(<<u, s>> \in StrictSubsetOrdering(S))
    BY <1>1, <1>2, WFMin
  <1>4. ASSUME NEW u \in B, u \subseteq s PROVE u = s
    BY <1>3, <1>4 DEF StrictSubsetOrdering
  <1> QED
    BY <1>4

LEMMA Least ==
  ASSUME NEW T \in SUBSET Nat, T # {}
  PROVE  \E x \in T : \A y \in T : x <= y
  <1>1. IsWellFoundedOn(OpToRel(<, Nat), Nat)
    BY NatLessThanWellFounded
  <1>2. PICK x \in T : \A y \in T : ~(<<y, x>> \in OpToRel(<, Nat))
    BY <1>1, WFMin
  <1>3. \A y \in T : ~(y < x)
    BY <1>2 DEF OpToRel
  <1> QED
    BY <1>3

(* A fold over a finite set that takes one member after another is well    *)
(* defined.                                                                *)
Folds_(g, D, base, pick, O) ==
  \A s \in SUBSET D : g[s] = IF s = {} THEN base ELSE O[g[s \ {pick[s]}], pick[s]]

LEMMA FoldExists ==
  ASSUME NEW D, IsFiniteSet(D), NEW V, NEW base \in V, NEW pick,
         \A s \in SUBSET D : s # {} => pick[s] \in s,
         NEW O \in [V \X D -> V]
  PROVE  \E g \in [SUBSET D -> V] : Folds_(g, D, base, pick, O)
  <1> DEFINE Parts(n) == {s \in SUBSET D : Cardinality(s) <= n}
             Next_(g, s) == IF s = {} THEN base ELSE O[g[s \ {pick[s]}], pick[s]]
             FoldsTo(g, n) == \A s \in Parts(n) : g[s] = Next_(g, s)
             Good(n) == \E g \in [Parts(n) -> V] : FoldsTo(g, n)
             Bad == {n \in Nat : ~ Good(n)}
  <1>1. \A s \in SUBSET D : IsFiniteSet(s) /\ Cardinality(s) \in Nat
    BY FS_Subset, FS_CardinalityType
  <1>2. \A s \in SUBSET D : s # {} =>
          /\ s \ {pick[s]} \in SUBSET D /\ pick[s] \in D
          /\ Cardinality(s \ {pick[s]}) = Cardinality(s) - 1
    BY <1>1, FS_RemoveElement
  <1>3. \A s \in SUBSET D : Cardinality(s) = 0 <=> s = {}
    BY <1>1, FS_EmptySet
  <1>4. \A n, s : s \in Parts(n) <=> s \in SUBSET D /\ Cardinality(s) <= n
    OBVIOUS
  <1>5. \A v \in V, d \in D : O[v, d] \in V
    OBVIOUS
  <1> HIDE DEF Parts
  <1>6. Good(0)
    <2> DEFINE g == [s \in Parts(0) |-> base]
    <2>1. \A s \in Parts(0) : s = {}
      BY <1>1, <1>3, <1>4
    <2>2. g \in [Parts(0) -> V] /\ FoldsTo(g, 0)
      BY <2>1
    <2> QED
      BY <2>2
  <1>7. ASSUME NEW n \in Nat, Good(n) PROVE Good(n + 1)
    <2>1. PICK g \in [Parts(n) -> V] : FoldsTo(g, n)
      BY <1>7
    <2> DEFINE h == [s \in Parts(n + 1) |-> IF Cardinality(s) <= n THEN g[s] ELSE Next_(g, s)]
    <2>2. \A s \in Parts(n + 1) : h[s] = IF Cardinality(s) <= n THEN g[s] ELSE Next_(g, s)
      OBVIOUS
    <2>3. DOMAIN h = Parts(n + 1) /\ h = [s \in Parts(n + 1) |-> h[s]]
      OBVIOUS
    <2> HIDE DEF h
    <2>4. \A s \in Parts(n + 1) : s \in Parts(n) \/ Cardinality(s) > n
      BY <1>1, <1>4
    <2>5. \A s \in Parts(n + 1) : s # {} => s \ {pick[s]} \in Parts(n) /\ pick[s] \in D
      BY <1>1, <1>2, <1>4
    <2>6. \A s \in Parts(n + 1) : Cardinality(s) > n => s # {}
      BY <1>1, <1>3, <1>4
    <2>7. \A s \in Parts(n) : s \in Parts(n + 1) /\ h[s] = g[s]
      <3> SUFFICES ASSUME NEW s \in Parts(n) PROVE s \in Parts(n + 1) /\ h[s] = g[s]
        OBVIOUS
      <3>1. s \in SUBSET D /\ Cardinality(s) \in Nat /\ Cardinality(s) <= n
        BY <1>1, <1>4
      <3>2. Cardinality(s) <= n + 1
        BY <3>1
      <3>3. s \in Parts(n + 1)
        BY <1>4, <3>1, <3>2
      <3> QED
        BY <2>2, <3>1, <3>3
    <2>8. \A s \in Parts(n + 1) : Next_(h, s) = Next_(g, s)
      BY <2>5, <2>7
    <2>9. \A s \in Parts(n + 1) : h[s] \in V
      BY <1>1, <1>4, <1>5, <2>1, <2>2, <2>4, <2>5, <2>6, <2>7
    <2>10. \A s \in Parts(n + 1) : h[s] = Next_(g, s)
      BY <1>1, <1>4, <2>1, <2>2, <2>4, <2>7
    <2>11. h \in [Parts(n + 1) -> V]
      BY <2>3, <2>9
    <2>12. FoldsTo(h, n + 1)
      BY <2>8, <2>10
    <2> QED
      BY <2>11, <2>12
  <1>8. Bad = {}
    <2> HIDE DEF Good
    <2> SUFFICES ASSUME Bad # {} PROVE FALSE
      OBVIOUS
    <2>1. PICK m \in Bad : \A n \in Bad : m <= n
      BY Least
    <2>2. m \in Nat /\ m # 0 /\ ~Good(m)
      BY <1>6
    <2>3. m - 1 \in Nat /\ Good(m - 1)
      BY <2>1, <2>2
    <2>4. Good((m - 1) + 1)
      BY <1>7, <2>3
    <2> QED
      BY <2>2, <2>4
  <1>9. Good(Cardinality(D))
    BY <1>8, FS_CardinalityType
  <1>10. PICK g \in [Parts(Cardinality(D)) -> V] : FoldsTo(g, Cardinality(D))
    BY <1>9
  <1>11. Parts(Cardinality(D)) = SUBSET D
    BY FS_Subset DEF Parts
  <1> QED
    BY <1>10, <1>11 DEF Folds_

-----------------------------------------------------------------------------
(* Sums over finite sets. *)

Pick(s) == CHOOSE x \in s : TRUE

LEMMA PickIsIn == \A s : s # {} => Pick(s) \in s
  BY DEF Pick

(* SumFunctionOnSet takes the members of a set away one after another.     *)
Sums(g, f, S) ==
  \A s \in SUBSET S : g[s] = IF s = {} THEN 0 ELSE f[Pick(s)] + g[s \ {Pick(s)}]

LEMMA SumsAgree ==
  ASSUME NEW S, IsFiniteSet(S), NEW T \in SUBSET S, NEW f, NEW g, NEW h,
         Sums(g, f, S), Sums(h, f, T)
  PROVE  \A s \in SUBSET T : g[s] = h[s]
  <1> DEFINE B == {s \in SUBSET T : g[s] # h[s]}
  <1> SUFFICES ASSUME B # {} PROVE FALSE
    OBVIOUS
  <1>1. IsFiniteSet(T)
    BY FS_Subset
  <1>2. PICK s \in B : \A u \in B : u \subseteq s => u = s
    <2>1. B \in SUBSET (SUBSET T)
      OBVIOUS
    <2> HIDE DEF B
    <2> QED
      BY <1>1, <2>1, SmallestSubset
  <1>3. s \in SUBSET T /\ s \in SUBSET S /\ g[s] # h[s]
    OBVIOUS
  <1>4. s # {}
    BY <1>3 DEF Sums
  <1>5. Pick(s) \in s /\ s \ {Pick(s)} \in SUBSET T
    BY <1>3, <1>4, PickIsIn
  <1>6. g[s \ {Pick(s)}] = h[s \ {Pick(s)}]
    BY <1>2, <1>5
  <1> QED
    BY <1>3, <1>4, <1>6 DEF Sums

LEMMA SumIsAFold ==
  ASSUME NEW S, IsFiniteSet(S), NEW f, \A x \in S : f[x] \in Int
  PROVE  \E g \in [SUBSET S -> Int] : Sums(g, f, S) /\ SumFunctionOnSet(f, S) = g[S]
  <1> DEFINE O == [p \in Int \X S |-> f[p[2]] + p[1]]
             pick == [s \in SUBSET S |-> Pick(s)]
             IsSum(g) == g = [s \in SUBSET S |->
                                IF s = {} THEN 0
                                ELSE LET x == CHOOSE x \in s : TRUE IN f[x] + g[s \ {x}]]
  <1>1. O \in [Int \X S -> Int]
    OBVIOUS
  <1>2. \A v \in Int, x \in S : O[v, x] = f[x] + v
    OBVIOUS
  <1>3. \A s \in SUBSET S : s # {} => pick[s] = Pick(s) /\ pick[s] \in s
    BY PickIsIn
  <1>4. 0 \in Int
    OBVIOUS
  <1> HIDE DEF O, pick
  <1>5. PICK g \in [SUBSET S -> Int] : Folds_(g, S, 0, pick, O)
    BY <1>1, <1>3, <1>4, FoldExists
  <1>6. Sums(g, f, S)
    <2> SUFFICES ASSUME NEW s \in SUBSET S, s # {}
                 PROVE  g[s] = f[Pick(s)] + g[s \ {Pick(s)}]
      BY <1>5 DEF Sums, Folds_
    <2>1. g[s] = O[g[s \ {Pick(s)}], Pick(s)] /\ Pick(s) \in S
      BY <1>3, <1>5 DEF Folds_
    <2>2. g[s \ {Pick(s)}] \in Int
      OBVIOUS
    <2> QED
      BY <1>2, <2>1, <2>2
  <1>7. IsSum(g)
    BY <1>6, Zenon DEF Sums, Pick
  <1>8. IsSum(CHOOSE h : IsSum(h))
    BY <1>7, Zenon
  <1> DEFINE h == CHOOSE h : IsSum(h)
  <1>9. SumFunctionOnSet(f, S) = h[S]
    BY Zenon DEF SumFunctionOnSet, FoldFunctionOnSet, MapThenFoldSet
  <1>10. IsSum(h)
    BY <1>8
  <1> HIDE DEF h
  <1>11. Sums(h, f, S)
    BY <1>10, Zenon DEF Sums, Pick
  <1>12. h[S] = g[S]
    BY <1>6, <1>11, SumsAgree
  <1> QED
    BY <1>6, <1>9, <1>12

LEMMA EmptySum == ASSUME NEW f PROVE SumFunctionOnSet(f, {}) = 0
  <1>1. IsFiniteSet({})
    BY FS_EmptySet
  <1>2. PICK g \in [SUBSET {} -> Int] : Sums(g, f, {}) /\ SumFunctionOnSet(f, {}) = g[{}]
    BY <1>1, SumIsAFold
  <1> QED
    BY <1>2 DEF Sums

(* Whichever member is taken away, the rest adds up.                       *)
LEMMA SumWithout ==
  ASSUME NEW S, IsFiniteSet(S), NEW f, \A x \in S : f[x] \in Int, NEW a \in S
  PROVE  /\ SumFunctionOnSet(f, S) \in Int /\ SumFunctionOnSet(f, S \ {a}) \in Int
         /\ SumFunctionOnSet(f, S) = f[a] + SumFunctionOnSet(f, S \ {a})
  <1>1. PICK g \in [SUBSET S -> Int] : Sums(g, f, S) /\ SumFunctionOnSet(f, S) = g[S]
    BY SumIsAFold
  <1>2. IsFiniteSet(S \ {a})
    BY FS_Subset
  <1>3. PICK h \in [SUBSET (S \ {a}) -> Int] :
          Sums(h, f, S \ {a}) /\ SumFunctionOnSet(f, S \ {a}) = h[S \ {a}]
    BY <1>2, SumIsAFold
  <1>4. g[S \ {a}] = h[S \ {a}]
    BY <1>1, <1>3, SumsAgree
  <1> DEFINE B == {s \in SUBSET S : \E x \in s : g[s] # f[x] + g[s \ {x}]}
  <1>5. B = {}
    <2> SUFFICES ASSUME B # {} PROVE FALSE
      OBVIOUS
    <2>1. PICK s \in B : \A u \in B : u \subseteq s => u = s
      <3>1. B \in SUBSET (SUBSET S)
        OBVIOUS
      <3> HIDE DEF B
      <3> QED
        BY <3>1, SmallestSubset
    <2>2. s \in SUBSET S /\ \E x \in s : g[s] # f[x] + g[s \ {x}]
      OBVIOUS
    <2>3. PICK x \in s : g[s] # f[x] + g[s \ {x}]
      BY <2>2
    <2>4. \A u \in SUBSET s : u # s => \A y \in u : g[u] = f[y] + g[u \ {y}]
      BY <2>1, <2>2
    <2> HIDE DEF B
    <2> DEFINE c == Pick(s)
    <2>5. c \in s /\ g[s] = f[c] + g[s \ {c}]
      BY <1>1, <2>2, PickIsIn DEF Sums
    <2>6. c # x
      BY <2>3, <2>5
    <2> HIDE DEF c
    <2>7. g[s \ {c}] = f[x] + g[(s \ {c}) \ {x}]
      BY <2>4, <2>5, <2>6
    <2>8. g[s \ {x}] = f[c] + g[(s \ {x}) \ {c}]
      BY <2>4, <2>5, <2>6
    <2>9. (s \ {x}) \ {c} = (s \ {c}) \ {x} /\ (s \ {x}) \ {c} \in SUBSET S
      BY <2>2
    <2>10. f[c] \in Int /\ f[x] \in Int /\ g[(s \ {x}) \ {c}] \in Int
      BY <2>2, <2>5, <2>9
    <2>11. \A p, q, r \in Int : p + (q + r) = q + (p + r)
      OBVIOUS
    <2>12. f[c] + (f[x] + g[(s \ {x}) \ {c}]) = f[x] + (f[c] + g[(s \ {x}) \ {c}])
      BY <2>10, <2>11
    <2> QED
      BY <2>3, <2>5, <2>7, <2>8, <2>9, <2>12
  <1>6. g[S] = f[a] + g[S \ {a}]
    BY <1>5
  <1> QED
    BY <1>1, <1>3, <1>4, <1>6

(* Of two sums over a set the one with the larger terms is larger.         *)
LEMMA SumBounds ==
  ASSUME NEW S, IsFiniteSet(S), NEW f, NEW h,
         \A x \in S : f[x] \in Int /\ h[x] \in Int /\ f[x] <= h[x]
  PROVE  SumFunctionOnSet(f, S) <= SumFunctionOnSet(h, S)
  <1> DEFINE B == {s \in SUBSET S : ~(SumFunctionOnSet(f, s) <= SumFunctionOnSet(h, s))}
  <1> SUFFICES ASSUME B # {} PROVE FALSE
    OBVIOUS
  <1>1. PICK s \in B : \A u \in B : u \subseteq s => u = s
    <2>1. B \in SUBSET (SUBSET S)
      OBVIOUS
    <2> HIDE DEF B
    <2> QED
      BY <2>1, SmallestSubset
  <1>2. /\ s \in SUBSET S /\ ~(SumFunctionOnSet(f, s) <= SumFunctionOnSet(h, s))
        /\ \A u \in SUBSET s : u # s => SumFunctionOnSet(f, u) <= SumFunctionOnSet(h, u)
    BY <1>1
  <1> HIDE DEF B
  <1>3. CASE s = {}
    BY <1>2, <1>3, EmptySum
  <1>4. ASSUME NEW a \in s PROVE FALSE
    <2>1. IsFiniteSet(s) /\ \A x \in s : f[x] \in Int /\ h[x] \in Int /\ f[x] <= h[x]
      BY <1>2, FS_Subset
    <2>2. /\ SumFunctionOnSet(f, s \ {a}) \in Int
          /\ SumFunctionOnSet(f, s) = f[a] + SumFunctionOnSet(f, s \ {a})
      BY <2>1, SumWithout
    <2>3. /\ SumFunctionOnSet(h, s \ {a}) \in Int
          /\ SumFunctionOnSet(h, s) = h[a] + SumFunctionOnSet(h, s \ {a})
      BY <2>1, SumWithout
    <2>4. SumFunctionOnSet(f, s \ {a}) <= SumFunctionOnSet(h, s \ {a})
      BY <1>2
    <2>5. f[a] \in Int /\ h[a] \in Int /\ f[a] <= h[a]
      BY <2>1
    <2>6. \A x, y, v, w \in Int : x <= y /\ v <= w => x + v <= y + w
      OBVIOUS
    <2> QED
      BY <1>2, <2>2, <2>3, <2>4, <2>5, <2>6
  <1> QED
    BY <1>3, <1>4

(* When one term changes the sum changes by as much.                       *)
LEMMA SumOneChanged ==
  ASSUME NEW S, IsFiniteSet(S), NEW f, NEW h, NEW a \in S,
         \A x \in S : f[x] \in Int /\ h[x] \in Int,
         \A x \in S \ {a} : f[x] = h[x]
  PROVE  SumFunctionOnSet(h, S) = SumFunctionOnSet(f, S) - f[a] + h[a]
  <1>1. /\ SumFunctionOnSet(f, S \ {a}) \in Int
        /\ SumFunctionOnSet(f, S) = f[a] + SumFunctionOnSet(f, S \ {a})
    BY SumWithout
  <1>2. /\ SumFunctionOnSet(h, S \ {a}) \in Int
        /\ SumFunctionOnSet(h, S) = h[a] + SumFunctionOnSet(h, S \ {a})
    BY SumWithout
  <1>3. IsFiniteSet(S \ {a})
    BY FS_Subset
  <1>4. \A x \in S \ {a} : f[x] \in Int /\ h[x] \in Int /\ f[x] <= h[x] /\ h[x] <= f[x]
    OBVIOUS
  <1>5. /\ SumFunctionOnSet(f, S \ {a}) <= SumFunctionOnSet(h, S \ {a})
        /\ SumFunctionOnSet(h, S \ {a}) <= SumFunctionOnSet(f, S \ {a})
    BY <1>3, <1>4, SumBounds
  <1>6. f[a] \in Int /\ h[a] \in Int
    OBVIOUS
  <1>7. \A t, u, v, w \in Int : t <= u /\ u <= t => w + u = v + t - v + w
    OBVIOUS
  <1> QED
    BY <1>1, <1>2, <1>5, <1>6, <1>7

-----------------------------------------------------------------------------
(* Arithmetic. *)

LEMMA ProductGrows ==
  ASSUME NEW q \in Nat, NEW x \in Int, NEW y \in Int, x <= y
  PROVE  q * x \in Int /\ q * y \in Int /\ q * x <= q * y
  OBVIOUS

LEMMA ProductNat == ASSUME NEW x \in Nat, NEW y \in Nat PROVE x * y \in Nat
  OBVIOUS

LEMMA DivisionBelow ==
  ASSUME NEW n \in Nat, NEW d \in Nat \ {0}
  PROVE  n \div d \in Nat /\ d * (n \div d) <= n
  OBVIOUS

LEMMA DivisionBounds ==
  ASSUME NEW n \in Nat \ {0}, NEW x \in Nat
  PROVE  x \div n \in Nat /\ n * (x \div n) <= x /\ x < n * (x \div n) + n
  <1> DEFINE q == x \div n
  <1>1. q \in Int /\ n * q <= x /\ x < n * (q + 1)
    OBVIOUS
  <1> HIDE DEF q
  <1>2. q >= 0
    <2> SUFFICES ASSUME q + 1 <= 0 PROVE FALSE
      BY <1>1
    <2>1. q + 1 \in Int /\ n * (q + 1) <= n * 0
      BY <1>1, ProductGrows
    <2> QED
      BY <1>1, <2>1
  <1>3. n * (q + 1) = n * q + n
    BY <1>1
  <1> QED
    BY <1>1, <1>2, <1>3 DEF q

LEMMA MaxOfTwo ==
  ASSUME NEW a \in Int, NEW b \in Int
  PROVE  Max({a, b}) \in {a, b} /\ Max({a, b}) >= a /\ Max({a, b}) >= b
  BY DEF Max

LEMMA MinOfTwo ==
  ASSUME NEW a \in Int, NEW b \in Int
  PROVE  Min({a, b}) \in {a, b} /\ Min({a, b}) <= a /\ Min({a, b}) <= b
  BY DEF Min

LEMMA MinOfThree ==
  ASSUME NEW a \in Int, NEW b \in Int, NEW c \in Int
  PROVE  Min({a, b, c}) \in {a, b, c}
  BY DEF Min

LEMMA MaxIsIn == ASSUME NEW n \in Nat, NEW s \in SUBSET (1 .. n), s # {} PROVE Max(s) \in s
  <1> DEFINE T == {k \in Nat : \A y \in s : y <= k}
  <1>1. n \in T
    OBVIOUS
  <1>2. PICK k \in T : \A l \in T : k <= l
    BY <1>1, Least
  <1>3. k \in Nat /\ (\A y \in s : y <= k) /\ (\A y \in s : y \in Nat /\ y >= 1)
    BY <1>2
  <1>4. k \in s
    <2> SUFFICES ASSUME k \notin s PROVE FALSE
      OBVIOUS
    <2>1. \A y \in s : y <= k - 1
      BY <1>3
    <2>2. k - 1 \in Nat
      <3>1. PICK y \in s : y >= 1 /\ y <= k
        BY <1>3
      <3> QED
        BY <1>3, <3>1
    <2>3. k - 1 \in T
      BY <2>1, <2>2
    <2> QED
      BY <1>2, <1>3, <2>3
  <1>5. \E x \in s : \A y \in s : x >= y
    BY <1>3, <1>4
  <1> QED
    BY <1>5 DEF Max

LEMMA SumOfNothing ==
  ASSUME NEW S, IsFiniteSet(S), NEW f, \A x \in S : f[x] = 0
  PROVE  SumFunctionOnSet(f, S) = 0
  <1>1. CASE S = {}
    BY <1>1, EmptySum
  <1>2. ASSUME NEW a \in S PROVE SumFunctionOnSet(f, S) = 0
    <2> DEFINE h == [x \in S |-> 2 * f[x]]
    <2>1. \A x \in S : f[x] \in Int /\ h[x] \in Int /\ f[x] = 0 /\ h[x] = 0
      OBVIOUS
    <2> HIDE DEF h
    <2> DEFINE B == {s \in SUBSET S : SumFunctionOnSet(f, s) # 0}
    <2>2. B = {}
      <3> SUFFICES ASSUME B # {} PROVE FALSE
        OBVIOUS
      <3>1. B \in SUBSET (SUBSET S)
        OBVIOUS
      <3> HIDE DEF B
      <3>2. PICK s \in B : \A u \in B : u \subseteq s => u = s
        BY <3>1, SmallestSubset
      <3>3. s \in SUBSET S /\ SumFunctionOnSet(f, s) # 0
        BY <3>2 DEF B
      <3>4. s # {}
        BY <3>3, EmptySum
      <3>5. PICK b \in s : TRUE
        BY <3>4
      <3>6. SumFunctionOnSet(f, s \ {b}) = 0
        BY <3>2, <3>3, <3>5 DEF B
      <3>7. IsFiniteSet(s) /\ \A x \in s : f[x] \in Int
        BY <2>1, <3>3, FS_Subset
      <3>8. SumFunctionOnSet(f, s) = f[b] + SumFunctionOnSet(f, s \ {b})
        BY <3>5, <3>7, SumWithout
      <3> QED
        BY <2>1, <3>3, <3>5, <3>6, <3>8
    <2> QED
      BY <2>2
  <1> QED
    BY <1>1, <1>2

LEMMA IntervalSize ==
  ASSUME NEW n \in Nat PROVE IsFiniteSet(1 .. n) /\ Cardinality(1 .. n) = n
  <1>1. 1 \in Int /\ n \in Int
    OBVIOUS
  <1>2. IsFiniteSet(1 .. n) /\ Cardinality(1 .. n) = IF 1 > n THEN 0 ELSE n - 1 + 1
    BY <1>1, FS_Interval
  <1> QED
    BY <1>2

(* Rows whose values of a field differ are no more than the field's values. *)
LEMMA RangeIsShort ==
  ASSUME NEW V, NEW s \in Seq(V)
  PROVE  IsFiniteSet(Range(s)) /\ Cardinality(Range(s)) <= Len(s)
  <1>1. s \in Surjection(1 .. Len(s), Range(s))
    BY DEF Surjection, Range
  <1>2. IsFiniteSet(1 .. Len(s)) /\ Cardinality(1 .. Len(s)) = Len(s)
    <2>1. Len(s) \in Nat
      OBVIOUS
    <2> QED
      BY <2>1, IntervalSize
  <1> QED
    BY <1>1, <1>2, FS_Surjection

LEMMA DifferentRows ==
  ASSUME NEW S, NEW V, IsFiniteSet(V), NEW f \in [S -> V],
         \A x, y \in S : f[x] = f[y] => x = y
  PROVE  IsFiniteSet(S) /\ Cardinality(S) <= Cardinality(V)
  <1>1. f \in Injection(S, V)
    BY DEF Injection, IsInjective
  <1> QED
    BY <1>1, FS_Injection

LEMMA MemberTyped ==
  ASSUME NEW V, NEW s \in Seq(V), NEW i \in DOMAIN s
  PROVE  s[i] \in V
  OBVIOUS
LEMMA ProductReflects ==
  ASSUME NEW n \in Nat \ {0}
  PROVE  \A y, x \in Nat : /\ n * y <= x * n => y <= x
                           /\ x * n <= n * y => x <= y
  <1>1. ASSUME NEW y \in Nat, NEW x \in Nat, y > x PROVE n * y > x * n
    <2>1. n * (x + 1) <= n * y
      BY <1>1, ProductGrows
    <2>2. n * (x + 1) = x * n + n /\ x * n \in Nat /\ n * y \in Nat
      BY ProductNat
    <2> QED
      BY <2>1, <2>2
  <1>2. ASSUME NEW y \in Nat, NEW x \in Nat, x > y PROVE x * n > n * y
    <2>1. n * (y + 1) <= n * x
      BY <1>2, ProductGrows
    <2>2. n * (y + 1) = n * y + n /\ x * n = n * x /\ x * n \in Nat /\ n * y \in Nat
      BY ProductNat
    <2> QED
      BY <2>1, <2>2
  <1> QED
    BY <1>1, <1>2

-----------------------------------------------------------------------------
(* More about sums. *)

LEMMA SumTyped ==
  ASSUME NEW S, IsFiniteSet(S), NEW f, \A x \in S : f[x] \in Int
  PROVE  SumFunctionOnSet(f, S) \in Int
  <1>1. PICK g \in [SUBSET S -> Int] : SumFunctionOnSet(f, S) = g[S]
    BY SumIsAFold
  <1> QED
    BY <1>1

LEMMA SumAdded ==
  ASSUME NEW S, IsFiniteSet(S), NEW f, NEW g, NEW h,
         \A x \in S : f[x] \in Int /\ g[x] \in Int /\ h[x] = f[x] + g[x]
  PROVE  SumFunctionOnSet(h, S) = SumFunctionOnSet(f, S) + SumFunctionOnSet(g, S)
  <1> DEFINE Adds_(s) ==
               SumFunctionOnSet(h, s) = SumFunctionOnSet(f, s) + SumFunctionOnSet(g, s)
             B == {s \in SUBSET S : ~ Adds_(s)}
  <1> SUFFICES ASSUME B # {} PROVE FALSE
    OBVIOUS
  <1>1. PICK s \in B : \A u \in B : u \subseteq s => u = s
    <2>1. B \in SUBSET (SUBSET S)
      OBVIOUS
    <2> HIDE DEF B
    <2> QED
      BY <2>1, SmallestSubset
  <1>2. s \in SUBSET S /\ ~ Adds_(s) /\ \A u \in SUBSET s : u # s => Adds_(u)
    BY <1>1
  <1> HIDE DEF B
  <1>3. s # {}
    <2>1. /\ SumFunctionOnSet(f, {}) = 0 /\ SumFunctionOnSet(g, {}) = 0
          /\ SumFunctionOnSet(h, {}) = 0
      BY EmptySum
    <2>2. Adds_({})
      BY <2>1
    <2> QED
      BY <1>2, <2>2
  <1>4. PICK a \in s : TRUE
    BY <1>3
  <1>5. IsFiniteSet(s) /\ \A x \in s : f[x] \in Int /\ g[x] \in Int /\ h[x] \in Int
    BY <1>2, FS_Subset
  <1>6. /\ SumFunctionOnSet(f, s \ {a}) \in Int
        /\ SumFunctionOnSet(f, s) = f[a] + SumFunctionOnSet(f, s \ {a})
    BY <1>4, <1>5, SumWithout
  <1>7. /\ SumFunctionOnSet(g, s \ {a}) \in Int
        /\ SumFunctionOnSet(g, s) = g[a] + SumFunctionOnSet(g, s \ {a})
    BY <1>4, <1>5, SumWithout
  <1>8. SumFunctionOnSet(h, s) = h[a] + SumFunctionOnSet(h, s \ {a})
    BY <1>4, <1>5, SumWithout
  <1>9. Adds_(s \ {a}) /\ h[a] = f[a] + g[a] /\ f[a] \in Int /\ g[a] \in Int
    BY <1>2, <1>4, <1>5
  <1>10. \A p, q, v, w \in Int : p + q + (v + w) = p + v + (q + w)
    OBVIOUS
  <1> QED
    BY <1>2, <1>6, <1>7, <1>8, <1>9, <1>10

LEMMA SumScaled ==
  ASSUME NEW S, IsFiniteSet(S), NEW f, NEW h, NEW c \in Int,
         \A x \in S : f[x] \in Int /\ h[x] = c * f[x]
  PROVE  SumFunctionOnSet(h, S) = c * SumFunctionOnSet(f, S)
  <1> DEFINE Scales(s) == SumFunctionOnSet(h, s) = c * SumFunctionOnSet(f, s)
             B == {s \in SUBSET S : ~ Scales(s)}
  <1> SUFFICES ASSUME B # {} PROVE FALSE
    OBVIOUS
  <1>1. PICK s \in B : \A u \in B : u \subseteq s => u = s
    <2>1. B \in SUBSET (SUBSET S)
      OBVIOUS
    <2> HIDE DEF B
    <2> QED
      BY <2>1, SmallestSubset
  <1>2. s \in SUBSET S /\ ~ Scales(s) /\ \A u \in SUBSET s : u # s => Scales(u)
    BY <1>1
  <1> HIDE DEF B
  <1>3. s # {}
    <2>1. SumFunctionOnSet(f, {}) = 0 /\ SumFunctionOnSet(h, {}) = 0
      BY EmptySum
    <2>2. c * 0 = 0
      OBVIOUS
    <2> QED
      BY <1>2, <2>1, <2>2
  <1>4. PICK a \in s : TRUE
    BY <1>3
  <1>5. IsFiniteSet(s) /\ \A x \in s : f[x] \in Int /\ h[x] \in Int
    BY <1>2, FS_Subset
  <1>6. /\ SumFunctionOnSet(f, s \ {a}) \in Int
        /\ SumFunctionOnSet(f, s) = f[a] + SumFunctionOnSet(f, s \ {a})
    BY <1>4, <1>5, SumWithout
  <1>7. SumFunctionOnSet(h, s) = h[a] + SumFunctionOnSet(h, s \ {a})
    BY <1>4, <1>5, SumWithout
  <1>8. Scales(s \ {a}) /\ h[a] = c * f[a] /\ f[a] \in Int
    BY <1>2, <1>4, <1>5
  <1>9. \A p, q \in Int : c * p + c * q = c * (p + q)
    OBVIOUS
  <1> QED
    BY <1>2, <1>6, <1>7, <1>8, <1>9

LEMMA SumConstant ==
  ASSUME NEW S, IsFiniteSet(S), NEW f, NEW c \in Int, \A x \in S : f[x] = c
  PROVE  SumFunctionOnSet(f, S) = c * Cardinality(S)
  <1> DEFINE Counts(s) == SumFunctionOnSet(f, s) = c * Cardinality(s)
             B == {s \in SUBSET S : ~ Counts(s)}
  <1> SUFFICES ASSUME B # {} PROVE FALSE
    OBVIOUS
  <1>1. PICK s \in B : \A u \in B : u \subseteq s => u = s
    <2>1. B \in SUBSET (SUBSET S)
      OBVIOUS
    <2> HIDE DEF B
    <2> QED
      BY <2>1, SmallestSubset
  <1>2. s \in SUBSET S /\ ~ Counts(s) /\ \A u \in SUBSET s : u # s => Counts(u)
    BY <1>1
  <1> HIDE DEF B
  <1>3. s # {}
    <2>1. SumFunctionOnSet(f, {}) = 0 /\ Cardinality({}) = 0
      BY EmptySum, FS_EmptySet
    <2>2. c * 0 = 0
      OBVIOUS
    <2> QED
      BY <1>2, <2>1, <2>2
  <1>4. PICK a \in s : TRUE
    BY <1>3
  <1>5. IsFiniteSet(s) /\ \A x \in s : f[x] \in Int
    BY <1>2, FS_Subset
  <1>6. SumFunctionOnSet(f, s) = f[a] + SumFunctionOnSet(f, s \ {a})
    BY <1>4, <1>5, SumWithout
  <1>7. /\ Cardinality(s) \in Nat
        /\ Cardinality(s \ {a}) = Cardinality(s) - 1
    BY <1>4, <1>5, FS_CardinalityType, FS_RemoveElement
  <1>8. Counts(s \ {a}) /\ f[a] = c
    BY <1>2, <1>4
  <1>9. \A n \in Nat : c + c * (n - 1) = c * n
    OBVIOUS
  <1> QED
    BY <1>2, <1>6, <1>7, <1>8, <1>9

LEMMA SumNat ==
  ASSUME NEW S, IsFiniteSet(S), NEW f, \A x \in S : f[x] \in Nat
  PROVE  /\ SumFunctionOnSet(f, S) \in Nat
         /\ \A a \in S : f[a] <= SumFunctionOnSet(f, S)
  <1>1. \A s \in SUBSET S : SumFunctionOnSet(f, s) \in Nat
    <2> SUFFICES ASSUME NEW s \in SUBSET S PROVE SumFunctionOnSet(f, s) \in Nat
      OBVIOUS
    <2> DEFINE zero == [x \in s |-> 0]
    <2>1. IsFiniteSet(s) /\ \A x \in s : f[x] \in Int /\ zero[x] \in Int /\ zero[x] <= f[x]
      BY FS_Subset
    <2>2. \A x \in s : zero[x] = 0
      OBVIOUS
    <2> HIDE DEF zero
    <2>3. SumFunctionOnSet(zero, s) <= SumFunctionOnSet(f, s)
      BY <2>1, SumBounds
    <2>4. SumFunctionOnSet(zero, s) = 0
      BY <2>1, <2>2, SumOfNothing
    <2>5. SumFunctionOnSet(f, s) \in Int
      BY <2>1, SumTyped
    <2> QED
      BY <2>3, <2>4, <2>5
  <1>2. ASSUME NEW a \in S PROVE f[a] <= SumFunctionOnSet(f, S)
    <2>1. SumFunctionOnSet(f, S) = f[a] + SumFunctionOnSet(f, S \ {a})
      BY SumWithout
    <2>2. SumFunctionOnSet(f, S \ {a}) \in Nat /\ f[a] \in Nat
      BY <1>1
    <2> QED
      BY <2>1, <2>2
  <1> QED
    BY <1>1, <1>2

LEMMA SumAtMost ==
  ASSUME NEW S, IsFiniteSet(S), NEW f, NEW b \in Int, \A x \in S : f[x] \in Int /\ f[x] <= b
  PROVE  SumFunctionOnSet(f, S) <= b * Cardinality(S)
  <1> DEFINE h == [x \in S |-> b]
  <1>1. \A x \in S : f[x] \in Int /\ h[x] \in Int /\ f[x] <= h[x] /\ h[x] = b
    OBVIOUS
  <1> HIDE DEF h
  <1>2. SumFunctionOnSet(f, S) <= SumFunctionOnSet(h, S)
    BY <1>1, SumBounds
  <1>3. SumFunctionOnSet(h, S) = b * Cardinality(S)
    BY <1>1, SumConstant
  <1> QED
    BY <1>2, <1>3

(* Of two functions that are equal on a set the sums are.                  *)
LEMMA SumSame ==
  ASSUME NEW S, IsFiniteSet(S), NEW f, NEW h, \A x \in S : f[x] \in Int /\ f[x] = h[x]
  PROVE  SumFunctionOnSet(f, S) = SumFunctionOnSet(h, S)
  <1> DEFINE zero == [x \in S |-> 0]
  <1>1. \A x \in S : zero[x] = 0 /\ f[x] \in Int /\ zero[x] \in Int /\ h[x] = f[x] + zero[x]
    OBVIOUS
  <1> HIDE DEF zero
  <1>2. SumFunctionOnSet(h, S) = SumFunctionOnSet(f, S) + SumFunctionOnSet(zero, S)
    BY <1>1, SumAdded
  <1>3. SumFunctionOnSet(zero, S) = 0 /\ SumFunctionOnSet(f, S) \in Int
    BY <1>1, SumOfNothing, SumTyped
  <1> QED
    BY <1>2, <1>3

(* A quantity divided in proportion, each part rounded down: no more than  *)
(* one is lost for each part.                                              *)
LEMMA PartsAddUp ==
  ASSUME NEW S, IsFiniteSet(S), NEW r, NEW q, NEW total \in Nat \ {0}, NEW x \in Nat,
         \A i \in S : r[i] \in Nat /\ q[i] = (x * r[i]) \div total,
         SumFunctionOnSet(r, S) = total
  PROVE  /\ \A i \in S : q[i] \in Nat
         /\ SumFunctionOnSet(q, S) \in Nat
         /\ SumFunctionOnSet(q, S) <= x
         /\ x <= SumFunctionOnSet(q, S) + Cardinality(S)
  <1> DEFINE given == [i \in S |-> total * q[i]]
             asked == [i \in S |-> x * r[i]]
             next  == [i \in S |-> total * (q[i] + 1)]
             more  == [i \in S |-> q[i] + 1]
             one   == [i \in S |-> 1]
  <1>1. ASSUME NEW i \in S
        PROVE  /\ q[i] \in Nat /\ x * r[i] \in Nat /\ total * q[i] \in Nat
               /\ total * q[i] <= x * r[i] /\ x * r[i] <= total * (q[i] + 1)
    <2>1. r[i] \in Nat /\ q[i] = (x * r[i]) \div total /\ x * r[i] \in Nat
      BY ProductNat
    <2>2. /\ q[i] \in Nat /\ total * q[i] <= x * r[i]
          /\ x * r[i] < total * q[i] + total
      BY <2>1, DivisionBounds
    <2>3. total * q[i] \in Nat /\ total * (q[i] + 1) = total * q[i] + total
      BY <2>2, ProductNat
    <2> QED
      BY <2>1, <2>2, <2>3
  <1>2. \A i \in S : /\ given[i] \in Int /\ asked[i] \in Int /\ next[i] \in Int
                     /\ given[i] <= asked[i] /\ asked[i] <= next[i]
                     /\ given[i] = total * q[i] /\ asked[i] = x * r[i]
                     /\ next[i] = total * more[i] /\ more[i] = q[i] + one[i]
                     /\ one[i] = 1 /\ more[i] \in Int /\ q[i] \in Int /\ r[i] \in Int
    BY <1>1
  <1>3. SumFunctionOnSet(q, S) \in Nat
    BY <1>1, SumNat
  <1> HIDE DEF given, asked, next, more, one
  <1>4. /\ SumFunctionOnSet(given, S) <= SumFunctionOnSet(asked, S)
        /\ SumFunctionOnSet(asked, S) <= SumFunctionOnSet(next, S)
    BY <1>2, SumBounds
  <1>5. SumFunctionOnSet(given, S) = total * SumFunctionOnSet(q, S)
    <2>1. total \in Int /\ \A i \in S : q[i] \in Int /\ given[i] = total * q[i]
      BY <1>2
    <2> QED
      BY <2>1, SumScaled
  <1>6. SumFunctionOnSet(asked, S) = x * total
    <2>1. x \in Int /\ \A i \in S : r[i] \in Int /\ asked[i] = x * r[i]
      BY <1>2
    <2>2. SumFunctionOnSet(asked, S) = x * SumFunctionOnSet(r, S)
      BY <2>1, SumScaled
    <2> QED
      BY <2>2
  <1>7. SumFunctionOnSet(next, S) = total * SumFunctionOnSet(more, S)
    <2>1. total \in Int /\ \A i \in S : more[i] \in Int /\ next[i] = total * more[i]
      BY <1>2
    <2> QED
      BY <2>1, SumScaled
  <1>8. SumFunctionOnSet(more, S) = SumFunctionOnSet(q, S) + SumFunctionOnSet(one, S)
    BY <1>2, SumAdded
  <1>9. SumFunctionOnSet(one, S) = Cardinality(S) /\ Cardinality(S) \in Nat
    BY <1>2, SumConstant, FS_CardinalityType
  <1>10. \A y \in Nat : total * y <= x * total => y <= x
    BY ProductReflects
  <1>11. \A y \in Nat : x * total <= total * y => x <= y
    BY ProductReflects
  <1> QED
    BY <1>1, <1>3, <1>4, <1>5, <1>6, <1>7, <1>8, <1>9, <1>10, <1>11

-----------------------------------------------------------------------------
(* The candidates. *)

Rank(i) == CandidateScore(offered[i])

(* The candidates of a call are those of the constructor. *)
WellOffered == offered \in StartRows /\ policy \in Policies

LEMMA OfferTyped ==
  ASSUME WellOffered
  PROVE  /\ offered \in Seq(Range(offered)) /\ DOMAIN offered = 1 .. Len(offered)
         /\ IsFiniteSet(DOMAIN offered)
         /\ \A i \in DOMAIN offered : /\ offered[i].quality \in Int /\ offered[i].age \in Nat
                                      /\ offered[i].multiplier \in 0 .. 100
         /\ policy.min \in Nat \ {0} /\ policy.max \in Nat \ {0} /\ policy.soft \in BOOLEAN
  <1>1. /\ offered \in Seq(Range(offered))
        /\ \A i \in DOMAIN offered : /\ offered[i].quality \in Int /\ offered[i].age \in Nat
                                     /\ offered[i].multiplier \in 0 .. 100
    BY OptimizerAssumption DEF WellOffered
  <1>2. Len(offered) \in Nat /\ DOMAIN offered = 1 .. Len(offered)
    BY <1>1
  <1>3. IsFiniteSet(DOMAIN offered)
    BY <1>2, IntervalSize
  <1> QED
    BY <1>1, <1>2, <1>3, OptimizerAssumption DEF WellOffered

LEMMA RankTyped == ASSUME WellOffered, NEW i \in DOMAIN offered PROVE Rank(i) \in Int
  <1>1. /\ offered[i].quality \in Int /\ offered[i].age \in Nat
        /\ offered[i].multiplier \in Int
    <2>1. /\ offered[i].quality \in Int /\ offered[i].age \in Nat
          /\ offered[i].multiplier \in 0 .. 100
      BY OfferTyped
    <2> QED
      BY <2>1
  <1>2. Freshness(offered[i].age) \in Nat
    BY <1>1 DEF Freshness
  <1> DEFINE product == offered[i].quality * Freshness(offered[i].age) * offered[i].multiplier
  <1>3. product \in Int
    BY <1>1, <1>2
  <1>4. Rank(i) = product \div 10000
    BY DEF Rank, CandidateScore
  <1> HIDE DEF product
  <1> QED
    BY <1>3, <1>4

LEMMA PairFinite == \A x, y : IsFiniteSet({x, y})
  <1> SUFFICES ASSUME NEW x, NEW y PROVE IsFiniteSet({x, y})
    OBVIOUS
  <1>1. IsFiniteSet({x}) /\ IsFiniteSet({y})
    BY FS_Singleton
  <1>2. {x, y} = {x} \cup {y}
    OBVIOUS
  <1> QED
    BY <1>1, <1>2, FS_Union

LEMMA AttributesFinite == IsFiniteSet(Attributes)
  <1> DEFINE two == {"symbol", "family"}
             rest == {"regime", "timeframe"}
  <1>1. IsFiniteSet(two) /\ IsFiniteSet(rest)
    BY PairFinite
  <1>2. Attributes = two \cup rest
    BY DEF Attributes
  <1> HIDE DEF two, rest
  <1> QED
    BY <1>1, <1>2, FS_Union

LEMMA SharedPenalty ==
  ASSUME NEW i, NEW j
  PROVE  SumFunctionOnSet(Penalty, Shared(i, j)) \in Nat
  <1>1. IsFiniteSet(Attributes)
    BY AttributesFinite
  <1>2. IsFiniteSet(Shared(i, j)) /\ Shared(i, j) \subseteq Attributes
    BY <1>1, FS_Subset DEF Shared
  <1>3. \A a \in Shared(i, j) : Penalty[a] \in Nat
    BY <1>2 DEF Penalty, Attributes
  <1> QED
    BY <1>2, <1>3, SumNat

LEMMA BonusTyped ==
  ASSUME NEW i
  PROVE  DiversityBonus(i) \in Nat /\ (selected = <<>> => DiversityBonus(i) = 15)
  <1> DEFINE fresh == Attributes \ UNION {Shared(i, j) : j \in Range(selected)}
  <1>1. IsFiniteSet(Attributes)
    BY AttributesFinite
  <1>2. IsFiniteSet(fresh) /\ fresh \subseteq Attributes
    BY <1>1, FS_Subset
  <1>3. \A a \in fresh : Bonus[a] \in Nat
    BY <1>2 DEF Bonus, Attributes
  <1>4. SumFunctionOnSet(Bonus, fresh) \in Nat
    BY <1>2, <1>3, SumNat
  <1>5. DiversityBonus(i) = IF selected = <<>> THEN 15 ELSE SumFunctionOnSet(Bonus, fresh)
    BY DEF DiversityBonus
  <1> QED
    BY <1>4, <1>5

LEMMA PenaltyTyped ==
  ASSUME NEW i, NEW V, selected \in Seq(V)
  PROVE  PairPenalty(i) \in Nat /\ (selected = <<>> => PairPenalty(i) = 0)
  <1> DEFINE f == [k \in DOMAIN selected |-> SumFunctionOnSet(Penalty, Shared(i, selected[k]))]
  <1>1. \A k \in DOMAIN selected : f[k] \in Nat
    BY SharedPenalty
  <1>2. PairPenalty(i) = SumFunctionOnSet(f, DOMAIN selected)
    BY DEF PairPenalty
  <1>3. IsFiniteSet(DOMAIN selected) /\ (selected = <<>> => DOMAIN selected = {})
    <2>1. Len(selected) \in Nat /\ DOMAIN selected = 1 .. Len(selected)
      OBVIOUS
    <2> QED
      BY <2>1, IntervalSize
  <1> HIDE DEF f
  <1>4. PairPenalty(i) \in Nat
    BY <1>1, <1>2, <1>3, SumNat
  <1>5. selected = <<>> => PairPenalty(i) = 0
    BY <1>2, <1>3, EmptySum
  <1> QED
    BY <1>4, <1>5

(* The first row considered has only its bonus. *)
LEMMA MarksTyped ==
  ASSUME WellOffered, NEW V, selected \in Seq(V), NEW i \in DOMAIN offered
  PROVE  /\ MarksOf(i) \in [penalty : Nat, score : Int]
         /\ selected = <<>> => MarksOf(i).score = Rank(i) + 15
  <1>1. Rank(i) \in Int
    BY RankTyped
  <1>2. PairPenalty(i) \in Nat /\ (selected = <<>> => PairPenalty(i) = 0)
    BY PenaltyTyped
  <1>3. DiversityBonus(i) \in Nat /\ (selected = <<>> => DiversityBonus(i) = 15)
    BY BonusTyped
  <1>4. MarksOf(i) = [penalty |-> PairPenalty(i),
                      score |-> Rank(i) + DiversityBonus(i) - PairPenalty(i)]
    BY DEF MarksOf, Rank
  <1> QED
    BY <1>1, <1>2, <1>3, <1>4

(* What a verdict says of the row.                                         *)
LEMMA VerdictSays ==
  ASSUME WellOffered, NEW V, selected \in Seq(V), NEW i \in DOMAIN offered
  PROVE  /\ Verdict(i) = "accepted" =>
              /\ i \notin Chosen
              /\ pass = "strict" => offered[i].symbol \notin SymbolsIn(Chosen)
              /\ selected = <<>> => Rank(i) >= -15
         /\ Verdict(i) # "accepted" =>
              \/ i \in Chosen
              \/ pass = "strict" /\ offered[i].symbol \in SymbolsIn(Chosen)
              \/ pass = "strict" /\ Len(selected) >= policy.min
              \/ selected = <<>> /\ Rank(i) < -15
         /\ Verdict(i) \in {"accepted", "duplicate_strategy", "duplicate_symbol",
                            "score_below_threshold", "negative_seed_score"}
  <1>1. selected = <<>> => MarksOf(i).score = Rank(i) + 15
    BY MarksTyped
  <1>2. Rank(i) \in Int
    BY RankTyped
  <1> DEFINE score == MarksOf(i).score
  <1>3. Verdict(i) =
          IF i \in Chosen THEN "duplicate_strategy"
          ELSE IF pass = "strict" /\ offered[i].symbol \in SymbolsIn(Chosen)
          THEN "duplicate_symbol"
          ELSE IF pass = "strict" /\ score < 20 /\ Len(selected) >= policy.min
          THEN "score_below_threshold"
          ELSE IF score < 0 /\ selected = <<>> THEN "negative_seed_score"
          ELSE "accepted"
    BY DEF Verdict, Chosen
  <1>4. selected = <<>> => (score < 0 <=> Rank(i) < -15)
    BY <1>1, <1>2
  <1>5. Rank(i) < -15 \/ Rank(i) >= -15
    BY <1>2
  <1> HIDE DEF score
  <1> QED
    BY <1>3, <1>4, <1>5

-----------------------------------------------------------------------------
(* The passes: s is what they have selected, l what is left. *)

Positions(s, l) ==
  /\ l \subseteq Eligibles /\ s \in Seq(Eligibles) /\ Len(s) <= policy.max
  /\ \A k, m \in DOMAIN s : s[k] = s[m] => k = m
  /\ s # <<>> => \E i \in Eligibles : Rank(i) >= -15

(* No better row of a symbol of its own has been passed over.              *)
NobodyBetter(s, is) ==
  Len(s) = policy.min =>
    \A i \in is \ Range(s), j \in Range(s) :
      Rank(i) > Rank(j) => offered[i].symbol \in SymbolsIn(Range(s))

(* The best rows come first; until there are min_positions every row that  *)
(* brings a symbol is taken, once there is a first.                        *)
StrictPass(s, l) ==
  /\ Range(s) \cap l = {}
  /\ \A i \in Eligibles \ l, j \in l : Rank(i) >= Rank(j)
  /\ \A i, j \in Range(s) : offered[i].symbol = offered[j].symbol => i = j
  /\ s = <<>> => \A i \in Eligibles \ l : Rank(i) < -15
  /\ s # <<>> /\ Len(s) < policy.min =>
       SymbolsIn(Eligibles \ l) \subseteq SymbolsIn(Range(s))
  /\ NobodyBetter(s, Eligibles \ l)

(* The second pass begins with every symbol there is, too few of them, and *)
(* takes every row it considers.                                           *)
RelaxedPass(s, l) ==
  /\ policy.soft
  /\ policy.min <= policy.max =>
       IF s = <<>> THEN \A i \in Eligibles : Rank(i) < -15
       ELSE /\ SymbolsIn(Eligibles) \subseteq SymbolsIn(Range(s))
            /\ Cardinality(SymbolsIn(Eligibles)) < policy.min
            /\ Eligibles \ l \subseteq Range(s)

(* What BasketChoice calls enough.                                         *)
Fillable ==
  /\ policy.min <= policy.max
  /\ Cardinality(IF policy.soft THEN Eligibles ELSE SymbolsIn(Eligibles)) >= policy.min
  /\ \E i \in Eligibles : Rank(i) >= -15

AfterPasses(s) ==
  IF Len(s) >= policy.min
  THEN /\ Fillable
       /\ Cardinality(SymbolsIn(Range(s))) < Cardinality(Range(s)) =>
            policy.soft /\ Cardinality(SymbolsIn(Eligibles)) < policy.min
       /\ NobodyBetter(s, Eligibles)
  ELSE ~ Fillable

SelectInv ==
  /\ WellOffered /\ Positions(selected, left)
  /\ pass \in {"strict", "relaxed", "weigh", "clip", "done"}
  /\ pass = "strict" => StrictPass(selected, left)
  /\ pass = "relaxed" => RelaxedPass(selected, left)
  /\ pass \in {"weigh", "clip", "done"} => AfterPasses(selected)
  /\ pass = "clip" => Len(selected) >= policy.min
  /\ pass = "done" => Len(selected) >= policy.min \/ selected = <<>>

-----------------------------------------------------------------------------
(* Sizes. *)

(* The sets of rows and of their symbols.                                  *)
LEMMA RowsFinite ==
  ASSUME WellOffered, NEW is \in SUBSET Eligibles
  PROVE  /\ IsFiniteSet(is) /\ IsFiniteSet(SymbolsIn(is))
         /\ Cardinality(is) \in Nat /\ Cardinality(SymbolsIn(is)) \in Nat
         /\ Cardinality(SymbolsIn(is)) <= Cardinality(is)
         /\ Cardinality(is) <= Cardinality(Eligibles)
         /\ (\A i, j \in is : offered[i].symbol = offered[j].symbol => i = j)
              => Cardinality(SymbolsIn(is)) = Cardinality(is)
  <1>1. IsFiniteSet(Eligibles)
    <2>1. IsFiniteSet(DOMAIN offered)
      BY OfferTyped
    <2>2. Eligibles \subseteq DOMAIN offered
      BY DEF Eligibles
    <2> QED
      BY <2>1, <2>2, FS_Subset
  <1>2. IsFiniteSet(is) /\ Cardinality(is) <= Cardinality(Eligibles)
    BY <1>1, FS_Subset
  <1> DEFINE f == [i \in is |-> offered[i].symbol]
             syms == SymbolsIn(is)
  <1>3. f \in Surjection(is, syms)
    BY DEF Surjection, SymbolsIn
  <1>4. IsFiniteSet(syms) /\ Cardinality(syms) <= Cardinality(is)
    BY <1>2, <1>3, FS_Surjection
  <1>5. Cardinality(is) \in Nat /\ Cardinality(syms) \in Nat
    BY <1>2, <1>4, FS_CardinalityType
  <1>6. ASSUME \A i, j \in is : offered[i].symbol = offered[j].symbol => i = j
        PROVE  Cardinality(syms) = Cardinality(is)
    <2>1. f \in [is -> syms] /\ \A i, j \in is : f[i] = f[j] => i = j
      BY <1>6 DEF SymbolsIn
    <2> HIDE DEF f, syms
    <2>2. Cardinality(is) <= Cardinality(syms)
      BY <1>4, <2>1, DifferentRows
    <2> QED
      BY <1>4, <1>5, <2>2
  <1> HIDE DEF f
  <1> QED
    BY <1>2, <1>4, <1>5, <1>6

LEMMA RangeSays ==
  ASSUME NEW V, NEW s \in Seq(V)
  PROVE  /\ Range(s) = {s[k] : k \in 1 .. Len(s)} /\ Range(s) \subseteq V
         /\ Len(s) \in Nat /\ DOMAIN s = 1 .. Len(s)
         /\ (s = <<>> <=> Len(s) = 0) /\ (s = <<>> <=> Range(s) = {})
  <1>1. Len(s) \in Nat /\ DOMAIN s = 1 .. Len(s)
    OBVIOUS
  <1>2. Range(s) = {s[k] : k \in 1 .. Len(s)}
    BY <1>1 DEF Range
  <1>3. Range(s) \subseteq V
    <2> SUFFICES ASSUME NEW x \in Range(s) PROVE x \in V
      OBVIOUS
    <2>1. PICK k \in DOMAIN s : x = s[k]
      BY <1>1, <1>2
    <2> QED
      BY <2>1, MemberTyped
  <1>4. s = <<>> <=> Len(s) = 0
    OBVIOUS
  <1>5. Range(s) = {} <=> Len(s) = 0
    <2>1. CASE Len(s) = 0
      BY <1>2, <2>1
    <2>2. CASE Len(s) # 0
      <3>1. 1 \in 1 .. Len(s)
        BY <1>1, <2>2
      <3> QED
        BY <1>2, <2>2, <3>1
    <2> QED
      BY <2>1, <2>2
  <1> QED
    BY <1>1, <1>2, <1>3, <1>4, <1>5

LEMMA PositionsCounted ==
  ASSUME WellOffered, NEW s, NEW l, Positions(s, l)
  PROVE  /\ Range(s) \subseteq Eligibles /\ Cardinality(Range(s)) = Len(s) /\ Len(s) \in Nat
         /\ (s = <<>> <=> Len(s) = 0) /\ (s = <<>> <=> Range(s) = {})
  <1>1. s \in Seq(Eligibles) /\ \A k, m \in DOMAIN s : s[k] = s[m] => k = m
    BY DEF Positions
  <1>2. /\ Range(s) = {s[k] : k \in 1 .. Len(s)} /\ Range(s) \subseteq Eligibles
        /\ Len(s) \in Nat /\ DOMAIN s = 1 .. Len(s)
        /\ (s = <<>> <=> Len(s) = 0) /\ (s = <<>> <=> Range(s) = {})
    BY <1>1, RangeSays
  <1>3. IsFiniteSet(Range(s)) /\ Cardinality(Range(s)) <= Len(s)
    BY <1>1, RangeIsShort
  <1>4. Len(s) <= Cardinality(Range(s))
    <2>1. s \in [1 .. Len(s) -> Range(s)]
      BY <1>1, <1>2
    <2>2. Cardinality(1 .. Len(s)) <= Cardinality(Range(s))
      BY <1>1, <1>2, <1>3, <2>1, DifferentRows
    <2> QED
      BY <1>2, <2>2, IntervalSize
  <1>5. Cardinality(Range(s)) = Len(s)
    <2>1. Cardinality(Range(s)) \in Nat
      BY <1>3, FS_CardinalityType
    <2> QED
      BY <1>2, <1>3, <1>4, <2>1
  <1> QED
    BY <1>2, <1>5

LEMMA AppendSays ==
  ASSUME NEW V, NEW s \in Seq(V), NEW i \in V
  PROVE  /\ Append(s, i) \in Seq(V) /\ Append(s, i) # <<>>
         /\ Len(Append(s, i)) = Len(s) + 1 /\ Range(Append(s, i)) = Range(s) \cup {i}
         /\ i \notin Range(s) /\ (\A k, m \in DOMAIN s : s[k] = s[m] => k = m) =>
              \A k, m \in DOMAIN Append(s, i) : Append(s, i)[k] = Append(s, i)[m] => k = m
  <1> DEFINE t == Append(s, i)
  <1>1. t \in Seq(V) /\ t # <<>> /\ Len(t) = Len(s) + 1 /\ Len(s) \in Nat
    OBVIOUS
  <1>2. DOMAIN t = 1 .. Len(t) /\ DOMAIN s = 1 .. Len(s)
    OBVIOUS
  <1>3. t[Len(s) + 1] = i /\ \A k \in 1 .. Len(s) : t[k] = s[k]
    OBVIOUS
  <1> HIDE DEF t
  <1>4. \A k \in 1 .. Len(t) : k \in 1 .. Len(s) \/ k = Len(s) + 1
    BY <1>1
  <1>5. Len(s) + 1 \in 1 .. Len(t) /\ 1 .. Len(s) \subseteq 1 .. Len(t)
    BY <1>1
  <1>6. Range(t) = Range(s) \cup {i}
    BY <1>2, <1>3, <1>4, <1>5 DEF Range
  <1>7. ASSUME i \notin Range(s), \A k, m \in DOMAIN s : s[k] = s[m] => k = m,
               NEW k \in DOMAIN t, NEW m \in DOMAIN t, t[k] = t[m]
        PROVE  k = m
    <2>1. \A n \in 1 .. Len(s) : t[n] # i
      BY <1>2, <1>3, <1>7 DEF Range
    <2> QED
      BY <1>2, <1>3, <1>4, <1>7, <2>1
  <1> QED
    BY <1>1, <1>6, <1>7 DEF t

-----------------------------------------------------------------------------
(* A row is considered: i is the best of those left. *)

LEMMA PositionsGrow ==
  ASSUME WellOffered, NEW s, NEW l, Positions(s, l), NEW i \in l, Len(s) < policy.max,
         i \notin Range(s), s = <<>> => Rank(i) >= -15
  PROVE  /\ Positions(Append(s, i), l \ {i}) /\ Append(s, i) # <<>>
         /\ Len(Append(s, i)) = Len(s) + 1 /\ Range(Append(s, i)) = Range(s) \cup {i}
  <1>1. /\ l \subseteq Eligibles /\ s \in Seq(Eligibles) /\ Len(s) <= policy.max
        /\ \A k, m \in DOMAIN s : s[k] = s[m] => k = m
        /\ s # <<>> => \E j \in Eligibles : Rank(j) >= -15
    BY DEF Positions
  <1>2. i \in Eligibles
    BY <1>1
  <1>3. /\ Append(s, i) \in Seq(Eligibles) /\ Append(s, i) # <<>>
        /\ Len(Append(s, i)) = Len(s) + 1 /\ Range(Append(s, i)) = Range(s) \cup {i}
        /\ \A k, m \in DOMAIN Append(s, i) : Append(s, i)[k] = Append(s, i)[m] => k = m
    BY <1>1, <1>2, AppendSays
  <1>4. Len(s) + 1 <= policy.max
    <2>1. policy.max \in Nat
      BY OfferTyped
    <2>2. Len(s) \in Nat
      BY <1>1
    <2> QED
      BY <2>1, <2>2
  <1>5. \E j \in Eligibles : Rank(j) >= -15
    BY <1>1, <1>2
  <1> QED
    BY <1>1, <1>3, <1>4, <1>5 DEF Positions

LEMMA PositionsKept ==
  ASSUME NEW s, NEW l, Positions(s, l), NEW m \in SUBSET Eligibles
  PROVE  Positions(s, m)
  BY DEF Positions

LEMMA StrictAccepts ==
  ASSUME WellOffered, NEW s, NEW l, Positions(s, l), StrictPass(s, l),
         NEW i \in l, \A j \in l : Rank(i) >= Rank(j), Len(s) < policy.max,
         i \notin Range(s), offered[i].symbol \notin SymbolsIn(Range(s)),
         s = <<>> => Rank(i) >= -15
  PROVE  Positions(Append(s, i), l \ {i}) /\ StrictPass(Append(s, i), l \ {i})
  <1> DEFINE t == Append(s, i)
             m == l \ {i}
  <1>1. /\ Positions(t, m) /\ t # <<>> /\ Len(t) = Len(s) + 1 /\ Range(t) = Range(s) \cup {i}
    BY PositionsGrow
  <1>2. l \subseteq Eligibles /\ Range(s) \subseteq Eligibles /\ Len(s) \in Nat
    BY PositionsCounted DEF Positions
  <1>3. Eligibles \ m = (Eligibles \ l) \cup {i}
    BY <1>2
  <1>4. /\ Range(s) \cap l = {}
        /\ \A a \in Eligibles \ l, b \in l : Rank(a) >= Rank(b)
        /\ \A a, b \in Range(s) : offered[a].symbol = offered[b].symbol => a = b
        /\ s = <<>> => \A a \in Eligibles \ l : Rank(a) < -15
        /\ s # <<>> /\ Len(s) < policy.min => SymbolsIn(Eligibles \ l) \subseteq SymbolsIn(Range(s))
    BY DEF StrictPass
  <1>5. \A a \in Eligibles : Rank(a) \in Int
    <2>1. \A a \in Eligibles : a \in DOMAIN offered
      BY DEF Eligibles
    <2> QED
      BY <2>1, RankTyped
  <1>6. s = <<>> => Eligibles \ l = {}
    <2> SUFFICES ASSUME s = <<>>, NEW a \in Eligibles \ l PROVE FALSE
      OBVIOUS
    <2>1. Rank(a) < -15 /\ Rank(a) >= Rank(i) /\ Rank(i) >= -15
      BY <1>4
    <2>2. Rank(a) \in Int /\ Rank(i) \in Int
      BY <1>2, <1>5
    <2> QED
      BY <2>1, <2>2
  <1>7. policy.min \in Nat
    BY OfferTyped
  <1>8. Len(t) <= policy.min => SymbolsIn(Eligibles \ m) \subseteq SymbolsIn(Range(t))
    <2> SUFFICES ASSUME Len(t) <= policy.min
                 PROVE  SymbolsIn(Eligibles \ m) \subseteq SymbolsIn(Range(t))
      OBVIOUS
    <2>1. Len(s) < policy.min
      BY <1>1, <1>2, <1>7
    <2>2. SymbolsIn(Eligibles \ l) \subseteq SymbolsIn(Range(s))
      <3>1. CASE s = <<>>
        BY <1>6, <3>1 DEF SymbolsIn
      <3>2. CASE s # <<>>
        BY <1>4, <2>1, <3>2
      <3> QED
        BY <3>1, <3>2
    <2> QED
      BY <1>1, <1>3, <2>2 DEF SymbolsIn
  <1> HIDE DEF t, m
  <1>9. Range(t) \cap m = {}
    BY <1>1, <1>4 DEF m
  <1>10. \A a \in Eligibles \ m, b \in m : Rank(a) >= Rank(b)
    <2>1. \A a \in (Eligibles \ l) \cup {i}, b \in l : Rank(a) >= Rank(b)
      BY <1>4
    <2> QED
      BY <1>3, <2>1 DEF m
  <1>11. \A a, b \in Range(t) : offered[a].symbol = offered[b].symbol => a = b
    BY <1>1, <1>4 DEF SymbolsIn
  <1>12. Len(t) \in Nat /\ (Len(t) < policy.min => Len(t) <= policy.min)
    BY <1>1, <1>2, <1>7
  <1>13. NobodyBetter(t, Eligibles \ m)
    <2> SUFFICES ASSUME Len(t) = policy.min, NEW a \in Eligibles \ m
                 PROVE  offered[a].symbol \in SymbolsIn(Range(t))
      BY DEF NobodyBetter
    <2>1. Len(t) <= policy.min
      BY <1>7
    <2> QED
      BY <1>8, <2>1 DEF SymbolsIn
  <1> QED
    BY <1>1, <1>8, <1>9, <1>10, <1>11, <1>12, <1>13 DEF StrictPass, t, m

LEMMA StrictRejects ==
  ASSUME WellOffered, NEW s, NEW l, Positions(s, l), StrictPass(s, l),
         NEW i \in l, \A j \in l : Rank(i) >= Rank(j),
         \/ i \in Range(s)
         \/ offered[i].symbol \in SymbolsIn(Range(s))
         \/ Len(s) >= policy.min
         \/ s = <<>> /\ Rank(i) < -15
  PROVE  Positions(s, l \ {i}) /\ StrictPass(s, l \ {i})
  <1> DEFINE m == l \ {i}
  <1>1. l \subseteq Eligibles /\ m \subseteq Eligibles
    BY DEF Positions
  <1>2. Positions(s, m)
    BY <1>1, PositionsKept
  <1>3. /\ Range(s) \subseteq Eligibles /\ Len(s) \in Nat
        /\ (s = <<>> <=> Len(s) = 0) /\ (s = <<>> <=> Range(s) = {})
    BY PositionsCounted
  <1>4. Eligibles \ m = (Eligibles \ l) \cup {i}
    BY <1>1
  <1>5. /\ Range(s) \cap l = {}
        /\ \A a \in Eligibles \ l, b \in l : Rank(a) >= Rank(b)
        /\ \A a, b \in Range(s) : offered[a].symbol = offered[b].symbol => a = b
        /\ s = <<>> => \A a \in Eligibles \ l : Rank(a) < -15
        /\ s # <<>> /\ Len(s) < policy.min => SymbolsIn(Eligibles \ l) \subseteq SymbolsIn(Range(s))
        /\ NobodyBetter(s, Eligibles \ l)
    BY DEF StrictPass
  <1>6. policy.min \in Nat \ {0}
    BY OfferTyped
  <1>7. \/ offered[i].symbol \in SymbolsIn(Range(s))
        \/ Len(s) >= policy.min
        \/ s = <<>> /\ Rank(i) < -15
    BY <1>5
  <1>8. s = <<>> => \A a \in Eligibles \ m : Rank(a) < -15
    <2> SUFFICES ASSUME s = <<>> PROVE Rank(i) < -15
      BY <1>4, <1>5
    <2>1. offered[i].symbol \notin SymbolsIn(Range(s))
      BY <1>3 DEF SymbolsIn
    <2>2. ~ (Len(s) >= policy.min)
      BY <1>3, <1>6
    <2> QED
      BY <1>7, <2>1, <2>2
  <1>9. s # <<>> /\ Len(s) < policy.min => SymbolsIn(Eligibles \ m) \subseteq SymbolsIn(Range(s))
    <2> SUFFICES ASSUME s # <<>>, Len(s) < policy.min
                 PROVE  SymbolsIn(Eligibles \ m) \subseteq SymbolsIn(Range(s))
      OBVIOUS
    <2>1. ~ (Len(s) >= policy.min)
      BY <1>3, <1>6
    <2>2. offered[i].symbol \in SymbolsIn(Range(s))
      BY <1>7, <2>1
    <2> QED
      BY <1>4, <1>5, <2>2 DEF SymbolsIn
  <1>10. NobodyBetter(s, Eligibles \ m)
    <2> SUFFICES ASSUME Len(s) = policy.min, NEW a \in (Eligibles \ m) \ Range(s),
                        NEW j \in Range(s), Rank(a) > Rank(j)
                 PROVE  offered[a].symbol \in SymbolsIn(Range(s))
      BY DEF NobodyBetter
    <2>1. CASE a = i
      <3>1. Rank(j) >= Rank(i)
        BY <1>3, <1>5
      <3>2. i \in DOMAIN offered /\ j \in DOMAIN offered
        BY <1>1, <1>3 DEF Eligibles
      <3>3. Rank(i) \in Int /\ Rank(j) \in Int
        BY <3>2, RankTyped
      <3> QED
        BY <2>1, <3>1, <3>3
    <2>2. CASE a # i
      BY <1>4, <1>5, <2>2 DEF NobodyBetter
    <2> QED
      BY <2>1, <2>2
  <1>11. Range(s) \cap m = {}
    BY <1>5
  <1>12. \A a \in Eligibles \ m, b \in m : Rank(a) >= Rank(b)
    BY <1>4, <1>5
  <1> HIDE DEF m
  <1>13. StrictPass(s, m)
    BY <1>5, <1>8, <1>9, <1>10, <1>11, <1>12 DEF StrictPass
  <1> QED
    BY <1>2, <1>13 DEF m

LEMMA RelaxedAccepts ==
  ASSUME WellOffered, NEW s, NEW l, Positions(s, l), RelaxedPass(s, l),
         NEW i \in l, Len(s) < policy.max, i \notin Range(s), s = <<>> => Rank(i) >= -15
  PROVE  Positions(Append(s, i), l \ {i}) /\ RelaxedPass(Append(s, i), l \ {i})
  <1> DEFINE t == Append(s, i)
             m == l \ {i}
  <1>1. /\ Positions(t, m) /\ t # <<>> /\ Range(t) = Range(s) \cup {i}
    BY PositionsGrow
  <1>2. l \subseteq Eligibles /\ i \in DOMAIN offered
    BY DEF Positions, Eligibles
  <1>3. Rank(i) \in Int
    BY <1>2, RankTyped
  <1>4. Eligibles \ m = (Eligibles \ l) \cup {i} /\ i \in Eligibles
    BY <1>2
  <1> HIDE DEF t, m
  <1>5. ASSUME policy.min <= policy.max
        PROVE  /\ SymbolsIn(Eligibles) \subseteq SymbolsIn(Range(t))
               /\ Cardinality(SymbolsIn(Eligibles)) < policy.min
               /\ Eligibles \ m \subseteq Range(t)
    <2>1. s # <<>>
      <3> SUFFICES ASSUME s = <<>> PROVE FALSE
        OBVIOUS
      <3>1. Rank(i) < -15
        BY <1>4, <1>5 DEF RelaxedPass
      <3> QED
        BY <1>3, <3>1
    <2>2. /\ SymbolsIn(Eligibles) \subseteq SymbolsIn(Range(s))
          /\ Cardinality(SymbolsIn(Eligibles)) < policy.min
          /\ Eligibles \ l \subseteq Range(s)
      BY <1>5, <2>1 DEF RelaxedPass
    <2>3. SymbolsIn(Range(s)) \subseteq SymbolsIn(Range(t))
      BY <1>1 DEF SymbolsIn
    <2> QED
      BY <1>1, <1>4, <2>2, <2>3
  <1>6. policy.soft
    BY DEF RelaxedPass
  <1>7. RelaxedPass(t, m)
    BY <1>1, <1>5, <1>6 DEF RelaxedPass
  <1> QED
    BY <1>1, <1>7 DEF t, m

LEMMA RelaxedRejects ==
  ASSUME WellOffered, NEW s, NEW l, Positions(s, l), RelaxedPass(s, l), NEW i \in l,
         i \in Range(s) \/ (s = <<>> /\ Rank(i) < -15)
  PROVE  Positions(s, l \ {i}) /\ RelaxedPass(s, l \ {i})
  <1> DEFINE m == l \ {i}
  <1>1. l \subseteq Eligibles
    BY DEF Positions
  <1>2. Positions(s, m)
    BY <1>1, PositionsKept
  <1>3. s = <<>> <=> Range(s) = {}
    BY PositionsCounted
  <1>4. s # <<>> /\ Eligibles \ l \subseteq Range(s) => Eligibles \ m \subseteq Range(s)
    BY <1>1, <1>3
  <1> HIDE DEF m
  <1>5. RelaxedPass(s, m)
    BY <1>4 DEF RelaxedPass
  <1> QED
    BY <1>2, <1>5 DEF m

-----------------------------------------------------------------------------
(* The end of a pass. *)

(* Positions of different symbols, or all in a symbol of theirs, leave no  *)
(* doubt whether there was enough to choose from.                          *)
LEMMA EnoughChosen ==
  ASSUME WellOffered, NEW s, NEW l, Positions(s, l), Len(s) >= policy.min,
         \/ policy.soft
         \/ \A i, j \in Range(s) : offered[i].symbol = offered[j].symbol => i = j
  PROVE  Fillable
  <1>1. /\ Range(s) \subseteq Eligibles /\ Cardinality(Range(s)) = Len(s) /\ Len(s) \in Nat
        /\ (s = <<>> <=> Len(s) = 0)
    BY PositionsCounted
  <1>2. policy.min \in Nat \ {0} /\ policy.max \in Nat \ {0}
    BY OfferTyped
  <1>3. s # <<>> /\ policy.min <= policy.max
    BY <1>1, <1>2 DEF Positions
  <1>4. \E i \in Eligibles : Rank(i) >= -15
    BY <1>3 DEF Positions
  <1>5. /\ Cardinality(Eligibles) \in Nat /\ Cardinality(SymbolsIn(Eligibles)) \in Nat
        /\ Cardinality(Range(s)) <= Cardinality(Eligibles)
        /\ IsFiniteSet(SymbolsIn(Eligibles))
    BY <1>1, RowsFinite
  <1>6. CASE policy.soft
    <2>1. Cardinality(Eligibles) >= policy.min
      BY <1>1, <1>2, <1>5
    <2> QED
      BY <1>3, <1>4, <1>6, <2>1 DEF Fillable
  <1>7. CASE ~ policy.soft
    <2>1. Cardinality(SymbolsIn(Range(s))) = Len(s)
      BY <1>1, <1>7, RowsFinite
    <2>2. SymbolsIn(Range(s)) \subseteq SymbolsIn(Eligibles)
      BY <1>1 DEF SymbolsIn
    <2>3. Cardinality(SymbolsIn(Range(s))) <= Cardinality(SymbolsIn(Eligibles))
      BY <1>5, <2>2, FS_Subset
    <2>4. Cardinality(SymbolsIn(Eligibles)) >= policy.min
      BY <1>1, <1>2, <1>5, <2>1, <2>3
    <2> QED
      BY <1>3, <1>4, <1>7, <2>4 DEF Fillable
  <1> QED
    BY <1>6, <1>7

(* Symbols that are all among the positions are no more than these.        *)
LEMMA SymbolsCovered ==
  ASSUME WellOffered, NEW s, NEW l, Positions(s, l),
         SymbolsIn(Eligibles) \subseteq SymbolsIn(Range(s))
  PROVE  Cardinality(SymbolsIn(Eligibles)) <= Len(s)
  <1>1. Range(s) \subseteq Eligibles /\ Cardinality(Range(s)) = Len(s) /\ Len(s) \in Nat
    BY PositionsCounted
  <1>2. /\ IsFiniteSet(SymbolsIn(Range(s))) /\ Cardinality(SymbolsIn(Range(s))) \in Nat
        /\ Cardinality(SymbolsIn(Range(s))) <= Cardinality(Range(s))
    BY <1>1, RowsFinite
  <1>3. Cardinality(SymbolsIn(Eligibles)) <= Cardinality(SymbolsIn(Range(s)))
    BY <1>2, FS_Subset
  <1>4. Cardinality(SymbolsIn(Eligibles)) \in Nat
    BY RowsFinite
  <1> QED
    BY <1>1, <1>2, <1>3, <1>4

(* A pass that stops short of the minimum has considered every row.        *)
LEMMA NothingLeft ==
  ASSUME WellOffered, NEW s, NEW l, Positions(s, l), l = {} \/ Len(s) >= policy.max,
         Len(s) < policy.min, policy.min <= policy.max
  PROVE  l = {}
  <1>1. Len(s) \in Nat
    BY PositionsCounted
  <1>2. policy.min \in Nat /\ policy.max \in Nat
    BY OfferTyped
  <1> QED
    BY <1>1, <1>2

LEMMA StrictPassFails ==
  ASSUME WellOffered, NEW s, NEW l, Positions(s, l), StrictPass(s, l),
         l = {} \/ Len(s) >= policy.max, Len(s) < policy.min, policy.min <= policy.max
  PROVE  IF s = <<>> THEN \A i \in Eligibles : Rank(i) < -15
         ELSE /\ SymbolsIn(Eligibles) \subseteq SymbolsIn(Range(s))
              /\ Cardinality(SymbolsIn(Eligibles)) < policy.min
  <1>1. l = {}
    BY NothingLeft
  <1>2. Eligibles \ l = Eligibles
    BY <1>1
  <1>3. CASE s = <<>>
    BY <1>2, <1>3 DEF StrictPass
  <1>4. CASE s # <<>>
    <2>1. SymbolsIn(Eligibles) \subseteq SymbolsIn(Range(s))
      BY <1>2, <1>4 DEF StrictPass
    <2>2. Cardinality(SymbolsIn(Eligibles)) <= Len(s)
      BY <2>1, SymbolsCovered
    <2>3. /\ Cardinality(SymbolsIn(Eligibles)) \in Nat /\ Len(s) \in Nat
          /\ policy.min \in Nat
      BY RowsFinite, PositionsCounted, OfferTyped
    <2>4. Cardinality(SymbolsIn(Eligibles)) < policy.min
      BY <2>2, <2>3
    <2> QED
      BY <1>4, <2>1, <2>4
  <1> QED
    BY <1>3, <1>4

LEMMA StrictThenRelaxed ==
  ASSUME WellOffered, NEW s, NEW l, Positions(s, l), StrictPass(s, l),
         l = {} \/ Len(s) >= policy.max, policy.soft, Len(s) < policy.min
  PROVE  Positions(s, Eligibles) /\ RelaxedPass(s, Eligibles)
  <1>1. Positions(s, Eligibles)
    BY PositionsKept
  <1>2. policy.min <= policy.max =>
          IF s = <<>> THEN \A i \in Eligibles : Rank(i) < -15
          ELSE /\ SymbolsIn(Eligibles) \subseteq SymbolsIn(Range(s))
               /\ Cardinality(SymbolsIn(Eligibles)) < policy.min
    BY StrictPassFails
  <1>3. RelaxedPass(s, Eligibles)
    BY <1>2 DEF RelaxedPass
  <1> QED
    BY <1>1, <1>3

LEMMA StrictEnds ==
  ASSUME WellOffered, NEW s, NEW l, Positions(s, l), StrictPass(s, l),
         l = {} \/ Len(s) >= policy.max, ~ (policy.soft /\ Len(s) < policy.min)
  PROVE  AfterPasses(s)
  <1>1. /\ l \subseteq Eligibles /\ Range(s) \subseteq Eligibles
        /\ Cardinality(Range(s)) = Len(s) /\ Len(s) \in Nat
    BY PositionsCounted DEF Positions
  <1>2. policy.min \in Nat \ {0} /\ policy.max \in Nat \ {0} /\ policy.soft \in BOOLEAN
    BY OfferTyped
  <1>3. \A i, j \in Range(s) : offered[i].symbol = offered[j].symbol => i = j
    BY DEF StrictPass
  <1>4. CASE Len(s) >= policy.min
    <2>1. Fillable
      BY <1>3, <1>4, EnoughChosen
    <2>2. ~ (Cardinality(SymbolsIn(Range(s))) < Cardinality(Range(s)))
      <3>1. /\ Cardinality(SymbolsIn(Range(s))) = Cardinality(Range(s))
            /\ Cardinality(Range(s)) \in Nat
        BY <1>1, <1>3, RowsFinite
      <3> QED
        BY <3>1
    <2>3. NobodyBetter(s, Eligibles)
      <3> SUFFICES ASSUME Len(s) = policy.min, NEW i \in Eligibles \ Range(s),
                          NEW j \in Range(s), Rank(i) > Rank(j)
                   PROVE  offered[i].symbol \in SymbolsIn(Range(s))
        BY DEF NobodyBetter
      <3>1. i \notin l
        <4> SUFFICES ASSUME i \in l PROVE FALSE
          OBVIOUS
        <4>1. j \in Eligibles \ l
          BY <1>1 DEF StrictPass
        <4>2. Rank(j) >= Rank(i)
          BY <4>1 DEF StrictPass
        <4>3. i \in DOMAIN offered /\ j \in DOMAIN offered
          BY <4>1 DEF Eligibles
        <4>4. Rank(i) \in Int /\ Rank(j) \in Int
          BY <4>3, RankTyped
        <4> QED
          BY <4>2, <4>4
      <3> QED
        BY <3>1 DEF StrictPass, NobodyBetter
    <2> QED
      BY <1>4, <2>1, <2>2, <2>3 DEF AfterPasses
  <1>5. CASE ~ (Len(s) >= policy.min)
    <2>1. Len(s) < policy.min /\ ~ policy.soft
      BY <1>1, <1>2, <1>5
    <2>2. ~ Fillable
      <3> SUFFICES ASSUME Fillable PROVE FALSE
        OBVIOUS
      <3>1. /\ policy.min <= policy.max
            /\ Cardinality(SymbolsIn(Eligibles)) >= policy.min
            /\ \E i \in Eligibles : Rank(i) >= -15
        BY <2>1 DEF Fillable
      <3>2. IF s = <<>> THEN \A i \in Eligibles : Rank(i) < -15
            ELSE Cardinality(SymbolsIn(Eligibles)) < policy.min
        BY <2>1, <3>1, StrictPassFails
      <3>3. Cardinality(SymbolsIn(Eligibles)) \in Nat
        BY RowsFinite
      <3>4. \A i \in Eligibles : Rank(i) \in Int
        <4>1. \A i \in Eligibles : i \in DOMAIN offered
          BY DEF Eligibles
        <4> QED
          BY <4>1, RankTyped
      <3> QED
        BY <1>2, <3>1, <3>2, <3>3, <3>4
    <2> QED
      BY <1>5, <2>2 DEF AfterPasses
  <1> QED
    BY <1>4, <1>5

LEMMA RelaxedEnds ==
  ASSUME WellOffered, NEW s, NEW l, Positions(s, l), RelaxedPass(s, l),
         l = {} \/ Len(s) >= policy.max
  PROVE  AfterPasses(s)
  <1>1. /\ Range(s) \subseteq Eligibles /\ Cardinality(Range(s)) = Len(s) /\ Len(s) \in Nat
        /\ (s = <<>> <=> Len(s) = 0)
    BY PositionsCounted
  <1>2. policy.min \in Nat \ {0} /\ policy.max \in Nat \ {0}
    BY OfferTyped
  <1>3. policy.soft
    BY DEF RelaxedPass
  <1>4. CASE Len(s) >= policy.min
    <2>1. Fillable
      BY <1>3, <1>4, EnoughChosen
    <2>2. s # <<>> /\ policy.min <= policy.max
      BY <1>1, <1>2, <1>4 DEF Positions
    <2>3. /\ SymbolsIn(Eligibles) \subseteq SymbolsIn(Range(s))
          /\ Cardinality(SymbolsIn(Eligibles)) < policy.min
      BY <2>2 DEF RelaxedPass
    <2>4. NobodyBetter(s, Eligibles)
      BY <2>3 DEF NobodyBetter, SymbolsIn
    <2> QED
      BY <1>3, <1>4, <2>1, <2>3, <2>4 DEF AfterPasses
  <1>5. CASE ~ (Len(s) >= policy.min)
    <2>1. Len(s) < policy.min
      BY <1>1, <1>2, <1>5
    <2>2. ~ Fillable
      <3> SUFFICES ASSUME Fillable PROVE FALSE
        OBVIOUS
      <3>1. /\ policy.min <= policy.max
            /\ Cardinality(Eligibles) >= policy.min
            /\ \E i \in Eligibles : Rank(i) >= -15
        BY <1>3 DEF Fillable
      <3>2. Eligibles \ l = Eligibles
        BY <2>1, <3>1, NothingLeft
      <3>3. s # <<>>
        <4>1. PICK i \in Eligibles : Rank(i) >= -15
          BY <3>1
        <4>2. Rank(i) \in Int
          BY RankTyped DEF Eligibles
        <4>3. ~ (Rank(i) < -15)
          BY <4>1, <4>2
        <4> QED
          BY <3>1, <4>3 DEF RelaxedPass
      <3>4. Eligibles = Range(s)
        BY <1>1, <3>1, <3>2, <3>3 DEF RelaxedPass
      <3> QED
        BY <1>1, <1>2, <2>1, <3>1, <3>4
    <2> QED
      BY <1>5, <2>2 DEF AfterPasses
  <1> QED
    BY <1>4, <1>5

-----------------------------------------------------------------------------
(* Selection as a whole.  What it says of two sequences stays true as long *)
(* as the call is the same.                                                *)

SameCall == offered' = offered /\ policy' = policy

LEMMA SameRanks ==
  ASSUME SameCall
  PROVE  /\ Eligibles' = Eligibles /\ WellOffered' = WellOffered /\ Fillable' = Fillable
         /\ \A i : Rank(i)' = Rank(i)
  BY DEF SameCall, Eligibles, WellOffered, Fillable, Rank, SymbolsIn, IsEligible

LEMMA SamePasses ==
  ASSUME SameCall
  PROVE  /\ Positions(selected', left') = Positions(selected, left)'
         /\ StrictPass(selected', left') = StrictPass(selected, left)'
         /\ RelaxedPass(selected', left') = RelaxedPass(selected, left)'
         /\ AfterPasses(selected') = AfterPasses(selected)'
  <1>1. Eligibles' = Eligibles
    BY SameRanks
  <1>2. Positions(selected', left') = Positions(selected, left)'
    BY <1>1 DEF SameCall, Positions, Rank
  <1>3. StrictPass(selected', left') = StrictPass(selected, left)'
    BY <1>1 DEF SameCall, StrictPass, NobodyBetter, Rank, SymbolsIn
  <1>4. RelaxedPass(selected', left') = RelaxedPass(selected, left)'
    BY <1>1 DEF SameCall, RelaxedPass, Rank, SymbolsIn
  <1>5. AfterPasses(selected') = AfterPasses(selected)'
    BY <1>1, SameRanks DEF SameCall, AfterPasses, NobodyBetter, Rank, SymbolsIn
  <1> QED
    BY <1>2, <1>3, <1>4, <1>5

LEMMA SelectInit == OptimizerInit => SelectInv
  <1> SUFFICES ASSUME OptimizerInit PROVE SelectInv
    OBVIOUS
  <1>1. /\ WellOffered /\ pass = "strict" /\ left = Eligibles /\ selected = <<>>
    BY DEF OptimizerInit, WellOffered
  <1>2. <<>> \in Seq(Eligibles) /\ Len(<<>>) = 0 /\ DOMAIN <<>> = {} /\ Range(<<>>) = {}
    BY DEF Range
  <1>3. policy.min \in Nat \ {0} /\ policy.max \in Nat \ {0}
    BY <1>1, OfferTyped
  <1>4. Positions(<<>>, Eligibles)
    BY <1>2, <1>3 DEF Positions
  <1>5. StrictPass(<<>>, Eligibles)
    <2>1. NobodyBetter(<<>>, Eligibles \ Eligibles)
      BY <1>2, <1>3 DEF NobodyBetter
    <2> QED
      BY <1>2, <2>1 DEF StrictPass
  <1> QED
    BY <1>1, <1>4, <1>5 DEF SelectInv

(* A row is considered. *)
LEMMA SelectConsider ==
  ASSUME SelectInv, NEW i \in left, Consider(i)
  PROVE  SelectInv'
  <1>1. /\ pass \in {"strict", "relaxed"} /\ Len(selected) < policy.max /\ IsNext(i)
        /\ left' = left \ {i} /\ pass' = pass /\ SameCall
        /\ selected' = IF Verdict(i) = "accepted" THEN Append(selected, i) ELSE selected
    BY DEF Consider, SameCall
  <1>2. /\ WellOffered /\ Positions(selected, left)
        /\ pass = "strict" => StrictPass(selected, left)
        /\ pass = "relaxed" => RelaxedPass(selected, left)
    BY DEF SelectInv
  <1>3. left \subseteq Eligibles /\ selected \in Seq(Eligibles) /\ i \in DOMAIN offered
    BY <1>2 DEF Positions, Eligibles
  <1>4. \A j \in left : Rank(i) >= Rank(j)
    <2> SUFFICES ASSUME NEW j \in left PROVE Rank(i) >= Rank(j)
      OBVIOUS
    <2>1. Rank(i) \in Int /\ Rank(j) \in Int
      <3>1. j \in DOMAIN offered
        BY <1>3 DEF Eligibles
      <3> QED
        BY <1>2, <1>3, <3>1, RankTyped
    <2>2. j = i \/ Rank(i) > Rank(j) \/ Rank(i) = Rank(j)
      BY <1>1 DEF IsNext, Rank
    <2> QED
      BY <2>1, <2>2
  <1>5. /\ Verdict(i) = "accepted" =>
             /\ i \notin Range(selected)
             /\ pass = "strict" => offered[i].symbol \notin SymbolsIn(Range(selected))
             /\ selected = <<>> => Rank(i) >= -15
        /\ Verdict(i) # "accepted" =>
             \/ i \in Range(selected)
             \/ pass = "strict" /\ offered[i].symbol \in SymbolsIn(Range(selected))
             \/ pass = "strict" /\ Len(selected) >= policy.min
             \/ selected = <<>> /\ Rank(i) < -15
    BY <1>2, <1>3, VerdictSays DEF Chosen
  <1>6. CASE pass = "strict"
    <2>1. Positions(selected', left') /\ StrictPass(selected', left')
      <3>1. CASE Verdict(i) = "accepted"
        <4>1. /\ Positions(Append(selected, i), left \ {i})
              /\ StrictPass(Append(selected, i), left \ {i})
          BY <1>1, <1>2, <1>4, <1>5, <1>6, <3>1, StrictAccepts
        <4> QED
          BY <1>1, <3>1, <4>1
      <3>2. CASE Verdict(i) # "accepted"
        <4>1. Positions(selected, left \ {i}) /\ StrictPass(selected, left \ {i})
          BY <1>2, <1>4, <1>5, <1>6, <3>2, StrictRejects
        <4> QED
          BY <1>1, <3>2, <4>1
      <3> QED
        BY <3>1, <3>2
    <2>2. Positions(selected, left)' /\ StrictPass(selected, left)' /\ WellOffered'
      BY <1>1, <1>2, <2>1, SameRanks, SamePasses
    <2> QED
      BY <1>1, <1>6, <2>2 DEF SelectInv
  <1>7. CASE pass = "relaxed"
    <2>1. Positions(selected', left') /\ RelaxedPass(selected', left')
      <3>1. CASE Verdict(i) = "accepted"
        <4>1. /\ Positions(Append(selected, i), left \ {i})
              /\ RelaxedPass(Append(selected, i), left \ {i})
          BY <1>1, <1>2, <1>5, <1>7, <3>1, RelaxedAccepts
        <4> QED
          BY <1>1, <3>1, <4>1
      <3>2. CASE Verdict(i) # "accepted"
        <4>1. Positions(selected, left \ {i}) /\ RelaxedPass(selected, left \ {i})
          BY <1>2, <1>5, <1>7, <3>2, RelaxedRejects
        <4> QED
          BY <1>1, <3>2, <4>1
      <3> QED
        BY <3>1, <3>2
    <2>2. Positions(selected, left)' /\ RelaxedPass(selected, left)' /\ WellOffered'
      BY <1>1, <1>2, <2>1, SameRanks, SamePasses
    <2> QED
      BY <1>1, <1>7, <2>2 DEF SelectInv
  <1> QED
    BY <1>1, <1>6, <1>7

(* A pass ends. *)
LEMMA SelectEndOfPass ==
  ASSUME SelectInv, EndOfPass
  PROVE  SelectInv'
  <1>1. /\ pass \in {"strict", "relaxed"} /\ (left = {} \/ Len(selected) >= policy.max)
        /\ selected' = selected /\ SameCall
        /\ IF pass = "strict" /\ FillsUp THEN pass' = "relaxed" /\ left' = Eligibles
           ELSE pass' = "weigh" /\ left' = {}
    BY DEF EndOfPass, SameCall
  <1>2. /\ WellOffered /\ Positions(selected, left)
        /\ pass = "strict" => StrictPass(selected, left)
        /\ pass = "relaxed" => RelaxedPass(selected, left)
    BY DEF SelectInv
  <1>3. WellOffered'
    BY <1>1, <1>2, SameRanks
  <1>4. CASE pass = "strict" /\ FillsUp
    <2>1. Positions(selected, Eligibles) /\ RelaxedPass(selected, Eligibles)
      BY <1>1, <1>2, <1>4, StrictThenRelaxed DEF FillsUp
    <2>2. Positions(selected', left') /\ RelaxedPass(selected', left')
      BY <1>1, <1>4, <2>1
    <2>3. Positions(selected, left)' /\ RelaxedPass(selected, left)'
      BY <1>1, <2>2, SamePasses
    <2> QED
      BY <1>1, <1>3, <1>4, <2>3 DEF SelectInv
  <1>5. CASE ~ (pass = "strict" /\ FillsUp)
    <2>1. AfterPasses(selected)
      <3>3. pass = "strict" \/ pass = "relaxed"
        BY <1>1
      <3>1. CASE pass = "strict"
        BY <1>1, <1>2, <1>5, <3>1, StrictEnds DEF FillsUp
      <3>2. CASE pass = "relaxed"
        BY <1>1, <1>2, <3>2, RelaxedEnds
      <3> QED
        BY <3>1, <3>2, <3>3
    <2>2. Positions(selected, {})
      BY <1>2, PositionsKept
    <2>3. Positions(selected', left') /\ AfterPasses(selected')
      BY <1>1, <1>5, <2>1, <2>2
    <2>4. Positions(selected, left)' /\ AfterPasses(selected)'
      BY <1>1, <2>3, SamePasses
    <2> QED
      BY <1>1, <1>3, <1>5, <2>4 DEF SelectInv
  <1> QED
    BY <1>4, <1>5

(* An undersized basket is dropped: there was nothing to fill it with.     *)
LEMMA SelectNormalize ==
  ASSUME SelectInv, Normalize
  PROVE  SelectInv'
  <1>1. /\ pass = "weigh" /\ SameCall /\ left' = left
        /\ IF Len(selected) < policy.min THEN pass' = "done" /\ selected' = <<>>
           ELSE pass' = "clip" /\ selected' = selected
    BY DEF Normalize, SameCall
  <1>2. /\ WellOffered /\ Positions(selected, left) /\ AfterPasses(selected)
    BY <1>1 DEF SelectInv
  <1>3. WellOffered'
    BY <1>1, <1>2, SameRanks
  <1>4. Len(selected) \in Nat /\ policy.min \in Nat \ {0} /\ policy.max \in Nat
    BY <1>2, PositionsCounted, OfferTyped
  <1>5. CASE Len(selected) < policy.min
    <2>1. <<>> \in Seq(Eligibles) /\ Len(<<>>) = 0 /\ DOMAIN <<>> = {}
      OBVIOUS
    <2>2. ~ Fillable
      BY <1>2, <1>4, <1>5 DEF AfterPasses
    <2>3. Positions(<<>>, left) /\ AfterPasses(<<>>)
      BY <1>2, <1>4, <2>1, <2>2 DEF Positions, AfterPasses
    <2>4. Positions(selected, left)' /\ AfterPasses(selected)'
      BY <1>1, <1>5, <2>3, SamePasses
    <2> QED
      BY <1>1, <1>3, <1>5, <2>4 DEF SelectInv
  <1>6. CASE ~ (Len(selected) < policy.min)
    <2>1. Positions(selected, left)' /\ AfterPasses(selected)'
      BY <1>1, <1>2, <1>6, SamePasses
    <2>2. (Len(selected) >= policy.min)'
      BY <1>1, <1>4, <1>6 DEF SameCall
    <2> QED
      BY <1>1, <1>3, <1>6, <2>1, <2>2 DEF SelectInv
  <1> QED
    BY <1>5, <1>6

LEMMA SelectNext == SelectInv /\ [OptimizerNext]_optimizerVars => SelectInv'
  <1> SUFFICES ASSUME SelectInv, [OptimizerNext]_optimizerVars PROVE SelectInv'
    OBVIOUS
  <1>1. CASE \E i \in left : Consider(i)
    BY <1>1, SelectConsider
  <1>2. CASE EndOfPass
    BY <1>2, SelectEndOfPass
  <1>3. CASE Normalize
    BY <1>3, SelectNormalize
  <1>4. ASSUME SameCall, selected' = selected, left' = left,
               pass' = pass \/ (pass = "clip" /\ pass' = "done")
        PROVE  SelectInv'
    <2>1. WellOffered' = WellOffered
      BY <1>4, SameRanks
    <2>2. /\ Positions(selected, left)' = Positions(selected, left)
          /\ StrictPass(selected, left)' = StrictPass(selected, left)
          /\ RelaxedPass(selected, left)' = RelaxedPass(selected, left)
          /\ AfterPasses(selected)' = AfterPasses(selected)
      BY <1>4, SamePasses
    <2> QED
      BY <1>4, <2>1, <2>2 DEF SelectInv, SameCall
  <1>5. CASE Redistribute
    BY <1>4, <1>5 DEF Redistribute, SameCall
  <1>6. CASE UNCHANGED optimizerVars
    BY <1>4, <1>6 DEF optimizerVars, SameCall
  <1> QED
    BY <1>1, <1>2, <1>3, <1>5, <1>6 DEF OptimizerNext

-----------------------------------------------------------------------------
(* The caps. *)

LEMMA MinBelow ==
  ASSUME NEW a \in Int, NEW b \in Int, NEW c \in Int
  PROVE  /\ Min({a, b, c}) \in {a, b, c}
         /\ Min({a, b, c}) <= a /\ Min({a, b, c}) <= b /\ Min({a, b, c}) <= c
  BY DEF Min

LEMMA ShareOf ==
  ASSUME NEW b \in Nat, NEW m \in 0 .. 100
  PROVE  (b * m) \div 100 \in Nat /\ (b * m) \div 100 <= b
  <1>1. m \in Nat /\ m <= 100
    OBVIOUS
  <1>2. b * m \in Nat /\ b * m <= 100 * b
    BY <1>1
  <1> DEFINE p == b * m
  <1> HIDE DEF p
  <1>3. p \in Nat /\ p <= 100 * b
    BY <1>2 DEF p
  <1>4. p \div 100 \in Nat /\ p \div 100 <= b
    BY <1>3
  <1> QED
    BY <1>4 DEF p

LEMMA AlikeFinite ==
  ASSUME NEW V, selected \in Seq(V), NEW i \in Chosen, NEW a
  PROVE  /\ IsFiniteSet(Chosen) /\ IsFiniteSet(AlikeIn(i, a)) /\ i \in AlikeIn(i, a)
         /\ AlikeIn(i, a) \subseteq Chosen /\ Cardinality(AlikeIn(i, a)) \in Nat \ {0}
  <1>1. IsFiniteSet(Chosen)
    BY RangeIsShort DEF Chosen
  <1>2. AlikeIn(i, a) \subseteq Chosen /\ i \in AlikeIn(i, a)
    BY DEF AlikeIn
  <1>3. IsFiniteSet(AlikeIn(i, a))
    BY <1>1, <1>2, FS_Subset
  <1>4. Cardinality(AlikeIn(i, a)) \in Nat \ {0}
    <2>1. Cardinality(AlikeIn(i, a)) \in Nat
      BY <1>3, FS_CardinalityType
    <2>2. Cardinality(AlikeIn(i, a)) # 0
      BY <1>2, <1>3, FS_EmptySet
    <2> QED
      BY <2>1, <2>2
  <1> QED
    BY <1>1, <1>2, <1>3, <1>4

(* Up to three share what a symbol or a family may have; the floor of 18   *)
(* percent is above an even share only from the fourth on.                 *)
LEMMA CapTyped ==
  ASSUME WellOffered, selected \in Seq(Eligibles), NEW i \in Chosen
  PROVE  /\ AllocationCap(i) \in Nat /\ AllocationCap(i) <= 4000
         /\ Cardinality(AlikeIn(i, "symbol")) <= 3 =>
              AllocationCap(i) * Cardinality(AlikeIn(i, "symbol")) <= 7000
         /\ Cardinality(AlikeIn(i, "family")) <= 3 =>
              AllocationCap(i) * Cardinality(AlikeIn(i, "family")) <= 6500
  <1>1. PICK k \in Nat \ {0}, n \in Nat \ {0} :
          k = Cardinality(AlikeIn(i, "symbol")) /\ n = Cardinality(AlikeIn(i, "family"))
    BY AlikeFinite
  <1>2. offered[i].multiplier \in 0 .. 100
    <2>1. i \in DOMAIN offered
      BY RangeSays DEF Chosen, Eligibles
    <2> QED
      BY <2>1, OfferTyped
  <1>3. PICK low \in Int, top \in Int, a \in Int, c \in Int :
          low = 1800 /\ top = 4000 /\ a = 7000 \div k /\ c = 6500 \div n
    OBVIOUS
  <1>4. PICK b \in Nat : /\ b = Max({low, Min({top, a, c})})
                         /\ b <= 4000 /\ (k <= 3 => b * k <= 7000) /\ (n <= 3 => b * n <= 6500)
    <2>1. (k = 2 => a <= 3500) /\ (k = 3 => a <= 2333)
      BY <1>3
    <2>2. (n = 2 => c <= 3250) /\ (n = 3 => c <= 2166)
      BY <1>3
    <2>3. low = 1800 /\ top = 4000
      BY <1>3
    <2>4. /\ Min({top, a, c}) \in {top, a, c}
          /\ Min({top, a, c}) <= top /\ Min({top, a, c}) <= a /\ Min({top, a, c}) <= c
      BY MinBelow
    <2>5. PICK m \in Int : m = Min({top, a, c})
      BY <2>4
    <2>6. m <= 4000 /\ m <= a /\ m <= c
      BY <2>3, <2>4, <2>5
    <2>7. Max({low, m}) \in {low, m} /\ Max({low, m}) >= low
      BY MaxOfTwo
    <2>8. PICK b \in Int : b = Max({low, m})
      BY <2>7
    <2>9. b \in {low, m} /\ b >= 1800
      BY <2>3, <2>7, <2>8
    <2>10. b \in Nat /\ b <= 4000
      BY <2>3, <2>6, <2>9
    <2>11. k <= 3 => b * k <= 7000
      <3>1. CASE k = 1
        BY <2>10, <3>1
      <3>2. CASE k = 2
        BY <2>1, <2>3, <2>6, <2>9, <3>2
      <3>3. CASE k = 3
        BY <2>1, <2>3, <2>6, <2>9, <3>3
      <3> QED
        BY <3>1, <3>2, <3>3
    <2>12. n <= 3 => b * n <= 6500
      <3>1. CASE n = 1
        BY <2>10, <3>1
      <3>2. CASE n = 2
        BY <2>2, <2>3, <2>6, <2>9, <3>2
      <3>3. CASE n = 3
        BY <2>2, <2>3, <2>6, <2>9, <3>3
      <3> QED
        BY <3>1, <3>2, <3>3
    <2> QED
      BY <2>5, <2>8, <2>10, <2>11, <2>12
  <1>5. AllocationCap(i) = (b * offered[i].multiplier) \div 100
    <2>1. /\ a = 7000 \div Cardinality(AlikeIn(i, "symbol"))
          /\ c = 6500 \div Cardinality(AlikeIn(i, "family"))
          /\ low = 1800 /\ top = 4000 /\ b = Max({low, Min({top, a, c})})
      BY <1>1, <1>3, <1>4
    <2> QED
      BY ONLY <2>1 DEF AllocationCap
  <1>6. AllocationCap(i) \in Nat /\ AllocationCap(i) <= b
    BY <1>2, <1>5, ShareOf
  <1>7. PICK cap \in Nat : cap = AllocationCap(i) /\ cap <= b
    BY <1>6
  <1>8. (k <= 3 => cap * k <= 7000) /\ (n <= 3 => cap * n <= 6500)
    <2>1. cap * k <= b * k /\ cap * n <= b * n
      BY <1>7
    <2>2. cap * k \in Nat /\ b * k \in Nat /\ cap * n \in Nat /\ b * n \in Nat
      OBVIOUS
    <2> QED
      BY <1>4, <2>1, <2>2
  <1>9. cap <= 4000
    BY <1>4, <1>7
  <1> QED
    BY <1>1, <1>6, <1>7, <1>8, <1>9

-----------------------------------------------------------------------------
(* The weights. *)

LEMMA SharedLimit ==
  ASSUME NEW S, IsFiniteSet(S), NEW w, NEW total \in Nat, Cardinality(S) \in Nat \ {0},
         \A j \in S : w[j] \in Nat /\ w[j] * Cardinality(S) <= total
  PROVE  SumFunctionOnSet(w, S) <= total
  <1>1. PICK c \in Nat \ {0} : c = Cardinality(S)
    OBVIOUS
  <1>2. PICK h : h = [j \in S |-> c * w[j]]
    OBVIOUS
  <1>3. \A j \in S : h[j] \in Int /\ h[j] <= total /\ h[j] = c * w[j]
    <2> SUFFICES ASSUME NEW j \in S PROVE h[j] \in Int /\ h[j] <= total /\ h[j] = c * w[j]
      OBVIOUS
    <2>1. PICK x \in Nat : x = w[j]
      OBVIOUS
    <2>2. c * x = x * c /\ c * x \in Int
      OBVIOUS
    <2>3. h[j] = c * x /\ x * c <= total
      BY <1>1, <1>2, <2>1
    <2> QED
      BY <2>1, <2>2, <2>3
  <1>4. \A j \in S : w[j] \in Int
    OBVIOUS
  <1>5. SumFunctionOnSet(h, S) = c * SumFunctionOnSet(w, S)
    <2>1. c \in Int
      OBVIOUS
    <2> QED
      BY <1>3, <1>4, <2>1, SumScaled
  <1>6. SumFunctionOnSet(h, S) <= total * c
    <2>1. total \in Int /\ \A j \in S : h[j] \in Int /\ h[j] <= total
      BY <1>3
    <2> QED
      BY <1>1, <2>1, SumAtMost
  <1>7. PICK sum \in Nat : sum = SumFunctionOnSet(w, S)
    BY SumNat
  <1>8. c * sum <= total * c
    BY <1>5, <1>6, <1>7
  <1> QED
    BY <1>7, <1>8, ProductReflects

(* Weights under their caps are within the limits of symbols and families. *)
LEMMA AlikeLimited ==
  ASSUME WellOffered, selected \in Seq(Eligibles), NEW w,
         \A i \in Chosen : w[i] \in Nat /\ w[i] <= AllocationCap(i),
         NEW i \in Chosen
  PROVE  /\ Cardinality(AlikeIn(i, "symbol")) <= 3 =>
              SumFunctionOnSet(w, AlikeIn(i, "symbol")) <= 7000
         /\ Cardinality(AlikeIn(i, "family")) <= 3 =>
              SumFunctionOnSet(w, AlikeIn(i, "family")) <= 6500
  <1>1. ASSUME NEW a, NEW total \in Nat,
               \A j \in Chosen : Cardinality(AlikeIn(j, a)) <= 3 =>
                  AllocationCap(j) * Cardinality(AlikeIn(j, a)) <= total,
               Cardinality(AlikeIn(i, a)) <= 3
        PROVE  SumFunctionOnSet(w, AlikeIn(i, a)) <= total
    <2> DEFINE S == AlikeIn(i, a)
    <2>1. PICK c \in Nat \ {0} : /\ c = Cardinality(S)
                                /\ IsFiniteSet(S) /\ S \subseteq Chosen
      BY AlikeFinite
    <2>2. ASSUME NEW j \in S PROVE w[j] \in Nat /\ w[j] * c <= total
      <3>1. AlikeIn(j, a) = S
        BY <2>1 DEF AlikeIn
      <3>2. PICK x \in Nat, y \in Nat : x = w[j] /\ y = AllocationCap(j) /\ x <= y
        BY <2>1, <2>2, CapTyped
      <3>3. y * c <= total
        BY <1>1, <2>1, <2>2, <3>1, <3>2
      <3>4. x * c <= y * c /\ x * c \in Nat /\ y * c \in Nat
        BY <3>2
      <3>5. x * c <= total
        BY <3>3, <3>4
      <3> QED
        BY <3>2, <3>5
    <2> QED
      BY <2>1, <2>2, SharedLimit
  <1>2. \A j \in Chosen :
          /\ Cardinality(AlikeIn(j, "symbol")) <= 3 =>
               AllocationCap(j) * Cardinality(AlikeIn(j, "symbol")) <= 7000
          /\ Cardinality(AlikeIn(j, "family")) <= 3 =>
               AllocationCap(j) * Cardinality(AlikeIn(j, "family")) <= 6500
    BY CapTyped
  <1>3. 7000 \in Nat /\ 6500 \in Nat
    OBVIOUS
  <1>4. Cardinality(AlikeIn(i, "symbol")) <= 3 => SumFunctionOnSet(w, AlikeIn(i, "symbol")) <= 7000
    BY <1>1, <1>2, <1>3
  <1>5. Cardinality(AlikeIn(i, "family")) <= 3 => SumFunctionOnSet(w, AlikeIn(i, "family")) <= 6500
    BY <1>1, <1>2, <1>3
  <1> QED
    BY <1>4, <1>5

Total(w) == SumFunctionOnSet(w, Chosen)

Caps == [i \in Chosen |-> AllocationCap(i)]

FewChosen == \A i \in Chosen : Cardinality(AlikeIn(i, "family")) <= 3

(* As the scores come out, but for what rounding takes.                    *)
Raw(w) == 10000 - Cardinality(Chosen) <= Total(w) /\ Total(w) <= 10000

(* Under the caps; all of the capital, or all that the caps let through.   *)
Settled(w) ==
  /\ \A i \in Chosen : w[i] <= AllocationCap(i)
  /\ Total(w) <= 10000
  /\ 10000 - 2 * Cardinality(Chosen) <= Total(w) \/ Total(w) = Total(Caps)

(* One round of clipping, whatever the rounds before it left.              *)
LEMMA RoundOfClipping ==
  ASSUME WellOffered, selected \in Seq(Eligibles), \A i \in Chosen : weights[i] \in Nat,
         Redistribute
  PROVE  /\ weights' \in [Chosen -> Nat]
         /\ \A i \in Chosen : weights'[i] <= AllocationCap(i)
         /\ FewChosen /\ (Raw(weights) \/ Settled(weights)) => Settled(weights')
  <1> DEFINE families   == {offered[i].family : i \in Chosen}
             members(f) == {i \in Chosen : offered[i].family = f}
             Sum(u)     == SumFunctionOnSet(u, Chosen)
             w          == weights
             caps       == [i \in Chosen |-> AllocationCap(i)]
             clipped    == [i \in Chosen |-> Min({weights[i], AllocationCap(i)})]
             overflow   == [f \in families |->
                              Max({0, SumFunctionOnSet(clipped, members(f)) - 6500})]
             over       == SumFunctionOnSet(overflow, families)
             part       == [i \in Chosen |-> overflow[offered[i].family]
                                             \div Cardinality(members(offered[i].family))]
             reduced    == [i \in Chosen |-> Max({0, clipped[i] - part[i]})]
             room       == [i \in Chosen |-> AllocationCap(i) - clipped[i] + part[i]]
             excess     == Sum(w) - Sum(clipped) + over
             roomTotal  == Sum(caps) - Sum(clipped) + over
             next       == [i \in Chosen |->
                              IF excess = 0 \/ roomTotal = 0 THEN reduced[i]
                              ELSE Min({AllocationCap(i),
                                        reduced[i] + (excess * room[i]) \div roomTotal})]
  <1> HIDE DEF families, members, Sum, w, caps, clipped, overflow, over, part, reduced, room, excess,
               roomTotal, next
  <1>0. weights' = next
    BY DEF Redistribute, families, members, Sum, w, caps, clipped, overflow, over, part, reduced,
           room, excess, roomTotal, next
  <1>1. IsFiniteSet(Chosen) /\ Cardinality(Chosen) \in Nat
    BY RangeIsShort, FS_CardinalityType DEF Chosen
  <1>2. caps = Caps /\ \A i \in Chosen : caps[i] = AllocationCap(i)
    BY DEF caps, Caps
  <1>5. \A i \in Chosen : w[i] \in Nat
    BY DEF w
  <1>6. \A i \in Chosen : clipped[i] = Min({w[i], caps[i]})
    BY DEF clipped, w, caps
  <1>8. \A f \in families : overflow[f] = Max({0, SumFunctionOnSet(clipped, members(f)) - 6500})
    BY DEF overflow
  <1>10. IsFiniteSet(families)
    <2>1. [i \in Chosen |-> offered[i].family] \in Surjection(Chosen, families)
      BY DEF Surjection, families
    <2> QED
      BY <1>1, <2>1, FS_Surjection
  <1>40. \A i \in Chosen : /\ members(offered[i].family) = AlikeIn(i, "family")
                           /\ offered[i].family \in families
    BY DEF AlikeIn, members, families
  <1>41. \A f \in families : \E i \in Chosen : f = offered[i].family
    BY DEF families
  <1>13. \A i \in Chosen : part[i] = overflow[offered[i].family]
                                       \div Cardinality(members(offered[i].family))
    BY DEF part
  <1>15. \A i \in Chosen : reduced[i] = Max({0, clipped[i] - part[i]})
    BY DEF reduced
  <1>17. \A i \in Chosen : room[i] = caps[i] - clipped[i] + part[i]
    BY DEF room, caps
  <1>22. \A i \in Chosen :
           /\ excess = 0 \/ roomTotal = 0 => next[i] = reduced[i]
           /\ ~ (excess = 0 \/ roomTotal = 0) =>
                next[i] = Min({caps[i], reduced[i] + (excess * room[i]) \div roomTotal})
    <2> SUFFICES ASSUME NEW i \in Chosen
                 PROVE  /\ excess = 0 \/ roomTotal = 0 => next[i] = reduced[i]
                        /\ ~ (excess = 0 \/ roomTotal = 0) =>
                             next[i] = Min({caps[i],
                                            reduced[i] + (excess * room[i]) \div roomTotal})
      OBVIOUS
    <2>1. caps[i] = AllocationCap(i)
      BY <1>2
    <2> QED
      BY ONLY <2>1, i \in Chosen, Zenon DEF next
  <1>23. DOMAIN next = Chosen
    BY DEF next
  <1>3. \A i \in Chosen : caps[i] \in Nat /\ caps[i] <= 4000 /\ caps[i] = AllocationCap(i)
    BY <1>2, CapTyped
  <1>7. \A i \in Chosen : /\ clipped[i] \in Nat /\ clipped[i] \in {w[i], caps[i]}
                          /\ clipped[i] <= w[i] /\ clipped[i] <= caps[i]
    <2> SUFFICES ASSUME NEW i \in Chosen
                 PROVE  /\ clipped[i] \in Nat /\ clipped[i] \in {w[i], caps[i]}
                        /\ clipped[i] <= w[i] /\ clipped[i] <= caps[i]
      OBVIOUS
    <2>1. w[i] \in Int /\ caps[i] \in Int /\ w[i] \in Nat /\ caps[i] \in Nat
      BY <1>3, <1>5
    <2>2. /\ Min({w[i], caps[i]}) \in {w[i], caps[i]}
          /\ Min({w[i], caps[i]}) <= w[i] /\ Min({w[i], caps[i]}) <= caps[i]
      BY ONLY <2>1, MinOfTwo
    <2>3. clipped[i] = Min({w[i], caps[i]})
      BY <1>6
    <2>4. PICK m : m = Min({w[i], caps[i]})
      OBVIOUS
    <2> QED
      BY <2>1, <2>2, <2>3, <2>4
  <1>9. \A f \in families : overflow[f] \in Nat /\ (FewChosen => overflow[f] = 0)
    <2> SUFFICES ASSUME NEW f \in families
                 PROVE  overflow[f] \in Nat /\ (FewChosen => overflow[f] = 0)
      OBVIOUS
    <2>1. PICK i \in Chosen : f = offered[i].family
      BY <1>41
    <2>2. members(f) = AlikeIn(i, "family")
      BY <1>40, <2>1
    <2>3. IsFiniteSet(AlikeIn(i, "family")) /\ AlikeIn(i, "family") \subseteq Chosen
      BY AlikeFinite
    <2>4. PICK sum \in Nat : sum = SumFunctionOnSet(clipped, AlikeIn(i, "family"))
      BY <1>7, <2>3, SumNat
    <2>5. FewChosen => sum <= 6500
      <3>1. \A j \in Chosen : clipped[j] \in Nat /\ clipped[j] <= AllocationCap(j)
        BY <1>3, <1>7
      <3>2. Cardinality(AlikeIn(i, "family")) <= 3 =>
              SumFunctionOnSet(clipped, AlikeIn(i, "family")) <= 6500
        BY <3>1, AlikeLimited
      <3> QED
        BY <2>4, <3>2 DEF FewChosen
    <2>6. PICK d \in Int : d = sum - 6500
      OBVIOUS
    <2>7. Max({0, d}) \in {0, d} /\ Max({0, d}) >= 0 /\ Max({0, d}) >= d
      <3>1. 0 \in Int /\ d \in Int
        OBVIOUS
      <3> QED
        BY ONLY <3>1, MaxOfTwo
    <2>8. overflow[f] = Max({0, d})
      BY <1>8, <2>2, <2>4, <2>6
    <2> QED
      BY <2>5, <2>6, <2>7, <2>8
  <1>11. over \in Nat
    BY <1>9, <1>10, SumNat DEF over
  <1>12. FewChosen => over = 0
    BY <1>9, <1>10, SumOfNothing DEF over
  <1>14. \A i \in Chosen : part[i] \in Nat /\ (FewChosen => part[i] = 0)
    <2> SUFFICES ASSUME NEW i \in Chosen PROVE part[i] \in Nat /\ (FewChosen => part[i] = 0)
      OBVIOUS
    <2>1. members(offered[i].family) = AlikeIn(i, "family") /\ offered[i].family \in families
      BY <1>40
    <2>2. PICK c \in Nat \ {0} : c = Cardinality(AlikeIn(i, "family"))
      BY AlikeFinite
    <2>3. PICK x \in Nat : x = overflow[offered[i].family] /\ (FewChosen => x = 0)
      BY <1>9, <2>1
    <2>4. part[i] = x \div c
      BY <1>13, <2>1, <2>2, <2>3
    <2>5. x \div c \in Nat /\ (x = 0 => x \div c = 0)
      OBVIOUS
    <2> QED
      BY <2>3, <2>4, <2>5
  <1>16. \A i \in Chosen : /\ reduced[i] \in Nat /\ reduced[i] <= clipped[i]
                           /\ FewChosen => reduced[i] = clipped[i]
    <2> SUFFICES ASSUME NEW i \in Chosen
                 PROVE  /\ reduced[i] \in Nat /\ reduced[i] <= clipped[i]
                        /\ FewChosen => reduced[i] = clipped[i]
      OBVIOUS
    <2>1. PICK a \in Nat, b \in Nat : a = clipped[i] /\ b = part[i] /\ (FewChosen => b = 0)
      BY <1>7, <1>14
    <2>2. PICK d \in Int : d = a - b
      OBVIOUS
    <2>3. Max({0, d}) \in {0, d} /\ Max({0, d}) >= 0 /\ Max({0, d}) >= d
      <3>1. 0 \in Int /\ d \in Int
        OBVIOUS
      <3> QED
        BY ONLY <3>1, MaxOfTwo
    <2>4. reduced[i] = Max({0, d})
      BY <1>15, <2>1, <2>2
    <2> QED
      BY <2>1, <2>2, <2>3, <2>4
  <1>18. \A i \in Chosen : /\ room[i] \in Nat
                           /\ FewChosen => room[i] + clipped[i] = caps[i]
    <2> SUFFICES ASSUME NEW i \in Chosen
                 PROVE  /\ room[i] \in Nat
                        /\ FewChosen => room[i] + clipped[i] = caps[i]
      OBVIOUS
    <2>1. PICK a \in Nat, b \in Nat, c \in Nat :
            /\ a = clipped[i] /\ b = part[i] /\ c = caps[i] /\ a <= c
            /\ FewChosen => b = 0
      BY <1>3, <1>7, <1>14
    <2>2. room[i] = c - a + b
      BY <1>17, <2>1
    <2> QED
      BY <2>1, <2>2
  <1>19. PICK sumW \in Nat, sumClipped \in Nat, sumCaps \in Nat :
           sumW = Sum(w) /\ sumClipped = Sum(clipped) /\ sumCaps = Sum(caps)
    <2>1. Sum(w) \in Nat /\ Sum(clipped) \in Nat /\ Sum(caps) \in Nat
      BY <1>1, <1>3, <1>5, <1>7, SumNat DEF Sum
    <2> QED
      BY <2>1
  <1>20. sumClipped <= sumW /\ sumClipped <= sumCaps
    <2>1. /\ \A i \in Chosen : clipped[i] \in Int /\ w[i] \in Int /\ clipped[i] <= w[i]
          /\ \A i \in Chosen : clipped[i] \in Int /\ caps[i] \in Int /\ clipped[i] <= caps[i]
      BY <1>3, <1>5, <1>7
    <2> QED
      BY <1>1, <1>19, <2>1, SumBounds DEF Sum
  <1>21. /\ excess \in Nat /\ roomTotal \in Nat
         /\ excess = sumW - sumClipped + over /\ roomTotal = sumCaps - sumClipped + over
    <2>1. excess = sumW - sumClipped + over /\ roomTotal = sumCaps - sumClipped + over
      BY <1>19 DEF excess, roomTotal
    <2>2. over \in Nat
      BY <1>11
    <2> QED
      BY <1>20, <2>1, <2>2
  <1>24. \A i \in Chosen : next[i] \in Nat /\ next[i] <= caps[i]
    <2> SUFFICES ASSUME NEW i \in Chosen PROVE next[i] \in Nat /\ next[i] <= caps[i]
      OBVIOUS
    <2>1. CASE excess = 0 \/ roomTotal = 0
      <3>1. next[i] = reduced[i]
        BY <1>22, <2>1
      <3> QED
        BY <1>3, <1>7, <1>16, <3>1
    <2>2. CASE ~ (excess = 0 \/ roomTotal = 0)
      <3>1. PICK r \in Nat, a \in Nat, c \in Nat : r = room[i] /\ a = reduced[i] /\ c = caps[i]
        BY <1>3, <1>16, <1>18
      <3>2. excess * r \in Nat /\ roomTotal \in Nat \ {0}
        BY <1>21, <2>2, ProductNat
      <3>3. PICK q \in Nat : q = (excess * r) \div roomTotal
        BY <3>2, DivisionBelow
      <3>4. PICK b \in Nat : b = a + q
        OBVIOUS
      <3>5. next[i] = Min({c, b})
        BY <1>22, <2>2, <3>1, <3>3, <3>4
      <3>6. Min({c, b}) \in {c, b} /\ Min({c, b}) <= c
        <4>1. c \in Int /\ b \in Int
          OBVIOUS
        <4> QED
          BY ONLY <4>1, MinOfTwo
      <3> QED
        BY <3>1, <3>5, <3>6
    <2> QED
      BY <2>1, <2>2
  <1>25. PICK sumNext \in Nat : sumNext = Sum(next)
    <2>1. Sum(next) \in Nat
      BY <1>1, <1>24, SumNat DEF Sum
    <2> QED
      BY <2>1
  <1>26. ASSUME FewChosen, Raw(w) \/ Settled(w)
         PROVE  Settled(next)
    <2>1. /\ over = 0 /\ \A i \in Chosen : reduced[i] = clipped[i]
          /\ \A i \in Chosen : room[i] + clipped[i] = caps[i]
      BY <1>12, <1>16, <1>18, <1>26
    <2>2. PICK n \in Nat : n = Cardinality(Chosen)
      BY <1>1
    <2>3. Total(w) = sumW /\ Total(next) = sumNext /\ Total(Caps) = sumCaps
      BY <1>2, <1>19, <1>25 DEF Total, Sum
    <2>4. /\ sumW <= 10000
          /\ \/ 10000 - n <= sumW
             \/ (10000 - 2 * n <= sumW \/ sumW = sumCaps) /\ (\A i \in Chosen : w[i] <= caps[i])
      BY <1>3, <1>26, <2>2, <2>3 DEF Raw, Settled
    <2>5. (\A i \in Chosen : w[i] <= caps[i]) => excess = 0
      <3> SUFFICES ASSUME \A i \in Chosen : w[i] <= caps[i] PROVE excess = 0
        OBVIOUS
      <3>1. \A i \in Chosen : w[i] \in Int /\ w[i] = clipped[i]
        BY <1>3, <1>5, <1>7
      <3>2. Sum(w) = Sum(clipped)
        BY <1>1, <3>1, SumSame DEF Sum
      <3> QED
        BY <1>19, <1>21, <2>1, <3>2
    <2>6. /\ sumNext <= 10000
          /\ 10000 - 2 * n <= sumNext \/ sumNext = sumCaps
      <3>1. CASE excess = 0 \/ roomTotal = 0
        <4>1. \A i \in Chosen : next[i] \in Int /\ next[i] = clipped[i]
          <5> SUFFICES ASSUME NEW i \in Chosen PROVE next[i] \in Int /\ next[i] = clipped[i]
            OBVIOUS
          <5>1. next[i] = reduced[i]
            BY <1>22, <3>1
          <5>2. reduced[i] = clipped[i] /\ clipped[i] \in Int
            BY <1>7, <2>1
          <5> QED
            BY <5>1, <5>2
        <4>2. sumNext = sumClipped
          BY <1>1, <1>19, <1>25, <4>1, SumSame DEF Sum
        <4>3. CASE excess = 0
          BY <1>21, <2>1, <2>4, <4>2, <4>3
        <4>4. CASE roomTotal = 0
          <5>1. over = 0 /\ sumW <= 10000
            BY <2>1, <2>4
          <5>2. sumNext = sumCaps /\ sumNext <= sumW
            BY <1>20, <1>21, <4>2, <4>4, <5>1
          <5> QED
            BY <5>1, <5>2
        <4> QED
          BY <3>1, <4>3, <4>4
      <3>2. CASE excess # 0 /\ roomTotal # 0 /\ roomTotal <= excess
        <4>1. \A i \in Chosen : next[i] \in Int /\ next[i] = caps[i]
          <5> SUFFICES ASSUME NEW i \in Chosen PROVE next[i] \in Int /\ next[i] = caps[i]
            OBVIOUS
          <5>1. PICK r \in Nat, a \in Nat, c \in Nat :
                  r = room[i] /\ a = reduced[i] /\ c = caps[i] /\ r + a = c
            BY <1>3, <1>16, <1>18, <2>1
          <5>2. PICK t \in Nat \ {0}, e \in Nat : t = roomTotal /\ e = excess /\ t <= e
            BY <1>21, <3>2
          <5>3. PICK x \in Nat : x = e * r /\ t * r <= x
            <6>1. e * r \in Nat
              BY ProductNat
            <6>2. t * r <= e * r
              <7>1. r * t \in Int /\ r * e \in Int /\ r * t <= r * e
                BY <5>2, ProductGrows
              <7>2. r * t = t * r /\ r * e = e * r
                OBVIOUS
              <7> QED
                BY <7>1, <7>2
            <6> QED
              BY <6>1, <6>2
          <5>4. PICK q \in Nat : q = x \div t /\ r <= q
            <6>1. PICK q \in Nat : q = x \div t /\ x < t * q + t
              BY DivisionBounds
            <6>3. t * r <= x /\ x < t * q + t
              BY <5>3, <6>1
            <6>4. r <= q
              <7> SUFFICES ASSUME q < r PROVE FALSE
                OBVIOUS
              <7>1. q + 1 <= r
                OBVIOUS
              <7>2. t * (q + 1) <= t * r
                BY <7>1
              <7>3. t * (q + 1) = t * q + t
                OBVIOUS
              <7>4. t * q \in Nat /\ t * r \in Nat
                OBVIOUS
              <7> QED
                BY <6>3, <7>2, <7>3, <7>4
            <6> QED
              BY <6>1, <6>4
          <5>5. PICK b \in Nat : b = a + q /\ c <= b
            BY <5>1, <5>4
          <5>6. next[i] = Min({c, b})
            BY <1>22, <3>2, <5>1, <5>2, <5>3, <5>4, <5>5
          <5>7. Min({c, b}) \in {c, b} /\ Min({c, b}) <= c /\ Min({c, b}) <= b
            <6>1. c \in Int /\ b \in Int
              OBVIOUS
            <6> QED
              BY ONLY <6>1, MinOfTwo
          <5> QED
            BY <5>1, <5>5, <5>6, <5>7
        <4>2. sumNext = sumCaps
          BY <1>1, <1>19, <1>25, <4>1, SumSame DEF Sum
        <4> QED
          BY <1>21, <2>1, <2>4, <3>2, <4>2
      <3>3. CASE excess # 0 /\ roomTotal # 0 /\ ~ (roomTotal <= excess)
        <4> DEFINE q == [i \in Chosen |-> (excess * room[i]) \div roomTotal]
        <4>1. \A i \in Chosen : q[i] = (excess * room[i]) \div roomTotal
          OBVIOUS
        <4> HIDE DEF q
        <4>2. SumFunctionOnSet(room, Chosen) = roomTotal
          <5>1. \A i \in Chosen : room[i] \in Int /\ clipped[i] \in Int
                                  /\ caps[i] = room[i] + clipped[i]
            BY <1>3, <1>7, <1>18, <2>1
          <5>2. Sum(caps) = Sum(room) + Sum(clipped)
            BY <1>1, <5>1, SumAdded DEF Sum
          <5>3. Sum(room) \in Int
            BY <1>1, <5>1, SumTyped DEF Sum
          <5>4. Sum(room) = roomTotal
            BY <1>19, <1>21, <2>1, <5>2, <5>3
          <5> QED
            BY <5>4 DEF Sum
        <4>3. roomTotal \in Nat \ {0} /\ excess \in Nat
          BY <1>21, <3>3
        <4>4. /\ \A i \in Chosen : q[i] \in Nat
              /\ SumFunctionOnSet(q, Chosen) \in Nat
              /\ SumFunctionOnSet(q, Chosen) <= excess
              /\ excess <= SumFunctionOnSet(q, Chosen) + Cardinality(Chosen)
          <5>1. \A i \in Chosen : room[i] \in Nat /\ q[i] = (excess * room[i]) \div roomTotal
            BY <1>18, <4>1
          <5> QED
            BY <1>1, <4>2, <4>3, <5>1, PartsAddUp
        <4>5. PICK sumQ \in Nat : sumQ = Sum(q) /\ sumQ <= excess /\ excess <= sumQ + n
          BY <2>2, <4>4 DEF Sum
        <4>6. \A i \in Chosen : /\ clipped[i] \in Int /\ q[i] \in Int
                                /\ next[i] = clipped[i] + q[i]
          <5> SUFFICES ASSUME NEW i \in Chosen
                       PROVE  /\ clipped[i] \in Int /\ q[i] \in Int
                              /\ next[i] = clipped[i] + q[i]
            OBVIOUS
          <5>1. PICK r \in Nat, a \in Nat, c \in Nat, d \in Nat :
                  /\ r = room[i] /\ a = reduced[i] /\ c = caps[i] /\ r + a = c
                  /\ a = clipped[i] /\ d = q[i]
            BY <1>3, <1>16, <1>18, <2>1, <4>4
          <5>2. d <= r
            <6>1. PICK t \in Nat \ {0}, e \in Nat : t = roomTotal /\ e = excess /\ e <= t
              BY <3>3, <4>3
            <6>2. PICK x \in Nat : x = e * r
              BY ProductNat
            <6>3. d = x \div t
              BY <4>1, <5>1, <6>1, <6>2
            <6>4. t * d <= x
              BY <6>3, DivisionBelow
            <6>5. x <= t * r
              <7>1. r * e \in Int /\ r * t \in Int /\ r * e <= r * t
                BY <6>1, ProductGrows
              <7>2. r * e = e * r /\ r * t = t * r
                OBVIOUS
              <7> QED
                BY <6>2, <7>1, <7>2
            <6>6. t * d <= r * t
              <7>1. t * r = r * t /\ t * r \in Nat /\ t * d \in Nat
                OBVIOUS
              <7> QED
                BY <6>4, <6>5, <7>1
            <6> QED
              BY <6>6, ProductReflects
          <5>3. PICK b \in Nat : b = a + d /\ b <= c
            BY <5>1, <5>2
          <5>4. next[i] = Min({c, b})
            BY <1>22, <3>3, <4>1, <5>1, <5>3
          <5>5. Min({c, b}) \in {c, b} /\ Min({c, b}) <= c /\ Min({c, b}) <= b
            <6>1. c \in Int /\ b \in Int
              OBVIOUS
            <6> QED
              BY ONLY <6>1, MinOfTwo
          <5> QED
            BY <5>1, <5>3, <5>4, <5>5
        <4>7. sumNext = sumClipped + sumQ
          <5>1. SumFunctionOnSet(next, Chosen)
                  = SumFunctionOnSet(clipped, Chosen) + SumFunctionOnSet(q, Chosen)
            BY <1>1, <4>6, SumAdded
          <5> QED
            BY <1>19, <1>25, <4>5, <5>1 DEF Sum
        <4>8. 10000 - n <= sumW
          BY <2>4, <2>5, <3>3
        <4> QED
          BY <1>21, <2>1, <2>4, <4>5, <4>7, <4>8
      <3> QED
        BY <3>1, <3>2, <3>3
    <2> QED
      BY <1>3, <1>24, <2>2, <2>3, <2>6 DEF Settled
  <1>27. next \in [Chosen -> Nat]
    <2> DEFINE g == [i \in Chosen |-> next[i]]
    <2>1. next = g
      BY <1>22, <1>23 DEF next
    <2>2. g \in [Chosen -> Nat]
      BY <1>24
    <2> HIDE DEF g
    <2> QED
      BY <2>1, <2>2
  <1>28. \A i \in Chosen : next[i] <= AllocationCap(i)
    BY <1>3, <1>24
  <1>29. FewChosen /\ (Raw(weights) \/ Settled(weights)) => Settled(next)
    BY <1>26 DEF w
  <1> QED
    BY <1>0, <1>27, <1>28, <1>29

(* What the scores of the positions come to is the capital, but for less   *)
(* than one hundredth of a percent each.                                   *)
MarksOK ==
  /\ marks \in [DOMAIN offered -> [penalty : Nat, score : Int]]
  /\ rejected \in Seq([row : DOMAIN offered,
                       reason : {"duplicate_strategy", "duplicate_symbol",
                                 "score_below_threshold", "negative_seed_score"}])

LEMMA RawScoreTyped ==
  ASSUME WellOffered, selected \in Seq(Eligibles), MarksOK, NEW i \in Chosen
  PROVE  RawScore(i) \in Nat
  <1>1. i \in DOMAIN offered
    BY RangeSays DEF Chosen, Eligibles
  <1>2. PICK s \in Int, p \in Int : s = marks[i].score /\ p = marks[i].penalty
    <2>1. marks[i] \in [penalty : Nat, score : Int]
      BY <1>1 DEF MarksOK
    <2> QED
      BY <2>1
  <1>3. Max({s, 0}) \in {s, 0} /\ Max({s, 0}) >= 0 /\ Max({p, 0}) \in {p, 0} /\ Max({p, 0}) >= 0
    <2>1. s \in Int /\ p \in Int /\ 0 \in Int
      OBVIOUS
    <2> QED
      BY ONLY <2>1, MaxOfTwo
  <1>4. PICK x \in Nat, y \in Nat : x = Max({s, 0}) /\ y = Max({p, 0})
    BY <1>3
  <1>5. PICK f \in Nat : f = Freshness(offered[i].age)
    <2>1. offered[i].age \in Nat
      BY <1>1, OfferTyped
    <2> QED
      BY <2>1 DEF Freshness
  <1>6. PICK n \in Nat, d \in Nat \ {0} : n = x * 10000 * f /\ d = 10000 + 14 * y
    <2>1. x * 10000 * f \in Nat
      OBVIOUS
    <2>2. 10000 + 14 * y \in Nat \ {0}
      OBVIOUS
    <2> QED
      BY <2>1, <2>2
  <1>7. RawScore(i) = n \div d
    BY <1>2, <1>4, <1>5, <1>6 DEF RawScore
  <1> QED
    BY <1>7, DivisionBelow

LEMMA NormalizedTyped ==
  ASSUME WellOffered, selected \in Seq(Eligibles), selected # <<>>, MarksOK
  PROVE  /\ DOMAIN Normalized = Chosen
         /\ \A i \in Chosen : Normalized[i] \in Nat /\ Normalized[i] <= 10000
         /\ Raw(Normalized)
  <1> DEFINE r == [i \in Chosen |-> RawScore(i)]
             total == SumFunctionOnSet(r, Chosen)
             q == Normalized
  <1>1. IsFiniteSet(Chosen) /\ Chosen # {}
    BY RangeIsShort, RangeSays DEF Chosen
  <1>2. PICK n \in Nat \ {0} : n = Cardinality(Chosen)
    <2>1. Cardinality(Chosen) \in Nat /\ Cardinality(Chosen) # 0
      BY <1>1, FS_CardinalityType, FS_EmptySet
    <2> QED
      BY <2>1
  <1>3. \A i \in Chosen : r[i] \in Nat /\ r[i] = RawScore(i)
    BY RawScoreTyped
  <1>4. /\ DOMAIN q = Chosen
        /\ \A i \in Chosen : /\ total > 0 => q[i] = (RawScore(i) * 10000) \div total
                             /\ ~ (total > 0) => q[i] = 10000 \div Cardinality(Chosen)
    BY DEF Normalized, Capital
  <1> HIDE DEF r, total, q
  <1>5. total \in Nat
    BY <1>1, <1>3, SumNat DEF total
  <1>6. /\ \A i \in Chosen : q[i] \in Nat
        /\ SumFunctionOnSet(q, Chosen) \in Nat
        /\ SumFunctionOnSet(q, Chosen) <= 10000
        /\ 10000 <= SumFunctionOnSet(q, Chosen) + n
    <2>1. CASE total > 0
      <3>1. PICK whole \in Nat : whole = 10000
        OBVIOUS
      <3>2. total \in Nat \ {0} /\ SumFunctionOnSet(r, Chosen) = total
        BY <1>5, <2>1 DEF total
      <3>3. \A i \in Chosen : r[i] \in Nat /\ q[i] = (whole * r[i]) \div total
        <4> SUFFICES ASSUME NEW i \in Chosen
                     PROVE  r[i] \in Nat /\ q[i] = (whole * r[i]) \div total
          OBVIOUS
        <4>1. PICK x \in Nat : x = r[i] /\ x = RawScore(i)
          BY <1>3
        <4>2. q[i] = (x * 10000) \div total
          BY <1>4, <2>1, <4>1
        <4>3. x * 10000 = whole * x
          BY <3>1
        <4> QED
          BY <4>1, <4>2, <4>3
      <3>4. /\ \A i \in Chosen : q[i] \in Nat
            /\ SumFunctionOnSet(q, Chosen) \in Nat
            /\ SumFunctionOnSet(q, Chosen) <= whole
            /\ whole <= SumFunctionOnSet(q, Chosen) + Cardinality(Chosen)
        BY <1>1, <3>2, <3>3, PartsAddUp
      <3> QED
        BY <1>2, <3>1, <3>4
    <2>2. CASE ~ (total > 0)
      <3>1. PICK x \in Nat : /\ x = 10000 \div n /\ n * x <= 10000 /\ 10000 < n * x + n
        <4>1. PICK whole \in Nat : whole = 10000
          OBVIOUS
        <4>2. /\ whole \div n \in Nat /\ n * (whole \div n) <= whole
              /\ whole < n * (whole \div n) + n
          BY DivisionBounds
        <4> QED
          BY <4>1, <4>2
      <3>2. \A i \in Chosen : q[i] = x
        BY <1>2, <1>4, <2>2, <3>1
      <3>3. SumFunctionOnSet(q, Chosen) = x * n
        <4>1. x \in Int
          OBVIOUS
        <4> QED
          BY <1>1, <1>2, <3>2, <4>1, SumConstant
      <3>4. x * n = n * x /\ n * x \in Nat
        OBVIOUS
      <3>5. PICK y \in Nat : y = n * x
        BY <3>4
      <3>6. y <= 10000 /\ 10000 < y + n /\ SumFunctionOnSet(q, Chosen) = y
        BY <3>1, <3>3, <3>4, <3>5
      <3> QED
        BY <3>2, <3>6
    <2> QED
      BY <2>1, <2>2
  <1>7. PICK sum \in Nat : sum = SumFunctionOnSet(q, Chosen)
    BY <1>6
  <1>8. Raw(q)
    BY <1>2, <1>6, <1>7 DEF Raw, Total
  <1>9. \A i \in Chosen : q[i] <= sum
    BY <1>1, <1>6, <1>7, SumNat
  <1>10. \A i \in Chosen : q[i] <= 10000
    <2> SUFFICES ASSUME NEW i \in Chosen PROVE q[i] <= 10000
      OBVIOUS
    <2>1. PICK x \in Nat : x = q[i] /\ x <= sum /\ sum <= 10000
      BY <1>6, <1>7, <1>9
    <2> QED
      BY <2>1
  <1> QED
    BY <1>4, <1>6, <1>8, <1>10 DEF q

-----------------------------------------------------------------------------
(* From the scores to the weights that are handed back. *)

WeightInv ==
  /\ pass \in {"strict", "relaxed", "weigh"} => weights = <<>> /\ rounds = 10
  /\ pass = "clip" =>
       /\ weights \in [Chosen -> Nat] /\ \A i \in Chosen : weights[i] <= 10000
       /\ rounds \in 1 .. 10
       /\ FewChosen => Raw(weights) \/ Settled(weights)
  /\ pass = "done" =>
       /\ weights \in [Chosen -> Nat] /\ \A i \in Chosen : weights[i] <= AllocationCap(i)
       /\ rounds \in 0 .. 10
       /\ FewChosen /\ selected # <<>> => Settled(weights)

OptimizerInv == SelectInv /\ MarksOK /\ WeightInv

LEMMA SelectedTyped ==
  ASSUME SelectInv
  PROVE  /\ WellOffered /\ selected \in Seq(Eligibles) /\ Len(selected) <= policy.max
         /\ left \subseteq DOMAIN offered /\ Eligibles \subseteq DOMAIN offered
         /\ Chosen \subseteq Eligibles /\ Cardinality(Chosen) = Len(selected)
         /\ (selected = <<>> <=> Chosen = {})
  <1>1. WellOffered /\ Positions(selected, left)
    BY DEF SelectInv
  <1>2. Range(selected) \subseteq Eligibles /\ Cardinality(Range(selected)) = Len(selected)
        /\ (selected = <<>> <=> Range(selected) = {})
    BY <1>1, PositionsCounted
  <1> QED
    BY <1>1, <1>2 DEF Positions, Chosen, Eligibles

LEMMA SameWeights ==
  ASSUME SameCall, selected' = selected
  PROVE  /\ Chosen' = Chosen /\ FewChosen' = FewChosen
         /\ \A i : AllocationCap(i)' = AllocationCap(i)
         /\ Raw(weights)' = Raw(weights') /\ Settled(weights)' = Settled(weights')
  <1>1. Chosen' = Chosen
    BY DEF Chosen
  <1>2. \A i : AllocationCap(i)' = AllocationCap(i)
    BY <1>1 DEF AllocationCap, AlikeIn, SameCall
  <1>3. FewChosen' = FewChosen
    BY <1>1 DEF FewChosen, AlikeIn, SameCall
  <1>4. Caps' = Caps
    BY <1>1, <1>2 DEF Caps
  <1>5. Total(weights)' = Total(weights') /\ Total(Caps)' = Total(Caps)
    BY <1>1, <1>4 DEF Total
  <1>6. Raw(weights)' = Raw(weights')
    BY <1>1, <1>5 DEF Raw
  <1>7. Settled(weights)' = Settled(weights')
    BY <1>1, <1>2, <1>5 DEF Settled
  <1> QED
    BY <1>1, <1>2, <1>3, <1>6, <1>7

LEMMA MarksNext ==
  ASSUME SelectInv, MarksOK, [OptimizerNext]_optimizerVars
  PROVE  MarksOK'
  <1>1. ASSUME NEW i \in left, Consider(i)
        PROVE  MarksOK'
    <2>1. /\ offered' = offered /\ marks' = [marks EXCEPT ![i] = MarksOf(i)]
          /\ rejected' = IF Verdict(i) = "accepted" THEN rejected
                         ELSE Append(rejected, [row |-> i, reason |-> Verdict(i)])
      BY <1>1 DEF Consider
    <2>2. i \in DOMAIN offered /\ WellOffered /\ selected \in Seq(Eligibles)
      BY SelectedTyped
    <2>3. MarksOf(i) \in [penalty : Nat, score : Int]
      BY <2>2, MarksTyped
    <2>4. Verdict(i) \in {"accepted", "duplicate_strategy", "duplicate_symbol",
                          "score_below_threshold", "negative_seed_score"}
      BY <2>2, VerdictSays
    <2>5. marks' \in [DOMAIN offered' -> [penalty : Nat, score : Int]]
      BY <2>1, <2>2, <2>3 DEF MarksOK
    <2> DEFINE R == [row : DOMAIN offered,
                     reason : {"duplicate_strategy", "duplicate_symbol",
                               "score_below_threshold", "negative_seed_score"}]
    <2>6. rejected \in Seq(R)
      BY DEF MarksOK
    <2>7. Verdict(i) # "accepted" => [row |-> i, reason |-> Verdict(i)] \in R
      BY <2>2, <2>4
    <2>8. rejected' \in Seq(R)
      <3> HIDE DEF R
      <3> QED
        BY <2>1, <2>6, <2>7
    <2> QED
      BY <2>1, <2>5, <2>8 DEF MarksOK
  <1>2. ASSUME UNCHANGED <<offered, marks, rejected>>
        PROVE  MarksOK'
    BY <1>2 DEF MarksOK
  <1>3. CASE EndOfPass
    BY <1>2, <1>3 DEF EndOfPass
  <1>4. CASE Normalize
    BY <1>2, <1>4 DEF Normalize
  <1>5. CASE Redistribute
    BY <1>2, <1>5 DEF Redistribute
  <1>6. CASE UNCHANGED optimizerVars
    BY <1>2, <1>6 DEF optimizerVars
  <1> QED
    BY <1>1, <1>3, <1>4, <1>5, <1>6 DEF OptimizerNext

LEMMA WeightNext ==
  ASSUME OptimizerInv, [OptimizerNext]_optimizerVars
  PROVE  WeightInv'
  <1>1. SelectInv /\ MarksOK /\ WeightInv
    BY DEF OptimizerInv
  <1>2. /\ WellOffered /\ selected \in Seq(Eligibles)
        /\ pass \in {"strict", "relaxed", "weigh", "clip", "done"}
    BY <1>1, SelectedTyped DEF SelectInv
  <1>3. ASSUME pass \in {"strict", "relaxed"}, pass' \in {"strict", "relaxed", "weigh"},
               weights' = weights, rounds' = rounds
        PROVE  WeightInv'
    BY <1>1, <1>3 DEF WeightInv
  <1>4. CASE \E i \in left : Consider(i)
    BY <1>3, <1>4 DEF Consider
  <1>5. CASE EndOfPass
    BY <1>3, <1>5 DEF EndOfPass
  <1>6. CASE Normalize
    <2>1. /\ pass = "weigh" /\ SameCall /\ rounds' = rounds
          /\ IF Len(selected) < policy.min
             THEN pass' = "done" /\ selected' = <<>> /\ weights' = weights
             ELSE pass' = "clip" /\ weights' = Normalized /\ selected' = selected
      BY <1>6 DEF Normalize, SameCall
    <2>2. weights = <<>> /\ rounds = 10
      BY <1>1, <2>1 DEF WeightInv
    <2>3. CASE Len(selected) < policy.min
      <3>1. Chosen' = {}
        BY <2>1, <2>3 DEF Chosen, Range
      <3>2. weights' = <<>> /\ rounds' = 10 /\ pass' = "done" /\ selected' = <<>>
        BY <2>1, <2>2, <2>3
      <3>3. <<>> \in [{} -> Nat]
        <4>1. <<>> \in Seq(Nat) /\ Len(<<>>) = 0
          OBVIOUS
        <4>2. <<>> \in [1 .. 0 -> Nat] /\ 1 .. 0 = {}
          BY <4>1
        <4> QED
          BY <4>2
      <3>4. weights' \in [Chosen' -> Nat]
        BY <3>1, <3>2, <3>3
      <3> QED
        BY <3>1, <3>2, <3>4 DEF WeightInv
    <2>4. CASE ~ (Len(selected) < policy.min)
      <3>1. selected # <<>>
        BY <1>2, <2>4, OfferTyped
      <3>2. PICK w : w = Normalized
        OBVIOUS
      <3>3. /\ DOMAIN w = Chosen /\ Raw(w)
            /\ \A i \in Chosen : w[i] \in Nat /\ w[i] <= 10000
        BY <1>1, <1>2, <3>1, <3>2, NormalizedTyped
      <3>4. weights' = w /\ pass' = "clip" /\ rounds' = 10
        BY <2>1, <2>2, <2>4, <3>2
      <3>5. Chosen' = Chosen /\ Raw(weights)' = Raw(weights')
        BY <2>1, <2>4, SameWeights
      <3>6. w \in [Chosen -> Nat]
        <4>1. w = [i \in Chosen |-> w[i]]
          BY <3>2, <3>3 DEF Normalized
        <4> QED
          BY <3>3, <4>1
      <3> QED
        BY <3>3, <3>4, <3>5, <3>6 DEF WeightInv
    <2> QED
      BY <2>3, <2>4
  <1>7. CASE Redistribute
    <2>1. /\ pass = "clip" /\ SameCall /\ selected' = selected /\ rounds' = rounds - 1
          /\ pass' = "done" \/ (pass' = "clip" /\ rounds # 1)
      BY <1>7 DEF Redistribute, SameCall
    <2>2. /\ \A i \in Chosen : weights[i] \in Nat
          /\ rounds \in 1 .. 10 /\ (FewChosen => Raw(weights) \/ Settled(weights))
      BY <1>1, <2>1 DEF WeightInv
    <2>3. /\ weights' \in [Chosen -> Nat]
          /\ \A i \in Chosen : weights'[i] <= AllocationCap(i)
          /\ FewChosen => Settled(weights')
      BY <1>2, <1>7, <2>2, RoundOfClipping
    <2>4. \A i \in Chosen : weights'[i] <= 10000
      <3> SUFFICES ASSUME NEW i \in Chosen PROVE weights'[i] <= 10000
        OBVIOUS
      <3>1. PICK x \in Nat, c \in Nat : x = weights'[i] /\ c = AllocationCap(i) /\ x <= c /\ c <= 4000
        BY <1>2, <2>3, CapTyped
      <3> QED
        BY <3>1
    <2>5. /\ Chosen' = Chosen /\ FewChosen' = FewChosen
          /\ \A i : AllocationCap(i)' = AllocationCap(i)
          /\ Settled(weights)' = Settled(weights')
      BY <2>1, SameWeights
    <2>6. pass' = "clip" => rounds' \in 1 .. 10
      BY <2>1, <2>2
    <2>7. pass' = "done" => rounds' \in 0 .. 10
      BY <2>1, <2>2
    <2>8. pass' \in {"clip", "done"}
      BY <2>1
    <2> QED
      BY <2>3, <2>4, <2>5, <2>6, <2>7, <2>8 DEF WeightInv
  <1>8. CASE UNCHANGED optimizerVars
    <2>1. SameCall /\ selected' = selected /\ weights' = weights /\ rounds' = rounds /\ pass' = pass
      BY <1>8 DEF optimizerVars, SameCall
    <2>2. /\ Chosen' = Chosen /\ FewChosen' = FewChosen
          /\ \A i : AllocationCap(i)' = AllocationCap(i)
          /\ Raw(weights)' = Raw(weights) /\ Settled(weights)' = Settled(weights)
      BY <2>1, SameWeights
    <2> QED
      BY <1>1, <2>1, <2>2 DEF WeightInv
  <1> QED
    BY <1>4, <1>5, <1>6, <1>7, <1>8 DEF OptimizerNext

LEMMA BelowCapital == \A x \in Nat : x <= 10000 => x \in 0 .. Capital
  BY DEF Capital

LEMMA BoundedWeights ==
  ASSUME NEW S, NEW w \in [S -> Nat], \A i \in S : w[i] <= 10000
  PROVE  w \in [S -> 0 .. Capital]
  <1>1. \A i \in S : w[i] \in 0 .. Capital
    <2> SUFFICES ASSUME NEW i \in S PROVE w[i] \in 0 .. Capital
      OBVIOUS
    <2>1. PICK x \in Nat : x = w[i] /\ x <= 10000
      OBVIOUS
    <2>2. x \in 0 .. Capital
      BY <2>1, BelowCapital
    <2> QED
      BY <2>1, <2>2
  <1> QED
    BY <1>1

LEMMA OptimizerInvInit == OptimizerInit => OptimizerInv
  <1> SUFFICES ASSUME OptimizerInit PROVE OptimizerInv
    OBVIOUS
  <1>1. SelectInv
    BY SelectInit
  <1>2. MarksOK
    BY DEF OptimizerInit, MarksOK
  <1>3. WeightInv
    BY DEF OptimizerInit, WeightInv
  <1> QED
    BY <1>1, <1>2, <1>3 DEF OptimizerInv

LEMMA OptimizerInvNext == OptimizerInv /\ [OptimizerNext]_optimizerVars => OptimizerInv'
  BY SelectNext, MarksNext, WeightNext DEF OptimizerInv

LEMMA OptimizerInvariant == OptimizerSpec => []OptimizerInv
  BY OptimizerInvInit, OptimizerInvNext, PTL DEF OptimizerSpec

(* The state of the optimizer has the types OptimizerTypeOK lists, whoever *)
(* is offered and whatever the portfolio asks for: a weight is never below *)
(* zero nor above the capital, and the rounds run out at zero.             *)
THEOREM OptimizerTypeCorrect == OptimizerSpec => []OptimizerTypeOK
  <1>1. OptimizerInv => OptimizerTypeOK
    <2> SUFFICES ASSUME OptimizerInv PROVE OptimizerTypeOK
      OBVIOUS
    <2>1. SelectInv /\ MarksOK /\ WeightInv
      BY DEF OptimizerInv
    <2>2. /\ WellOffered /\ selected \in Seq(Eligibles) /\ Len(selected) <= policy.max
          /\ left \subseteq DOMAIN offered /\ Eligibles \subseteq DOMAIN offered
      BY <2>1, SelectedTyped
    <2>3. /\ offered \in Seq(Range(offered))
          /\ \A i \in DOMAIN offered : /\ offered[i].quality \in Int /\ offered[i].age \in Nat
                                       /\ offered[i].multiplier \in 0 .. 100
      BY <2>2, OfferTyped
    <2>4. policy \in Policies /\ pass \in {"strict", "relaxed", "weigh", "clip", "done"}
      BY <2>1 DEF SelectInv, WellOffered
    <2>5. selected \in Seq(DOMAIN offered)
      BY <2>2
    <2>6. weights \in [Chosen -> 0 .. Capital] \cup {<<>>} /\ rounds \in 0 .. 10
      <3>1. CASE pass \in {"strict", "relaxed", "weigh"}
        BY <2>1, <3>1 DEF WeightInv
      <3>2. CASE pass \in {"clip", "done"}
        <4>1. weights \in [Chosen -> Nat] /\ rounds \in 0 .. 10
          BY <2>1, <3>2 DEF WeightInv
        <4>2. \A i \in Chosen : weights[i] <= 10000
          <5>1. CASE pass = "clip"
            BY <2>1, <5>1 DEF WeightInv
          <5>2. CASE pass = "done"
            <6> SUFFICES ASSUME NEW i \in Chosen PROVE weights[i] <= 10000
              OBVIOUS
            <6>1. weights[i] \in Nat /\ weights[i] <= AllocationCap(i)
              BY <2>1, <5>2 DEF WeightInv
            <6>2. AllocationCap(i) \in Nat /\ AllocationCap(i) <= 4000
              BY <2>2, CapTyped
            <6> QED
              BY <6>1, <6>2
          <5> QED
            BY <3>2, <5>1, <5>2
        <4>3. weights \in [Chosen -> 0 .. Capital]
          BY <4>1, <4>2, BoundedWeights
        <4> QED
          BY <4>1, <4>3
      <3>3. pass \in {"strict", "relaxed", "weigh"} \/ pass \in {"clip", "done"}
        BY <2>4
      <3> QED
        BY <3>1, <3>2, <3>3
    <2>7. /\ marks \in [DOMAIN offered -> [penalty : Nat, score : Int]]
          /\ rejected \in Seq([row : DOMAIN offered,
                               reason : {"duplicate_strategy", "duplicate_symbol",
                                         "score_below_threshold", "negative_seed_score"}])
      BY <2>1 DEF MarksOK
    <2> QED
      BY <2>2, <2>3, <2>4, <2>5, <2>6, <2>7 DEF OptimizerTypeOK
  <1> QED
    BY <1>1, OptimizerInvariant, PTL

-----------------------------------------------------------------------------
(* What BasketChoice promises.  Its operators on sets are its own copies.  *)

LEMMA ChoiceSets ==
  /\ \A S : Choice!Cardinality(S) = Cardinality(S)
  /\ \A S : Choice!Max(S) = Max(S) /\ Choice!Min(S) = Min(S)
  /\ \A f, S : Choice!SumFunctionOnSet(f, S) = SumFunctionOnSet(f, S)
  <1>1. \A S : Choice!Cardinality(S) = Cardinality(S)
    BY DEF Choice!Cardinality, Cardinality
  <1>2. \A S : Choice!Max(S) = Max(S) /\ Choice!Min(S) = Min(S)
    BY DEF Choice!Max, Max, Choice!Min, Min
  <1>3. \A f, S : Choice!SumFunctionOnSet(f, S) = SumFunctionOnSet(f, S)
    BY Zenon DEF Choice!SumFunctionOnSet, SumFunctionOnSet, Choice!FoldFunctionOnSet,
       FoldFunctionOnSet, Choice!MapThenFoldSet, MapThenFoldSet
  <1> QED
    BY <1>1, <1>2, <1>3

LEMMA ChoiceWords ==
  /\ Choice!Eligible = Eligibles
  /\ \A is : Choice!SymbolsOf(is) = SymbolsIn(is)
  /\ Choice!Enough <=> Fillable
  /\ \A i, a : Choice!AlikeRows(Chosen, i, a) = AlikeIn(i, a)
  /\ \A i : Choice!Limit(Chosen, i) = AllocationCap(i)
  <1>1. Choice!Eligible = Eligibles
    BY DEF Choice!Eligible, Eligibles, IsEligible
  <1>2. \A is : Choice!SymbolsOf(is) = SymbolsIn(is)
    BY DEF Choice!SymbolsOf, SymbolsIn
  <1>3. Choice!Enough <=> Fillable
    BY <1>1, <1>2, ChoiceSets DEF Choice!Enough, Fillable, Rank
  <1>4. \A i, a : Choice!AlikeRows(Chosen, i, a) = AlikeIn(i, a)
    BY DEF Choice!AlikeRows, AlikeIn
  <1>5. \A i : Choice!Limit(Chosen, i) = AllocationCap(i)
    <2> SUFFICES ASSUME NEW i PROVE Choice!Limit(Chosen, i) = AllocationCap(i)
      OBVIOUS
    <2> DEFINE few  == {4000, 7000 \div Cardinality(AlikeIn(i, "symbol")),
                        6500 \div Cardinality(AlikeIn(i, "family"))}
               base == {1800, Min(few)}
    <2>1. /\ Choice!Alike(Chosen, i, "symbol") = Cardinality(AlikeIn(i, "symbol"))
          /\ Choice!Alike(Chosen, i, "family") = Cardinality(AlikeIn(i, "family"))
      BY <1>4, ChoiceSets DEF Choice!Alike
    <2>2. /\ Choice!Min(few) = Min(few) /\ Choice!Max(base) = Max(base)
      BY ChoiceSets
    <2>3. AllocationCap(i) = (Max(base) * offered[i].multiplier) \div 100
      BY DEF AllocationCap
    <2>4. Choice!Limit(Chosen, i) = (Choice!Max({1800, Choice!Min(few)}) * offered[i].multiplier)
                                      \div 100
      BY <2>1 DEF Choice!Limit
    <2> HIDE DEF few
    <2>5. {1800, Choice!Min(few)} = base
      BY <2>2
    <2>6. Choice!Max({1800, Choice!Min(few)}) = Max(base)
      BY <2>2, <2>5
    <2> HIDE DEF base
    <2> QED
      BY ONLY <2>3, <2>4, <2>6
  <1> QED
    BY <1>1, <1>2, <1>3, <1>4, <1>5

LEMMA DoneAcceptable ==
  ASSUME SelectInv, pass = "done"
  PROVE  Choice!Acceptable(Chosen)
  <1>1. /\ WellOffered /\ Chosen \subseteq Eligibles /\ Cardinality(Chosen) = Len(selected)
        /\ (selected = <<>> <=> Chosen = {}) /\ Len(selected) <= policy.max
        /\ selected \in Seq(Eligibles) /\ AfterPasses(selected)
        /\ Len(selected) >= policy.min \/ selected = <<>>
    BY SelectedTyped DEF SelectInv
  <1>2. PICK n \in Nat, min \in Nat \ {0}, max \in Nat :
          n = Len(selected) /\ min = policy.min /\ max = policy.max /\ n <= max
    BY <1>1, OfferTyped
  <1>3. CASE n >= min
    <2>1. /\ Fillable
          /\ Cardinality(SymbolsIn(Chosen)) < Cardinality(Chosen) =>
               policy.soft /\ Cardinality(SymbolsIn(Eligibles)) < policy.min
          /\ NobodyBetter(selected, Eligibles)
      BY <1>1, <1>2, <1>3 DEF AfterPasses, Chosen
    <2>2. Cardinality(Chosen) \in policy.min .. policy.max
      BY <1>1, <1>2, <1>3
    <2>3. \A i \in Eligibles \ Chosen, j \in Chosen :
            Rank(i) > Rank(j) /\ Cardinality(Chosen) = policy.min =>
              offered[i].symbol \in SymbolsIn(Chosen)
      BY <1>1, <2>1 DEF NobodyBetter, Chosen
    <2> QED
      BY <1>1, <2>1, <2>2, <2>3, ChoiceSets, ChoiceWords DEF Choice!Acceptable, Rank
  <1>4. CASE ~ (n >= min)
    <2>1. Chosen = {} /\ ~ Fillable
      BY <1>1, <1>2, <1>4 DEF AfterPasses
    <2>2. SymbolsIn(Chosen) = {} /\ Cardinality({}) = 0
      BY <2>1, FS_EmptySet DEF SymbolsIn
    <2>3. ~ (Cardinality(SymbolsIn(Chosen)) < Cardinality(Chosen))
      BY <2>1, <2>2
    <2> QED
      BY <2>1, <2>3, ChoiceSets, ChoiceWords DEF Choice!Acceptable
  <1> QED
    BY <1>3, <1>4

LEMMA DoneWithinLimits ==
  ASSUME OptimizerInv, pass = "done"
  PROVE  DOMAIN weights = Chosen /\ Choice!WithinLimits(Chosen, weights)
  <1>1. WellOffered /\ selected \in Seq(Eligibles)
    BY SelectedTyped DEF OptimizerInv
  <1>2. weights \in [Chosen -> Nat] /\ \A i \in Chosen : weights[i] <= AllocationCap(i)
    BY DEF OptimizerInv, WeightInv
  <1>3. ASSUME NEW i \in Chosen
        PROVE  /\ weights[i] \in 0 .. AllocationCap(i)
               /\ Cardinality(AlikeIn(i, "symbol")) <= 3 =>
                    SumFunctionOnSet(weights, AlikeIn(i, "symbol")) <= 7000
               /\ Cardinality(AlikeIn(i, "family")) <= 3 =>
                    SumFunctionOnSet(weights, AlikeIn(i, "family")) <= 6500
    <2>1. PICK x \in Nat, c \in Nat : x = weights[i] /\ c = AllocationCap(i) /\ x <= c
      BY <1>1, <1>2, CapTyped
    <2>2. x \in 0 .. c
      BY <2>1
    <2>3. \A j \in Chosen : weights[j] \in Nat /\ weights[j] <= AllocationCap(j)
      BY <1>2
    <2>4. /\ Cardinality(AlikeIn(i, "symbol")) <= 3 =>
               SumFunctionOnSet(weights, AlikeIn(i, "symbol")) <= 7000
          /\ Cardinality(AlikeIn(i, "family")) <= 3 =>
               SumFunctionOnSet(weights, AlikeIn(i, "family")) <= 6500
      BY <1>1, <2>3, AlikeLimited
    <2> QED
      BY <2>1, <2>2, <2>4
  <1>4. Choice!WithinLimits(Chosen, weights)
    BY <1>3, ChoiceSets, ChoiceWords DEF Choice!WithinLimits, Choice!Alike
  <1> QED
    BY <1>2, <1>4

(* Whatever is offered and whatever the portfolio asks for, what build     *)
(* hands back is a basket its policy allows: of the size asked for, or     *)
(* none where there is not enough; no symbol twice unless the symbols do   *)
(* not suffice; none passed over for a worse one; every share, every       *)
(* symbol and every family of up to three positions within its limit.     *)
BasketMade ==
  pass = "done" =>
    /\ Choice!Acceptable(Chosen)
    /\ DOMAIN weights = Chosen /\ Choice!WithinLimits(Chosen, weights)

(* What build() of ver9/basket_optimizer returns is such a basket,         *)
(* whatever is offered and whatever the portfolio asks for.                *)
THEOREM BasketsAcceptable == OptimizerSpec => []BasketMade
  <1>1. OptimizerInv => BasketMade
    BY DoneAcceptable, DoneWithinLimits DEF BasketMade, OptimizerInv
  <1> QED
    BY <1>1, OptimizerInvariant, PTL

-----------------------------------------------------------------------------
(* That the capital is used up to what rounding takes and never exceeded   *)
(* needs two things: a tolerance of two hundredths of a percent for each   *)
(* position, and families so small that their limit of 65 percent is out   *)
(* of reach of the caps, so that a round of clipping takes nothing from    *)
(* them.  Portfolios of three positions, the default, are of that kind.    *)
FewAlike ==
  \A p \in Policies :
    /\ 2 * p.max <= Tolerance
    /\ \/ p.max <= 3
       \/ \A offer \in StartRows : \A i \in DOMAIN offer :
            Cardinality({j \in DOMAIN offer : offer[j].family = offer[i].family}) <= 3

LEMMA FewAreChosen ==
  ASSUME FewAlike, SelectInv
  PROVE  FewChosen /\ 2 * Cardinality(Chosen) <= Tolerance /\ Cardinality(Chosen) \in Nat
  <1>1. /\ WellOffered /\ selected \in Seq(Eligibles) /\ Len(selected) <= policy.max
        /\ Chosen \subseteq DOMAIN offered /\ Cardinality(Chosen) = Len(selected)
    BY SelectedTyped
  <1>2. PICK n \in Nat, max \in Nat : n = Cardinality(Chosen) /\ max = policy.max /\ n <= max
    BY <1>1, OfferTyped
  <1>3. 2 * max <= Tolerance
    BY <1>1, <1>2 DEF FewAlike, WellOffered
  <1>4. Tolerance \in Nat
    BY OptimizerAssumption
  <1>5. 2 * n <= Tolerance
    BY <1>2, <1>3, <1>4
  <1>6. ASSUME NEW i \in Chosen
        PROVE  Cardinality(AlikeIn(i, "family")) <= 3
    <2>1. /\ IsFiniteSet(Chosen) /\ IsFiniteSet(AlikeIn(i, "family"))
          /\ AlikeIn(i, "family") \subseteq Chosen
          /\ Cardinality(AlikeIn(i, "family")) \in Nat
      BY <1>1, AlikeFinite
    <2>2. CASE max <= 3
      <3>1. Cardinality(AlikeIn(i, "family")) <= Cardinality(Chosen)
        BY <2>1, FS_Subset
      <3> QED
        BY <1>2, <2>1, <2>2, <3>1
    <2>3. CASE \A offer \in StartRows : \A k \in DOMAIN offer :
            Cardinality({j \in DOMAIN offer : offer[j].family = offer[k].family}) <= 3
      <3> DEFINE all == {j \in DOMAIN offered : offered[j].family = offered[i].family}
      <3>1. Cardinality(all) <= 3
        BY <1>1, <2>3 DEF WellOffered
      <3>2. AlikeIn(i, "family") \subseteq all
        BY <1>1 DEF AlikeIn
      <3>3. IsFiniteSet(all)
        BY <1>1, OfferTyped, FS_Subset
      <3> HIDE DEF all
      <3>4. Cardinality(AlikeIn(i, "family")) <= Cardinality(all) /\ Cardinality(all) \in Nat
        BY <3>2, <3>3, FS_Subset, FS_CardinalityType
      <3> QED
        BY <2>1, <3>1, <3>4
    <2>4. max <= 3 \/ \A offer \in StartRows : \A k \in DOMAIN offer :
            Cardinality({j \in DOMAIN offer : offer[j].family = offer[k].family}) <= 3
      BY <1>1, <1>2 DEF FewAlike, WellOffered
    <2> QED
      BY <2>2, <2>3, <2>4
  <1> QED
    BY <1>2, <1>5, <1>6 DEF FewChosen

LEMMA DoneUsesCapital ==
  ASSUME FewAlike, OptimizerInv, pass = "done"
  PROVE  Choice!UsesCapital(Chosen, weights)
  <1>1. /\ WellOffered /\ selected \in Seq(Eligibles) /\ (selected = <<>> <=> Chosen = {})
    BY SelectedTyped DEF OptimizerInv
  <1>2. PICK n \in Nat : n = Cardinality(Chosen) /\ 2 * n <= Tolerance /\ FewChosen
    BY FewAreChosen DEF OptimizerInv
  <1>3. /\ weights \in [Chosen -> Nat]
        /\ selected # <<>> => Settled(weights)
    BY <1>2 DEF OptimizerInv, WeightInv
  <1>4. IsFiniteSet(Chosen)
    BY <1>1, RangeIsShort DEF Chosen
  <1>5. PICK total \in Nat, possible \in Nat, whole \in Nat :
          /\ total = SumFunctionOnSet(weights, Chosen)
          /\ possible = SumFunctionOnSet(Caps, Chosen) /\ whole = 10000
    <2>1. \A i \in Chosen : weights[i] \in Nat
      BY <1>3
    <2>2. \A i \in Chosen : Caps[i] \in Nat
      BY <1>1, CapTyped DEF Caps
    <2>3. SumFunctionOnSet(weights, Chosen) \in Nat /\ SumFunctionOnSet(Caps, Chosen) \in Nat
      BY <1>4, <2>1, <2>2, SumNat
    <2> QED
      BY <2>3
  <1>6. Min({whole, possible}) \in {whole, possible} /\ Min({whole, possible}) <= whole
        /\ Min({whole, possible}) <= possible
    <2>1. whole \in Int /\ possible \in Int
      OBVIOUS
    <2> QED
      BY ONLY <2>1, MinOfTwo
  <1>7. PICK least \in Nat : least = Min({whole, possible})
    BY <1>6
  <1>8. Tolerance \in Nat
    BY OptimizerAssumption
  <1>9. total <= whole /\ (Chosen # {} => total >= least - Tolerance)
    <2>1. CASE Chosen = {}
      <3>1. SumFunctionOnSet(weights, {}) = 0
        BY EmptySum
      <3> QED
        BY <1>5, <2>1, <3>1
    <2>2. CASE Chosen # {}
      <3>1. total <= 10000 /\ (10000 - 2 * n <= total \/ total = possible)
        BY <1>1, <1>2, <1>3, <1>5, <2>2 DEF Settled, Total
      <3>2. least <= whole /\ least <= possible
        BY <1>6, <1>7
      <3> QED
        BY <1>2, <1>5, <1>8, <3>1, <3>2
    <2> QED
      BY <2>1, <2>2
  <1>10. [i \in Chosen |-> Choice!Limit(Chosen, i)] = Caps
    BY ChoiceWords DEF Caps
  <1>11. Choice!UsesCapital(Chosen, weights) <=>
           /\ SumFunctionOnSet(weights, Chosen) <= whole
           /\ Chosen # {} => SumFunctionOnSet(weights, Chosen)
                              >= Min({whole, SumFunctionOnSet(Caps, Chosen)}) - Tolerance
    <2>1. Choice!Whole = whole
      BY <1>5 DEF Choice!Whole
    <2> QED
      BY ONLY <1>10, <2>1, ChoiceSets, Zenon DEF Choice!UsesCapital
  <1> QED
    BY <1>5, <1>7, <1>9, <1>11

ChoiceKept ==
  pass = "done" =>
    /\ Choice!Acceptable(Chosen)
    /\ DOMAIN weights = Chosen /\ Choice!WithinLimits(Chosen, weights)
    /\ Choice!UsesCapital(Chosen, weights)

LEMMA ChoiceInitially == OptimizerInit => Choice!ChoiceInit
  BY DEF OptimizerInit, Choice!ChoiceInit

(* Ranking, passing over, skipping, filling up and clipping are nothing to *)
(* whoever trades the basket: what he sees is one decision of BasketChoice.*)
LEMMA ChoiceStep ==
  ASSUME ChoiceKept', [OptimizerNext]_optimizerVars
  PROVE  [Choice!Decide]_Choice!choiceVars
  <1>1. CASE UNCHANGED optimizerVars
    BY <1>1 DEF optimizerVars, Choice!choiceVars, Chosen
  <1>2. ASSUME SameCall, pass # "done", pass' # "done"
        PROVE  UNCHANGED Choice!choiceVars
    BY <1>2 DEF SameCall, Choice!choiceVars
  <1>3. ASSUME SameCall, pass # "done", pass' = "done"
        PROVE  Choice!Decide
    <2>1. /\ Choice!Acceptable(Chosen)' /\ (DOMAIN weights = Chosen)'
          /\ Choice!WithinLimits(Chosen, weights)' /\ Choice!UsesCapital(Chosen, weights)'
      BY <1>3 DEF ChoiceKept
    <2>2. Choice!Acceptable(Chosen')
      BY <1>3, <2>1 DEF SameCall, Choice!Acceptable, Choice!Enough, Choice!Eligible,
                        Choice!SymbolsOf
    <2>3. \A i : Choice!Limit(Chosen, i)' = Choice!Limit(Chosen', i)
      BY <1>3 DEF SameCall, Choice!Limit, Choice!Alike, Choice!AlikeRows
    <2>4. \A i, a : /\ Choice!Alike(Chosen, i, a)' = Choice!Alike(Chosen', i, a)
                    /\ Choice!AlikeRows(Chosen, i, a)' = Choice!AlikeRows(Chosen', i, a)
      BY <1>3 DEF SameCall, Choice!Alike, Choice!AlikeRows
    <2>5. Choice!WithinLimits(Chosen', weights')
      BY <2>1, <2>3, <2>4 DEF Choice!WithinLimits
    <2>6. Choice!UsesCapital(Chosen', weights')
      BY <1>3, <2>1 DEF SameCall, Choice!UsesCapital, Choice!Limit, Choice!Alike,
                        Choice!AlikeRows
    <2> QED
      BY <1>3, <2>1, <2>2, <2>5, <2>6 DEF SameCall, Choice!Decide
  <1>4. CASE \E i \in left : Consider(i)
    BY <1>2, <1>4 DEF Consider, SameCall
  <1>5. CASE EndOfPass
    BY <1>2, <1>5 DEF EndOfPass, SameCall
  <1>6. CASE Normalize
    BY <1>2, <1>3, <1>6 DEF Normalize, SameCall
  <1>7. CASE Redistribute
    BY <1>2, <1>3, <1>7 DEF Redistribute, SameCall
  <1> QED
    BY <1>1, <1>4, <1>5, <1>6, <1>7 DEF OptimizerNext

(* The optimizer implements BasketChoice: build() of ver9/basket_optimizer *)
(* decides once, on a basket with shares BasketChoice admits, in every     *)
(* call in which no family can have more than three positions.             *)
THEOREM ImplementsChoice == ASSUME FewAlike PROVE OptimizerSpec => ChoiceMade
  <1>1. OptimizerInv => ChoiceKept
    BY FewAlike, DoneAcceptable, DoneWithinLimits, DoneUsesCapital DEF ChoiceKept, OptimizerInv
  <1> QED
    BY <1>1, OptimizerInvariant, ChoiceInitially, ChoiceStep, PTL
       DEF OptimizerSpec, ChoiceMade, Choice!ChoiceSpec
-----------------------------------------------------------------------------
(* Arithmetic of a position.  The worth of q units bought at a, when they  *)
(* are quoted at r.                                                        *)
Better(a, r) == IF a >= r THEN a ELSE r

LEMMA PercentTyped ==
  ASSUME NEW x \in Nat, NEW h \in Nat, h <= 10000
  PROVE  Percent(x, h) \in Nat /\ Percent(x, h) <= x
  <1> DEFINE n == x * h
  <1>1. n \in Nat /\ n <= x * 10000
    BY ProductGrows, ProductNat
  <1>2. Percent(x, h) = n \div 10000
    BY DEF Percent
  <1> HIDE DEF n
  <1> QED
    BY <1>1, <1>2

(* A buyer pays at least the quote: buying adds no worth beyond the price. *)
LEMMA BuyingAddsNoWorth ==
  ASSUME NEW q \in Nat, NEW a \in Nat, NEW r \in Nat, NEW f \in Nat \ {0}, NEW p \in Nat, r <= p
  PROVE  LET b == (q * a + f * p) \div (q + f)
         IN b \in Nat /\ (q + f) * Better(b, r) <= q * Better(a, r) + f * p
  <1> DEFINE m == Better(a, r)
             n == q * a + f * p
             b == n \div (q + f)
  <1>1. m \in Nat /\ a <= m /\ r <= m
    BY DEF Better
  <1>2. n \in Nat /\ q + f \in Nat \ {0}
    BY ProductNat
  <1>3. b \in Nat /\ (q + f) * b <= n
    <2> HIDE DEF n
    <2> QED
      BY <1>2, DivisionBelow
  <1>4. q * a <= q * m /\ q * r <= q * m /\ f * r <= f * p
    BY <1>1, ProductGrows
  <1>5. q * a \in Nat /\ q * m \in Nat /\ q * r \in Nat /\ f * r \in Nat /\ f * p \in Nat
    BY <1>1, ProductNat
  <1>6. (q + f) * r = q * r + f * r
    OBVIOUS
  <1>7. n <= q * m + f * p
    BY <1>4, <1>5
  <1> HIDE DEF m, b, n
  <1>8. (q + f) * b <= q * m + f * p /\ (q + f) * r <= q * m + f * p
    <2>1. (q + f) * b \in Nat
      BY <1>2, <1>3, ProductNat
    <2> QED
      BY <1>2, <1>3, <1>4, <1>5, <1>6, <1>7, <2>1
  <1>9. (q + f) * Better(b, r) <= q * m + f * p
    BY <1>8 DEF Better
  <1> QED
    BY <1>3, <1>9 DEF m, b, n

(* A seller is paid at most the quote: selling adds none either, but for   *)
(* what is paid for units that are not there.                              *)
LEMMA SellingAddsNoWorth ==
  ASSUME NEW q \in Nat, NEW a \in Nat, NEW r \in Nat, NEW f \in Nat, NEW p \in Nat, p <= r
  PROVE  /\ f < q => (q - f) * Better(a, r) + f * p <= q * Better(a, r)
         /\ f >= q => f * p <= q * Better(a, r) + (f - q) * p
  <1> DEFINE m == Better(a, r)
  <1>1. m \in Nat /\ p <= m
    BY DEF Better
  <1> HIDE DEF m
  <1>2. ASSUME f < q PROVE (q - f) * m + f * p <= q * m
    <2>1. f * p <= f * m /\ (q - f) * m = q * m - f * m
      BY <1>1, <1>2, ProductGrows
    <2>2. f * p \in Nat /\ f * m \in Nat /\ q * m \in Nat
      BY <1>1, ProductNat
    <2> QED
      BY <2>1, <2>2
  <1>3. ASSUME f >= q PROVE f * p <= q * m + (f - q) * p
    <2>1. q * p <= q * m /\ (f - q) * p = f * p - q * p
      BY <1>1, <1>3, ProductGrows
    <2>2. f * p \in Nat /\ q * p \in Nat /\ q * m \in Nat
      BY <1>1, ProductNat
    <2> QED
      BY <2>1, <2>2
  <1> QED
    BY <1>2, <1>3 DEF m

(* A position gains no more than its units times the rise of the quote.    *)
LEMMA QuoteMovesWorth ==
  ASSUME NEW q \in Nat, NEW a \in Nat, NEW r \in Nat, NEW t \in Nat
  PROVE  /\ q * Better(a, t) \in Nat
         /\ q * Better(a, t) <= q * Better(a, r) + (IF t <= r THEN 0 ELSE q * (t - r))
  <1>1. Better(a, t) \in Nat /\ Better(a, r) \in Nat
    BY DEF Better
  <1>2. q * Better(a, t) \in Nat /\ q * Better(a, r) \in Nat
    BY <1>1, ProductNat
  <1>3. CASE t <= r
    <2>1. Better(a, t) <= Better(a, r)
      BY <1>3 DEF Better
    <2> QED
      BY <1>1, <1>2, <1>3, <2>1, ProductGrows
  <1>4. CASE r < t
    <2> DEFINE d == t - r
    <2>1. d \in Nat /\ Better(a, t) <= Better(a, r) + d
      BY <1>4 DEF Better
    <2> HIDE DEF d
    <2>2. q * Better(a, t) <= q * (Better(a, r) + d)
      BY <1>1, <2>1, ProductGrows
    <2>3. q * (Better(a, r) + d) = q * Better(a, r) + q * d
      BY <1>1, <2>1
    <2> QED
      BY <1>2, <1>4, <2>2, <2>3 DEF d
  <1> QED
    BY <1>2, <1>3, <1>4

-----------------------------------------------------------------------------
(* The session: its equity is what the account shows, and its positions,   *)
(* each at the better of its average and its quote, are covered.           *)

Accounts ==
  [cash : Int, equity : Int, positions : [Markets -> [quantity : Nat, average : Nat]]]
Reports == [submitted : 0 .. MaxOrders, processed : Nat, rejected : Nat, fees : Nat]

Worths(positions) ==
  [s \in Markets |-> positions[s].quantity * Better(positions[s].average, quotes[s])]

Covered(cash, positions, fees, gains) ==
  cash + SumFunctionOnSet(Worths(positions), Markets) <= StartingEquity - fees + gains

SoundSession(x) ==
  /\ x \in [account : Accounts, statistics : Reports, edge : Nat]
  /\ x.account.equity = Equity(x.account.cash, x.account.positions)
  /\ Covered(x.account.cash, x.account.positions, x.statistics.fees, x.edge)

(* A fill the simulator can make up at these quotes.                       *)
SoundFill(fill) ==
  /\ fill.symbol \in Markets /\ fill.side \in {"buy", "sell"}
  /\ fill.quantity \in Nat /\ fill.price \in Nat /\ fill.fees \in Nat
  /\ fill.status # "rejected" => fill.quantity # 0
  /\ fill.side = "buy" => quotes[fill.symbol] <= fill.price
  /\ fill.side = "sell" => fill.price <= quotes[fill.symbol]

LEMMA MarketsFinite == IsFiniteSet(Markets)
  BY AccountAssumption

LEMMA PricesTyped == \A p \in Prices : p \in Nat
  BY AccountAssumption

LEMMA QuantitiesTyped == \A q \in Quantities : q \in Nat \ {0}
  BY AccountAssumption

LEMMA SlippagesTyped == \A h \in Slippages : h \in Nat /\ h <= 10000
  BY AccountAssumption

LEMMA AmountsTyped == StartingEquity \in Nat /\ FeeRate \in Nat
  BY AccountAssumption

LEMMA FillsAreSound ==
  ASSUME quotes \in Market, NEW order \in SimulatedOrders, NEW fill \in SimulatedFills(order)
  PROVE  SoundFill(fill)
  <1>1. PICK f \in FillQuantities(order.quantity), slippage \in Slippages :
          fill = [symbol |-> order.symbol, side |-> order.side, quantity |-> f[1],
                  status |-> f[2], price |-> ExecutedPrice(order, slippage),
                  fees |-> Percent(f[1] * ExecutedPrice(order, slippage), FeeRate)]
    BY DEF SimulatedFills
  <1>2. order.symbol \in Markets /\ order.side \in {"buy", "sell"}
                                 /\ order.quantity \in Nat \ {0}
    BY QuantitiesTyped DEF SimulatedOrders
  <1>3. f[1] \in Nat /\ (f[2] # "rejected" => f[1] # 0)
    BY <1>2 DEF FillQuantities
  <1>4. quotes[order.symbol] \in Nat /\ slippage \in Nat /\ slippage <= 10000
    BY <1>2, PricesTyped, SlippagesTyped DEF Market
  <1> DEFINE price == ExecutedPrice(order, slippage)
             slipped == Percent(quotes[order.symbol], slippage)
  <1>5. slipped \in Nat /\ slipped <= quotes[order.symbol]
    BY <1>4, PercentTyped
  <1>6. price = IF order.side = "buy" THEN quotes[order.symbol] + slipped
                ELSE quotes[order.symbol] - slipped
    BY DEF ExecutedPrice
  <1> HIDE DEF price, slipped
  <1>7. /\ price \in Nat
        /\ order.side = "buy" => quotes[order.symbol] <= price
        /\ order.side = "sell" => price <= quotes[order.symbol]
    BY <1>4, <1>5, <1>6
  <1>8. Percent(f[1] * price, FeeRate) \in Nat
    <2>1. f[1] * price * FeeRate \in Nat
      BY <1>3, <1>7, AmountsTyped, ProductNat
    <2> DEFINE n == f[1] * price * FeeRate
    <2>2. Percent(f[1] * price, FeeRate) = n \div 10000 /\ n \in Nat
      BY <2>1 DEF Percent
    <2> HIDE DEF n
    <2> QED
      BY <2>2
  <1>9. fill.symbol = order.symbol /\ fill.side = order.side /\ fill.quantity = f[1]
        /\ fill.status = f[2] /\ fill.price = price
        /\ fill.fees = Percent(f[1] * price, FeeRate)
    BY <1>1 DEF price
  <1> QED
    BY <1>2, <1>3, <1>7, <1>8, <1>9 DEF SoundFill

LEMMA WorthsTyped ==
  ASSUME quotes \in Market, NEW positions \in [Markets -> [quantity : Nat, average : Nat]]
  PROVE  /\ \A s \in Markets : Worths(positions)[s] \in Nat
         /\ SumFunctionOnSet(Worths(positions), Markets) \in Int
  <1>1. ASSUME NEW s \in Markets PROVE Worths(positions)[s] \in Nat
    <2>1. positions[s].quantity \in Nat /\ Better(positions[s].average, quotes[s]) \in Nat
      BY PricesTyped DEF Market, Better
    <2> QED
      BY <2>1, ProductNat DEF Worths
  <1>2. IsFiniteSet(Markets) /\ \A s \in Markets : Worths(positions)[s] \in Int
    BY <1>1, MarketsFinite
  <1>3. CASE Markets = {}
    BY <1>3, EmptySum
  <1>4. CASE Markets # {}
    <2> DEFINE w == Worths(positions)
    <2>1. IsFiniteSet(Markets) /\ \A s \in Markets : w[s] \in Int
      BY <1>2
    <2> HIDE DEF w
    <2>2. SumFunctionOnSet(w, Markets) \in Int
      BY <1>4, <2>1, SumWithout
    <2> QED
      BY <1>1, <2>2 DEF w
  <1> QED
    BY <1>1, <1>3, <1>4

LEMMA EquityTyped ==
  ASSUME NEW cash \in Int, NEW positions \in [Markets -> [quantity : Nat, average : Nat]]
  PROVE  Equity(cash, positions) \in Int
  <1> DEFINE v == [s \in Markets |-> positions[s].quantity * positions[s].average]
  <1>1. \A s \in Markets : v[s] \in Int
    BY ProductNat
  <1> HIDE DEF v
  <1>2. SumFunctionOnSet(v, Markets) \in Int
    <2>1. CASE Markets = {}
      BY <2>1, EmptySum
    <2>2. CASE Markets # {}
      BY <1>1, <2>2, MarketsFinite, SumWithout
    <2> QED
      BY <2>1, <2>2
  <1> QED
    BY <1>2 DEF Equity, v

(* One position changes, and cash with it.                                 *)
LEMMA CoveredAfter ==
  ASSUME quotes \in Market, NEW positions \in [Markets -> [quantity : Nat, average : Nat]],
         NEW s \in Markets, NEW p \in [quantity : Nat, average : Nat],
         NEW cash \in Int, NEW fees \in Nat, NEW gains \in Nat,
         NEW paid \in Int, NEW fee \in Nat, NEW unheld \in Nat,
         Covered(cash, positions, fees, gains),
         p.quantity * Better(p.average, quotes[s]) + paid <= Worths(positions)[s] + unheld
  PROVE  Covered(cash + paid - fee, [positions EXCEPT ![s] = p], fees + fee, gains + unheld)
  <1> DEFINE after == [positions EXCEPT ![s] = p]
             w == Worths(positions)
             u == Worths(after)
  <1>1. after \in [Markets -> [quantity : Nat, average : Nat]]
    OBVIOUS
  <1>2. u[s] = p.quantity * Better(p.average, quotes[s]) /\ \A x \in Markets \ {s} : w[x] = u[x]
    BY DEF Worths
  <1> HIDE DEF after
  <1>3. \A x \in Markets : w[x] \in Nat /\ u[x] \in Nat
    BY <1>1, WorthsTyped
  <1>4. SumFunctionOnSet(w, Markets) \in Int /\ SumFunctionOnSet(u, Markets) \in Int
    BY <1>1, WorthsTyped
  <1>5. u[s] + paid <= w[s] + unheld
    BY <1>2
  <1> HIDE DEF w, u
  <1>6. SumFunctionOnSet(u, Markets) = SumFunctionOnSet(w, Markets) - w[s] + u[s]
    BY <1>2, <1>3, MarketsFinite, SumOneChanged
  <1>7. cash + SumFunctionOnSet(w, Markets) <= StartingEquity - fees + gains
    BY DEF Covered, w
  <1>8. (cash + paid - fee) + SumFunctionOnSet(u, Markets)
          <= StartingEquity - (fees + fee) + (gains + unheld)
    BY <1>3, <1>4, <1>5, <1>6, <1>7, AmountsTyped
  <1> QED
    BY <1>8 DEF Covered, u, after

(* What one fill makes of the position it is for, in either direction.     *)
LEMMA PositionAfter ==
  ASSUME NEW position \in [quantity : Nat, average : Nat], NEW r \in Nat,
         NEW fill, fill.side \in {"buy", "sell"}, fill.quantity \in Nat \ {0},
         fill.price \in Nat,
         fill.side = "buy" => r <= fill.price, fill.side = "sell" => fill.price <= r
  PROVE  LET p    == IF fill.side = "buy" THEN Bought(position, fill) ELSE Sold(position, fill)
             paid == IF fill.side = "buy" THEN -(fill.price * fill.quantity)
                     ELSE fill.price * fill.quantity
         IN /\ p \in [quantity : Nat, average : Nat]
            /\ paid \in Int /\ Unheld(position, fill) \in Nat
            /\ p.quantity * Better(p.average, r) + paid
                 <= position.quantity * Better(position.average, r) + Unheld(position, fill)
  <1> DEFINE q == position.quantity
             a == position.average
             f == fill.quantity
             c == fill.price
             w == q * Better(a, r)
  <1>1. q \in Nat /\ a \in Nat /\ f \in Nat \ {0} /\ c \in Nat
    OBVIOUS
  <1>2. w \in Nat /\ c * f = f * c /\ f * c \in Nat /\ c * f \in Nat
    <2>1. Better(a, r) \in Nat
      BY <1>1 DEF Better
    <2>2. \A x, y \in Nat : x * y = y * x /\ x * y \in Nat
      OBVIOUS
    <2> QED
      BY <1>1, <2>1, <2>2
  <1>3. CASE fill.side = "buy"
    <2> DEFINE b == (q * a + f * c) \div (q + f)
    <2>1. b \in Nat /\ (q + f) * Better(b, r) <= w + f * c
      BY <1>1, <1>3, BuyingAddsNoWorth
    <2>2. Bought(position, fill) = [quantity |-> q + f, average |-> b]
      BY DEF Bought
    <2>3. Unheld(position, fill) = 0
      BY <1>3 DEF Unheld
    <2> HIDE DEF q, a, f, c, w, b
    <2>4. (q + f) * Better(b, r) \in Nat
      <3>1. Better(b, r) \in Nat /\ q + f \in Nat
        BY <1>1, <2>1 DEF Better
      <3> QED
        BY <3>1, ProductNat
    <2>5. (q + f) * Better(b, r) + (-(c * f)) <= w + 0
      BY <1>2, <2>1, <2>4
    <2>6. q + f \in Nat
      BY <1>1
    <2> QED
      BY <1>2, <1>3, <2>1, <2>2, <2>3, <2>5, <2>6 DEF q, a, f, c, w
  <1>4. CASE fill.side = "sell"
    <2>1. /\ f < q => (q - f) * Better(a, r) + f * c <= w
          /\ f >= q => f * c <= w + (f - q) * c
      BY <1>1, <1>4, SellingAddsNoWorth
    <2>2. fill.side # "buy"
      BY <1>4
    <2>3. CASE f < q
      <3>1. Sold(position, fill) = [quantity |-> q - f, average |-> a]
        BY <1>1, <2>3 DEF Sold
      <3>2. Unheld(position, fill) = 0
        BY <1>1, <2>3 DEF Unheld
      <3> HIDE DEF q, a, f, c, w
      <3>3. q - f \in Nat /\ w + 0 = w
        BY <1>1, <1>2, <2>3
      <3> QED
        BY <1>1, <1>2, <2>1, <2>2, <2>3, <3>1, <3>2, <3>3 DEF q, a, f, c, w
    <2>4. CASE f >= q
      <3>1. Sold(position, fill) = [quantity |-> 0, average |-> 0]
        BY <2>4 DEF Sold, Flat
      <3>2. Unheld(position, fill) = (f - q) * c
        <4>1. CASE f = q
          <5>1. Unheld(position, fill) = 0
            BY <1>1, <4>1 DEF Unheld
          <5>2. (f - q) * c = 0
            BY <1>1, <4>1
          <5> QED
            BY <5>1, <5>2
        <4>2. CASE f # q
          BY <1>1, <1>4, <2>4, <4>2 DEF Unheld
        <4> QED
          BY <4>1, <4>2
      <3> HIDE DEF q, a, f, c, w
      <3>3. (f - q) * c \in Nat
        <4>1. f - q \in Nat
          BY <1>1, <2>4
        <4> QED
          BY <1>1, <4>1, ProductNat
      <3>4. 0 * Better(0, r) + c * f <= w + (f - q) * c
        <4>1. 0 * Better(0, r) = 0
          BY DEF Better
        <4> QED
          BY <1>2, <2>1, <2>4, <3>3, <4>1
      <3> QED
        BY <1>2, <2>2, <3>1, <3>2, <3>3, <3>4 DEF q, a, f, c, w
    <2> QED
      BY <1>1, <2>3, <2>4
  <1> QED
    BY <1>3, <1>4

LEMMA FillKeepsSound ==
  ASSUME quotes \in Market, NEW x, SoundSession(x), NEW fill, SoundFill(fill)
  PROVE  SoundSession(ProcessFill(x, fill))
  <1> DEFINE y == ProcessFill(x, fill)
             cash == x.account.cash
             positions == x.account.positions
             s == fill.symbol
  <1>1. /\ x \in [account : Accounts, statistics : Reports, edge : Nat]
        /\ x.account.equity = Equity(cash, positions)
        /\ Covered(cash, positions, x.statistics.fees, x.edge)
    BY DEF SoundSession
  <1>2. /\ cash \in Int /\ positions \in [Markets -> [quantity : Nat, average : Nat]]
        /\ x.statistics \in Reports /\ x.edge \in Nat /\ x.account \in Accounts
    BY <1>1 DEF Accounts
  <1>3. CASE fill.status = "rejected"
    <2> DEFINE report == [x.statistics EXCEPT !.rejected = @ + 1]
    <2>1. report \in Reports /\ report.fees = x.statistics.fees
      BY <1>2 DEF Reports
    <2>2. y = [x EXCEPT !.statistics = report]
      BY <1>3 DEF ProcessFill
    <2> HIDE DEF y, report
    <2>3. y = [account |-> x.account, statistics |-> report, edge |-> x.edge]
      BY <1>1, <2>2
    <2> QED
      BY <1>1, <1>2, <2>1, <2>3 DEF SoundSession, y
  <1>4. CASE fill.status # "rejected"
    <2> DEFINE p == IF fill.side = "buy" THEN Bought(positions[s], fill)
                    ELSE Sold(positions[s], fill)
               paid == IF fill.side = "buy" THEN -(fill.price * fill.quantity)
                       ELSE fill.price * fill.quantity
               unheld == Unheld(positions[s], fill)
               after == [positions EXCEPT ![s] = p]
               rest == cash + paid - fill.fees
    <2>1. /\ s \in Markets /\ fill.side \in {"buy", "sell"} /\ fill.quantity \in Nat \ {0}
          /\ fill.price \in Nat /\ fill.fees \in Nat
          /\ fill.side = "buy" => quotes[s] <= fill.price
          /\ fill.side = "sell" => fill.price <= quotes[s]
      BY <1>4 DEF SoundFill
    <2>2. quotes[s] \in Nat /\ positions[s] \in [quantity : Nat, average : Nat]
      BY <1>2, <2>1, PricesTyped DEF Market
    <2>3. /\ p \in [quantity : Nat, average : Nat] /\ paid \in Int /\ unheld \in Nat
          /\ p.quantity * Better(p.average, quotes[s]) + paid
               <= positions[s].quantity * Better(positions[s].average, quotes[s]) + unheld
      BY <2>1, <2>2, PositionAfter
    <2>4. Worths(positions)[s] = positions[s].quantity * Better(positions[s].average, quotes[s])
      BY <2>1 DEF Worths
    <2>5. ApplyFillTo(x.account, fill)
            = [cash |-> rest, positions |-> after, equity |-> Equity(rest, after)]
      <3>1. rest = IF fill.side = "buy" THEN cash - (fill.price * fill.quantity + fill.fees)
                   ELSE cash + (fill.price * fill.quantity - fill.fees)
        <4> DEFINE gross == fill.price * fill.quantity
        <4>1. gross \in Int
          BY <2>1, ProductNat
        <4> HIDE DEF gross
        <4> QED
          BY <1>2, <2>1, <4>1 DEF gross
      <3>2. after = [x.account.positions EXCEPT ![fill.symbol] =
                       IF fill.side = "buy" THEN Bought(@, fill) ELSE Sold(@, fill)]
        OBVIOUS
      <3> QED
        BY <3>1, <3>2, Zenon DEF ApplyFillTo
    <2>6. y = [account |-> [cash |-> rest, positions |-> after, equity |-> Equity(rest, after)],
               statistics |-> [x.statistics EXCEPT !.processed = @ + 1, !.fees = @ + fill.fees],
               edge |-> x.edge + unheld]
      BY <1>4, <2>5, Zenon DEF ProcessFill
    <2> HIDE DEF y, p, paid, unheld, cash, positions, s
    <2>7. Covered(rest, after, x.statistics.fees + fill.fees, x.edge + unheld)
      <3>1. x.statistics.fees \in Nat
        BY <1>2 DEF Reports
      <3>2. p.quantity * Better(p.average, quotes[s]) + paid <= Worths(positions)[s] + unheld
        BY <2>3, <2>4
      <3> QED
        BY <1>1, <1>2, <2>1, <2>3, <3>1, <3>2, CoveredAfter
    <2>8. after \in [Markets -> [quantity : Nat, average : Nat]] /\ rest \in Int
      BY <1>2, <2>1, <2>3
    <2> HIDE DEF after, rest
    <2>9. Equity(rest, after) \in Int
      BY <2>8, EquityTyped
    <2> DEFINE report == [x.statistics EXCEPT !.processed = @ + 1, !.fees = @ + fill.fees]
    <2>10. report \in Reports /\ report.fees = x.statistics.fees + fill.fees
      <3> DEFINE old == x.statistics
      <3>1. /\ old \in [submitted : 0 .. MaxOrders, processed : Nat, rejected : Nat, fees : Nat]
            /\ fill.fees \in Nat
        BY <1>2, <2>1 DEF Reports
      <3> HIDE DEF old
      <3>2. old.processed + 1 \in Nat /\ old.fees + fill.fees \in Nat
        BY <3>1
      <3> QED
        BY <3>1, <3>2 DEF Reports, old
    <2>11. y.account \in Accounts /\ y.edge \in Nat
      BY <1>2, <2>3, <2>6, <2>8, <2>9 DEF Accounts
    <2>12. y.statistics = report
      BY <2>6
    <2> HIDE DEF report
    <2> QED
      BY <2>6, <2>7, <2>10, <2>11, <2>12 DEF SoundSession, y
  <1> QED
    BY <1>3, <1>4

-----------------------------------------------------------------------------
(* A batch: the loop over its fills. *)

LEMMA BatchKeepsSound ==
  ASSUME quotes \in Market, NEW base, SoundSession(base), NEW n \in Nat, NEW fills,
         DOMAIN fills = 1 .. n, \A i \in 1 .. n : SoundFill(fills[i])
  PROVE  SoundSession(FoldLeft(ProcessFill, base, fills))
  <1> DEFINE D == 1 .. n
             V == {x \in [account : Accounts, statistics : Reports, edge : Nat] : SoundSession(x)}
             O == [p \in V \X D |-> ProcessFill(p[1], fills[p[2]])]
             pick == [s \in SUBSET D |-> Max(s)]
             IsFold(g) == g = [s \in SUBSET D |->
                                 IF s = {} THEN base
                                 ELSE LET x == Max(s) IN ProcessFill(g[s \ {x}], fills[x])]
             h == CHOOSE h : IsFold(h)
  <1>1. \A x : x \in V <=> SoundSession(x)
    BY DEF SoundSession
  <1>2. \A v \in V, d \in D : ProcessFill(v, fills[d]) \in V
    <2> SUFFICES ASSUME NEW v \in V, NEW d \in D PROVE ProcessFill(v, fills[d]) \in V
      OBVIOUS
    <2>1. SoundSession(v) /\ SoundFill(fills[d])
      BY <1>1
    <2>2. SoundSession(ProcessFill(v, fills[d]))
      BY <2>1, FillKeepsSound
    <2> QED
      BY <1>1, <2>2
  <1>3. IsFiniteSet(D) /\ \A s \in SUBSET D : s # {} => Max(s) \in s
    <2>1. IsFiniteSet(D)
      BY FS_Interval
    <2>2. \A s \in SUBSET D : s # {} => Max(s) \in s
      BY MaxIsIn
    <2> QED
      BY <2>1, <2>2
  <1> HIDE DEF V, D
  <1>4. O \in [V \X D -> V] /\ \A v \in V, d \in D : O[v, d] = ProcessFill(v, fills[d])
    BY <1>2
  <1>5. \A s \in SUBSET D : pick[s] = Max(s)
    OBVIOUS
  <1>6. base \in V
    BY <1>1
  <1> HIDE DEF O, pick
  <1>7. PICK g \in [SUBSET D -> V] : Folds_(g, D, base, pick, O)
    <2>1. \A s \in SUBSET D : s # {} => pick[s] \in s
      BY <1>3, <1>5
    <2> QED
      BY <1>3, <1>4, <1>6, <2>1, FoldExists
  <1>8. \A s \in SUBSET D :
          g[s] = IF s = {} THEN base ELSE ProcessFill(g[s \ {Max(s)}], fills[Max(s)])
    <2> SUFFICES ASSUME NEW s \in SUBSET D, s # {}
                 PROVE  g[s] = ProcessFill(g[s \ {Max(s)}], fills[Max(s)])
      BY <1>7 DEF Folds_
    <2>1. g[s] = O[g[s \ {Max(s)}], Max(s)]
      BY <1>5, <1>7 DEF Folds_
    <2>2. Max(s) \in D /\ g[s \ {Max(s)}] \in V
      BY <1>3
    <2> QED
      BY <1>4, <2>1, <2>2
  <1>9. IsFold(g)
    BY <1>8, Zenon
  <1>10. IsFold(h)
    BY <1>9, Zenon
  <1>11. FoldLeft(ProcessFill, base, fills) = h[DOMAIN fills]
    BY Zenon DEF FoldLeft, MapThenFoldSet, D
  <1> HIDE DEF h
  <1>12. \A s \in SUBSET D :
           h[s] = IF s = {} THEN base ELSE ProcessFill(h[s \ {Max(s)}], fills[Max(s)])
    BY <1>10, Zenon
  <1> DEFINE B == {s \in SUBSET D : h[s] \notin V}
  <1>13. B = {}
    <2> SUFFICES ASSUME B # {} PROVE FALSE
      OBVIOUS
    <2>1. B \in SUBSET (SUBSET D)
      OBVIOUS
    <2> HIDE DEF B
    <2>2. PICK s \in B : \A u \in B : u \subseteq s => u = s
      BY <1>3, <2>1, SmallestSubset
    <2>3. s \in SUBSET D /\ h[s] \notin V
      BY <2>2 DEF B
    <2>4. s # {}
      BY <1>6, <1>12, <2>3
    <2>5. Max(s) \in s /\ Max(s) \in D
      BY <1>3, <2>3, <2>4
    <2>6. h[s \ {Max(s)}] \in V
      <3>1. s \ {Max(s)} \notin B
        BY <2>2, <2>5
      <3> QED
        BY <2>3, <3>1 DEF B
    <2> QED
      BY <1>2, <1>12, <2>3, <2>4, <2>5, <2>6
  <1> QED
    BY <1>1, <1>11, <1>13 DEF D

-----------------------------------------------------------------------------
(* The account, from step to step. *)

LEMMA BoundsTyped == MaxOrders \in Nat /\ MaxMoves \in Nat /\ MaxBatch \in Nat
  BY AccountAssumption

Session == [account |-> account, statistics |-> statistics, edge |-> edge]

AccountInv == AccountTypeOK /\ SoundSession(Session)

LEMMA AccountStarts == AccountInit => AccountInv
  <1> SUFFICES ASSUME AccountInit PROVE AccountInv
    OBVIOUS
  <1> DEFINE flat == [s \in Markets |-> Flat]
             v == [s \in Markets |-> flat[s].quantity * flat[s].average]
             w == Worths(flat)
  <1>1. /\ account = [cash |-> StartingEquity, equity |-> StartingEquity, positions |-> flat]
        /\ statistics = [submitted |-> 0, processed |-> 0, rejected |-> 0, fees |-> 0]
        /\ quotes \in Market /\ moves = 0 /\ edge = 0
    BY DEF AccountInit
  <1>2. \A s \in Markets : v[s] = 0 /\ w[s] = 0
    <2> SUFFICES ASSUME NEW s \in Markets PROVE v[s] = 0 /\ w[s] = 0
      OBVIOUS
    <2>1. flat[s].quantity = 0 /\ flat[s].average = 0
      BY DEF Flat
    <2>2. Better(0, quotes[s]) \in Nat
      BY <1>1, PricesTyped DEF Better, Market
    <2> QED
      BY <2>1, <2>2 DEF Worths
  <1>3. flat \in [Markets -> [quantity : Nat, average : Nat]]
    BY DEF Flat
  <1>4. SumFunctionOnSet(v, Markets) = 0 /\ SumFunctionOnSet(w, Markets) = 0
    <2> HIDE DEF v, w
    <2> QED
      BY <1>2, MarketsFinite, SumOfNothing
  <1>5. Equity(StartingEquity, flat) = StartingEquity
    <2>1. Equity(StartingEquity, flat) = StartingEquity + SumFunctionOnSet(v, Markets)
      BY DEF Equity
    <2> HIDE DEF v
    <2> QED
      BY <1>4, <2>1, AmountsTyped
  <1>6. Covered(StartingEquity, flat, 0, 0)
    <2> HIDE DEF flat
    <2> QED
      BY <1>4, AmountsTyped DEF Covered
  <1> HIDE DEF flat, v, w
  <1>7. account \in Accounts /\ statistics \in Reports /\ edge \in Nat
    BY <1>1, <1>3, AmountsTyped, BoundsTyped DEF Accounts, Reports
  <1>8. SoundSession(Session)
    BY <1>1, <1>5, <1>6, <1>7 DEF SoundSession, Session
  <1>9. AccountTypeOK
    BY <1>1, <1>7, BoundsTyped DEF AccountTypeOK, Accounts, Reports
  <1> QED
    BY <1>8, <1>9 DEF AccountInv

LEMMA BatchKeeps ==
  ASSUME AccountInv, NEW orders \in SeqOf(SimulatedOrders, MaxBatch), ProcessOrders(orders)
  PROVE  AccountInv'
  <1>1. PICK n \in Nat : orders \in [1 .. n -> SimulatedOrders]
    BY BoundsTyped DEF SeqOf
  <1>2. Len(orders) = n /\ DOMAIN orders = 1 .. n
    BY <1>1
  <1>3. PICK fills \in [DOMAIN orders -> UNION {SimulatedFills(o) : o \in Range(orders)}] :
          /\ \A i \in DOMAIN orders : fills[i] \in SimulatedFills(orders[i])
          /\ account' = FoldLeft(ProcessFill, Submitted(orders), fills).account
          /\ statistics' = FoldLeft(ProcessFill, Submitted(orders), fills).statistics
          /\ edge' = FoldLeft(ProcessFill, Submitted(orders), fills).edge
    BY Zenon DEF ProcessOrders
  <1>4. statistics.submitted + n <= MaxOrders /\ quotes' = quotes /\ moves' = moves
    BY <1>2 DEF ProcessOrders
  <1>5. /\ quotes \in Market /\ moves \in 0 .. MaxMoves
        /\ SoundSession(Session)
    BY DEF AccountInv, AccountTypeOK
  <1> DEFINE base == Submitted(orders)
             last == FoldLeft(ProcessFill, base, fills)
  <1>6. SoundSession(base)
    <2>1. /\ account \in Accounts /\ statistics \in Reports /\ edge \in Nat
          /\ account.equity = Equity(account.cash, account.positions)
          /\ Covered(account.cash, account.positions, statistics.fees, edge)
      BY <1>5 DEF SoundSession, Session
    <2> DEFINE report == [statistics EXCEPT !.submitted = @ + Len(orders)]
    <2>2. report \in Reports /\ report.fees = statistics.fees
      <3>1. statistics.submitted + Len(orders) \in 0 .. MaxOrders
        BY <1>1, <1>2, <1>4, <2>1, BoundsTyped DEF Reports
      <3> QED
        BY <2>1, <3>1 DEF Reports
    <2>3. base = [account |-> account, edge |-> edge, statistics |-> report]
      BY DEF Submitted
    <2> HIDE DEF base, report
    <2> QED
      BY <2>1, <2>2, <2>3 DEF SoundSession
  <1>7. \A i \in 1 .. n : SoundFill(fills[i])
    <2> SUFFICES ASSUME NEW i \in 1 .. n PROVE SoundFill(fills[i])
      OBVIOUS
    <2>1. orders[i] \in SimulatedOrders /\ fills[i] \in SimulatedFills(orders[i])
      BY <1>1, <1>2, <1>3
    <2> QED
      BY <1>5, <2>1, FillsAreSound
  <1>8. DOMAIN fills = 1 .. n
    BY <1>2, <1>3
  <1> HIDE DEF base
  <1>9. SoundSession(last)
    BY <1>5, <1>6, <1>7, <1>8, BatchKeepsSound
  <1>10. account' = last.account /\ statistics' = last.statistics /\ edge' = last.edge
    BY <1>3, Zenon DEF base
  <1> HIDE DEF last
  <1>11. /\ account' \in Accounts /\ statistics' \in Reports /\ edge' \in Nat
         /\ account'.equity = Equity(account'.cash, account'.positions)
         /\ Covered(account'.cash, account'.positions, statistics'.fees, edge')
    BY <1>9, <1>10 DEF SoundSession
  <1>12. Covered(account.cash, account.positions, statistics.fees, edge)'
    BY <1>4, <1>11 DEF Covered, Worths
  <1>13. SoundSession(Session)'
    BY <1>11, <1>12 DEF SoundSession, Session, Accounts, Reports, Equity
  <1>14. AccountTypeOK'
    BY <1>4, <1>5, <1>11 DEF AccountTypeOK, Accounts, Reports, Market
  <1> QED
    BY <1>13, <1>14 DEF AccountInv

LEMMA QuoteKeeps ==
  ASSUME AccountInv, NEW symbol \in Markets, NEW price \in Prices, Quote(symbol, price)
  PROVE  AccountInv'
  <1> DEFINE positions == account.positions
             w == Worths(positions)
             u == [s \in Markets |-> positions[s].quantity
                                        * Better(positions[s].average, quotes'[s])]
             old == quotes[symbol]
             rise == IF price <= old THEN 0 ELSE positions[symbol].quantity * (price - old)
  <1>1. /\ account \in Accounts /\ statistics \in Reports /\ edge \in Nat
        /\ account.equity = Equity(account.cash, account.positions)
        /\ Covered(account.cash, account.positions, statistics.fees, edge)
    BY DEF AccountInv, SoundSession, Session
  <1>2. quotes \in Market /\ moves \in 0 .. MaxMoves
    BY DEF AccountInv, AccountTypeOK
  <1>3. /\ account' = account /\ statistics' = statistics /\ edge' = edge + rise
        /\ moves' = moves + 1 /\ moves < MaxMoves
        /\ quotes' = [quotes EXCEPT ![symbol] = price]
    BY DEF Quote
  <1>4. quotes' \in Market
    BY <1>2, <1>3 DEF Market
  <1>5. positions \in [Markets -> [quantity : Nat, average : Nat]] /\ account.cash \in Int
    BY <1>1 DEF Accounts
  <1>6. \A s \in Markets : positions[s].quantity \in Nat /\ positions[s].average \in Nat
                             /\ quotes[s] \in Nat /\ quotes'[s] \in Nat
    BY <1>2, <1>4, <1>5, PricesTyped DEF Market
  <1>7. \A s \in Markets : w[s] \in Nat
    BY <1>2, <1>5, WorthsTyped
  <1>8. rise \in Nat /\ u[symbol] \in Nat /\ u[symbol] <= w[symbol] + rise
    <2> DEFINE q == positions[symbol].quantity
               a == positions[symbol].average
    <2>1. q \in Nat /\ a \in Nat /\ old \in Nat /\ price \in Nat /\ quotes'[symbol] = price
      BY <1>2, <1>3, <1>6 DEF Market
    <2>2. u[symbol] = q * Better(a, price) /\ w[symbol] = q * Better(a, old)
      BY <2>1 DEF Worths
    <2>3. rise = IF price <= old THEN 0 ELSE q * (price - old)
      OBVIOUS
    <2> HIDE DEF q, a, old, rise, u, w
    <2>4. rise \in Nat
      <3>1. CASE price <= old
        BY <2>3, <3>1
      <3>2. CASE ~(price <= old)
        <4>1. price - old \in Nat
          BY <2>1, <3>2
        <4> QED
          BY <2>1, <2>3, <3>2, <4>1, ProductNat
      <3> QED
        BY <3>1, <3>2
    <2>5. q * Better(a, price) \in Nat /\ q * Better(a, price) <= q * Better(a, old) + rise
      BY <2>1, <2>3, QuoteMovesWorth
    <2> QED
      BY <2>2, <2>4, <2>5
  <1>9. \A s \in Markets \ {symbol} : u[s] = w[s]
    BY <1>2, <1>3 DEF Worths, Market
  <1>10. \A s \in Markets : u[s] \in Int /\ w[s] \in Int
    BY <1>7, <1>8, <1>9
  <1>11. Worths(account.positions)' = u
    BY <1>3 DEF Worths
  <1>12. account.cash + SumFunctionOnSet(w, Markets) <= StartingEquity - statistics.fees + edge
    BY <1>1 DEF Covered
  <1>13. statistics.fees \in Nat
    BY <1>1 DEF Reports
  <1>14. SumFunctionOnSet(w, Markets) \in Int
    BY <1>2, <1>5, WorthsTyped
  <1> HIDE DEF w, u, rise
  <1>15. SumFunctionOnSet(u, Markets) = SumFunctionOnSet(w, Markets) - w[symbol] + u[symbol]
    BY <1>9, <1>10, MarketsFinite, SumOneChanged
  <1>16. account.cash + SumFunctionOnSet(u, Markets)
           <= StartingEquity - statistics.fees + (edge + rise)
    BY <1>1, <1>5, <1>7, <1>8, <1>12, <1>13, <1>14, <1>15, AmountsTyped
  <1>17. Covered(account.cash, account.positions, statistics.fees, edge)'
    BY <1>3, <1>11, <1>16 DEF Covered
  <1>18. edge' \in Nat /\ moves' \in 0 .. MaxMoves
    BY <1>1, <1>2, <1>3, <1>8, BoundsTyped
  <1>19. SoundSession(Session)'
    BY <1>1, <1>3, <1>17, <1>18 DEF SoundSession, Session, Accounts, Reports, Equity
  <1>20. AccountTypeOK'
    BY <1>1, <1>3, <1>4, <1>18 DEF AccountTypeOK, Accounts, Reports, Market
  <1> QED
    BY <1>19, <1>20 DEF AccountInv

LEMMA SoundShowsNoEdge == AccountInv => NoEdgeOnPaper
  <1> SUFFICES ASSUME AccountInv PROVE NoEdgeOnPaper
    OBVIOUS
  <1> DEFINE positions == account.positions
             v == [s \in Markets |-> positions[s].quantity * positions[s].average]
             w == Worths(positions)
  <1>1. /\ account \in Accounts /\ statistics \in Reports /\ edge \in Nat
        /\ account.equity = Equity(account.cash, positions)
        /\ Covered(account.cash, positions, statistics.fees, edge)
    BY DEF AccountInv, SoundSession, Session
  <1>2. quotes \in Market
    BY DEF AccountInv, AccountTypeOK
  <1>3. positions \in [Markets -> [quantity : Nat, average : Nat]] /\ account.cash \in Int
        /\ statistics.fees \in Nat
    BY <1>1 DEF Accounts, Reports
  <1>4. \A s \in Markets : v[s] \in Int /\ w[s] \in Int /\ v[s] <= w[s]
    <2> SUFFICES ASSUME NEW s \in Markets PROVE v[s] \in Int /\ w[s] \in Int /\ v[s] <= w[s]
      OBVIOUS
    <2> DEFINE q == positions[s].quantity
               a == positions[s].average
               m == Better(a, quotes[s])
    <2>1. q \in Nat /\ a \in Nat /\ m \in Nat /\ a <= m
      BY <1>2, <1>3, PricesTyped DEF Better, Market
    <2>2. v[s] = q * a /\ w[s] = q * m
      BY DEF Worths
    <2> HIDE DEF q, a, m, v, w
    <2> QED
      BY <2>1, <2>2, ProductGrows
  <1>5. account.equity = account.cash + SumFunctionOnSet(v, Markets)
    BY <1>1 DEF Equity
  <1>6. account.cash + SumFunctionOnSet(w, Markets) <= StartingEquity - statistics.fees + edge
    BY <1>1 DEF Covered
  <1>7. SumFunctionOnSet(w, Markets) \in Int
    BY <1>2, <1>3, WorthsTyped
  <1>8. account.equity \in Int
    BY <1>1 DEF Accounts
  <1> HIDE DEF v, w
  <1>9. SumFunctionOnSet(v, Markets) <= SumFunctionOnSet(w, Markets)
    BY <1>4, MarketsFinite, SumBounds
  <1>10. SumFunctionOnSet(v, Markets) \in Int
    <2>1. CASE Markets = {}
      BY <2>1, EmptySum
    <2>2. CASE Markets # {}
      BY <1>4, <2>2, MarketsFinite, SumWithout
    <2> QED
      BY <2>1, <2>2
  <1> QED
    BY <1>1, <1>3, <1>5, <1>6, <1>7, <1>8, <1>9, <1>10, AmountsTyped DEF NoEdgeOnPaper

LEMMA AccountHolds == AccountSpec => []AccountInv
  <1>1. AccountInv /\ [AccountNext]_accountVars => AccountInv'
    <2> SUFFICES ASSUME AccountInv, [AccountNext]_accountVars PROVE AccountInv'
      OBVIOUS
    <2>1. ASSUME NEW orders \in SeqOf(SimulatedOrders, MaxBatch), ProcessOrders(orders)
          PROVE  AccountInv'
      BY <2>1, BatchKeeps
    <2>2. ASSUME NEW symbol \in Markets, NEW price \in Prices, Quote(symbol, price)
          PROVE  AccountInv'
      BY <2>2, QuoteKeeps
    <2>3. CASE UNCHANGED accountVars
      BY <2>3 DEF accountVars, AccountInv, AccountTypeOK, Market, SoundSession, Session,
                  Accounts, Reports, Equity, Covered, Worths
    <2> QED
      BY <2>1, <2>2, <2>3 DEF AccountNext
  <1> QED
    BY <1>1, AccountStarts, PTL DEF AccountSpec

(* The account, the session's statistics and the history keep their types  *)
(* through every batch and every move of the market, for every finite set  *)
(* of markets and every bound: no position of the paper session turns      *)
(* short, whatever is sold.                                                *)
THEOREM AccountTypeCorrect == AccountSpec => []AccountTypeOK
  BY AccountHolds, PTL DEF AccountInv

(* The session shows no more equity than it was given, less its fees, plus *)
(* what rising quotes added to what was held and what was paid for units   *)
(* nobody held: for every set of markets, every price, slippage, fee and   *)
(* quantity, every length of a batch and every way its orders fill.        *)
THEOREM PaperHasNoEdge == AccountSpec => []NoEdgeOnPaper
  BY AccountHolds, SoundShowsNoEdge, PTL

-----------------------------------------------------------------------------
(* Sequences: what FlattenSeq computes, from its left to its right. *)

Concatenates(f, ss, V) ==
  /\ f \in [0 .. Len(ss) -> Seq(V)] /\ f[0] = <<>>
  /\ \A i \in 1 .. Len(ss) : f[i] = f[i - 1] \o ss[i]

LEMMA FlattenConcatenates ==
  ASSUME NEW V, NEW ss \in Seq(Seq(V))
  PROVE  \E f : Concatenates(f, ss, V) /\ FlattenSeq(ss) = f[Len(ss)]
  <1> DEFINE n == Len(ss)
             Upto(m, f) == /\ f \in [0 .. m -> Seq(V)] /\ f[0] = <<>>
                           /\ \A i \in 1 .. m : f[i] = f[i - 1] \o ss[i]
             Bad == {m \in Nat : m <= n /\ ~ \E f : Upto(m, f)}
             IsFlat(h) == h = [i \in 1 .. n |-> IF i = 1 THEN ss[i] ELSE h[i - 1] \o ss[i]]
             h == CHOOSE h : IsFlat(h)
  <1>1. n \in Nat /\ \A i \in 1 .. n : ss[i] \in Seq(V) /\ <<>> \o ss[i] = ss[i]
    OBVIOUS
  <1> HIDE DEF n
  <1>2. Bad = {}
    <2> SUFFICES ASSUME Bad # {} PROVE FALSE
      OBVIOUS
    <2>1. PICK m \in Bad : \A k \in Bad : m <= k
      BY Least
    <2>2. m \in Nat /\ m <= n /\ ~ \E f : Upto(m, f)
      BY <2>1
    <2>3. m # 0
      <3> SUFFICES ASSUME m = 0 PROVE FALSE
        OBVIOUS
      <3>1. Upto(0, [i \in 0 .. 0 |-> <<>>])
        OBVIOUS
      <3> QED
        BY <2>2, <3>1
    <2>4. PICK f : Upto(m - 1, f)
      <3>1. m - 1 \in Nat /\ m - 1 <= n /\ ~(m <= m - 1)
        BY <1>1, <2>2, <2>3
      <3>2. m - 1 \notin Bad
        <4> HIDE DEF Bad
        <4> QED
          BY <2>1, <3>1
      <3> HIDE DEF Upto
      <3> QED
        BY <3>1, <3>2
    <2> DEFINE g == [i \in 0 .. m |-> IF i = m THEN f[m - 1] \o ss[m] ELSE f[i]]
    <2>5. f[m - 1] \in Seq(V) /\ ss[m] \in Seq(V)
      BY <1>1, <2>2, <2>3, <2>4
    <2>6. f[m - 1] \o ss[m] \in Seq(V)
      BY <2>5
    <2>7. \A i \in 0 .. m : g[i] = IF i = m THEN f[m - 1] \o ss[m] ELSE f[i]
      OBVIOUS
    <2>8. g \in [0 .. m -> Seq(V)]
      BY <2>2, <2>3, <2>4, <2>6
    <2> HIDE DEF g
    <2>9. Upto(m, g)
      <3>1. g[0] = <<>>
        BY <2>2, <2>3, <2>4, <2>7
      <3>2. ASSUME NEW i \in 1 .. m PROVE g[i] = g[i - 1] \o ss[i]
        <4>1. i - 1 \in 0 .. m /\ i - 1 # m /\ i \in 0 .. m /\ i - 1 \in 0 .. m - 1
          BY <2>2
        <4>2. g[i - 1] = f[i - 1]
          BY <2>7, <4>1
        <4>3. CASE i = m
          BY <2>7, <4>1, <4>2, <4>3
        <4>4. CASE i # m
          <5>1. i \in 1 .. m - 1
            BY <2>2, <4>4
          <5> QED
            BY <2>4, <2>7, <4>1, <4>2, <4>4, <5>1
        <4> QED
          BY <4>3, <4>4
      <3> QED
        BY <2>8, <3>1, <3>2
    <2> QED
      BY <2>2, <2>9
  <1>3. PICK f : Upto(n, f)
    <2>1. n \in Nat /\ n <= n
      BY <1>1
    <2> HIDE DEF Upto
    <2> QED
      BY <1>2, <2>1
  <1>4. CASE n = 0
    <2>1. ss = <<>> /\ FlattenSeq(ss) = ss
      BY <1>4 DEF n, FlattenSeq
    <2> QED
      BY <1>3, <1>4, <2>1 DEF Concatenates, n
  <1>5. CASE n # 0
    <2> DEFINE p == [i \in 1 .. n |-> f[i]]
    <2>1. IsFlat(p)
      <3>1. \A i \in 1 .. n : f[i] = IF i = 1 THEN ss[i] ELSE p[i - 1] \o ss[i]
        <4> SUFFICES ASSUME NEW i \in 1 .. n
                     PROVE  f[i] = IF i = 1 THEN ss[i] ELSE p[i - 1] \o ss[i]
          OBVIOUS
        <4>1. f[i] = f[i - 1] \o ss[i]
          BY <1>3
        <4>2. CASE i = 1
          <5>1. f[0] = <<>> /\ i - 1 = 0
            BY <1>3, <4>2
          <5> QED
            BY <1>1, <4>1, <4>2, <5>1
        <4>3. CASE i # 1
          <5>1. i - 1 \in 1 .. n
            BY <1>1, <4>3
          <5> QED
            BY <4>1, <4>3, <5>1
        <4> QED
          BY <4>2, <4>3
      <3>2. p = [i \in 1 .. n |-> IF i = 1 THEN ss[i] ELSE p[i - 1] \o ss[i]]
        BY <3>1
      <3> QED
        BY <3>2, Zenon
    <2>2. IsFlat(h)
      BY <2>1, Zenon
    <2>3. FlattenSeq(ss) = h[n]
      BY <1>5, Zenon DEF FlattenSeq, n
    <2> HIDE DEF h
    <2>4. \A i \in 1 .. n : h[i] = IF i = 1 THEN ss[i] ELSE h[i - 1] \o ss[i]
      BY <2>2, Zenon
    <2> DEFINE Off == {i \in Nat : i \in 1 .. n /\ h[i] # f[i]}
    <2>5. Off = {}
      <3> SUFFICES ASSUME Off # {} PROVE FALSE
        OBVIOUS
      <3>1. PICK i \in Off : \A k \in Off : i <= k
        BY Least
      <3>2. i \in 1 .. n /\ h[i] # f[i]
        BY <3>1
      <3>3. f[i] = f[i - 1] \o ss[i]
        BY <1>3, <3>2
      <3>4. CASE i = 1
        <4>1. f[0] = <<>> /\ i - 1 = 0
          BY <1>3, <3>4
        <4> QED
          BY <1>1, <2>4, <3>2, <3>3, <3>4, <4>1
      <3>5. CASE i # 1
        <4>1. i - 1 \in 1 .. n /\ i - 1 \in Nat /\ ~(i <= i - 1)
          BY <1>1, <3>2, <3>5
        <4>2. h[i - 1] = f[i - 1]
          BY <3>1, <4>1
        <4> QED
          BY <2>4, <3>2, <3>3, <3>5, <4>2
      <3> QED
        BY <3>4, <3>5
    <2>6. h[n] = f[n]
      <3>1. n \in 1 .. n /\ n \in Nat
        BY <1>1, <1>5
      <3> QED
        BY <2>5, <3>1
    <2> QED
      BY <1>3, <2>3, <2>6 DEF Concatenates, n
  <1> QED
    BY <1>4, <1>5

(* What a flattened sequence holds: the members of its parts and no other, *)
(* and each once if each is in one place of one part.                      *)
Once(ss) ==
  \A i, c \in DOMAIN ss : \A j \in DOMAIN ss[i], k \in DOMAIN ss[c] :
    ss[i][j].at = ss[c][k].at => i = c /\ j = k

LEMMA FlattenHolds ==
  ASSUME NEW V, NEW ss \in Seq(Seq(V))
  PROVE  LET flat == FlattenSeq(ss) IN
         /\ flat \in Seq(V)
         /\ \A i \in DOMAIN ss : \A j \in DOMAIN ss[i] : \E x \in DOMAIN flat : flat[x] = ss[i][j]
         /\ \A x \in DOMAIN flat : \E i \in DOMAIN ss : \E j \in DOMAIN ss[i] : flat[x] = ss[i][j]
         /\ Once(ss) => \A x, y \in DOMAIN flat : flat[x].at = flat[y].at => x = y
  <1>1. PICK f : Concatenates(f, ss, V) /\ FlattenSeq(ss) = f[Len(ss)]
    BY FlattenConcatenates
  <1> DEFINE n == Len(ss)
             Has(m) == \A i \in 1 .. m : \A j \in DOMAIN ss[i] :
                         \E x \in DOMAIN f[m] : f[m][x] = ss[i][j]
             From(m) == \A x \in DOMAIN f[m] : \E i \in 1 .. m : \E j \in DOMAIN ss[i] :
                          f[m][x] = ss[i][j]
             Single(m) == Once(ss) => \A x, y \in DOMAIN f[m] : f[m][x].at = f[m][y].at => x = y
             Good(m) == Has(m) /\ From(m) /\ Single(m)
             Bad == {m \in Nat : m <= n /\ ~Good(m)}
  <1>2. /\ n \in Nat /\ DOMAIN ss = 1 .. n /\ \A i \in 1 .. n : ss[i] \in Seq(V)
        /\ f[0] = <<>> /\ \A m \in 0 .. n : f[m] \in Seq(V)
        /\ \A i \in 1 .. n : f[i] = f[i - 1] \o ss[i]
    <2>1. n \in Nat /\ DOMAIN ss = 1 .. n /\ \A i \in 1 .. n : ss[i] \in Seq(V)
      OBVIOUS
    <2> HIDE DEF n
    <2>2. f \in [0 .. n -> Seq(V)] /\ f[0] = <<>> /\ \A i \in 1 .. n : f[i] = f[i - 1] \o ss[i]
      BY <1>1 DEF Concatenates, n
    <2> QED
      BY <2>1, <2>2
  <1> HIDE DEF n
  <1>3. Bad = {}
    <2> SUFFICES ASSUME Bad # {} PROVE FALSE
      OBVIOUS
    <2>1. PICK m \in Bad : \A k \in Bad : m <= k
      <3> Bad \in SUBSET Nat
        OBVIOUS
      <3> HIDE DEF Bad
      <3> QED
        BY Least
    <2>2. m \in Nat /\ m <= n /\ ~Good(m)
      BY <2>1
    <2>3. m # 0
      <3> SUFFICES ASSUME m = 0 PROVE FALSE
        OBVIOUS
      <3>1. DOMAIN f[0] = {} /\ 1 .. 0 = {}
        BY <1>2
      <3>2. Good(0)
        BY <3>1
      <3> QED
        BY <2>2, <3>2
    <2> DEFINE l == m - 1
    <2>4. l \in Nat /\ l <= n /\ ~(m <= l) /\ l + 1 = m
      BY <1>2, <2>2, <2>3
    <2>5. Good(l)
      <3>1. l \notin Bad
        <4> HIDE DEF Bad, l
        <4> QED
          BY <2>1, <2>4
      <3> HIDE DEF Good, l
      <3> QED
        BY <2>4, <3>1
    <2> DEFINE s == f[l]
               t == ss[m]
               st == f[m]
    <2>6. /\ s \in Seq(V) /\ t \in Seq(V) /\ st = s \o t
          /\ m \in 1 .. n /\ 1 .. m = (1 .. l) \cup {m} /\ m \notin 1 .. l /\ 1 .. l \subseteq 1 .. n
      <3>1. m \in 1 .. n /\ l \in 0 .. n /\ m - 1 = l
        BY <1>2, <2>2, <2>3, <2>4
      <3>2. 1 .. m = (1 .. l) \cup {m} /\ m \notin 1 .. l /\ 1 .. l \subseteq 1 .. n
        <4> m \in Nat /\ l \in Nat /\ l + 1 = m /\ n \in Nat /\ l <= n
          BY <1>2, <2>2, <2>4
        <4> HIDE DEF l
        <4> QED
          OBVIOUS
      <3> QED
        BY <1>2, <3>1, <3>2
    <2> HIDE DEF l
    <2>7. /\ \A i \in 1 .. l : \A j \in DOMAIN ss[i] : \E x \in DOMAIN s : s[x] = ss[i][j]
          /\ \A x \in DOMAIN s : \E i \in 1 .. l : \E j \in DOMAIN ss[i] : s[x] = ss[i][j]
          /\ Once(ss) => \A x, y \in DOMAIN s : s[x].at = s[y].at => x = y
      BY <2>5
    <2> HIDE DEF s, t, st
    <2>8. /\ \A x \in DOMAIN s : x \in DOMAIN st /\ st[x] = s[x]
          /\ \A j \in DOMAIN t : Len(s) + j \in DOMAIN st /\ st[Len(s) + j] = t[j]
          /\ \A x \in DOMAIN st : x \in DOMAIN s \/ x - Len(s) \in DOMAIN t
      BY <2>6
    <2>9. Has(m)
      <3> SUFFICES ASSUME NEW i \in 1 .. m, NEW j \in DOMAIN ss[i]
                   PROVE  \E x \in DOMAIN st : st[x] = ss[i][j]
        BY DEF st
      <3>1. CASE i \in 1 .. l
        BY <2>7, <2>8, <3>1
      <3>2. CASE i = m
        BY <2>8, <3>2 DEF t
      <3> QED
        BY <2>6, <3>1, <3>2
    <2>10. ASSUME NEW x \in DOMAIN st PROVE \/ /\ x \in DOMAIN s /\ st[x] = s[x]
                                               /\ \E i \in 1 .. l : \E j \in DOMAIN ss[i] : st[x] = ss[i][j]
                                            \/ \E j \in DOMAIN t : x = Len(s) + j /\ st[x] = t[j]
      <3>1. CASE x \in DOMAIN s
        BY <2>7, <2>8, <3>1
      <3>2. CASE x - Len(s) \in DOMAIN t
        <4>1. x \in Int /\ Len(s) \in Int
          BY <2>6
        <4>2. x = Len(s) + (x - Len(s))
          BY <4>1
        <4> QED
          BY <2>8, <3>2, <4>2
      <3> QED
        BY <2>8, <3>1, <3>2
    <2>11. From(m)
      BY <2>6, <2>10 DEF st, t
    <2>12. ASSUME Once(ss), NEW x \in DOMAIN st, NEW y \in DOMAIN st, st[x].at = st[y].at
           PROVE  x = y
      <3>1. ASSUME NEW i \in 1 .. l, NEW j \in DOMAIN ss[i], NEW k \in DOMAIN t
            PROVE  ss[i][j].at # t[k].at
        BY <1>2, <2>6, <2>12, <3>1 DEF Once, t
      <3>2. ASSUME NEW j \in DOMAIN t, NEW k \in DOMAIN t, t[j].at = t[k].at PROVE j = k
        <4>1. m \in DOMAIN ss /\ j \in DOMAIN ss[m] /\ k \in DOMAIN ss[m]
              /\ ss[m][j].at = ss[m][k].at
          BY <1>2, <2>6, <3>2 DEF t
        <4> QED
          BY <2>12, <4>1 DEF Once
      <3>3. \A u, v \in DOMAIN s : s[u].at = s[v].at => u = v
        BY <2>7, <2>12
      <3> QED
        <4>1. CASE x \in DOMAIN s /\ y \in DOMAIN s
          BY <2>8, <2>12, <3>3, <4>1
        <4>2. CASE x \notin DOMAIN s /\ y \notin DOMAIN s
          BY <2>10, <2>12, <3>2, <4>2
        <4>3. CASE x \in DOMAIN s /\ y \notin DOMAIN s
          <5>1. PICK i \in 1 .. l : \E j \in DOMAIN ss[i] : s[x] = ss[i][j]
            BY <2>7, <4>3
          <5>2. PICK k \in DOMAIN t : st[y] = t[k]
            BY <2>10, <4>3
          <5> QED
            BY <2>8, <2>12, <3>1, <4>3, <5>1, <5>2
        <4>4. CASE x \notin DOMAIN s /\ y \in DOMAIN s
          <5>1. PICK i \in 1 .. l : \E j \in DOMAIN ss[i] : s[y] = ss[i][j]
            BY <2>7, <4>4
          <5>2. PICK k \in DOMAIN t : st[x] = t[k]
            BY <2>10, <4>4
          <5> QED
            BY <2>8, <2>12, <3>1, <4>4, <5>1, <5>2
        <4> QED
          BY <4>1, <4>2, <4>3, <4>4
    <2>13. Single(m)
      BY <2>12 DEF st
    <2> QED
      BY <2>2, <2>9, <2>11, <2>13
  <1>4. Good(n)
    <2>1. n \in Nat /\ n <= n
      BY <1>2
    <2> HIDE DEF Good
    <2> QED
      BY <1>3, <2>1
  <1>5. f[n] \in Seq(V)
    BY <1>2
  <1>6. FlattenSeq(ss) = f[n]
    BY <1>1 DEF n
  <1> DEFINE flat == FlattenSeq(ss)
  <1>7. /\ \A i \in DOMAIN ss : \A j \in DOMAIN ss[i] : \E x \in DOMAIN flat : flat[x] = ss[i][j]
        /\ \A x \in DOMAIN flat : \E i \in DOMAIN ss : \E j \in DOMAIN ss[i] : flat[x] = ss[i][j]
        /\ Once(ss) => \A x, y \in DOMAIN flat : flat[x].at = flat[y].at => x = y
    <2>1. flat = f[n]
      BY <1>6
    <2>2. Has(n) /\ From(n) /\ Single(n) /\ DOMAIN ss = 1 .. n
      BY <1>2, <1>4
    <2> HIDE DEF flat
    <2>3. ASSUME NEW i \in DOMAIN ss, NEW j \in DOMAIN ss[i]
          PROVE  \E x \in DOMAIN flat : flat[x] = ss[i][j]
      <3>1. i \in 1 .. n
        BY <2>2
      <3>2. PICK x \in DOMAIN f[n] : f[n][x] = ss[i][j]
        BY <2>2, <3>1
      <3> QED
        BY <2>1, <3>2
    <2>4. ASSUME NEW x \in DOMAIN flat
          PROVE  \E i \in DOMAIN ss : \E j \in DOMAIN ss[i] : flat[x] = ss[i][j]
      <3>1. x \in DOMAIN f[n]
        BY <2>1
      <3>2. PICK i \in 1 .. n : \E j \in DOMAIN ss[i] : f[n][x] = ss[i][j]
        BY <2>2, <3>1
      <3> QED
        BY <2>1, <2>2, <3>2
    <2>5. Once(ss) => \A x, y \in DOMAIN flat : flat[x].at = flat[y].at => x = y
      BY <2>1, <2>2
    <2> QED
      BY <2>3, <2>4, <2>5
  <1> QED
    BY <1>5, <1>6, <1>7

-----------------------------------------------------------------------------
(* The candidates of a call. *)

Candidates ==
  [family : Range(Families), symbol : Range(Symbols), iteration : Nat,
   regime : DOMAIN RegimeFamilyBias]

LEMMA NamesTyped ==
  /\ Families \in Seq(Range(Families)) /\ Range(Families) \subseteq DOMAIN DefaultFamilyQuotas
  /\ Symbols \in Seq(Range(Symbols)) /\ Range(Symbols) \subseteq Pairs
  /\ Families # <<>> /\ Symbols # <<>>
  BY GenerationAssumption DEF Range

LEMMA PlacesDiffer ==
  /\ Place("mean_reversion") = 5 /\ Place("trend") = 6 /\ Place("volatility_compression") = 7
  BY DEF Place, Alphabet

LEMMA FamiliesTyped ==
  /\ DOMAIN DefaultFamilyQuotas = {"mean_reversion", "volatility_compression", "trend"}
  /\ DOMAIN DefaultFamilyQuotas \subseteq DOMAIN RegimeFamilyBias
  /\ DOMAIN RegimeSymbolBias = DOMAIN RegimeFamilyBias /\ "adaptive" \in DOMAIN RegimeFamilyBias
  BY DEF DefaultFamilyQuotas, ByFamily, RegimeFamilyBias, RegimeSymbolBias

LEMMA CountTyped ==
  ASSUME NEW history \in Histories, NEW field, NEW value
  PROVE  CountOf(history, field, value) \in Nat
  <1>1. IsFiniteSet(DOMAIN history)
    <2>1. Len(history) \in Int /\ DOMAIN history = 1 .. Len(history)
      BY DEF Histories
    <2> QED
      BY <2>1, FS_Interval
  <1>2. IsFiniteSet({i \in DOMAIN history : history[i][field] = value})
    BY <1>1, FS_Subset
  <1> QED
    BY <1>2, FS_CardinalityType DEF CountOf

(* The regime of a history is one of those that have a bias.               *)
LEMMA RegimeTyped ==
  ASSUME NEW history \in Histories
  PROVE  InferRegime(history, "adaptive") \in DOMAIN RegimeFamilyBias
  <1>1. CASE history = <<>>
    BY <1>1, FamiliesTyped DEF InferRegime
  <1>2. CASE history # <<>>
    <2> DEFINE F == {"mean_reversion", "volatility_compression", "trend"}
               values == {history[i]["family"] : i \in DOMAIN history}
               n == [v \in F |-> CountOf(history, "family", v)]
               p == [v \in F |-> Place(v)]
    <2>1. values \in SUBSET F /\ values # {}
      <3>1. 1 \in DOMAIN history /\ \A i \in DOMAIN history : history[i].family \in F
        <4> DEFINE S == [family : F, symbol : Pairs, regime : DOMAIN RegimeFamilyBias, score : Int]
        <4>1. history \in Seq(S)
          BY FamiliesTyped DEF Histories
        <4>2. \A row \in S : row.family \in F
          OBVIOUS
        <4> HIDE DEF F, S
        <4>3. Len(history) \in Nat /\ DOMAIN history = 1 .. Len(history) /\ Len(history) # 0
          BY <1>2, <4>1
        <4>4. \A i \in DOMAIN history : history[i] \in S
          BY <4>1
        <4> QED
          BY <4>2, <4>3, <4>4
      <3> HIDE DEF F
      <3> QED
        BY <3>1
    <2>2. n \in [F -> Int] /\ p \in [F -> Int] /\ \A v, w \in F : p[v] = p[w] => v = w
      BY CountTyped, PlacesDiffer
    <2>3. \A v \in values : n[v] = CountOf(history, "family", v) /\ p[v] = Place(v)
      BY <2>1
    <2> HIDE DEF n, p
    <2>4. \E v \in values : \A w \in values \ {v} : n[v] > n[w] \/ (n[v] = n[w] /\ p[v] > p[w])
      <3> HIDE DEF values
      <3> DEFINE Beats(v, w) == n[v] > n[w] \/ (n[v] = n[w] /\ p[v] > p[w])
      <3>1. \A v, w \in F : v = w \/ Beats(v, w) \/ Beats(w, v)
        BY <2>2
      <3>2. \A u, v, w \in F : Beats(u, v) /\ Beats(v, w) => Beats(u, w)
        BY <2>2
      <3> HIDE DEF Beats
      <3>3. PICK x \in values : TRUE
        BY <2>1
      <3> DEFINE a == "mean_reversion"
                 b == "volatility_compression"
                 c == "trend"
      <3>4. F = {a, b, c}
        OBVIOUS
      <3> HIDE DEF F, a, b, c
      <3>5. values \subseteq {a, b, c}
        BY <2>1, <3>4
      <3>6. /\ \A v, w \in {a, b, c} : v = w \/ Beats(v, w) \/ Beats(w, v)
            /\ \A u, v, w \in {a, b, c} : Beats(u, v) /\ Beats(v, w) => Beats(u, w)
        BY <3>1, <3>2, <3>4
      <3>7. \E v \in values : \A w \in values \ {v} : Beats(v, w)
        BY <3>3, <3>5, <3>6
      <3> QED
        BY <3>7 DEF Beats
    <2>5. \E v \in values : \A w \in values \ {v} :
            \/ CountOf(history, "family", v) > CountOf(history, "family", w)
            \/ /\ CountOf(history, "family", v) = CountOf(history, "family", w)
               /\ Place(v) > Place(w)
      <3> HIDE DEF values
      <3> QED
        BY <2>3, <2>4
    <2>6. DominantKey(history, "family") \in values
      BY <2>5, Zenon DEF DominantKey
    <2> DEFINE most  == CountOf(history, "family", DominantKey(history, "family"))
               close == {i \in DOMAIN ReversionFirst :
                           LET k == CountOf(history, "family", ReversionFirst[i])
                           IN k > 0 /\ k >= most - 1}
    <2>7. DOMAIN ReversionFirst = 1 .. 3 /\ \A i \in 1 .. 3 : ReversionFirst[i] \in F
      BY DEF ReversionFirst
    <2>8. InferRegime(history, "adaptive") =
            IF close = {} THEN DominantKey(history, "family") ELSE ReversionFirst[Min(close)]
      BY <1>2, Zenon DEF InferRegime, PriorityFamily
    <2> HIDE DEF values
    <2>9. close \in SUBSET (1 .. 3)
      BY <2>7
    <2> HIDE DEF close
    <2>10. close # {} => Min(close) \in 1 .. 3
      <3> SUFFICES ASSUME close # {} PROVE Min(close) \in close
        BY <2>9
      <3>1. \E x \in close : \A y \in close : x <= y
        BY <2>9, Least
      <3> QED
        BY <3>1 DEF Min
    <2>11. InferRegime(history, "adaptive") \in F
      BY <2>1, <2>6, <2>7, <2>8, <2>10
    <2> QED
      BY <2>11, FamiliesTyped
  <1> QED
    BY <1>1, <1>2

LEMMA BiasTyped ==
  ASSUME NEW regime \in DOMAIN RegimeFamilyBias
  PROVE  /\ \A f \in DOMAIN DefaultFamilyQuotas :
              DefaultFamilyQuotas[f] \in Int /\ RegimeFamilyBias[regime][f] \in Int
         /\ \A s \in Pairs : DefaultSymbolQuotas[s] \in Int /\ RegimeSymbolBias[regime][s] \in Int
  <1>1. regime \in {"trend", "mean_reversion", "volatility_compression", "adaptive"}
    BY DEF RegimeFamilyBias
  <1>2. \A f \in DOMAIN DefaultFamilyQuotas :
          DefaultFamilyQuotas[f] \in Int /\ RegimeFamilyBias[regime][f] \in Int
    BY <1>1 DEF DefaultFamilyQuotas, ByFamily, RegimeFamilyBias
  <1>3. \A s \in Pairs :
          DefaultSymbolQuotas[s] \in Int /\ RegimeSymbolBias[regime][s] \in Int
    BY <1>1 DEF DefaultSymbolQuotas, BySymbol, RegimeSymbolBias
  <1> QED
    BY <1>2, <1>3

LEMMA RoundTyped == \A base, factor \in Int : WeightedRound(base, factor) \in Int
  BY DEF WeightedRound

(* Nobody is tuned away. *)
LEMMA TunedTyped ==
  ASSUME NEW quotas, NEW bias, NEW best, NEW gain \in Int, NEW x \in DOMAIN quotas,
         quotas[x] \in Int, bias[x] \in Int
  PROVE  Tuned(quotas, bias, best, gain)[x] \in Nat \ {0}
  <1> DEFINE factor == bias[x] + (IF x \in best THEN gain ELSE 0)
  <1>1. factor \in Int
    OBVIOUS
  <1> HIDE DEF factor
  <1> DEFINE tuned == WeightedRound(quotas[x], factor)
  <1>2. tuned \in Int
    BY <1>1, RoundTyped
  <1>3. Tuned(quotas, bias, best, gain)[x] = Max({1, tuned})
    BY DEF Tuned, factor
  <1> HIDE DEF tuned
  <1>4. Max({1, tuned}) \in {1, tuned} /\ Max({1, tuned}) >= 1
    BY <1>2, MaxOfTwo
  <1> QED
    BY <1>2, <1>3, <1>4

LEMMA PlannedTyped ==
  ASSUME NEW iterations \in Int, NEW regime \in DOMAIN RegimeFamilyBias, NEW history,
         NEW f \in Range(Families), NEW s \in Range(Symbols)
  PROVE  Planned(iterations, regime, history)[f][s] \in Nat \ {0}
  <1> DEFINE families == Tuned(DefaultFamilyQuotas, RegimeFamilyBias[regime],
                               BestOf(history, "family"), 15)
             symbols  == Tuned(DefaultSymbolQuotas, RegimeSymbolBias[regime],
                               BestOf(history, "symbol"), 10)
  <1>1. families[f] \in Nat \ {0}
    BY NamesTyped, BiasTyped, TunedTyped
  <1>2. symbols[s] \in Nat \ {0}
    <2>1. DOMAIN DefaultSymbolQuotas = Pairs
      BY DEF DefaultSymbolQuotas, BySymbol
    <2> QED
      BY <2>1, NamesTyped, BiasTyped, TunedTyped
  <1> DEFINE cap == Max({1, iterations})
  <1>3. cap \in Nat \ {0}
    <2>1. Max({1, iterations}) \in {1, iterations} /\ Max({1, iterations}) >= 1
      <3>1. 1 \in Int /\ iterations \in Int
        OBVIOUS
      <3> QED
        BY <3>1, MaxOfTwo
    <2> QED
      BY <2>1
  <1>4. Planned(iterations, regime, history)[f][s] = Min({cap, families[f], symbols[s]})
    <2> DEFINE least(g, t) == Min({cap, families[g], symbols[t]})
               plan == [g \in Range(Families) |-> [t \in Range(Symbols) |-> least(g, t)]]
    <2>1. Planned(iterations, regime, history) = plan
      BY Zenon DEF Planned
    <2> HIDE DEF least
    <2>2. Planned(iterations, regime, history)[f][s] = least(f, s)
      BY <2>1
    <2> QED
      BY <2>2 DEF least
  <1> HIDE DEF families, symbols, cap
  <1> DEFINE a == families[f]
             b == symbols[s]
  <1>5. a \in Int /\ b \in Int /\ cap \in Int
    BY <1>1, <1>2, <1>3
  <1> HIDE DEF a, b
  <1>6. Min({cap, a, b}) \in {cap, a, b}
    BY <1>5, MinOfThree
  <1> QED
    BY <1>1, <1>2, <1>3, <1>4, <1>6 DEF a, b

(* Candidates of every family and every symbol. *)
LEMMA GeneratedTyped ==
  ASSUME NEW iterations \in Int, NEW history \in Histories
  PROVE  /\ Generated(iterations, history) \in Seq(Candidates)
         /\ \A f \in Range(Families), s \in Range(Symbols) :
              \E at \in DOMAIN Generated(iterations, history) :
                /\ Generated(iterations, history)[at].family = f
                /\ Generated(iterations, history)[at].symbol = s
  <1> DEFINE regime == InferRegime(history, "adaptive")
             plan == Planned(iterations, regime, history)
             of(f, s) == [k \in 1 .. plan[f][s] |-> BuildCandidate(f, s, k - 1, regime)]
             parts(f) == [j \in DOMAIN Symbols |-> of(f, Symbols[j])]
             family(f) == FlattenSeq(parts(f))
  <1>0. regime \in DOMAIN RegimeFamilyBias
    BY RegimeTyped
  <1> HIDE DEF regime
  <1>1. ASSUME NEW f \in Range(Families), NEW s \in Range(Symbols)
        PROVE  of(f, s) \in Seq(Candidates) /\ 1 \in DOMAIN of(f, s)
               /\ of(f, s)[1].family = f /\ of(f, s)[1].symbol = s
    <2>1. plan[f][s] \in Nat \ {0}
      BY <1>0, PlannedTyped
    <2>2. f \in DOMAIN RegimeFamilyBias
      BY NamesTyped, FamiliesTyped
    <2> HIDE DEF plan
    <2>3. ASSUME NEW k \in 1 .. plan[f][s]
          PROVE  /\ BuildCandidate(f, s, k - 1, regime) \in Candidates
                 /\ BuildCandidate(f, s, k - 1, regime).family = f
                 /\ BuildCandidate(f, s, k - 1, regime).symbol = s
      <3>1. k - 1 \in Nat
        BY <2>1
      <3> QED
        BY <1>0, <2>2, <3>1 DEF BuildCandidate, Candidates
    <2> DEFINE q == plan[f][s]
               c(k) == BuildCandidate(f, s, k - 1, regime)
               rows == [k \in 1 .. q |-> c(k)]
    <2>4. /\ q \in Nat \ {0}
          /\ \A k \in 1 .. q : c(k) \in Candidates /\ c(k).family = f /\ c(k).symbol = s
      BY <2>1, <2>3
    <2>5. rows = of(f, s)
      OBVIOUS
    <2> HIDE DEF q, c
    <2>6. rows \in Seq(Candidates) /\ 1 \in DOMAIN rows /\ rows[1] = c(1) /\ 1 \in 1 .. q
      BY <2>4
    <2> HIDE DEF rows, of
    <2> QED
      BY <2>4, <2>5, <2>6
  <1>2. ASSUME NEW f \in Range(Families) PROVE parts(f) \in Seq(Seq(Candidates))
    <2>1. \A j \in DOMAIN Symbols : of(f, Symbols[j]) \in Seq(Candidates)
      BY <1>1 DEF Range
    <2> HIDE DEF of
    <2> QED
      BY <2>1, NamesTyped
  <1>3. ASSUME NEW f \in Range(Families), NEW s \in Range(Symbols)
        PROVE  \E x \in DOMAIN family(f) : family(f)[x].family = f /\ family(f)[x].symbol = s
    <2>1. PICK j \in DOMAIN Symbols : Symbols[j] = s
      BY DEF Range
    <2>2. j \in DOMAIN parts(f) /\ parts(f)[j] = of(f, s)
      BY <2>1
    <2> DEFINE ss == parts(f)
    <2>3. ss \in Seq(Seq(Candidates)) /\ j \in DOMAIN ss /\ 1 \in DOMAIN ss[j]
          /\ ss[j][1].family = f /\ ss[j][1].symbol = s
      <3>1. of(f, s) \in Seq(Candidates) /\ 1 \in DOMAIN of(f, s)
            /\ of(f, s)[1].family = f /\ of(f, s)[1].symbol = s
        BY <1>1
      <3>2. ss \in Seq(Seq(Candidates))
        BY <1>2
      <3> HIDE DEF of, parts
      <3> QED
        BY <2>2, <3>1, <3>2
    <2> HIDE DEF ss
    <2>4. \E x \in DOMAIN FlattenSeq(ss) : FlattenSeq(ss)[x] = ss[j][1]
      BY <2>3, FlattenHolds
    <2> QED
      BY <2>3, <2>4 DEF ss
  <1>4. ASSUME NEW f \in Range(Families) PROVE family(f) \in Seq(Candidates)
    <2> DEFINE ss == parts(f)
    <2>1. ss \in Seq(Seq(Candidates))
      BY <1>2
    <2> HIDE DEF ss
    <2>2. FlattenSeq(ss) \in Seq(Candidates)
      BY <2>1, FlattenHolds
    <2> QED
      BY <2>2 DEF ss
  <1> HIDE DEF family
  <1> DEFINE all == [i \in DOMAIN Families |-> family(Families[i])]
  <1>5. all \in Seq(Seq(Candidates)) /\ DOMAIN all = DOMAIN Families
        /\ \A i \in DOMAIN Families : all[i] = family(Families[i])
    <2>1. \A i \in DOMAIN Families : family(Families[i]) \in Seq(Candidates)
      BY <1>4 DEF Range
    <2> QED
      BY <2>1, NamesTyped
  <1>6. Generated(iterations, history) = FlattenSeq(all)
    BY Zenon DEF Generated, family, regime
  <1> HIDE DEF all
  <1> DEFINE flat == FlattenSeq(all)
  <1>7. /\ flat \in Seq(Candidates)
        /\ \A i \in DOMAIN all : \A j \in DOMAIN all[i] : \E x \in DOMAIN flat : flat[x] = all[i][j]
    BY <1>5, FlattenHolds
  <1> HIDE DEF flat
  <1>8. ASSUME NEW f \in Range(Families), NEW s \in Range(Symbols)
        PROVE  \E at \in DOMAIN flat : flat[at].family = f /\ flat[at].symbol = s
    <2>1. PICK i \in DOMAIN Families : Families[i] = f
      BY DEF Range
    <2>2. PICK x \in DOMAIN family(f) : family(f)[x].family = f /\ family(f)[x].symbol = s
      BY <1>3
    <2>3. i \in DOMAIN all /\ all[i] = family(f)
      BY <1>5, <2>1
    <2> QED
      BY <1>7, <2>2, <2>3
  <1> QED
    BY <1>6, <1>7, <1>8 DEF flat

-----------------------------------------------------------------------------
(* What makes a row novel. *)

LEMMA SumWithAtMost ==
  ASSUME NEW T, IsFiniteSet(T), NEW f, \A y \in T : f[y] \in Int, NEW x, f[x] \in Nat,
         NEW d \in Int, SumFunctionOnSet(f, T \ {x}) <= d
  PROVE  SumFunctionOnSet(f, T) <= f[x] + d
  <1>1. CASE x \in T
    <2>1. /\ SumFunctionOnSet(f, T \ {x}) \in Int
          /\ SumFunctionOnSet(f, T) = f[x] + SumFunctionOnSet(f, T \ {x})
      BY <1>1, SumWithout
    <2> QED
      BY <2>1
  <1>2. CASE x \notin T
    <2>1. T \ {x} = T
      BY <1>2
    <2>2. SumFunctionOnSet(f, T) \in Int
      <3>1. CASE T = {}
        BY <3>1, EmptySum
      <3>2. CASE T # {}
        BY <3>2, SumWithout
      <3> QED
        BY <3>1, <3>2
    <2>3. SumFunctionOnSet(f, T) <= d
      BY <2>1
    <2> QED
      BY <2>2, <2>3
  <1> QED
    BY <1>1, <1>2

LEMMA NoveltyNeedsAField ==
  ASSUME NEW at, NEW basket
  PROVE  /\ BasketNovelty(at, basket) >= 30 =>
               "symbol" \in NewFields(at, basket) \/ "family" \in NewFields(at, basket)
         /\ BasketNovelty(at, basket) >= 45 => "symbol" \in NewFields(at, basket)
  <1> DEFINE T == NewFields(at, basket)
             bonus == IF DiversityScore(basket) >= 100 THEN 10 ELSE 0
             sum == SumFunctionOnSet(Novelty, T)
  <1>1. T \subseteq {"symbol", "family", "regime"}
    BY DEF NewFields, Novelty
  <1>2. /\ Novelty["symbol"] = 40 /\ Novelty["family"] = 20 /\ Novelty["regime"] = 10
        /\ \A x \in {"symbol", "family", "regime"} : Novelty[x] \in Nat
    BY DEF Novelty
  <1>3. IsFiniteSet({"symbol", "family", "regime"})
    <2>1. IsFiniteSet({"symbol"}) /\ IsFiniteSet({"family"}) /\ IsFiniteSet({"regime"})
      BY FS_Singleton
    <2>2. IsFiniteSet({"symbol"} \cup {"family"})
      BY <2>1, FS_Union
    <2>3. IsFiniteSet(({"symbol"} \cup {"family"}) \cup {"regime"})
      BY <2>1, <2>2, FS_Union
    <2>4. ({"symbol"} \cup {"family"}) \cup {"regime"} = {"symbol", "family", "regime"}
      OBVIOUS
    <2> QED
      BY <2>3, <2>4
  <1>4. bonus \in {0, 10} /\ BasketNovelty(at, basket) = sum + bonus
    BY DEF BasketNovelty
  <1> HIDE DEF T, bonus
  <1>5. IsFiniteSet(T)
    BY <1>1, <1>3, FS_Subset
  <1>6. /\ \A U \in SUBSET T : IsFiniteSet(U) /\ \A y \in U : Novelty[y] \in Int
        /\ IsFiniteSet(T) /\ \A y \in T : Novelty[y] \in Int
    <2>1. \A y \in T : Novelty[y] \in Int
      BY <1>1, <1>2
    <2>2. \A U \in SUBSET T : IsFiniteSet(U)
      BY <1>5, FS_Subset
    <2> QED
      BY <1>5, <2>1, <2>2
  <1>7. sum \in Int
    <2>1. CASE T = {}
      BY <2>1, EmptySum
    <2>2. CASE T # {}
      BY <1>6, <2>2, SumWithout
    <2> QED
      BY <2>1, <2>2
  <1>8. ASSUME "symbol" \notin T, "family" \notin T PROVE sum <= 10
    <2>1. T \ {"regime"} = {}
      BY <1>1, <1>8
    <2>2. SumFunctionOnSet(Novelty, T \ {"regime"}) <= 0
      BY <2>1, EmptySum
    <2>3. sum <= Novelty["regime"] + 0
      BY <1>2, <1>6, <2>2, SumWithAtMost
    <2> QED
      BY <1>2, <2>3
  <1>9. ASSUME "symbol" \notin T PROVE sum <= 30
    <2> DEFINE U == T \ {"family"}
    <2>1. U \ {"regime"} = {} /\ U \in SUBSET T
      BY <1>1, <1>9
    <2> HIDE DEF U
    <2>2. SumFunctionOnSet(Novelty, U \ {"regime"}) <= 0
      BY <2>1, EmptySum
    <2>3. IsFiniteSet(U) /\ \A y \in U : Novelty[y] \in Int
      BY <1>6, <2>1
    <2>4. SumFunctionOnSet(Novelty, U) <= Novelty["regime"] + 0
      BY <1>2, <2>2, <2>3, SumWithAtMost
    <2>5. SumFunctionOnSet(Novelty, T \ {"family"}) <= 10
      BY <1>2, <2>4 DEF U
    <2>6. Novelty["family"] \in Nat /\ 10 \in Int /\ IsFiniteSet(T)
          /\ \A y \in T : Novelty[y] \in Int
      BY <1>2, <1>6
    <2>7. sum <= Novelty["family"] + 10
      BY <2>5, <2>6, SumWithAtMost
    <2> QED
      BY <1>2, <2>7
  <1> HIDE DEF sum
  <1> QED
    BY <1>4, <1>7, <1>8, <1>9 DEF T

-----------------------------------------------------------------------------
(* A cycle of evolve: one batch, in the order of the candidates. *)

Basket == Statuses \ {"candidate"}

Adds(k) ==
  /\ registered[k] \in {"probationary", "deployable"} =>
       IsNew(k, "symbol") \/ IsNew(k, "family")
  /\ registered[k] = "deployable" => IsNew(k, "symbol")

OneByOne ==
  /\ DOMAIN batches = {1} /\ batches[1] = [k \in 1 .. Len(generated) |-> k]
  /\ DOMAIN results = {1} /\ results[1] \in Seq([at : Nat, status : Statuses])
  /\ Len(results[1]) <= Len(generated)
  /\ \A k \in DOMAIN results[1] :
       results[1][k].at = k /\ results[1][k].status = registered[k]
  /\ \A k \in DOMAIN registered : k > Len(results[1]) => registered[k] = "absent"

EvolveInv ==
  /\ cycle \in Cycles
  /\ cycle.command = "evolve" =>
       /\ generated \in Seq(Candidates) /\ DOMAIN registered = DOMAIN generated
       /\ stage = "generate" => generated = <<>>
       /\ stage # "generate" /\ generated # <<>> => OneByOne
       /\ \A k \in DOMAIN registered : Adds(k)

LEMMA EvolveStarts == EvolutionInit => EvolveInv
  BY DEF EvolutionInit, EvolveInv

LEMMA OneBatch == ASSUME NEW n \in Nat \ {0} PROVE (n + n - 1) \div n = 1
  <1> DEFINE q == (n + n - 1) \div n
  <1>1. n * 1 <= n + n - 1 /\ n + n - 1 < n * 2
    OBVIOUS
  <1>2. q \in Int /\ n * q <= n + n - 1 /\ n + n - 1 < n * (q + 1)
    OBVIOUS
  <1> HIDE DEF q
  <1>3. q >= 1
    <2> SUFFICES ASSUME q < 1 PROVE FALSE
      BY <1>2
    <2>1. q + 1 <= 1 /\ q + 1 \in Int
      BY <1>2
    <2>2. n * (q + 1) <= n * 1
      BY <2>1, ProductGrows
    <2> QED
      BY <1>1, <1>2, <2>1, <2>2
  <1>4. q <= 1
    <2> SUFFICES ASSUME q > 1 PROVE FALSE
      BY <1>2
    <2>1. 2 <= q
      BY <1>2
    <2>2. n * 2 <= n * q
      BY <1>2, <2>1, ProductGrows
    <2> QED
      BY <1>1, <1>2, <2>2
  <1> QED
    BY <1>2, <1>3, <1>4 DEF q

LEMMA GenerateKeepsNovel ==
  ASSUME EvolveInv, Generate
  PROVE  EvolveInv'
  <1>1. cycle' = cycle /\ cycle \in Cycles
    BY DEF Generate, EvolveInv
  <1> SUFFICES ASSUME cycle.command = "evolve"
               PROVE  /\ generated' \in Seq(Candidates) /\ DOMAIN registered' = DOMAIN generated'
                      /\ stage' = "generate" => generated' = <<>>
                      /\ stage' # "generate" /\ generated' # <<>> => OneByOne'
                      /\ \A k \in DOMAIN registered' : Adds(k)'
    BY <1>1 DEF EvolveInv
  <1> DEFINE n == Len(generated')
  <1>2. /\ generated' = Generated(cycle.iterations, cycle.history)
        /\ batches' = Chunk(n)
        /\ results' = [b \in DOMAIN batches' |-> <<>>]
        /\ registered' = [at \in DOMAIN generated' |-> "absent"]
        /\ stage' = "run"
    BY DEF Generate
  <1>3. cycle.iterations \in Int /\ cycle.history \in Histories
    BY <1>1, EvolutionAssumption
  <1>4. generated' \in Seq(Candidates)
    BY <1>2, <1>3, GeneratedTyped
  <1>5. n \in Nat /\ DOMAIN generated' = 1 .. n
    BY <1>4
  <1>6. \A k \in DOMAIN registered' : Adds(k)'
    BY <1>2 DEF Adds
  <1>7. ASSUME generated' # <<>> PROVE OneByOne'
    <2>1. n # 0
      BY <1>4, <1>7
    <2> HIDE DEF n
    <2> DEFINE chunk == [k \in 1 .. n |-> k]
    <2>2. (n + n - 1) \div n = 1 /\ 1 .. 1 = {1}
      BY <1>5, <2>1, OneBatch
    <2>3. Chunk(n) = [b \in {1} |-> [k \in 1 .. Min({n, n - (b - 1) * n}) |-> (b - 1) * n + k]]
      BY <2>2 DEF Chunk, n
    <2>4. Min({n, n - (1 - 1) * n}) = n
      <3>1. {n, n - (1 - 1) * n} = {n}
        BY <1>5
      <3> QED
        BY <1>5, <3>1 DEF Min
    <2>5. DOMAIN batches' = {1} /\ batches'[1] = [k \in 1 .. n |-> (1 - 1) * n + k]
      BY <1>2, <2>3, <2>4
    <2>6. [k \in 1 .. n |-> (1 - 1) * n + k] = chunk
      BY <1>5
    <2>7. DOMAIN results' = {1} /\ results'[1] = <<>>
      BY <1>2, <2>5
    <2> QED
      BY <1>2, <1>5, <2>5, <2>6, <2>7 DEF OneByOne, n
  <1> QED
    BY <1>2, <1>4, <1>6, <1>7

LEMMA ProcessKeepsNovel ==
  ASSUME EvolveInv, NEW b \in DOMAIN batches, NEW figures, Process(b, figures)
  PROVE  EvolveInv'
  <1> DEFINE at     == batches[b][Len(results[b]) + 1]
             done   == IF cycle.command = "evolve" THEN results[b] ELSE <<>>
             status == AutoPromote(Merged(figures), at, done)
  <1>1. /\ b \in working /\ Unfinished(b) /\ stage = "run"
        /\ results' = [results EXCEPT ![b] = Append(@, [at |-> at, status |-> status])]
        /\ registered' = [registered EXCEPT ![at] = status]
        /\ cycle' = cycle /\ stage' = stage /\ generated' = generated /\ batches' = batches
    BY DEF Process
  <1>2. cycle \in Cycles
    BY DEF EvolveInv
  <1> SUFFICES ASSUME cycle.command = "evolve"
               PROVE  /\ generated' \in Seq(Candidates) /\ DOMAIN registered' = DOMAIN generated'
                      /\ stage' = "generate" => generated' = <<>>
                      /\ stage' # "generate" /\ generated' # <<>> => OneByOne'
                      /\ \A k \in DOMAIN registered' : Adds(k)'
    BY <1>1, <1>2 DEF EvolveInv
  <1>3. /\ generated \in Seq(Candidates) /\ DOMAIN registered = DOMAIN generated
        /\ stage # "generate" /\ generated # <<>> => OneByOne
        /\ \A k \in DOMAIN registered : Adds(k)
    BY DEF EvolveInv
  <1>4. DOMAIN registered' = DOMAIN generated'
    BY <1>1, <1>3
  <1>5. status \in Statuses
    BY DEF AutoPromote, Statuses
  <1>6. CASE generated = <<>>
    BY <1>1, <1>3, <1>4, <1>6
  <1>7. CASE generated # <<>>
    <2> DEFINE n == Len(generated)
    <2>1. /\ DOMAIN batches = {1} /\ batches[1] = [i \in 1 .. n |-> i]
          /\ DOMAIN results = {1} /\ results[1] \in Seq([at : Nat, status : Statuses])
          /\ Len(results[1]) <= n
          /\ \A i \in DOMAIN results[1] :
               results[1][i].at = i /\ results[1][i].status = registered[i]
          /\ \A i \in DOMAIN registered : i > Len(results[1]) => registered[i] = "absent"
      BY <1>1, <1>3, <1>7 DEF OneByOne
    <2>2. b = 1 /\ n \in Nat /\ DOMAIN generated = 1 .. n
      BY <1>3, <2>1
    <2>3. PICK k \in 1 .. n : k = Len(results[1]) + 1
      BY <1>1, <2>1, <2>2 DEF Unfinished
    <2>4. at = k /\ done = results[1]
      BY <2>1, <2>2, <2>3
    <2>5. DOMAIN results[1] = 1 .. k - 1 /\ (done = <<>> => k = 1)
      BY <2>1, <2>3, <2>4
    <2> HIDE DEF status
    <2>6. /\ registered' = [registered EXCEPT ![k] = status]
          /\ results' = [results EXCEPT ![1] = Append(@, [at |-> k, status |-> status])]
      BY <1>1, <2>2, <2>4
    <2>7. /\ registered'[k] = status
          /\ \A i \in DOMAIN registered : i # k => registered'[i] = registered[i]
      BY <1>3, <2>2, <2>3, <2>6
    <2>8. InBasket(done) = {j \in 1 .. k - 1 : registered[j] \in Basket}
      <3>1. \A j \in DOMAIN done : done[j].at = j /\ done[j].status = registered[j]
        BY <2>1, <2>4
      <3>2. DOMAIN done = 1 .. k - 1
        BY <2>4, <2>5
      <3> HIDE DEF done
      <3> QED
        BY <3>1, <3>2 DEF InBasket, Basket
    <2>9. \A field \in {"symbol", "family"} :
            field \in NewFields(k, InBasket(done)) =>
              \A j \in 1 .. k - 1 :
                registered[j] \in Basket => generated[j][field] # generated[k][field]
      BY <2>8 DEF NewFields, FieldsOf
    <2>10. ASSUME status = "deployable", k # 1
           PROVE  "symbol" \in NewFields(k, InBasket(done))
      <3>1. CanEnterDeployable(Merged(figures), k, done)
        BY <2>4, <2>10 DEF AutoPromote, status
      <3>2. BasketNovelty(k, InBasket(done)) >= 45
        BY <2>5, <2>10, <3>1 DEF CanEnterDeployable
      <3> QED
        BY <3>2, NoveltyNeedsAField
    <2>11. ASSUME status = "probationary", k # 1
           PROVE  \/ "symbol" \in NewFields(k, InBasket(done))
                  \/ "family" \in NewFields(k, InBasket(done))
      <3>1. CanEnterProbationary(Merged(figures), k, done)
        BY <2>4, <2>11 DEF AutoPromote, status
      <3>2. BasketNovelty(k, InBasket(done)) >= 30
        BY <2>5, <2>11, <3>1 DEF CanEnterProbationary
      <3> QED
        BY <3>2, NoveltyNeedsAField
    <2> HIDE DEF done, at, n
    <2>12. DOMAIN registered = 1 .. n /\ DOMAIN registered' = 1 .. n
      BY <1>1, <1>3, <1>4, <2>2
    <2>13. ASSUME NEW i \in DOMAIN registered' PROVE Adds(i)'
      <3>1. CASE i = k
        <4>1. ASSUME NEW field \in {"symbol", "family"},
                     k = 1 \/ field \in NewFields(k, InBasket(done))
              PROVE  IsNew(k, field)'
          <5> SUFFICES ASSUME NEW j \in DOMAIN registered', j < k, registered'[j] \in Basket
                       PROVE  generated'[j][field] # generated'[k][field]
            BY <1>1 DEF IsNew, WithStatus, Basket
          <5>1. j \in 1 .. k - 1 /\ j # k /\ j \in DOMAIN registered
            BY <2>3, <2>12
          <5>2. registered[j] \in Basket
            BY <2>7, <5>1
          <5> QED
            BY <1>1, <2>9, <4>1, <5>1, <5>2
        <4>2. registered'[k] \in {"probationary", "deployable"} =>
                IsNew(k, "symbol")' \/ IsNew(k, "family")'
          BY <2>7, <2>10, <2>11, <4>1
        <4>3. registered'[k] = "deployable" => IsNew(k, "symbol")'
          BY <2>7, <2>10, <4>1
        <4> QED
          BY <3>1, <4>2, <4>3 DEF Adds
      <3>2. CASE i # k
        <4>1. registered'[i] = registered[i] /\ i \in DOMAIN registered /\ Adds(i)
          BY <1>3, <2>7, <2>12, <3>2
        <4>2. CASE registered[i] = "absent"
          BY <4>1, <4>2 DEF Adds
        <4>3. CASE registered[i] # "absent"
          <5>1. i < k
            BY <2>1, <2>3, <2>12, <3>2, <4>1, <4>3
          <5>2. ASSUME NEW field, IsNew(i, field) PROVE IsNew(i, field)'
            <6> SUFFICES ASSUME NEW j \in DOMAIN registered', j < i, registered'[j] \in Basket
                         PROVE  generated'[j][field] # generated'[i][field]
              BY DEF IsNew, WithStatus, Basket
            <6>1. j # k /\ j \in DOMAIN registered
              BY <2>3, <2>12, <5>1
            <6> QED
              BY <1>1, <2>7, <5>2, <6>1 DEF IsNew, WithStatus, Basket
          <5>3. IsNew(i, "symbol") => IsNew(i, "symbol")'
            BY <5>2
          <5>4. IsNew(i, "family") => IsNew(i, "family")'
            BY <5>2
          <5> QED
            BY <4>1, <5>3, <5>4 DEF Adds
        <4> QED
          BY <4>2, <4>3
      <3> QED
        BY <3>1, <3>2
    <2>14. OneByOne'
      <3> DEFINE row == [at |-> k, status |-> status]
                 rows == results[1]
      <3>1. row \in [at : Nat, status : Statuses]
        BY <1>5, <2>2, <2>3 DEF status
      <3>2. results'[1] = Append(rows, row) /\ DOMAIN results' = {1}
        BY <2>1, <2>6
      <3>3. rows \in Seq([at : Nat, status : Statuses]) /\ Len(rows) = k - 1
        BY <2>1, <2>3
      <3> HIDE DEF rows
      <3>4. /\ Append(rows, row) \in Seq([at : Nat, status : Statuses])
            /\ Len(Append(rows, row)) = k /\ DOMAIN Append(rows, row) = 1 .. k
            /\ Append(rows, row)[k] = row
            /\ \A i \in 1 .. k - 1 : Append(rows, row)[i] = rows[i]
        BY <2>2, <2>3, <3>1, <3>3
      <3>5. \A i \in 1 .. k : Append(rows, row)[i].at = i
                               /\ Append(rows, row)[i].status = registered'[i]
        <4> SUFFICES ASSUME NEW i \in 1 .. k
                     PROVE  Append(rows, row)[i].at = i
                            /\ Append(rows, row)[i].status = registered'[i]
          OBVIOUS
        <4>1. CASE i = k
          BY <2>7, <3>4, <4>1
        <4>2. CASE i # k
          <5>1. i \in 1 .. k - 1 /\ i \in DOMAIN registered
            BY <2>2, <2>3, <2>12, <4>2
          <5> QED
            BY <2>1, <2>5, <2>7, <3>4, <4>2, <5>1 DEF rows
        <4> QED
          BY <4>1, <4>2
      <3>6. \A i \in DOMAIN registered' : i > k => registered'[i] = "absent"
        BY <2>1, <2>2, <2>3, <2>7, <2>12
      <3>7. batches'[1] = [i \in 1 .. Len(generated') |-> i] /\ DOMAIN batches' = {1}
        BY <1>1, <2>1 DEF n
      <3>8. Len(results'[1]) = k /\ k <= Len(generated')
        BY <1>1, <2>2, <2>3, <3>2, <3>4 DEF n
      <3> HIDE DEF row
      <3> QED
        BY <3>2, <3>4, <3>5, <3>6, <3>7, <3>8 DEF OneByOne
    <2> QED
      BY <1>1, <1>3, <1>4, <2>13, <2>14
  <1> QED
    BY <1>6, <1>7

LEMMA OthersKeepNovel ==
  ASSUME EvolveInv, NEW b \in DOMAIN batches,
         Select \/ TakeBatch(b) \/ Collect(b) \/ Fail(b)
  PROVE  EvolveInv'
  <1>1. /\ cycle' = cycle /\ generated' = generated /\ batches' = batches
        /\ registered' = registered /\ stage # "generate" /\ stage' # "generate"
    BY DEF Select, TakeBatch, Collect, Fail
  <1>2. results' = results \/ cycle.command # "evolve"
    BY DEF Select, TakeBatch, Collect, Fail
  <1>3. CASE results' = results
    BY <1>1, <1>3 DEF EvolveInv, OneByOne, Adds, IsNew, WithStatus
  <1>4. CASE cycle.command # "evolve"
    BY <1>1, <1>4 DEF EvolveInv
  <1> QED
    BY <1>2, <1>3, <1>4

LEMMA SelectKeepsNovel == EvolveInv /\ Select => EvolveInv'
  BY DEF Select, EvolveInv, OneByOne, Adds, IsNew, WithStatus

LEMMA EvolveHolds == EvolutionSpec => []EvolveInv
  <1>1. EvolveInv /\ [EvolutionNext]_evolutionVars => EvolveInv'
    <2> SUFFICES ASSUME EvolveInv, [EvolutionNext]_evolutionVars PROVE EvolveInv'
      OBVIOUS
    <2>1. CASE Generate
      BY <2>1, GenerateKeepsNovel
    <2>2. CASE Select
      BY <2>2, SelectKeepsNovel
    <2>3. ASSUME NEW b \in DOMAIN batches, TakeBatch(b) \/ Collect(b) \/ Fail(b)
          PROVE  EvolveInv'
      BY <2>3, OthersKeepNovel
    <2>4. ASSUME NEW b \in DOMAIN batches, NEW figures \in Figures, Process(b, figures)
          PROVE  EvolveInv'
      BY <2>4, ProcessKeepsNovel
    <2>5. CASE UNCHANGED evolutionVars
      BY <2>5 DEF evolutionVars, EvolveInv, OneByOne, Adds, IsNew, WithStatus
    <2> QED
      BY <2>1, <2>2, <2>3, <2>4, <2>5 DEF EvolutionNext
  <1> QED
    BY <1>1, EvolveStarts, PTL DEF EvolutionSpec

LEMMA NovelRowsAdd == EvolveInv => PromotionsAreNovel
  BY DEF EvolveInv, PromotionsAreNovel, Adds, WithStatus

(* However many candidates a cycle of evolve makes and whatever figures    *)
(* they show, each row it promotes to probationary or deployable brings a  *)
(* symbol or a family that no row of the basket before it has, and each    *)
(* deployable one a symbol.                                                *)
THEOREM BasketStaysNovel == EvolutionSpec => []PromotionsAreNovel
  BY EvolveHolds, NovelRowsAdd, PTL

-----------------------------------------------------------------------------
(* Every candidate is dealt with once. *)

(* A division of the positions 1 .. n into batches.                        *)
Divides(bs, n) ==
  /\ bs \in Seq(Seq(1 .. n))
  /\ \A b, c \in DOMAIN bs : \A j \in DOMAIN bs[b], k \in DOMAIN bs[c] :
       bs[b][j] = bs[c][k] => b = c /\ j = k
  /\ \A at \in 1 .. n : \E b \in DOMAIN bs : \E k \in DOMAIN bs[b] : bs[b][k] = at

(* _chunk cuts the candidates into batches that hold each of them once.    *)
LEMMA ChunksDivide ==
  ASSUME NEW size \in Nat \ {0}, generated' \in Seq(Candidates)
  PROVE  Divides(Chunk(size), Len(generated'))
  <1> DEFINE n == Len(generated')
             m == (n + size - 1) \div size
             part(b) == Min({size, n - (b - 1) * size})
             bs == Chunk(size)
  <1>1. n \in Nat
    OBVIOUS
  <1>2. bs = [b \in 1 .. m |-> [k \in 1 .. part(b) |-> (b - 1) * size + k]]
    BY DEF Chunk
  <1> HIDE DEF n, bs
  <1>3. m \in Nat /\ size * m <= n + size - 1 /\ n + size - 1 < size * m + size
    <2>1. n + size - 1 \in Nat
      BY <1>1
    <2> DEFINE x == n + size - 1
    <2>2. x \in Nat
      BY <2>1
    <2> HIDE DEF x
    <2>3. x \div size \in Nat /\ size * (x \div size) <= x /\ x < size * (x \div size) + size
      BY <2>2, DivisionBounds
    <2> QED
      BY <2>3 DEF x
  <1> HIDE DEF m
  <1>4. ASSUME NEW b \in 1 .. m
        PROVE  /\ (b - 1) * size \in Nat /\ (b - 1) * size < n
               /\ part(b) \in Nat /\ part(b) <= size /\ (b - 1) * size + part(b) <= n
               /\ part(b) = size \/ (b - 1) * size + part(b) = n
    <2> DEFINE p == (b - 1) * size
               w == size * m
    <2>1. b - 1 \in Nat /\ b \in Nat /\ b <= m
      BY <1>3
    <2>2. p \in Nat
      BY <2>1, ProductNat
    <2>3. p + size <= w
      <3>1. size * b <= size * m
        BY <1>3, <2>1, ProductGrows
      <3>2. p + size = size * b
        BY <2>1
      <3> QED
        BY <3>1, <3>2
    <2>4. w \in Nat
      BY <1>3, ProductNat
    <2> HIDE DEF p, w
    <2>5. p < n
      <3>1. w <= n + size - 1
        BY <1>3 DEF w
      <3> QED
        BY <1>1, <2>2, <2>3, <2>4, <3>1
    <2> DEFINE r == Min({size, n - p})
    <2>6. r \in {size, n - p} /\ r <= size /\ r <= n - p
      <3> DEFINE d == n - p
      <3>1. d \in Int /\ size \in Int
        BY <1>1, <2>2
      <3> HIDE DEF d
      <3>2. Min({size, d}) \in {size, d} /\ Min({size, d}) <= size /\ Min({size, d}) <= d
        BY <3>1, MinOfTwo
      <3> QED
        BY <3>2 DEF d
    <2>7. r = part(b)
      BY DEF p
    <2> HIDE DEF r
    <2>8. r \in Nat /\ p + r <= n /\ (r = size \/ p + r = n)
      BY <1>1, <2>2, <2>5, <2>6
    <2> QED
      BY <2>2, <2>5, <2>6, <2>7, <2>8 DEF p
  <1> HIDE DEF part
  <1>5. /\ DOMAIN bs = 1 .. m
        /\ \A b \in 1 .. m : /\ bs[b] = [k \in 1 .. part(b) |-> (b - 1) * size + k]
                             /\ DOMAIN bs[b] = 1 .. part(b)
    BY <1>2
  <1>6. ASSUME NEW b \in 1 .. m, NEW k \in 1 .. part(b)
        PROVE  bs[b][k] = (b - 1) * size + k
    BY <1>5
  <1>7. bs \in Seq(Seq(1 .. n))
    <2>1. ASSUME NEW b \in 1 .. m PROVE bs[b] \in Seq(1 .. n)
      <3> DEFINE p == (b - 1) * size
      <3>1. p \in Nat /\ part(b) \in Nat /\ p + part(b) <= n
        BY <1>4
      <3> HIDE DEF p
      <3>2. \A k \in 1 .. part(b) : p + k \in 1 .. n
        BY <1>1, <3>1
      <3>3. bs[b] = [k \in 1 .. part(b) |-> p + k]
        BY <1>5 DEF p
      <3> DEFINE r == part(b)
                 chunk == [k \in 1 .. r |-> p + k]
      <3>4. r \in Nat /\ \A k \in 1 .. r : p + k \in 1 .. n
        BY <3>1, <3>2
      <3>5. bs[b] = chunk
        BY <3>3
      <3> HIDE DEF r
      <3>6. chunk \in Seq(1 .. n)
        BY <3>4
      <3> QED
        BY <3>5, <3>6
    <2> QED
      BY <1>2, <1>3, <1>5, <2>1
  <1>8. ASSUME NEW b \in 1 .. m, NEW c \in 1 .. m, b < c,
               NEW j \in 1 .. part(b), NEW k \in 1 .. part(c)
        PROVE  bs[b][j] # bs[c][k]
    <2> DEFINE p == (b - 1) * size
               w == (c - 1) * size
    <2>1. p \in Nat /\ w \in Nat /\ part(b) \in Nat /\ part(b) <= size /\ part(c) \in Nat
      BY <1>4
    <2>2. p + size <= w
      <3>1. b \in Nat /\ c - 1 \in Nat /\ b <= c - 1
        BY <1>3, <1>8
      <3>2. size * b <= size * (c - 1)
        BY <3>1, ProductGrows
      <3>3. p + size = size * b /\ w = size * (c - 1)
        BY <3>1
      <3> QED
        BY <3>2, <3>3
    <2>3. bs[b][j] = p + j /\ bs[c][k] = w + k
      BY <1>6
    <2> HIDE DEF p, w
    <2>4. j \in Nat /\ k \in Nat /\ j <= size /\ k >= 1
      BY <2>1
    <2>5. p + j < w + k
      BY <2>1, <2>2, <2>4
    <2> QED
      BY <2>1, <2>3, <2>4, <2>5
  <1>9. ASSUME NEW b \in 1 .. m, NEW c \in 1 .. m, NEW j \in 1 .. part(b), NEW k \in 1 .. part(c),
               bs[b][j] = bs[c][k]
        PROVE  b = c /\ j = k
    <2>1. b \in Int /\ c \in Int
      OBVIOUS
    <2>2. ~(b < c) /\ ~(c < b)
      BY <1>8, <1>9
    <2>3. b = c
      BY <2>1, <2>2
    <2> DEFINE p == (b - 1) * size
    <2>4. p \in Nat /\ part(b) \in Nat
      BY <1>4
    <2>5. p + j = p + k
      BY <1>6, <1>9, <2>3
    <2> HIDE DEF p
    <2>6. j \in Int /\ k \in Int
      OBVIOUS
    <2> QED
      BY <2>3, <2>4, <2>5, <2>6
  <1>10. ASSUME NEW at \in 1 .. n
         PROVE  \E b \in 1 .. m : \E k \in 1 .. part(b) : bs[b][k] = at
    <2> DEFINE x == at - 1
               q == x \div size
               b == q + 1
               p == size * q
               k == x - p + 1
               w == size * m
    <2>1. x \in Nat /\ x < n /\ at = x + 1
      BY <1>1
    <2> HIDE DEF x
    <2>0. q \in Nat /\ p <= x /\ x < p + size
      BY <2>1, DivisionBounds
    <2> HIDE DEF q
    <2>3. p \in Nat /\ w \in Nat
      BY <1>3, <2>0, ProductNat
    <2>2. q \in Nat /\ k \in 1 .. size /\ x = p + (k - 1)
      <3> HIDE DEF p
      <3> QED
        BY <2>0, <2>1, <2>3
    <2>4. b \in 1 .. m
      <3> HIDE DEF p, w, k
      <3> SUFFICES ASSUME m <= q PROVE FALSE
        BY <1>3, <2>2
      <3>1. w <= p
        BY <1>3, <2>2, ProductGrows DEF p, w
      <3>2. n + size - 1 < w + size
        BY <1>3 DEF w
      <3> QED
        BY <1>1, <2>1, <2>2, <2>3, <3>1, <3>2
    <2>5. (b - 1) * size = p
      BY <2>2
    <2>6. part(b) \in Nat /\ (part(b) = size \/ p + part(b) = n)
      BY <1>4, <2>4, <2>5
    <2> HIDE DEF p, w, q, k, b
    <2>7. k \in 1 .. part(b)
      BY <1>1, <2>1, <2>2, <2>3, <2>6
    <2>8. bs[b][k] = p + k
      BY <1>6, <2>4, <2>5, <2>7
    <2>9. p + k = at
      BY <2>1, <2>2, <2>3
    <2> QED
      BY <2>4, <2>7, <2>8, <2>9
  <1> QED
    <2>1. ASSUME NEW b \in DOMAIN bs, NEW c \in DOMAIN bs,
                 NEW j \in DOMAIN bs[b], NEW k \in DOMAIN bs[c], bs[b][j] = bs[c][k]
          PROVE  b = c /\ j = k
      <3>1. b \in 1 .. m /\ c \in 1 .. m /\ j \in 1 .. part(b) /\ k \in 1 .. part(c)
        BY <1>5
      <3> QED
        BY <1>9, <2>1, <3>1
    <2>2. ASSUME NEW at \in 1 .. n
          PROVE  \E b \in DOMAIN bs : \E k \in DOMAIN bs[b] : bs[b][k] = at
      <3>1. PICK b \in 1 .. m : \E k \in 1 .. part(b) : bs[b][k] = at
        BY <1>10
      <3>2. b \in DOMAIN bs /\ DOMAIN bs[b] = 1 .. part(b)
        BY <1>5
      <3> QED
        BY <3>1, <3>2
    <2>3. /\ \A b, c \in DOMAIN bs : \A j \in DOMAIN bs[b], k \in DOMAIN bs[c] :
                bs[b][j] = bs[c][k] => b = c /\ j = k
          /\ \A at \in 1 .. n : \E b \in DOMAIN bs : \E k \in DOMAIN bs[b] : bs[b][k] = at
      BY <2>1, <2>2
    <2>4. Divides(bs, n)
      BY <1>7, <2>3 DEF Divides
    <2> QED
      BY <2>4 DEF n, bs

Stages == {"generate", "run", "select", "done", "aborted"}

Covers(rows) ==
  \A f \in Range(Families), s \in Range(Symbols) :
    \E at \in DOMAIN rows : rows[at].family = f /\ rows[at].symbol = s

RowsOf(n) == [at : 1 .. n, status : Statuses \cup {"failed"}]

(* A row says what the registry was told of its candidate, and of those    *)
(* that have no row yet it was told nothing.                               *)
RowsTold(b) ==
  /\ Len(results[b]) <= Len(batches[b])
  /\ \A k \in DOMAIN results[b] :
       /\ results[b][k].at = batches[b][k]
       /\ registered[batches[b][k]] =
            IF results[b][k].status = "failed" THEN "absent" ELSE results[b][k].status
  /\ \A k \in DOMAIN batches[b] :
       k > Len(results[b]) => registered[batches[b][k]] = "absent"

(* A batch is taken once, and is through when its results are collected.   *)
BatchesTaken ==
  /\ working \subseteq DOMAIN batches /\ collected \in Seq(DOMAIN batches)
  /\ \A k, l \in DOMAIN collected : collected[k] = collected[l] => k = l
  /\ \A k \in DOMAIN collected : collected[k] \notin working /\ ~Unfinished(collected[k])

Survivors ==
  {Promoted[k].at : k \in {k \in DOMAIN Promoted :
                             Promoted[k].status \in {"validated", "probationary", "deployable"}}}

StagesKept ==
  /\ stage \in Stages
  /\ cycle.command = "generate" => stage \in {"generate", "done"}
  /\ stage = "run" => Len(collected) < Len(batches)
  /\ cycle.command # "generate" /\ stage \in {"select", "done"} =>
       Len(collected) = Len(batches)
  /\ cycle.command # "generate" /\ stage = "done" => survivors = Survivors

NothingYet ==
  /\ generated = <<>> /\ batches = <<>> /\ working = {} /\ results = <<>> /\ collected = <<>>
  /\ registered = <<>>

AddUpInv ==
  /\ cycle \in Cycles /\ StagesKept
  /\ generated \in Seq(Candidates) /\ Divides(batches, Len(generated))
  /\ stage = "generate" => NothingYet
  /\ stage # "generate" => Covers(generated)
  /\ results \in Seq(Seq(RowsOf(Len(generated)))) /\ DOMAIN results = DOMAIN batches
  /\ registered \in [1 .. Len(generated) -> Statuses \cup {"absent"}]
  /\ \A b \in DOMAIN batches : RowsTold(b)
  /\ BatchesTaken
  /\ survivors \subseteq 1 .. Len(generated)

LEMMA AddUpStarts == EvolutionInit => AddUpInv
  <1> SUFFICES ASSUME EvolutionInit PROVE AddUpInv
    OBVIOUS
  <1> USE DEF EvolutionInit
  <1>1. Len(generated) = 0 /\ 1 .. 0 = {} /\ DOMAIN generated = {} /\ DOMAIN batches = {}
    OBVIOUS
  <1>2. Divides(batches, Len(generated))
    BY <1>1 DEF Divides
  <1>3. registered \in [1 .. Len(generated) -> Statuses \cup {"absent"}]
    BY <1>1
  <1>4. BatchesTaken /\ NothingYet
    BY <1>1 DEF BatchesTaken, NothingYet
  <1>5. StagesKept
    BY DEF StagesKept, Stages
  <1> QED
    BY <1>1, <1>2, <1>3, <1>4, <1>5 DEF AddUpInv

LEMMA GenerateAddsUp ==
  ASSUME AddUpInv, Generate
  PROVE  AddUpInv'
  <1> DEFINE n == Len(generated')
             size == IF cycle.command = "distributed" THEN BatchSize ELSE n
  <1>1. cycle \in Cycles /\ cycle' = cycle /\ cycle.iterations \in Int /\ cycle.history \in Histories
    BY EvolutionAssumption DEF AddUpInv, Generate
  <1>2. /\ generated' = Generated(cycle.iterations, cycle.history)
        /\ batches' = Chunk(size)
        /\ results' = [b \in DOMAIN batches' |-> <<>>]
        /\ registered' = [at \in DOMAIN generated' |-> "absent"]
        /\ stage' = IF cycle.command = "generate" THEN "done" ELSE "run"
        /\ working' = {} /\ collected' = <<>> /\ UNCHANGED survivors
    BY DEF AddUpInv, Generate, NothingYet
  <1>3. generated' \in Seq(Candidates) /\ Covers(generated')
    BY <1>1, <1>2, GeneratedTyped DEF Covers
  <1>4. n \in Nat \ {0} /\ DOMAIN generated' = 1 .. n
    <2>1. n \in Nat /\ DOMAIN generated' = 1 .. n
      BY <1>3
    <2>2. 1 \in DOMAIN Families /\ 1 \in DOMAIN Symbols
      BY NamesTyped
    <2>3. Families[1] \in Range(Families) /\ Symbols[1] \in Range(Symbols)
      BY <2>2 DEF Range
    <2>4. PICK at \in DOMAIN generated' : TRUE
      BY <1>3, <2>3 DEF Covers
    <2> HIDE DEF n
    <2> QED
      BY <2>1, <2>4
  <1>5. size \in Nat \ {0}
    BY <1>4, EvolutionAssumption
  <1>6. Divides(batches', n)
    BY <1>2, <1>3, <1>5, ChunksDivide
  <1> HIDE DEF n, size
  <1>7. batches' \in Seq(Seq(1 .. n))
    BY <1>6 DEF Divides
  <1>8. Len(batches') \in Nat \ {0} /\ DOMAIN batches' = 1 .. Len(batches')
    <2>1. PICK b \in DOMAIN batches' : TRUE
      BY <1>4, <1>6 DEF Divides
    <2> QED
      BY <1>7, <2>1
  <1>9. /\ results' \in Seq(Seq(RowsOf(n))) /\ DOMAIN results' = DOMAIN batches'
        /\ \A b \in DOMAIN batches' : results'[b] = <<>>
    <2>1. results' = [b \in 1 .. Len(batches') |-> <<>>]
      BY <1>2, <1>8
    <2>2. <<>> \in Seq(RowsOf(n))
      OBVIOUS
    <2> QED
      BY <1>8, <2>1, <2>2
  <1>10. ASSUME NEW b \in DOMAIN batches' PROVE RowsTold(b)'
    <2>1. batches'[b] \in Seq(1 .. n) /\ results'[b] = <<>>
      BY <1>7, <1>9
    <2>2. \A k \in DOMAIN batches'[b] : registered'[batches'[b][k]] = "absent"
      BY <1>2, <1>4, <2>1
    <2>3. Len(results'[b]) = 0 /\ DOMAIN results'[b] = {} /\ Len(batches'[b]) \in Nat
      BY <2>1
    <2> QED
      BY <2>2, <2>3 DEF RowsTold
  <1>11. BatchesTaken'
    BY <1>2 DEF BatchesTaken
  <1>12. StagesKept'
    <2>1. Len(collected') = 0 /\ (cycle.command = "generate") = (stage' = "done")
          /\ stage' \in {"run", "done"}
      BY <1>2
    <2> QED
      BY <1>1, <1>8, <2>1 DEF StagesKept, Stages
  <1>13. survivors' \subseteq 1 .. n
    <2>1. survivors = {}
      BY DEF AddUpInv, Generate, NothingYet
    <2> QED
      BY <1>2, <2>1
  <1>14. registered' \in [1 .. n -> Statuses \cup {"absent"}]
    BY <1>2, <1>4
  <1>15. stage' # "generate"
    BY <1>2
  <1> QED
    BY <1>1, <1>3, <1>6, <1>9, <1>10, <1>11, <1>12, <1>13, <1>14, <1>15 DEF AddUpInv, n

(* A row is added to the results of a batch, and the registry told.        *)
LEMMA RowAdded ==
  ASSUME AddUpInv, NEW b \in DOMAIN batches, Unfinished(b), NEW at, NEW status \in Statuses \cup {"failed"},
         at = batches[b][Len(results[b]) + 1],
         results' = [results EXCEPT ![b] = Append(@, [at |-> at, status |-> status])],
         registered' = [registered EXCEPT ![at] = IF status = "failed" THEN "absent" ELSE status],
         UNCHANGED <<batches, generated>>
  PROVE  /\ results' \in Seq(Seq(RowsOf(Len(generated)))) /\ DOMAIN results' = DOMAIN batches
         /\ registered' \in [1 .. Len(generated) -> Statuses \cup {"absent"}]
         /\ \A c \in DOMAIN batches : RowsTold(c)'
         /\ \A c \in DOMAIN batches \ {b} : results'[c] = results[c]
  <1> DEFINE n == Len(generated)
             l == Len(results[b]) + 1
             row == [at |-> at, status |-> status]
             told == IF status = "failed" THEN "absent" ELSE status
  <1>1. /\ Divides(batches, n) /\ batches \in Seq(Seq(1 .. n))
        /\ results \in Seq(Seq(RowsOf(n))) /\ DOMAIN results = DOMAIN batches
        /\ registered \in [1 .. n -> Statuses \cup {"absent"}]
        /\ \A c \in DOMAIN batches : RowsTold(c)
    BY DEF AddUpInv, Divides
  <1> HIDE DEF n
  <1>2. /\ batches[b] \in Seq(1 .. n) /\ results[b] \in Seq(RowsOf(n)) /\ Len(results[b]) \in Nat
        /\ l \in DOMAIN batches[b] /\ at \in 1 .. n
    <2>1. batches[b] \in Seq(1 .. n) /\ results[b] \in Seq(RowsOf(n))
      BY <1>1
    <2>2. Len(results[b]) < Len(batches[b])
      BY DEF Unfinished
    <2>3. l \in DOMAIN batches[b]
      BY <2>1, <2>2
    <2>4. Len(results[b]) \in Nat
      BY <2>1
    <2>5. batches[b][l] \in 1 .. n
      BY <2>1, <2>3, MemberTyped
    <2> QED
      BY <2>1, <2>3, <2>4, <2>5
  <1>3. row \in RowsOf(n) /\ told \in Statuses \cup {"absent"}
    BY <1>2 DEF RowsOf
  <1> HIDE DEF row, told
  <1>4. /\ results'[b] = Append(results[b], row) /\ results'[b] \in Seq(RowsOf(n))
        /\ Len(results'[b]) = l /\ DOMAIN results'[b] = (DOMAIN results[b]) \cup {l}
        /\ results'[b][l] = row /\ l \notin DOMAIN results[b]
        /\ \A k \in DOMAIN results[b] : results'[b][k] = results[b][k]
    <2>1. results'[b] = Append(results[b], row)
      BY <1>1 DEF row
    <2>2. results[b] \in Seq(RowsOf(n)) /\ row \in RowsOf(n)
      BY <1>2, <1>3
    <2> QED
      BY <2>1, <2>2
  <1>5. \A c \in DOMAIN batches \ {b} : results'[c] = results[c]
    <2>1. results' = [results EXCEPT ![b] = Append(results[b], row)]
      BY DEF row
    <2> QED
      BY <1>1, <2>1
  <1>6. results' \in Seq(Seq(RowsOf(n))) /\ DOMAIN results' = DOMAIN batches
    <2>1. Append(results[b], row) \in Seq(RowsOf(n)) /\ b \in DOMAIN results
      BY <1>1, <1>4
    <2>2. results' = [results EXCEPT ![b] = Append(results[b], row)]
      BY DEF row
    <2> QED
      BY <1>1, <2>1, <2>2
  <1>7. registered' \in [1 .. n -> Statuses \cup {"absent"}] /\ registered'[at] = told
        /\ \A x \in 1 .. n : x # at => registered'[x] = registered[x]
    BY <1>1, <1>2, <1>3 DEF told
  <1>8. ASSUME NEW c \in DOMAIN batches, NEW k \in DOMAIN batches[c], <<c, k>> # <<b, l>>
        PROVE  registered'[batches[c][k]] = registered[batches[c][k]]
    <2>1. batches[c][k] \in 1 .. n
      <3>1. batches[c] \in Seq(1 .. n)
        BY <1>1
      <3> QED
        BY <3>1, MemberTyped
    <2>2. batches[c][k] # at
      BY <1>1, <1>2, <1>8 DEF Divides
    <2> QED
      BY <1>7, <2>1, <2>2
  <1>9. ASSUME NEW c \in DOMAIN batches \ {b} PROVE RowsTold(c)'
    <2>1. RowsTold(c) /\ results'[c] = results[c] /\ batches'[c] = batches[c]
      BY <1>1, <1>5
    <2>2. DOMAIN results[c] \subseteq DOMAIN batches[c]
      <3>1. results[c] \in Seq(RowsOf(n)) /\ batches[c] \in Seq(1 .. n) /\ Len(results[c]) <= Len(batches[c])
        BY <1>1, <2>1 DEF RowsTold
      <3> QED
        BY <3>1
    <2>3. \A k \in DOMAIN batches[c] : registered'[batches[c][k]] = registered[batches[c][k]]
      BY <1>8
    <2> QED
      BY <2>1, <2>2, <2>3 DEF RowsTold
  <1>10. RowsTold(b)'
    <2>1. RowsTold(b) /\ batches'[b] = batches[b]
      BY <1>1
    <2>2. /\ Len(results[b]) + 1 <= Len(batches[b]) /\ DOMAIN batches[b] = 1 .. Len(batches[b])
          /\ DOMAIN results[b] = 1 .. Len(results[b])
      BY <1>2
    <2>3. \A k \in DOMAIN batches[b] : k # l => registered'[batches[b][k]] = registered[batches[b][k]]
      BY <1>8
    <2>4. ASSUME NEW k \in DOMAIN results'[b]
          PROVE  /\ results'[b][k].at = batches[b][k]
                 /\ registered'[batches[b][k]] =
                      IF results'[b][k].status = "failed" THEN "absent" ELSE results'[b][k].status
      <3>1. CASE k = l
        BY <1>4, <1>7, <3>1 DEF row, told
      <3>2. CASE k # l
        <4>1. k \in DOMAIN results[b] /\ k \in DOMAIN batches[b] /\ results'[b][k] = results[b][k]
          BY <1>2, <1>4, <2>2, <3>2
        <4> QED
          BY <2>1, <2>3, <3>2, <4>1 DEF RowsTold
      <3> QED
        BY <3>1, <3>2
    <2>5. ASSUME NEW k \in DOMAIN batches[b], k > l
          PROVE  registered'[batches[b][k]] = "absent"
      <3>1. k # l /\ k > Len(results[b])
        BY <1>2, <2>2, <2>5
      <3> QED
        BY <2>1, <2>3, <3>1 DEF RowsTold
    <2>6. Len(results'[b]) <= Len(batches'[b])
      BY <1>4, <2>1, <2>2
    <2> QED
      BY <1>4, <2>1, <2>4, <2>5, <2>6 DEF RowsTold
  <1> QED
    BY <1>5, <1>6, <1>7, <1>9, <1>10 DEF n

LEMMA RowAddsUp ==
  ASSUME AddUpInv, NEW b \in DOMAIN batches, b \in working, Unfinished(b), NEW at,
         NEW status \in Statuses \cup {"failed"},
         at = batches[b][Len(results[b]) + 1],
         results' = [results EXCEPT ![b] = Append(@, [at |-> at, status |-> status])],
         registered' = [registered EXCEPT ![at] = IF status = "failed" THEN "absent" ELSE status],
         UNCHANGED <<cycle, stage, generated, batches, working, collected, survivors>>,
         stage = "run"
  PROVE  AddUpInv'
  <1>1. /\ results' \in Seq(Seq(RowsOf(Len(generated)))) /\ DOMAIN results' = DOMAIN batches
        /\ registered' \in [1 .. Len(generated) -> Statuses \cup {"absent"}]
        /\ \A c \in DOMAIN batches : RowsTold(c)'
        /\ \A c \in DOMAIN batches \ {b} : results'[c] = results[c]
    BY RowAdded
  <1>2. BatchesTaken'
    <2>1. BatchesTaken
      BY DEF AddUpInv
    <2>2. ASSUME NEW k \in DOMAIN collected PROVE collected[k] \notin working /\ ~Unfinished(collected[k])'
      <3>1. collected[k] \in DOMAIN batches /\ collected[k] \notin working /\ ~Unfinished(collected[k])
        BY <2>1, MemberTyped DEF BatchesTaken
      <3>2. results'[collected[k]] = results[collected[k]]
        BY <1>1, <3>1
      <3> QED
        BY <3>1, <3>2 DEF Unfinished
    <2> QED
      BY <2>1, <2>2 DEF BatchesTaken
  <1>3. StagesKept'
    BY DEF AddUpInv, StagesKept
  <1> QED
    BY <1>1, <1>2, <1>3 DEF AddUpInv

LEMMA ProcessAddsUp ==
  ASSUME AddUpInv, NEW b \in DOMAIN batches, NEW figures, Process(b, figures)
  PROVE  AddUpInv'
  <1> DEFINE at     == batches[b][Len(results[b]) + 1]
             done   == IF cycle.command = "evolve" THEN results[b] ELSE <<>>
             status == AutoPromote(Merged(figures), at, done)
  <1>1. /\ b \in working /\ Unfinished(b) /\ stage = "run"
        /\ results' = [results EXCEPT ![b] = Append(@, [at |-> at, status |-> status])]
        /\ registered' = [registered EXCEPT ![at] = status]
        /\ UNCHANGED <<cycle, stage, generated, batches, working, collected, survivors>>
    BY Zenon DEF Process
  <1>2. status \in Statuses
    BY DEF AutoPromote, Statuses
  <1> HIDE DEF done, status
  <1>3. status # "failed"
    BY <1>2 DEF Statuses
  <1> QED
    BY <1>1, <1>2, <1>3, RowAddsUp

LEMMA FailAddsUp ==
  ASSUME AddUpInv, NEW b \in DOMAIN batches, Fail(b)
  PROVE  AddUpInv'
  <1> DEFINE at == batches[b][Len(results[b]) + 1]
  <1>1. /\ b \in working /\ Unfinished(b) /\ stage = "run"
        /\ UNCHANGED <<cycle, generated, batches, working, collected, registered, survivors>>
    BY DEF Fail
  <1>2. CASE cycle.command = "evolve"
    <2>1. stage' = "aborted" /\ UNCHANGED results
      BY <1>2 DEF Fail
    <2>2. BatchesTaken' /\ StagesKept'
      BY <1>1, <1>2, <2>1 DEF AddUpInv, BatchesTaken, StagesKept, Stages, Unfinished
    <2>3. \A c \in DOMAIN batches : RowsTold(c)'
      BY <1>1, <2>1 DEF AddUpInv, RowsTold
    <2> QED
      BY <1>1, <2>1, <2>2, <2>3 DEF AddUpInv
  <1>3. CASE cycle.command # "evolve"
    <2>1. /\ results' = [results EXCEPT ![b] = Append(@, [at |-> at, status |-> "failed"])]
          /\ UNCHANGED stage
      BY <1>3 DEF Fail
    <2>2. /\ batches[b] \in Seq(1 .. Len(generated)) /\ Len(results[b]) \in Nat
          /\ RowsTold(b)
      BY MemberTyped DEF AddUpInv, Divides
    <2>3. Len(results[b]) + 1 \in DOMAIN batches[b] /\ Len(results[b]) + 1 > Len(results[b])
      BY <1>1, <2>2 DEF Unfinished
    <2>4. registered[at] = "absent"
      BY <2>2, <2>3 DEF RowsTold
    <2>5. registered' = [registered EXCEPT ![at] = "absent"]
      <3>1. registered \in [1 .. Len(generated) -> Statuses \cup {"absent"}]
        BY DEF AddUpInv
      <3> HIDE DEF at
      <3> QED
        BY <1>1, <2>4, <3>1
    <2> HIDE DEF at
    <2> QED
      BY <1>1, <2>1, <2>5, RowAddsUp DEF at
  <1> QED
    BY <1>2, <1>3

LEMMA TakeAddsUp ==
  ASSUME AddUpInv, NEW b \in DOMAIN batches, TakeBatch(b)
  PROVE  AddUpInv'
  <1>1. /\ stage = "run" /\ b \notin Range(collected)
        /\ working' = working \cup {b}
        /\ UNCHANGED <<cycle, stage, generated, batches, results, collected, registered, survivors>>
    BY DEF TakeBatch, Started
  <1>2. BatchesTaken'
    <2>1. \A k \in DOMAIN collected : collected[k] # b
      BY <1>1 DEF Range
    <2> QED
      BY <1>1, <2>1 DEF AddUpInv, BatchesTaken, Unfinished
  <1>3. StagesKept' /\ \A c \in DOMAIN batches : RowsTold(c)'
    BY <1>1 DEF AddUpInv, StagesKept, RowsTold
  <1> QED
    BY <1>1, <1>2, <1>3 DEF AddUpInv

LEMMA CollectAddsUp ==
  ASSUME AddUpInv, NEW b \in DOMAIN batches, Collect(b)
  PROVE  AddUpInv'
  <1>1. /\ b \in working /\ ~Unfinished(b) /\ stage = "run"
        /\ working' = working \ {b} /\ collected' = Append(collected, b)
        /\ stage' = IF Len(collected') = Len(batches) THEN "select" ELSE "run"
        /\ UNCHANGED <<cycle, generated, batches, results, registered, survivors>>
    BY DEF Collect
  <1>2. BatchesTaken /\ Len(collected) < Len(batches) /\ Len(batches) \in Nat
    <2>1. BatchesTaken /\ StagesKept /\ batches \in Seq(Seq(1 .. Len(generated)))
      BY DEF AddUpInv, Divides
    <2> QED
      BY <1>1, <2>1 DEF StagesKept
  <1> DEFINE B == DOMAIN batches
             l == Len(collected) + 1
  <1>3. /\ collected' \in Seq(B) /\ Len(collected') = l /\ Len(collected) \in Nat
        /\ DOMAIN collected' = (DOMAIN collected) \cup {l} /\ l \notin DOMAIN collected
        /\ collected'[l] = b
        /\ \A k \in DOMAIN collected : collected'[k] = collected[k]
    <2>1. collected \in Seq(B)
      BY <1>2 DEF BatchesTaken
    <2> HIDE DEF B
    <2>2. b \in B
      BY DEF B
    <2> QED
      BY <1>1, <2>1, <2>2
  <1> HIDE DEF l
  <1>4. BatchesTaken'
    <2>1. \A k \in DOMAIN collected : collected[k] # b
      BY <1>1, <1>2 DEF BatchesTaken
    <2>2. \A k, m \in DOMAIN collected' : collected'[k] = collected'[m] => k = m
      BY <1>2, <1>3, <2>1 DEF BatchesTaken
    <2>3. \A k \in DOMAIN collected' : collected'[k] \notin working' /\ ~Unfinished(collected'[k])
      BY <1>1, <1>2, <1>3 DEF BatchesTaken
    <2>4. \A c : Unfinished(c)' = Unfinished(c)
      BY <1>1 DEF Unfinished
    <2> QED
      BY <1>1, <1>2, <1>3, <2>2, <2>3, <2>4 DEF BatchesTaken
  <1>5. StagesKept'
    <2>1. l <= Len(batches) /\ l \in Nat
      BY <1>2, <1>3 DEF l
    <2>2. stage' = "run" => Len(collected') < Len(batches)
      BY <1>1, <1>2, <1>3, <2>1
    <2> QED
      BY <1>1, <2>2 DEF AddUpInv, StagesKept, Stages
  <1>6. \A c \in DOMAIN batches : RowsTold(c)'
    BY <1>1 DEF AddUpInv, RowsTold
  <1>7. stage' # "generate" /\ stage # "generate"
    BY <1>1
  <1> QED
    BY <1>1, <1>4, <1>5, <1>6, <1>7 DEF AddUpInv

(* The results in the order they came in: each row in one place.           *)
LEMMA ResultsOnce ==
  ASSUME AddUpInv
  PROVE  /\ Promoted \in Seq(RowsOf(Len(generated)))
         /\ \A x, y \in DOMAIN Promoted : Promoted[x].at = Promoted[y].at => x = y
         /\ \A x \in DOMAIN Promoted : \E i \in DOMAIN collected : \E j \in DOMAIN results[collected[i]] :
              Promoted[x] = results[collected[i]][j]
         /\ \A i \in DOMAIN collected : \A j \in DOMAIN results[collected[i]] :
              \E x \in DOMAIN Promoted : Promoted[x] = results[collected[i]][j]
  <1> DEFINE n == Len(generated)
             ss == [k \in DOMAIN collected |-> results[collected[k]]]
  <1>1. /\ collected \in Seq(DOMAIN batches) /\ DOMAIN results = DOMAIN batches
        /\ results \in Seq(Seq(RowsOf(n)))
        /\ \A k, l \in DOMAIN collected : collected[k] = collected[l] => k = l
        /\ Divides(batches, n) /\ \A b \in DOMAIN batches : RowsTold(b)
    BY DEF AddUpInv, BatchesTaken
  <1> HIDE DEF n
  <1>2. \A k \in DOMAIN collected :
          /\ collected[k] \in DOMAIN batches /\ results[collected[k]] \in Seq(RowsOf(n))
    <2>1. \A k \in DOMAIN collected : collected[k] \in DOMAIN batches
      BY <1>1, MemberTyped
    <2> QED
      BY <1>1, <2>1, MemberTyped
  <1>3. /\ ss \in Seq(Seq(RowsOf(n))) /\ DOMAIN ss = DOMAIN collected
        /\ \A k \in DOMAIN collected : ss[k] = results[collected[k]]
    <2>1. DOMAIN collected = 1 .. Len(collected) /\ Len(collected) \in Nat
      BY <1>1
    <2> QED
      BY <1>2, <2>1
  <1>4. Promoted = FlattenSeq(ss)
    BY DEF Promoted
  <1> HIDE DEF ss
  <1>5. Once(ss)
    <2> SUFFICES ASSUME NEW i \in DOMAIN ss, NEW c \in DOMAIN ss, NEW j \in DOMAIN ss[i],
                        NEW k \in DOMAIN ss[c], ss[i][j].at = ss[c][k].at
                 PROVE  i = c /\ j = k
      BY DEF Once
    <2> DEFINE b == collected[i]
               d == collected[c]
    <2>1. /\ i \in DOMAIN collected /\ c \in DOMAIN collected
          /\ b \in DOMAIN batches /\ d \in DOMAIN batches
          /\ ss[i] = results[b] /\ ss[c] = results[d] /\ RowsTold(b) /\ RowsTold(d)
          /\ results[b] \in Seq(RowsOf(n)) /\ results[d] \in Seq(RowsOf(n))
          /\ batches[b] \in Seq(1 .. n) /\ batches[d] \in Seq(1 .. n)
      BY <1>1, <1>2, <1>3, MemberTyped DEF Divides
    <2>2. batches[b][j] = batches[d][k]
      BY <2>1 DEF RowsTold
    <2>3. j \in DOMAIN batches[b] /\ k \in DOMAIN batches[d]
      <3>1. Len(results[b]) <= Len(batches[b]) /\ Len(results[d]) <= Len(batches[d])
        BY <2>1 DEF RowsTold
      <3>2. j \in DOMAIN results[b] /\ k \in DOMAIN results[d]
        BY <2>1
      <3> HIDE DEF b, d
      <3> QED
        BY <2>1, <3>1, <3>2
    <2>4. b = d /\ j = k
      BY <1>1, <2>1, <2>2, <2>3 DEF Divides
    <2> QED
      BY <1>1, <2>1, <2>4
  <1>6. LET flat == FlattenSeq(ss) IN
        /\ flat \in Seq(RowsOf(n))
        /\ \A i \in DOMAIN ss : \A j \in DOMAIN ss[i] : \E x \in DOMAIN flat : flat[x] = ss[i][j]
        /\ \A x \in DOMAIN flat : \E i \in DOMAIN ss : \E j \in DOMAIN ss[i] : flat[x] = ss[i][j]
        /\ Once(ss) => \A x, y \in DOMAIN flat : flat[x].at = flat[y].at => x = y
    BY <1>3, FlattenHolds
  <1>7. /\ Promoted \in Seq(RowsOf(n))
        /\ \A x, y \in DOMAIN Promoted : Promoted[x].at = Promoted[y].at => x = y
        /\ \A i \in DOMAIN ss : \A j \in DOMAIN ss[i] : \E x \in DOMAIN Promoted : Promoted[x] = ss[i][j]
        /\ \A x \in DOMAIN Promoted : \E i \in DOMAIN ss : \E j \in DOMAIN ss[i] : Promoted[x] = ss[i][j]
    BY <1>4, <1>5, <1>6
  <1>8. \A x \in DOMAIN Promoted : \E i \in DOMAIN collected : \E j \in DOMAIN results[collected[i]] :
          Promoted[x] = results[collected[i]][j]
    <2> SUFFICES ASSUME NEW x \in DOMAIN Promoted
                 PROVE  \E i \in DOMAIN collected : \E j \in DOMAIN results[collected[i]] :
                          Promoted[x] = results[collected[i]][j]
      OBVIOUS
    <2>1. PICK i \in DOMAIN ss : \E j \in DOMAIN ss[i] : Promoted[x] = ss[i][j]
      BY <1>7
    <2>2. i \in DOMAIN collected /\ ss[i] = results[collected[i]]
      BY <1>3
    <2> QED
      BY <2>1, <2>2
  <1>9. \A i \in DOMAIN collected : \A j \in DOMAIN results[collected[i]] :
          \E x \in DOMAIN Promoted : Promoted[x] = results[collected[i]][j]
    <2> SUFFICES ASSUME NEW i \in DOMAIN collected, NEW j \in DOMAIN results[collected[i]]
                 PROVE  \E x \in DOMAIN Promoted : Promoted[x] = results[collected[i]][j]
      OBVIOUS
    <2>1. i \in DOMAIN ss /\ ss[i] = results[collected[i]]
      BY <1>3
    <2> QED
      BY <1>7, <2>1
  <1> QED
    BY <1>7, <1>8, <1>9 DEF n

LEMMA SelectAddsUp ==
  ASSUME AddUpInv, Select
  PROVE  AddUpInv'
  <1>1. /\ stage = "select" /\ stage' = "done" /\ survivors' = Survivors
        /\ UNCHANGED <<cycle, generated, batches, working, results, collected, registered>>
    BY DEF Select, Survivors
  <1>2. Promoted' = Promoted
    BY <1>1 DEF Promoted
  <1>3. Survivors' = Survivors
    BY <1>2 DEF Survivors
  <1>4. Survivors \subseteq 1 .. Len(generated)
    <2>1. \A x \in DOMAIN Promoted : Promoted[x] \in RowsOf(Len(generated))
      BY ResultsOnce, MemberTyped
    <2> QED
      BY <2>1 DEF Survivors, RowsOf
  <1>5. StagesKept'
    BY <1>1, <1>3 DEF AddUpInv, StagesKept, Stages
  <1>6. BatchesTaken' /\ \A c \in DOMAIN batches : RowsTold(c)'
    BY <1>1 DEF AddUpInv, BatchesTaken, RowsTold, Unfinished
  <1> QED
    BY <1>1, <1>4, <1>5, <1>6 DEF AddUpInv

LEMMA AddUpHolds == EvolutionSpec => []AddUpInv
  <1>1. AddUpInv /\ [EvolutionNext]_evolutionVars => AddUpInv'
    <2> SUFFICES ASSUME AddUpInv, [EvolutionNext]_evolutionVars PROVE AddUpInv'
      OBVIOUS
    <2>1. CASE Generate
      BY <2>1, GenerateAddsUp
    <2>2. CASE Select
      BY <2>2, SelectAddsUp
    <2>3. ASSUME NEW b \in DOMAIN batches, TakeBatch(b) PROVE AddUpInv'
      BY <2>3, TakeAddsUp
    <2>4. ASSUME NEW b \in DOMAIN batches, Collect(b) PROVE AddUpInv'
      BY <2>4, CollectAddsUp
    <2>5. ASSUME NEW b \in DOMAIN batches, Fail(b) PROVE AddUpInv'
      BY <2>5, FailAddsUp
    <2>6. ASSUME NEW b \in DOMAIN batches, NEW figures, Process(b, figures) PROVE AddUpInv'
      BY <2>6, ProcessAddsUp
    <2>7. CASE UNCHANGED evolutionVars
      <3>1. Promoted' = Promoted
        BY <2>7 DEF evolutionVars, Promoted
      <3> QED
        BY <2>7, <3>1 DEF evolutionVars, AddUpInv, StagesKept, NothingYet, BatchesTaken, RowsTold,
           Unfinished, Survivors
    <2> QED
      BY <2>1, <2>2, <2>3, <2>4, <2>5, <2>6, <2>7 DEF EvolutionNext
  <1> QED
    BY <1>1, AddUpStarts, PTL DEF EvolutionSpec

(* When every batch was collected each candidate has its row.              *)
LEMMA AllCollected ==
  ASSUME AddUpInv, Len(collected) = Len(batches)
  PROVE  /\ \A b \in DOMAIN batches : \E k \in DOMAIN collected : collected[k] = b
         /\ \A at \in 1 .. Len(generated) : \E x \in DOMAIN Promoted : Promoted[x].at = at
         /\ \A x \in DOMAIN Promoted :
              registered[Promoted[x].at] =
                IF Promoted[x].status = "failed" THEN "absent" ELSE Promoted[x].status
  <1> DEFINE n == Len(generated)
             m == Len(batches)
  <1>1. /\ collected \in Seq(DOMAIN batches) /\ DOMAIN results = DOMAIN batches
        /\ results \in Seq(Seq(RowsOf(n))) /\ batches \in Seq(Seq(1 .. n))
        /\ \A k, l \in DOMAIN collected : collected[k] = collected[l] => k = l
        /\ \A k \in DOMAIN collected : ~Unfinished(collected[k])
        /\ Divides(batches, n) /\ \A b \in DOMAIN batches : RowsTold(b)
    BY DEF AddUpInv, BatchesTaken, Divides
  <1>2. m \in Nat /\ DOMAIN batches = 1 .. m /\ DOMAIN collected = 1 .. m
    BY <1>1
  <1>3. collected \in Injection(1 .. m, 1 .. m)
    <2>1. \A k \in 1 .. m : collected[k] \in 1 .. m
      BY <1>1, <1>2, MemberTyped
    <2>2. collected \in [1 .. m -> 1 .. m]
      BY <1>1, <1>2, <2>1
    <2> QED
      BY <1>1, <1>2, <2>2 DEF Injection, IsInjective
  <1>4. collected \in Surjection(1 .. m, 1 .. m)
    <2>1. IsFiniteSet(1 .. m)
      BY <1>2, FS_Interval
    <2> QED
      BY <1>3, <2>1, FS_Injection
  <1>5. \A b \in DOMAIN batches : \E k \in DOMAIN collected : collected[k] = b
    BY <1>2, <1>4 DEF Surjection
  <1> HIDE DEF n, m
  <1>6. ASSUME NEW at \in 1 .. n
        PROVE  \E x \in DOMAIN Promoted : Promoted[x].at = at
    <2>1. PICK b \in DOMAIN batches : \E j \in DOMAIN batches[b] : batches[b][j] = at
      BY <1>1 DEF Divides
    <2>2. PICK j \in DOMAIN batches[b] : batches[b][j] = at
      BY <2>1
    <2>3. PICK i \in DOMAIN collected : collected[i] = b
      BY <1>5
    <2>4. results[b] \in Seq(RowsOf(n)) /\ batches[b] \in Seq(1 .. n)
      BY <1>1, MemberTyped
    <2>5. j \in DOMAIN results[b]
      <3>1. Len(results[b]) \in Nat /\ Len(batches[b]) \in Nat
            /\ DOMAIN results[b] = 1 .. Len(results[b]) /\ DOMAIN batches[b] = 1 .. Len(batches[b])
        BY <2>4
      <3>2. ~(Len(results[b]) < Len(batches[b]))
        BY <1>1, <2>3 DEF Unfinished
      <3> QED
        BY <3>1, <3>2
    <2>6. results[b][j].at = at
      BY <1>1, <2>2, <2>5 DEF RowsTold
    <2> QED
      BY <2>3, <2>5, <2>6, ResultsOnce
  <1>7. ASSUME NEW x \in DOMAIN Promoted
        PROVE  registered[Promoted[x].at] =
                 IF Promoted[x].status = "failed" THEN "absent" ELSE Promoted[x].status
    <2>1. PICK i \in DOMAIN collected : \E j \in DOMAIN results[collected[i]] :
                 Promoted[x] = results[collected[i]][j]
      BY ResultsOnce
    <2>2. collected[i] \in DOMAIN batches
      BY <1>1, MemberTyped
    <2> DEFINE b == collected[i]
    <2>3. RowsTold(b)
      BY <1>1, <2>2
    <2>4. PICK j \in DOMAIN results[b] : Promoted[x] = results[b][j]
      BY <2>1
    <2> HIDE DEF b
    <2> QED
      BY <2>3, <2>4 DEF RowsTold
  <1> QED
    BY <1>5, <1>6, <1>7 DEF n

LEMMA AddedUp == AddUpInv => CyclesAddUp
  <1> SUFFICES ASSUME AddUpInv, stage = "done" PROVE
        /\ \A f \in Range(Families), s \in Range(Symbols) :
             \E at \in DOMAIN generated : generated[at].family = f /\ generated[at].symbol = s
        /\ cycle.command # "generate" =>
             /\ survivors = WithStatus(Statuses \ {"candidate"})
             /\ Len(Promoted) = Len(generated)
             /\ {Promoted[k].at : k \in {k \in DOMAIN Promoted : Promoted[k].status = "failed"}}
                  = WithStatus({"absent"})
    BY DEF CyclesAddUp
  <1>1. \A f \in Range(Families), s \in Range(Symbols) :
          \E at \in DOMAIN generated : generated[at].family = f /\ generated[at].symbol = s
    BY DEF AddUpInv, Covers
  <1>2. ASSUME cycle.command # "generate"
        PROVE  /\ survivors = WithStatus(Statuses \ {"candidate"})
               /\ Len(Promoted) = Len(generated)
               /\ {Promoted[k].at : k \in {k \in DOMAIN Promoted : Promoted[k].status = "failed"}}
                    = WithStatus({"absent"})
    <2> DEFINE n == Len(generated)
    <2>1. Len(collected) = Len(batches) /\ survivors = Survivors
      BY <1>2 DEF AddUpInv, StagesKept
    <2>2. /\ \A at \in 1 .. n : \E x \in DOMAIN Promoted : Promoted[x].at = at
          /\ \A x \in DOMAIN Promoted :
               registered[Promoted[x].at] =
                 IF Promoted[x].status = "failed" THEN "absent" ELSE Promoted[x].status
      BY <2>1, AllCollected
    <2>3. /\ Promoted \in Seq(RowsOf(n))
          /\ \A x, y \in DOMAIN Promoted : Promoted[x].at = Promoted[y].at => x = y
      BY ResultsOnce
    <2>4. \A x \in DOMAIN Promoted : Promoted[x].at \in 1 .. n
                                     /\ Promoted[x].status \in Statuses \cup {"failed"}
      <3>1. \A x \in DOMAIN Promoted : Promoted[x] \in RowsOf(n)
        BY <2>3, MemberTyped
      <3> HIDE DEF n
      <3> QED
        BY <3>1 DEF RowsOf
    <2>5. DOMAIN registered = 1 .. n /\ n \in Nat
      BY DEF AddUpInv
    <2> DEFINE P == Promoted
    <2> HIDE DEF n, P
    <2>6. survivors = WithStatus(Statuses \ {"candidate"})
      <3>1. ASSUME NEW at \in survivors PROVE at \in WithStatus(Statuses \ {"candidate"})
        <4>1. PICK x \in DOMAIN Promoted :
                     /\ Promoted[x].status \in {"validated", "probationary", "deployable"}
                     /\ at = Promoted[x].at
          BY <2>1, <3>1 DEF Survivors
        <4> QED
          BY <2>2, <2>4, <2>5, <4>1 DEF WithStatus, Statuses
      <3>2. ASSUME NEW at \in WithStatus(Statuses \ {"candidate"}) PROVE at \in survivors
        <4>1. at \in 1 .. n /\ registered[at] \in {"validated", "probationary", "deployable"}
          BY <2>5, <3>2 DEF WithStatus, Statuses
        <4>2. PICK x \in DOMAIN Promoted : Promoted[x].at = at
          BY <2>2, <4>1
        <4>3. Promoted[x].status \in {"validated", "probationary", "deployable"}
          BY <2>2, <4>1, <4>2
        <4> QED
          BY <2>1, <4>2, <4>3 DEF Survivors
      <3> QED
        BY <3>1, <3>2
    <2>7. Len(Promoted) = n
      <3> DEFINE l == Len(Promoted)
                 f == [x \in 1 .. l |-> Promoted[x].at]
      <3>1. l \in Nat /\ DOMAIN Promoted = 1 .. l
        BY <2>3
      <3> HIDE DEF l
      <3>2. \A x \in 1 .. l : f[x] = Promoted[x].at
        OBVIOUS
      <3>3. f \in [1 .. l -> 1 .. n]
        BY <2>4, <3>1
      <3> HIDE DEF f
      <3>4. f \in Bijection(1 .. l, 1 .. n)
        <4>1. f \in Injection(1 .. l, 1 .. n)
          BY <2>3, <3>1, <3>2, <3>3 DEF Injection, IsInjective
        <4>2. f \in Surjection(1 .. l, 1 .. n)
          BY <2>2, <3>1, <3>2, <3>3 DEF Surjection
        <4> QED
          BY <4>1, <4>2 DEF Bijection
      <3>5. Cardinality(1 .. n) = Cardinality(1 .. l)
        <4>1. IsFiniteSet(1 .. l) /\ ExistsBijection(1 .. l, 1 .. n)
          BY <3>1, <3>4, FS_Interval DEF ExistsBijection
        <4> QED
          BY <4>1, FS_Bijection
      <3>6. l = n
        BY <2>5, <3>1, <3>5, IntervalSize
      <3> QED
        BY <3>6 DEF l
    <2>8. {Promoted[k].at : k \in {k \in DOMAIN Promoted : Promoted[k].status = "failed"}}
            = WithStatus({"absent"})
      <3>1. ASSUME NEW x \in DOMAIN Promoted, Promoted[x].status = "failed"
            PROVE  Promoted[x].at \in WithStatus({"absent"})
        BY <2>2, <2>4, <2>5, <3>1 DEF WithStatus
      <3>2. ASSUME NEW at \in WithStatus({"absent"})
            PROVE  \E x \in DOMAIN Promoted : Promoted[x].status = "failed" /\ Promoted[x].at = at
        <4>1. at \in 1 .. n /\ registered[at] = "absent"
          BY <2>5, <3>2 DEF WithStatus
        <4>2. PICK x \in DOMAIN Promoted : Promoted[x].at = at
          BY <2>2, <4>1
        <4>3. Promoted[x].status = "failed"
          BY <2>2, <2>4, <4>1, <4>2 DEF Statuses
        <4> QED
          BY <4>2, <4>3
      <3> QED
        BY <3>1, <3>2
    <2> QED
      BY <2>6, <2>7, <2>8 DEF n
  <1> QED
    BY <1>1, <1>2

LEMMA AddUpTyped == AddUpInv => EvolutionTypeOK
  <1> SUFFICES ASSUME AddUpInv PROVE EvolutionTypeOK
    OBVIOUS
  <1> DEFINE n == Len(generated)
  <1>1. /\ cycle \in Cycles /\ stage \in Stages /\ generated \in Seq(Candidates)
        /\ results \in Seq(Seq(RowsOf(n))) /\ DOMAIN results = DOMAIN batches
        /\ registered \in [1 .. n -> Statuses \cup {"absent"}] /\ survivors \subseteq 1 .. n
        /\ working \subseteq DOMAIN batches /\ collected \in Seq(DOMAIN batches)
        /\ \A b \in DOMAIN batches : Len(results[b]) <= Len(batches[b])
    BY DEF AddUpInv, StagesKept, BatchesTaken, RowsTold
  <1>2. DOMAIN generated = 1 .. n /\ \A at \in DOMAIN generated : generated[at] \in Candidates
    BY <1>1, MemberTyped
  <1>3. Range(collected) \subseteq DOMAIN batches
    <2>1. \A k \in DOMAIN collected : collected[k] \in DOMAIN batches
      BY <1>1, MemberTyped
    <2> QED
      BY <2>1 DEF Range
  <1> HIDE DEF n
  <1> QED
    BY <1>1, <1>2, <1>3 DEF EvolutionTypeOK, Candidates, Stages

(* The cycle, its batches and their results keep their types.              *)
THEOREM EvolutionTypeCorrect == EvolutionSpec => []EvolutionTypeOK
  BY AddUpHolds, AddUpTyped, PTL

(* A cycle that ends has dealt with every candidate once (main.py's        *)
(* cmd_evolve, distributed.py's as_completed loop, generation.py's plan),   *)
(* whichever thread took which batch and in whatever order they came in.   *)
THEOREM CyclesDealWithAll == EvolutionSpec => []CyclesAddUp
  BY AddUpHolds, AddedUp, PTL
-----------------------------------------------------------------------------
(* The research track: its types. *)

Decisions == {"none", "insufficient_trade_count", "excessive_drawdown", "weak_sharpe_ratio",
              "suspicious_return_profile", "accepted"}

Curves == {c \in Seq(Int) : c # <<>> /\ c[1] = InitialCapital}

Trials == [capital : Int, curve : Curves, held : {trial.held}, trades : Nat, signals : Nat]

Figured == [return : Int, drawdown : Int, sharpe : Int, trades : Int]

Tried == [metrics : Figured, score : Int, curve : Curves, decision : Decisions]

(* The last point of the curve is the capital, and every other but the     *)
(* first is of a trade.                                                    *)
TrialSound ==
  /\ trial \in Trials
  /\ trial.capital = Last(trial.curve) /\ trial.trades = Len(trial.curve) - 1
  /\ trial.trades <= trial.signals /\ trial.signals <= MaxSignals

(* What is reported of a candidate is of its own curve.                    *)
Reported(c) ==
  c.score = Composite(c.metrics) /\ c.metrics.drawdown = Drawdown(c.curve)

SearchSound ==
  /\ candidates \in Seq(Tried) /\ experiments \in Seq(Figured)
  /\ Len(candidates) <= job.grid /\ Len(experiments) >= Len(candidates)
  /\ \A k \in DOMAIN candidates : Reported(candidates[k])

JobTyped ==
  /\ job \in Jobs
  /\ outcome \in {"running", "done", "failed", "passed", "refused"}

PathKinds ==
  {[curve |-> EquityPath(r), drawdown |-> RunningDrawdown(EquityPath(r)),
    ruined |-> Halved(EquityPath(r), Len(EquityPath(r)))] : r \in Seq(Int)}

PathsTyped ==
  /\ paths \in Seq(PathKinds)
  /\ Len(paths) <= Simulations

BacktestTyped == JobTyped /\ TrialSound /\ SearchSound /\ PathsTyped

LEMMA JobIs == job \in Jobs => job.grid \in Nat /\ job.returns \in Seq(Int)
  <1> SUFFICES ASSUME job \in Jobs PROVE job.grid \in Nat /\ job.returns \in Seq(Int)
    OBVIOUS
  <1>1. <<>> \in Seq(Int)
    OBVIOUS
  <1>2. Grids \subseteq Nat /\ Returns \subseteq Int /\ MaxReturns \in Nat
    BY BacktestAssumption
  <1>3. SeqOf(Returns, MaxReturns) \subseteq Seq(Int)
    <2> SUFFICES ASSUME NEW s \in SeqOf(Returns, MaxReturns) PROVE s \in Seq(Int)
      OBVIOUS
    <2>1. PICK m \in 0 .. MaxReturns : s \in [1 .. m -> Returns]
      BY DEF SeqOf
    <2>2. s = [i \in 1 .. m |-> s[i]]
      BY <2>1, Zenon
    <2>3. \A i \in 1 .. m : s[i] \in Int
      BY <1>2, <2>1, Zenon
    <2>4. s \in [1 .. m -> Int]
      BY <2>2, <2>3, Zenon
    <2>5. m \in Nat
      BY <1>2, <2>1
    <2> QED
      BY <2>4, <2>5
  <1>4. \/ job \in [call : {"search"}, grid : Grids, returns : {<<>>}]
        \/ job \in [call : {"walk"}, grid : {0}, returns : {<<>>}]
        \/ job \in [call : {"robust"}, grid : {0}, returns : SeqOf(Returns, MaxReturns)]
    BY Zenon DEF Jobs
  <1>5. job.grid \in Grids \cup {0}
    BY <1>4, Zenon
  <1>6. job.returns \in SeqOf(Returns, MaxReturns) \cup {<<>>}
    BY <1>4, Zenon
  <1>7. job.grid \in Nat
    <2>1. Grids \cup {0} \subseteq Nat
      BY <1>2
    <2> QED
      BY <1>5, <2>1, Zenon
  <1>8. job.returns \in Seq(Int)
    BY <1>1, <1>3, <1>6, Zenon
  <1> QED
    BY <1>7, <1>8

LEMMA InitBacktest == BacktestInit => BacktestTyped
  <1> SUFFICES ASSUME BacktestInit PROVE BacktestTyped
    OBVIOUS
  <1>1. InitialCapital \in Nat /\ MaxSignals \in Nat /\ Simulations \in Nat
    BY BacktestAssumption
  <1>2. JobTyped /\ job.grid \in Nat
    BY JobIs DEF BacktestInit, JobTyped
  <1>3. TrialSound
    <2>1. <<InitialCapital>> \in Curves /\ Last(<<InitialCapital>>) = InitialCapital
          /\ Len(<<InitialCapital>>) = 1
      BY <1>1 DEF Curves, Last
    <2> QED
      BY <1>1, <2>1 DEF BacktestInit, TrialSound, Trials, Fresh
  <1>4. SearchSound
    <2>1. experiments \in Seq(Figured)
      BY BacktestAssumption DEF BacktestInit, Figured
    <2> QED
      BY <1>2, <2>1 DEF BacktestInit, SearchSound
  <1>5. PathsTyped
    BY <1>1 DEF BacktestInit, PathsTyped
  <1> QED
    BY <1>2, <1>3, <1>4, <1>5 DEF BacktestTyped

LEMMA CurveGrows ==
  ASSUME NEW c \in Curves, NEW x \in Int
  PROVE  /\ Append(c, x) \in Curves /\ Last(Append(c, x)) = x
         /\ Len(Append(c, x)) = Len(c) + 1 /\ Len(c) \in Nat
         /\ \A i \in 1 .. Len(c) : Append(c, x)[i] = c[i]
  <1>1. c \in Seq(Int) /\ c # <<>> /\ c[1] = InitialCapital
    BY DEF Curves
  <1> DEFINE d == Append(c, x)
  <1>2. /\ d \in Seq(Int) /\ Len(d) = Len(c) + 1 /\ Len(c) \in Nat
        /\ d[Len(c) + 1] = x /\ \A i \in 1 .. Len(c) : d[i] = c[i]
    BY <1>1
  <1>3. Len(c) >= 1
    BY <1>1
  <1> HIDE DEF d
  <1>4. d # <<>> /\ d[1] = InitialCapital /\ Last(d) = x
    <2>1. 1 \in 1 .. Len(c)
      BY <1>2, <1>3
    <2>2. Len(<<>>) = 0
      OBVIOUS
    <2> QED
      BY <1>1, <1>2, <1>3, <2>1, <2>2 DEF Last
  <1> QED
    BY <1>2, <1>4 DEF d, Curves

LEMMA NotionalTyped ==
  ASSUME NEW capital \in Int, NEW confidence \in Int, NEW price \in Nat
  PROVE  /\ Notional(capital, confidence, price) \in Int
         /\ Notional(capital, confidence, price) > 0 => price > 0
  <1>1. RiskPct \in Nat
    BY BacktestAssumption
  <1> DEFINE sure == Max({25, Min({100, confidence})})
             share == (capital * RiskPct) \div 100
  <1>2. sure \in Int
    <2> DEFINE low == Min({100, confidence})
    <2>1. 100 \in Int /\ 25 \in Int /\ confidence \in Int
      OBVIOUS
    <2>2. low \in {100, confidence}
      BY ONLY <2>1, MinOfTwo
    <2>3. low \in Int
      BY ONLY <2>1, <2>2, Zenon
    <2> HIDE DEF low
    <2>4. Max({25, low}) \in {25, low}
      BY ONLY <2>1, <2>3, MaxOfTwo
    <2>5. Max({25, low}) \in Int
      BY ONLY <2>1, <2>3, <2>4, Zenon
    <2> QED
      BY <2>5 DEF low
  <1>3. share \in Int
    <2> DEFINE p == capital * RiskPct
    <2>1. p \in Int
      BY <1>1
    <2> HIDE DEF p
    <2>2. p \div 100 \in Int
      BY <2>1
    <2> QED
      BY <2>2 DEF p
  <1>4. Notional(capital, confidence, price)
          = IF price <= 0 THEN 0 ELSE (share * sure) \div 100
    BY DEF Notional
  <1> HIDE DEF sure, share
  <1>5. share * sure \in Int
    BY <1>2, <1>3
  <1>6. (share * sure) \div 100 \in Int
    BY <1>5
  <1> QED
    BY <1>4, <1>6

LEMMA NetPnlTyped ==
  ASSUME NEW notional \in Int, NEW side, NEW entry \in Nat \ {0}, NEW exit \in Nat
  PROVE  NetPnl(notional, side, entry, exit) \in Int
  <1>1. FeeBps \in Nat /\ SlippageBps \in Nat
    BY BacktestAssumption
  <1> DEFINE p == notional * (exit * 10000 - entry * (10000 + SlippageBps))
             q == notional * (10000 + SlippageBps) * FeeBps
             d == entry * 10000
             rise == p \div d
             fees == q \div 100000000
  <1>2. p \in Int
    <2> DEFINE a == entry * (10000 + SlippageBps)
    <2>1. a \in Int
      BY <1>1
    <2> HIDE DEF a
    <2> DEFINE b == exit * 10000 - a
    <2>2. b \in Int
      BY <2>1
    <2> HIDE DEF b
    <2> QED
      BY <2>2 DEF a, b
  <1>3. q \in Int
    <2> DEFINE a == notional * (10000 + SlippageBps)
    <2>1. a \in Int
      BY <1>1
    <2> HIDE DEF a
    <2> QED
      BY <1>1, <2>1 DEF a
  <1>4. d \in Nat \ {0}
    OBVIOUS
  <1>5. NetPnl(notional, side, entry, exit)
          = (IF side = "buy" THEN rise ELSE 0 - rise) - fees
    BY DEF NetPnl
  <1> HIDE DEF p, q, d
  <1>6. rise \in Int /\ fees \in Int
    BY <1>2, <1>3, <1>4
  <1> HIDE DEF rise, fees
  <1> QED
    BY <1>5, <1>6

(* What a turn of the loop over the signals does to the trial, if it does  *)
(* not skip the signal.                                                    *)
LEMMA ReplayEffect ==
  ASSUME TrialSound, NEW bar \in 0 .. Len(Closes), NEW side \in {"buy", "sell"},
         NEW confidence \in Confidences, ReplaySignal(bar, side, confidence)
  PROVE  \/ trial' = [trial EXCEPT !.signals = @ + 1]
         \/ LET entry    == Closes[bar]
                exit     == Closes[bar + HoldingBars]
                notional == Notional(trial.capital, confidence, entry)
                capital  == trial.capital + NetPnl(notional, side, entry, exit)
            IN /\ bar \in 1 .. Len(Closes) /\ bar + HoldingBars \in 1 .. Len(Closes)
               /\ entry \in Nat \ {0} /\ exit \in Nat
               /\ notional \in Nat \ {0} /\ capital \in Int
               /\ \E h : trial' = [capital |-> capital, curve |-> Append(trial.curve, capital),
                                   held |-> h, trades |-> trial.trades + 1,
                                   signals |-> trial.signals + 1]
  <1> DEFINE entry    == Closes[bar]
             exit     == Closes[bar + HoldingBars]
             notional == Notional(trial.capital, confidence, entry)
             capital  == trial.capital + NetPnl(notional, side, entry, exit)
             skipped  == [trial EXCEPT !.signals = @ + 1]
             rest     == Remove(Append(trial.held, notional), notional)
             traded   == [skipped EXCEPT !.capital = capital, !.curve = Append(@, capital),
                                         !.held = rest, !.trades = @ + 1]
             skip     == \/ Len(trial.held) >= MaxPositions
                         \/ bar = 0 \/ bar + HoldingBars > Len(Closes)
                         \/ Exposure(trial.held, trial.capital) >= ExposurePct
                         \/ notional <= 0
  <1>1. trial' = IF skip THEN skipped ELSE traded
    BY Zenon DEF ReplaySignal
  <1> SUFFICES ASSUME ~ skip
               PROVE  /\ bar \in 1 .. Len(Closes) /\ bar + HoldingBars \in 1 .. Len(Closes)
                      /\ entry \in Nat \ {0} /\ exit \in Nat
                      /\ notional \in Nat \ {0} /\ capital \in Int
                      /\ \E h : trial' = [capital |-> capital, curve |-> Append(trial.curve, capital),
                                          held |-> h, trades |-> trial.trades + 1,
                                          signals |-> trial.signals + 1]
    BY <1>1, Zenon
  <1>2. bar # 0 /\ ~(bar + HoldingBars > Len(Closes)) /\ ~(notional <= 0)
    OBVIOUS
  <1>3. trial' = traded
    BY <1>1, Zenon
  <1> HIDE DEF skip
  <1>4. /\ Closes \in Seq(Nat) /\ HoldingBars \in Nat \ {0} /\ confidence \in Int
        /\ trial.capital \in Int /\ Len(Closes) \in Nat
    <2>1. Closes \in Seq(Nat) /\ HoldingBars \in Nat \ {0} /\ Confidences \subseteq Int
      BY BacktestAssumption
    <2> QED
      BY <2>1 DEF TrialSound, Trials
  <1>5. bar \in 1 .. Len(Closes) /\ bar + HoldingBars \in 1 .. Len(Closes)
    BY <1>2, <1>4
  <1>6. entry \in Nat /\ exit \in Nat
    BY <1>4, <1>5, MemberTyped
  <1> HIDE DEF entry, exit
  <1>7. notional \in Int /\ (notional > 0 => entry > 0)
    BY <1>4, <1>6, NotionalTyped
  <1> HIDE DEF notional
  <1>8. notional \in Nat \ {0} /\ entry \in Nat \ {0}
    BY <1>2, <1>6, <1>7
  <1>9. NetPnl(notional, side, entry, exit) \in Int
    BY <1>6, <1>7, <1>8, NetPnlTyped
  <1>10. capital \in Int
    BY <1>4, <1>9
  <1> HIDE DEF capital, rest
  <1>11. \E h : trial' = [capital |-> capital, curve |-> Append(trial.curve, capital), held |-> h,
                          trades |-> trial.trades + 1, signals |-> trial.signals + 1]
    <2>1. trial \in Trials
      BY DEF TrialSound
    <2>2. trial = [capital |-> trial.capital, curve |-> trial.curve, held |-> trial.held,
                   trades |-> trial.trades, signals |-> trial.signals]
      BY <2>1 DEF Trials
    <2> DEFINE more == Append(trial.curve, capital)
    <2>3. skipped = [capital |-> trial.capital, curve |-> trial.curve, held |-> trial.held,
                     trades |-> trial.trades, signals |-> trial.signals + 1]
      BY <2>1 DEF Trials
    <2>4. traded = [capital |-> capital, curve |-> more, held |-> rest,
                    trades |-> trial.trades + 1, signals |-> trial.signals + 1]
      <3> HIDE DEF skipped, more
      <3>1. traded = [skipped EXCEPT !.capital = capital, !.curve = more,
                                     !.held = rest, !.trades = @ + 1]
        BY <2>3, Zenon DEF more
      <3> HIDE DEF traded
      <3> QED
        BY <2>3, <3>1
    <2> QED
      BY <1>3, <2>4
  <1> QED
    BY <1>5, <1>6, <1>8, <1>10, <1>11

(* A finite set of numbers has a largest and a smallest. *)
LEMMA FiniteMax ==
  ASSUME NEW S, IsFiniteSet(S), S # {}, \A x \in S : x \in Int
  PROVE  Max(S) \in S /\ \A y \in S : y <= Max(S)
  <1> DEFINE HasMax(s) == \E x \in s : \A y \in s : x >= y
             B == {s \in SUBSET S : s # {} /\ ~HasMax(s)}
  <1>1. B = {}
    <2> SUFFICES ASSUME B # {} PROVE FALSE
      OBVIOUS
    <2>1. PICK s \in B : \A u \in B : u \subseteq s => u = s
      <3>1. B \in SUBSET (SUBSET S)
        OBVIOUS
      <3>2. B # {} /\ IsFiniteSet(S)
        OBVIOUS
      <3> HIDE DEF B
      <3> QED
        BY ONLY <3>1, <3>2, SmallestSubset
    <2>2. s \in SUBSET S /\ s # {} /\ ~HasMax(s)
      OBVIOUS
    <2>3. PICK a \in s : TRUE
      BY <2>2
    <2>4. CASE s \ {a} = {}
      <3>1. \A y \in s : y = a
        BY <2>4
      <3> QED
        BY <2>2, <2>3, <3>1
    <2>5. CASE s \ {a} # {}
      <3> DEFINE u == s \ {a}
      <3>1. u \in SUBSET S /\ u \subseteq s /\ u # s /\ u # {}
        BY <2>2, <2>3, <2>5
      <3>2. u \notin B
        BY <2>1, <3>1
      <3> HIDE DEF u, HasMax
      <3>3. HasMax(u)
        BY <3>1, <3>2
      <3>4. PICK m \in s \ {a} : \A y \in s \ {a} : m >= y
        BY <3>3 DEF HasMax, u
      <3>5. a \in Int /\ m \in Int
        BY <2>2, <2>3
      <3>6. CASE m >= a
        BY <2>2, <3>4, <3>6 DEF HasMax
      <3>7. CASE a >= m
        <4>1. \A y \in s : a >= y
          BY <2>2, <3>4, <3>5, <3>7
        <4> QED
          BY <2>2, <2>3, <4>1 DEF HasMax
      <3> QED
        BY <3>5, <3>6, <3>7
    <2> QED
      BY <2>4, <2>5
  <1>2. \E x \in S : \A y \in S : x >= y
    BY <1>1
  <1>3. Max(S) \in S /\ \A y \in S : Max(S) >= y
    BY <1>2 DEF Max
  <1> QED
    BY <1>3

LEMMA FiniteMin ==
  ASSUME NEW S, IsFiniteSet(S), S # {}, \A x \in S : x \in Int
  PROVE  Min(S) \in S /\ \A y \in S : Min(S) <= y
  <1> DEFINE N == {-x : x \in S}
  <1>1. N # {} /\ \A y \in N : y \in Int
    <2>1. PICK x \in S : TRUE
      OBVIOUS
    <2>2. -x \in N
      OBVIOUS
    <2>3. \A y \in N : y \in Int
      OBVIOUS
    <2> HIDE DEF N
    <2> QED
      BY <2>2, <2>3
  <1>2. IsFiniteSet(N)
    <2> DEFINE f == [x \in S |-> -x]
    <2>1. f \in Surjection(S, N)
      BY DEF Surjection
    <2> QED
      BY <2>1, FS_Surjection
  <1> DEFINE m == Max(N)
  <1> HIDE DEF N
  <1>3. m \in N /\ \A y \in N : y <= m
    BY <1>1, <1>2, FiniteMax
  <1> HIDE DEF m
  <1> USE DEF N
  <1>4. PICK x \in S : m = -x
    BY <1>3
  <1>5. \A y \in S : x <= y
    <2> SUFFICES ASSUME NEW y \in S PROVE x <= y
      OBVIOUS
    <2>1. -y <= m
      BY <1>3
    <2> QED
      BY <1>4, <2>1
  <1> HIDE DEF N
  <1>6. \E z \in S : \A y \in S : z <= y
    BY <1>5
  <1> QED
    BY <1>6 DEF Min

(* The peak and the lowest point of a curve. *)
LEMMA CurveExtremes ==
  ASSUME NEW c \in Curves
  PROVE  /\ Max(Range(c)) \in Nat \ {0} /\ Min(Range(c)) \in Int
         /\ \A i \in DOMAIN c : c[i] <= Max(Range(c)) /\ Min(Range(c)) <= c[i]
         /\ \E i \in DOMAIN c : Min(Range(c)) = c[i]
  <1>1. c \in Seq(Int) /\ c # <<>> /\ c[1] = InitialCapital
    BY DEF Curves
  <1>2. 1 \in DOMAIN c
    BY <1>1
  <1> DEFINE R == Range(c)
  <1>3. IsFiniteSet(R)
    BY <1>1, RangeIsShort
  <1>4. \A i \in DOMAIN c : c[i] \in R /\ c[i] \in Int
    <2>1. \A i \in DOMAIN c : c[i] \in Int
      BY <1>1, MemberTyped
    <2> QED
      BY <2>1 DEF Range
  <1>5. R # {} /\ \A x \in R : x \in Int
    <2>1. \A x \in R : x \in Int
      BY <1>4 DEF Range
    <2> QED
      BY <1>2, <1>4, <2>1
  <1>6. \A x \in R : \E i \in DOMAIN c : x = c[i]
    BY DEF Range
  <1> HIDE DEF R
  <1>7. /\ Max(R) \in R /\ \A y \in R : y <= Max(R)
        /\ Min(R) \in R /\ \A y \in R : Min(R) <= y
    BY <1>3, <1>5, FiniteMax, FiniteMin
  <1> DEFINE high == Max(R)
             low  == Min(R)
  <1>8. high \in Int /\ low \in Int /\ (\A y \in R : y <= high /\ low <= y) /\ low \in R
    BY <1>5, <1>7
  <1> HIDE DEF high, low
  <1>9. InitialCapital <= high /\ InitialCapital \in Nat \ {0}
    BY <1>1, <1>2, <1>4, <1>8, BacktestAssumption
  <1>10. high \in Nat \ {0}
    BY <1>8, <1>9
  <1>11. \A i \in DOMAIN c : c[i] <= high /\ low <= c[i]
    BY <1>4, <1>8
  <1>12. \E i \in DOMAIN c : low = c[i]
    BY <1>6, <1>8
  <1> QED
    BY <1>8, <1>10, <1>11, <1>12 DEF R, high, low

LEMMA ShareTyped ==
  ASSUME NEW part \in Int, NEW whole \in Nat \ {0}
  PROVE  Share(part, whole) \in Int
  <1> DEFINE n == part * 10000
  <1>1. n \in Int
    OBVIOUS
  <1> HIDE DEF n
  <1>2. n \div whole \in Int
    BY <1>1
  <1> QED
    BY <1>2 DEF n, Share

LEMMA MetricsTyped ==
  ASSUME TrialSound, NEW sharpe \in Sharpes
  PROVE  Metrics(sharpe) \in Figured /\ Metrics(sharpe).drawdown = Drawdown(trial.curve)
  <1>1. trial.curve \in Curves /\ trial.capital \in Int /\ trial.trades \in Nat
    BY DEF TrialSound, Trials
  <1>2. InitialCapital \in Nat \ {0} /\ sharpe \in Int
    BY BacktestAssumption
  <1> DEFINE high == Max(Range(trial.curve))
             low  == Min(Range(trial.curve))
  <1>3. high \in Nat \ {0} /\ low \in Int
    BY <1>1, CurveExtremes
  <1>4. Drawdown(trial.curve) = Share(high - low, high)
    BY DEF Drawdown
  <1> HIDE DEF high, low
  <1>5. Drawdown(trial.curve) \in Int
    <2>1. high - low \in Int
      BY <1>3
    <2> QED
      BY <1>3, <1>4, <2>1, ShareTyped
  <1>6. Share(trial.capital - InitialCapital, InitialCapital) \in Int
    <2>1. trial.capital - InitialCapital \in Int
      BY <1>1, <1>2
    <2> QED
      BY <1>2, <2>1, ShareTyped
  <1> DEFINE fall == Drawdown(trial.curve)
             gain == Share(trial.capital - InitialCapital, InitialCapital)
  <1>7. Metrics(sharpe) = [return |-> gain, drawdown |-> fall, sharpe |-> sharpe,
                           trades |-> trial.trades]
    BY DEF Metrics
  <1>8. fall \in Int /\ gain \in Int
    BY <1>5, <1>6
  <1> HIDE DEF fall, gain
  <1>9. Metrics(sharpe) \in Figured /\ Metrics(sharpe).drawdown = fall
    BY <1>1, <1>2, <1>7, <1>8 DEF Figured
  <1> QED
    BY <1>9 DEF fall

LEMMA CompositeTyped == ASSUME NEW m \in Figured PROVE Composite(m) \in Int
  <1>1. m.return \in Int /\ m.sharpe \in Int /\ m.drawdown \in Int /\ m.trades \in Int
    BY DEF Figured
  <1> DEFINE n == Min({100, m.trades})
  <1>2. n \in Int
    <2>1. 100 \in Int
      OBVIOUS
    <2>2. n \in {100, m.trades}
      BY ONLY <1>1, <2>1, MinOfTwo
    <2> QED
      BY ONLY <1>1, <2>1, <2>2, Zenon
  <1>3. Composite(m) = 35 * m.return + 3500 * m.sharpe - 45 * m.drawdown + 1500 * n
    BY DEF Composite
  <1> HIDE DEF n
  <1> QED
    BY <1>1, <1>2, <1>3

-----------------------------------------------------------------------------
(* The research track: rankings. *)

LEMMA BijectionIs ==
  ASSUME NEW D, NEW f
  PROVE  f \in Bijection(D, D) <=> /\ f \in [D -> D]
                                   /\ \A x, y \in D : f[x] = f[y] => x = y
                                   /\ \A y \in D : \E x \in D : f[x] = y
  BY DEF Bijection, Injection, Surjection, IsInjective

Ahead(scores, a, b) == scores[a] > scores[b] \/ (scores[a] = scores[b] /\ a < b)

Sorting(scores, order) ==
  /\ order \in Bijection(DOMAIN scores, DOMAIN scores)
  /\ \A a, b \in DOMAIN scores : a < b => Ahead(scores, order[a], order[b])

(* There is an order: a combination comes where as many are ahead of it.   *)
LEMMA RankedSorts == ASSUME NEW scores \in Seq(Int) PROVE Sorting(scores, Ranked(scores))
  <1> DEFINE n == Len(scores)
             D == 1 .. n
             ahead(k) == {j \in D : Ahead(scores, j, k)}
             r == [k \in D |-> Cardinality(ahead(k)) + 1]
             p == [i \in D |-> CHOOSE k \in D : r[k] = i]
  <1>1. n \in Nat /\ DOMAIN scores = D /\ (\A k \in D : scores[k] \in Int /\ k \in Int)
    <2>1. n \in Nat /\ DOMAIN scores = D
      OBVIOUS
    <2>2. \A k \in D : scores[k] \in Int
      BY <2>1, MemberTyped
    <2> QED
      BY <2>1, <2>2
  <1>2. IsFiniteSet(D) /\ Cardinality(D) = n
    BY <1>1, IntervalSize
  <1>3. \A i \in D : i >= 1 /\ i <= n
    BY <1>1
  <1>4. \A i \in Int : i >= 1 /\ i <= n => i \in D
    BY <1>1
  <1> HIDE DEF n, D
  <1>5. \A a, b \in D : /\ ~Ahead(scores, a, a)
                        /\ a # b => Ahead(scores, a, b) \/ Ahead(scores, b, a)
                        /\ Ahead(scores, a, b) =>
                             \A c \in D : Ahead(scores, c, a) => Ahead(scores, c, b)
    BY <1>1 DEF Ahead
  <1>6. \A k \in D : IsFiniteSet(ahead(k)) /\ Cardinality(ahead(k)) \in Nat
                     /\ Cardinality(ahead(k)) + 1 <= n
    <2> SUFFICES ASSUME NEW k \in D
                 PROVE  IsFiniteSet(ahead(k)) /\ Cardinality(ahead(k)) \in Nat
                        /\ Cardinality(ahead(k)) + 1 <= n
      OBVIOUS
    <2>1. ahead(k) \subseteq D /\ k \notin ahead(k)
      BY <1>5
    <2> HIDE DEF ahead
    <2>2. IsFiniteSet(ahead(k)) /\ Cardinality(ahead(k)) <= Cardinality(D)
          /\ (Cardinality(ahead(k)) = Cardinality(D) => ahead(k) = D)
      BY <1>2, <2>1, FS_Subset
    <2>3. Cardinality(ahead(k)) \in Nat
      BY <2>2, FS_CardinalityType
    <2>4. Cardinality(ahead(k)) # n
      BY <1>2, <2>1, <2>2
    <2> QED
      BY <1>1, <1>2, <2>2, <2>3, <2>4
  <1>7. r \in [D -> D]
    <2>1. \A k \in D : Cardinality(ahead(k)) + 1 \in D
      <3> HIDE DEF ahead
      <3> QED
        BY <1>4, <1>6
    <2> QED
      BY <2>1
  <1>8. ASSUME NEW a \in D, NEW b \in D, Ahead(scores, a, b) PROVE r[a] < r[b]
    <2>1. ahead(a) \subseteq ahead(b) /\ a \in ahead(b) /\ a \notin ahead(a)
      BY <1>5, <1>8
    <2> HIDE DEF ahead
    <2>2. Cardinality(ahead(a)) <= Cardinality(ahead(b))
          /\ (Cardinality(ahead(a)) = Cardinality(ahead(b)) => ahead(a) = ahead(b))
      BY <1>6, <2>1, FS_Subset
    <2>3. Cardinality(ahead(a)) # Cardinality(ahead(b))
      BY <2>1, <2>2
    <2> QED
      BY <1>6, <2>2, <2>3
  <1> HIDE DEF r
  <1>9. \A a, b \in D : r[a] = r[b] => a = b
    <2> SUFFICES ASSUME NEW a \in D, NEW b \in D, r[a] = r[b], a # b PROVE FALSE
      OBVIOUS
    <2>1. r[a] \in Int /\ r[b] \in Int
      BY <1>1, <1>7
    <2>2. r[a] < r[b] \/ r[b] < r[a]
      BY <1>5, <1>8
    <2> QED
      BY <2>1, <2>2
  <1>10. \A y \in D : \E x \in D : r[x] = y
    <2>1. r \in Injection(D, D)
      BY <1>7, <1>9 DEF Injection, IsInjective
    <2>2. r \in Surjection(D, D)
      BY <1>2, <2>1, FS_Injection
    <2> QED
      BY <2>2 DEF Surjection
  <1>11. \A i \in D : p[i] \in D /\ r[p[i]] = i
    BY <1>10
  <1>12. p \in [D -> D]
    BY <1>10
  <1> HIDE DEF p
  <1>13. p \in Bijection(D, D)
    <2>1. \A x, y \in D : p[x] = p[y] => x = y
      BY <1>11
    <2>2. ASSUME NEW y \in D PROVE \E x \in D : p[x] = y
      <3>1. r[y] \in D
        BY <1>7
      <3>2. p[r[y]] \in D /\ r[p[r[y]]] = r[y]
        BY <1>11, <3>1
      <3>3. p[r[y]] = y
        BY <1>9, <3>2
      <3> QED
        BY <3>1, <3>3
    <2> QED
      BY ONLY <1>12, <2>1, <2>2, BijectionIs, Zenon
  <1>14. ASSUME NEW a \in D, NEW b \in D, a < b PROVE Ahead(scores, p[a], p[b])
    <2>1. p[a] \in D /\ p[b] \in D /\ r[p[a]] = a /\ r[p[b]] = b /\ a \in Int /\ b \in Int
      BY <1>1, <1>11
    <2>2. p[a] # p[b]
      BY <1>14, <2>1
    <2>3. ~Ahead(scores, p[b], p[a])
      <3> SUFFICES ASSUME Ahead(scores, p[b], p[a]) PROVE FALSE
        OBVIOUS
      <3>1. r[p[b]] < r[p[a]]
        BY <1>8, <2>1
      <3> QED
        BY <1>14, <2>1, <3>1
    <2> QED
      BY <1>5, <2>1, <2>2, <2>3
  <1>15. Sorting(scores, p)
    BY <1>1, <1>13, <1>14 DEF Sorting
  <1>16. Ranked(scores) = CHOOSE order \in Bijection(DOMAIN scores, DOMAIN scores) :
                            \A a, b \in DOMAIN scores : a < b => Ahead(scores, order[a], order[b])
    BY Zenon DEF Ranked, Ahead
  <1> HIDE DEF ahead
  <1> QED
    BY <1>15, <1>16, Zenon DEF Sorting

LEMMA SequenceOf ==
  ASSUME NEW n \in Nat, NEW V, NEW s, s \in [1 .. n -> V]
  PROVE  s \in Seq(V) /\ Len(s) = n /\ DOMAIN s = 1 .. n
  OBVIOUS

LEMMA ShuffledTyped ==
  ASSUME NEW returns \in Seq(Int), NEW shuffled \in Shuffled(returns)
  PROVE  shuffled \in Seq(Int)
  <1> DEFINE n == Len(returns)
             D == 1 .. n
  <1>1. n \in Nat /\ DOMAIN returns = D /\ \A i \in D : returns[i] \in Int
    BY MemberTyped
  <1>2. PICK p \in Bijection(D, D) : shuffled = [k \in D |-> returns[p[k]]]
    BY <1>1, Zenon DEF Shuffled
  <1>3. p \in [D -> D]
    BY <1>2, BijectionIs, Zenon
  <1>4. \A k \in D : p[k] \in D
    <2> HIDE DEF D
    <2> QED
      BY <1>3, Zenon
  <1>5. shuffled \in [D -> Int]
    <2> HIDE DEF D
    <2> QED
      BY <1>1, <1>2, <1>4
  <1> QED
    BY <1>1, <1>5, SequenceOf

-----------------------------------------------------------------------------
(* The research track: its steps. *)

LEMMA ReplayTyped ==
  ASSUME BacktestTyped, NEW bar \in 0 .. Len(Closes), NEW side \in {"buy", "sell"},
         NEW confidence \in Confidences, ReplaySignal(bar, side, confidence)
  PROVE  BacktestTyped'
  <1>1. TrialSound /\ JobTyped /\ SearchSound /\ PathsTyped
    BY DEF BacktestTyped
  <1>2. /\ UNCHANGED <<job, candidates, experiments, windows, paths, outcome>>
        /\ trial.signals < MaxSignals
    BY DEF ReplaySignal
  <1>3. MaxSignals \in Nat
    BY BacktestAssumption
  <1>4. /\ trial = [capital |-> trial.capital, curve |-> trial.curve, held |-> trial.held,
                    trades |-> trial.trades, signals |-> trial.signals]
        /\ trial.capital \in Int /\ trial.curve \in Curves /\ trial.trades \in Nat
        /\ trial.signals \in Nat
        /\ trial.capital = Last(trial.curve) /\ trial.trades = Len(trial.curve) - 1
        /\ trial.trades <= trial.signals
    BY <1>1 DEF TrialSound, Trials
  <1> DEFINE Becomes(capital, curve, trades) ==
               /\ \E h : trial' = [capital |-> capital, curve |-> curve, held |-> h,
                                  trades |-> trades, signals |-> trial.signals + 1]
               /\ capital = Last(curve) /\ trades = Len(curve) - 1
               /\ trades <= trial.signals + 1
  <1>5. \E capital \in Int, curve \in Curves, trades \in Nat : Becomes(capital, curve, trades)
    <2>1. CASE trial' = [trial EXCEPT !.signals = @ + 1]
      <3>1. trial' = [capital |-> trial.capital, curve |-> trial.curve, held |-> trial.held,
                      trades |-> trial.trades, signals |-> trial.signals + 1]
        <4>1. trial \in Trials
          BY <1>1 DEF TrialSound
        <4> QED
          BY <2>1, <4>1 DEF Trials
      <3>2. trial.trades <= trial.signals + 1
        BY <1>4
      <3>3. Becomes(trial.capital, trial.curve, trial.trades)
        BY <1>4, <3>1, <3>2
      <3> HIDE DEF Becomes
      <3> QED
        BY <1>4, <3>3, Zenon
    <2>2. CASE ~(trial' = [trial EXCEPT !.signals = @ + 1])
      <3> DEFINE entry    == Closes[bar]
                 exit     == Closes[bar + HoldingBars]
                 notional == Notional(trial.capital, confidence, entry)
                 capital  == trial.capital + NetPnl(notional, side, entry, exit)
      <3>1. /\ capital \in Int
            /\ \E h : trial' = [capital |-> capital, curve |-> Append(trial.curve, capital),
                               held |-> h, trades |-> trial.trades + 1,
                               signals |-> trial.signals + 1]
        BY <1>1, <2>2, ReplayEffect, Zenon
      <3> HIDE DEF capital
      <3> DEFINE curve == Append(trial.curve, capital)
      <3>2. /\ curve \in Curves /\ Last(curve) = capital /\ Len(curve) = Len(trial.curve) + 1
            /\ Len(trial.curve) \in Nat
        BY <1>4, <3>1, CurveGrows
      <3> HIDE DEF curve
      <3>3. trial.trades + 1 \in Nat /\ trial.trades + 1 = Len(curve) - 1
            /\ trial.trades + 1 <= trial.signals + 1
        BY <1>4, <3>2
      <3>4. \E h : trial' = [capital |-> capital, curve |-> curve, held |-> h,
                            trades |-> trial.trades + 1, signals |-> trial.signals + 1]
        BY <3>1 DEF curve
      <3>5. Becomes(capital, curve, trial.trades + 1)
        BY <3>2, <3>3, <3>4
      <3> HIDE DEF Becomes
      <3> QED
        BY <3>1, <3>2, <3>3, <3>5, Zenon
    <2> QED
      BY <2>1, <2>2
  <1>6. PICK capital \in Int, curve \in Curves, trades \in Nat : Becomes(capital, curve, trades)
    BY <1>5
  <1>7. PICK h : trial' = [capital |-> capital, curve |-> curve, held |-> h,
                           trades |-> trades, signals |-> trial.signals + 1]
    BY <1>6
  <1>8. capital = Last(curve) /\ trades = Len(curve) - 1 /\ trades <= trial.signals + 1
    BY <1>6
  <1> HIDE DEF Becomes
  <1>9. TrialSound'
    <2>1. trial.signals + 1 \in Nat /\ trial.signals + 1 <= MaxSignals
      BY <1>2, <1>3, <1>4
    <2> DEFINE g == trial.signals + 1
    <2>2. trial' = [capital |-> capital, curve |-> curve, held |-> h,
                    trades |-> trades, signals |-> g]
      BY <1>7
    <2> HIDE DEF g
    <2>3. /\ trial'.capital = capital /\ trial'.curve = curve /\ trial'.trades = trades
          /\ trial'.signals = g /\ trial'.held = h
      BY <2>2
    <2>4. trial' \in [capital : Int, curve : Curves, held : {h}, trades : Nat, signals : Nat]
      BY <2>1, <2>2 DEF g
    <2>5. (trial \in Trials)'
      BY <2>3, <2>4 DEF Trials, Curves
    <2> QED
      BY <1>8, <2>1, <2>3, <2>5 DEF TrialSound, g
  <1> QED
    BY <1>1, <1>2, <1>9 DEF BacktestTyped, JobTyped, SearchSound, PathsTyped, Reported

LEMMA RecordTyped ==
  ASSUME BacktestTyped, NEW sharpe \in Sharpes, RecordCandidate(sharpe)
  PROVE  /\ BacktestTyped'
         /\ \E c \in Tried : /\ candidates' = Append(candidates, c)
                             /\ experiments' = Append(experiments, c.metrics)
                             /\ c.curve = trial.curve
  <1>1. TrialSound /\ JobTyped /\ SearchSound /\ PathsTyped
    BY DEF BacktestTyped
  <1>2. /\ UNCHANGED <<job, windows, paths, outcome>> /\ trial' = Fresh
        /\ Len(candidates) < job.grid
    BY DEF RecordCandidate
  <1> DEFINE m == Metrics(sharpe)
             c == [metrics |-> m, score |-> Composite(m), curve |-> trial.curve,
                   decision |-> "none"]
  <1>3. candidates' = Append(candidates, c) /\ experiments' = Append(experiments, m)
    BY DEF RecordCandidate, Save
  <1>4. m \in Figured /\ m.drawdown = Drawdown(trial.curve)
    BY <1>1, MetricsTyped
  <1> HIDE DEF m
  <1>5. Composite(m) \in Int
    BY <1>4, CompositeTyped
  <1>6. trial.curve \in Curves
    BY <1>1 DEF TrialSound, Trials
  <1>7. c \in Tried /\ Reported(c) /\ c.metrics = m /\ c.curve = trial.curve
    BY <1>4, <1>5, <1>6 DEF Tried, Decisions, Reported
  <1> HIDE DEF c
  <1>8. SearchSound'
    <2>1. /\ candidates \in Seq(Tried) /\ experiments \in Seq(Figured)
          /\ Len(experiments) >= Len(candidates)
          /\ \A k \in DOMAIN candidates : Reported(candidates[k])
      BY <1>1 DEF SearchSound
    <2>2. job.grid \in Nat /\ job' = job
      BY <1>1, <1>2, JobIs DEF JobTyped
    <2>3. /\ candidates' \in Seq(Tried) /\ Len(candidates') = Len(candidates) + 1
          /\ DOMAIN candidates' = 1 .. Len(candidates) + 1
          /\ \A k \in 1 .. Len(candidates) : candidates'[k] = candidates[k]
          /\ candidates'[Len(candidates) + 1] = c
      BY <1>3, <1>7, <2>1
    <2>4. experiments' \in Seq(Figured) /\ Len(experiments') = Len(experiments) + 1
      BY <1>3, <1>4, <2>1
    <2>5. \A k \in DOMAIN candidates' : Reported(candidates'[k])
      <3>1. DOMAIN candidates = 1 .. Len(candidates) /\ Len(candidates) \in Nat
        BY <2>1
      <3>2. \A k \in DOMAIN candidates' : k \in DOMAIN candidates \/ k = Len(candidates) + 1
        BY <2>3, <3>1
      <3> QED
        BY <1>7, <2>1, <2>3, <3>1, <3>2
    <2>6. Len(candidates') <= job'.grid
      BY <1>2, <2>1, <2>2, <2>3
    <2> QED
      BY <2>1, <2>3, <2>4, <2>5, <2>6 DEF SearchSound
  <1>9. TrialSound'
    <2>1. InitialCapital \in Nat /\ MaxSignals \in Nat
      BY BacktestAssumption
    <2>2. <<InitialCapital>> \in Curves /\ Last(<<InitialCapital>>) = InitialCapital
          /\ Len(<<InitialCapital>>) = 1
      BY <2>1 DEF Curves, Last
    <2> QED
      BY <1>2, <2>1, <2>2 DEF TrialSound, Trials, Fresh, Curves
  <1>10. JobTyped' /\ PathsTyped'
    BY <1>1, <1>2 DEF JobTyped, PathsTyped
  <1> QED
    BY <1>3, <1>7, <1>8, <1>9, <1>10 DEF BacktestTyped

LEMMA RankingTyped ==
  ASSUME BacktestTyped, RankCandidates
  PROVE  /\ BacktestTyped'
         /\ Len(candidates') = Len(candidates)
         /\ \E order : /\ order = Ranked([k \in DOMAIN candidates |-> candidates[k].score])
                       /\ order \in Bijection(DOMAIN candidates, DOMAIN candidates)
                       /\ \A k \in DOMAIN candidates :
                            /\ candidates'[k].score = candidates[order[k]].score
                            /\ candidates'[k].curve = candidates[order[k]].curve
                            /\ candidates'[k].metrics = candidates[order[k]].metrics
  <1>1. TrialSound /\ JobTyped /\ SearchSound /\ PathsTyped
    BY DEF BacktestTyped
  <1> DEFINE n == Len(candidates)
             D == 1 .. n
             scores == [k \in DOMAIN candidates |-> candidates[k].score]
             order == Ranked(scores)
             c(k) == [candidates[order[k]] EXCEPT
                        !.decision = Decision(candidates[order[k]].metrics)]
  <1>2. /\ UNCHANGED <<job, trial, experiments, windows, paths>>
        /\ candidates' = [k \in DOMAIN candidates |-> c(k)]
        /\ outcome' \in {"failed", "done"}
    BY DEF RankCandidates
  <1>3. n \in Nat /\ DOMAIN candidates = D /\ \A k \in D : candidates[k] \in Tried
    BY <1>1, MemberTyped DEF SearchSound
  <1>4. scores \in Seq(Int) /\ DOMAIN scores = D
    <2>1. \A k \in D : candidates[k].score \in Int
      <3> HIDE DEF D
      <3> QED
        BY <1>3 DEF Tried
    <2>2. scores \in [D -> Int]
      BY <1>3, <2>1
    <2> QED
      BY <1>3, <2>2, SequenceOf
  <1> HIDE DEF scores
  <1>5. Sorting(scores, order)
    BY <1>4, RankedSorts
  <1>6. order \in Bijection(D, D)
    BY <1>4, <1>5 DEF Sorting
  <1> HIDE DEF order
  <1>7. \A k \in D : order[k] \in D
    <2>1. order \in [D -> D]
      BY <1>6, BijectionIs, Zenon
    <2> HIDE DEF D
    <2> QED
      BY <2>1, Zenon
  <1>8. \A m : Decision(m) \in Decisions
    BY DEF Decision, Decisions
  <1>9. ASSUME NEW k \in D
        PROVE  /\ c(k) \in Tried /\ Reported(c(k))
               /\ c(k).score = candidates[order[k]].score
               /\ c(k).curve = candidates[order[k]].curve
               /\ c(k).metrics = candidates[order[k]].metrics
    <2> DEFINE a == candidates[order[k]]
               v == Decision(a.metrics)
    <2>1. a \in Tried /\ Reported(a) /\ v \in Decisions
      BY <1>1, <1>3, <1>7, <1>8 DEF SearchSound
    <2>2. c(k) = [a EXCEPT !.decision = v]
      OBVIOUS
    <2> HIDE DEF a, v, c
    <2>3. c(k) = [metrics |-> a.metrics, score |-> a.score, curve |-> a.curve, decision |-> v]
      BY <2>1, <2>2 DEF Tried
    <2>4. a.metrics \in Figured /\ a.score \in Int /\ a.curve \in Curves
      BY <2>1 DEF Tried
    <2>5. c(k) \in Tried
      BY <2>1, <2>3, <2>4 DEF Tried
    <2>6. c(k).score = a.score /\ c(k).curve = a.curve /\ c(k).metrics = a.metrics
      BY <2>3
    <2> QED
      BY <2>1, <2>5, <2>6 DEF Reported, a
  <1> HIDE DEF c
  <1>10. candidates' \in Seq(Tried) /\ Len(candidates') = n /\ DOMAIN candidates' = D
    <2>1. candidates' \in [D -> Tried]
      BY <1>2, <1>3, <1>9
    <2> QED
      BY <1>3, <2>1, SequenceOf
  <1>11. \A k \in D : candidates'[k] = c(k)
    BY <1>2, <1>3
  <1> HIDE DEF D, n
  <1>12. SearchSound'
    <2>1. \A k \in DOMAIN candidates' : Reported(candidates'[k])
      BY <1>9, <1>10, <1>11
    <2>2. /\ experiments' \in Seq(Figured) /\ Len(candidates') <= job'.grid
          /\ Len(experiments') >= Len(candidates')
      BY <1>1, <1>2, <1>10 DEF SearchSound, n
    <2> QED
      BY <1>10, <2>1, <2>2 DEF SearchSound
  <1>13. TrialSound' /\ PathsTyped'
    BY <1>1, <1>2 DEF TrialSound, Trials, PathsTyped
  <1>14. JobTyped'
    BY <1>1, <1>2 DEF JobTyped
  <1>15. BacktestTyped'
    BY <1>12, <1>13, <1>14 DEF BacktestTyped
  <1>16. /\ order = Ranked([k \in DOMAIN candidates |-> candidates[k].score])
         /\ order \in Bijection(DOMAIN candidates, DOMAIN candidates)
         /\ \A k \in DOMAIN candidates :
              /\ candidates'[k].score = candidates[order[k]].score
              /\ candidates'[k].curve = candidates[order[k]].curve
              /\ candidates'[k].metrics = candidates[order[k]].metrics
    <2>1. order = Ranked([k \in DOMAIN candidates |-> candidates[k].score])
      BY DEF order, scores
    <2>2. order \in Bijection(DOMAIN candidates, DOMAIN candidates)
      BY <1>3, <1>6
    <2> QED
      BY <1>3, <1>9, <1>11, <2>1, <2>2
  <1> QED
    BY <1>10, <1>15, <1>16 DEF n

LEMMA SimulateTyped ==
  ASSUME BacktestTyped, Simulate
  PROVE  BacktestTyped'
  <1>1. TrialSound /\ JobTyped /\ SearchSound /\ PathsTyped
    BY DEF BacktestTyped
  <1>2. /\ UNCHANGED <<job, trial, candidates, experiments, windows, outcome>>
        /\ Len(paths) < Simulations
    BY DEF Simulate
  <1> DEFINE path(s) == [curve |-> EquityPath(s), drawdown |-> RunningDrawdown(EquityPath(s)),
                         ruined |-> Halved(EquityPath(s), Len(EquityPath(s)))]
  <1>3. PICK s \in Shuffled(job.returns) : paths' = Append(paths, path(s))
    BY Zenon DEF Simulate
  <1>4. job.returns \in Seq(Int)
    BY <1>1, JobIs DEF JobTyped
  <1>5. path(s) \in PathKinds
    <2>1. s \in Seq(Int)
      BY <1>4, ShuffledTyped
    <2> QED
      BY <2>1, Zenon DEF PathKinds
  <1> HIDE DEF path
  <1>6. PathsTyped'
    <2>1. Simulations \in Nat
      BY BacktestAssumption
    <2>2. /\ paths' \in Seq(PathKinds)
          /\ Len(paths') = Len(paths) + 1 /\ Len(paths) \in Nat
      <3> DEFINE this == path(s)
      <3>1. this \in PathKinds /\ paths' = Append(paths, this) /\ paths \in Seq(PathKinds)
        BY <1>1, <1>3, <1>5 DEF PathsTyped
      <3> HIDE DEF this
      <3> QED
        BY <3>1
    <2>3. Len(paths') <= Simulations
      BY <1>2, <2>1, <2>2
    <2> QED
      BY <2>2, <2>3 DEF PathsTyped
  <1>7. TrialSound' /\ SearchSound' /\ JobTyped'
    BY <1>1, <1>2 DEF TrialSound, Trials, SearchSound, JobTyped
  <1> QED
    BY <1>6, <1>7 DEF BacktestTyped

LEMMA BacktestNextTyped == BacktestTyped /\ [BacktestNext]_backtestVars => BacktestTyped'
  <1> SUFFICES ASSUME BacktestTyped, [BacktestNext]_backtestVars PROVE BacktestTyped'
    OBVIOUS
  <1>1. TrialSound /\ JobTyped /\ SearchSound /\ PathsTyped
    BY DEF BacktestTyped
  <1>2. ASSUME UNCHANGED <<job, trial, candidates, experiments, paths>>,
               outcome' \in {"running", "done", "failed", "passed", "refused"}
        PROVE  BacktestTyped'
    BY <1>1, <1>2 DEF BacktestTyped, TrialSound, Trials, SearchSound, JobTyped, PathsTyped
  <1>3. ASSUME NEW side, NEW signalled, WalkForward(side, signalled) PROVE BacktestTyped'
    BY <1>1, <1>2, <1>3 DEF WalkForward, JobTyped
  <1>4. CASE EndOfWalk
    BY <1>2, <1>4 DEF EndOfWalk
  <1>5. ASSUME NEW variability \in Variabilities, Evaluate(variability) PROVE BacktestTyped'
    BY <1>2, <1>5 DEF Evaluate
  <1>6. CASE UNCHANGED backtestVars
    BY <1>1, <1>2, <1>6 DEF backtestVars, JobTyped
  <1> QED
    BY <1>3, <1>4, <1>5, <1>6, ReplayTyped, RecordTyped, RankingTyped, SimulateTyped DEF BacktestNext

LEMMA BacktestTypesHold == BacktestTyped => BacktestTypeOK
  BY DEF BacktestTyped, JobTyped, TrialSound, SearchSound, PathsTyped, BacktestTypeOK

(* The types of the research track, for any frame, grids, signals, returns *)
(* and figures: the capital is the end of the curve, every trade a point   *)
(* of it, and no candidate is without an experiment.                       *)
THEOREM BacktestTypeCorrect == BacktestSpec => []BacktestTypeOK
  BY InitBacktest, BacktestNextTyped, BacktestTypesHold, PTL DEF BacktestSpec

-----------------------------------------------------------------------------
(* The research track: the windows of a walk. *)

Cursor(k) == TrainSize + StepSize * (k - 1)

Gains == {Last(FixedCurve(bars)) - InitialCapital : bars \in SUBSET Int}

WindowSpace == 
  [trained : SUBSET Int, tested : SUBSET Int, side : {"buy", "sell"}, trades : Nat, wins : Nat,
   return : Gains]

WindowSound(w, k) ==
  /\ w.trained = (Cursor(k) - TrainSize + 1) .. Cursor(k)
  /\ w.tested = (Cursor(k) + 1) .. (Cursor(k) + TestSize)
  /\ Cursor(k) + TestSize <= Len(Closes)

WindowsSound ==
  /\ windows \in Seq(WindowSpace)
  /\ \A k \in DOMAIN windows : WindowSound(windows[k], k)

LEMMA CursorTyped ==
  ASSUME NEW k \in Nat \ {0}
  PROVE  /\ Cursor(k) \in Nat /\ Cursor(k) >= TrainSize
         /\ StepSize >= TestSize =>
              \A l \in Nat \ {0} : k < l => Cursor(k) + TestSize <= Cursor(l)
  <1>1. TrainSize \in Nat /\ TestSize \in Nat /\ StepSize \in Nat
    BY BacktestAssumption
  <1>2. StepSize * (k - 1) \in Nat
    <2>1. k - 1 \in Nat
      OBVIOUS
    <2> QED
      BY <1>1, <2>1, ProductNat
  <1>3. ASSUME StepSize >= TestSize, NEW l \in Nat \ {0}, k < l
        PROVE  Cursor(k) + TestSize <= Cursor(l)
    <2>1. StepSize * k <= StepSize * (l - 1) /\ StepSize * (l - 1) \in Int
      BY <1>1, <1>3, ProductGrows
    <2>2. StepSize * (k - 1) + StepSize = StepSize * k
      BY <1>1
    <2> DEFINE x == StepSize * (k - 1)
               y == StepSize * (l - 1)
    <2>3. x \in Nat /\ y \in Int /\ x + StepSize <= y
      BY <1>2, <2>1, <2>2
    <2> HIDE DEF x, y
    <2>4. TrainSize + x + TestSize <= TrainSize + y
      BY <1>1, <1>3, <2>3
    <2> QED
      BY <2>4 DEF Cursor, x, y
  <1>4. Cursor(k) \in Nat /\ Cursor(k) >= TrainSize
    <2> DEFINE x == StepSize * (k - 1)
    <2>1. x \in Nat
      BY <1>2
    <2> HIDE DEF x
    <2>2. TrainSize + x \in Nat /\ TrainSize + x >= TrainSize
      BY <1>1, <2>1
    <2> QED
      BY <2>2 DEF Cursor, x
  <1> QED
    BY <1>3, <1>4

LEMMA WalkSound ==
  ASSUME WindowsSound, NEW side \in {"buy", "sell"}, NEW signalled \in SUBSET (1 .. TestSize),
         WalkForward(side, signalled)
  PROVE  WindowsSound'
  <1>1. /\ TrainSize \in Nat /\ TestSize \in Nat /\ StepSize \in Nat
        /\ Closes \in Seq(Nat) /\ Len(Closes) \in Nat /\ DOMAIN Closes = 1 .. Len(Closes)
    BY BacktestAssumption
  <1> DEFINE n == Len(windows)
             cursor == TrainSize + StepSize * Len(windows)
             bars == {cursor + k : k \in signalled}
             won == {k \in signalled : FixedGain(Closes[cursor + k]) > 0}
             w == [trained |-> (cursor - TrainSize + 1) .. cursor,
                   tested |-> (cursor + 1) .. (cursor + TestSize), side |-> side,
                   trades |-> Cardinality(signalled), wins |-> Cardinality(won),
                   return |-> Last(FixedCurve(bars)) - InitialCapital]
  <1>2. windows' = Append(windows, w) /\ cursor + TestSize <= Len(Closes)
    BY Zenon DEF WalkForward, TrainedBefore, TestedFrom
  <1>3. windows \in Seq(WindowSpace) /\ n \in Nat /\ DOMAIN windows = 1 .. n
    BY DEF WindowsSound
  <1>4. cursor = Cursor(n + 1)
    BY <1>3 DEF Cursor
  <1>5. cursor \in Nat
    BY <1>3, <1>4, CursorTyped
  <1> HIDE DEF cursor, n
  <1>6. Cardinality(signalled) \in Nat /\ Cardinality(won) \in Nat
    <2>1. IsFiniteSet(1 .. TestSize) /\ won \subseteq 1 .. TestSize
      BY <1>1, IntervalSize
    <2> QED
      BY <2>1, FS_Subset, FS_CardinalityType
  <1>7. bars \in SUBSET Int
    BY <1>1, <1>5
  <1> HIDE DEF bars, won
  <1>8. w \in WindowSpace /\ WindowSound(w, n + 1)
    <2> DEFINE trades == Cardinality(signalled)
               wins == Cardinality(won)
               gain == Last(FixedCurve(bars)) - InitialCapital
               trained == (cursor - TrainSize + 1) .. cursor
               tested == (cursor + 1) .. (cursor + TestSize)
    <2>1. w = [trained |-> trained, tested |-> tested, side |-> side, trades |-> trades,
               wins |-> wins, return |-> gain]
      OBVIOUS
    <2>2. trades \in Nat /\ wins \in Nat /\ gain \in Gains
      BY <1>6, <1>7 DEF Gains
    <2>3. trained \in SUBSET Int /\ tested \in SUBSET Int
      BY <1>1, <1>5
    <2> HIDE DEF trades, wins, gain, trained, tested, w
    <2>4. w \in WindowSpace
      BY <2>1, <2>2, <2>3 DEF WindowSpace
    <2>5. w.trained = trained /\ w.tested = tested
      BY <2>1
    <2> QED
      BY <1>2, <1>4, <2>4, <2>5 DEF WindowSound, trained, tested
  <1> HIDE DEF w
  <1>9. /\ windows' \in Seq(WindowSpace) /\ DOMAIN windows' = 1 .. n + 1
        /\ \A k \in 1 .. n : windows'[k] = windows[k]
        /\ windows'[n + 1] = w
    BY <1>2, <1>3, <1>8 DEF n
  <1>10. \A k \in DOMAIN windows' : WindowSound(windows'[k], k)
    <2>1. \A k \in 1 .. n + 1 : k \in 1 .. n \/ k = n + 1
      BY <1>3
    <2> QED
      BY <1>3, <1>8, <1>9, <2>1 DEF WindowsSound
  <1> QED
    BY <1>9, <1>10 DEF WindowsSound

LEMMA WindowsStay == WindowsSound /\ windows' = windows => WindowsSound'
  BY DEF WindowsSound

LEMMA NextWindows ==
  ASSUME WindowsSound, [BacktestNext]_backtestVars
  PROVE  WindowsSound'
  <1>1. \/ windows' = windows
        \/ \E side \in {"buy", "sell"}, signalled \in SUBSET (1 .. TestSize) :
             WalkForward(side, signalled)
    BY DEF BacktestNext, ReplaySignal, RecordCandidate, RankCandidates, EndOfWalk, Simulate,
           Evaluate, backtestVars
  <1> QED
    BY <1>1, WalkSound, WindowsStay

LEMMA SoundWindowsApart == WindowsSound => WindowsAreApart
  <1> SUFFICES ASSUME WindowsSound, NEW k \in DOMAIN windows
               PROVE  /\ windows[k].trained \cup windows[k].tested \subseteq DOMAIN Closes
                      /\ windows[k].trained \cap windows[k].tested = {}
                      /\ StepSize >= TestSize =>
                           \A l \in DOMAIN windows \ {k} :
                             windows[k].tested \cap windows[l].tested = {}
    BY DEF WindowsAreApart
  <1>1. /\ TrainSize \in Nat /\ TestSize \in Nat /\ StepSize \in Nat
        /\ Len(Closes) \in Nat /\ DOMAIN Closes = 1 .. Len(Closes)
    BY BacktestAssumption
  <1>2. windows \in Seq(WindowSpace) /\ \A l \in DOMAIN windows : WindowSound(windows[l], l)
    BY DEF WindowsSound
  <1>3. \A l \in DOMAIN windows : l \in Nat \ {0}
    BY <1>2
  <1>4. \A l \in DOMAIN windows : Cursor(l) \in Nat /\ Cursor(l) >= TrainSize
    BY <1>3, CursorTyped
  <1>5. /\ windows[k].trained = (Cursor(k) - TrainSize + 1) .. Cursor(k)
        /\ windows[k].tested = (Cursor(k) + 1) .. (Cursor(k) + TestSize)
        /\ Cursor(k) + TestSize <= Len(Closes)
    BY <1>2 DEF WindowSound
  <1> DEFINE c == Cursor(k)
  <1>6. c \in Nat /\ c >= TrainSize
    BY <1>4
  <1>7. windows[k].trained \cup windows[k].tested \subseteq DOMAIN Closes
    <2> HIDE DEF c
    <2>1. (c - TrainSize + 1) .. c \subseteq 1 .. Len(Closes)
      BY <1>1, <1>5, <1>6 DEF c
    <2>2. (c + 1) .. (c + TestSize) \subseteq 1 .. Len(Closes)
      BY <1>1, <1>5, <1>6 DEF c
    <2> QED
      BY <1>1, <1>5, <2>1, <2>2 DEF c
  <1>8. windows[k].trained \cap windows[k].tested = {}
    <2> HIDE DEF c
    <2>1. ((c - TrainSize + 1) .. c) \cap ((c + 1) .. (c + TestSize)) = {}
      BY <1>1, <1>6
    <2> QED
      BY <1>5, <2>1 DEF c
  <1>9. ASSUME StepSize >= TestSize, NEW l \in DOMAIN windows \ {k}
        PROVE  windows[k].tested \cap windows[l].tested = {}
    <2> DEFINE d == Cursor(l)
    <2>1. windows[l].tested = (d + 1) .. (d + TestSize) /\ d \in Nat
      BY <1>2, <1>4 DEF WindowSound
    <2>2. c + TestSize <= d \/ d + TestSize <= c
      <3>1. k \in Nat \ {0} /\ l \in Nat \ {0} /\ (k < l \/ l < k)
        BY <1>3
      <3> QED
        BY <1>9, <3>1, CursorTyped
    <2> HIDE DEF c, d
    <2>3. ((c + 1) .. (c + TestSize)) \cap ((d + 1) .. (d + TestSize)) = {}
      BY <1>1, <1>6, <2>1, <2>2
    <2> QED
      BY <1>5, <2>1, <2>3 DEF c
  <1> QED
    BY <1>7, <1>8, <1>9

-----------------------------------------------------------------------------
(* The research track: drawdowns. *)

LEMMA DivisionBetween ==
  ASSUME NEW d \in Nat \ {0}, NEW p \in Int, NEW x \in Int, NEW y \in Int,
         d * x <= p, p <= d * y
  PROVE  p \div d \in Int /\ x <= p \div d /\ p \div d <= y
  <1> DEFINE q == p \div d
  <1>1. q \in Int /\ d * q <= p /\ p < d * (q + 1)
    OBVIOUS
  <1> HIDE DEF q
  <1>2. x <= q
    <2> SUFFICES ASSUME q + 1 <= x PROVE FALSE
      BY <1>1
    <2>1. d * (q + 1) <= d * x /\ d * (q + 1) \in Int /\ d * x \in Int
      BY <1>1, ProductGrows
    <2> QED
      BY <1>1, <2>1
  <1>3. q <= y
    <2> SUFFICES ASSUME y + 1 <= q PROVE FALSE
      BY <1>1
    <2>1. d * (y + 1) <= d * q /\ d * (y + 1) \in Int /\ d * q \in Int /\ d * y \in Int
      BY <1>1, ProductGrows
    <2>2. d * (y + 1) = d * y + d
      OBVIOUS
    <2> QED
      BY <1>1, <2>1, <2>2
  <1> QED
    BY <1>1, <1>2, <1>3 DEF q

AboveGround(curve) == \A i \in DOMAIN curve : curve[i] > 0

(* A fall from a peak is, in parts of the peak, no more than the fall from *)
(* the highest to the lowest point.                                        *)
LEMMA SmallerFall ==
  ASSUME NEW high \in Nat \ {0}, NEW low \in Int, NEW a \in Nat \ {0}, NEW b \in Nat \ {0},
         a <= high, low <= b
  PROVE  Share(a - b, a) \in Int /\ Share(a - b, a) <= Share(high - low, high)
  <1> DEFINE p == (a - b) * 10000
             q == p \div a
             r == (high - low) * 10000
  <1>1. p \in Int /\ r \in Int
    OBVIOUS
  <1>2. p = a * 10000 - b * 10000 /\ r = high * 10000 - low * 10000
    OBVIOUS
  <1> HIDE DEF p, r
  <1>3. q \in Int /\ a * q <= p
    BY <1>1
  <1> HIDE DEF q
  <1> DEFINE u == 10000 - q
  <1>4. u \in Int /\ a * u >= b * 10000
    <2>1. a * u = a * 10000 - a * q
      BY <1>3
    <2> QED
      BY <1>2, <1>3, <2>1
  <1> HIDE DEF u
  <1>5. u \in Nat
    <2> SUFFICES ASSUME u <= 0 PROVE FALSE
      BY <1>4
    <2>1. a * u <= a * 0 /\ a * u \in Int
      BY <1>4, ProductGrows
    <2> QED
      BY <1>4, <2>1
  <1>6. a * u <= high * u /\ a * u \in Int /\ high * u \in Int
    <2>1. u * a <= u * high
      BY <1>5, ProductGrows
    <2> QED
      BY <1>5, <2>1
  <1>7. high * u >= low * 10000
    BY <1>4, <1>6
  <1>8. high * q <= r
    <2>1. high * u = high * 10000 - high * q
      BY <1>3 DEF u
    <2> QED
      BY <1>2, <1>3, <1>7, <2>1
  <1> DEFINE s == r \div high
  <1>9. s \in Int /\ r < high * (s + 1)
    BY <1>1
  <1> HIDE DEF s
  <1>10. q <= s
    <2> SUFFICES ASSUME s + 1 <= q PROVE FALSE
      BY <1>3, <1>9
    <2>1. high * (s + 1) <= high * q /\ high * (s + 1) \in Int /\ high * q \in Int
      BY <1>3, <1>9, ProductGrows
    <2> QED
      BY <1>1, <1>8, <1>9, <2>1
  <1> QED
    BY <1>3, <1>10 DEF Share, p, q, r, s

LEMMA DeepestIsDrawdown ==
  ASSUME NEW c \in Curves, AboveGround(c)
  PROVE  DeepestFall(c) <= Drawdown(c)
  <1> DEFINE n == Len(c)
             D == 1 .. n
             S == {Share(fall[1] - fall[2], fall[1]) : fall \in Falls(c)}
             g == [x \in D \X D |-> Share(c[x[1]] - c[x[2]], c[x[1]])]
             G == {g[x] : x \in D \X D}
             high == Max(Range(c))
             low  == Min(Range(c))
  <1>1. c \in Seq(Int) /\ n \in Nat /\ DOMAIN c = D /\ 1 \in D
    <2>1. c \in Seq(Int) /\ c # <<>>
      BY DEF Curves
    <2> QED
      BY <2>1
  <1>2. \A i \in D : c[i] \in Nat \ {0}
    <2>1. \A i \in D : c[i] \in Int
      BY <1>1, MemberTyped
    <2> QED
      BY <1>1, <2>1 DEF AboveGround
  <1>3. \A i \in D : i .. n \subseteq D /\ i \in i .. n
    BY <1>1
  <1>4. /\ high \in Nat \ {0} /\ low \in Int
        /\ \A i \in D : c[i] <= high /\ low <= c[i]
    BY <1>1, CurveExtremes
  <1>5. IsFiniteSet(D)
    BY <1>1, IntervalSize
  <1>6. Drawdown(c) = Share(high - low, high)
    BY Zenon DEF Drawdown
  <1> HIDE DEF high, low, D
  <1>7. IsFiniteSet(G)
    <2>1. IsFiniteSet(D \X D)
      BY <1>5, FS_Product
    <2>2. g \in Surjection(D \X D, G)
      BY DEF Surjection
    <2> QED
      BY <2>1, <2>2, FS_Surjection
  <1>8. \A fall \in Falls(c) : \E i, j \in D : fall = <<c[i], c[j]>>
    BY <1>1, <1>3 DEF Falls, n
  <1>9. <<c[1], c[1]>> \in Falls(c)
    <2>1. 1 \in 1 .. Len(c)
      BY <1>1, <1>3 DEF n
    <2> QED
      BY <1>1, <2>1 DEF Falls
  <1>10. S \subseteq G
    <2> SUFFICES ASSUME NEW fall \in Falls(c)
                 PROVE  Share(fall[1] - fall[2], fall[1]) \in G
      OBVIOUS
    <2>1. PICK i, j \in D : fall = <<c[i], c[j]>>
      BY <1>8
    <2>2. fall[1] = c[i] /\ fall[2] = c[j]
      BY <2>1
    <2>3. g[<<i, j>>] = Share(c[i] - c[j], c[i]) /\ <<i, j>> \in D \X D
      OBVIOUS
    <2>4. g[<<i, j>>] \in G
      BY <2>3
    <2> HIDE DEF g, G
    <2> QED
      BY <2>2, <2>3, <2>4
  <1>11. IsFiniteSet(S)
    <2> HIDE DEF S, G
    <2> QED
      BY <1>7, <1>10, FS_Subset
  <1>12. S # {}
    BY <1>9
  <1>13. \A x \in S : x \in Int /\ x <= Drawdown(c)
    <2> SUFFICES ASSUME NEW fall \in Falls(c)
                 PROVE  /\ Share(fall[1] - fall[2], fall[1]) \in Int
                        /\ Share(fall[1] - fall[2], fall[1]) <= Drawdown(c)
      OBVIOUS
    <2>1. PICK i, j \in D : fall = <<c[i], c[j]>>
      BY <1>8
    <2>2. fall[1] = c[i] /\ fall[2] = c[j]
      BY <2>1
    <2>3. c[i] \in Nat \ {0} /\ c[j] \in Nat \ {0} /\ c[i] <= high /\ low <= c[j]
      BY <1>2, <1>4
    <2>4. Share(c[i] - c[j], c[i]) \in Int /\ Share(c[i] - c[j], c[i]) <= Share(high - low, high)
      BY ONLY <1>4, <2>3, SmallerFall
    <2> QED
      BY <1>6, <2>2, <2>4
  <1>14. DeepestFall(c) = Max(S)
    BY Zenon DEF DeepestFall
  <1> HIDE DEF S
  <1>15. Max(S) \in S
    BY <1>11, <1>12, <1>13, FiniteMax
  <1> QED
    BY <1>13, <1>14, <1>15

(* No more risk, slippage and fees than the defaults of the portfolio      *)
(* engine, and no close above the twentyfold of a close one holding period *)
(* before: a trade then leaves some of the capital.                        *)
UsualFrame ==
  /\ RiskPct <= 2 /\ SlippageBps <= 5 /\ FeeBps <= 10
  /\ \A bar \in DOMAIN Closes :
       bar + HoldingBars \in DOMAIN Closes => Closes[bar + HoldingBars] <= 20 * Closes[bar]

LEMMA NotionalIsSmall ==
  ASSUME UsualFrame, NEW capital \in Nat \ {0}, NEW confidence \in Int, NEW price \in Nat \ {0}
  PROVE  50 * Notional(capital, confidence, price) <= capital
  <1>1. RiskPct \in Nat /\ RiskPct <= 2
    BY BacktestAssumption DEF UsualFrame
  <1> DEFINE sure == Max({25, Min({100, confidence})})
             risked == capital * RiskPct
             share == risked \div 100
             stake == share * sure
             size == stake \div 100
  <1>2. sure \in Nat /\ sure <= 100
    <2> DEFINE least == Min({100, confidence})
    <2>1. 100 \in Int /\ 25 \in Int /\ confidence \in Int
      OBVIOUS
    <2>2. least \in {100, confidence} /\ least <= 100
      BY ONLY <2>1, MinOfTwo
    <2>3. least \in Int
      BY ONLY <2>1, <2>2, Zenon
    <2> HIDE DEF least
    <2>4. Max({25, least}) \in {25, least} /\ 25 <= Max({25, least})
      BY ONLY <2>1, <2>3, MaxOfTwo
    <2> DEFINE most == Max({25, least})
    <2>5. most \in {25, least} /\ 25 <= most
      BY <2>4
    <2> HIDE DEF most
    <2>6. most \in Nat /\ most <= 100
      BY <2>2, <2>3, <2>5
    <2> QED
      BY <2>6 DEF most, least
  <1>3. Notional(capital, confidence, price) = size
    <2>1. ~(price <= 0)
      OBVIOUS
    <2> QED
      BY <2>1 DEF Notional
  <1> HIDE DEF sure
  <1>4. risked \in Nat /\ risked <= 2 * capital
    <2>1. capital * RiskPct <= capital * 2 /\ capital * RiskPct \in Nat
      BY <1>1, ProductGrows, ProductNat
    <2> QED
      BY <2>1
  <1> HIDE DEF risked
  <1>5. share \in Nat /\ 100 * share <= risked
    BY <1>4, DivisionBelow
  <1> HIDE DEF share
  <1>6. stake \in Nat /\ stake <= 100 * share
    <2>1. share * sure <= share * 100 /\ share * sure \in Nat
      BY <1>2, <1>5, ProductGrows, ProductNat
    <2> QED
      BY <1>5, <2>1
  <1> HIDE DEF stake
  <1>7. size \in Nat /\ 100 * size <= stake
    BY <1>6, DivisionBelow
  <1> HIDE DEF size
  <1> QED
    BY <1>3, <1>4, <1>5, <1>6, <1>7

LEMMA TradeLeavesCapital ==
  ASSUME UsualFrame, NEW capital \in Nat \ {0}, NEW notional \in Nat \ {0},
         50 * notional <= capital, NEW side, NEW entry \in Nat \ {0}, NEW exit \in Nat,
         exit <= 20 * entry
  PROVE  capital + NetPnl(notional, side, entry, exit) > 0
  <1>1. FeeBps \in Nat /\ FeeBps <= 10 /\ SlippageBps \in Nat /\ SlippageBps <= 5
    BY BacktestAssumption DEF UsualFrame
  <1> DEFINE paid == 10000 + SlippageBps
             cost == entry * paid
             move == exit * 10000 - cost
             d    == entry * 10000
             p    == notional * move
             rise == p \div d
             sum  == notional * paid
             q    == sum * FeeBps
             fees == q \div 100000000
  <1>2. paid \in Nat /\ paid <= 10005
    BY <1>1
  <1> HIDE DEF paid
  <1>3. cost \in Nat /\ cost <= entry * 10005
    BY <1>2, ProductGrows, ProductNat
  <1> HIDE DEF cost
  <1>4. d \in Nat \ {0} /\ move \in Int /\ move <= 20 * d /\ 0 - 2 * d <= move
    BY <1>3
  <1> HIDE DEF d, move
  <1>5. p \in Int /\ p <= d * (20 * notional) /\ d * (0 - 2 * notional) <= p
    <2>1. notional * move <= notional * (20 * d) /\ notional * (0 - 2 * d) <= notional * move
      BY <1>4, ProductGrows
    <2>2. \A x, y \in Int : /\ x * (20 * y) = y * (20 * x)
                            /\ x * (0 - 2 * y) = y * (0 - 2 * x)
      OBVIOUS
    <2>3. notional * (20 * d) = d * (20 * notional)
          /\ notional * (0 - 2 * d) = d * (0 - 2 * notional)
      BY <1>4, <2>2
    <2>4. p \in Int
      BY <1>4
    <2> QED
      BY <2>1, <2>3, <2>4
  <1> HIDE DEF p
  <1>6. rise \in Int /\ 0 - 2 * notional <= rise /\ rise <= 20 * notional
    <2>1. 20 * notional \in Int /\ 0 - 2 * notional \in Int
      OBVIOUS
    <2> QED
      BY <1>4, <1>5, <2>1, DivisionBetween
  <1> HIDE DEF rise
  <1>7. fees \in Nat /\ fees <= notional
    <2>1. sum \in Nat /\ sum <= notional * 10005
      BY <1>2, ProductGrows, ProductNat
    <2> HIDE DEF sum
    <2>2. q \in Nat /\ q <= sum * 10
      BY <1>1, <2>1, ProductGrows, ProductNat
    <2>3. q <= 100000000 * notional
      BY <2>1, <2>2
    <2> HIDE DEF q
    <2>4. 100000000 * 0 <= q /\ 0 \in Int /\ 100000000 \in Nat \ {0} /\ q \in Int /\ notional \in Int
      BY <2>2
    <2>5. fees \in Int /\ 0 <= fees /\ fees <= notional
      BY ONLY <2>3, <2>4, DivisionBetween
    <2> QED
      BY <2>5
  <1>8. NetPnl(notional, side, entry, exit)
          = (IF side = "buy" THEN rise ELSE 0 - rise) - fees
    BY DEF NetPnl, rise, p, move, cost, paid, d
  <1> HIDE DEF fees
  <1> QED
    BY <1>6, <1>7, <1>8

CurvesStay ==
  /\ AboveGround(trial.curve)
  /\ \A k \in DOMAIN candidates : AboveGround(candidates[k].curve)

LEMMA FreshCurve == AboveGround(<<InitialCapital>>)
  <1>1. InitialCapital > 0
    BY BacktestAssumption
  <1>2. DOMAIN <<InitialCapital>> = {1} /\ <<InitialCapital>>[1] = InitialCapital
    OBVIOUS
  <1> QED
    BY <1>1, <1>2 DEF AboveGround

LEMMA ReplayStays ==
  ASSUME UsualFrame, BacktestTyped, CurvesStay, NEW bar \in 0 .. Len(Closes),
         NEW side \in {"buy", "sell"}, NEW confidence \in Confidences,
         ReplaySignal(bar, side, confidence)
  PROVE  CurvesStay'
  <1>1. TrialSound /\ candidates' = candidates
    BY DEF BacktestTyped, ReplaySignal
  <1>2. /\ trial.curve \in Curves /\ trial.capital = Last(trial.curve)
        /\ AboveGround(trial.curve)
    BY <1>1 DEF TrialSound, Trials, CurvesStay
  <1> SUFFICES AboveGround(trial'.curve)
    BY <1>1 DEF CurvesStay
  <1>3. CASE trial' = [trial EXCEPT !.signals = @ + 1]
    <2>1. trial'.curve = trial.curve
      BY <1>1, <1>3 DEF TrialSound, Trials
    <2> QED
      BY <1>2, <2>1
  <1>4. CASE ~(trial' = [trial EXCEPT !.signals = @ + 1])
    <2> DEFINE entry    == Closes[bar]
               exit     == Closes[bar + HoldingBars]
               notional == Notional(trial.capital, confidence, entry)
               capital  == trial.capital + NetPnl(notional, side, entry, exit)
    <2>1. /\ bar \in 1 .. Len(Closes) /\ bar + HoldingBars \in 1 .. Len(Closes)
          /\ entry \in Nat \ {0} /\ exit \in Nat
          /\ notional \in Nat \ {0} /\ capital \in Int
          /\ \E h : trial' = [capital |-> capital, curve |-> Append(trial.curve, capital),
                             held |-> h, trades |-> trial.trades + 1,
                             signals |-> trial.signals + 1]
      BY <1>1, <1>4, ReplayEffect, Zenon
    <2>2. trial'.curve = Append(trial.curve, capital)
      BY <2>1
    <2>3. trial.capital \in Nat \ {0}
      <3> DEFINE c == trial.curve
      <3>1. c \in Seq(Int) /\ c # <<>>
        BY <1>2 DEF Curves
      <3>2. Len(c) \in DOMAIN c
        BY <3>1
      <3>3. c[Len(c)] \in Int /\ c[Len(c)] > 0
        BY <1>2, <3>1, <3>2, MemberTyped DEF AboveGround
      <3> QED
        BY <1>2, <3>3 DEF Last
    <2>4. confidence \in Int /\ DOMAIN Closes = 1 .. Len(Closes)
      BY BacktestAssumption
    <2>5. exit <= 20 * entry
      BY <2>1, <2>4 DEF UsualFrame
    <2> HIDE DEF entry, exit
    <2>6. 50 * notional <= trial.capital
      BY <2>1, <2>3, <2>4, NotionalIsSmall
    <2> HIDE DEF notional
    <2>7. capital > 0
      BY <2>1, <2>3, <2>5, <2>6, TradeLeavesCapital
    <2> HIDE DEF capital
    <2> DEFINE n == Len(trial.curve)
               d == Append(trial.curve, capital)
    <2>8. /\ n \in Nat /\ Len(d) = n + 1 /\ d \in Seq(Int) /\ d[n + 1] = capital
          /\ \A i \in 1 .. n : d[i] = trial.curve[i]
      BY <1>2, <2>1 DEF Curves
    <2>9. DOMAIN trial.curve = 1 .. n
      BY <1>2 DEF Curves
    <2> HIDE DEF n, d
    <2>10. DOMAIN d = 1 .. n + 1 /\ \A i \in 1 .. n + 1 : i \in 1 .. n \/ i = n + 1
      BY <2>8
    <2>11. AboveGround(d)
      BY <1>2, <2>7, <2>8, <2>9, <2>10 DEF AboveGround
    <2> QED
      BY <2>2, <2>11 DEF d
  <1> QED
    BY <1>3, <1>4

LEMMA NextStays ==
  ASSUME UsualFrame, BacktestTyped, CurvesStay, [BacktestNext]_backtestVars
  PROVE  CurvesStay'
  <1>1. ASSUME UNCHANGED <<trial, candidates>> PROVE CurvesStay'
    BY <1>1 DEF CurvesStay
  <1>2. ASSUME NEW sharpe \in Sharpes, RecordCandidate(sharpe) PROVE CurvesStay'
    <2>1. trial' = Fresh /\ Fresh.curve = <<InitialCapital>>
      BY <1>2 DEF RecordCandidate, Fresh
    <2>2. PICK c \in Tried : /\ candidates' = Append(candidates, c)
                             /\ c.curve = trial.curve
      BY <1>2, RecordTyped
    <2> DEFINE n == Len(candidates)
    <2>3. candidates \in Seq(Tried) /\ n \in Nat
      BY DEF BacktestTyped, SearchSound
    <2>4. /\ DOMAIN candidates' = 1 .. n + 1 /\ DOMAIN candidates = 1 .. n
          /\ \A k \in 1 .. n : candidates'[k] = candidates[k]
          /\ candidates'[n + 1] = c
      BY <2>2, <2>3
    <2>5. \A k \in 1 .. n + 1 : k \in 1 .. n \/ k = n + 1
      BY <2>3
    <2> HIDE DEF n
    <2> QED
      BY <2>1, <2>2, <2>4, <2>5, FreshCurve DEF CurvesStay
  <1>3. CASE RankCandidates
    <2>1. PICK order \in Bijection(DOMAIN candidates, DOMAIN candidates) :
            \A k \in DOMAIN candidates : candidates'[k].curve = candidates[order[k]].curve
      BY <1>3, RankingTyped
    <2>2. \A k \in DOMAIN candidates : order[k] \in DOMAIN candidates
      <3> DEFINE D == DOMAIN candidates
      <3>1. order \in [D -> D]
        BY BijectionIs, Zenon
      <3> HIDE DEF D
      <3>2. \A k \in D : order[k] \in D
        BY <3>1
      <3> QED
        BY <3>2 DEF D
    <2>3. DOMAIN candidates' = DOMAIN candidates /\ trial' = trial
      BY <1>3 DEF RankCandidates
    <2> QED
      BY <2>1, <2>2, <2>3 DEF CurvesStay
  <1> QED
    BY <1>1, <1>2, <1>3, ReplayStays DEF BacktestNext, WalkForward, EndOfWalk, Simulate,
                                         Evaluate, backtestVars

LEMMA StayingCurves == BacktestTyped /\ CurvesStay => DrawdownNotUnderstated
  <1> SUFFICES ASSUME BacktestTyped, CurvesStay, NEW k \in DOMAIN candidates
               PROVE  DeepestFall(candidates[k].curve) <= candidates[k].metrics.drawdown
    BY DEF DrawdownNotUnderstated
  <1>1. candidates[k] \in Tried /\ Reported(candidates[k])
    <2>1. candidates \in Seq(Tried) /\ \A l \in DOMAIN candidates : Reported(candidates[l])
      BY DEF BacktestTyped, SearchSound
    <2> QED
      BY <2>1, MemberTyped
  <1>2. candidates[k].curve \in Curves /\ AboveGround(candidates[k].curve)
    BY <1>1 DEF Tried, CurvesStay
  <1> QED
    BY <1>1, <1>2, DeepestIsDrawdown DEF Reported

-----------------------------------------------------------------------------
(* What is reported of a strategy before anybody trades it. *)

(* However the capital of a candidate moved, it has nowhere fallen deeper  *)
(* than portfolio_engine.py:273 says, in any frame and for any signals, as *)
(* long as no trade takes all of the capital.                              *)
THEOREM NoDrawdownUnderstated ==
  ASSUME UsualFrame
  PROVE  BacktestSpec => []DrawdownNotUnderstated
  <1>1. BacktestInit => BacktestTyped /\ CurvesStay
    <2> SUFFICES ASSUME BacktestInit PROVE CurvesStay
      BY InitBacktest
    <2>1. trial.curve = <<InitialCapital>> /\ candidates = <<>>
      BY DEF BacktestInit, Fresh
    <2> QED
      BY <2>1, FreshCurve DEF CurvesStay
  <1>2. BacktestTyped /\ CurvesStay /\ [BacktestNext]_backtestVars => BacktestTyped' /\ CurvesStay'
    BY BacktestNextTyped, NextStays
  <1> QED
    BY <1>1, <1>2, StayingCurves, PTL DEF BacktestSpec

(* However long the frame is, no window of walkforward.py:51-76 tests a    *)
(* candle it has trained on, none reaches beyond the frame, and no candle  *)
(* is tested twice unless the step is shorter than the test.               *)
THEOREM NoWindowLeaks == BacktestSpec => []WindowsAreApart
  <1>1. BacktestInit => WindowsSound
    <2> SUFFICES ASSUME BacktestInit PROVE WindowsSound
      OBVIOUS
    <2>1. windows = <<>>
      BY DEF BacktestInit
    <2> QED
      BY <2>1 DEF WindowsSound
  <1>2. WindowsSound /\ [BacktestNext]_backtestVars => WindowsSound'
    BY NextWindows
  <1> QED
    BY <1>1, <1>2, SoundWindowsApart, PTL DEF BacktestSpec

-----------------------------------------------------------------------------
(* The desk. *)

(* A behaviour of the desk is one of each part: the three it is not about  *)
(* stutter.  Whatever is proved of a part holds in the run of MCDesk.      *)
LEMMA DeskIsItsParts == Spec => AccountSpec /\ OptimizerSpec /\ EvolutionSpec /\ BacktestSpec
  <1>1. Init => AccountInit /\ OptimizerInit /\ EvolutionInit /\ BacktestInit
    BY DEF Init
  <1> DEFINE vars == <<accountVars, optimizerVars, evolutionVars, backtestVars, subject>>
  <1>2. ASSUME [Next]_vars
        PROVE  /\ [AccountNext]_accountVars /\ [OptimizerNext]_optimizerVars
               /\ [EvolutionNext]_evolutionVars /\ [BacktestNext]_backtestVars
    <2>1. ASSUME UNCHANGED vars
          PROVE  UNCHANGED <<accountVars, optimizerVars, evolutionVars, backtestVars>>
      BY <2>1, Zenon
    <2> HIDE DEF vars
    <2> QED
      BY <1>2, <2>1 DEF Next, Paper_, Basket_, Evolution_, Research_
  <1> QED
    BY <1>1, <1>2, PTL DEF Spec, AccountSpec, OptimizerSpec, EvolutionSpec, BacktestSpec

(* Whichever part a behaviour is of, the paper session, the optimizer's    *)
(* build(), the cycle of evolve and the call of ver9/research stay of      *)
(* their kinds.                                                            *)
THEOREM TypeCorrect == Spec => []TypeOK
  BY DeskIsItsParts, AccountTypeCorrect, OptimizerTypeCorrect, EvolutionTypeCorrect,
     BacktestTypeCorrect, PTL DEF TypeOK
=============================================================================
