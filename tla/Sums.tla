--------------------------------- MODULE Sums ---------------------------------
(***************************************************************************)
(* What the proofs about lists of prices need: division, induction in the  *)
(* form of a smallest counterexample, and sums over finite sets.           *)
(***************************************************************************)
EXTENDS Integers, Sequences, FiniteSetTheorems, WellFoundedInduction, NaturalsInduction, TLAPS

-------------------------------------------------------------------------------
(* Products and division.                                                  *)

LEMMA DivMod ==
  ASSUME NEW a \in Int, NEW n \in Nat \ {0}
  PROVE  /\ a \div n \in Int /\ a % n \in 0 .. n - 1
         /\ a = n * (a \div n) + (a % n)
OBVIOUS

LEMMA DivUnique ==
  ASSUME NEW a \in Int, NEW n \in Nat \ {0}, NEW q \in Int, NEW r \in 0 .. n - 1,
         a = n * q + r
  PROVE  a \div n = q /\ a % n = r
OBVIOUS

LEMMA Products ==
  ASSUME NEW a \in Int, NEW b \in Int, NEW n \in Nat \ {0}
  PROVE  /\ a * n \in Int /\ (a + 1) * n = a * n + n /\ (a - 1) * n = a * n - n
         /\ (a <= b) <=> (a * n <= b * n)
         /\ (a < b) <=> (a * n < b * n)
         /\ (a = b) <=> (a * n = b * n)
         /\ (a - b) * n = a * n - b * n
<1>1. a * n \in Int /\ b * n \in Int /\ (a + 1) * n = a * n + n /\ (a - 1) * n = a * n - n
  OBVIOUS
<1>2. (a - b) * n = a * n - b * n
  OBVIOUS
<1>3. a < b => a * n < b * n
  <2>1. a < b => (b - a) * n > 0
    OBVIOUS
  <2>2. (b - a) * n = b * n - a * n
    OBVIOUS
  <2>3. QED
    BY <1>1, <2>1, <2>2
<1>4. b < a => b * n < a * n
  <2>1. b < a => (a - b) * n > 0
    OBVIOUS
  <2>2. QED
    BY <1>1, <1>2, <2>1
<1>5. a = b => a * n = b * n
  OBVIOUS
<1>6. QED
  BY <1>1, <1>2, <1>3, <1>4, <1>5

-------------------------------------------------------------------------------
(* Induction, as the smallest counterexample.                              *)

LEMMA NatLeast ==
  ASSUME NEW T \in SUBSET Nat, T # {}
  PROVE  \E x \in T : \A y \in T : x <= y
<1>1. \E x \in T : \A y \in T : ~(<<y, x>> \in OpToRel(<, Nat))
  BY WFMin, NatLessThanWellFounded, Zenon
<1>2. \A x, y \in T : <<y, x>> \notin OpToRel(<, Nat) => x <= y
  BY DEF OpToRel
<1>3. QED
  BY <1>1, <1>2

\* A bounded set of numbers has a greatest.
LEMMA NatGreatest ==
  ASSUME NEW T \in SUBSET Nat, T # {}, NEW n \in Nat, \A x \in T : x <= n
  PROVE  \E x \in T : \A y \in T : y <= x
<1> DEFINE U == {n - x : x \in T}
<1>1. U \in SUBSET Nat /\ U # {}
  <2>1. \A x \in T : x \in Nat /\ x <= n /\ n - x \in Nat
    OBVIOUS
  <2>2. QED
    BY <2>1
<1>2. PICK u \in U : \A v \in U : u <= v
  BY <1>1, NatLeast
<1>3. PICK x \in T : u = n - x
  BY <1>2
<1>4. ASSUME NEW y \in T
      PROVE  y <= x
  <2>1. n - y \in U
    OBVIOUS
  <2>2. n - x <= n - y
    BY <1>2, <1>3, <2>1
  <2>3. QED
    BY <2>2
<1>5. QED
  BY <1>3, <1>4

\* A set of numbers without gaps is an interval.
LEMMA Intervals ==
  ASSUME NEW n \in Nat, NEW I \in SUBSET (1 .. n),
         \A i, k \in I : i .. k \subseteq I
  PROVE  \E a \in 1 .. n + 1, b \in 0 .. n : I = a .. b /\ a <= b + 1
<1>1. CASE I = {}
  <2>1. I = 1 .. 0 /\ 1 \in 1 .. n + 1 /\ 0 \in 0 .. n /\ 1 <= 0 + 1
    BY <1>1
  <2>2. QED
    BY <2>1
<1>2. CASE I # {}
  <2>1. I \in SUBSET Nat /\ \A i \in I : i <= n
    OBVIOUS
  <2>2. PICK a \in I : \A i \in I : a <= i
    BY <1>2, <2>1, NatLeast
  <2>3. PICK b \in I : \A i \in I : i <= b
    BY <1>2, <2>1, NatGreatest
  <2>4. I = a .. b
    <3>1. a .. b \subseteq I
      OBVIOUS
    <3>2. \A i \in I : i \in a .. b
      BY <2>1, <2>2, <2>3
    <3>3. QED
      BY <3>1, <3>2
  <2>5. a \in 1 .. n + 1 /\ b \in 0 .. n /\ a <= b + 1
    BY <2>1, <2>2, <2>3
  <2>6. QED
    BY <2>4, <2>5
<1>3. QED
  BY <1>1, <1>2

LEMMA SmallestSet ==
  ASSUME NEW C, C # {}, \A c \in C : IsFiniteSet(c)
  PROVE  \E c \in C : \A d \in C : Cardinality(c) <= Cardinality(d)
<1> DEFINE N == {Cardinality(c) : c \in C}
<1>1. N \in SUBSET Nat /\ N # {}
  BY FS_CardinalityType
<1>2. PICK n \in N : \A m \in N : n <= m
  BY <1>1, NatLeast
<1>3. QED
  BY <1>2

\* A set that is smaller than the smallest is none of the sets.
LEMMA NotSmaller ==
  ASSUME NEW C, NEW S, NEW x, IsFiniteSet(S), x \in S,
         \A d \in C : Cardinality(S) <= Cardinality(d)
  PROVE  S \ {x} \notin C
<1>1. Cardinality(S) \in Nat /\ Cardinality(S \ {x}) = Cardinality(S) - 1
  BY FS_CardinalityType, FS_RemoveElement
<1>2. QED
  BY <1>1

-------------------------------------------------------------------------------
(* Sums: g tells the sum of w over each subset of S, in whatever order the  *)
(* elements are taken.                                                     *)

IsSum(g, S, w) ==
  /\ g \in [SUBSET S -> Int]
  /\ g[{}] = 0
  /\ \A T \in SUBSET S : \A x \in T : g[T] = w[x] + g[T \ {x}]
LEMMA SumExists ==
  ASSUME NEW S, IsFiniteSet(S), NEW w \in [S -> Int]
  PROVE  \E g : IsSum(g, S, w)
<1> DEFINE C == {T \in SUBSET S : ~ \E g : IsSum(g, T, w)}
<1>1. SUFFICES ASSUME C # {}
               PROVE  FALSE
  OBVIOUS
<1>2. \A c \in C : IsFiniteSet(c)
  BY FS_Subset
<1>3. PICK T \in C : \A d \in C : Cardinality(T) <= Cardinality(d)
  BY <1>1, <1>2, SmallestSet
<1>4. T \in SUBSET S /\ IsFiniteSet(T) /\ ~ \E g : IsSum(g, T, w)
  BY <1>2, <1>3
<1>5. CASE T = {}
  <2> DEFINE g == [V \in SUBSET T |-> 0]
  <2>1. IsSum(g, T, w)
    BY <1>5 DEF IsSum
  <2>2. QED
    BY <1>4, <2>1
<1>6. CASE T # {}
  <2>1. PICK x : x \in T
    BY <1>6
  <2>2. T \ {x} \notin C
    BY <1>3, <1>4, <2>1, NotSmaller
  <2>3. PICK h : IsSum(h, T \ {x}, w)
    BY <1>4, <2>2
  <2> HIDE DEF C
  <2> DEFINE g == [V \in SUBSET T |-> IF x \in V THEN w[x] + h[V \ {x}] ELSE h[V]]
  <2>4. \A V \in SUBSET T : V \ {x} \in SUBSET (T \ {x})
    OBVIOUS
  <2>5. \A V \in SUBSET (T \ {x}) : h[V] \in Int
    BY <2>3 DEF IsSum
  <2>6. w[x] \in Int /\ \A y \in T : w[y] \in Int
    BY <1>4, <2>1
  <2>7. g \in [SUBSET T -> Int]
    <3> SUFFICES ASSUME NEW V \in SUBSET T
                 PROVE  (IF x \in V THEN w[x] + h[V \ {x}] ELSE h[V]) \in Int
      OBVIOUS
    <3>1. CASE x \in V
      BY <2>4, <2>5, <2>6, <3>1
    <3>2. CASE x \notin V
      BY <2>5, <3>2
    <3>3. QED
      BY <3>1, <3>2
  <2>8. g[{}] = 0
    BY <2>3 DEF IsSum
  <2>9. ASSUME NEW V \in SUBSET T, NEW y \in V
        PROVE  g[V] = w[y] + g[V \ {y}]
    <3>1. CASE y = x
      <4>1. g[V] = w[x] + h[V \ {x}]
        BY <3>1
      <4>2. V \ {x} \in SUBSET T /\ x \notin V \ {x}
        OBVIOUS
      <4>3. g[V \ {x}] = h[V \ {x}]
        BY <4>2
      <4>4. QED
        BY <3>1, <4>1, <4>3
    <3>2. CASE y # x /\ x \in V
      <4>1. V \ {x} \in SUBSET (T \ {x}) /\ y \in V \ {x}
        BY <3>2
      <4>2. h[V \ {x}] = w[y] + h[(V \ {x}) \ {y}]
        BY <2>3, <4>1 DEF IsSum
      <4>3. (V \ {x}) \ {y} = (V \ {y}) \ {x}
        OBVIOUS
      <4>4. V \ {y} \in SUBSET T /\ x \in V \ {y} /\ (V \ {x}) \ {y} \in SUBSET (T \ {x})
        BY <3>2
      <4>5. g[V] = w[x] + h[V \ {x}] /\ g[V \ {y}] = w[x] + h[(V \ {x}) \ {y}]
        BY <3>2, <4>3, <4>4
      <4>6. h[(V \ {x}) \ {y}] \in Int /\ w[y] \in Int
        BY <2>5, <2>6, <4>4
      <4> HIDE DEF g
      <4>7. QED
        BY <2>6, <4>2, <4>5, <4>6
    <3>3. CASE y # x /\ x \notin V
      <4>1. V \in SUBSET (T \ {x}) /\ V \ {y} \in SUBSET T /\ x \notin V \ {y}
        BY <3>3
      <4>2. g[V] = h[V] /\ g[V \ {y}] = h[V \ {y}]
        BY <3>3, <4>1
      <4>3. h[V] = w[y] + h[V \ {y}]
        BY <2>3, <4>1 DEF IsSum
      <4>4. QED
        BY <4>2, <4>3
    <3>4. QED
      BY <3>1, <3>2, <3>3
  <2> HIDE DEF g
  <2>10. IsSum(g, T, w)
    BY <2>7, <2>8, <2>9 DEF IsSum
  <2>11. QED
    BY <1>4, <2>10
<1>7. QED
  BY <1>5, <1>6

LEMMA SumOfSubset ==
  ASSUME NEW g, NEW S, NEW w, IsSum(g, S, w), NEW T \in SUBSET S
  PROVE  IsSum([V \in SUBSET T |-> g[V]], T, w)
BY DEF IsSum

\* f folds w over the subsets of S, taking pick's element of a subset first.
IsFold(f, S, w, pick) ==
  /\ \A s \in SUBSET S : s # {} => pick[s] \in s
  /\ f[{}] = 0
  /\ \A s \in SUBSET S :
       s # {} /\ f[s \ {pick[s]}] \in Int => f[s] = w[pick[s]] + f[s \ {pick[s]}]

\* The order in which a fold takes the elements does not matter.
LEMMA FoldIsSum ==
  ASSUME NEW S, IsFiniteSet(S), NEW w \in [S -> Int], NEW g, IsSum(g, S, w),
         NEW f, NEW pick, IsFold(f, S, w, pick)
  PROVE  f[S] = g[S]
<1> DEFINE C == {T \in SUBSET S : f[T] # g[T]}
<1>1. SUFFICES ASSUME C # {}
               PROVE  FALSE
  OBVIOUS
<1>2. \A c \in C : IsFiniteSet(c)
  BY FS_Subset
<1>3. PICK T \in C : \A d \in C : Cardinality(T) <= Cardinality(d)
  BY <1>1, <1>2, SmallestSet
<1>4. T \in SUBSET S /\ IsFiniteSet(T) /\ f[T] # g[T]
  BY <1>2, <1>3
<1>5. CASE T = {}
  BY <1>4, <1>5 DEF IsSum, IsFold
<1>6. CASE T # {}
  <2>1. pick[T] \in T
    BY <1>4, <1>6 DEF IsFold
  <2>2. T \ {pick[T]} \notin C
    BY <1>3, <1>4, <2>1, NotSmaller
  <2>3. f[T \ {pick[T]}] = g[T \ {pick[T]}]
    BY <1>4, <2>2
  <2>4. g[T] = w[pick[T]] + g[T \ {pick[T]}]
    BY <1>4, <2>1 DEF IsSum
  <2>5. g[T \ {pick[T]}] \in Int
    BY <1>4 DEF IsSum
  <2>6. f[T] = w[pick[T]] + f[T \ {pick[T]}]
    BY <1>4, <1>6, <2>3, <2>5 DEF IsFold
  <2>7. QED
    BY <1>4, <2>3, <2>4, <2>6
<1>7. QED
  BY <1>5, <1>6

\* The sum over a prefix, from the sums over shorter ones.
LEMMA PrefixSums ==
  ASSUME NEW m \in Nat, NEW w, NEW g, IsSum(g, 1 .. m, w), NEW P,
         P[0] = 0, \A k \in 1 .. m : P[k] = P[k - 1] + w[k] /\ w[k] \in Int
  PROVE  \A k \in 0 .. m : g[1 .. k] = P[k]
<1> DEFINE C == {k \in 0 .. m : g[1 .. k] # P[k]}
<1>1. SUFFICES ASSUME C # {}
               PROVE  FALSE
  OBVIOUS
<1>2. PICK k \in C : \A l \in C : k <= l
  <2>1. C \in SUBSET Nat
    OBVIOUS
  <2>2. QED
    BY <1>1, <2>1, NatLeast
<1>3. k \in 0 .. m /\ g[1 .. k] # P[k]
  OBVIOUS
<1>4. CASE k = 0
  <2>1. 1 .. 0 = {}
    OBVIOUS
  <2>2. QED
    BY <1>3, <1>4, <2>1 DEF IsSum
<1>5. CASE k # 0
  <2>1. k - 1 \in 0 .. m /\ k \in 1 .. m /\ k - 1 \notin C
    BY <1>2, <1>3, <1>5, SMTT(30)
  <2>2. g[1 .. (k - 1)] = P[k - 1]
    BY <2>1
  <2>3. /\ 1 .. k \in SUBSET (1 .. m) /\ 1 .. (k - 1) \in SUBSET (1 .. m)
        /\ k \in 1 .. k /\ (1 .. k) \ {k} = 1 .. (k - 1)
    BY <2>1
  <2>4. g[1 .. k] = w[k] + g[1 .. (k - 1)] /\ g[1 .. (k - 1)] \in Int
    <3>1. g[1 .. k] = w[k] + g[(1 .. k) \ {k}]
      BY <2>3 DEF IsSum
    <3>2. g[1 .. (k - 1)] \in Int
      BY <2>3 DEF IsSum
    <3>3. QED
      BY <2>3, <3>1, <3>2
  <2>5. P[k] = P[k - 1] + w[k] /\ w[k] \in Int
    BY <2>1
  <2>6. QED
    BY <1>3, <2>2, <2>4, <2>5
<1>6. QED
  BY <1>4, <1>5

-------------------------------------------------------------------------------
(* Orders and sequences.                                                   *)

\* A finite set has a least element under a total and transitive relation.
LEMMA LeastElement ==
  ASSUME NEW S, IsFiniteSet(S), S # {}, NEW R,
         \A x, y \in S : <<x, y>> \in R \/ <<y, x>> \in R,
         \A x, y, z \in S : <<x, y>> \in R /\ <<y, z>> \in R => <<x, z>> \in R
  PROVE  \E x \in S : \A y \in S : <<x, y>> \in R
<1> DEFINE C == {T \in SUBSET S : T # {} /\ \A x \in T : \E y \in T : <<x, y>> \notin R}
<1>1. SUFFICES ASSUME C # {}
               PROVE  FALSE
  <2>1. S \notin C => \E x \in S : \A y \in S : <<x, y>> \in R
    OBVIOUS
  <2>2. QED
    BY <2>1
<1>2. \A c \in C : IsFiniteSet(c)
  BY FS_Subset
<1>3. PICK T \in C : \A d \in C : Cardinality(T) <= Cardinality(d)
  BY <1>1, <1>2, SmallestSet
<1>4. T \in SUBSET S /\ T # {} /\ IsFiniteSet(T) /\ \A x \in T : \E y \in T : <<x, y>> \notin R
  BY <1>2, <1>3
<1>5. PICK x \in T : TRUE
  BY <1>4
<1>6. T \ {x} \notin C
  BY <1>3, <1>4, NotSmaller
<1> HIDE DEF C
<1>7. CASE T = {x}
  BY <1>4, <1>7
<1>8. CASE T # {x}
  <2>1. PICK m \in T \ {x} : \A y \in T \ {x} : <<m, y>> \in R
    BY <1>4, <1>5, <1>6, <1>8 DEF C
  <2>2. CASE <<m, x>> \in R
    BY <1>4, <2>1, <2>2
  <2>3. CASE <<x, m>> \in R
    <3>1. <<x, x>> \in R
      BY <1>4
    <3>2. \A y \in T : <<x, y>> \in R
      BY <1>4, <2>1, <2>3, <3>1
    <3>3. QED
      BY <1>4, <3>2
  <2>4. QED
    BY <1>4, <2>1, <2>2, <2>3
<1>9. QED
  BY <1>7, <1>8

\* Of any finite choice of numbers one is the least.
LEMMA LeastNumber ==
  ASSUME NEW S, IsFiniteSet(S), S # {}, NEW f, \A i \in S : f[i] \in Int
  PROVE  \E i \in S : \A k \in S : f[i] <= f[k]
<1> DEFINE R == {r \in S \X S : f[r[1]] <= f[r[2]]}
<1>1. \A x, y \in S : <<x, y>> \in R <=> f[x] <= f[y]
  OBVIOUS
<1> HIDE DEF R
<1>2. \A x, y \in S : <<x, y>> \in R \/ <<y, x>> \in R
  <2> SUFFICES ASSUME NEW x \in S, NEW y \in S
               PROVE  <<x, y>> \in R \/ <<y, x>> \in R
    OBVIOUS
  <2>1. f[x] \in Int /\ f[y] \in Int
    OBVIOUS
  <2>2. f[x] <= f[y] \/ f[y] <= f[x]
    BY <2>1
  <2>3. QED
    BY <1>1, <2>2
<1>3. \A x, y, z \in S : <<x, y>> \in R /\ <<y, z>> \in R => <<x, z>> \in R
  BY <1>1
<1>4. PICK i \in S : \A k \in S : <<i, k>> \in R
  BY <1>2, <1>3, LeastElement
<1>5. QED
  BY <1>1, <1>4

\* Fractions, compared by cross-multiplication, are in order.
LEMMA FractionsInOrder ==
  ASSUME NEW a \in Int, NEW b \in Int, NEW c \in Int,
         NEW k \in Nat \ {0}, NEW l \in Nat \ {0}, NEW m \in Nat \ {0},
         a * l <= b * k, b * m <= c * l
  PROVE  a * m <= c * k
<1>1. (a * l) * m <= (b * k) * m /\ (b * m) * k <= (c * l) * k
  <2>1. a * l \in Int /\ b * k \in Int /\ b * m \in Int /\ c * l \in Int
    OBVIOUS
  <2>2. QED
    BY <2>1, Products, Zenon
<1>2. (a * l) * m = (a * m) * l /\ (b * k) * m = (b * m) * k /\ (c * l) * k = (c * k) * l
  OBVIOUS
<1>3. (a * m) * l \in Int /\ (c * k) * l \in Int /\ (b * k) * m \in Int
  OBVIOUS
<1>4. (a * m) * l <= (c * k) * l
  BY <1>1, <1>2, <1>3
<1>5. a * m \in Int /\ c * k \in Int
  OBVIOUS
<1>6. QED
  BY <1>4, <1>5, Products, Zenon

LEMMA SameElements ==
  ASSUME NEW S, NEW x \in Seq(S), NEW y \in Seq(S), Len(x) = Len(y),
         \A k \in 1 .. Len(x) : x[k] = y[k]
  PROVE  x = y
OBVIOUS

LEMMA PrefixStep ==
  ASSUME NEW m \in Nat, NEW w, NEW g, IsSum(g, 1 .. m, w), NEW k \in 1 .. m
  PROVE  g[1 .. k] = w[k] + g[1 .. (k - 1)] /\ g[1 .. (k - 1)] \in Int /\ g[1 .. k] \in Int
<1>1. /\ 1 .. k \in SUBSET (1 .. m) /\ 1 .. (k - 1) \in SUBSET (1 .. m)
      /\ k \in 1 .. k /\ (1 .. k) \ {k} = 1 .. (k - 1)
  OBVIOUS
<1>2. g[1 .. k] = w[k] + g[(1 .. k) \ {k}]
  BY <1>1 DEF IsSum
<1>3. g[1 .. (k - 1)] \in Int /\ g[1 .. k] \in Int
  BY <1>1 DEF IsSum
<1>4. QED
  BY <1>1, <1>2, <1>3

===============================================================================
