---------------------------- MODULE PricingProofs ----------------------------
(***************************************************************************)
(* Theorems about the price cache and what is computed from it, for any    *)
(* prices, lengths, callers and bounds: the run of extreme prices, the     *)
(* cheapest window, the summary, the levels, the announcement on request,  *)
(* the start the optimizer finds, and the alerts of the announcer.         *)
(***************************************************************************)
EXTENDS MCPricing, Sums

AnySlot == [from : Int, till : Int, price : Int]

\* Every list is a beginning of the sensor's: the slots follow each other.
Listed(list) ==
  /\ list \in Seq(AnySlot)
  /\ \A i \in 1 .. Len(list) : /\ list[i].from = (i - 1) * SlotLength
                               /\ list[i].till = i * SlotLength

-------------------------------------------------------------------------------
(* Parts of a list.                                                        *)

LEMMA SubSeqFacts ==
  ASSUME NEW S, NEW list \in Seq(S), NEW a \in 1 .. Len(list) + 1, NEW b \in 0 .. Len(list),
         a <= b + 1
  PROVE  /\ SubSeq(list, a, b) \in Seq(S)
         /\ Len(SubSeq(list, a, b)) = b - a + 1
         /\ \A k \in 1 .. b - a + 1 : SubSeq(list, a, b)[k] = list[a + k - 1]
OBVIOUS

LEMMA GreatestOf ==
  ASSUME NEW n \in Nat, NEW s \in SUBSET (1 .. n), s # {}
  PROVE  Max(s) \in s /\ \A y \in s : y <= Max(s)
<1>1. s \in SUBSET Nat /\ \A x \in s : x <= n
  OBVIOUS
<1>2. PICK x \in s : \A y \in s : y <= x
  BY <1>1, NatGreatest
<1>3. x \in s /\ \A y \in s : x >= y
  BY <1>1, <1>2
<1>4. Max(s) \in s /\ \A y \in s : Max(s) >= y
  BY <1>3 DEF Max
<1>5. QED
  BY <1>1, <1>4

LEMMA LeastOf ==
  ASSUME NEW s \in SUBSET Nat, s # {}
  PROVE  Min(s) \in s /\ \A y \in s : Min(s) <= y
<1>1. PICK x \in s : \A y \in s : x <= y
  BY NatLeast
<1>2. QED
  BY <1>1 DEF Min

LEMMA PickedInterval ==
  ASSUME NEW S, NEW list \in Seq(S), NEW a \in 1 .. Len(list) + 1, NEW b \in 0 .. Len(list),
         a <= b + 1
  PROVE  Picked(list, a .. b) = SubSeq(list, a, b)
<1> DEFINE Nth(k) == CHOOSE i \in a .. b : Cardinality({j \in a .. b : j <= i}) = k
           m == b - a + 1
<1>1. Cardinality(a .. b) = m /\ m \in Nat
  <2>1. a \in Int /\ b \in Int
    OBVIOUS
  <2>2. Cardinality(a .. b) = IF a > b THEN 0 ELSE b - a + 1
    BY <2>1, FS_Interval
  <2>3. QED
    BY <2>1, <2>2
<1>2. \A i \in a .. b : Cardinality({j \in a .. b : j <= i}) = i - a + 1
  <2> SUFFICES ASSUME NEW i \in a .. b
               PROVE  Cardinality({j \in a .. b : j <= i}) = i - a + 1
    OBVIOUS
  <2>1. {j \in a .. b : j <= i} = a .. i
    OBVIOUS
  <2>2. Cardinality(a .. i) = i - a + 1
    BY FS_Interval
  <2>3. QED
    BY <2>1, <2>2
<1>3. \A k \in 1 .. m : Nth(k) = a + k - 1
  <2> SUFFICES ASSUME NEW k \in 1 .. m
               PROVE  Nth(k) = a + k - 1
    OBVIOUS
  <2>1. a + k - 1 \in a .. b
    OBVIOUS
  <2>2. \A i \in a .. b : Cardinality({j \in a .. b : j <= i}) = k <=> i = a + k - 1
    BY <1>2
  <2>3. QED
    BY <2>1, <2>2
<1>4. Picked(list, a .. b) = [k \in 1 .. m |-> list[Nth(k)]]
  BY <1>1 DEF Picked
<1> HIDE DEF Nth
<1>5. Picked(list, a .. b) = [k \in 1 .. m |-> list[a + k - 1]]
  BY <1>3, <1>4
<1>6. QED
  BY <1>1, <1>5, SubSeqFacts

LEMMA SlotTypes ==
  ASSUME NEW list \in Seq(AnySlot)
  PROVE  \A i \in 1 .. Len(list) :
           /\ list[i] \in AnySlot
           /\ list[i].from \in Int /\ list[i].till \in Int /\ list[i].price \in Int
<1>1. \A i \in 1 .. Len(list) : list[i] \in AnySlot
  OBVIOUS
<1>2. \A slot \in AnySlot : slot.from \in Int /\ slot.till \in Int /\ slot.price \in Int
  BY DEF AnySlot
<1>3. QED
  BY <1>1, <1>2

\* The slots of a list follow each other.
LEMMA SlotsInOrder ==
  ASSUME NEW list, Listed(list)
  PROVE  \A i, j \in 1 .. Len(list) :
           /\ list[i].from \in Int /\ list[i].till \in Int /\ list[i].price \in Int
           /\ (i <= j) <=> (list[i].from <= list[j].from)
           /\ (i <= j) <=> (list[i].till <= list[j].till)
           /\ (i < j) <=> (list[i].till <= list[j].from)
           /\ list[i].till = list[i].from + SlotLength
           /\ j = i + 1 => list[j].from = list[i].till
<1> SUFFICES ASSUME NEW i \in 1 .. Len(list), NEW j \in 1 .. Len(list)
             PROVE  /\ list[i].from \in Int /\ list[i].till \in Int /\ list[i].price \in Int
                    /\ (i <= j) <=> (list[i].from <= list[j].from)
                    /\ (i <= j) <=> (list[i].till <= list[j].till)
                    /\ (i < j) <=> (list[i].till <= list[j].from)
                    /\ list[i].till = list[i].from + SlotLength
                    /\ j = i + 1 => list[j].from = list[i].till
  OBVIOUS
<1>1. /\ list[i].from = (i - 1) * SlotLength /\ list[i].till = i * SlotLength
      /\ list[j].from = (j - 1) * SlotLength /\ list[j].till = j * SlotLength
      /\ list \in Seq(AnySlot)
  BY DEF Listed
<1>2. list[i].from \in Int /\ list[i].till \in Int /\ list[i].price \in Int
  BY <1>1, SlotTypes
<1>3. SlotLength \in Nat \ {0} /\ i \in Int /\ j \in Int /\ i - 1 \in Int /\ j - 1 \in Int
  BY SlotsAssumption
<1>4. /\ (i - 1 <= j - 1) <=> ((i - 1) * SlotLength <= (j - 1) * SlotLength)
      /\ (i <= j) <=> (i * SlotLength <= j * SlotLength)
      /\ (i <= j - 1) <=> (i * SlotLength <= (j - 1) * SlotLength)
      /\ (i - 1) * SlotLength = i * SlotLength - SlotLength
      /\ i * SlotLength \in Int
  <2>1. (i - 1 <= j - 1) <=> ((i - 1) * SlotLength <= (j - 1) * SlotLength)
    BY <1>3, Products, Zenon
  <2>2. (i <= j) <=> (i * SlotLength <= j * SlotLength)
    BY <1>3, Products, Zenon
  <2>3. (i <= j - 1) <=> (i * SlotLength <= (j - 1) * SlotLength)
    BY <1>3, Products, Zenon
  <2>4. (i - 1) * SlotLength = i * SlotLength - SlotLength /\ i * SlotLength \in Int
    BY <1>3, Products
  <2>5. QED
    BY <2>1, <2>2, <2>3, <2>4
<1>5. /\ (i - 1 <= j - 1) <=> (i <= j)
      /\ (i <= j - 1) <=> (i < j)
      /\ (j = i + 1) => (j - 1 = i)
  BY <1>3
<1>6. list[i].till = list[i].from + SlotLength
  BY <1>1, <1>3, <1>4
<1>7. QED
  BY <1>1, <1>2, <1>4, <1>5, <1>6

Taken(list, ahead, deadline) ==
  {i \in ahead : \A j \in {k \in ahead : list[k].from >= deadline} : i < j}

\* The part of the list that S gives the positions of.
PartAt(list, part, S) ==
  \E a \in 1 .. Len(list) + 1, b \in 0 .. Len(list) :
    a <= b + 1 /\ part = SubSeq(list, a, b) /\ S = a .. b

\* A loop that passes over the slots which are not ahead and stops at the first that
\* begins too late takes adjacent slots.
LEMMA LoopTakesAdjacent ==
  ASSUME NEW list, Listed(list), NEW deadline \in Int, NEW ahead \in SUBSET (1 .. Len(list)),
         \A i \in ahead : \A j \in i .. Len(list) : j \in ahead
  PROVE  PartAt(list, Picked(list, Taken(list, ahead, deadline)),
                {i \in ahead : list[i].from < deadline})
<1> DEFINE n == Len(list)
           late == {k \in ahead : list[k].from >= deadline}
           I == {i \in ahead : \A j \in late : i < j}
<1>1. list \in Seq(AnySlot) /\ n \in Nat
  BY DEF Listed
<1>2. \A i, j \in 1 .. n : /\ list[i].from \in Int
                           /\ (i <= j) <=> (list[i].from <= list[j].from)
  BY SlotsInOrder
<1>3. \A i, k \in I : i .. k \subseteq I
  <2> SUFFICES ASSUME NEW i \in I, NEW k \in I, NEW j \in i .. k
               PROVE  j \in I
    OBVIOUS
  <2>1. i \in 1 .. n /\ k \in 1 .. n /\ j \in i .. n /\ j <= k /\ j \in Int
    BY <1>1
  <2>2. j \in ahead
    BY <2>1
  <2>3. ASSUME NEW l \in late
        PROVE  j < l
    <3>1. k < l /\ l \in 1 .. n
      OBVIOUS
    <3>2. QED
      BY <2>1, <3>1
  <2>4. QED
    BY <2>2, <2>3
<1>4. I = {i \in ahead : list[i].from < deadline}
  <2> SUFFICES ASSUME NEW i \in ahead
               PROVE  (\A j \in late : i < j) <=> list[i].from < deadline
    OBVIOUS
  <2>1. ASSUME \A j \in late : i < j
        PROVE  list[i].from < deadline
    <3>1. i \in 1 .. n /\ ~(i < i)
      OBVIOUS
    <3>2. i \notin late
      BY <2>1, <3>1
    <3>3. QED
      BY <1>2, <3>1, <3>2
  <2>2. ASSUME list[i].from < deadline, NEW j \in late
        PROVE  i < j
    <3>1. i \in 1 .. n /\ j \in 1 .. n /\ list[j].from >= deadline
      OBVIOUS
    <3>2. ~(list[j].from <= list[i].from)
      BY <1>2, <2>2, <3>1
    <3>3. ~(j <= i)
      BY <1>2, <3>1, <3>2
    <3>4. QED
      BY <3>1, <3>3
  <2>3. QED
    BY <2>1, <2>2
<1>5. I \in SUBSET (1 .. n) /\ I = Taken(list, ahead, deadline)
  BY DEF Taken
<1> HIDE DEF I, n
<1>6. PICK a \in 1 .. n + 1, b \in 0 .. n : I = a .. b /\ a <= b + 1
  BY <1>1, <1>3, <1>5, Intervals
<1>7. Picked(list, a .. b) = SubSeq(list, a, b)
  BY <1>1, <1>6, PickedInterval DEF n
<1>8. QED
  BY <1>4, <1>5, <1>6, <1>7 DEF n, PartAt

\* The slots that begin from from on and before deadline, and those that are not over.
BegunSince(list, from) == {i \in 1 .. Len(list) : list[i].from >= from}
OverAfter(list, from) == {i \in 1 .. Len(list) : list[i].till > from}

LEMMA StartsAreAdjacent ==
  ASSUME NEW list, Listed(list), NEW from \in Int, NEW deadline \in Int
  PROVE  PartAt(list, StartsIn(list, from, deadline),
                {i \in BegunSince(list, from) : list[i].from < deadline})
<1>1. StartsIn(list, from, deadline) = Picked(list, Taken(list, BegunSince(list, from), deadline))
  <2>1. DOMAIN list = 1 .. Len(list)
    BY DEF Listed
  <2>2. QED
    BY <2>1 DEF StartsIn, Taken, BegunSince
<1>2. ASSUME NEW i \in BegunSince(list, from), NEW j \in i .. Len(list)
      PROVE  j \in BegunSince(list, from)
  <2>1. i \in 1 .. Len(list) /\ j \in 1 .. Len(list) /\ i <= j /\ list[i].from >= from
    BY <1>2 DEF BegunSince
  <2>2. list[i].from <= list[j].from /\ list[i].from \in Int /\ list[j].from \in Int
    BY <2>1, SlotsInOrder
  <2>3. list[j].from >= from
    BY <2>1, <2>2
  <2>4. QED
    BY <2>1, <2>3 DEF BegunSince
<1>3. BegunSince(list, from) \in SUBSET (1 .. Len(list))
  BY DEF BegunSince
<1>4. QED
  BY <1>1, <1>2, <1>3, LoopTakesAdjacent

LEMMA RangeIsPart ==
  ASSUME NEW list, Listed(list), NEW from \in Int, NEW deadline \in Int
  PROVE  PartAt(list, SlotsInRange(list, from, deadline),
                {i \in OverAfter(list, from) : list[i].from < deadline})
<1>1. SlotsInRange(list, from, deadline) = Picked(list, Taken(list, OverAfter(list, from), deadline))
  <2>1. DOMAIN list = 1 .. Len(list)
    BY DEF Listed
  <2>2. QED
    BY <2>1 DEF SlotsInRange, Taken, OverAfter
<1>2. ASSUME NEW i \in OverAfter(list, from), NEW j \in i .. Len(list)
      PROVE  j \in OverAfter(list, from)
  <2>1. i \in 1 .. Len(list) /\ j \in 1 .. Len(list) /\ i <= j /\ list[i].till > from
    BY <1>2 DEF OverAfter
  <2>2. list[i].till <= list[j].till /\ list[i].till \in Int /\ list[j].till \in Int
    BY <2>1, SlotsInOrder
  <2>3. list[j].till > from
    BY <2>1, <2>2
  <2>4. QED
    BY <2>1, <2>3 DEF OverAfter
<1>3. OverAfter(list, from) \in SUBSET (1 .. Len(list))
  BY DEF OverAfter
<1>4. QED
  BY <1>1, <1>2, <1>3, LoopTakesAdjacent

\* The slots that are not over before from and start before deadline.
LEMMA RangeIsAdjacent ==
  ASSUME NEW list, Listed(list), NEW from \in Int, NEW deadline \in Int
  PROVE  \E a \in 1 .. Len(list) + 1, b \in 0 .. Len(list) :
           /\ a <= b + 1
           /\ SlotsInRange(list, from, deadline) = SubSeq(list, a, b)
           /\ \A i \in 1 .. Len(list) :
                i \in a .. b <=> list[i].till > from /\ list[i].from < deadline
<1>1. PartAt(list, SlotsInRange(list, from, deadline),
             {i \in OverAfter(list, from) : list[i].from < deadline})
  BY RangeIsPart
<1>2. QED
  BY <1>1 DEF PartAt, OverAfter

\* The slots that are not over before from and start by deadline.
LEMMA CandidatesAreAdjacent ==
  ASSUME NEW list, Listed(list), NEW idx, idx.slots = list, NEW from \in Int, NEW deadline \in Int
  PROVE  \E a \in 1 .. Len(list) + 1, b \in 0 .. Len(list) :
           /\ a <= b + 1
           /\ AlertCandidates(idx, from, deadline) = SubSeq(list, a, b)
           /\ \A i \in 1 .. Len(list) :
                i \in a .. b <=> list[i].till > from /\ list[i].from <= deadline
<1> DEFINE I == {i \in DOMAIN list : list[i].till > from /\ list[i].from <= deadline}
           n == Len(list)
<1>1. list \in Seq(AnySlot) /\ n \in Nat /\ DOMAIN list = 1 .. n /\ SlotLength \in Nat \ {0}
  BY SlotsAssumption DEF Listed
<1>2. \A i \in 1 .. n : list[i].from \in Int /\ list[i].till \in Int
  BY <1>1, SlotTypes
<1>3. \A i, k \in I : i .. k \subseteq I
  <2> SUFFICES ASSUME NEW i \in I, NEW k \in I, NEW j \in i .. k
               PROVE  j \in I
    OBVIOUS
  <2>1. i \in 1 .. n /\ k \in 1 .. n /\ j \in 1 .. n /\ i <= j /\ j <= k
    BY <1>1
  <2>2. i * SlotLength <= j * SlotLength /\ (j - 1) * SlotLength <= (k - 1) * SlotLength
    <3>1. i \in Int /\ j \in Int /\ j - 1 \in Int /\ k - 1 \in Int /\ j - 1 <= k - 1
      BY <2>1
    <3>2. QED
      BY <1>1, <2>1, <3>1, Products, Zenon
  <2>3. list[i].till <= list[j].till /\ list[j].from <= list[k].from
    BY <2>1, <2>2 DEF Listed
  <2>4. list[i].till > from /\ list[k].from <= deadline
    OBVIOUS
  <2> HIDE DEF I
  <2>5. list[j].till > from /\ list[j].from <= deadline
    BY <1>2, <2>1, <2>3, <2>4
  <2>6. QED
    BY <1>1, <2>1, <2>5 DEF I
<1>4. I \in SUBSET (1 .. n)
  BY <1>1
<1> HIDE DEF n
<1>5. PICK a \in 1 .. n + 1, b \in 0 .. n : I = a .. b /\ a <= b + 1
  <2> HIDE DEF I
  <2>1. QED
    BY <1>1, <1>3, <1>4, Intervals
<1>6. AlertCandidates(idx, from, deadline) = Picked(list, a .. b)
  BY <1>5 DEF AlertCandidates
<1>7. Picked(list, a .. b) = SubSeq(list, a, b)
  BY <1>1, <1>5, PickedInterval DEF n
<1>8. \A i \in 1 .. n : i \in a .. b <=> list[i].till > from /\ list[i].from <= deadline
  BY <1>1, <1>5
<1>9. QED
  BY <1>5, <1>6, <1>7, <1>8 DEF n

\* How long each part of a list lasts.
Lengths(seq) ==
  CHOOSE f : f = [s \in SUBSET (DOMAIN seq) |->
                    IF s = {} THEN 0
                    ELSE f[s \ {Max(s)}] + seq[Max(s)].till - seq[Max(s)].from]

\* Slots of the same length last as many times as long.
LEMMA SameLengths ==
  ASSUME NEW seq \in Seq(AnySlot),
         \A k \in 1 .. Len(seq) : seq[k].till - seq[k].from = SlotLength
  PROVE  Lengths(seq)[DOMAIN seq] = Len(seq) * SlotLength
<1> DEFINE m == Len(seq)
           S == 1 .. m
           w == [k \in S |-> SlotLength]
           pick == [s \in SUBSET S |-> Max(s)]
           Body(f) == [s \in SUBSET S |->
                        IF s = {} THEN 0 ELSE f[s \ {Max(s)}] + seq[Max(s)].till - seq[Max(s)].from]
           it == Lengths(seq)
<1>1. m \in Nat /\ DOMAIN seq = S /\ SlotLength \in Int /\ w \in [S -> Int]
  BY SlotsAssumption
<1>2. IsFiniteSet(S)
  <2>1. 1 \in Int /\ m \in Int
    BY <1>1
  <2>2. QED
    BY <2>1, FS_Interval
<1>3. PICK g : IsSum(g, S, w)
  BY <1>1, <1>2, SumExists
<1>4. \A s \in SUBSET S : s # {} => Max(s) \in s
  <2> SUFFICES ASSUME NEW s \in SUBSET S, s # {}
               PROVE  Max(s) \in s
    OBVIOUS
  <2>1. s \in SUBSET Nat /\ \A x \in s : x <= m
    BY <1>1
  <2>2. PICK x \in s : \A y \in s : y <= x
    BY <1>1, <2>1, NatGreatest
  <2>3. x \in s /\ \A y \in s : x >= y
    BY <2>1, <2>2
  <2>4. QED
    BY <2>3 DEF Max
<1>5. \A k \in S : seq[k].till \in Int /\ seq[k].from \in Int /\ seq[k].till - seq[k].from = SlotLength
  BY <1>1, SlotTypes
<1>6. ASSUME NEW f, NEW s \in SUBSET S, s # {}, f[s \ {Max(s)}] \in Int
      PROVE  f[s \ {Max(s)}] + seq[Max(s)].till - seq[Max(s)].from
               = w[Max(s)] + f[s \ {Max(s)}]
  <2>1. Max(s) \in S
    BY <1>4, <1>6
  <2> DEFINE x == Max(s)
             r == f[s \ {Max(s)}]
  <2>2. seq[x].till \in Int /\ seq[x].from \in Int /\ seq[x].till - seq[x].from = SlotLength
    BY <1>5, <2>1
  <2>3. w[x] = SlotLength
    BY <2>1
  <2>4. r \in Int
    BY <1>6
  <2> HIDE DEF x, r, w
  <2>5. r + seq[x].till - seq[x].from = w[x] + r
    BY <1>1, <2>2, <2>3, <2>4
  <2>6. QED
    BY <2>5 DEF x, r
<1> HIDE DEF w
<1>7. g = Body(g)
  <2>1. g = [s \in SUBSET S |-> g[s]] /\ g[{}] = 0
    BY <1>3 DEF IsSum
  <2>2. \A s \in SUBSET S : s # {} =>
           g[s] = g[s \ {Max(s)}] + seq[Max(s)].till - seq[Max(s)].from
    <3> SUFFICES ASSUME NEW s \in SUBSET S, s # {}
                 PROVE  g[s] = g[s \ {Max(s)}] + seq[Max(s)].till - seq[Max(s)].from
      OBVIOUS
    <3>1. Max(s) \in s /\ s \ {Max(s)} \in SUBSET S
      BY <1>4
    <3>2. g[s] = w[Max(s)] + g[s \ {Max(s)}] /\ g[s \ {Max(s)}] \in Int
      BY <1>3, <3>1 DEF IsSum
    <3>3. QED
      BY <1>6, <3>2
  <2>3. QED
    BY <2>1, <2>2
<1>8. it = CHOOSE f : f = Body(f)
  BY <1>1 DEF Lengths
<1>9. it = Body(it)
  <2> HIDE DEF Body
  <2>1. QED
    BY <1>7, <1>8
<1> HIDE DEF it
<1>10. IsFold(it, S, w, pick)
  <2>1. it[{}] = 0
    BY <1>9
  <2>2. \A s \in SUBSET S : s # {} =>
          it[s] = it[s \ {Max(s)}] + seq[Max(s)].till - seq[Max(s)].from
    BY <1>9
  <2>3. \A s \in SUBSET S : s # {} /\ it[s \ {Max(s)}] \in Int => it[s] = w[Max(s)] + it[s \ {Max(s)}]
    BY <1>6, <2>2
  <2>4. \A s \in SUBSET S : pick[s] = Max(s)
    OBVIOUS
  <2> HIDE DEF pick
  <2>5. QED
    BY <1>4, <2>1, <2>3, <2>4 DEF IsFold
<1> HIDE DEF Body, pick
<1>11. it[S] = g[S]
  BY <1>1, <1>2, <1>3, <1>10, FoldIsSum
<1>12. g[S] = m * SlotLength
  <2> DEFINE P == [k \in 0 .. m |-> k * SlotLength]
  <2>1. P[0] = 0
    BY <1>1
  <2>2. \A k \in 1 .. m : P[k] = P[k - 1] + w[k] /\ w[k] \in Int
    <3> SUFFICES ASSUME NEW k \in 1 .. m
                 PROVE  P[k] = P[k - 1] + w[k] /\ w[k] \in Int
      OBVIOUS
    <3>1. P[k] = k * SlotLength /\ P[k - 1] = (k - 1) * SlotLength
      BY <1>1
    <3>2. w[k] = SlotLength
      BY DEF w
    <3>3. k * SlotLength = (k - 1) * SlotLength + SlotLength
      BY <1>1
    <3>4. QED
      BY <1>1, <3>1, <3>2, <3>3
  <2>3. P[m] = m * SlotLength /\ m \in 0 .. m
    BY <1>1
  <2> HIDE DEF P
  <2>4. \A k \in 0 .. m : g[1 .. k] = P[k]
    BY <1>1, <1>3, <2>1, <2>2, PrefixSums
  <2>5. QED
    BY <2>3, <2>4
<1>13. QED
  BY <1>1, <1>11, <1>12 DEF it

LEMMA Lasting ==
  ASSUME NEW candidates, NEW stretch,
         SubSeq(candidates, stretch[1], stretch[2]) \in Seq(AnySlot),
         \A k \in 1 .. Len(SubSeq(candidates, stretch[1], stretch[2])) :
           SubSeq(candidates, stretch[1], stretch[2])[k].till
             - SubSeq(candidates, stretch[1], stretch[2])[k].from = SlotLength
  PROVE  Duration(candidates, stretch)
           = Len(SubSeq(candidates, stretch[1], stretch[2])) * SlotLength
<1> DEFINE seq == SubSeq(candidates, stretch[1], stretch[2])
<1>1. Duration(candidates, stretch) = Lengths(seq)[DOMAIN seq]
  BY DEF Duration, FoldLeft, MapThenFoldSet, Lengths
<1>2. seq \in Seq(AnySlot) /\ \A k \in 1 .. Len(seq) : seq[k].till - seq[k].from = SlotLength
  OBVIOUS
<1> HIDE DEF seq
<1>3. Lengths(seq)[DOMAIN seq] = Len(seq) * SlotLength
  BY ONLY <1>2, SameLengths
<1>4. QED
  BY ONLY <1>1, <1>3 DEF seq

-------------------------------------------------------------------------------
(* The first run of extreme prices.                                        *)

\* A run of positions is part of one that cannot be extended.
LEMMA LongestStretch ==
  ASSUME NEW m \in Nat, NEW X \in SUBSET (1 .. m), NEW p \in 1 .. m, NEW q \in 1 .. m,
         p <= q, p .. q \subseteq X
  PROVE  \E u \in 1 .. p, v \in q .. m :
           /\ u .. v \subseteq X
           /\ u > 1 => u - 1 \notin X
           /\ v < m => v + 1 \notin X
<1> DEFINE U == {u \in 1 .. p : u .. q \subseteq X}
           V == {v \in q .. m : p .. v \subseteq X}
<1>1. PICK u \in U : \A x \in U : u <= x
  <2>1. U \in SUBSET Nat /\ p \in U
    OBVIOUS
  <2> HIDE DEF U
  <2>2. QED
    BY <2>1, NatLeast
<1>2. PICK v \in V : \A x \in V : x <= v
  <2>1. V \in SUBSET Nat /\ q \in V /\ \A x \in V : x <= m
    OBVIOUS
  <2> HIDE DEF V
  <2>2. QED
    BY <2>1, NatGreatest
<1>3. u \in 1 .. p /\ v \in q .. m /\ u .. q \subseteq X /\ p .. v \subseteq X
  OBVIOUS
<1>4. u .. v \subseteq X
  <2>1. \A i \in u .. v : i \in u .. q \/ i \in p .. v
    BY <1>3
  <2>2. QED
    BY <1>3, <2>1
<1>5. ASSUME u > 1, u - 1 \in X
      PROVE  FALSE
  <2>1. \A i \in (u - 1) .. q : i = u - 1 \/ i \in u .. q
    BY <1>3
  <2>2. u - 1 \in U
    BY <1>3, <1>5, <2>1
  <2>3. u <= u - 1
    BY <1>1, <2>2
  <2>4. QED
    BY <1>3, <2>3
<1>6. ASSUME v < m, v + 1 \in X
      PROVE  FALSE
  <2>1. \A i \in p .. (v + 1) : i = v + 1 \/ i \in p .. v
    BY <1>3
  <2>2. v + 1 \in V
    BY <1>3, <1>6, <2>1
  <2>3. v + 1 <= v
    BY <1>2, <2>2
  <2>4. QED
    BY <1>3, <2>3
<1>7. QED
  BY <1>3, <1>4, <1>5, <1>6

\* A stretch of extreme candidates is a run of them that cannot be extended.
LEMMA StretchFacts ==
  ASSUME NEW idx, NEW candidates \in Seq(AnySlot), NEW m, m = Len(candidates),
         NEW X \in SUBSET (1 .. m), \A k \in 1 .. m : k \in X <=> Extreme(idx, candidates[k])
  PROVE  /\ \A s \in ExtremeStretches(idx, candidates) :
              /\ s[1] \in 1 .. m /\ s[2] \in 1 .. m /\ s[1] <= s[2]
              /\ s[1] .. s[2] \subseteq X
              /\ s[2] < m => s[2] + 1 \notin X
         /\ \A p, q \in 1 .. m :
              /\ p <= q /\ p .. q \subseteq X
              /\ p > 1 => p - 1 \notin X
              /\ q < m => q + 1 \notin X
              => <<p, q>> \in ExtremeStretches(idx, candidates)
<1>1. m \in Nat /\ DOMAIN candidates = 1 .. m
  OBVIOUS
<1>2. \A slot : Extreme(idx, slot) \in BOOLEAN
  BY DEF Extreme, IsExtreme
<1> DEFINE Is(k) == Extreme(idx, candidates[k])
<1>3. \A k : Is(k) \in BOOLEAN
  BY <1>2
<1>4. ExtremeStretches(idx, candidates) =
        {s \in (1 .. m) \X (1 .. m) :
           /\ s[1] <= s[2]
           /\ \A i \in s[1] .. s[2] : Is(i) = Is(s[1])
           /\ s[1] > 1 => ~(Is(s[1] - 1) = Is(s[1]))
           /\ s[2] < m => ~(Is(s[2] + 1) = Is(s[1]))
           /\ Is(s[1])}
  BY <1>1 DEF ExtremeStretches, Stretches
<1>5. \A k \in 1 .. m : k \in X <=> Is(k)
  OBVIOUS
<1> HIDE DEF Is
<1>6. ASSUME NEW s \in ExtremeStretches(idx, candidates)
      PROVE  /\ s[1] \in 1 .. m /\ s[2] \in 1 .. m /\ s[1] <= s[2]
             /\ s[1] .. s[2] \subseteq X
             /\ s[2] < m => s[2] + 1 \notin X
  <2>1. /\ s[1] \in 1 .. m /\ s[2] \in 1 .. m /\ s[1] <= s[2]
        /\ \A i \in s[1] .. s[2] : Is(i) = Is(s[1])
        /\ s[2] < m => ~(Is(s[2] + 1) = Is(s[1]))
        /\ Is(s[1])
    BY <1>4
  <2> DEFINE p == s[1]
             q == s[2]
  <2>2. \A i \in p .. q : i \in 1 .. m
    <3>1. p \in 1 .. m /\ q \in 1 .. m
      BY <2>1
    <3> HIDE DEF p, q
    <3>2. QED
      BY <1>1, <3>1
  <2>a. \A i \in p .. q : Is(i)
    BY <2>1, Zenon
  <2>3. s[1] .. s[2] \subseteq X
    BY <1>5, <2>2, <2>a
  <2>4. s[2] < m => ~Is(s[2] + 1)
    BY <1>3, <2>1, Zenon
  <2>5. s[2] < m => s[2] + 1 \in 1 .. m
    BY <1>1, <2>1
  <2>6. QED
    BY <1>5, <2>1, <2>3, <2>4, <2>5
<1>7. ASSUME NEW p \in 1 .. m, NEW q \in 1 .. m, p <= q, p .. q \subseteq X,
             p > 1 => p - 1 \notin X, q < m => q + 1 \notin X
      PROVE  <<p, q>> \in ExtremeStretches(idx, candidates)
  <2>1. p \in p .. q /\ \A i \in p .. q : i \in 1 .. m
    BY <1>1, <1>7
  <2>2. Is(p) /\ \A i \in p .. q : Is(i)
    BY <1>5, <1>7, <2>1
  <2>3. \A i \in p .. q : Is(i) = Is(p)
    BY <1>3, <2>2, Zenon
  <2>4. p > 1 => ~Is(p - 1)
    <3>1. p > 1 => p - 1 \in 1 .. m
      BY <1>1
    <3>2. QED
      BY <1>5, <1>7, <3>1
  <2>5. q < m => ~Is(q + 1)
    <3>1. q < m => q + 1 \in 1 .. m
      BY <1>1
    <3>2. QED
      BY <1>5, <1>7, <3>1
  <2>6. p > 1 => ~(Is(p - 1) = Is(p))
    BY <1>3, <2>2, <2>4, Zenon
  <2>7. q < m => ~(Is(q + 1) = Is(p))
    BY <1>3, <2>2, <2>5, Zenon
  <2> DEFINE s == <<p, q>>
  <2>8. s \in (1 .. m) \X (1 .. m) /\ s[1] = p /\ s[2] = q
    OBVIOUS
  <2> HIDE DEF s
  <2>9. s \in ExtremeStretches(idx, candidates)
    BY <1>4, <1>7, <2>2, <2>3, <2>6, <2>7, <2>8
  <2>10. QED
    BY <2>9 DEF s
<1>8. QED
  BY <1>6, <1>7

\* The hours from position p to q are extreme, ahead, and last long enough.
Qualifies(list, idx, from, deadline, p, q) ==
  /\ p <= q /\ \A i \in p .. q : Extreme(idx, list[i])
  /\ (q - p + 1) * SlotLength >= MinExtremeDuration
  /\ list[p].till > from /\ list[q].from <= deadline

\* The run named after the hours from p to q.
RunFromTo(list, p, q) ==
  [from |-> list[p].from,
   till |-> list[p].from + (q - p + 1) * SlotLength,
   kind |-> IF list[p].price < 0 THEN "negative prices" ELSE "extreme prices"]

LEMMA RunFacts ==
  ASSUME NEW list, Listed(list), NEW idx, idx.slots = list, NEW from \in Int, NEW deadline \in Int,
         NEW n, n = Len(list)
  PROVE  \/ /\ FirstExtremeRun(idx, from, deadline) = None
            /\ \A p, q \in 1 .. n : ~Qualifies(list, idx, from, deadline, p, q)
         \/ \E p, q \in 1 .. n :
              /\ Qualifies(list, idx, from, deadline, p, q)
              /\ FirstExtremeRun(idx, from, deadline) = RunFromTo(list, p, q)
              /\ \A r, t \in 1 .. n : Qualifies(list, idx, from, deadline, r, t) =>
                   p <= r /\ (r = p => t <= q)
<1> DEFINE candidates == AlertCandidates(idx, from, deadline)
           ES == ExtremeStretches(idx, candidates)
           long == {s \in ES : Duration(candidates, s) >= MinExtremeDuration}
           run == FirstExtremeRun(idx, from, deadline)
           E(i) == Extreme(idx, list[i])
           Q(p, q) == Qualifies(list, idx, from, deadline, p, q)
<1>0. /\ list \in Seq(AnySlot) /\ n \in Nat /\ SlotLength \in Nat \ {0} /\ MinExtremeDuration \in Int
      /\ \A i \in 1 .. n : list[i].from = (i - 1) * SlotLength /\ list[i].till = i * SlotLength
  BY SlotsAssumption, DayAssumption DEF Listed
<1>1. PICK a \in 1 .. n + 1, b \in 0 .. n :
           /\ a <= b + 1
           /\ candidates = SubSeq(list, a, b)
           /\ \A i \in 1 .. n : i \in a .. b <=> list[i].till > from /\ list[i].from <= deadline
  BY CandidatesAreAdjacent, ZenonT(30)
<1>2. run = IF long = {} THEN None ELSE RunOf(candidates, Earliest(long))
  BY DEF FirstExtremeRun
<1> HIDE DEF run
<1> DEFINE m == b - a + 1
           X == {k \in 1 .. m : Extreme(idx, candidates[k])}
<1>3. /\ candidates \in Seq(AnySlot) /\ m = Len(candidates)
      /\ \A k \in 1 .. m : candidates[k] = list[a + k - 1]
  BY <1>0, <1>1, SubSeqFacts
<1> HIDE DEF candidates
<1>4. m \in Nat /\ a \in Int /\ b \in Int /\ 1 <= a /\ b <= n /\ n \in Int /\ m = b - a + 1
  BY <1>0, <1>1
<1>i. \A k \in 1 .. m : a + k - 1 \in 1 .. n /\ a + k - 1 \in a .. b
  BY <1>4
<1>k. \A i \in a .. b : i - a + 1 \in 1 .. m /\ a + (i - a + 1) - 1 = i /\ i \in 1 .. n
  BY <1>4
<1>5. X \in SUBSET (1 .. m) /\ \A k \in 1 .. m : k \in X <=> E(a + k - 1)
  BY <1>3
<1> HIDE DEF X
<1>6. /\ \A s \in ES :
           /\ s[1] \in 1 .. m /\ s[2] \in 1 .. m /\ s[1] <= s[2]
           /\ s[1] .. s[2] \subseteq X
           /\ s[2] < m => s[2] + 1 \notin X
      /\ \A p, q \in 1 .. m :
           /\ p <= q /\ p .. q \subseteq X
           /\ p > 1 => p - 1 \notin X
           /\ q < m => q + 1 \notin X
           => <<p, q>> \in ES
  <2>1. X \in SUBSET (1 .. m) /\ \A k \in 1 .. m : k \in X <=> Extreme(idx, candidates[k])
    BY DEF X
  <2>2. candidates \in Seq(AnySlot) /\ m = Len(candidates)
    BY <1>3
  <2> HIDE DEF m
  <2>3. QED
    BY <2>1, <2>2, StretchFacts
<1> HIDE DEF m, ES
<1>7. ASSUME NEW u \in 1 .. m, NEW v \in 1 .. m, u <= v, NEW s, s[1] = u, s[2] = v
      PROVE  Duration(candidates, s) = (v - u + 1) * SlotLength
  <2> DEFINE seq == SubSeq(candidates, u, v)
  <2>0. u \in Int /\ v \in Int /\ 1 <= u /\ u <= v /\ v <= m
    BY <1>4, <1>7
  <2>1. u \in 1 .. Len(candidates) + 1 /\ v \in 0 .. Len(candidates) /\ u <= v + 1
    BY <1>3, <1>4, <2>0
  <2>2. /\ seq \in Seq(AnySlot) /\ Len(seq) = v - u + 1
        /\ \A k \in 1 .. v - u + 1 : seq[k] = candidates[u + k - 1]
    <3>1. candidates \in Seq(AnySlot)
      BY <1>3
    <3>2. QED
      BY <3>1, <2>1, SubSeqFacts
  <2> HIDE DEF seq
  <2>3. ASSUME NEW k \in 1 .. Len(seq)
        PROVE  seq[k].till - seq[k].from = SlotLength
    <3>0. k \in Int /\ 1 <= k /\ k <= v - u + 1
      BY <2>0, <2>2
    <3>1. u + k - 1 \in 1 .. m
      BY <1>4, <2>0, <3>0
    <3> DEFINE i == a + (u + k - 1) - 1
    <3>2. seq[k] = list[i] /\ i \in 1 .. n
      BY <1>3, <1>i, <2>2, <3>1
    <3> HIDE DEF i
    <3>3. seq[k].from = (i - 1) * SlotLength /\ seq[k].till = i * SlotLength
      BY <1>0, <3>2
    <3>4. i \in Int /\ (i - 1) * SlotLength = i * SlotLength - SlotLength /\ i * SlotLength \in Int
      BY <1>0, <3>2
    <3>5. QED
      BY <1>0, <3>3, <3>4
  <2>4. seq = SubSeq(candidates, s[1], s[2])
    BY <1>7 DEF seq
  <2>5. QED
    BY <2>2, <2>3, <2>4, Lasting, ZenonT(30)
<1>8. ASSUME NEW r \in 1 .. n, NEW t \in 1 .. n, Q(r, t)
      PROVE  \E s \in long : s[1] <= r - a + 1 /\ t - a + 1 <= s[2]
  <2>1. /\ r <= t /\ \A i \in r .. t : E(i)
        /\ (t - r + 1) * SlotLength >= MinExtremeDuration
        /\ list[r].till > from /\ list[t].from <= deadline
    BY <1>8 DEF Qualifies
  <2>2. r \in a .. b /\ t \in a .. b
    <3>1. r - 1 \in Int /\ t - 1 \in Int /\ r - 1 <= t - 1 /\ r \in Int /\ t \in Int
      BY <1>0, <2>1
    <3>2. (r - 1) * SlotLength <= (t - 1) * SlotLength /\ r * SlotLength <= t * SlotLength
      <4>1. (r - 1) * SlotLength <= (t - 1) * SlotLength
        BY <1>0, <3>1, Products, Zenon
      <4>2. r * SlotLength <= t * SlotLength
        BY <1>0, <2>1, <3>1, Products, Zenon
      <4>3. QED
        BY <4>1, <4>2
    <3>3. list[r].from <= list[t].from /\ list[r].till <= list[t].till
      BY <1>0, <3>2
    <3>4. \A i \in 1 .. n : list[i].from \in Int /\ list[i].till \in Int
      BY <1>0, SlotTypes
    <3>5. list[r].from <= deadline /\ list[t].till > from
      <4>1. /\ list[r].from \in Int /\ list[t].from \in Int
            /\ list[r].till \in Int /\ list[t].till \in Int
        BY <3>4
      <4>2. QED
        BY <2>1, <3>3, <4>1, SMTT(30)
    <3>6. QED
      BY <1>1, <2>1, <3>5
  <2> DEFINE p == r - a + 1
             q == t - a + 1
  <2>3. p \in 1 .. m /\ q \in 1 .. m /\ p <= q
    BY <1>4, <1>k, <2>1, <2>2
  <2>4. p .. q \subseteq X
    <3> SUFFICES ASSUME NEW k \in p .. q
                 PROVE  k \in X
      OBVIOUS
    <3>1. k \in 1 .. m /\ a + k - 1 \in r .. t
      BY <1>4, <2>3
    <3>2. QED
      BY <1>5, <2>1, <3>1
  <2> HIDE DEF p, q
  <2>5. PICK u \in 1 .. p, v \in q .. m :
           /\ u .. v \subseteq X
           /\ u > 1 => u - 1 \notin X
           /\ v < m => v + 1 \notin X
    <3>1. m \in Nat /\ X \in SUBSET (1 .. m)
      BY <1>4, <1>5
    <3>2. QED
      BY <2>3, <2>4, <3>1, LongestStretch
  <2>6. u \in 1 .. m /\ v \in 1 .. m /\ u <= v
    BY <1>4, <2>3
  <2> DEFINE s == <<u, v>>
  <2>7. s \in ES
    BY <1>6, <2>5, <2>6
  <2>8. s[1] = u /\ s[2] = v
    OBVIOUS
  <2> HIDE DEF s
  <2>9. Duration(candidates, s) = (v - u + 1) * SlotLength
    BY <1>7, <2>6, <2>8
  <2>10. v - u + 1 \in Int /\ t - r + 1 \in Int /\ t - r + 1 <= v - u + 1
    <3>1. u \in Int /\ v \in Int /\ u <= p /\ q <= v /\ p \in Int /\ q \in Int
      BY <1>4, <2>3
    <3>2. r \in Int /\ t \in Int /\ p = r - a + 1 /\ q = t - a + 1
      BY DEF p, q
    <3>3. QED
      BY <1>4, <3>1, <3>2
  <2>11. (t - r + 1) * SlotLength <= (v - u + 1) * SlotLength
    BY <1>0, <2>10, Products, Zenon
  <2>12. (t - r + 1) * SlotLength \in Int /\ (v - u + 1) * SlotLength \in Int
    BY <1>0, <2>10
  <2>13. Duration(candidates, s) >= MinExtremeDuration
    <3> DEFINE x == (t - r + 1) * SlotLength
               y == (v - u + 1) * SlotLength
    <3>1. x \in Int /\ y \in Int /\ x <= y /\ x >= MinExtremeDuration /\ MinExtremeDuration \in Int
      BY <1>0, <2>1, <2>11, <2>12
    <3> HIDE DEF x, y
    <3>2. y >= MinExtremeDuration
      BY <3>1
    <3>3. QED
      BY <2>9, <3>2 DEF y
  <2>14. s \in long
    BY <2>7, <2>13
  <2>15. s[1] <= r - a + 1 /\ t - a + 1 <= s[2]
    BY <1>4, <2>3, <2>5, <2>8 DEF p, q
  <2>16. QED
    BY <2>14, <2>15
<1>9. CASE long = {}
  BY <1>2, <1>8, <1>9 DEF run
<1>10. CASE long # {}
  <2> DEFINE e == Earliest(long)
             p == a + e[1] - 1
             q == a + e[2] - 1
  <2>1. \A s \in long : s \in ES /\ Duration(candidates, s) >= MinExtremeDuration
    OBVIOUS
  <2> HIDE DEF long
  <2>2. e \in long /\ \A s \in long : e[1] <= s[1]
    <3> DEFINE firsts == {s[1] : s \in long}
    <3>1. firsts \in SUBSET Nat /\ firsts # {}
      BY <1>4, <1>6, <1>10, <2>1
    <3>2. PICK x \in firsts : \A y \in firsts : x <= y
      BY <3>1, NatLeast
    <3>3. PICK s \in long : x = s[1]
      BY <3>2
    <3>4. \A r \in long : s[1] <= r[1]
      BY <3>2, <3>3
    <3>5. QED
      BY <3>4 DEF Earliest
  <2> HIDE DEF e
  <2>3. /\ e[1] \in 1 .. m /\ e[2] \in 1 .. m /\ e[1] <= e[2]
        /\ e[1] .. e[2] \subseteq X
        /\ e[2] < m => e[2] + 1 \notin X
        /\ Duration(candidates, e) >= MinExtremeDuration
    BY <1>6, <2>1, <2>2
  <2>b. e[1] \in Int /\ e[2] \in Int /\ 1 <= e[1] /\ e[1] <= e[2] /\ e[2] <= m
    BY <1>4, <2>3
  <2>4. p \in 1 .. n /\ q \in 1 .. n /\ p \in a .. b /\ q \in a .. b
    BY <1>i, <2>3
  <2>5. /\ q - p + 1 = e[2] - e[1] + 1 /\ e[1] = p - a + 1 /\ e[2] = q - a + 1
        /\ p \in Int /\ q \in Int /\ p <= q
    <3> DEFINE x == e[1]
               y == e[2]
    <3>1. x \in Int /\ y \in Int /\ x <= y /\ a \in Int
      BY <1>4, <2>b
    <3> HIDE DEF x, y
    <3>2. /\ (a + y - 1) - (a + x - 1) + 1 = y - x + 1
          /\ x = (a + x - 1) - a + 1 /\ y = (a + y - 1) - a + 1
          /\ a + x - 1 \in Int /\ a + y - 1 \in Int /\ a + x - 1 <= a + y - 1
      BY ONLY <3>1
    <3>3. QED
      BY <3>2 DEF x, y
  <2> HIDE DEF p, q
  <2>6. \A i \in p .. q : E(i)
    <3> SUFFICES ASSUME NEW i \in p .. q
                 PROVE  E(i)
      OBVIOUS
    <3>1. i \in a .. b
      BY <1>4, <2>4, <2>5
    <3>2. i - a + 1 \in e[1] .. e[2]
      BY <1>4, <2>b, <2>5
    <3>3. i - a + 1 \in X /\ i - a + 1 \in 1 .. m
      BY <1>k, <2>3, <3>1, <3>2
    <3>4. QED
      BY <1>k, <1>5, <3>1, <3>3
  <2>7. Duration(candidates, e) = (q - p + 1) * SlotLength
    <3>1. Duration(candidates, e) = (e[2] - e[1] + 1) * SlotLength
      BY <1>7, <2>3
    <3>2. QED
      BY <2>5, <3>1
  <2>8. Q(p, q)
    BY <1>1, <2>3, <2>4, <2>5, <2>6, <2>7 DEF Qualifies
  <2>9. run = RunFromTo(list, p, q)
    <3>1. candidates[e[1]] = list[p]
      BY <1>3, <2>3 DEF p
    <3>2. run = RunOf(candidates, e)
      BY <1>2, <1>10 DEF e
    <3>3. QED
      BY <2>7, <3>1, <3>2 DEF RunOf, RunFromTo
  <2>10. ASSUME NEW r \in 1 .. n, NEW t \in 1 .. n, Q(r, t)
         PROVE  p <= r /\ (r = p => t <= q)
    <3>1. PICK s \in long : s[1] <= r - a + 1 /\ t - a + 1 <= s[2]
      BY <1>8, <2>10
    <3>2. s[1] \in 1 .. m /\ s[2] \in 1 .. m /\ e[1] <= s[1]
      BY <1>6, <2>1, <2>2
    <3>a. r \in Int /\ t \in Int /\ s[1] \in Int /\ s[2] \in Int /\ s[2] <= m
      BY <1>4, <3>2
    <3>3. p <= r
      BY <1>4, <2>b, <2>5, <3>1, <3>2, <3>a
    <3>4. ASSUME r = p, ~(t <= q)
          PROVE  FALSE
      <4>1. q + 1 \in r .. t
        BY <2>5, <3>4, <3>a
      <4>2. E(q + 1) /\ list[t].from <= deadline /\ list[p].till > from
        BY <2>10, <3>4, <4>1 DEF Qualifies
      <4>3. e[2] + 1 \in 1 .. m /\ e[2] < m
        BY <1>4, <2>b, <2>5, <3>1, <3>4, <3>a
      <4>4. a + (e[2] + 1) - 1 = q + 1
        BY <1>4, <2>b, <2>5
      <4>5. e[2] + 1 \in X
        BY <1>5, <4>2, <4>3, <4>4
      <4>6. QED
        BY <2>3, <4>3, <4>5
    <3>5. QED
      BY <3>3, <3>4
  <2>11. QED
    BY <2>4, <2>8, <2>9, <2>10 DEF run
<1>11. QED
  BY <1>9, <1>10

-------------------------------------------------------------------------------
(* A day: the cached list with further slots, and its blocks.              *)

LEMMA IndexKeepsSlots ==
  ASSUME NEW list \in Seq(AnySlot)
  PROVE  NewPriceIndex(list).slots = list
<1>1. Len(list) = 0 => list = << >>
  OBVIOUS
<1>2. QED
  BY <1>1 DEF NewPriceIndex

LEMMA DayIsListed ==
  ASSUME Listed(index), index # << >>, NEW k \in Nat, NEW further \in BoundedSeq(Prices, k)
  PROVE  Listed(Extended(further)) /\ Extended(further) # << >>
<1> DEFINE n == Len(index)
           new == [i \in DOMAIN further |->
                    [from |-> Last(index).till + (i - 1) * SlotLength,
                     till |-> Last(index).till + i * SlotLength, price |-> further[i]]]
<1>1. PICK m \in 0 .. k : further \in [1 .. m -> Prices]
  BY DEF BoundedSeq, SeqOf
<1>2. /\ index \in Seq(AnySlot) /\ n \in Nat /\ 1 <= n /\ m \in Nat /\ SlotLength \in Nat \ {0}
      /\ Last(index).till = n * SlotLength /\ n * SlotLength \in Int
  BY SlotsAssumption DEF Listed, Last
<1>3. ASSUME NEW i \in 1 .. m
      PROVE  /\ new[i] \in AnySlot
             /\ new[i].from = (n + i - 1) * SlotLength /\ new[i].till = (n + i) * SlotLength
  <2>1. i \in DOMAIN further /\ further[i] \in Int
    BY <1>1, SlotsAssumption
  <2>2. new[i] = [from |-> n * SlotLength + (i - 1) * SlotLength,
                  till |-> n * SlotLength + i * SlotLength, price |-> further[i]]
    BY <1>2, <2>1
  <2>3. /\ n * SlotLength + (i - 1) * SlotLength = (n + i - 1) * SlotLength
        /\ n * SlotLength + i * SlotLength = (n + i) * SlotLength
        /\ n * SlotLength + (i - 1) * SlotLength \in Int /\ n * SlotLength + i * SlotLength \in Int
    BY <1>2
  <2>4. QED
    BY <2>1, <2>2, <2>3 DEF AnySlot
<1>4. new \in [1 .. m -> AnySlot]
  BY <1>1, <1>3
<1> HIDE DEF new
<1>5. new \in Seq(AnySlot) /\ Len(new) = m
  BY <1>2, <1>4
<1>6. Extended(further) = index \o new
  BY DEF Extended, new
<1>7. /\ index \o new \in Seq(AnySlot) /\ Len(index \o new) = n + m
      /\ \A i \in 1 .. n : (index \o new)[i] = index[i]
      /\ \A i \in 1 .. m : (index \o new)[n + i] = new[i]
  BY <1>2, <1>5
<1> DEFINE day == index \o new
<1> HIDE DEF day
<1>8. ASSUME NEW i \in 1 .. n + m
      PROVE  day[i].from = (i - 1) * SlotLength /\ day[i].till = i * SlotLength
  <2>1. CASE i <= n
    BY <1>7, <2>1 DEF Listed, day
  <2>2. CASE n < i
    <3>1. i - n \in 1 .. m /\ n + (i - n) = i /\ n + (i - n) - 1 = i - 1
      BY <1>2, <2>2
    <3>2. day[i] = new[i - n]
      BY <1>7, <3>1 DEF day
    <3>3. QED
      BY <1>3, <3>1, <3>2
  <2>3. QED
    BY <1>2, <2>1, <2>2
<1>9. Len(day) # 0
  BY <1>2, <1>7 DEF day
<1>10. QED
  BY <1>6, <1>7, <1>8, <1>9 DEF Listed, day

LEMMA BlocksAre ==
  ASSUME NEW list \in Seq(AnySlot), NEW block \in Blocks(list)
  PROVE  \E p, q \in 1 .. Len(list) : p <= q /\ block = SubSeq(list, p, q)
<1>1. PICK r \in (DOMAIN list) \X (DOMAIN list) : r[1] <= r[2] /\ block = SubSeq(list, r[1], r[2])
  BY DEF Blocks
<1>2. r[1] \in 1 .. Len(list) /\ r[2] \in 1 .. Len(list)
  OBVIOUS
<1>3. QED
  BY <1>1, <1>2

\* What the slots p to q are as a block.
IsBlock(list, p, q) ==
  LET block == SubSeq(list, p, q)
  IN /\ block \in Blocks(list) /\ block \in Seq(AnySlot)
     /\ Len(block) = q - p + 1 /\ DOMAIN block = 1 .. (q - p + 1)
     /\ block[1] = list[p] /\ Last(block) = list[q]
     /\ Span(block) = (q - p + 1) * SlotLength
     /\ \A k \in 1 .. (q - p + 1) : block[k] = list[p + k - 1]
     /\ \A i \in p .. q : i - p + 1 \in DOMAIN block /\ block[i - p + 1] = list[i]

LEMMA BlockFacts ==
  ASSUME NEW list, Listed(list), NEW p \in 1 .. Len(list), NEW q \in 1 .. Len(list), p <= q
  PROVE  IsBlock(list, p, q)
<1> DEFINE block == SubSeq(list, p, q)
<1>1. /\ list \in Seq(AnySlot) /\ SlotLength \in Nat \ {0}
      /\ \A i \in 1 .. Len(list) : list[i].from = (i - 1) * SlotLength /\ list[i].till = i * SlotLength
  BY SlotsAssumption DEF Listed
<1>2. p \in Int /\ q \in Int /\ Len(list) \in Int /\ 1 <= p /\ q <= Len(list)
  BY <1>1
<1>3. p \in 1 .. Len(list) + 1 /\ q \in 0 .. Len(list) /\ p <= q + 1
  BY <1>2
<1>4. /\ block \in Seq(AnySlot) /\ Len(block) = q - p + 1
      /\ \A k \in 1 .. q - p + 1 : block[k] = list[p + k - 1]
  BY <1>1, <1>3, SubSeqFacts
<1> HIDE DEF block
<1>5. DOMAIN block = 1 .. (q - p + 1)
  BY <1>4
<1>6. \A i \in p .. q : i - p + 1 \in DOMAIN block /\ block[i - p + 1] = list[i]
  <2> SUFFICES ASSUME NEW i \in p .. q
               PROVE  i - p + 1 \in DOMAIN block /\ block[i - p + 1] = list[i]
    OBVIOUS
  <2>1. i - p + 1 \in 1 .. q - p + 1 /\ p + (i - p + 1) - 1 = i
    BY <1>2
  <2>2. QED
    BY <1>4, <1>5, <2>1
<1>7. block[1] = list[p] /\ Last(block) = list[q]
  <2>1. p \in p .. q /\ q \in p .. q /\ p - p + 1 = 1
    BY <1>2
  <2>2. block[1] = list[p] /\ block[q - p + 1] = list[q]
    BY <1>6, <2>1
  <2>3. QED
    BY <1>4, <2>2 DEF Last
<1>8. Span(block) = (q - p + 1) * SlotLength
  <2>1. Span(block) = q * SlotLength - (p - 1) * SlotLength
    BY <1>1, <1>7 DEF Span
  <2>2. (q - p + 1) * SlotLength = q * SlotLength - (p - 1) * SlotLength
    BY <1>1, <1>2
  <2>3. QED
    BY <2>1, <2>2
<1>9. block \in Blocks(list)
  <2> DEFINE r == <<p, q>>
  <2>1. r \in (DOMAIN list) \X (DOMAIN list) /\ r[1] = p /\ r[2] = q
    BY <1>1
  <2> HIDE DEF r
  <2>2. QED
    BY <2>1 DEF Blocks, block
<1>10. QED
  BY <1>4, <1>5, <1>6, <1>7, <1>8, <1>9 DEF block, IsBlock

\* What an alert names in a list of any length.
LEMMA FirstRunOfDay ==
  ASSUME NEW day, Listed(day), now \in Int
  PROVE  NamesFirstRun(day)
<1> DEFINE idx == NewPriceIndex(day)
           run == FirstExtremeRun(idx, now, Midnight(now))
           n == Len(day)
           Q(p, q) == Qualifies(day, idx, now, Midnight(now), p, q)
<1>1. /\ day \in Seq(AnySlot) /\ SlotLength \in Nat \ {0}
      /\ \A i \in 1 .. n : day[i].from = (i - 1) * SlotLength /\ day[i].till = i * SlotLength
  BY SlotsAssumption DEF Listed
<1>2. idx.slots = day
  BY <1>1, IndexKeepsSlots
<1>3. Midnight(now) \in Int
  <2>1. now \div Day \in Int
    BY DayAssumption, DivMod, Zenon
  <2>2. QED
    BY <2>1, DayAssumption DEF Midnight
<1>4. NamesFirstRun(day) <=>
        IF run = None THEN Qualifying(day, idx) = {}
        ELSE \E b \in Qualifying(day, idx) :
               /\ b[1].from = run.from /\ Last(b).till = run.till
               /\ \A other \in Qualifying(day, idx) :
                    /\ other[1].from >= run.from
                    /\ other[1].from = run.from => Last(other).till <= run.till
               /\ (run.kind = "negative prices") <=> b[1].price < 0
  BY DEF NamesFirstRun
<1> HIDE DEF idx
<1>5. \/ run = None /\ \A p, q \in 1 .. n : ~Q(p, q)
      \/ \E p, q \in 1 .. n :
           /\ Q(p, q) /\ run = RunFromTo(day, p, q)
           /\ \A r, t \in 1 .. n : Q(r, t) => p <= r /\ (r = p => t <= q)
  <2>1. n = Len(day)
    OBVIOUS
  <2> HIDE DEF n
  <2>2. QED
    BY <1>2, <1>3, <2>1, RunFacts
<1> HIDE DEF run
<1>6. ASSUME NEW p \in 1 .. n, NEW q \in 1 .. n, p <= q
      PROVE  SubSeq(day, p, q) \in Qualifying(day, idx) <=> Q(p, q)
  <2> DEFINE b == SubSeq(day, p, q)
  <2>0. IsBlock(day, p, q)
    BY <1>6, BlockFacts
  <2>1. /\ Len(b) = q - p + 1 /\ DOMAIN b = 1 .. (q - p + 1)
        /\ b[1] = day[p] /\ Last(b) = day[q] /\ b \in Blocks(day)
        /\ Span(b) = (q - p + 1) * SlotLength
        /\ \A k \in 1 .. (q - p + 1) : b[k] = day[p + k - 1]
        /\ \A i \in p .. q : i - p + 1 \in DOMAIN b /\ b[i - p + 1] = day[i]
    BY <2>0 DEF IsBlock
  <2> HIDE DEF b
  <2>2. (\A i \in DOMAIN b : IsExtreme(idx, b[i], Spike)) <=> (\A i \in p .. q : Extreme(idx, day[i]))
    <3>1. ASSUME \A i \in DOMAIN b : IsExtreme(idx, b[i], Spike), NEW i \in p .. q
          PROVE  Extreme(idx, day[i])
      BY <2>1, <3>1 DEF Extreme
    <3>2. ASSUME \A i \in p .. q : Extreme(idx, day[i]), NEW k \in DOMAIN b
          PROVE  IsExtreme(idx, b[k], Spike)
      <4>1. k \in 1 .. (q - p + 1) /\ p + k - 1 \in p .. q
        <5>1. k \in 1 .. (q - p + 1) /\ p \in Int /\ q \in Int
          BY <2>1
        <5>2. QED
          BY <5>1
      <4>2. QED
        BY <2>1, <3>2, <4>1 DEF Extreme
    <3>3. QED
      BY <3>1, <3>2
  <2>3. b \in Qualifying(day, idx) <=> Q(p, q)
    BY <1>6, <2>1, <2>2 DEF Qualifying, Qualifies
  <2>4. QED
    BY <2>3 DEF b
<1>7. ASSUME NEW b \in Qualifying(day, idx)
      PROVE  \E p, q \in 1 .. n : /\ p <= q /\ Q(p, q)
                                 /\ b[1] = day[p] /\ Last(b) = day[q]
  <2>1. PICK p \in 1 .. n, q \in 1 .. n : p <= q /\ b = SubSeq(day, p, q)
    BY <1>1, BlocksAre DEF Qualifying
  <2>2. Q(p, q)
    BY <1>6, <2>1
  <2>3. b[1] = day[p] /\ Last(b) = day[q]
    BY <2>1, BlockFacts DEF IsBlock
  <2>4. QED
    BY <2>1, <2>2, <2>3
<1>8. CASE run = None
  <2>1. \A p, q \in 1 .. n : RunFromTo(day, p, q) # None
    <3> SUFFICES ASSUME NEW p \in 1 .. n, NEW q \in 1 .. n
                 PROVE  RunFromTo(day, p, q) # None
      OBVIOUS
    <3>1. day[p].from \in Int /\ day[p].from + (q - p + 1) * SlotLength \in Int
      BY <1>1, SlotTypes
    <3>2. RunFromTo(day, p, q)
            \in [from : Int, till : Int, kind : {"extreme prices", "negative prices"}]
      BY <3>1 DEF RunFromTo
    <3>3. QED
      BY <3>2, PlaceholderAssumption
  <2>2. \A p, q \in 1 .. n : ~Q(p, q)
    BY <1>5, <1>8, <2>1
  <2>3. Qualifying(day, idx) = {}
    BY <1>7, <2>2
  <2>4. QED
    BY <1>4, <1>8, <2>3
<1>9. CASE run # None
  <2>1. PICK p \in 1 .. n, q \in 1 .. n :
           /\ Q(p, q) /\ run = RunFromTo(day, p, q)
           /\ \A r, t \in 1 .. n : Q(r, t) => p <= r /\ (r = p => t <= q)
    BY <1>5, <1>9
  <2>2. p <= q /\ p \in Int /\ q \in Int
    BY <2>1 DEF Qualifies
  <2> DEFINE b == SubSeq(day, p, q)
  <2>3. b \in Qualifying(day, idx)
    BY <1>6, <2>1, <2>2
  <2>4. b[1] = day[p] /\ Last(b) = day[q]
    BY <2>2, BlockFacts DEF IsBlock
  <2> HIDE DEF b
  <2>5. run.from = day[p].from /\ run.till = day[q].till
    <3>1. (p - 1) * SlotLength + (q - p + 1) * SlotLength = q * SlotLength
      BY <1>1, <2>2
    <3>2. QED
      BY <1>1, <2>1, <3>1 DEF RunFromTo
  <2>6. (run.kind = "negative prices") <=> day[p].price < 0
    BY <2>1 DEF RunFromTo
  <2>7. ASSUME NEW other \in Qualifying(day, idx)
        PROVE  /\ other[1].from >= run.from
               /\ other[1].from = run.from => Last(other).till <= run.till
    <3>1. PICK r \in 1 .. n, t \in 1 .. n :
             r <= t /\ Q(r, t) /\ other[1] = day[r] /\ Last(other) = day[t]
      BY <1>7
    <3>2. p <= r /\ (r = p => t <= q) /\ r \in Int /\ t \in Int
      BY <2>1, <3>1
    <3>3. p - 1 \in Int /\ r - 1 \in Int /\ p - 1 <= r - 1 /\ (r - 1 = p - 1 => r = p)
      BY <2>2, <3>2
    <3>4. /\ (p - 1) * SlotLength <= (r - 1) * SlotLength
          /\ (r - 1) * SlotLength = (p - 1) * SlotLength => r = p
      <4>1. p - 1 \in Int /\ r - 1 \in Int /\ SlotLength \in Nat \ {0}
        BY <1>1, <3>3
      <4>2. (p - 1 <= r - 1) <=> ((p - 1) * SlotLength <= (r - 1) * SlotLength)
        BY <4>1, Products, Zenon
      <4>3. (r - 1 <= p - 1) <=> ((r - 1) * SlotLength <= (p - 1) * SlotLength)
        BY <4>1, Products, Zenon
      <4>4. (p - 1) * SlotLength \in Int /\ (r - 1) * SlotLength \in Int
        BY <4>1
      <4>5. (r - 1) * SlotLength = (p - 1) * SlotLength => r - 1 = p - 1
        BY <3>3, <4>3, <4>4
      <4>6. QED
        BY <3>3, <4>2, <4>5
    <3>5. t <= q => t * SlotLength <= q * SlotLength
      <4>1. t \in Int /\ q \in Int /\ SlotLength \in Nat \ {0}
        BY <1>1, <2>2, <3>2
      <4>2. QED
        BY <4>1, Products, Zenon
    <3>6. /\ day[r].from = (r - 1) * SlotLength /\ day[p].from = (p - 1) * SlotLength
          /\ day[t].till = t * SlotLength /\ day[q].till = q * SlotLength
      BY <1>1
    <3>7. (p - 1) * SlotLength \in Int /\ (r - 1) * SlotLength \in Int
      BY <1>1, <3>3
    <3>8. day[r].from >= day[p].from
      BY <3>4, <3>6, <3>7
    <3>9. day[r].from = day[p].from => day[t].till <= day[q].till
      BY <3>2, <3>4, <3>5, <3>6
    <3>10. QED
      BY <2>5, <3>1, <3>8, <3>9
  <2>8. QED
    BY <1>4, <1>9, <2>3, <2>4, <2>5, <2>6, <2>7
<1>10. QED
  BY <1>8, <1>9

-------------------------------------------------------------------------------
(* Sums of prices.                                                         *)

\* The prices of each part of a list added up.
Adding(list) ==
  CHOOSE f : f = [s \in SUBSET (DOMAIN list) |->
                    IF s = {} THEN 0 ELSE f[s \ {Max(s)}] + list[Max(s)].price]

\* SumPrices is the sum, in whatever order.
LEMMA PricesAddUp ==
  ASSUME NEW list \in Seq(AnySlot), NEW g,
         IsSum(g, 1 .. Len(list), [k \in 1 .. Len(list) |-> list[k].price])
  PROVE  SumPrices(list) = g[1 .. Len(list)]
<1> DEFINE m == Len(list)
           S == 1 .. m
           w == [k \in S |-> list[k].price]
           pick == [s \in SUBSET S |-> Max(s)]
           Body(f) == [s \in SUBSET S |->
                        IF s = {} THEN 0 ELSE f[s \ {Max(s)}] + list[Max(s)].price]
           it == Adding(list)
<1>1. m \in Nat /\ DOMAIN list = S /\ IsSum(g, S, w)
  OBVIOUS
<1>2. w \in [S -> Int] /\ \A k \in S : w[k] = list[k].price /\ list[k].price \in Int
  BY SlotTypes
<1>3. IsFiniteSet(S)
  <2>1. 1 \in Int /\ m \in Int
    BY <1>1
  <2>2. QED
    BY <2>1, FS_Interval
<1>4. \A s \in SUBSET S : s # {} => Max(s) \in s
  BY <1>1, GreatestOf
<1> HIDE DEF w
<1>5. ASSUME NEW f, NEW s \in SUBSET S, s # {}, f[s \ {Max(s)}] \in Int
      PROVE  f[s \ {Max(s)}] + list[Max(s)].price = w[Max(s)] + f[s \ {Max(s)}]
  <2>1. Max(s) \in S
    BY <1>4, <1>5
  <2>2. w[Max(s)] = list[Max(s)].price /\ list[Max(s)].price \in Int
    BY <1>2, <2>1
  <2>3. QED
    BY <1>5, <2>2
<1>6. g = Body(g)
  <2>1. g = [s \in SUBSET S |-> g[s]] /\ g[{}] = 0
    BY <1>1 DEF IsSum
  <2>2. \A s \in SUBSET S : s # {} => g[s] = g[s \ {Max(s)}] + list[Max(s)].price
    <3> SUFFICES ASSUME NEW s \in SUBSET S, s # {}
                 PROVE  g[s] = g[s \ {Max(s)}] + list[Max(s)].price
      OBVIOUS
    <3>1. Max(s) \in s /\ s \ {Max(s)} \in SUBSET S
      BY <1>4
    <3>2. g[s] = w[Max(s)] + g[s \ {Max(s)}] /\ g[s \ {Max(s)}] \in Int
      BY <1>1, <3>1 DEF IsSum
    <3>3. QED
      BY <1>5, <3>2
  <2>3. QED
    BY <2>1, <2>2
<1>7. SumPrices(list) = it[S]
  BY <1>1 DEF SumPrices, FoldLeft, MapThenFoldSet, Adding
<1>8. it = CHOOSE f : f = Body(f)
  BY <1>1 DEF Adding
<1>9. it = Body(it)
  <2> HIDE DEF Body
  <2>1. QED
    BY <1>6, <1>8
<1> HIDE DEF it
<1>10. IsFold(it, S, w, pick)
  <2>1. it[{}] = 0
    BY <1>9
  <2>2. \A s \in SUBSET S : s # {} => it[s] = it[s \ {Max(s)}] + list[Max(s)].price
    BY <1>9
  <2>3. \A s \in SUBSET S : s # {} /\ it[s \ {Max(s)}] \in Int => it[s] = w[Max(s)] + it[s \ {Max(s)}]
    BY <1>5, <2>2
  <2>4. \A s \in SUBSET S : pick[s] = Max(s)
    OBVIOUS
  <2> HIDE DEF pick
  <2>5. QED
    BY <1>4, <2>1, <2>3, <2>4 DEF IsFold
<1> HIDE DEF Body, pick
<1>11. it[S] = g[S]
  BY <1>1, <1>2, <1>3, <1>10, FoldIsSum
<1>12. QED
  BY <1>7, <1>11

LEMMA SumIsInt ==
  ASSUME NEW list \in Seq(AnySlot)
  PROVE  SumPrices(list) \in Int
<1> DEFINE S == 1 .. Len(list)
           w == [k \in S |-> list[k].price]
<1>1. w \in [S -> Int]
  BY SlotTypes
<1>2. IsFiniteSet(S)
  <2>1. 1 \in Int /\ Len(list) \in Int
    OBVIOUS
  <2>2. QED
    BY <2>1, FS_Interval
<1>3. PICK g : IsSum(g, S, w)
  <2> HIDE DEF w, S
  <2>1. QED
    BY <1>1, <1>2, SumExists
<1>4. SumPrices(list) = g[S]
  BY <1>3, PricesAddUp
<1>5. g[S] \in Int
  BY <1>3 DEF IsSum
<1>6. QED
  BY <1>4, <1>5

\* Part of a part.
LEMMA PartOfPart ==
  ASSUME NEW S, NEW list \in Seq(S), NEW a \in 1 .. Len(list) + 1, NEW b \in 0 .. Len(list), a <= b + 1,
         NEW i \in 1 .. b - a + 1, NEW e \in i .. b - a + 1
  PROVE  SubSeq(SubSeq(list, a, b), i, e) = SubSeq(list, a + i - 1, a + e - 1)
<1> DEFINE c == SubSeq(list, a, b)
<1>1. c \in Seq(S) /\ Len(c) = b - a + 1 /\ \A k \in 1 .. b - a + 1 : c[k] = list[a + k - 1]
  BY SubSeqFacts
<1> HIDE DEF c
<1>2. SubSeq(c, i, e) \in Seq(S) /\ Len(SubSeq(c, i, e)) = e - i + 1
      /\ \A k \in 1 .. e - i + 1 : SubSeq(c, i, e)[k] = c[i + k - 1]
  <2>1. i \in 1 .. Len(c) + 1 /\ e \in 0 .. Len(c) /\ i <= e + 1
    BY <1>1
  <2>2. QED
    BY <1>1, <2>1, SubSeqFacts
<1>3. /\ SubSeq(list, a + i - 1, a + e - 1) \in Seq(S)
      /\ Len(SubSeq(list, a + i - 1, a + e - 1)) = (a + e - 1) - (a + i - 1) + 1
      /\ \A k \in 1 .. (a + e - 1) - (a + i - 1) + 1 :
           SubSeq(list, a + i - 1, a + e - 1)[k] = list[(a + i - 1) + k - 1]
  <2>1. a + i - 1 \in 1 .. Len(list) + 1 /\ a + e - 1 \in 0 .. Len(list) /\ a + i - 1 <= (a + e - 1) + 1
    OBVIOUS
  <2>2. QED
    BY <2>1, SubSeqFacts
<1>4. \A k \in 1 .. e - i + 1 : c[i + k - 1] = list[(a + i - 1) + k - 1]
  <2> SUFFICES ASSUME NEW k \in 1 .. e - i + 1
               PROVE  c[i + k - 1] = list[(a + i - 1) + k - 1]
    OBVIOUS
  <2>1. i + k - 1 \in 1 .. b - a + 1 /\ a + (i + k - 1) - 1 = (a + i - 1) + k - 1
    OBVIOUS
  <2>2. QED
    BY <1>1, <2>1
<1>5. (a + e - 1) - (a + i - 1) + 1 = e - i + 1
  OBVIOUS
<1>6. SubSeq(c, i, e) = SubSeq(list, a + i - 1, a + e - 1)
  <2> DEFINE x == SubSeq(c, i, e)
             y == SubSeq(list, a + i - 1, a + e - 1)
  <2>1. x \in Seq(S) /\ y \in Seq(S) /\ Len(x) = e - i + 1 /\ Len(y) = e - i + 1
    BY <1>2, <1>3, <1>5
  <2>2. \A k \in 1 .. e - i + 1 : x[k] = y[k]
    BY <1>2, <1>3, <1>4, <1>5
  <2> HIDE DEF x, y
  <2>3. Len(x) = Len(y) /\ \A k \in 1 .. Len(x) : x[k] = y[k]
    BY <2>1, <2>2
  <2>4. x = y
    BY <2>1, <2>3, SameElements
  <2>5. QED
    BY <2>4 DEF x, y
<1>7. QED
  BY <1>6 DEF c

\* The prices at each set of positions added up.
Summing(list, S) ==
  CHOOSE f : f = [s \in SUBSET S |->
                    IF s = {} THEN 0
                    ELSE list[CHOOSE x \in s : TRUE].price + f[s \ {CHOOSE x \in s : TRUE}]]

LEMMA SetAddsUp ==
  ASSUME NEW list \in Seq(AnySlot), NEW S, S \in SUBSET (1 .. Len(list)), IsFiniteSet(S), NEW g,
         IsSum(g, S, [i \in S |-> list[i].price])
  PROVE  MapThenSumSet(LAMBDA i : list[i].price, S) = g[S]
<1> DEFINE w == [i \in S |-> list[i].price]
           pick == [s \in SUBSET S |-> CHOOSE x \in s : TRUE]
           Body(f) == [s \in SUBSET S |->
                        IF s = {} THEN 0
                        ELSE list[CHOOSE x \in s : TRUE].price + f[s \ {CHOOSE x \in s : TRUE}]]
           it == Summing(list, S)
<1>1. IsSum(g, S, w)
  OBVIOUS
<1>2. w \in [S -> Int] /\ \A i \in S : w[i] = list[i].price
  BY SlotTypes
<1>3. \A s \in SUBSET S : s # {} => (CHOOSE x \in s : TRUE) \in s
  OBVIOUS
<1> HIDE DEF w
<1>4. g = Body(g)
  <2>1. g = [s \in SUBSET S |-> g[s]] /\ g[{}] = 0
    BY <1>1 DEF IsSum
  <2>2. \A s \in SUBSET S : s # {} =>
           g[s] = list[CHOOSE x \in s : TRUE].price + g[s \ {CHOOSE x \in s : TRUE}]
    <3> SUFFICES ASSUME NEW s \in SUBSET S, s # {}
                 PROVE  g[s] = list[CHOOSE x \in s : TRUE].price + g[s \ {CHOOSE x \in s : TRUE}]
      OBVIOUS
    <3> DEFINE y == CHOOSE x \in s : TRUE
    <3>1. y \in s /\ y \in S
      BY <1>3
    <3>2. w[y] = list[y].price
      BY <1>2, <3>1
    <3> HIDE DEF y
    <3>3. g[s] = w[y] + g[s \ {y}]
      BY <1>1, <3>1 DEF IsSum
    <3>4. g[s] = list[y].price + g[s \ {y}]
      BY <3>2, <3>3
    <3>5. QED
      BY <3>4 DEF y
  <2>3. QED
    BY <2>1, <2>2
<1>5. MapThenSumSet(LAMBDA i : list[i].price, S) = it[S]
  BY DEF MapThenSumSet, MapThenFoldSet, Summing
<1>6. it = CHOOSE f : f = Body(f)
  BY DEF Summing
<1>7. it = Body(it)
  <2> HIDE DEF Body
  <2>1. QED
    BY <1>4, <1>6
<1> HIDE DEF it
<1>8. IsFold(it, S, w, pick)
  <2>1. it[{}] = 0
    BY <1>7
  <2>2. \A s \in SUBSET S : s # {} =>
           it[s] = list[CHOOSE x \in s : TRUE].price + it[s \ {CHOOSE x \in s : TRUE}]
    BY <1>7
  <2>3. \A s \in SUBSET S : pick[s] = CHOOSE x \in s : TRUE
    OBVIOUS
  <2> HIDE DEF pick
  <2>4. \A s \in SUBSET S : s # {} => pick[s] \in s
    BY <1>3, <2>3
  <2>5. \A s \in SUBSET S : s # {} => it[s] = w[pick[s]] + it[s \ {pick[s]}]
    <3> SUFFICES ASSUME NEW s \in SUBSET S, s # {}
                 PROVE  it[s] = w[pick[s]] + it[s \ {pick[s]}]
      OBVIOUS
    <3>1. it[s] = list[pick[s]].price + it[s \ {pick[s]}]
      BY <2>2, <2>3
    <3>2. w[pick[s]] = list[pick[s]].price
      BY <1>2, <2>4
    <3>3. QED
      BY <3>1, <3>2
  <2>6. QED
    BY <2>1, <2>4, <2>5 DEF IsFold
<1> HIDE DEF Body, pick
<1>9. it[S] = g[S]
  BY <1>1, <1>2, <1>8, FoldIsSum, ZenonT(60)
<1>10. QED
  BY <1>5, <1>9

\* The sum over adjacent positions is that of the part of the list.
LEMMA PartSum ==
  ASSUME NEW list \in Seq(AnySlot), NEW p \in 1 .. Len(list), NEW q \in 1 .. Len(list), p <= q
  PROVE  MapThenSumSet(LAMBDA i : list[i].price, p .. q) = SumPrices(SubSeq(list, p, q))
<1> DEFINE m == q - p + 1
           s == SubSeq(list, p, q)
           w == [i \in p .. q |-> list[i].price]
           v == [k \in 1 .. Len(s) |-> s[k].price]
<1>1. /\ s \in Seq(AnySlot) /\ Len(s) = m /\ m \in Nat
      /\ \A k \in 1 .. m : s[k] = list[p + k - 1]
  <2>1. p \in 1 .. Len(list) + 1 /\ q \in 0 .. Len(list) /\ p <= q + 1
    OBVIOUS
  <2>2. s \in Seq(AnySlot) /\ Len(s) = q - p + 1 /\ \A k \in 1 .. q - p + 1 : s[k] = list[p + k - 1]
    BY <2>1, SubSeqFacts
  <2>3. QED
    BY <2>2
<1> HIDE DEF s
<1>2. IsFiniteSet(p .. q) /\ IsFiniteSet(1 .. m)
  <2>1. p \in Int /\ q \in Int /\ 1 \in Int /\ m \in Int
    OBVIOUS
  <2>2. QED
    BY <2>1, FS_Interval
<1>3. w \in [p .. q -> Int] /\ \A i \in p .. q : w[i] = list[i].price
  BY SlotTypes
<1>4. v \in [1 .. m -> Int] /\ \A k \in 1 .. m : v[k] = s[k].price
  BY <1>1, SlotTypes
<1> HIDE DEF m
<1>5. PICK g : IsSum(g, p .. q, w)
  BY <1>2, <1>3, SumExists
<1>6. PICK h : IsSum(h, 1 .. m, v)
  BY <1>2, <1>4, SumExists
<1>7. MapThenSumSet(LAMBDA i : list[i].price, p .. q) = g[p .. q]
  <2>1. p .. q \in SUBSET (1 .. Len(list))
    OBVIOUS
  <2>2. QED
    BY <1>2, <1>5, <2>1, SetAddsUp
<1>8. SumPrices(s) = h[1 .. m]
  BY <1>1, <1>6, PricesAddUp
<1> HIDE DEF v, w
<1> DEFINE P == [k \in 0 .. m |-> g[p .. (p + k - 1)]]
<1>9. P[0] = 0
  <2>1. p .. (p + 0 - 1) = {} /\ 0 \in 0 .. m
    BY <1>1
  <2>2. QED
    BY <1>5, <2>1 DEF IsSum
<1>10. \A k \in 1 .. m : P[k] = P[k - 1] + v[k] /\ v[k] \in Int
  <2> SUFFICES ASSUME NEW k \in 1 .. m
               PROVE  P[k] = P[k - 1] + v[k] /\ v[k] \in Int
    OBVIOUS
  <2> DEFINE j == p + k - 1
             U == p .. j
  <2>1. /\ U \in SUBSET (p .. q) /\ j \in U /\ U \ {j} = p .. (p + (k - 1) - 1)
        /\ U \ {j} \in SUBSET (p .. q) /\ k \in 0 .. m /\ k - 1 \in 0 .. m /\ j \in p .. q
    BY <1>1 DEF m
  <2>2. P[k] = g[U] /\ P[k - 1] = g[U \ {j}]
    BY <2>1
  <2>3. w[j] = list[j].price /\ s[k] = list[j] /\ v[k] = s[k].price /\ v[k] \in Int
    BY <1>1, <1>3, <1>4, <2>1
  <2> HIDE DEF P, U, j
  <2>4. g[U] = w[j] + g[U \ {j}] /\ g[U \ {j}] \in Int
    BY <1>5, <2>1 DEF IsSum
  <2>5. QED
    BY <2>2, <2>3, <2>4
<1>11. P[m] = g[p .. q] /\ m \in 0 .. m
  <2>1. m \in 0 .. m /\ p + m - 1 = q
    BY <1>1 DEF m
  <2>2. QED
    BY <2>1
<1> HIDE DEF P
<1>12. \A k \in 0 .. m : h[1 .. k] = P[k]
  BY <1>1, <1>6, <1>9, <1>10, PrefixSums
<1>13. QED
  BY <1>7, <1>8, <1>11, <1>12 DEF s

\* A sum lies between the least and the greatest price, times the number of slots.
LEMMA SumBounds ==
  ASSUME NEW list \in Seq(AnySlot), NEW low \in Int, NEW high \in Int,
         \A k \in 1 .. Len(list) : low <= list[k].price /\ list[k].price <= high
  PROVE  low * Len(list) <= SumPrices(list) /\ SumPrices(list) <= high * Len(list)
<1> DEFINE m == Len(list)
           v == [k \in 1 .. m |-> list[k].price]
<1>1. m \in Nat /\ v \in [1 .. m -> Int]
  BY SlotTypes
<1>2. \A k \in 1 .. m : low <= v[k] /\ v[k] <= high /\ v[k] \in Int
  BY SlotTypes
<1>3. IsFiniteSet(1 .. m)
  <2>1. 1 \in Int /\ m \in Int
    OBVIOUS
  <2>2. QED
    BY <2>1, FS_Interval
<1>4. PICK h : IsSum(h, 1 .. m, v)
  <2> HIDE DEF v, m
  <2>1. QED
    BY <1>1, <1>3, SumExists
<1>5. SumPrices(list) = h[1 .. m]
  BY <1>4, PricesAddUp
<1> HIDE DEF v, m
<1> DEFINE C == {k \in 0 .. m : ~(low * k <= h[1 .. k] /\ h[1 .. k] <= high * k)}
<1>6. C = {}
  <2>1. SUFFICES ASSUME C # {}
                 PROVE  FALSE
    OBVIOUS
  <2>2. PICK k \in C : \A l \in C : k <= l
    <3>1. C \in SUBSET Nat
      OBVIOUS
    <3>2. QED
      BY <2>1, <3>1, NatLeast
  <2>3. k \in 0 .. m /\ ~(low * k <= h[1 .. k] /\ h[1 .. k] <= high * k)
    OBVIOUS
  <2>4. CASE k = 0
    <3>1. h[1 .. 0] = 0
      <4>1. 1 .. 0 = {}
        OBVIOUS
      <4>2. QED
        BY <1>4, <4>1 DEF IsSum
    <3>2. QED
      BY <2>3, <2>4, <3>1
  <2>5. CASE k # 0
    <3>1. k \in 1 .. m /\ k - 1 \in 0 .. m /\ ~(k <= k - 1)
      BY <1>1, <2>3, <2>5
    <3>2. k - 1 \notin C
      BY <2>2, <3>1
    <3>3. low * (k - 1) <= h[1 .. (k - 1)] /\ h[1 .. (k - 1)] <= high * (k - 1)
      BY <3>1, <3>2
    <3>4. h[1 .. k] = v[k] + h[1 .. (k - 1)] /\ h[1 .. (k - 1)] \in Int
      <4>1. /\ h[1 .. k] = v[k] + h[1 .. (k - 1)] /\ h[1 .. (k - 1)] \in Int
            /\ h[1 .. k] \in Int
        BY <1>1, <1>4, <3>1, PrefixStep, Zenon
      <4>2. QED
        BY <4>1
    <3>5. low * k = low * (k - 1) + low /\ high * k = high * (k - 1) + high
      BY <3>1
    <3>6. low <= v[k] /\ v[k] <= high /\ v[k] \in Int
      BY <1>2, <3>1
    <3>7. low * (k - 1) \in Int /\ high * (k - 1) \in Int /\ k \in Int
      BY <3>1
    <3> HIDE DEF C
    <3>8. low * k <= h[1 .. k] /\ h[1 .. k] <= high * k
      BY <3>3, <3>4, <3>5, <3>6, <3>7
    <3>9. QED
      BY <2>3, <3>8
  <2>6. QED
    BY <2>4, <2>5
<1>7. m \in 0 .. m /\ m \notin C
  BY <1>1, <1>6
<1>8. QED
  BY <1>5, <1>7 DEF m

-------------------------------------------------------------------------------
(* The cheapest window.                                                    *)

\* A block ends at the first slot that completes the duration, or at the last of all.
LEMMA BlockIs ==
  ASSUME NEW slots, NEW m \in Nat, m = Len(slots), NEW i \in 1 .. m, NEW duration
  PROVE  \E e \in i .. m :
           /\ Block(slots, i, duration) = SubSeq(slots, i, e)
           /\ e = m \/ slots[e].till - slots[i].from >= duration
           /\ \A j \in i .. m : slots[j].till - slots[i].from >= duration => e <= j
<1> DEFINE ends == {j \in i .. m : slots[j].till - slots[i].from >= duration}
           e == IF ends = {} THEN m ELSE Min(ends)
<1>1. Block(slots, i, duration) = SubSeq(slots, i, e)
  BY DEF Block
<1>2. CASE ends = {}
  <2>1. e = m /\ m \in i .. m /\ \A j \in i .. m : j \notin ends
    BY <1>2
  <2>2. QED
    BY <1>1, <2>1
<1>3. CASE ends # {}
  <2>1. ends \in SUBSET Nat
    OBVIOUS
  <2> HIDE DEF ends
  <2>2. Min(ends) \in ends /\ \A j \in ends : Min(ends) <= j
    BY <1>3, <2>1, LeastOf
  <2>3. e = Min(ends)
    BY <1>3
  <2> HIDE DEF e
  <2>4. QED
    BY <1>1, <2>2, <2>3 DEF ends
<1>4. QED
  BY <1>2, <1>3

\* The slots p to q have just reached the duration as they end.
Completes(list, from, deadline, duration, p, q) ==
  /\ p <= q
  /\ list[p].till > from
  /\ list[q].till <= deadline
  /\ list[q].till - list[p].from >= duration
  /\ q > p => list[q - 1].till - list[p].from < duration

\* Of any finite choice of blocks one is the cheapest on average.
LEMMA OneIsCheapest ==
  ASSUME NEW S \in SUBSET Nat, IsFiniteSet(S), S # {}, NEW blocks,
         \A i \in S : SumPrices(blocks[i]) \in Int /\ Len(blocks[i]) \in Nat \ {0}
  PROVE  \E i \in S : \A k \in S : ~CheaperOnAverage(blocks[k], blocks[i])
<1> DEFINE sum(i) == SumPrices(blocks[i])
           len(i) == Len(blocks[i])
           R == {r \in S \X S : sum(r[1]) * len(r[2]) <= sum(r[2]) * len(r[1])}
<1>1. \A i \in S : sum(i) \in Int /\ len(i) \in Nat \ {0}
  OBVIOUS
<1>2. \A i, k \in S : CheaperOnAverage(blocks[k], blocks[i]) <=> sum(k) * len(i) < sum(i) * len(k)
  BY DEF CheaperOnAverage
<1> HIDE DEF sum, len
<1>3. \A x, y \in S : <<x, y>> \in R <=> sum(x) * len(y) <= sum(y) * len(x)
  OBVIOUS
<1> HIDE DEF R
<1>4. \A x, y \in S : sum(x) * len(y) \in Int /\ sum(y) * len(x) \in Int
  BY <1>1
<1>5. \A x, y \in S : <<x, y>> \in R \/ <<y, x>> \in R
  <2> SUFFICES ASSUME NEW x \in S, NEW y \in S
               PROVE  <<x, y>> \in R \/ <<y, x>> \in R
    OBVIOUS
  <2> DEFINE u == sum(x) * len(y)
             v == sum(y) * len(x)
  <2>1. u \in Int /\ v \in Int
    BY <1>4
  <2>2. (<<x, y>> \in R <=> u <= v) /\ (<<y, x>> \in R <=> v <= u)
    BY <1>3
  <2> HIDE DEF u, v
  <2>3. u <= v \/ v <= u
    BY <2>1
  <2>4. QED
    BY <2>2, <2>3
<1>6. \A x, y, z \in S : <<x, y>> \in R /\ <<y, z>> \in R => <<x, z>> \in R
  <2> SUFFICES ASSUME NEW x \in S, NEW y \in S, NEW z \in S, <<x, y>> \in R, <<y, z>> \in R
               PROVE  <<x, z>> \in R
    OBVIOUS
  <2>1. /\ sum(x) \in Int /\ sum(y) \in Int /\ sum(z) \in Int
        /\ len(x) \in Nat \ {0} /\ len(y) \in Nat \ {0} /\ len(z) \in Nat \ {0}
    BY <1>1
  <2>2. sum(x) * len(y) <= sum(y) * len(x) /\ sum(y) * len(z) <= sum(z) * len(y)
    BY <1>3
  <2>3. sum(x) * len(z) <= sum(z) * len(x)
    BY <2>1, <2>2, FractionsInOrder
  <2>4. QED
    BY <1>3, <2>3
<1>7. PICK i \in S : \A k \in S : <<i, k>> \in R
  BY <1>5, <1>6, LeastElement
<1>8. ASSUME NEW k \in S
      PROVE  ~CheaperOnAverage(blocks[k], blocks[i])
  <2> DEFINE u == sum(i) * len(k)
             v == sum(k) * len(i)
  <2>1. u \in Int /\ v \in Int
    BY <1>4
  <2>2. u <= v
    BY <1>3, <1>7
  <2>3. CheaperOnAverage(blocks[k], blocks[i]) <=> v < u
    BY <1>2
  <2> HIDE DEF u, v
  <2>4. QED
    BY <2>1, <2>2, <2>3
<1>9. QED
  BY <1>8

LEMMA CheapestFound ==
  ASSUME NEW list, Listed(list), NEW duration \in Int, NEW from \in Int, NEW deadline \in Int
  PROVE  /\ FindCheapestWindow(list, duration, from, deadline) # << >> =>
              \E p, q \in 1 .. Len(list) :
                 /\ p <= q /\ list[p].till > from /\ list[q].till <= deadline
                 /\ FindCheapestWindow(list, duration, from, deadline) = SubSeq(list, p, q)
         /\ \A p, q \in 1 .. Len(list) :
              Completes(list, from, deadline, duration, p, q) =>
                /\ FindCheapestWindow(list, duration, from, deadline) # << >>
                /\ ~CheaperOnAverage(SubSeq(list, p, q),
                                     FindCheapestWindow(list, duration, from, deadline))
<1> DEFINE n == Len(list)
           candidates == SlotsInRange(list, from, deadline)
           blocks == [i \in DOMAIN candidates |-> Block(candidates, i, duration)]
           fits == {i \in DOMAIN blocks : Last(blocks[i]).till <= deadline}
           best == {i \in fits : \A k \in fits : ~CheaperOnAverage(blocks[k], blocks[i])}
           found == FindCheapestWindow(list, duration, from, deadline)
<1>1. found = IF fits = {} THEN << >> ELSE blocks[Min(best)]
  BY DEF FindCheapestWindow
<1>2. /\ list \in Seq(AnySlot) /\ n \in Nat /\ SlotLength \in Nat \ {0}
      /\ \A i \in 1 .. n : /\ list[i].from = (i - 1) * SlotLength
                            /\ list[i].till = i * SlotLength
                            /\ list[i].from \in Int /\ list[i].till \in Int
  <2>1. list \in Seq(AnySlot)
    BY DEF Listed
  <2>2. QED
    BY <2>1, SlotsAssumption, SlotTypes DEF Listed
<1>3. PICK a \in 1 .. n + 1, b \in 0 .. n :
           /\ a <= b + 1
           /\ candidates = SubSeq(list, a, b)
           /\ \A i \in 1 .. n : i \in a .. b <=> list[i].till > from /\ list[i].from < deadline
  BY RangeIsAdjacent
<1> DEFINE m == b - a + 1
<1>4. /\ candidates \in Seq(AnySlot) /\ m = Len(candidates) /\ m \in Nat
      /\ DOMAIN candidates = 1 .. m
      /\ \A k \in 1 .. m : candidates[k] = list[a + k - 1]
  <2>1. candidates \in Seq(AnySlot) /\ m = Len(candidates)
        /\ \A k \in 1 .. m : candidates[k] = list[a + k - 1]
    BY <1>2, <1>3, SubSeqFacts
  <2>2. QED
    BY <2>1
<1>5. DOMAIN blocks = 1 .. m /\ \A i \in 1 .. m : blocks[i] = Block(candidates, i, duration)
  BY <1>4
<1> HIDE DEF found, blocks
<1>6. \A i \in 1 .. m : \E e \in i .. m :
           /\ blocks[i] = SubSeq(list, a + i - 1, a + e - 1)
           /\ \A j \in i .. m : list[a + j - 1].till - list[a + i - 1].from >= duration => e <= j
           /\ e = m \/ list[a + e - 1].till - list[a + i - 1].from >= duration
  <2> SUFFICES ASSUME NEW i \in 1 .. m
               PROVE  \E e \in i .. m :
                        /\ blocks[i] = SubSeq(list, a + i - 1, a + e - 1)
                        /\ \A j \in i .. m :
                             list[a + j - 1].till - list[a + i - 1].from >= duration => e <= j
                        /\ e = m \/ list[a + e - 1].till - list[a + i - 1].from >= duration
    OBVIOUS
  <2> HIDE DEF candidates, m
  <2>1. PICK e \in i .. m :
           /\ Block(candidates, i, duration) = SubSeq(candidates, i, e)
           /\ e = m \/ candidates[e].till - candidates[i].from >= duration
           /\ \A j \in i .. m : candidates[j].till - candidates[i].from >= duration => e <= j
    BY <1>4, BlockIs
  <2>2. SubSeq(candidates, i, e) = SubSeq(list, a + i - 1, a + e - 1)
    BY <1>2, <1>3, PartOfPart DEF m
  <2>3. \A j \in i .. m : candidates[j] = list[a + j - 1]
    BY <1>4
  <2>4. candidates[e] = list[a + e - 1] /\ candidates[i] = list[a + i - 1]
    BY <1>4, <2>3
  <2>5. QED
    BY <1>5, <2>1, <2>2, <2>3, <2>4
<1> HIDE DEF candidates
<1>7. \A p, q \in 1 .. n : p <= q =>
           /\ SumPrices(SubSeq(list, p, q)) \in Int
           /\ Len(SubSeq(list, p, q)) \in Nat \ {0}
           /\ Last(SubSeq(list, p, q)) = list[q]
           /\ SubSeq(list, p, q) # << >>
  <2> SUFFICES ASSUME NEW p \in 1 .. n, NEW q \in 1 .. n, p <= q
               PROVE  /\ SumPrices(SubSeq(list, p, q)) \in Int
                      /\ Len(SubSeq(list, p, q)) \in Nat \ {0}
                      /\ Last(SubSeq(list, p, q)) = list[q]
                      /\ SubSeq(list, p, q) # << >>
    OBVIOUS
  <2> DEFINE s == SubSeq(list, p, q)
  <2>1. s \in Seq(AnySlot) /\ Len(s) = q - p + 1
        /\ \A k \in 1 .. q - p + 1 : s[k] = list[p + k - 1]
    <3>1. p \in 1 .. n + 1 /\ q \in 0 .. n /\ p <= q + 1
      BY <1>2
    <3>2. QED
      BY <1>2, <3>1, SubSeqFacts
  <2> HIDE DEF s
  <2>2. SumPrices(s) \in Int
    BY <2>1, SumIsInt
  <2>3. Len(s) \in Nat \ {0} /\ s # << >>
    BY <2>1
  <2>4. q - p + 1 \in 1 .. q - p + 1 /\ p + (q - p + 1) - 1 = q
    OBVIOUS
  <2>5. Last(s) = list[q]
    BY <2>1, <2>4 DEF Last
  <2>6. QED
    BY <2>2, <2>3, <2>5 DEF s
<1>8. \A i \in 1 .. m, e \in 1 .. m : a + i - 1 \in a .. b /\ a + i - 1 \in 1 .. n
  OBVIOUS
<1>9. \A i \in fits : SumPrices(blocks[i]) \in Int /\ Len(blocks[i]) \in Nat \ {0}
  <2> SUFFICES ASSUME NEW i \in fits
               PROVE  SumPrices(blocks[i]) \in Int /\ Len(blocks[i]) \in Nat \ {0}
    OBVIOUS
  <2>1. i \in 1 .. m
    BY <1>5
  <2>2. PICK e \in i .. m : blocks[i] = SubSeq(list, a + i - 1, a + e - 1)
    BY <1>6, <2>1
  <2>3. a + i - 1 \in 1 .. n /\ a + e - 1 \in 1 .. n /\ a + i - 1 <= a + e - 1
    BY <2>1, <2>2
  <2>4. QED
    BY <1>7, <2>2, <2>3
<1>10. fits \in SUBSET Nat /\ IsFiniteSet(fits)
  <2>1. fits \in SUBSET (1 .. m) /\ 1 \in Int /\ m \in Int
    BY <1>4, <1>5
  <2> HIDE DEF fits, m
  <2>2. IsFiniteSet(1 .. m)
    BY <2>1, FS_Interval
  <2>3. IsFiniteSet(fits)
    BY <2>1, <2>2, FS_Subset
  <2>4. fits \in SUBSET Nat
    BY <2>1
  <2>5. QED
    BY <2>3, <2>4
<1>11. ASSUME fits # {}
       PROVE  Min(best) \in fits /\ \A k \in fits : ~CheaperOnAverage(blocks[k], blocks[Min(best)])
  <2> HIDE DEF fits
  <2>1. PICK i \in fits : \A k \in fits : ~CheaperOnAverage(blocks[k], blocks[i])
    BY <1>9, <1>10, <1>11, OneIsCheapest
  <2>2. best # {} /\ best \in SUBSET Nat
    BY <1>10, <2>1
  <2> DEFINE least == best
  <2> HIDE DEF least
  <2>3. Min(least) \in least
    BY <2>2, LeastOf DEF least
  <2>4. QED
    BY <2>3 DEF least
<1> HIDE DEF best
<1>12. ASSUME found # << >>
       PROVE  \E p, q \in 1 .. n :
                 /\ p <= q /\ list[p].till > from /\ list[q].till <= deadline
                 /\ found = SubSeq(list, p, q)
  <2>1. fits # {} /\ found = blocks[Min(best)]
    BY <1>1, <1>12
  <2>2. PICK i \in 1 .. m : found = blocks[i] /\ Last(blocks[i]).till <= deadline
    BY <1>5, <1>11, <2>1
  <2>3. PICK e \in i .. m : blocks[i] = SubSeq(list, a + i - 1, a + e - 1)
    BY <1>6
  <2> DEFINE p == a + i - 1
             q == a + e - 1
  <2>4. p \in 1 .. n /\ q \in 1 .. n /\ p <= q /\ p \in a .. b
    BY <2>3
  <2>5. list[p].till > from
    BY <1>3, <2>4
  <2>6. list[q].till <= deadline
    BY <1>7, <2>2, <2>3, <2>4
  <2>7. QED
    BY <2>2, <2>3, <2>4, <2>5, <2>6
<1>13. ASSUME NEW p \in 1 .. n, NEW q \in 1 .. n, Completes(list, from, deadline, duration, p, q)
       PROVE  /\ found # << >>
              /\ ~CheaperOnAverage(SubSeq(list, p, q), found)
  <2>1. /\ p <= q /\ list[p].till > from /\ list[q].till <= deadline
        /\ list[q].till - list[p].from >= duration
        /\ q > p => list[q - 1].till - list[p].from < duration
    BY <1>13 DEF Completes
  <2>2. \A i, j \in 1 .. n : i <= j => list[i].till <= list[j].till /\ list[i].from < list[j].till
    <3> SUFFICES ASSUME NEW i \in 1 .. n, NEW j \in 1 .. n, i <= j
                 PROVE  list[i].till <= list[j].till /\ list[i].from < list[j].till
      OBVIOUS
    <3>1. i \in Int /\ j \in Int /\ i - 1 \in Int /\ i - 1 < j
      OBVIOUS
    <3>2. i * SlotLength <= j * SlotLength /\ (i - 1) * SlotLength < j * SlotLength
      BY <1>2, <3>1, Products, Zenon
    <3>3. QED
      BY <1>2, <3>2
  <2>3. p \in a .. b /\ q \in a .. b
    <3>1. /\ list[p].from < list[q].till /\ list[p].till <= list[q].till
          /\ list[q].from < list[q].till
      BY <2>1, <2>2
    <3>0. /\ list[p].from \in Int /\ list[q].from \in Int
          /\ list[p].till \in Int /\ list[q].till \in Int
          /\ list[p].till > from /\ list[q].till <= deadline
      BY <1>2, <2>1
    <3>2. list[p].from < deadline /\ list[q].from < deadline /\ list[q].till > from
      BY <3>0, <3>1
    <3>3. QED
      BY <1>3, <2>1, <3>2
  <2> DEFINE i == p - a + 1
             k == q - a + 1
  <2>4. i \in 1 .. m /\ k \in i .. m /\ a + i - 1 = p /\ a + k - 1 = q
    BY <2>1, <2>3
  <2>5. PICK e \in i .. m :
           /\ blocks[i] = SubSeq(list, a + i - 1, a + e - 1)
           /\ \A j \in i .. m : list[a + j - 1].till - list[a + i - 1].from >= duration => e <= j
           /\ e = m \/ list[a + e - 1].till - list[a + i - 1].from >= duration
    BY <1>6, <2>4
  <2>6. e <= k
    BY <2>1, <2>4, <2>5
  <2>7. ~(e < k)
    <3> SUFFICES ASSUME e < k
                 PROVE  FALSE
      OBVIOUS
    <3> DEFINE r == a + e - 1
    <3>1. r \in 1 .. n /\ q - 1 \in 1 .. n /\ r <= q - 1 /\ q > p /\ e # m
      BY <2>4, <2>5
    <3>2. list[r].till <= list[q - 1].till
      BY <2>2, <3>1
    <3>3. list[r].till - list[p].from >= duration
      BY <2>4, <2>5, <3>1
    <3>4. list[q - 1].till - list[p].from < duration
      BY <2>1, <3>1
    <3>5. /\ list[r].till \in Int /\ list[q - 1].till \in Int /\ list[p].from \in Int
          /\ duration \in Int
      BY <1>2, <3>1
    <3> DEFINE u == list[r].till
               v == list[q - 1].till
               w == list[p].from
    <3>6. /\ u <= v /\ u - w >= duration /\ v - w < duration
          /\ u \in Int /\ v \in Int /\ w \in Int /\ duration \in Int
      BY <3>2, <3>3, <3>4, <3>5
    <3> HIDE DEF u, v, w
    <3>7. QED
      BY <3>6
  <2>8. e = k
    BY <2>4, <2>5, <2>6, <2>7
  <2>9. blocks[i] = SubSeq(list, p, q)
    BY <2>4, <2>5, <2>8
  <2>10. Last(blocks[i]) = list[q]
    BY <1>7, <2>1, <2>9
  <2>11. i \in fits
    BY <1>5, <2>1, <2>4, <2>10
  <2>12. Min(best) \in fits /\ ~CheaperOnAverage(blocks[i], blocks[Min(best)])
    BY <1>11, <2>11
  <2>13. found = blocks[Min(best)]
    BY <1>1, <2>11
  <2> DEFINE k0 == Min(best)
  <2>14. k0 \in 1 .. m
    BY <1>5, <2>12
  <2>15. PICK d \in k0 .. m : blocks[k0] = SubSeq(list, a + k0 - 1, a + d - 1)
    BY <1>6, <2>14
  <2> HIDE DEF k0
  <2>16. a + k0 - 1 \in 1 .. n /\ a + d - 1 \in 1 .. n /\ a + k0 - 1 <= a + d - 1
    BY <2>14, <2>15
  <2>17. blocks[k0] # << >>
    BY <1>7, <2>15, <2>16
  <2>18. QED
    BY <2>9, <2>12, <2>13, <2>17 DEF k0
<1>14. QED
  BY <1>12, <1>13 DEF found

LEMMA CheapestOfDay ==
  ASSUME NEW day, Listed(day), now \in Int, NEW duration \in Int, NEW within \in Int,
         duration <= within
  PROVE  NamesCheapest(day, duration, within)
<1> DEFINE n == Len(day)
           idx == NewPriceIndex(day)
           deadline == now + within
           found == FindCheapestWindow(day, duration, now, deadline)
           answer == CheapestWindow(idx, now, duration, within)
           fitting == Fitting(day, duration, deadline)
<1>1. /\ day \in Seq(AnySlot) /\ n \in Nat /\ deadline \in Int /\ idx.slots = day
  BY IndexKeepsSlots DEF Listed
<1>2. answer = IF found = << >> THEN {}
               ELSE {[from |-> found[1].from, till |-> Last(found).till,
                      average |-> Average(found), level |-> Level(idx, found[1])]}
  BY <1>1 DEF CheapestWindow
<1>3. /\ found # << >> =>
           \E p, q \in 1 .. n :
              p <= q /\ day[p].till > now /\ day[q].till <= deadline /\ found = SubSeq(day, p, q)
      /\ \A p, q \in 1 .. n : Completes(day, now, deadline, duration, p, q) =>
           found # << >> /\ ~CheaperOnAverage(SubSeq(day, p, q), found)
  <2> HIDE DEF deadline
  <2>1. QED
    BY <1>1, CheapestFound
<1>4. NamesCheapest(day, duration, within) <=>
        /\ \A a \in answer :
             \E b \in Blocks(day) :
                /\ Open(b, deadline) /\ b[1].from = a.from /\ Last(b).till = a.till
                /\ a.average = [sum |-> SumPrices(b), count |-> Len(b)]
                /\ \A f \in fitting : ~CheaperOnAverage(f, b)
        /\ fitting # {} => answer # {}
  BY DEF NamesCheapest
<1>5. ASSUME NEW f \in fitting
      PROVE  found # << >> /\ ~CheaperOnAverage(f, found)
  <2>1. f \in Blocks(day) /\ Open(f, deadline) /\ Span(f) >= duration
        /\ (Len(f) > 1 => Span(Front(f)) < duration)
    BY DEF Fitting
  <2>2. PICK p \in 1 .. n, q \in 1 .. n : p <= q /\ f = SubSeq(day, p, q)
    BY <1>1, <2>1, BlocksAre
  <2>3. Len(f) = q - p + 1 /\ f[1] = day[p] /\ Last(f) = day[q]
    BY <2>2, BlockFacts DEF IsBlock
  <2>4. ASSUME q > p
        PROVE  day[q - 1].till - day[p].from < duration
    <3>1. q - 1 \in 1 .. n /\ p <= q - 1 /\ Len(f) > 1
      BY <2>2, <2>3, <2>4
    <3>2. Front(f) = SubSeq(day, p, q - 1)
      <4>1. Front(f) = SubSeq(SubSeq(day, p, q), 1, q - p)
        <5>1. Len(f) - 1 = q - p
          BY <2>2, <2>3
        <5>2. QED
          BY <2>2, <5>1 DEF Front
      <4>2. /\ p \in 1 .. Len(day) + 1 /\ q \in 0 .. Len(day) /\ p <= q + 1
            /\ 1 \in 1 .. q - p + 1 /\ q - p \in 1 .. q - p + 1
        BY <1>1, <2>2, <2>4
      <4>3. SubSeq(SubSeq(day, p, q), 1, q - p) = SubSeq(day, p + 1 - 1, p + (q - p) - 1)
        BY <1>1, <4>2, PartOfPart
      <4>4. p + 1 - 1 = p /\ p + (q - p) - 1 = q - 1
        BY <2>2
      <4>5. QED
        BY <4>1, <4>3, <4>4
    <3>3. Front(f)[1] = day[p] /\ Last(Front(f)) = day[q - 1]
      BY <3>1, <3>2, BlockFacts DEF IsBlock
    <3>4. QED
      BY <2>1, <3>1, <3>3 DEF Span
  <2>5. Completes(day, now, deadline, duration, p, q)
    BY <2>1, <2>2, <2>3, <2>4 DEF Completes, Open, Span
  <2>6. QED
    BY <1>3, <2>2, <2>5
<1>6. ASSUME NEW a \in answer
      PROVE  \E b \in Blocks(day) :
                /\ Open(b, deadline) /\ b[1].from = a.from /\ Last(b).till = a.till
                /\ a.average = [sum |-> SumPrices(b), count |-> Len(b)]
                /\ \A f \in fitting : ~CheaperOnAverage(f, b)
  <2>1. found # << >>
    BY <1>2, <1>6
  <2>2. PICK p \in 1 .. n, q \in 1 .. n :
           p <= q /\ day[p].till > now /\ day[q].till <= deadline /\ found = SubSeq(day, p, q)
    BY <1>3, <2>1
  <2> DEFINE b == SubSeq(day, p, q)
  <2>0. b \in Blocks(day) /\ b[1] = day[p] /\ Last(b) = day[q] /\ found = b
    BY <2>2, BlockFacts DEF IsBlock
  <2> HIDE DEF b, found
  <2>3. found \in Blocks(day) /\ found[1] = day[p] /\ Last(found) = day[q]
    BY <2>0
  <2>4. Open(found, deadline)
    BY <2>2, <2>3 DEF Open
  <2>5. a.from = found[1].from /\ a.till = Last(found).till /\ a.average = Average(found)
    BY <1>2, <1>6, <2>1
  <2> HIDE DEF found, fitting
  <2>6. QED
    BY <1>5, <2>3, <2>4, <2>5 DEF Average
<1>7. fitting # {} => answer # {}
  BY <1>2, <1>5
<1>8. QED
  BY <1>4, <1>6, <1>7

-------------------------------------------------------------------------------
(* The windows of a summary.                                               *)

Tag(idx, slot) == <<Level(idx, slot), slot.price < 0>>

\* The slots p to q of a day are all of those from a to b around them with the same tag.
Whole(day, idx, a, b, p, q) ==
  /\ p \in a .. b /\ q \in a .. b /\ p <= q
  /\ \A i \in p .. q : Tag(idx, day[i]) = Tag(idx, day[p])
  /\ p > a => Tag(idx, day[p - 1]) # Tag(idx, day[p])
  /\ q < b => Tag(idx, day[q + 1]) # Tag(idx, day[p])

WindowOf(day, p, q) == [from |-> day[p].from, till |-> day[q].till]

StretchesOf(idx, candidates) ==
  Stretches(candidates, LAMBDA slot : <<Level(idx, slot), slot.price < 0>>)

\* The stretches of the slots a to b are the whole ones.
StretchesMatch(day, idx, a, b) ==
  LET c == SubSeq(day, a, b)
  IN /\ \A s \in StretchesOf(idx, c) :
          /\ Whole(day, idx, a, b, a + s[1] - 1, a + s[2] - 1)
          /\ c[s[1]] = day[a + s[1] - 1]
          /\ c[s[2]] = day[a + s[2] - 1]
     /\ \A p, q \in a .. b : Whole(day, idx, a, b, p, q) =>
          \E s \in StretchesOf(idx, c) : c[s[1]] = day[p] /\ c[s[2]] = day[q]

LEMMA StretchesAreWhole ==
  ASSUME NEW day \in Seq(AnySlot), NEW idx,
         NEW a \in 1 .. Len(day) + 1, NEW b \in 0 .. Len(day), a <= b + 1
  PROVE  StretchesMatch(day, idx, a, b)
<1> DEFINE c == SubSeq(day, a, b)
           m == b - a + 1
           G(k) == Tag(idx, c[k])
           D(i) == Tag(idx, day[i])
<1>1. /\ c \in Seq(AnySlot) /\ m \in Nat /\ Len(c) = m /\ DOMAIN c = 1 .. m
      /\ \A k \in 1 .. m : c[k] = day[a + k - 1]
  <2>1. c \in Seq(AnySlot) /\ Len(c) = m /\ \A k \in 1 .. m : c[k] = day[a + k - 1]
    BY SubSeqFacts
  <2> HIDE DEF c
  <2>2. QED
    BY <2>1
<1> HIDE DEF c
<1>2. StretchesOf(idx, c) =
        {s \in (1 .. m) \X (1 .. m) :
           /\ s[1] <= s[2]
           /\ \A i \in s[1] .. s[2] : G(i) = G(s[1])
           /\ s[1] > 1 => ~(G(s[1] - 1) = G(s[1]))
           /\ s[2] < m => ~(G(s[2] + 1) = G(s[1]))}
  BY <1>1 DEF StretchesOf, Stretches, Tag
<1>3. \A k \in 1 .. m : G(k) = D(a + k - 1)
  BY <1>1
<1>4. \A p, q : Whole(day, idx, a, b, p, q) <=>
           /\ p \in a .. b /\ q \in a .. b /\ p <= q
           /\ \A i \in p .. q : D(i) = D(p)
           /\ p > a => D(p - 1) # D(p)
           /\ q < b => D(q + 1) # D(p)
  BY DEF Whole
<1> HIDE DEF G, D
<1>5. ASSUME NEW s \in StretchesOf(idx, c)
      PROVE  /\ Whole(day, idx, a, b, a + s[1] - 1, a + s[2] - 1)
             /\ c[s[1]] = day[a + s[1] - 1] /\ c[s[2]] = day[a + s[2] - 1]
  <2> DEFINE u == s[1]
             v == s[2]
             p == a + u - 1
             q == a + v - 1
  <2>1. /\ u \in 1 .. m /\ v \in 1 .. m /\ u <= v
        /\ \A i \in u .. v : G(i) = G(u)
        /\ u > 1 => ~(G(u - 1) = G(u))
        /\ v < m => ~(G(v + 1) = G(u))
    BY <1>2
  <2> HIDE DEF u, v
  <2>2. p \in a .. b /\ q \in a .. b /\ p <= q
    BY <2>1
  <2>3. G(u) = D(p)
    BY <1>3, <2>1
  <2>4. ASSUME NEW i \in p .. q
        PROVE  D(i) = D(p)
    <3>1. i - a + 1 \in u .. v /\ i - a + 1 \in 1 .. m /\ a + (i - a + 1) - 1 = i
      BY <2>1, <2>2
    <3>2. G(i - a + 1) = D(i)
      BY <1>3, <3>1
    <3>3. QED
      BY <2>1, <2>3, <3>1, <3>2
  <2>5. ASSUME p > a
        PROVE  D(p - 1) # D(p)
    <3>1. u > 1 /\ u - 1 \in 1 .. m /\ a + (u - 1) - 1 = p - 1
      BY <2>1, <2>5
    <3>2. G(u - 1) = D(p - 1)
      BY <1>3, <3>1
    <3>3. QED
      BY <2>1, <2>3, <3>1, <3>2
  <2>6. ASSUME q < b
        PROVE  D(q + 1) # D(p)
    <3>1. v < m /\ v + 1 \in 1 .. m /\ a + (v + 1) - 1 = q + 1
      BY <2>1, <2>6
    <3>2. G(v + 1) = D(q + 1)
      BY <1>3, <3>1
    <3>3. QED
      BY <2>1, <2>3, <3>1, <3>2
  <2>7. Whole(day, idx, a, b, p, q)
    BY <1>4, <2>2, <2>4, <2>5, <2>6
  <2>8. c[u] = day[p] /\ c[v] = day[q]
    BY <1>1, <2>1
  <2>9. QED
    BY <2>7, <2>8 DEF u, v
<1>6. ASSUME NEW p \in a .. b, NEW q \in a .. b, Whole(day, idx, a, b, p, q)
      PROVE  \E s \in StretchesOf(idx, c) : c[s[1]] = day[p] /\ c[s[2]] = day[q]
  <2> DEFINE u == p - a + 1
             v == q - a + 1
  <2>1. /\ p <= q
        /\ \A i \in p .. q : D(i) = D(p)
        /\ p > a => D(p - 1) # D(p)
        /\ q < b => D(q + 1) # D(p)
    BY <1>4, <1>6
  <2>2. u \in 1 .. m /\ v \in 1 .. m /\ u <= v /\ a + u - 1 = p /\ a + v - 1 = q
    BY <2>1
  <2>3. G(u) = D(p)
    BY <1>3, <2>2
  <2> HIDE DEF m
  <2>4. ASSUME NEW i \in u .. v
        PROVE  G(i) = G(u)
    <3>1. i \in 1 .. m /\ a + i - 1 \in p .. q
      BY <2>2 DEF m
    <3>2. G(i) = D(a + i - 1)
      BY <1>3, <3>1
    <3>3. QED
      BY <2>1, <2>3, <3>1, <3>2
  <2>5. ASSUME u > 1
        PROVE  ~(G(u - 1) = G(u))
    <3>1. p > a /\ u - 1 \in 1 .. m /\ a + (u - 1) - 1 = p - 1
      BY <2>2, <2>5 DEF m
    <3>2. G(u - 1) = D(p - 1)
      BY <1>3, <3>1
    <3>3. QED
      BY <2>1, <2>3, <3>1, <3>2
  <2>6. ASSUME v < m
        PROVE  ~(G(v + 1) = G(u))
    <3>1. q < b /\ v + 1 \in 1 .. m /\ a + (v + 1) - 1 = q + 1
      BY <2>2, <2>6 DEF m
    <3>2. G(v + 1) = D(q + 1)
      BY <1>3, <3>1
    <3>3. QED
      BY <2>1, <2>3, <3>1, <3>2
  <2>7. c[u] = day[p] /\ c[v] = day[q]
    BY <1>1, <2>2
  <2> HIDE DEF u, v
  <2>8. <<u, v>> \in StretchesOf(idx, c)
    BY <1>2, <2>2, <2>4, <2>5, <2>6
  <2>9. <<u, v>>[1] = u /\ <<u, v>>[2] = v
    OBVIOUS
  <2>10. QED
    BY <2>7, <2>8, <2>9
<1>7. QED
  BY <1>5, <1>6 DEF c, StretchesMatch

InOneWhole(day, idx, a, b, i) ==
  /\ \E p, q \in a .. b : Whole(day, idx, a, b, p, q) /\ i \in p .. q
  /\ \A p, q, r, t \in a .. b :
       /\ Whole(day, idx, a, b, p, q) /\ i \in p .. q
       /\ Whole(day, idx, a, b, r, t) /\ i \in r .. t
       => p = r /\ q = t

\* A slot lies in exactly one stretch.
LEMMA OneWhole ==
  ASSUME NEW day \in Seq(AnySlot), NEW idx,
         NEW a \in 1 .. Len(day) + 1, NEW b \in 0 .. Len(day), NEW i \in a .. b
  PROVE  InOneWhole(day, idx, a, b, i)
<1> DEFINE n == Len(day)
           D(j) == Tag(idx, day[j])
           X == {k \in a .. b : D(k) = D(i)}
<1>1. \A p, q : Whole(day, idx, a, b, p, q) <=>
           /\ p \in a .. b /\ q \in a .. b /\ p <= q
           /\ \A j \in p .. q : D(j) = D(p)
           /\ p > a => D(p - 1) # D(p)
           /\ q < b => D(q + 1) # D(p)
  BY DEF Whole
<1> HIDE DEF D
<1>2. \E p, q \in a .. b : Whole(day, idx, a, b, p, q) /\ i \in p .. q
  <2>1. n \in Nat /\ i \in 1 .. n /\ X \in SUBSET (1 .. n) /\ i .. i \subseteq X /\ i <= i
    OBVIOUS
  <2>2. PICK u \in 1 .. i, v \in i .. n :
           /\ u .. v \subseteq X
           /\ u > 1 => u - 1 \notin X
           /\ v < n => v + 1 \notin X
    <3> HIDE DEF X, n
    <3>1. QED
      BY <2>1, LongestStretch
  <2>3. u \in u .. v /\ v \in u .. v /\ i \in u .. v /\ u <= v
    BY <2>1
  <2>4. u \in a .. b /\ v \in a .. b /\ D(u) = D(i) /\ \A j \in u .. v : D(j) = D(i)
    BY <2>2, <2>3
  <2>5. ASSUME u > a
        PROVE  D(u - 1) # D(u)
    <3>1. u > 1 /\ u - 1 \in a .. b
      BY <2>4, <2>5
    <3>2. QED
      BY <2>2, <2>4, <3>1
  <2>6. ASSUME v < b
        PROVE  D(v + 1) # D(u)
    <3>1. v < n /\ v + 1 \in a .. b
      BY <2>4, <2>6
    <3>2. QED
      BY <2>2, <2>4, <3>1
  <2>7. QED
    BY <1>1, <2>3, <2>4, <2>5, <2>6
\* Of two stretches that share a slot neither begins before the other, nor ends after it.
<1>3. ASSUME NEW p \in a .. b, NEW q \in a .. b, NEW r \in a .. b, NEW t \in a .. b,
             Whole(day, idx, a, b, p, q), i \in p .. q,
             Whole(day, idx, a, b, r, t), i \in r .. t
      PROVE  ~(p < r) /\ ~(q < t)
  <2>1. /\ \A j \in p .. q : D(j) = D(p)
        /\ \A j \in r .. t : D(j) = D(r)
        /\ r > a => D(r - 1) # D(r)
        /\ q < b => D(q + 1) # D(p)
    BY <1>1, <1>3
  <2>2. D(p) = D(i) /\ D(r) = D(i)
    BY <1>3, <2>1
  <2>3. ASSUME p < r
        PROVE  FALSE
    <3>1. r > a /\ r - 1 \in p .. q
      BY <1>3, <2>3
    <3>2. QED
      BY <2>1, <2>2, <3>1
  <2>4. ASSUME q < t
        PROVE  FALSE
    <3>1. q < b /\ q + 1 \in r .. t
      BY <1>3, <2>4
    <3>2. QED
      BY <2>1, <2>2, <3>1
  <2>5. QED
    BY <2>3, <2>4
<1>4. ASSUME NEW p \in a .. b, NEW q \in a .. b, NEW r \in a .. b, NEW t \in a .. b,
             Whole(day, idx, a, b, p, q), i \in p .. q,
             Whole(day, idx, a, b, r, t), i \in r .. t
      PROVE  p = r /\ q = t
  <2>1. ~(p < r) /\ ~(q < t) /\ ~(r < p) /\ ~(t < q)
    BY <1>3, <1>4
  <2>2. QED
    BY <2>1
<1>5. QED
  BY <1>2, <1>4 DEF InOneWhole

WindowsMatch(day, idx, from, deadline, a, b) ==
  /\ DOMAIN Summary(idx, from, deadline) = {"negative", "cheap", "expensive"}
  /\ \A kind \in {"negative", "cheap", "expensive"} : \A w :
       w \in Summary(idx, from, deadline)[kind] <=>
         \E p, q \in a .. b : /\ Whole(day, idx, a, b, p, q)
                             /\ Kind(idx, day[p]) = kind
                             /\ w = WindowOf(day, p, q)

\* The windows of a summary are the whole stretches of their kind.
LEMMA WindowsAre ==
  ASSUME NEW day \in Seq(AnySlot), NEW idx, idx.slots = day, NEW from, NEW deadline,
         NEW a \in 1 .. Len(day) + 1, NEW b \in 0 .. Len(day), a <= b + 1,
         SlotsInRange(day, from, deadline) = SubSeq(day, a, b)
  PROVE  WindowsMatch(day, idx, from, deadline, a, b)
<1> DEFINE c == SubSeq(day, a, b)
           Windows(P(_)) == {[from |-> c[s[1]].from, till |-> c[s[2]].till] :
                               s \in {r \in StretchesOf(idx, c) : P(c[r[1]])}}
<1>0. /\ \A s \in StretchesOf(idx, c) :
           /\ Whole(day, idx, a, b, a + s[1] - 1, a + s[2] - 1)
           /\ c[s[1]] = day[a + s[1] - 1]
           /\ c[s[2]] = day[a + s[2] - 1]
      /\ \A p, q \in a .. b : Whole(day, idx, a, b, p, q) =>
           \E s \in StretchesOf(idx, c) : c[s[1]] = day[p] /\ c[s[2]] = day[q]
  <2>1. StretchesMatch(day, idx, a, b)
    BY StretchesAreWhole
  <2>2. QED
    BY <2>1 DEF StretchesMatch
<1>1. Summary(idx, from, deadline) =
        [negative |-> Windows(LAMBDA slot : slot.price < 0),
         cheap |-> Windows(LAMBDA slot : slot.price >= 0 /\ Level(idx, slot) = "cheap"),
         expensive |-> Windows(LAMBDA slot : slot.price >= 0 /\ Level(idx, slot) = "expensive")]
  BY DEF Summary, StretchesOf
<1> DEFINE Of(kind) == {[from |-> c[s[1]].from, till |-> c[s[2]].till] :
                          s \in {r \in StretchesOf(idx, c) : Kind(idx, c[r[1]]) = kind}}
<1>2. \A s \in StretchesOf(idx, c) : c[s[1]].price \in Int
  <2> SUFFICES ASSUME NEW s \in StretchesOf(idx, c)
               PROVE  c[s[1]].price \in Int
    OBVIOUS
  <2> DEFINE p == a + s[1] - 1
  <2>1. c[s[1]] = day[p] /\ Whole(day, idx, a, b, p, a + s[2] - 1)
    BY <1>0
  <2> HIDE DEF p
  <2>2. p \in a .. b
    BY <2>1 DEF Whole
  <2>3. p \in 1 .. Len(day)
    BY <2>2
  <2>4. day[p].price \in Int
    BY <2>3, SlotTypes
  <2>5. QED
    BY <2>1, <2>4
<1> HIDE DEF c
<1>3. \A slot : /\ Level(idx, slot) \in {"unknown", "cheap", "average", "expensive"}
  BY DEF Level
<1>4. Summary(idx, from, deadline) =
        [negative |-> Of("negative"), cheap |-> Of("cheap"), expensive |-> Of("expensive")]
  <2>1. \A s \in StretchesOf(idx, c) :
          /\ c[s[1]].price < 0 <=> Kind(idx, c[s[1]]) = "negative"
          /\ c[s[1]].price >= 0 /\ Level(idx, c[s[1]]) = "cheap" <=> Kind(idx, c[s[1]]) = "cheap"
          /\ c[s[1]].price >= 0 /\ Level(idx, c[s[1]]) = "expensive"
               <=> Kind(idx, c[s[1]]) = "expensive"
    <3>1. \A slot : slot.price \in Int =>
            /\ slot.price < 0 <=> Kind(idx, slot) = "negative"
            /\ slot.price >= 0 /\ Level(idx, slot) = "cheap" <=> Kind(idx, slot) = "cheap"
            /\ slot.price >= 0 /\ Level(idx, slot) = "expensive" <=> Kind(idx, slot) = "expensive"
      BY <1>3 DEF Kind
    <3>2. QED
      BY <1>2, <3>1
  <2>2. QED
    BY <1>1, <2>1
<1>5. ASSUME NEW kind \in {"negative", "cheap", "expensive"}
      PROVE  Summary(idx, from, deadline)[kind] = Of(kind)
  BY <1>4
<1>6. ASSUME NEW kind, NEW w \in Of(kind)
      PROVE  \E p, q \in a .. b : /\ Whole(day, idx, a, b, p, q)
                                 /\ Kind(idx, day[p]) = kind
                                 /\ w = WindowOf(day, p, q)
  <2>1. PICK s \in StretchesOf(idx, c) :
           Kind(idx, c[s[1]]) = kind /\ w = [from |-> c[s[1]].from, till |-> c[s[2]].till]
    OBVIOUS
  <2> DEFINE p == a + s[1] - 1
             q == a + s[2] - 1
  <2>2. Whole(day, idx, a, b, p, q) /\ c[s[1]] = day[p] /\ c[s[2]] = day[q]
    BY <1>0
  <2> HIDE DEF p, q
  <2>3. p \in a .. b /\ q \in a .. b
    BY <2>2 DEF Whole
  <2>4. QED
    BY <2>1, <2>2, <2>3 DEF WindowOf
<1>7. ASSUME NEW kind, NEW p \in a .. b, NEW q \in a .. b, Whole(day, idx, a, b, p, q),
             Kind(idx, day[p]) = kind
      PROVE  WindowOf(day, p, q) \in Of(kind)
  <2>1. PICK s \in StretchesOf(idx, c) : c[s[1]] = day[p] /\ c[s[2]] = day[q]
    BY <1>0, <1>7
  <2>2. QED
    BY <1>7, <2>1 DEF WindowOf
<1> HIDE DEF Of
<1>8. DOMAIN Summary(idx, from, deadline) = {"negative", "cheap", "expensive"}
  BY <1>4
<1>9. QED
  BY <1>5, <1>6, <1>7, <1>8 DEF WindowsMatch

\* The cheapest and the dearest among some slots of a list.
LEMMA Cheapest ==
  ASSUME NEW list \in Seq(AnySlot), NEW S \in SUBSET (DOMAIN list), S # {}
  PROVE  \E z \in S : \A i \in S : list[z].price <= list[i].price
<1> DEFINE price == [i \in S |-> list[i].price]
<1>1. IsFiniteSet(S) /\ \A i \in S : price[i] \in Int
  <2>1. 1 \in Int /\ Len(list) \in Int /\ DOMAIN list = 1 .. Len(list)
    OBVIOUS
  <2>2. IsFiniteSet(DOMAIN list)
    BY <2>1, FS_Interval
  <2>3. QED
    BY <2>1, <2>2, FS_Subset, SlotTypes
<1> HIDE DEF price
<1>2. PICK z \in S : \A i \in S : price[z] <= price[i]
  BY <1>1, LeastNumber
<1>3. QED
  BY <1>2 DEF price

LEMMA Dearest ==
  ASSUME NEW list \in Seq(AnySlot), NEW S \in SUBSET (DOMAIN list), S # {}
  PROVE  \E z \in S : \A i \in S : list[i].price <= list[z].price
<1> DEFINE f(i) == list[i].price
           below == [i \in S |-> 0 - f(i)]
<1>1. IsFiniteSet(S) /\ \A i \in S : f(i) \in Int
  <2>1. 1 \in Int /\ Len(list) \in Int /\ DOMAIN list = 1 .. Len(list)
    OBVIOUS
  <2>2. IsFiniteSet(DOMAIN list)
    BY <2>1, FS_Interval
  <2>3. QED
    BY <2>1, <2>2, FS_Subset, SlotTypes
<1> HIDE DEF f
<1>2. \A i \in S : below[i] = 0 - f(i) /\ below[i] \in Int
  BY <1>1
<1> HIDE DEF below
<1>3. PICK z \in S : \A i \in S : below[z] <= below[i]
  BY <1>1, <1>2, LeastNumber
<1>4. \A i \in S : f(i) <= f(z)
  BY <1>1, <1>2, <1>3
<1>5. QED
  BY <1>4 DEF f

\* The least and the greatest price of a list.
LEMMA PriceExtremes ==
  ASSUME NEW list \in Seq(AnySlot), list # << >>, NEW P, P = {list[i].price : i \in DOMAIN list}
  PROVE  /\ Min(P) \in Int /\ Max(P \union {0}) \in Int
         /\ \A i \in 1 .. Len(list) : Min(P) <= list[i].price /\ list[i].price <= Max(P \union {0})
<1> DEFINE S == 1 .. Len(list)
           f(i) == list[i].price
<1>1. S # {} /\ DOMAIN list = S
  <2>1. 1 \in S /\ DOMAIN list = S
    OBVIOUS
  <2>2. QED
    BY <2>1
<1>2. \A i \in S : f(i) \in Int
  BY SlotTypes
<1>3. P = {f(i) : i \in S}
  BY <1>1
<1>4. S \in SUBSET (DOMAIN list) /\ S # {}
  BY <1>1
<1> HIDE DEF S, f
<1>5. PICK x \in S : \A y \in S : f(x) <= f(y)
  <2>1. PICK u \in S : \A v \in S : list[u].price <= list[v].price
    BY <1>4, Cheapest DEF S
  <2>2. QED
    BY <2>1 DEF f
<1>6. PICK z \in S : \A y \in S : f(y) <= f(z)
  <2>1. PICK u \in S : \A v \in S : list[v].price <= list[u].price
    BY <1>4, Dearest DEF S
  <2>2. QED
    BY <2>1 DEF f
<1>7. Min(P) \in P /\ \A p \in P : Min(P) <= p
  <2>1. \E p \in P : \A r \in P : p <= r
    BY <1>3, <1>5
  <2>2. QED
    BY <2>1 DEF Min
<1>8. Max(P \union {0}) \in P \union {0} /\ \A p \in P \union {0} : p <= Max(P \union {0})
  <2> DEFINE T == P \union {0}
             top == IF f(z) >= 0 THEN f(z) ELSE 0
  <2>1. f(z) \in Int /\ f(z) \in P
    BY <1>2, <1>3
  <2>2. top \in T /\ top \in Int /\ f(z) <= top /\ 0 <= top
    BY <2>1
  <2>3. \A p \in T : p \in Int /\ (p = 0 \/ p <= f(z))
    <3> SUFFICES ASSUME NEW p \in T
                 PROVE  p \in Int /\ (p = 0 \/ p <= f(z))
      OBVIOUS
    <3>1. CASE p = 0
      BY <3>1
    <3>2. CASE p \in P
      <4>1. PICK i \in S : p = f(i)
        BY <1>3, <3>2
      <4>2. QED
        BY <1>2, <1>6, <4>1
    <3>3. QED
      BY <3>1, <3>2
  <2> HIDE DEF T, top
  <2>4. \A p \in T : top >= p
    BY <2>1, <2>2, <2>3
  <2>5. Max(T) \in T /\ \A p \in T : Max(T) >= p
    BY <2>2, <2>4 DEF Max
  <2>6. \A p \in T : p <= Max(T)
    BY <2>3, <2>5
  <2>7. QED
    BY <2>5, <2>6 DEF T
<1>9. \A p \in P \union {0} : p \in Int
  <2>1. \A p \in P : p \in Int
    <3> SUFFICES ASSUME NEW p \in P
                 PROVE  p \in Int
      OBVIOUS
    <3>1. PICK i \in S : p = f(i)
      BY <1>3
    <3>2. QED
      BY <1>2, <3>1
  <2>2. QED
    BY <2>1
<1>10. \A i \in S : f(i) \in P /\ f(i) \in P \union {0}
  BY <1>3
<1>11. Min(P) \in Int /\ Max(P \union {0}) \in Int
  BY <1>7, <1>8, <1>9
<1>12. \A i \in S : Min(P) <= f(i) /\ f(i) <= Max(P \union {0})
  BY <1>7, <1>8, <1>10
<1>13. QED
  BY <1>11, <1>12 DEF S, f

\* The slots that a window of adjacent slots spans.
LEMMA SpannedBy ==
  ASSUME NEW day, Listed(day), now \in Int,
         NEW p \in SlotsAhead(day), NEW q \in 1 .. Len(day), p <= q
  PROVE  Spanned(day, WindowOf(day, p, q)) = p .. q
<1> DEFINE n == Len(day)
<1>1. n \in Nat /\ DOMAIN day = 1 .. n /\ p \in 1 .. n /\ day[p].till > now
  BY DEF Listed, SlotsAhead
<1>2. \A i \in 1 .. n : /\ day[p].from <= day[i].from <=> p <= i
                        /\ day[i].till <= day[q].till <=> i <= q
                        /\ day[p].till <= day[i].till <=> p <= i
                        /\ day[i].till \in Int
  BY <1>1, SlotsInOrder
<1>3. \A i \in 1 .. n : p <= i => day[i].till > now
  BY <1>1, <1>2
<1>4. Spanned(day, WindowOf(day, p, q)) = {i \in 1 .. n : p <= i /\ i <= q}
  BY <1>1, <1>2, <1>3 DEF Spanned, SlotsAhead, WindowOf
<1>5. {i \in 1 .. n : p <= i /\ i <= q} = p .. q
  BY <1>1
<1>6. QED
  BY <1>4, <1>5

Kinds == {"negative", "cheap", "expensive"}

\* The kinds and windows that Summary lists from now on.
LEMMA AheadIsPart ==
  ASSUME NEW day, Listed(day), day # << >>, now \in Int
  PROVE  \E a \in 1 .. Len(day) + 1, b \in 0 .. Len(day) :
           /\ a <= b + 1
           /\ SlotsInRange(day, now, Last(day).till) = SubSeq(day, a, b)
           /\ SlotsAhead(day) = a .. b
<1> DEFINE n == Len(day)
           deadline == Last(day).till
<1>1. n \in 1 .. n /\ Last(day) = day[n] /\ DOMAIN day = 1 .. n
  BY DEF Listed, Last
<1>2. deadline \in Int /\ \A i \in 1 .. n : day[i].from < deadline
  <2>1. \A i \in 1 .. n : /\ day[n].till \in Int /\ day[i].from \in Int
                          /\ n < i <=> day[n].till <= day[i].from
    BY <1>1, SlotsInOrder
  <2>2. \A i \in 1 .. n : ~(n < i)
    BY <1>1
  <2>3. QED
    BY <1>1, <2>1, <2>2
<1> HIDE DEF deadline
<1>3. PartAt(day, SlotsInRange(day, now, deadline),
             {i \in OverAfter(day, now) : day[i].from < deadline})
  BY <1>2, RangeIsPart
<1>4. {i \in OverAfter(day, now) : day[i].from < deadline} = SlotsAhead(day)
  BY <1>1, <1>2 DEF OverAfter, SlotsAhead
<1>5. QED
  BY <1>3, <1>4 DEF PartAt, deadline

\* Slots of one stretch are of one kind.
LEMMA WholeIsOfAKind ==
  ASSUME NEW day, NEW idx, NEW a, NEW b, NEW p, NEW q, Whole(day, idx, a, b, p, q), NEW i \in p .. q
  PROVE  Kind(idx, day[i]) = Kind(idx, day[p])
<1>1. Tag(idx, day[i]) = Tag(idx, day[p])
  BY DEF Whole
<1>2. Level(idx, day[i]) = Level(idx, day[p]) /\ (day[i].price < 0) = (day[p].price < 0)
  BY <1>1 DEF Tag
<1>3. QED
  BY <1>2 DEF Kind

InOneWindow(day, idx, kind, i) ==
  Cardinality({w \in Summary(idx, now, Last(day).till)[kind] : i \in Spanned(day, w)})
    = IF Kind(idx, day[i]) = kind THEN 1 ELSE 0

\* A slot ahead lies in one window of its kind and in no other.
LEMMA WindowsCoverOnce ==
  ASSUME NEW day, Listed(day), day # << >>, now \in Int, NEW idx, idx.slots = day,
         NEW kind \in Kinds, NEW i \in SlotsAhead(day)
  PROVE  InOneWindow(day, idx, kind, i)
<1> DEFINE W == Summary(idx, now, Last(day).till)[kind]
           V == {w \in W : i \in Spanned(day, w)}
<1>1. PICK a \in 1 .. Len(day) + 1, b \in 0 .. Len(day) :
           /\ a <= b + 1
           /\ SlotsInRange(day, now, Last(day).till) = SubSeq(day, a, b)
           /\ SlotsAhead(day) = a .. b
  BY AheadIsPart
<1>2. day \in Seq(AnySlot)
  BY DEF Listed
<1>3. \A w : w \in W <=> \E p, q \in a .. b : /\ Whole(day, idx, a, b, p, q)
                                              /\ Kind(idx, day[p]) = kind
                                              /\ w = WindowOf(day, p, q)
  <2>1. WindowsMatch(day, idx, now, Last(day).till, a, b)
    BY <1>1, <1>2, WindowsAre
  <2>2. QED
    BY <2>1 DEF WindowsMatch, Kinds
<1> HIDE DEF W
<1>4. \A p, q \in a .. b : p <= q => Spanned(day, WindowOf(day, p, q)) = p .. q
  <2> SUFFICES ASSUME NEW p \in a .. b, NEW q \in a .. b, p <= q
               PROVE  Spanned(day, WindowOf(day, p, q)) = p .. q
    OBVIOUS
  <2>1. p \in SlotsAhead(day) /\ q \in 1 .. Len(day)
    BY <1>1
  <2>2. QED
    BY <2>1, SpannedBy
<1>5. i \in a .. b
  BY <1>1
<1>a. InOneWhole(day, idx, a, b, i)
  BY <1>2, <1>5, OneWhole
<1>6. PICK p \in a .. b, q \in a .. b : Whole(day, idx, a, b, p, q) /\ i \in p .. q
  BY <1>a DEF InOneWhole
<1>7. \A r, t \in a .. b : Whole(day, idx, a, b, r, t) /\ i \in r .. t => r = p /\ t = q
  BY <1>6, <1>a DEF InOneWhole
<1>8. p <= q /\ Kind(idx, day[p]) = Kind(idx, day[i])
  <2>1. p <= q
    BY <1>6 DEF Whole
  <2>2. Kind(idx, day[i]) = Kind(idx, day[p])
    BY <1>6, WholeIsOfAKind
  <2>3. QED
    BY <2>1, <2>2
<1>9. ASSUME NEW w \in V
      PROVE  w = WindowOf(day, p, q) /\ Kind(idx, day[i]) = kind
  <2>1. PICK r \in a .. b, t \in a .. b :
           Whole(day, idx, a, b, r, t) /\ Kind(idx, day[r]) = kind /\ w = WindowOf(day, r, t)
    BY <1>3
  <2>2. r <= t
    BY <2>1 DEF Whole
  <2>3. i \in r .. t
    BY <1>4, <2>1, <2>2
  <2>4. r = p /\ t = q
    BY <1>7, <2>1, <2>3
  <2>5. QED
    BY <1>8, <2>1, <2>4
<1>10. CASE Kind(idx, day[i]) = kind
  <2>1. WindowOf(day, p, q) \in W
    BY <1>3, <1>6, <1>8, <1>10
  <2>2. i \in Spanned(day, WindowOf(day, p, q))
    BY <1>4, <1>6, <1>8
  <2>3. V = {WindowOf(day, p, q)}
    BY <1>9, <2>1, <2>2
  <2>4. Cardinality(V) = 1
    BY <2>3, FS_Singleton
  <2>5. QED
    BY <1>10, <2>4 DEF W, InOneWindow
<1>11. CASE Kind(idx, day[i]) # kind
  <2>1. V = {}
    BY <1>9, <1>11
  <2>2. Cardinality(V) = 0
    BY <2>1, FS_EmptySet
  <2>3. QED
    BY <1>11, <2>2 DEF W, InOneWindow
<1>12. QED
  BY <1>10, <1>11

\* The average of a window is that of its slots.
LEMMA WindowAverageIs ==
  ASSUME NEW day, Listed(day), NEW p \in 1 .. Len(day), NEW q \in 1 .. Len(day), p <= q
  PROVE  WindowAverage(day, WindowOf(day, p, q)) = Average(SubSeq(day, p, q))
<1> DEFINE w == WindowOf(day, p, q)
           n == Len(day)
           S == {i \in BegunSince(day, w.from) : day[i].from < w.till}
<1>1. w.from = day[p].from /\ w.till = day[q].till /\ n \in Nat
  BY DEF WindowOf, Listed
<1>2. \A i \in 1 .. n : /\ day[i].from \in Int /\ day[q].till \in Int
                        /\ p <= i <=> day[p].from <= day[i].from
                        /\ q < i <=> day[q].till <= day[i].from
  BY SlotsInOrder
<1>3. w.from \in Int /\ w.till \in Int
  BY <1>1, <1>2
<1>4. PartAt(day, StartsIn(day, w.from, w.till), S)
  <2> HIDE DEF w
  <2>1. QED
    BY <1>3, StartsAreAdjacent
<1>5. S = p .. q
  <2>1. \A i \in 1 .. n : i \in S <=> p <= i /\ i <= q
    <3> SUFFICES ASSUME NEW i \in 1 .. n
                 PROVE  i \in S <=> p <= i /\ i <= q
      OBVIOUS
    <3>1. i \in S <=> day[p].from <= day[i].from /\ day[i].from < day[q].till
      BY <1>1, <1>2 DEF BegunSince
    <3>2. /\ day[i].from \in Int /\ day[q].till \in Int
          /\ p <= i <=> day[p].from <= day[i].from
          /\ q < i <=> day[q].till <= day[i].from
      BY <1>2
    <3> HIDE DEF S
    <3>3. QED
      BY <3>1, <3>2
  <2>2. S \in SUBSET (1 .. n)
    BY DEF BegunSince
  <2>3. p \in 1 .. n /\ q \in 1 .. n
    OBVIOUS
  <2> HIDE DEF S, n, w
  <2>4. \A i \in p .. q : i \in 1 .. n /\ p <= i /\ i <= q
    BY <1>1, <2>3
  <2>5. \A i \in 1 .. n : p <= i /\ i <= q => i \in p .. q
    BY <1>1, <2>3
  <2>6. QED
    BY <2>1, <2>2, <2>4, <2>5
<1> HIDE DEF S
<1>6. PICK a \in 1 .. n + 1, b \in 0 .. n :
           a <= b + 1 /\ StartsIn(day, w.from, w.till) = SubSeq(day, a, b) /\ S = a .. b
  BY <1>4 DEF PartAt
<1>7. a = p /\ b = q
  <2>1. p \in a .. b /\ q \in a .. b /\ a \in Int /\ b \in Int /\ a <= b
    BY <1>5, <1>6
  <2>2. a \in p .. q /\ b \in p .. q
    BY <1>5, <1>6, <2>1
  <2>3. QED
    BY <2>1, <2>2
<1>8. SubSeq(day, p, q) # << >>
  <2>1. Len(SubSeq(day, p, q)) = q - p + 1
    BY BlockFacts DEF IsBlock
  <2>2. QED
    BY <2>1
<1>9. QED
  BY <1>6, <1>7, <1>8 DEF WindowAverage

\* The present slot is the first of those ahead, or there is none.
PresentFound(day) ==
  \/ SlotsAhead(day) = {} /\ SlotAt(day, now) = {}
  \/ \E p \in 1 .. Len(day) :
       /\ p \in SlotsAhead(day) /\ SlotAt(day, now) = {day[p]}
       /\ day[p].from <= now /\ now < day[p].till

LEMMA PresentIsFirst ==
  ASSUME NEW day, Listed(day), now \in Nat
  PROVE  PresentFound(day)
<1> DEFINE n == Len(day)
           I == {i \in 1 .. n : Holds(day[i], now)}
<1>1. n \in Nat /\ DOMAIN day = 1 .. n /\ now \in Int
  BY DEF Listed
<1>2. \A i, j \in 1 .. n :
           /\ day[i].from \in Int /\ day[i].till \in Int
           /\ (i < j) <=> (day[i].till <= day[j].from)
           /\ j = i + 1 => day[j].from = day[i].till
  BY SlotsInOrder
<1>3. SlotAt(day, now) = IF I = {} THEN {} ELSE {day[Min(I)]}
  <2>1. SelectInSeq(day, LAMBDA slot : Holds(slot, now)) = IF I # {} THEN Min(I) ELSE 0
    BY DEF SelectInSeq
  <2>2. I # {} => Min(I) \in I
    <3>1. I \in SUBSET Nat
      BY <1>1
    <3> HIDE DEF I
    <3>2. QED
      BY <3>1, LeastOf
  <2>3. I # {} => Min(I) # 0
    BY <2>2
  <2> HIDE DEF I
  <2>4. QED
    BY <2>1, <2>3 DEF SlotAt
<1>4. SlotsAhead(day) \in SUBSET (1 .. n) /\ \A i \in 1 .. n : i \in SlotsAhead(day) <=> day[i].till > now
  BY <1>1 DEF SlotsAhead
<1>5. CASE SlotsAhead(day) = {}
  <2>1. \A i \in 1 .. n : ~(now < day[i].till)
    BY <1>1, <1>2, <1>4, <1>5
  <2>2. I = {}
    BY <2>1 DEF Holds
  <2>3. QED
    BY <1>3, <1>5, <2>2 DEF PresentFound
<1>6. CASE SlotsAhead(day) # {}
  <2>1. PICK p \in SlotsAhead(day) : \A i \in SlotsAhead(day) : p <= i
    <3>1. SlotsAhead(day) \in SUBSET Nat
      BY <1>1, <1>4
    <3>2. QED
      BY <1>6, <3>1, NatLeast
  <2>2. p \in 1 .. n /\ now < day[p].till
    BY <1>1, <1>2, <1>4
  <2>3. day[p].from <= now
    <3>1. CASE p = 1
      <4>1. day[1].from = (1 - 1) * SlotLength
        BY <2>2, <3>1 DEF Listed
      <4>2. (1 - 1) * SlotLength = 0
        BY SlotsAssumption
      <4>3. QED
        BY <3>1, <4>1, <4>2
    <3>2. CASE p # 1
      <4>1. p - 1 \in 1 .. n /\ p = (p - 1) + 1 /\ ~(p <= p - 1)
        BY <1>1, <2>2, <3>2
      <4>2. p - 1 \notin SlotsAhead(day)
        BY <2>1, <4>1
      <4>3. ~(day[p - 1].till > now) /\ day[p].from = day[p - 1].till /\ day[p - 1].till \in Int
        BY <1>2, <1>4, <2>2, <4>1, <4>2
      <4>4. QED
        BY <1>1, <4>3
    <3>3. QED
      BY <3>1, <3>2
  <2>4. ASSUME NEW i \in I
        PROVE  i = p
    <3>1. i \in 1 .. n /\ day[i].from <= now /\ now < day[i].till
      BY DEF Holds
    <3>2. p <= i
      BY <1>1, <1>2, <1>4, <2>1, <3>1
    <3>3. ~(p < i)
      <4>1. /\ day[p].till \in Int /\ day[i].from \in Int
            /\ (p < i) <=> (day[p].till <= day[i].from)
        BY <1>2, <2>2, <3>1
      <4>2. QED
        BY <1>1, <2>2, <3>1, <4>1
    <3>4. QED
      BY <2>2, <3>1, <3>2, <3>3
  <2>5. p \in I
    BY <2>2, <2>3 DEF Holds
  <2>6. I = {p}
    BY <2>4, <2>5
  <2>7. Min(I) = p
    <3>1. {p} \in SUBSET Nat /\ {p} # {}
      BY <2>2
    <3>2. Min({p}) \in {p}
      BY <3>1, LeastOf
    <3>3. QED
      BY <2>6, <3>2
  <2> HIDE DEF I
  <2>8. SlotAt(day, now) = {day[p]}
    BY <1>3, <2>6, <2>7
  <2>9. QED
    BY <2>1, <2>2, <2>3, <2>8 DEF PresentFound
<1>7. QED
  BY <1>5, <1>6

\* The slot that is named as the next.
LEMMA NextIsNamed ==
  ASSUME NEW day, Listed(day), day # << >>, now \in Nat, NEW idx, idx.slots = day
  PROVE  NamesNext(day, idx)
<1> DEFINE n == Len(day)
           S == {i \in BegunSince(day, now) : day[i].from < now + SlotLength}
           part == StartsIn(day, now, now + SlotLength)
           next == GetNextPrice(idx, now, SlotLength)
<1>1. /\ n \in 1 .. n /\ DOMAIN day = 1 .. n /\ now \in Int /\ Last(day) = day[n]
      /\ SlotLength \in Nat \ {0} /\ now + SlotLength \in Int /\ day \in Seq(AnySlot)
  BY SlotsAssumption DEF Listed, Last
<1>2. \A i, j \in 1 .. n :
           /\ day[i].from \in Int /\ day[i].till \in Int
           /\ (i <= j) <=> (day[i].from <= day[j].from)
           /\ (i <= j) <=> (day[i].till <= day[j].till)
           /\ (i < j) <=> (day[i].till <= day[j].from)
           /\ day[i].till = day[i].from + SlotLength
           /\ j = i + 1 => day[j].from = day[i].till
  BY SlotsInOrder
<1>3. PartAt(day, part, S)
  BY <1>1, StartsAreAdjacent
<1>4. PICK a \in 1 .. n + 1, b \in 0 .. n : a <= b + 1 /\ part = SubSeq(day, a, b) /\ S = a .. b
  BY <1>3 DEF PartAt
<1>5. \A i \in 1 .. n : i \in S <=> now <= day[i].from /\ day[i].from < now + SlotLength
  BY <1>2, <1>1 DEF BegunSince
<1>6. next = IF part = << >> THEN {} ELSE {[slot |-> Head(part), level |-> Level(idx, Head(part))]}
  BY DEF GetNextPrice
<1>7. Len(part) = b - a + 1 /\ part \in Seq(AnySlot)
      /\ \A k \in 1 .. b - a + 1 : part[k] = day[a + k - 1]
  <2> HIDE DEF S, part, next, n
  <2>1. n = Len(day)
    BY DEF n
  <2>2. a \in 1 .. Len(day) + 1 /\ b \in 0 .. Len(day) /\ a <= b + 1
    BY <1>4, <2>1
  <2>3. /\ SubSeq(day, a, b) \in Seq(AnySlot) /\ Len(SubSeq(day, a, b)) = b - a + 1
        /\ \A k \in 1 .. b - a + 1 : SubSeq(day, a, b)[k] = day[a + k - 1]
    BY <1>1, <2>2, SubSeqFacts
  <2>4. QED
    BY <1>4, <2>3
<1> HIDE DEF S, part, next
<1>8. ASSUME next = {}
      PROVE  Last(day).from < now
  <2>1. part = << >>
    BY <1>6, <1>8
  <2>2. S = {}
    <3>1. b - a + 1 = 0
      BY <1>7, <2>1
    <3>2. QED
      BY <1>4, <3>1
  <2> DEFINE T == {i \in 1 .. n : now <= day[i].from}
  <2>3. SUFFICES ASSUME T # {}
                 PROVE  FALSE
    BY <1>1, <1>2
  <2>4. PICK i \in T : \A j \in T : i <= j
    <3>1. T \in SUBSET Nat
      BY <1>1
    <3> HIDE DEF T
    <3>2. QED
      BY <2>3, <3>1, NatLeast
  <2>5. i \in 1 .. n /\ now <= day[i].from
    OBVIOUS
  <2>6. CASE i = 1
    <3>1. day[1].from = (1 - 1) * SlotLength
      BY <2>5, <2>6 DEF Listed
    <3>2. (1 - 1) * SlotLength = 0
      BY SlotsAssumption
    <3>3. day[i].from < now + SlotLength
      BY <1>1, <2>6, <3>1, <3>2
    <3>4. QED
      BY <1>5, <2>2, <2>5, <3>3
  <2>7. CASE i # 1
    <3>1. i - 1 \in 1 .. n /\ i = (i - 1) + 1 /\ ~(i <= i - 1)
      BY <1>1, <2>5, <2>7
    <3>2. i - 1 \notin T
      BY <2>4, <3>1
    <3>3. ~(now <= day[i - 1].from)
      BY <3>1, <3>2
    <3>4. /\ day[i].from = day[i - 1].till /\ day[i - 1].till = day[i - 1].from + SlotLength
          /\ day[i - 1].from \in Int
      BY <1>2, <2>5, <3>1
    <3>5. day[i].from < now + SlotLength
      BY <1>1, <3>3, <3>4
    <3>6. QED
      BY <1>5, <2>2, <2>5, <3>5
  <2>8. QED
    BY <2>6, <2>7
<1>9. ASSUME NEW m \in next
      PROVE  /\ \A i \in SlotsAhead(day) : day[i].from < m.slot.from => Holds(day[i], now)
             /\ \A p \in SlotAt(day, now) : m.slot.from \in {now, p.till}
  <2>1. part # << >> /\ m.slot = Head(part)
    BY <1>6, <1>9
  <2>2. a <= b /\ m.slot = day[a]
    <3>1. Len(part) # 0
      BY <1>7, <2>1
    <3>2. 1 \in 1 .. b - a + 1 /\ a + 1 - 1 = a
      BY <1>4, <1>7, <3>1
    <3>3. Head(part) = part[1]
      OBVIOUS
    <3>4. part[1] = day[a]
      BY <1>7, <3>2
    <3>5. QED
      BY <1>4, <2>1, <3>2, <3>3, <3>4
  <2>3. a \in S /\ a \in 1 .. n /\ \A i \in S : a <= i
    BY <1>4, <2>2
  <2>4. now <= day[a].from /\ day[a].from < now + SlotLength
    BY <1>5, <2>3
  <2>5. ASSUME NEW i \in 1 .. n, day[i].from < day[a].from
        PROVE  day[i].from < now
    <3>1. ~(a <= i)
      BY <1>1, <1>2, <2>3, <2>5
    <3>2. i \notin S
      BY <2>3, <3>1
    <3>3. QED
      BY <1>1, <1>2, <1>5, <2>3, <2>4, <2>5, <3>2
  <2>6. ASSUME NEW i \in SlotsAhead(day), day[i].from < m.slot.from
        PROVE  Holds(day[i], now)
    <3>1. i \in 1 .. n /\ day[i].till > now
      BY <1>1 DEF SlotsAhead
    <3>2. day[i].from < now
      BY <2>2, <2>5, <2>6, <3>1
    <3>3. QED
      BY <1>1, <1>2, <3>1, <3>2 DEF Holds
  <2>7. ASSUME NEW p \in SlotAt(day, now)
        PROVE  m.slot.from \in {now, p.till}
    <3>1. PICK k \in 1 .. n : p = day[k] /\ day[k].from <= now /\ now < day[k].till
      <4>1. PresentFound(day)
        BY PresentIsFirst
      <4>2. QED
        BY <2>7, <4>1 DEF PresentFound
    <3>2. CASE day[a].from = now
      BY <2>2, <3>2
    <3>3. CASE day[a].from # now
      <4>1. now < day[a].from /\ day[k].from < day[a].from /\ ~(day[a].from <= day[k].from)
        BY <1>1, <1>2, <2>3, <2>4, <3>1, <3>3, SMTT(30)
      <4>2. day[k].from < now
        BY <2>5, <4>1
      <4>3. ~(a <= k)
        BY <1>2, <2>3, <4>1
      <4>4. k + 1 \in 1 .. n /\ k + 1 <= a
        BY <1>1, <2>3, <4>3
      <4>5. day[k + 1].from = day[k].till /\ day[k].till = day[k].from + SlotLength
            /\ day[k].from \in Int
        BY <1>2, <4>4
      <4>6. now <= day[k + 1].from /\ day[k + 1].from < now + SlotLength
        BY <1>1, <3>1, <4>2, <4>5
      <4>7. k + 1 \in S
        BY <1>5, <4>4, <4>6
      <4>8. a <= k + 1
        BY <2>3, <4>7
      <4>9. a = k + 1
        BY <2>3, <4>4, <4>8
      <4>10. QED
        BY <2>2, <3>1, <4>5, <4>9
    <3>4. QED
      BY <3>2, <3>3
  <2>8. QED
    BY <2>6, <2>7
<1>10. QED
  BY <1>8, <1>9 DEF NamesNext, next

\* The slots of a window, their sum and the range of the day.
LEMMA WindowDescribed ==
  ASSUME NEW day, Listed(day), day # << >>, now \in Nat, NEW range,
         range = PriceRange(day, now, Last(day).till), NEW c,
         NEW p \in SlotsAhead(day), NEW q \in 1 .. Len(day), p <= q,
         c = [window |-> WindowOf(day, p, q), average |-> WindowAverage(day, WindowOf(day, p, q))]
  PROVE  AveragesItsSlots(day, range, c)
<1> DEFINE n == Len(day)
           part == SubSeq(day, p, q)
           deadline == Last(day).till
<1>1. /\ n \in 1 .. n /\ DOMAIN day = 1 .. n /\ now \in Int /\ Last(day) = day[n]
      /\ day \in Seq(AnySlot)
  BY DEF Listed, Last
<1>2. p \in 1 .. n /\ q \in 1 .. n
  BY <1>1 DEF SlotsAhead
<1>3. Spanned(day, c.window) = p .. q
  <2>1. Spanned(day, WindowOf(day, p, q)) = p .. q
    BY <1>1, SpannedBy
  <2>2. QED
    BY <2>1
<1>4. c.average = [sum |-> SumPrices(part), count |-> Len(part)]
  <2>1. WindowAverage(day, WindowOf(day, p, q)) = Average(SubSeq(day, p, q))
    BY <1>2, WindowAverageIs
  <2>2. QED
    BY <2>1 DEF Average
<1>5. /\ part \in Seq(AnySlot) /\ Len(part) = q - p + 1
      /\ \A k \in 1 .. q - p + 1 : part[k] = day[p + k - 1]
  BY <1>1, <1>2, SubSeqFacts
<1>6. Cardinality(p .. q) = q - p + 1
  <2>1. p \in Int /\ q \in Int
    BY <1>2
  <2>2. QED
    BY <2>1, FS_Interval
<1>7. MapThenSumSet(LAMBDA i : day[i].price, p .. q) = SumPrices(part)
  BY <1>1, <1>2, PartSum
<1>8. ASSUME now <= c.window.from
      PROVE  range.min * Len(part) <= SumPrices(part) /\ SumPrices(part) <= range.max * Len(part)
  <2> DEFINE S == {i \in BegunSince(day, now) : day[i].from < deadline}
             inside == StartsIn(day, now, deadline)
             P == {inside[i].price : i \in DOMAIN inside}
  <2>1. \A i, j \in 1 .. n :
           /\ day[i].from \in Int /\ day[i].till \in Int
           /\ (i <= j) <=> (day[i].from <= day[j].from)
           /\ (i < j) <=> (day[i].till <= day[j].from)
    BY SlotsInOrder
  <2>2. deadline \in Int /\ \A i \in 1 .. n : day[i].from < deadline
    <3>1. \A i \in 1 .. n : ~(n < i)
      BY <1>1
    <3>2. QED
      BY <1>1, <2>1, <3>1
  <2> HIDE DEF deadline
  <2>3. PartAt(day, inside, S)
    BY <1>1, <2>2, StartsAreAdjacent
  <2>4. PICK a \in 1 .. n + 1, b \in 0 .. n : a <= b + 1 /\ inside = SubSeq(day, a, b) /\ S = a .. b
    BY <2>3 DEF PartAt
  <2>5. now <= day[p].from
    BY <1>8 DEF WindowOf
  <2>6. p .. q \subseteq S
    <3> SUFFICES ASSUME NEW i \in p .. q
                 PROVE  i \in S
      OBVIOUS
    <3>1. i \in 1 .. n /\ p <= i
      BY <1>1, <1>2
    <3>2. day[p].from <= day[i].from /\ day[p].from \in Int /\ day[i].from \in Int
      BY <1>2, <2>1, <3>1
    <3>3. day[i].from >= now
      BY <1>1, <2>5, <3>2
    <3>4. QED
      BY <2>2, <3>1, <3>3 DEF BegunSince
  <2> HIDE DEF S, inside
  <2>7. /\ SubSeq(day, a, b) \in Seq(AnySlot) /\ Len(SubSeq(day, a, b)) = b - a + 1
        /\ \A k \in 1 .. b - a + 1 : SubSeq(day, a, b)[k] = day[a + k - 1]
    <3>1. a \in 1 .. Len(day) + 1 /\ b \in 0 .. Len(day) /\ a <= b + 1
      BY <2>4
    <3>2. QED
      BY <1>1, <3>1, SubSeqFacts
  <2>8. a <= p /\ q <= b
    <3>1. p \in p .. q /\ q \in p .. q
      BY <1>2
    <3>2. p \in a .. b /\ q \in a .. b
      BY <2>4, <2>6, <3>1
    <3>3. QED
      BY <3>2
  <2>9. inside \in Seq(AnySlot) /\ Len(inside) = b - a + 1 /\ inside # << >>
    <3>1. b - a + 1 # 0
      BY <1>2, <2>4, <2>8
    <3>2. QED
      BY <2>4, <2>7, <3>1
  <2>10. range.min = Min(P) /\ range.max = Max(P \union {0})
    BY <2>9 DEF PriceRange, deadline, inside
  <2>11. /\ Min(P) \in Int /\ Max(P \union {0}) \in Int
         /\ \A i \in 1 .. Len(inside) : Min(P) <= inside[i].price /\ inside[i].price <= Max(P \union {0})
    BY <2>9, PriceExtremes
  <2> DEFINE low == Min(P)
             high == Max(P \union {0})
  <2> HIDE DEF P, low, high
  <2>12. ASSUME NEW k \in 1 .. Len(part)
         PROVE  low <= part[k].price /\ part[k].price <= high
    <3>1. k \in 1 .. q - p + 1
      BY <1>5
    <3>2. part[k] = day[p + k - 1]
      BY <1>5, <3>1
    <3> DEFINE l == p + k - a
    <3>3. l \in 1 .. b - a + 1 /\ a + l - 1 = p + k - 1
      BY <1>2, <2>4, <2>8, <3>1
    <3> HIDE DEF l
    <3>4. inside[l] = day[a + l - 1]
      BY <2>4, <2>7, <3>3
    <3>5. part[k] = inside[l]
      BY <3>2, <3>3, <3>4
    <3>6. l \in 1 .. Len(inside)
      BY <2>9, <3>3
    <3>7. QED
      BY <2>11, <3>5, <3>6 DEF low, high
  <2>13. low \in Int /\ high \in Int
    BY <2>11 DEF low, high
  <2> HIDE DEF part
  <2>14. low * Len(part) <= SumPrices(part) /\ SumPrices(part) <= high * Len(part)
    BY <1>5, <2>12, <2>13, SumBounds
  <2>15. QED
    BY <2>10, <2>14 DEF low, high
<1> HIDE DEF part
<1>9. c.average.count = Len(part) /\ c.average.sum = SumPrices(part)
  BY <1>4
<1>10. QED
  BY <1>3, <1>5, <1>6, <1>7, <1>8, <1>9 DEF AveragesItsSlots

\* A window that Summary lists is described as it is.
LEMMA WindowsDescribed ==
  ASSUME NEW day, Listed(day), day # << >>, now \in Nat, NEW idx, idx.slots = day,
         NEW range, range = PriceRange(day, now, Last(day).till),
         NEW kind \in Kinds, NEW w \in Summary(idx, now, Last(day).till)[kind], NEW c,
         c = [window |-> w, average |-> WindowAverage(day, w)]
  PROVE  AveragesItsSlots(day, range, c)
<1>1. PICK a \in 1 .. Len(day) + 1, b \in 0 .. Len(day) :
           /\ a <= b + 1
           /\ SlotsInRange(day, now, Last(day).till) = SubSeq(day, a, b)
           /\ SlotsAhead(day) = a .. b
  <2>1. now \in Int
    OBVIOUS
  <2>2. QED
    BY <2>1, AheadIsPart
<1>2. day \in Seq(AnySlot)
  BY DEF Listed
<1>3. WindowsMatch(day, idx, now, Last(day).till, a, b)
  BY <1>1, <1>2, WindowsAre
<1>4. PICK p \in a .. b, q \in a .. b : Whole(day, idx, a, b, p, q) /\ w = WindowOf(day, p, q)
  BY <1>3 DEF WindowsMatch, Kinds
<1>5. p \in SlotsAhead(day) /\ q \in 1 .. Len(day) /\ p <= q
  BY <1>1, <1>4 DEF Whole
<1>6. QED
  BY <1>4, <1>5, WindowDescribed

LEMMA DayIsDescribed ==
  ASSUME NEW day, Listed(day), day # << >>, now \in Nat
  PROVE  DescribesDay(day)
<1> DEFINE idx == NewPriceIndex(day)
           deadline == Last(day).till
           summary == Summary(idx, now, deadline)
           range == PriceRange(day, now, deadline)
           windows == [kind \in DOMAIN summary |-> ConvertWindows(idx, summary[kind])]
           answer == GetPriceSummary(idx, now)
<1>1. idx.slots = day /\ day \in Seq(AnySlot)
  BY IndexKeepsSlots DEF Listed
<1> HIDE DEF idx
<1>2. answer = {[price |-> slot.price, level |-> Level(idx, slot), range |-> range,
                 windows |-> windows] : slot \in SlotAt(day, now)}
  BY <1>1 DEF GetPriceSummary
<1>3. GetCurrentPrice(idx, now) = {slot.price : slot \in SlotAt(day, now)}
  BY <1>1 DEF GetCurrentPrice
<1>4. DOMAIN summary = Kinds
  <2>1. PICK a \in 1 .. Len(day) + 1, b \in 0 .. Len(day) :
             a <= b + 1 /\ SlotsInRange(day, now, Last(day).till) = SubSeq(day, a, b)
    BY AheadIsPart
  <2>2. WindowsMatch(day, idx, now, Last(day).till, a, b)
    BY <1>1, <2>1, WindowsAre
  <2>3. QED
    BY <2>2 DEF WindowsMatch, Kinds
<1>5. ASSUME NEW kind \in Kinds
      PROVE  /\ windows[kind] = {[window |-> w, average |-> WindowAverage(day, w)] : w \in summary[kind]}
             /\ {c.window : c \in windows[kind]} = summary[kind]
  <2>1. windows[kind] = {[window |-> w, average |-> WindowAverage(day, w)] : w \in summary[kind]}
    BY <1>1, <1>4 DEF ConvertWindows
  <2> HIDE DEF windows, summary
  <2>2. \A c \in windows[kind] : c.window \in summary[kind]
    BY <2>1
  <2>3. ASSUME NEW w \in summary[kind]
        PROVE  \E c \in windows[kind] : w = c.window
    <3> DEFINE c == [window |-> w, average |-> WindowAverage(day, w)]
    <3>1. c \in windows[kind] /\ c.window = w
      BY <2>1
    <3> HIDE DEF c
    <3>2. QED
      BY <3>1
  <2>4. {c.window : c \in windows[kind]} = summary[kind]
    BY <2>2, <2>3
  <2>5. QED
    BY <2>1, <2>4
<1>6. DOMAIN windows = Kinds
  BY <1>4
<1>7. PresentFound(day)
  BY PresentIsFirst
<1>8. (SlotsAhead(day) # {}) <=> (SlotAt(day, now) # {})
  BY <1>7 DEF PresentFound
<1>9. CoversOnce(day, idx, windows)
  <2> SUFFICES ASSUME NEW i \in SlotsAhead(day), NEW kind \in Kinds
               PROVE  Cardinality({w \in {c.window : c \in windows[kind]} : i \in Spanned(day, w)})
                      = IF Kind(idx, day[i]) = kind THEN 1 ELSE 0
    BY <1>6 DEF CoversOnce
  <2>1. {c.window : c \in windows[kind]} = summary[kind]
    BY <1>5
  <2>2. now \in Int
    OBVIOUS
  <2>3. Cardinality({w \in Summary(idx, now, Last(day).till)[kind] : i \in Spanned(day, w)})
        = IF Kind(idx, day[i]) = kind THEN 1 ELSE 0
    <3>1. InOneWindow(day, idx, kind, i)
      BY <1>1, <2>2, WindowsCoverOnce
    <3>2. QED
      BY <3>1 DEF InOneWindow
  <2>5. summary[kind] = Summary(idx, now, Last(day).till)[kind]
    OBVIOUS
  <2> HIDE DEF windows, summary
  <2>4. QED
    BY <2>1, <2>3, <2>5
<1>10. ASSUME NEW kind \in Kinds, NEW c \in windows[kind]
       PROVE  AveragesItsSlots(day, range, c)
  <2>1. PICK w \in summary[kind] : c = [window |-> w, average |-> WindowAverage(day, w)]
    <3>1. windows[kind] = {[window |-> w, average |-> WindowAverage(day, w)] : w \in summary[kind]}
      BY <1>5
    <3> HIDE DEF windows, summary
    <3>2. QED
      BY <1>10, <3>1
  <2>2. QED
    BY <1>1, <2>1, WindowsDescribed
<1>11. NamesNext(day, idx)
  BY <1>1, NextIsNamed
<1> HIDE DEF answer, range, windows, summary, deadline
<1>12. {a.price : a \in answer} = GetCurrentPrice(idx, now)
  <2>1. \A a \in answer : a.price \in GetCurrentPrice(idx, now)
    BY <1>2, <1>3
  <2>2. ASSUME NEW slot \in SlotAt(day, now)
        PROVE  \E a \in answer : slot.price = a.price
    <3> DEFINE a == [price |-> slot.price, level |-> Level(idx, slot), range |-> range,
                     windows |-> windows]
    <3>1. a \in answer /\ a.price = slot.price
      BY <1>2
    <3> HIDE DEF a
    <3>2. QED
      BY <3>1
  <2>3. QED
    BY <1>3, <2>1, <2>2
<1>13. (SlotsAhead(day) # {}) <=> (answer # {})
  BY <1>2, <1>8
<1>14. \A a \in answer : a.windows = windows /\ a.range = range
  BY <1>2
<1>15. /\ DescribesDay(day) <=>
            /\ {a.price : a \in answer} = GetCurrentPrice(idx, now)
            /\ (SlotsAhead(day) # {}) <=> (answer # {})
            /\ \A a \in answer :
                 /\ CoversOnce(day, idx, a.windows)
                 /\ \A kind \in DOMAIN a.windows : \A c \in a.windows[kind] :
                      AveragesItsSlots(day, a.range, c)
            /\ NamesNext(day, idx)
  BY DEF DescribesDay, idx, answer
<1>16. QED
  BY <1>6, <1>9, <1>10, <1>11, <1>12, <1>13, <1>14, <1>15

-------------------------------------------------------------------------------
(* Ranks of prices.                                                        *)

\* The slots that cost no more than a price, less, and as much or more.
UpTo(list, price) == {i \in DOMAIN list : list[i].price <= price}
Below(list, price) == {i \in DOMAIN list : list[i].price < price}
From(list, price) == {i \in DOMAIN list : list[i].price >= price}

IsRank(list, k, price) ==
  /\ price \in Int
  /\ Cardinality(UpTo(list, price)) \in Nat /\ Cardinality(UpTo(list, price)) >= k
  /\ Cardinality(From(list, price)) \in Nat /\ Cardinality(From(list, price)) >= Len(list) - k + 1

\* The least of some prices of a list.
LEMMA LeastPrice ==
  ASSUME NEW list \in Seq(AnySlot), NEW T \in SUBSET {list[i].price : i \in DOMAIN list}, T # {}
  PROVE  Min(T) \in T /\ \A p \in T : Min(T) <= p
<1> DEFINE S == {i \in DOMAIN list : list[i].price \in T}
<1>1. S \in SUBSET (DOMAIN list) /\ S # {}
  OBVIOUS
<1> HIDE DEF S
<1>2. PICK z \in S : \A i \in S : list[z].price <= list[i].price
  BY <1>1, Cheapest
<1>3. list[z].price \in T
  BY <1>2 DEF S
<1>4. ASSUME NEW p \in T
      PROVE  list[z].price <= p
  <2>1. PICK i \in DOMAIN list : list[i].price = p
    BY <1>4
  <2>2. i \in S
    BY <2>1 DEF S
  <2>3. QED
    BY <1>2, <2>1, <2>2
<1>5. QED
  BY <1>3, <1>4 DEF Min

\* The k-th lowest price is not exceeded by k slots at least, and by no more than the
\* others.
LEMMA RankedIsRank ==
  ASSUME NEW list \in Seq(AnySlot), NEW k \in 1 .. Len(list)
  PROVE  IsRank(list, k, Ranked(list, k))
<1> DEFINE n == Len(list)
           S == DOMAIN list
           P == {list[i].price : i \in DOMAIN list}
           T == {p \in P : Cardinality(UpTo(list, p)) >= k}
           v == Ranked(list, k)
<1>1. /\ n \in Nat /\ S = 1 .. n /\ k \in 1 .. n /\ IsFiniteSet(S) /\ Cardinality(S) = n
      /\ \A i \in S : list[i].price \in Int
  <2>1. 1 \in Int /\ Len(list) \in Int /\ DOMAIN list = 1 .. Len(list)
    OBVIOUS
  <2>2. IsFiniteSet(1 .. n) /\ Cardinality(1 .. n) = IF 1 > n THEN 0 ELSE n - 1 + 1
    BY <2>1, FS_Interval
  <2>3. QED
    BY <2>1, <2>2, SlotTypes
<1>2. \A X \in SUBSET S : IsFiniteSet(X) /\ Cardinality(X) \in Nat
  BY <1>1, FS_Subset, FS_CardinalityType
<1>3. v = Min(T)
  BY DEF Ranked, UpTo
<1> HIDE DEF v, S, T, P
<1>4. S # {}
  BY <1>1
<1>5. T # {}
  <2>1. PICK z \in S : \A i \in S : list[i].price <= list[z].price
    BY <1>4, Dearest DEF S
  <2>2. UpTo(list, list[z].price) = S
    BY <2>1 DEF UpTo, S
  <2>3. list[z].price \in P
    BY <2>1 DEF P, S
  <2>4. QED
    BY <1>1, <2>2, <2>3 DEF T
<1>6. v \in T /\ \A p \in T : v <= p
  <2>1. T \in SUBSET {list[i].price : i \in DOMAIN list}
    BY DEF T, P
  <2>2. QED
    BY <1>3, <1>5, <2>1, LeastPrice
<1>7. v \in Int /\ v \in P /\ Cardinality(UpTo(list, v)) >= k
  <2>1. v \in P /\ Cardinality(UpTo(list, v)) >= k
    BY <1>6 DEF T
  <2>2. QED
    BY <1>1, <2>1 DEF P, S
<1>8. Cardinality(Below(list, v)) < k /\ Cardinality(Below(list, v)) \in Nat
  <2>1. Below(list, v) \in SUBSET S
    BY DEF Below, S
  <2>2. CASE Below(list, v) = {}
    <3>1. Cardinality(Below(list, v)) = 0
      BY <2>2, FS_EmptySet
    <3>2. QED
      BY <1>1, <3>1
  <2>3. CASE Below(list, v) # {}
    <3>1. PICK z \in Below(list, v) : \A i \in Below(list, v) : list[i].price <= list[z].price
      BY <2>1, <2>3, Dearest DEF S
    <3>2. z \in S /\ list[z].price < v /\ list[z].price \in Int /\ list[z].price \in P
      BY <1>1, <3>1 DEF Below, S, P
    <3>3. Below(list, v) = UpTo(list, list[z].price)
      <4>1. \A i \in S : list[i].price < v <=> list[i].price <= list[z].price
        <5> SUFFICES ASSUME NEW i \in S
                     PROVE  list[i].price < v <=> list[i].price <= list[z].price
          OBVIOUS
        <5>1. list[i].price < v => list[i].price <= list[z].price
          BY <3>1 DEF Below, S
        <5>2. list[i].price \in Int
          BY <1>1
        <5>3. QED
          BY <1>7, <3>2, <5>1, <5>2
      <4>2. QED
        BY <4>1 DEF Below, UpTo, S
    <3>4. list[z].price \notin T
      BY <1>6, <1>7, <3>2
    <3>5. ~(Cardinality(Below(list, v)) >= k)
      BY <3>2, <3>3, <3>4 DEF T
    <3>6. QED
      BY <1>1, <1>2, <2>1, <3>5
  <2>4. QED
    BY <2>2, <2>3
<1>9. Cardinality(From(list, v)) = n - Cardinality(Below(list, v))
  <2>1. Below(list, v) \in SUBSET S /\ From(list, v) = S \ Below(list, v)
    <3>1. \A i \in S : list[i].price >= v <=> ~(list[i].price < v)
      BY <1>1, <1>7
    <3>2. QED
      BY <3>1 DEF Below, From, S
  <2>2. Cardinality(S \ Below(list, v)) = Cardinality(S) - Cardinality(S \cap Below(list, v))
    BY <1>1, FS_Difference
  <2>3. S \cap Below(list, v) = Below(list, v)
    BY <2>1
  <2>4. QED
    BY <1>1, <2>1, <2>2, <2>3
<1>10. UpTo(list, v) \in SUBSET S /\ From(list, v) \in SUBSET S
  BY DEF UpTo, From, S
<1>11. QED
  BY <1>1, <1>2, <1>7, <1>8, <1>9, <1>10 DEF IsRank, v

LEMMA PercentileInRange ==
  ASSUME NEW n \in Nat \ {0}
  PROVE  /\ PercentileRank(n, CheapPercentile) \in 1 .. n
         /\ 100 * PercentileRank(n, CheapPercentile) >= 35 * n
         /\ PercentileRank(n, ExpensivePercentile) \in 1 .. n
         /\ 100 * (n - PercentileRank(n, ExpensivePercentile) + 1) >= 30 * n
BY DEF PercentileRank, CheapPercentile, ExpensivePercentile

\* The levels of a day of any length.
LEMMA LevelsOfDay ==
  ASSUME NEW day \in Seq(AnySlot), day # << >>
  PROVE  RanksPrices(day)
<1> DEFINE idx == NewPriceIndex(day)
           n == Len(day)
           c == PercentileRank(n, CheapPercentile)
           e == PercentileRank(n, ExpensivePercentile)
           At(level) == {i \in DOMAIN day : Level(idx, day[i]) = level}
           Dearer == {i \in DOMAIN day : day[i].price >= idx.exp}
<1>1. n \in Nat \ {0} /\ DOMAIN day = 1 .. n
  OBVIOUS
<1>2. idx.cheap = Ranked(day, c) /\ idx.exp = Ranked(day, e)
  BY <1>1 DEF NewPriceIndex
<1>3. c \in 1 .. n /\ 100 * c >= 35 * n /\ e \in 1 .. n /\ 100 * (n - e + 1) >= 30 * n
  BY <1>1, PercentileInRange
<1> HIDE DEF idx
<1>4. IsRank(day, c, idx.cheap) /\ IsRank(day, e, idx.exp)
  <2> HIDE DEF c, e
  <2>1. IsRank(day, c, Ranked(day, c)) /\ IsRank(day, e, Ranked(day, e))
    BY <1>3, RankedIsRank
  <2>2. QED
    BY <1>2, <2>1
<1> HIDE DEF c, e
<1>5. idx.cheap \in Int /\ idx.exp \in Int /\ \A i \in DOMAIN day : day[i].price \in Int
  BY <1>1, <1>4, SlotTypes DEF IsRank
<1>6. CASE idx.cheap = 0 /\ idx.exp = 0
  BY <1>6 DEF RanksPrices, idx
<1>7. CASE ~(idx.cheap = 0 /\ idx.exp = 0)
  <2>1. \A i \in DOMAIN day :
          /\ Level(idx, day[i]) = "cheap" <=> day[i].price <= idx.cheap
          /\ Level(idx, day[i]) = "average" => day[i].price < idx.exp
          /\ Level(idx, day[i]) = "expensive" => day[i].price >= idx.exp
          /\ Level(idx, day[i]) # "unknown"
    <3> SUFFICES ASSUME NEW i \in DOMAIN day
                 PROVE  /\ Level(idx, day[i]) = "cheap" <=> day[i].price <= idx.cheap
                        /\ Level(idx, day[i]) = "average" => day[i].price < idx.exp
                        /\ Level(idx, day[i]) = "expensive" => day[i].price >= idx.exp
                        /\ Level(idx, day[i]) # "unknown"
      OBVIOUS
    <3>1. day[i].price \in Int
      BY <1>5
    <3>2. QED
      BY <1>5, <1>7, <3>1 DEF Level
  <2>2. At("cheap") = UpTo(day, idx.cheap) /\ Dearer = From(day, idx.exp)
    BY <2>1 DEF UpTo, From
  <2>3. \A i \in At("cheap"), j \in DOMAIN day \ At("cheap") : day[i].price < day[j].price
    <3> SUFFICES ASSUME NEW i \in At("cheap"), NEW j \in DOMAIN day \ At("cheap")
                 PROVE  day[i].price < day[j].price
      OBVIOUS
    <3>1. i \in DOMAIN day /\ j \in DOMAIN day
          /\ day[i].price <= idx.cheap /\ ~(day[j].price <= idx.cheap)
      BY <2>1
    <3>2. QED
      BY <1>5, <3>1
  <2>4. \A i \in At("average"), j \in At("expensive") : day[i].price < day[j].price
    <3> SUFFICES ASSUME NEW i \in At("average"), NEW j \in At("expensive")
                 PROVE  day[i].price < day[j].price
      OBVIOUS
    <3>1. i \in DOMAIN day /\ j \in DOMAIN day /\ day[i].price < idx.exp /\ day[j].price >= idx.exp
      BY <2>1
    <3>2. QED
      BY <1>5, <3>1
  <2>5. At("unknown") = {}
    BY <2>1
  <2> HIDE DEF At, Dearer
  <2>6. 100 * Cardinality(At("cheap")) >= 35 * n
    BY <1>1, <1>3, <1>4, <2>2 DEF IsRank
  <2>7. 100 * Cardinality(Dearer) >= 30 * n
    BY <1>1, <1>3, <1>4, <2>2 DEF IsRank
  <2>8. QED
    BY <2>3, <2>4, <2>5, <2>6, <2>7 DEF RanksPrices, At, Dearer, idx
<1>8. QED
  BY <1>6, <1>7

-------------------------------------------------------------------------------
(* What the announcement says.                                             *)

LEMMA MidnightIsAhead ==
  ASSUME now \in Nat
  PROVE  Midnight(now) \in Int /\ now < Midnight(now)
<1>1. Day \in Nat \ {0}
  BY DayAssumption
<1>2. now \div Day \in Int /\ now = (now \div Day) * Day + (now % Day) /\ now % Day \in 0 .. Day - 1
  BY <1>1
<1>3. (now \div Day + 1) * Day = (now \div Day) * Day + Day /\ (now \div Day) * Day \in Int
  BY <1>1, <1>2
<1> DEFINE w == (now \div Day) * Day
<1>4. now = w + (now % Day) /\ (now \div Day + 1) * Day = w + Day /\ w \in Int
  BY <1>2, <1>3
<1> HIDE DEF w
<1>5. QED
  BY <1>1, <1>2, <1>4 DEF Midnight

\* The rest of the day is a part of the list.
LEMMA TodayIsPart ==
  ASSUME NEW day, Listed(day), now \in Nat
  PROVE  \E a \in 1 .. Len(day) + 1, b \in 0 .. Len(day) :
           /\ a <= b + 1
           /\ SlotsInRange(day, now, Midnight(now)) = SubSeq(day, a, b)
           /\ Today(day) = a .. b
<1> DEFINE midnight == Midnight(now)
<1>1. now \in Int /\ midnight \in Int
  BY MidnightIsAhead
<1> HIDE DEF midnight
<1>2. PartAt(day, SlotsInRange(day, now, midnight),
             {i \in OverAfter(day, now) : day[i].from < midnight})
  BY <1>1, RangeIsPart
<1>3. DOMAIN day = 1 .. Len(day)
  BY DEF Listed
<1>4. {i \in OverAfter(day, now) : day[i].from < midnight} = Today(day)
  BY <1>3 DEF OverAfter, Today, midnight
<1>5. QED
  BY <1>2, <1>4 DEF PartAt, midnight

\* The first window of a kind begins with the first slot of that kind and goes on until
\* the kind changes, or the sign for negative prices.
FirstIs(day, idx, kind, W, S) ==
  \/ W = {} /\ S = {}
  \/ /\ W # {} /\ S # {}
     /\ Min(S) \in S /\ \A i \in S : Min(S) <= i
     /\ \E q \in Today(day) :
          /\ FirstWindow(W) = WindowOf(day, Min(S), q)
          /\ Min(S) .. q \subseteq S
          /\ kind # "negative" => q + 1 \notin S

LEMMA FirstWindowIs ==
  ASSUME NEW day, Listed(day), now \in Nat, NEW idx, idx.slots = day, NEW kind \in Kinds
  PROVE  FirstIs(day, idx, kind, Summary(idx, now, Midnight(now))[kind], OfKind(day, idx, kind))
<1> DEFINE W == Summary(idx, now, Midnight(now))[kind]
           S == OfKind(day, idx, kind)
           m == Min(S)
<1>1. PICK a \in 1 .. Len(day) + 1, b \in 0 .. Len(day) :
           /\ a <= b + 1
           /\ SlotsInRange(day, now, Midnight(now)) = SubSeq(day, a, b)
           /\ Today(day) = a .. b
  BY TodayIsPart
<1>2. day \in Seq(AnySlot)
  BY DEF Listed
<1>3. \A w : w \in W <=> \E p, q \in a .. b : /\ Whole(day, idx, a, b, p, q)
                                              /\ Kind(idx, day[p]) = kind
                                              /\ w = WindowOf(day, p, q)
  <2>1. WindowsMatch(day, idx, now, Midnight(now), a, b)
    BY <1>1, <1>2, WindowsAre
  <2>2. QED
    BY <2>1 DEF WindowsMatch, Kinds
<1>4. a .. b \in SUBSET (1 .. Len(day)) /\ Len(day) \in Nat /\ a .. b \in SUBSET Nat
  BY <1>1, <1>2
<1>5. \A i : i \in S <=> i \in a .. b /\ Kind(idx, day[i]) = kind
  BY <1>1 DEF OfKind
<1> HIDE DEF W, S, m
<1>6. ASSUME S = {}
      PROVE  W = {}
  BY <1>3, <1>5, <1>6
<1>7. ASSUME S # {}
      PROVE  FirstIs(day, idx, kind, W, S)
  <2>1. m \in S /\ \A i \in S : m <= i
    <3>1. S \in SUBSET Nat
      BY <1>4, <1>5
    <3>2. QED
      BY <1>7, <3>1, LeastOf DEF m
  <2>2. m \in a .. b /\ Kind(idx, day[m]) = kind
    BY <1>5, <2>1
  <2>3. InOneWhole(day, idx, a, b, m)
    BY <1>2, <2>2, OneWhole
  <2>4. PICK p \in a .. b, q \in a .. b : Whole(day, idx, a, b, p, q) /\ m \in p .. q
    BY <2>3 DEF InOneWhole
  <2>5. p = m
    <3>1. Kind(idx, day[p]) = kind
      BY <2>2, <2>4, WholeIsOfAKind
    <3>2. p \in S
      BY <1>5, <3>1
    <3>3. m <= p /\ m >= p
      BY <2>1, <2>4, <3>2
    <3>4. QED
      BY <1>4, <2>2, <3>3
  <2> DEFINE w == WindowOf(day, m, q)
  <2>6. w \in W /\ w.from = day[m].from
    BY <1>3, <2>2, <2>4, <2>5 DEF WindowOf
  <2>7. ASSUME NEW v \in W
        PROVE  w.from <= v.from /\ (v.from <= w.from => v = w)
    <3>1. PICK r \in a .. b, t \in a .. b : /\ Whole(day, idx, a, b, r, t)
                                            /\ Kind(idx, day[r]) = kind
                                            /\ v = WindowOf(day, r, t)
      BY <1>3
    <3>2. r \in S /\ m <= r /\ v.from = day[r].from
      BY <1>5, <2>1, <3>1 DEF WindowOf
    <3>3. r \in 1 .. Len(day) /\ m \in 1 .. Len(day)
      BY <1>4, <2>2
    <3>4. /\ (m <= r) <=> (day[m].from <= day[r].from)
          /\ (r <= m) <=> (day[r].from <= day[m].from)
      BY <3>3, SlotsInOrder
    <3>5. ASSUME v.from <= w.from
          PROVE  v = w
      <4>1. r = m
        BY <2>6, <3>2, <3>3, <3>4, <3>5
      <4>2. m \in r .. t
        BY <3>1, <3>3, <4>1 DEF Whole
      <4>3. t = q
        BY <2>3, <2>4, <2>5, <3>1, <4>1, <4>2 DEF InOneWhole
      <4>4. QED
        BY <3>1, <4>1, <4>3
    <3>6. QED
      BY <2>6, <3>2, <3>4, <3>5
  <2> HIDE DEF w
  <2>8. FirstWindow(W) = w
    BY <2>6, <2>7 DEF FirstWindow
  <2>9. m .. q \subseteq S
    <3> SUFFICES ASSUME NEW i \in m .. q
                 PROVE  i \in S
      OBVIOUS
    <3>1. Kind(idx, day[i]) = kind
      BY <2>2, <2>4, <2>5, WholeIsOfAKind
    <3>2. i \in a .. b
      BY <1>1, <2>2
    <3>3. QED
      BY <1>5, <3>1, <3>2
  <2>10. ASSUME kind # "negative", q + 1 \in S
         PROVE  FALSE
    <3>1. q + 1 \in a .. b /\ Kind(idx, day[q + 1]) = kind
      BY <1>5, <2>10
    <3>2. q < b
      BY <1>1, <3>1
    <3>3. Tag(idx, day[q + 1]) # Tag(idx, day[m])
      BY <2>4, <2>5, <3>2 DEF Whole
    <3>4. /\ (day[q + 1].price < 0) = FALSE /\ (day[m].price < 0) = FALSE
          /\ Level(idx, day[q + 1]) = Level(idx, day[m])
      BY <2>2, <2>10, <3>1 DEF Kind
    <3>5. QED
      BY <3>3, <3>4 DEF Tag
  <2>11. q \in Today(day)
    BY <1>1
  <2>12. W # {}
    BY <2>6
  <2>13. FirstWindow(W) = WindowOf(day, Min(S), q)
    BY <2>8 DEF w, m
  <2>14. QED
    BY <1>7, <2>1, <2>9, <2>10, <2>11, <2>12, <2>13 DEF FirstIs, m
<1>8. QED
  BY <1>6, <1>7 DEF FirstIs, W, S

\* A statement about the first window of a kind gives one end of it.
GivesEdge(statements, W, what, at) ==
  /\ \A m \in statements : W # {} /\ m.what = what /\ m.at = at
  /\ W # {} => \E m \in statements : m.what = what

LEMMA AboutSays ==
  ASSUME NEW W, NEW what, NEW edge
  PROVE  GivesEdge(About(W, what, edge), W, what, FirstWindow(W)[edge])
<1> DEFINE at == FirstWindow(W)[edge]
<1>1. About(W, what, edge) = IF W = {} THEN {} ELSE {Says(what, at)}
  BY DEF About
<1>2. Says(what, at).what = what /\ Says(what, at).at = at
  BY DEF Says
<1> HIDE DEF at
<1>3. GivesEdge(About(W, what, edge), W, what, at)
  BY <1>1, <1>2 DEF GivesEdge
<1>4. QED
  BY <1>3 DEF at

\* Whatever the tone, the statements that count are about the first windows.
Claims(said, s, current, morning) ==
  /\ \A m \in said :
       /\ m.what = "cheap from" => s.cheap # {} /\ m.at = FirstWindow(s.cheap).from
       /\ m.what = "expensive from" => s.expensive # {} /\ m.at = FirstWindow(s.expensive).from
       /\ m.what = "negative from" => s.negative # {} /\ m.at = FirstWindow(s.negative).from
       /\ m.what = "cheap until" => /\ s.cheap # {} /\ m.at = FirstWindow(s.cheap).till
                                    /\ morning \/ current = "cheap"
       /\ m.what = "cheap now" => current = "cheap"
       /\ m.what = "expensive now" => current = "expensive"
       /\ m.what = "moderate now" => current # "cheap" /\ current # "expensive"
  /\ morning =>
       /\ s.cheap # {} => \E m \in said : m.what = "cheap from"
       /\ s.expensive # {} => \E m \in said : m.what = "expensive from"
       /\ s.negative # {} => \E m \in said : m.what = "negative from"

LEMMA MorningClaims ==
  ASSUME NEW s, NEW current
  PROVE  Claims(FormatMorning(s), s, current, TRUE)
<1> DEFINE N == About(s.negative, "negative from", "from")
           C == About(s.cheap, "cheap from", "from")
           U == About(s.cheap, "cheap until", "till")
           E == About(s.expensive, "expensive from", "from")
<1>1. PICK tone \in {"flat", "good day", "high today", "mixed"} :
           FormatMorning(s) = {Says(tone, 0)} \union N \union C \union U \union E
  <2> DEFINE good == s.cheap # {} /\ s.expensive = {}
             high == s.cheap = {} /\ s.expensive # {}
             tone == IF s.cheap = {} /\ s.expensive = {} /\ s.negative = {} THEN "flat"
                     ELSE IF good THEN "good day" ELSE IF high THEN "high today" ELSE "mixed"
  <2>1. FormatMorning(s) = {Says(tone, 0)} \union N \union C \union U \union E
    BY DEF FormatMorning
  <2>2. tone \in {"flat", "good day", "high today", "mixed"}
    OBVIOUS
  <2> HIDE DEF tone, N, C, U, E
  <2>3. QED
    BY <2>1, <2>2
<1>2. /\ \A m \in N : s.negative # {} /\ m.what = "negative from" /\ m.at = FirstWindow(s.negative).from
      /\ \A m \in C : s.cheap # {} /\ m.what = "cheap from" /\ m.at = FirstWindow(s.cheap).from
      /\ \A m \in U : s.cheap # {} /\ m.what = "cheap until" /\ m.at = FirstWindow(s.cheap).till
      /\ \A m \in E : s.expensive # {} /\ m.what = "expensive from"
                      /\ m.at = FirstWindow(s.expensive).from
      /\ s.negative # {} => \E m \in N : m.what = "negative from"
      /\ s.cheap # {} => \E m \in C : m.what = "cheap from"
      /\ s.expensive # {} => \E m \in E : m.what = "expensive from"
  <2>1. /\ GivesEdge(N, s.negative, "negative from", FirstWindow(s.negative)["from"])
        /\ GivesEdge(C, s.cheap, "cheap from", FirstWindow(s.cheap)["from"])
        /\ GivesEdge(U, s.cheap, "cheap until", FirstWindow(s.cheap)["till"])
        /\ GivesEdge(E, s.expensive, "expensive from", FirstWindow(s.expensive)["from"])
    BY AboutSays
  <2> HIDE DEF N, C, U, E
  <2>2. QED
    BY <2>1 DEF GivesEdge
<1>3. \A m \in {Says(tone, 0)} : m.what \in {"flat", "good day", "high today", "mixed"}
  <2>1. Says(tone, 0).what = tone
    BY DEF Says
  <2>2. QED
    BY <2>1
<1> HIDE DEF N, C, U, E
<1>4. \A m \in FormatMorning(s) : m \in {Says(tone, 0)} \/ m \in N \/ m \in C \/ m \in U \/ m \in E
  BY <1>1
<1>5. N \subseteq FormatMorning(s) /\ C \subseteq FormatMorning(s) /\ E \subseteq FormatMorning(s)
  BY <1>1
<1>6. QED
  BY <1>2, <1>3, <1>4, <1>5 DEF Claims

LEMMA AfternoonClaims ==
  ASSUME NEW s, NEW current
  PROVE  Claims(FormatAfternoon(current, s), s, current, FALSE)
<1> DEFINE said == FormatAfternoon(current, s)
           C == About(s.cheap, "cheap from", "from")
           U == About(s.cheap, "cheap until", "till")
           E == About(s.expensive, "expensive from", "from")
<1>1. /\ \A m \in C : s.cheap # {} /\ m.what = "cheap from" /\ m.at = FirstWindow(s.cheap).from
      /\ \A m \in U : s.cheap # {} /\ m.what = "cheap until" /\ m.at = FirstWindow(s.cheap).till
      /\ \A m \in E : s.expensive # {} /\ m.what = "expensive from"
                      /\ m.at = FirstWindow(s.expensive).from
  <2>1. /\ GivesEdge(C, s.cheap, "cheap from", FirstWindow(s.cheap)["from"])
        /\ GivesEdge(U, s.cheap, "cheap until", FirstWindow(s.cheap)["till"])
        /\ GivesEdge(E, s.expensive, "expensive from", FirstWindow(s.expensive)["from"])
    BY AboutSays
  <2> HIDE DEF C, U, E
  <2>2. QED
    BY <2>1 DEF GivesEdge
<1>2. \A what : Says(what, 0).what = what
  BY DEF Says
<1>3. CASE current = "cheap"
  <2>1. said = {Says("cheap now", 0)} \union U
                 \union (IF s.expensive = {} THEN {} ELSE {Says("expensive after", 0)})
    BY <1>3 DEF FormatAfternoon
  <2> HIDE DEF said, C, U, E
  <2>2. \A m \in said : m.what = "cheap now" \/ m.what = "expensive after" \/ m \in U
    BY <1>2, <2>1
  <2>3. QED
    BY <1>1, <1>3, <2>2 DEF Claims, said
<1>4. CASE current = "expensive"
  <2>1. said = {Says("expensive now", 0)} \union C
    BY <1>4 DEF FormatAfternoon
  <2> HIDE DEF said, C, U, E
  <2>2. \A m \in said : m.what = "expensive now" \/ m \in C
    BY <1>2, <2>1
  <2>3. QED
    BY <1>1, <1>4, <2>2 DEF Claims, said
<1>5. CASE current # "cheap" /\ current # "expensive"
  <2>1. said = IF s.cheap = {} /\ s.expensive = {} THEN {Says("nothing ahead", 0)}
               ELSE {Says("moderate now", 0)} \union C \union E
    BY <1>5 DEF FormatAfternoon
  <2> HIDE DEF said, C, U, E
  <2>2. \A m \in said : m.what = "nothing ahead" \/ m.what = "moderate now" \/ m \in C \/ m \in E
    BY <1>2, <2>1
  <2>3. QED
    BY <1>1, <1>5, <2>2 DEF Claims, said
<1>6. QED
  BY <1>3, <1>4, <1>5

\* The level of the present slot.
Present(idx, t) ==
  LET at == SelectInSeq(idx.slots, LAMBDA slot : Holds(slot, t))
  IN IF at = 0 THEN "unknown" ELSE Level(idx, idx.slots[at])

LEMMA ClaimsOf ==
  ASSUME NEW idx, NEW t, NEW midnight, NEW morning \in BOOLEAN
  PROVE  Claims(HandleOnDemand(idx, t, midnight, morning), Summary(idx, t, midnight),
                Present(idx, t), morning)
<1> DEFINE s == Summary(idx, t, midnight)
           current == Present(idx, t)
<1>1. HandleOnDemand(idx, t, midnight, morning)
      = IF morning THEN FormatMorning(s) ELSE FormatAfternoon(current, s)
  BY DEF HandleOnDemand, Present
<1> HIDE DEF s, current
<1>2. CASE morning = TRUE
  BY <1>1, <1>2, MorningClaims DEF s, current
<1>3. CASE morning = FALSE
  BY <1>1, <1>3, AfternoonClaims DEF s, current
<1>4. QED
  BY <1>2, <1>3

\* The level that is announced is that of the slot in progress.
LEMMA PresentIs ==
  ASSUME NEW idx, NEW t
  PROVE  \/ SlotAt(idx.slots, t) = {} /\ Present(idx, t) = "unknown"
         \/ \E p : SlotAt(idx.slots, t) = {p} /\ Present(idx, t) = Level(idx, p)
<1> DEFINE at == SelectInSeq(idx.slots, LAMBDA slot : Holds(slot, t))
<1>1. /\ SlotAt(idx.slots, t) = IF at = 0 THEN {} ELSE {idx.slots[at]}
      /\ Present(idx, t) = IF at = 0 THEN "unknown" ELSE Level(idx, idx.slots[at])
  BY DEF SlotAt, Present
<1> HIDE DEF at
<1>2. QED
  BY <1>1

LEMMA ThresholdTypes ==
  ASSUME NEW day \in Seq(AnySlot), day # << >>
  PROVE  NewPriceIndex(day).cheap \in Int /\ NewPriceIndex(day).exp \in Int
<1> DEFINE n == Len(day)
           c == PercentileRank(n, CheapPercentile)
           e == PercentileRank(n, ExpensivePercentile)
<1>1. n \in Nat \ {0}
  OBVIOUS
<1>2. NewPriceIndex(day).cheap = Ranked(day, c) /\ NewPriceIndex(day).exp = Ranked(day, e)
  BY <1>1 DEF NewPriceIndex
<1>3. c \in 1 .. n /\ e \in 1 .. n
  BY <1>1, PercentileInRange
<1> HIDE DEF c, e
<1>4. IsRank(day, c, Ranked(day, c)) /\ IsRank(day, e, Ranked(day, e))
  BY <1>3, RankedIsRank
<1>5. QED
  BY <1>2, <1>4 DEF IsRank

\* The announcement of any day.
LEMMA AnnouncementOfDay ==
  ASSUME NEW day, Listed(day), day # << >>, now \in Nat, NEW morning \in BOOLEAN
  PROVE  TellsTheTruth(day, morning)
<1> DEFINE idx == NewPriceIndex(day)
           s == Summary(idx, now, Midnight(now))
           said == HandleOnDemand(idx, now, Midnight(now), morning)
           current == Present(idx, now)
           S(kind) == OfKind(day, idx, kind)
<1>1. idx.slots = day /\ day \in Seq(AnySlot) /\ idx.cheap \in Int /\ idx.exp \in Int
  BY IndexKeepsSlots, ThresholdTypes DEF Listed
<1>2. \A i \in 1 .. Len(day) : day[i].from \in Int /\ day[i].till \in Int /\ day[i].price \in Int
  BY SlotsInOrder
<1> HIDE DEF idx
<1>3. \A kind \in Kinds : FirstIs(day, idx, kind, s[kind], S(kind))
  BY <1>1, FirstWindowIs
<1>4. Claims(said, s, current, morning)
  BY ClaimsOf
<1>5. \/ SlotAt(day, now) = {} /\ current = "unknown"
      \/ \E p : SlotAt(day, now) = {p} /\ current = Level(idx, p)
  BY <1>1, PresentIs
<1>6. PresentFound(day)
  BY PresentIsFirst
<1>7. s.cheap = s["cheap"] /\ s.expensive = s["expensive"] /\ s.negative = s["negative"]
  OBVIOUS
<1>8. TellsTheTruth(day, morning) <=>
        /\ NamesKinds(day, idx, said, morning)
        /\ \A m \in said : m.what = "cheap until" => EndsStretch(day, idx, m.at, morning)
        /\ NamesPresent(day, idx, said)
  BY DEF TellsTheTruth, idx
<1> HIDE DEF s, said, current, S
<1>9. ASSUME NEW kind \in Kinds, s[kind] # {}
      PROVE  S(kind) # {} /\ FirstWindow(s[kind]).from = day[Min(S(kind))].from
  <2>1. FirstIs(day, idx, kind, s[kind], S(kind))
    BY <1>3
  <2>2. S(kind) # {} /\ \E q : FirstWindow(s[kind]) = WindowOf(day, Min(S(kind)), q)
    BY <1>9, <2>1 DEF FirstIs
  <2>3. QED
    BY <2>2 DEF WindowOf
<1>10. NamesKinds(day, idx, said, morning)
  <2>1. DOMAIN Beginning = Kinds
    BY DEF Beginning, Kinds
  <2> SUFFICES ASSUME NEW kind \in Kinds
               PROVE  /\ \A m \in said : m.what = Beginning[kind] =>
                           S(kind) # {} /\ m.at = day[Min(S(kind))].from
                      /\ morning /\ S(kind) # {} => \E m \in said : m.what = Beginning[kind]
    BY <2>1 DEF NamesKinds, S
  <2>2. /\ \A m \in said : m.what = Beginning[kind] =>
             s[kind] # {} /\ m.at = FirstWindow(s[kind]).from
        /\ morning /\ s[kind] # {} => \E m \in said : m.what = Beginning[kind]
    <3>1. CASE kind = "cheap"
      BY <1>4, <3>1 DEF Claims, Beginning
    <3>2. CASE kind = "expensive"
      BY <1>4, <3>2 DEF Claims, Beginning
    <3>3. CASE kind = "negative"
      BY <1>4, <3>3 DEF Claims, Beginning
    <3>4. QED
      BY <3>1, <3>2, <3>3 DEF Kinds
  <2>3. S(kind) # {} => s[kind] # {}
    BY <1>3 DEF FirstIs
  <2>4. QED
    BY <1>9, <2>2, <2>3
<1>11. ASSUME NEW m \in said, m.what = "cheap until"
       PROVE  EndsStretch(day, idx, m.at, morning)
  <2> DEFINE cheap == S("cheap")
             last == CHOOSE i \in Today(day) : day[i].till = m.at
             negative == \E i \in S("negative") : Holds(day[i], now)
  <2>1. s["cheap"] # {} /\ m.at = FirstWindow(s["cheap"]).till /\ (morning \/ current = "cheap")
    BY <1>4, <1>7, <1>11 DEF Claims
  <2>2. FirstIs(day, idx, "cheap", s["cheap"], cheap)
    BY <1>3 DEF Kinds
  <2> HIDE DEF cheap
  <2>3. /\ cheap # {} /\ Min(cheap) \in cheap
        /\ \A i \in cheap : Min(cheap) <= i
    BY <2>1, <2>2 DEF FirstIs
  <2>4. PICK q \in Today(day) : /\ FirstWindow(s["cheap"]) = WindowOf(day, Min(cheap), q)
                                /\ Min(cheap) .. q \subseteq cheap
                                /\ q + 1 \notin cheap
    BY <2>1, <2>2 DEF FirstIs
  <2>5. m.at = day[q].till
    BY <2>1, <2>4 DEF WindowOf
  <2>6. Today(day) \in SUBSET (1 .. Len(day)) /\ Len(day) \in Nat
    BY <1>1 DEF Today
  <2>7. ASSUME NEW i \in Today(day), day[i].till = m.at
        PROVE  i = q
    <3>1. /\ (i <= q) <=> (day[i].till <= day[q].till)
          /\ (q <= i) <=> (day[q].till <= day[i].till)
          /\ i \in Int /\ q \in Int
      BY <2>6, SlotsInOrder
    <3>2. i <= q /\ q <= i
      BY <1>2, <2>5, <2>6, <2>7, <3>1
    <3>3. QED
      BY <3>1, <3>2
  <2>8. last = q
    BY <2>4, <2>5, <2>7
  <2>9. ASSUME ~morning, ~negative
        PROVE  day[Min(cheap)].from <= now
    <3>1. SlotAt(day, now) # {} /\ current = "cheap"
      BY <1>5, <2>1, <2>9
    <3>2. PICK p \in 1 .. Len(day) : /\ p \in SlotsAhead(day) /\ SlotAt(day, now) = {day[p]}
                                     /\ day[p].from <= now /\ now < day[p].till
      BY <1>6, <3>1 DEF PresentFound
    <3>3. Level(idx, day[p]) = "cheap"
      BY <1>5, <3>1, <3>2
    <3>4. p \in Today(day)
      <4>1. day[p].from \in Int /\ Midnight(now) \in Int /\ now < Midnight(now)
        BY <1>2, MidnightIsAhead
      <4>2. day[p].from < Midnight(now)
        BY <3>2, <4>1
      <4>3. QED
        BY <3>2, <4>2 DEF SlotsAhead, Today
    <3>5. p \notin S("negative")
      BY <2>9, <3>2 DEF Holds
    <3>6. p \in cheap
      BY <3>3, <3>4, <3>5 DEF cheap, S, OfKind, Kind
    <3>7. Min(cheap) <= p /\ Min(cheap) \in 1 .. Len(day)
      <4>1. cheap \in SUBSET (1 .. Len(day))
        BY <2>6 DEF cheap, S, OfKind
      <4>2. QED
        BY <2>3, <3>6, <4>1
    <3>8. day[Min(cheap)].from <= day[p].from
      BY <3>7, SlotsInOrder
    <3>9. QED
      BY <1>2, <3>2, <3>7, <3>8
  <2>10. EndsStretch(day, idx, m.at, morning) <=>
           /\ Min(cheap) .. last \subseteq cheap
           /\ last + 1 \notin cheap
           /\ ~morning /\ ~negative => day[Min(cheap)].from <= now
    BY DEF EndsStretch, cheap, S
  <2> HIDE DEF last, negative
  <2>11. QED
    BY <2>4, <2>8, <2>9, <2>10
<1>12. NamesPresent(day, idx, said)
  <2> DEFINE Said(what) == \E m \in said : m.what = what
  <2>1. /\ Said("cheap now") => current = "cheap"
        /\ Said("expensive now") => current = "expensive"
        /\ Said("moderate now") => current # "cheap" /\ current # "expensive"
    BY <1>4 DEF Claims
  <2>2. \A p \in SlotAt(day, now) : p.price \in Int /\ current = Level(idx, p)
    <3>1. ASSUME NEW p \in SlotAt(day, now)
          PROVE  p.price \in Int
      <4>1. \E i \in 1 .. Len(day) : SlotAt(day, now) = {day[i]}
        BY <1>6, <3>1 DEF PresentFound
      <4>2. QED
        BY <1>2, <3>1, <4>1
    <3>2. QED
      BY <1>5, <3>1
  <2>3. current # "unknown" => \E p : p \in SlotAt(day, now)
    BY <1>5
  <2>4. \A p \in SlotAt(day, now) :
          /\ current = "cheap" => p.price <= idx.cheap
          /\ current = "expensive" => p.price >= idx.exp
          /\ current # "cheap" /\ current # "expensive" =>
               (idx.cheap = 0 /\ idx.exp = 0) \/ (idx.cheap < p.price /\ p.price < idx.exp)
    BY <1>1, <2>2 DEF Level
  <2> HIDE DEF Said
  <2>5. NamesPresent(day, idx, said) <=>
          /\ Said("cheap now") => \E p \in SlotAt(day, now) : p.price <= idx.cheap
          /\ Said("expensive now") => \E p \in SlotAt(day, now) : p.price >= idx.exp
          /\ Said("moderate now") => \A p \in SlotAt(day, now) :
               \/ idx.cheap = 0 /\ idx.exp = 0
               \/ idx.cheap < p.price /\ p.price < idx.exp
    BY DEF NamesPresent, Said
  <2>6. QED
    BY <2>1, <2>3, <2>4, <2>5
<1>13. QED
  BY <1>8, <1>10, <1>11, <1>12

-------------------------------------------------------------------------------
(* The threshold for waiting.                                              *)

\* The threshold for each number of hours up to n.
Decaying(n, f) ==
  /\ f \in [0 .. n -> Nat]
  /\ f[0] = 2500
  /\ \A k \in 1 .. n : f[k] = (f[k - 1] * 8607) \div 10000

LEMMA DecayingExists ==
  ASSUME NEW n \in Nat
  PROVE  \E f : Decaying(n, f)
<1> DEFINE C == {k \in Nat : ~ \E f : Decaying(k, f)}
<1>1. SUFFICES ASSUME C # {}
               PROVE  FALSE
  OBVIOUS
<1>2. PICK k \in C : \A l \in C : k <= l
  <2>1. C \in SUBSET Nat
    OBVIOUS
  <2>2. QED
    BY <1>1, <2>1, NatLeast
<1>3. k \in Nat /\ ~ \E f : Decaying(k, f)
  OBVIOUS
<1>4. CASE k = 0
  <2> DEFINE f == [i \in 0 .. 0 |-> 2500]
  <2>1. f \in [0 .. 0 -> Nat] /\ f[0] = 2500
    OBVIOUS
  <2>2. Decaying(0, f)
    BY <2>1 DEF Decaying
  <2>3. QED
    BY <1>3, <1>4, <2>2
<1>5. CASE k # 0
  <2>1. k - 1 \in Nat /\ k - 1 \notin C
    BY <1>2, <1>3, <1>5
  <2>2. PICK h : Decaying(k - 1, h)
    BY <2>1
  <2> DEFINE x == (h[k - 1] * 8607) \div 10000
             f == [i \in 0 .. k |-> IF i = k THEN x ELSE h[i]]
  <2>3. h \in [0 .. k - 1 -> Nat] /\ h[k - 1] \in Nat /\ x \in Nat
    BY <1>3, <1>5, <2>2 DEF Decaying
  <2> HIDE DEF x
  <2>4. f \in [0 .. k -> Nat] /\ f[k] = x /\ \A i \in 0 .. k - 1 : f[i] = h[i]
    BY <1>3, <1>5, <2>3
  <2> HIDE DEF f
  <2>5. f[0] = 2500
    BY <1>3, <1>5, <2>2, <2>4 DEF Decaying
  <2>6. ASSUME NEW i \in 1 .. k
        PROVE  f[i] = (f[i - 1] * 8607) \div 10000
    <3>1. CASE i = k
      <4>1. f[i - 1] = h[k - 1]
        BY <1>3, <1>5, <2>4, <3>1
      <4>2. QED
        BY <2>4, <3>1, <4>1 DEF x
    <3>2. CASE i # k
      <4>1. i \in 1 .. k - 1 /\ i \in 0 .. k - 1 /\ i - 1 \in 0 .. k - 1
        BY <1>3, <3>2
      <4>2. h[i] = (h[i - 1] * 8607) \div 10000
        BY <2>2, <4>1 DEF Decaying
      <4>3. f[i] = h[i] /\ f[i - 1] = h[i - 1]
        BY <2>4, <4>1
      <4>4. QED
        BY <4>2, <4>3
    <3>3. QED
      BY <3>1, <3>2
  <2>7. Decaying(k, f)
    BY <2>4, <2>5, <2>6 DEF Decaying
  <2>8. QED
    BY <1>3, <2>7
<1>6. QED
  BY <1>4, <1>5

\* The thresholds for fewer hours do not depend on how many there are.
LEMMA DecayingAgree ==
  ASSUME NEW n \in Nat, NEW m \in Nat, m <= n, NEW f, Decaying(n, f), NEW h, Decaying(m, h)
  PROVE  \A k \in 0 .. m : f[k] = h[k]
<1> DEFINE C == {k \in 0 .. m : f[k] # h[k]}
<1>1. SUFFICES ASSUME C # {}
               PROVE  FALSE
  OBVIOUS
<1>2. PICK k \in C : \A l \in C : k <= l
  <2>1. C \in SUBSET Nat
    OBVIOUS
  <2>2. QED
    BY <1>1, <2>1, NatLeast
<1>3. k \in 0 .. m /\ f[k] # h[k]
  OBVIOUS
<1>4. CASE k = 0
  BY <1>3, <1>4 DEF Decaying
<1>5. CASE k # 0
  <2>1. k - 1 \in 0 .. m /\ k - 1 \notin C /\ k \in 1 .. m /\ k \in 1 .. n
    BY <1>2, <1>3, <1>5
  <2>2. f[k - 1] = h[k - 1]
    BY <2>1
  <2>3. f[k] = (f[k - 1] * 8607) \div 10000 /\ h[k] = (h[k - 1] * 8607) \div 10000
    BY <2>1 DEF Decaying
  <2>4. QED
    BY <1>3, <2>2, <2>3
<1>6. QED
  BY <1>4, <1>5

\* Decay is what its definition says.
DecayHolds ==
  /\ Decay[0] = 2500
  /\ \A k \in Nat : k > 0 => Decay[k] = (Decay[k - 1] * 8607) \div 10000

LEMMA DecayIs == DecayHolds
<1> DEFINE F(n) == CHOOSE f : Decaying(n, f)
           g == [n \in Nat |-> F(n)[n]]
           Body(d) == [hours \in Nat |-> IF hours = 0 THEN 2500 ELSE (d[hours - 1] * 8607) \div 10000]
<1>1. \A n \in Nat : Decaying(n, F(n))
  BY DecayingExists
<1> HIDE DEF F
<1>2. g = Body(g)
  <2>1. ASSUME NEW n \in Nat
        PROVE  g[n] = IF n = 0 THEN 2500 ELSE (g[n - 1] * 8607) \div 10000
    <3>1. CASE n = 0
      BY <1>1, <3>1 DEF Decaying
    <3>2. CASE n # 0
      <4>1. n - 1 \in Nat /\ n - 1 <= n /\ n \in 1 .. n /\ n - 1 \in 0 .. n - 1
        BY <3>2
      <4>2. F(n)[n - 1] = F(n - 1)[n - 1]
        BY <1>1, <4>1, DecayingAgree
      <4>3. F(n)[n] = (F(n)[n - 1] * 8607) \div 10000
        BY <1>1, <4>1 DEF Decaying
      <4>4. g[n] = F(n)[n] /\ g[n - 1] = F(n - 1)[n - 1]
        BY <4>1
      <4>5. QED
        BY <3>2, <4>2, <4>3, <4>4
    <3>3. QED
      BY <3>1, <3>2
  <2>2. g = [n \in Nat |-> g[n]]
    OBVIOUS
  <2> HIDE DEF g
  <2> DEFINE Then(n) == IF n = 0 THEN 2500 ELSE (g[n - 1] * 8607) \div 10000
  <2>3. \A n \in Nat : g[n] = Then(n)
    BY <2>1
  <2>4. Body(g) = [n \in Nat |-> Then(n)]
    OBVIOUS
  <2> HIDE DEF Then, Body
  <2>5. QED
    BY <2>2, <2>3, <2>4
<1>3. Decay = CHOOSE d : d = Body(d)
  BY DEF Decay
<1> HIDE DEF g, Body
<1>4. Decay = Body(Decay)
  BY <1>2, <1>3
<1>5. \A n \in Nat : Decay[n] = IF n = 0 THEN 2500 ELSE (Decay[n - 1] * 8607) \div 10000
  BY <1>4 DEF Body
<1>6. QED
  BY <1>5 DEF DecayHolds

LEMMA DecayType == \A k \in Nat : Decay[k] \in Nat
<1> DEFINE C == {k \in Nat : Decay[k] \notin Nat}
<1>1. SUFFICES ASSUME C # {}
               PROVE  FALSE
  OBVIOUS
<1>2. PICK k \in C : \A l \in C : k <= l
  <2>1. C \in SUBSET Nat
    OBVIOUS
  <2>2. QED
    BY <1>1, <2>1, NatLeast
<1>3. k \in Nat /\ Decay[k] \notin Nat
  OBVIOUS
<1>4. k # 0
  BY <1>3, DecayIs DEF DecayHolds
<1>5. k - 1 \in Nat /\ k - 1 \notin C
  BY <1>2, <1>3, <1>4
<1>6. Decay[k - 1] \in Nat
  BY <1>5
<1>7. Decay[k] = (Decay[k - 1] * 8607) \div 10000
  BY <1>3, <1>4, DecayIs DEF DecayHolds
<1>8. QED
  BY <1>3, <1>6, <1>7

\* Waiting takes savings, and for three hours at most those of more than a sixth.
LEMMA ThresholdIs ==
  ASSUME NEW hours \in Nat
  PROVE  /\ CalculateDynamicThreshold(hours) \in Nat \ {0}
         /\ hours <= 3 => CalculateDynamicThreshold(hours) >= 1793
<1>1. Decay[hours] \in Nat
  BY DecayType
<1>2. CASE hours > 3
  BY <1>1, <1>2 DEF CalculateDynamicThreshold
<1>3. CASE ~(hours > 3)
  <2>1. Decay[0] = 2500
    BY DecayIs DEF DecayHolds
  <2>2. Decay[1] = (Decay[0] * 8607) \div 10000
    BY DecayIs DEF DecayHolds
  <2>3. Decay[1] = 2151
    BY <2>1, <2>2
  <2>4. Decay[2] = (Decay[1] * 8607) \div 10000
    BY DecayIs DEF DecayHolds
  <2>5. Decay[2] = 1851
    BY <2>3, <2>4
  <2>6. Decay[3] = (Decay[2] * 8607) \div 10000
    BY DecayIs DEF DecayHolds
  <2>7. Decay[3] = 1593
    BY <2>5, <2>6
  <2>8. hours = 0 \/ hours = 1 \/ hours = 2 \/ hours = 3
    BY <1>3
  <2>9. QED
    BY <2>1, <2>3, <2>5, <2>7, <2>8 DEF CalculateDynamicThreshold
<1>4. QED
  BY <1>2, <1>3

-------------------------------------------------------------------------------
(* Weighted costs.                                                         *)

\* The members of each part of a list of numbers added up.
AddingNumbers(numbers) ==
  CHOOSE f : f = [s \in SUBSET (DOMAIN numbers) |->
                    IF s = {} THEN 0 ELSE f[s \ {Max(s)}] + numbers[Max(s)]]

\* A fold of integers by addition is an integer.
LEMMA NumbersAddUp ==
  ASSUME NEW numbers \in Seq(Int)
  PROVE  FoldLeft(+, 0, numbers) \in Int
<1> DEFINE m == Len(numbers)
           S == 1 .. m
           w == [k \in S |-> numbers[k]]
           pick == [s \in SUBSET S |-> Max(s)]
           Body(f) == [s \in SUBSET S |-> IF s = {} THEN 0 ELSE f[s \ {Max(s)}] + numbers[Max(s)]]
           it == AddingNumbers(numbers)
<1>1. m \in Nat /\ DOMAIN numbers = S
  OBVIOUS
<1>2. w \in [S -> Int] /\ \A k \in S : w[k] = numbers[k] /\ numbers[k] \in Int
  OBVIOUS
<1>3. IsFiniteSet(S)
  <2>1. 1 \in Int /\ m \in Int
    BY <1>1
  <2>2. QED
    BY <2>1, FS_Interval
<1>4. \A s \in SUBSET S : s # {} => Max(s) \in s
  BY <1>1, GreatestOf
<1> HIDE DEF w
<1>5. PICK g : IsSum(g, S, w)
  <2> HIDE DEF S
  <2>1. QED
    BY <1>2, <1>3, SumExists
<1>6. ASSUME NEW f, NEW s \in SUBSET S, s # {}, f[s \ {Max(s)}] \in Int
      PROVE  f[s \ {Max(s)}] + numbers[Max(s)] = w[Max(s)] + f[s \ {Max(s)}]
  <2>1. Max(s) \in S
    BY <1>4, <1>6
  <2>2. w[Max(s)] = numbers[Max(s)] /\ numbers[Max(s)] \in Int
    BY <1>2, <2>1
  <2>3. QED
    BY <1>6, <2>2
<1>7. g = Body(g)
  <2>1. g = [s \in SUBSET S |-> g[s]] /\ g[{}] = 0
    BY <1>5 DEF IsSum
  <2>2. \A s \in SUBSET S : s # {} => g[s] = g[s \ {Max(s)}] + numbers[Max(s)]
    <3> SUFFICES ASSUME NEW s \in SUBSET S, s # {}
                 PROVE  g[s] = g[s \ {Max(s)}] + numbers[Max(s)]
      OBVIOUS
    <3>1. Max(s) \in s /\ s \ {Max(s)} \in SUBSET S
      BY <1>4
    <3>2. g[s] = w[Max(s)] + g[s \ {Max(s)}] /\ g[s \ {Max(s)}] \in Int
      BY <1>5, <3>1 DEF IsSum
    <3>3. QED
      BY <1>6, <3>2
  <2>3. QED
    BY <2>1, <2>2
<1>8. FoldLeft(+, 0, numbers) = it[S]
  BY <1>1 DEF FoldLeft, MapThenFoldSet, AddingNumbers
<1>9. it = CHOOSE f : f = Body(f)
  BY <1>1 DEF AddingNumbers
<1>10. it = Body(it)
  <2> HIDE DEF Body
  <2>1. QED
    BY <1>7, <1>9
<1> HIDE DEF it
<1>11. IsFold(it, S, w, pick)
  <2>1. it[{}] = 0
    BY <1>10
  <2>2. \A s \in SUBSET S : s # {} => it[s] = it[s \ {Max(s)}] + numbers[Max(s)]
    BY <1>10
  <2>3. \A s \in SUBSET S : s # {} /\ it[s \ {Max(s)}] \in Int => it[s] = w[Max(s)] + it[s \ {Max(s)}]
    BY <1>6, <2>2
  <2>4. \A s \in SUBSET S : pick[s] = Max(s)
    OBVIOUS
  <2> HIDE DEF pick
  <2>5. QED
    BY <1>4, <2>1, <2>3, <2>4 DEF IsFold
<1> HIDE DEF Body, pick
<1>12. it[S] = g[S] /\ g[S] \in Int
  <2>1. it[S] = g[S]
    BY <1>2, <1>3, <1>5, <1>11, FoldIsSum
  <2>2. g[S] \in Int
    BY <1>5 DEF IsSum
  <2>3. QED
    BY <2>1, <2>2
<1>13. QED
  BY <1>8, <1>12

\* The share of a stage is a part of the window.
LEMMA StageIsPart ==
  ASSUME NEW window \in Seq(AnySlot), NEW stages \in Nat \ {0}, NEW k \in 1 .. stages
  PROVE  StageSlots(window, stages, k) \in Seq(AnySlot)
<1> DEFINE m == Len(window)
           u == ((k - 1) * m) \div stages
           v == (k * m) \div stages
<1>1. m \in Nat /\ k \in Int /\ k - 1 \in Nat /\ stages \in Nat \ {0}
  OBVIOUS
<1>2. (k - 1) * m \in Nat /\ k * m \in Nat /\ k * m = (k - 1) * m + m /\ k * m <= stages * m
      /\ stages * m \in Nat
  <2>1. (k - 1) * m \in Nat /\ k * m \in Nat /\ k * m = (k - 1) * m + m /\ stages * m \in Nat
    BY <1>1
  <2>2. (stages - k) * m >= 0 /\ (stages - k) * m = stages * m - k * m
    BY <1>1
  <2>3. QED
    BY <1>1, <2>1, <2>2
<1> DEFINE x == (k - 1) * m
           y == k * m
<1>3. /\ u \in Int /\ x = stages * u + (x % stages) /\ x % stages \in 0 .. stages - 1
      /\ v \in Int /\ y = stages * v + (y % stages) /\ y % stages \in 0 .. stages - 1
  <2>1. x \in Int /\ y \in Int
    BY <1>2
  <2> HIDE DEF x, y
  <2>2. /\ x \div stages \in Int /\ x = stages * (x \div stages) + (x % stages) /\ x % stages \in 0 .. stages - 1
        /\ y \div stages \in Int /\ y = stages * (y \div stages) + (y % stages) /\ y % stages \in 0 .. stages - 1
    BY <1>1, <2>1, DivMod
  <2>3. u = x \div stages /\ v = y \div stages
    BY DEF x, y
  <2>4. QED
    BY <2>2, <2>3
<1>4. x \in Nat /\ y \in Nat /\ x <= y /\ y <= stages * m
  BY <1>1, <1>2
<1> HIDE DEF x, y, u, v, m
<1>5. stages * u \in Int /\ stages * v \in Int /\ stages * m \in Int
  BY <1>1, <1>3
<1>6. u >= 0
  <2>1. 0 < stages * u + stages
    BY <1>3, <1>4, <1>5, SMTT(30)
  <2>2. stages * (u + 1) = stages * u + stages
    BY <1>1, <1>3
  <2>3. u < 0 => stages * (u + 1) <= 0
    BY <1>1, <1>3
  <2>4. QED
    BY <1>3, <1>5, <2>1, <2>2, <2>3
<1>7. u <= v
  <2>1. stages * u <= x /\ y < stages * v + stages
    <3> DEFINE r == x % stages
               t == y % stages
               p == stages * u
               q == stages * v
    <3>1. /\ x = p + r /\ r \in 0 .. stages - 1 /\ p \in Int
          /\ y = q + t /\ t \in 0 .. stages - 1 /\ q \in Int
      BY <1>3, <1>5
    <3> HIDE DEF r, t, p, q
    <3>2. p <= x /\ y < q + stages
      BY <1>1, <3>1
    <3>3. QED
      BY <3>2 DEF p, q
  <2>2. stages * (v + 1) = stages * v + stages /\ stages * (u - (v + 1)) = stages * u - stages * (v + 1)
    BY <1>1, <1>3
  <2>3. u >= v + 1 => stages * (u - (v + 1)) >= 0
    BY <1>1, <1>3
  <2>4. stages * u < stages * v + stages
    BY <1>1, <1>4, <1>5, <2>1
  <2>5. QED
    BY <1>3, <1>5, <2>2, <2>3, <2>4
<1>8. v <= m
  <2>1. stages * v <= stages * m
    BY <1>3, <1>4, <1>5
  <2>2. stages * (v - m) = stages * v - stages * m
    BY <1>1, <1>3
  <2>3. v > m => stages * (v - m) > 0
    BY <1>1, <1>3
  <2>4. QED
    BY <1>1, <1>3, <1>5, <2>1, <2>2, <2>3
<1>9. StageSlots(window, stages, k) = SubSeq(window, u + 1, v)
  BY DEF StageSlots, u, v, m
<1>10. u + 1 \in 1 .. Len(window) + 1 /\ v \in 0 .. Len(window) /\ u + 1 <= v + 1
  BY <1>1, <1>3, <1>6, <1>7, <1>8 DEF m
<1>11. QED
  BY <1>9, <1>10, SubSeqFacts

LEMMA CostIsInt ==
  ASSUME NEW window \in Seq(AnySlot), NEW weights \in Seq(Int)
  PROVE  WeightedCost(window, weights) \in Int
<1> DEFINE share(k) == StageSlots(window, Len(weights), k)
           costs == [k \in DOMAIN weights |-> weights[k] * SumPrices(share(k))]
<1>1. DOMAIN weights = 1 .. Len(weights) /\ Len(weights) \in Nat
      /\ \A k \in 1 .. Len(weights) : weights[k] \in Int
  OBVIOUS
<1>2. ASSUME NEW k \in 1 .. Len(weights)
      PROVE  weights[k] * SumPrices(share(k)) \in Int
  <2>1. Len(weights) \in Nat \ {0}
    BY <1>1
  <2>2. share(k) \in Seq(AnySlot)
    BY <2>1, StageIsPart
  <2>3. SumPrices(share(k)) \in Int
    <3> HIDE DEF share
    <3>1. QED
      BY <2>2, SumIsInt
  <2>4. QED
    BY <1>1, <2>3
<1>3. WeightedCost(window, weights) = FoldLeft(+, 0, costs)
  BY DEF WeightedCost
<1> HIDE DEF share
<1>4. costs \in Seq(Int)
  BY <1>1, <1>2
<1> HIDE DEF costs
<1>5. QED
  BY <1>3, <1>4, NumbersAddUp

-------------------------------------------------------------------------------
(* The start that the optimizer finds.                                     *)

\* As many slots as the cycle touches, or all there are.
NeededFor(day, cycle, n) ==
  /\ n \in 1 .. Len(day)
  /\ (n - 1) * SlotLength < cycle
  /\ cycle <= n * SlotLength \/ n = Len(day)

LEMMA NeededIs ==
  ASSUME NEW day, Listed(day), day # << >>, NEW cycle \in Nat \ {0}
  PROVE  NeededFor(day, cycle, SlotsNeeded(day, cycle))
<1> DEFINE l == SlotLength
           m == Len(day)
           c == (cycle + l - 1) \div l
           n == SlotsNeeded(day, cycle)
<1>1. l \in Nat \ {0} /\ m \in Nat \ {0} /\ 1 \in 1 .. m
  BY SlotsAssumption DEF Listed
<1>2. day[1].till - day[1].from = l
  <2>1. day[1].till = day[1].from + SlotLength /\ day[1].from \in Int
    BY <1>1, SlotsInOrder
  <2>2. QED
    BY <1>1, <2>1
<1>3. n = IF c > m THEN m ELSE c
  BY <1>2 DEF SlotsNeeded
<1>4. c \in Int /\ cycle + l - 1 = l * c + ((cycle + l - 1) % l) /\ (cycle + l - 1) % l \in 0 .. l - 1
  <2>1. cycle + l - 1 \in Int
    BY <1>1
  <2> DEFINE x == cycle + l - 1
  <2> HIDE DEF x, l
  <2>2. x \div l \in Int /\ x = l * (x \div l) + (x % l) /\ x % l \in 0 .. l - 1
    BY <1>1, <2>1, DivMod DEF x
  <2>3. QED
    BY <2>2 DEF x
<1> HIDE DEF c, n, l, m
<1>5. l * c = c * l /\ c * l \in Int
  BY <1>1, <1>4
<1>6. cycle <= c * l /\ c * l - l < cycle
  BY <1>1, <1>4, <1>5
<1>7. c >= 1
  <2>1. c <= 0 => c * l <= 0
    BY <1>1, <1>4
  <2>2. QED
    BY <1>4, <1>5, <1>6, <2>1
<1>8. CASE c > m
  <2>1. n = m
    BY <1>3, <1>8
  <2>2. (n - 1) * l <= (c - 1) * l
    <3>1. n - 1 \in Int /\ c - 1 \in Int /\ n - 1 <= c - 1
      BY <1>1, <1>4, <1>8, <2>1
    <3>2. QED
      BY <1>1, <3>1, Products, Zenon
  <2>3. (c - 1) * l = c * l - l /\ (n - 1) * l \in Int
    BY <1>1, <1>4, <2>1
  <2>4. (n - 1) * l < cycle
    BY <1>1, <1>5, <1>6, <2>2, <2>3
  <2>5. QED
    BY <1>1, <2>1, <2>4 DEF NeededFor, n, l, m
<1>9. CASE ~(c > m)
  <2>1. n = c /\ n \in 1 .. m
    BY <1>1, <1>3, <1>4, <1>7, <1>9
  <2>2. (n - 1) * l = c * l - l
    BY <1>1, <1>4, <2>1
  <2>3. (n - 1) * l < cycle /\ cycle <= n * l
    BY <1>6, <2>1, <2>2
  <2>4. QED
    BY <2>1, <2>3 DEF NeededFor, n, l, m
<1>10. QED
  BY <1>8, <1>9

\* A cycle that starts with a slot touches the window of that slot.
LEMMA TouchedIs ==
  ASSUME NEW day, Listed(day), NEW cycle \in Nat \ {0}, NEW n, NeededFor(day, cycle, n),
         NEW i \in 1 .. Len(day) - n + 1
  PROVE  Touched(day, day[i].from, cycle) = Window(day, i, n)
<1> DEFINE l == SlotLength
           m == Len(day)
           S == {j \in DOMAIN day : day[j].from < day[i].from + cycle /\ day[j].till > day[i].from}
<1>1. l \in Nat \ {0} /\ m \in Nat /\ n \in 1 .. m /\ DOMAIN day = 1 .. m /\ i \in 1 .. m
      /\ day \in Seq(AnySlot) /\ i + n - 1 \in i .. m
  BY SlotsAssumption DEF Listed, NeededFor
<1>2. (n - 1) * l < cycle /\ (cycle <= n * l \/ n = m) /\ n * l \in Int /\ (n - 1) * l = n * l - l
  <2>1. (n - 1) * l < cycle /\ (cycle <= n * l \/ n = m)
    BY DEF NeededFor
  <2>2. n \in Int
    BY <1>1
  <2> HIDE DEF l
  <2>3. n * l \in Int /\ (n - 1) * l = n * l - l
    BY <1>1, <2>2, Products
  <2>4. QED
    BY <2>1, <2>3
<1>3. \A j \in 1 .. m : /\ day[j].from \in Int /\ day[j].till \in Int
                        /\ day[j].from = (j - 1) * l
                        /\ (j < i) <=> (day[j].till <= day[i].from)
  <2>1. \A j \in 1 .. m : day[j].from = (j - 1) * l
    BY DEF Listed
  <2>2. \A j \in 1 .. m : /\ day[j].from \in Int /\ day[j].till \in Int
                          /\ (j < i) <=> (day[j].till <= day[i].from)
    BY <1>1, SlotsInOrder
  <2>3. QED
    BY <2>1, <2>2
<1> HIDE DEF l, m
<1>4. ASSUME NEW j \in 1 .. m
      PROVE  day[j].from < day[i].from + cycle <=> j <= i + n - 1
  <2> DEFINE x == (j - 1) * l
             y == (i - 1) * l
  <2>1. /\ j - 1 \in Int /\ i - 1 \in Int /\ n - 1 \in Int /\ n \in Int /\ i - 1 + (n - 1) \in Int
        /\ i - 1 + n \in Int
    BY <1>1
  <2>2. /\ (i - 1 + (n - 1)) * l = y + (n - 1) * l
        /\ (i - 1 + n) * l = y + n * l
        /\ x \in Int /\ y \in Int
    BY <1>1, <2>1
  <2>3. j - 1 <= i - 1 + (n - 1) => x <= (i - 1 + (n - 1)) * l
    BY <1>1, <2>1, Products, Zenon
  <2>4. i - 1 + n <= j - 1 => (i - 1 + n) * l <= x
    BY <1>1, <2>1, Products, Zenon
  <2>5. day[j].from = x /\ day[i].from = y
    BY <1>1, <1>3
  <2> HIDE DEF x, y
  <2>6. j <= i + n - 1 => x < y + cycle
    <3>1. j <= i + n - 1 => x <= y + (n - 1) * l
      BY <1>1, <2>1, <2>2, <2>3
    <3>2. QED
      BY <1>1, <1>2, <2>2, <3>1
  <2>7. j > i + n - 1 => ~(x < y + cycle)
    <3>1. j > i + n - 1 => n # m
      BY <1>1
    <3>2. j > i + n - 1 => y + n * l <= x
      BY <1>1, <2>1, <2>2, <2>4
    <3>3. QED
      BY <1>1, <1>2, <2>2, <3>1, <3>2
  <2>8. QED
    BY <1>1, <2>5, <2>6, <2>7
<1>5. S = i .. i + n - 1
  <2>1. ASSUME NEW j \in 1 .. m
        PROVE  day[j].till > day[i].from <=> j >= i
    <3>1. i \in 1 .. m /\ j \in Int /\ i \in Int
      BY <1>1
    <3>2. day[j].till \in Int /\ day[i].from \in Int
      BY <1>3, <3>1
    <3>3. (j < i) <=> (day[j].till <= day[i].from)
      BY <1>3
    <3>4. QED
      BY <3>1, <3>2, <3>3
  <2>2. S = {j \in 1 .. m : j <= i + n - 1 /\ j >= i}
    BY <1>1, <1>4, <2>1
  <2> HIDE DEF S
  <2>3. QED
    BY <1>1, <2>2
<1>6. Touched(day, day[i].from, cycle) = Picked(day, S)
  BY DEF Touched
<1> HIDE DEF S
<1>7. i \in 1 .. Len(day) + 1 /\ i + n - 1 \in 0 .. Len(day) /\ i <= (i + n - 1) + 1
  BY <1>1 DEF m
<1>8. Picked(day, i .. i + n - 1) = SubSeq(day, i, i + n - 1)
  BY <1>1, <1>7, PickedInterval
<1>9. QED
  BY <1>5, <1>6, <1>8 DEF Window

LEMMA FirstValidIs ==
  ASSUME NEW day \in Seq(AnySlot), day # << >>, NEW t
  PROVE  FirstValidSlot(day, t) \in 1 .. Len(day)
<1> DEFINE I == {i \in 1 .. Len(day) : day[i].till >= t}
           i == SelectInSeq(day, LAMBDA slot : slot.till >= t)
<1>1. DOMAIN day = 1 .. Len(day) /\ 1 \in 1 .. Len(day)
  OBVIOUS
<1>2. i = IF I # {} THEN Min(I) ELSE 0
  BY <1>1 DEF SelectInSeq
<1>3. FirstValidSlot(day, t) = IF i = 0 THEN 1 ELSE i
  BY DEF FirstValidSlot
<1> HIDE DEF i
<1>4. I # {} => Min(I) \in 1 .. Len(day)
  <2>1. I \in SUBSET Nat /\ I \in SUBSET (1 .. Len(day))
    OBVIOUS
  <2> HIDE DEF I
  <2>2. QED
    BY <2>1, LeastOf
<1> HIDE DEF I
<1>5. QED
  BY <1>1, <1>2, <1>3, <1>4

\* What is found among the starting slots: the first whose window costs the least.
Options(day, cycle, hours) ==
  Evaluated(day, SlotsNeeded(day, cycle), cycle, now, now + hours * SlotLength)

FoundFirst(day, cycle, weights, hours) ==
  LET n == SlotsNeeded(day, cycle)
      options == Options(day, cycle, hours)
      Cost(i) == WeightedCost(Window(day, i, n), weights)
      best == {i \in options : \A k \in options : Cost(i) <= Cost(k)}
  IN options # {} => Min(best) \in options /\ \A k \in options : Cost(Min(best)) <= Cost(k)

LEMMA BestIsFound ==
  ASSUME NEW day, Listed(day), day # << >>, NEW cycle \in Nat \ {0}, NEW weights \in Seq(Int),
         NEW hours \in Nat
  PROVE  FoundFirst(day, cycle, weights, hours)
<1> DEFINE n == SlotsNeeded(day, cycle)
           options == Options(day, cycle, hours)
           cost == [i \in options |-> WeightedCost(Window(day, i, n), weights)]
           best == {i \in options : \A k \in options : cost[i] <= cost[k]}
<1>1. NeededFor(day, cycle, n) /\ day \in Seq(AnySlot) /\ Len(day) \in Nat
  BY NeededIs DEF Listed
<1>2. options \in SUBSET (1 .. Len(day) - n + 1)
  BY DEF Options, Evaluated
<1> HIDE DEF options, n
<1>3. n \in 1 .. Len(day) /\ options \in SUBSET (1 .. Len(day)) /\ options \in SUBSET Nat
  BY <1>1, <1>2 DEF NeededFor
<1>4. IsFiniteSet(options)
  <2>1. 1 \in Int /\ Len(day) \in Int
    BY <1>1
  <2>2. IsFiniteSet(1 .. Len(day))
    BY <2>1, FS_Interval
  <2>3. QED
    BY <1>3, <2>2, FS_Subset
<1>5. \A i \in options : cost[i] \in Int
  <2> SUFFICES ASSUME NEW i \in options
               PROVE  WeightedCost(Window(day, i, n), weights) \in Int
    OBVIOUS
  <2>1. i \in 1 .. Len(day) + 1 /\ i + n - 1 \in 0 .. Len(day) /\ i <= (i + n - 1) + 1
    BY <1>1, <1>2, <1>3
  <2>2. Window(day, i, n) \in Seq(AnySlot)
    BY <1>1, <2>1, SubSeqFacts DEF Window
  <2>3. QED
    BY <2>2, CostIsInt
<1>6. ASSUME options # {}
      PROVE  Min(best) \in options /\ \A k \in options : cost[Min(best)] <= cost[k]
  <2> HIDE DEF cost
  <2>1. best # {} /\ best \in SUBSET Nat
    <3>1. PICK i \in options : \A k \in options : cost[i] <= cost[k]
      BY <1>3, <1>4, <1>5, <1>6, LeastNumber
    <3>2. QED
      BY <1>3, <3>1
  <2> DEFINE b == Min(best)
  <2>2. b \in best
    <3> HIDE DEF best
    <3>1. QED
      BY <2>1, LeastOf
  <2> HIDE DEF b
  <2>3. b \in options /\ \A k \in options : cost[b] <= cost[k]
    BY <2>2
  <2>4. QED
    BY <2>3 DEF b
<1>7. best = {i \in options : \A k \in options :
               WeightedCost(Window(day, i, n), weights) <= WeightedCost(Window(day, k, n), weights)}
  OBVIOUS
<1> HIDE DEF best
<1>8. options # {} => /\ Min(best) \in options
                      /\ \A k \in options : WeightedCost(Window(day, Min(best), n), weights)
                                              <= WeightedCost(Window(day, k, n), weights)
  BY <1>6
<1>9. QED
  BY <1>7, <1>8 DEF FoundFirst, options, n

\* An option ends in time, and a start that does is an option.
LEMMA OptionsAre ==
  ASSUME NEW day, Listed(day), day # << >>, now \in Nat, NEW cycle \in Nat \ {0}, NEW hours \in Nat
  PROVE  /\ \A i \in Options(day, cycle, hours) :
              /\ i \in 1 .. Len(day) - SlotsNeeded(day, cycle) + 1
              /\ Later(day[i].from, now) + cycle <= now + hours * SlotLength
         /\ InTime(day, cycle, now + hours * SlotLength) \subseteq Options(day, cycle, hours)
<1> DEFINE n == SlotsNeeded(day, cycle)
           m == Len(day)
           deadline == now + hours * SlotLength
           ahead == {i \in 1 .. m - n + 1 : day[i].till >= now}
           End(i) == Later(day[i].from, now) + cycle
           options == Options(day, cycle, hours)
<1>1. /\ NeededFor(day, cycle, n) /\ m \in Nat \ {0} /\ DOMAIN day = 1 .. m /\ n \in 1 .. m
      /\ SlotLength \in Nat \ {0}
  <2>1. NeededFor(day, cycle, n)
    BY NeededIs
  <2>2. m \in Nat \ {0} /\ DOMAIN day = 1 .. m
    BY DEF Listed
  <2>3. n \in 1 .. m
    BY <2>1 DEF NeededFor
  <2>4. QED
    BY <2>1, <2>2, <2>3, SlotsAssumption
<1>2. deadline \in Int
  BY <1>1
<1>3. options = {i \in ahead : \A j \in ahead : j <= i => ~(End(j) > deadline)}
  BY DEF Options, Evaluated
<1> HIDE DEF n, options
<1>4. \A i, j \in 1 .. m : /\ day[i].from \in Int /\ day[i].till \in Int
                           /\ day[i].till = day[i].from + SlotLength
                           /\ (i <= j) <=> (day[i].from <= day[j].from)
  BY SlotsInOrder
<1>5. \A i \in 1 .. m : End(i) \in Int
  BY <1>4 DEF Later
<1>6. ASSUME NEW i \in options
      PROVE  i \in 1 .. m - n + 1 /\ End(i) <= deadline
  <2>1. i \in 1 .. m - n + 1 /\ ~(End(i) > deadline)
    <3>1. i \in ahead /\ \A j \in ahead : j <= i => ~(End(j) > deadline)
      BY <1>3
    <3>2. i <= i
      BY <1>1, <3>1
    <3>3. QED
      BY <3>1, <3>2
  <2>2. i \in 1 .. m
    BY <1>1, <2>1
  <2> HIDE DEF deadline, End, m
  <2>3. End(i) \in Int
    BY <1>5, <2>2
  <2>4. QED
    BY <1>2, <2>1, <2>3
<1>7. ASSUME NEW i \in InTime(day, cycle, deadline)
      PROVE  i \in options
  <2>1. /\ i \in 1 .. m /\ day[i].from >= now /\ day[i].from + cycle <= deadline
        /\ day[i].from + cycle <= Last(day).till
    BY <1>1 DEF InTime
  <2>2. i \in 1 .. m - n + 1
    <3> DEFINE l == SlotLength
               x == (i - 1) * l
               y == (n - 1) * l
    <3>1. day[i].from = x /\ Last(day).till = m * l
      BY <1>1, <2>1 DEF Listed, Last
    <3>2. y < cycle
      BY <1>1 DEF NeededFor
    <3>3. i - 1 \in Int /\ n - 1 \in Int /\ m \in Int /\ i - 1 + (n - 1) \in Int /\ l \in Nat \ {0}
      BY <1>1, <2>1
    <3>4. (i - 1 + (n - 1)) * l = x + y /\ x \in Int /\ y \in Int /\ m * l \in Int
      BY <3>3
    <3>5. (i - 1 + (n - 1) < m) <=> ((i - 1 + (n - 1)) * l < m * l)
      BY <3>3, Products, Zenon
    <3> HIDE DEF x, y
    <3>6. x + y < m * l
      BY <2>1, <3>1, <3>2, <3>4
    <3>7. i - 1 + (n - 1) < m
      BY <3>4, <3>5, <3>6
    <3>8. QED
      BY <1>1, <2>1, <3>7
  <2>3. day[i].till >= now
    <3>1. day[i].from \in Int /\ day[i].till = day[i].from + SlotLength
      BY <1>4, <2>1
    <3>2. SlotLength \in Nat
      BY <1>1
    <3>3. QED
      BY <2>1, <3>1, <3>2
  <2>4. ASSUME NEW j \in ahead, j <= i
        PROVE  ~(End(j) > deadline)
    <3>1. j \in 1 .. m
      BY <1>1
    <3>2. day[j].from <= day[i].from /\ day[j].from \in Int /\ day[i].from \in Int
      BY <1>4, <2>1, <2>4, <3>1
    <3>3. Later(day[j].from, now) <= day[i].from /\ Later(day[j].from, now) \in Int
      BY <2>1, <3>2 DEF Later
    <3> HIDE DEF deadline
    <3>4. QED
      BY <1>2, <2>1, <3>2, <3>3
  <2>5. QED
    BY <1>3, <2>2, <2>3, <2>4
<1>8. QED
  BY <1>6, <1>7 DEF options, n

\* Savings that are enough leave a cost that is lower, after three hours at most by a sixth.
LEMMA SavingsAre ==
  ASSUME NEW result, result.current \in Int, result.cost \in Int, NEW hours \in Nat,
         NEW night \in BOOLEAN, NEW t, ShouldDelayStart(result, t, hours, night)
  PROVE  /\ result.start > t /\ 0 < result.current /\ result.cost < result.current
         /\ ~night /\ hours <= 3 => 6 * result.cost <= 5 * result.current
<1> DEFINE x == result.current
           y == result.cost
           p == CalculateDynamicThreshold(hours)
<1>1. x \in Int /\ y \in Int /\ p \in Nat \ {0} /\ (hours <= 3 => p >= 1793)
  BY ThresholdIs
<1>2. result.start > t
  BY DEF ShouldDelayStart
<1>3. CASE night /\ x > 0 /\ y < x
  BY <1>2, <1>3
<1>4. CASE ShouldDelay(result, hours)
  <2>1. IF x > 0 THEN 10000 * (x - y) >= p * x ELSE p <= 0
    BY <1>4 DEF ShouldDelay, SavesAtLeast
  <2> HIDE DEF x, y, p
  <2>2. x > 0 /\ 10000 * (x - y) >= p * x
    BY <1>1, <2>1
  <2>3. p * x >= 1 * x
    <3>1. (p - 1) * x >= 0 /\ (p - 1) * x = p * x - x /\ p * x \in Int
      BY <1>1, <2>2
    <3>2. QED
      BY <1>1, <3>1
  <2>4. hours <= 3 => p * x >= 1793 * x
    <3>1. hours <= 3 => (p - 1793) * x >= 0
      BY <1>1, <2>2
    <3>2. (p - 1793) * x = p * x - 1793 * x /\ p * x \in Int
      BY <1>1
    <3>3. QED
      BY <1>1, <3>1, <3>2
  <2> DEFINE z == p * x
  <2>5. z \in Int
    BY <1>1
  <2>6. 10000 * (x - y) >= z /\ z >= x /\ (hours <= 3 => z >= 1793 * x)
    BY <1>1, <2>2, <2>3, <2>4
  <2> HIDE DEF z
  <2>7. y < x /\ (hours <= 3 => 6 * y <= 5 * x)
    BY <1>1, <2>2, <2>5, <2>6
  <2>8. QED
    BY <1>2, <2>2, <2>7 DEF x, y
<1>5. QED
  BY <1>3, <1>4 DEF ShouldDelayStart

LEMMA WindowFacts ==
  ASSUME NEW day \in Seq(AnySlot), NEW n \in 1 .. Len(day), NEW i \in 1 .. Len(day) - n + 1
  PROVE  Window(day, i, n) \in Seq(AnySlot) /\ Window(day, i, n)[1] = day[i]
<1>1. i \in 1 .. Len(day) + 1 /\ i + n - 1 \in 0 .. Len(day) /\ i <= (i + n - 1) + 1
      /\ 1 \in 1 .. (i + n - 1) - i + 1 /\ i + 1 - 1 = i
  OBVIOUS
<1>2. /\ SubSeq(day, i, i + n - 1) \in Seq(AnySlot)
      /\ \A k \in 1 .. (i + n - 1) - i + 1 : SubSeq(day, i, i + n - 1)[k] = day[i + k - 1]
  BY <1>1, SubSeqFacts
<1>3. QED
  BY <1>1, <1>2 DEF Window

\* The slots from now on, if there are enough of them.
LEMMA ImmediateIs ==
  ASSUME NEW day \in Seq(AnySlot), day # << >>, NEW n \in 1 .. Len(day), NEW t
  PROVE  LET first == FirstValidSlot(day, t)
         IN /\ ImmediateCost(day, n, t) \in Int
            /\ ImmediateCost(day, n, t) # 0 =>
                 ImmediateCost(day, n, t) = SumPrices(SubSeq(SubSeq(day, first, Len(day)), 1, n))
<1> DEFINE first == FirstValidSlot(day, t)
           m == Len(day)
<1>1. first \in 1 .. m /\ m \in Nat
  BY FirstValidIs
<1>2. ImmediateCost(day, n, t) = IF first + n - 1 <= m THEN SumPrices(Window(day, first, n)) ELSE 0
  BY DEF ImmediateCost
<1> HIDE DEF first
<1>3. ASSUME first + n - 1 <= m
      PROVE  /\ SumPrices(Window(day, first, n)) \in Int
             /\ SubSeq(SubSeq(day, first, m), 1, n) = Window(day, first, n)
  <2>1. first \in 1 .. m - n + 1
    BY <1>1, <1>3
  <2>2. Window(day, first, n) \in Seq(AnySlot)
    BY <2>1, WindowFacts
  <2>3. SumPrices(Window(day, first, n)) \in Int
    BY <2>2, SumIsInt
  <2>4. /\ first \in 1 .. Len(day) + 1 /\ m \in 0 .. Len(day) /\ first <= m + 1
        /\ 1 \in 1 .. m - first + 1 /\ n \in 1 .. m - first + 1
        /\ first + 1 - 1 = first
    BY <1>1, <1>3
  <2>5. SubSeq(SubSeq(day, first, m), 1, n) = SubSeq(day, first + 1 - 1, first + n - 1)
    <3> HIDE DEF m
    <3>1. QED
      BY <2>4, PartOfPart
  <2>6. QED
    BY <2>3, <2>4, <2>5 DEF Window
<1>4. /\ ImmediateCost(day, n, t) \in Int
      /\ ImmediateCost(day, n, t) # 0 =>
           ImmediateCost(day, n, t) = SumPrices(SubSeq(SubSeq(day, first, m), 1, n))
  <2>1. CASE first + n - 1 <= m
    BY <1>2, <1>3, <2>1
  <2>2. CASE ~(first + n - 1 <= m)
    BY <1>2, <2>2
  <2>3. QED
    BY <2>1, <2>2
<1>5. QED
  BY <1>4 DEF first

\* Every start that is postponed, on any day.
LEMMA WaitIsRight ==
  ASSUME NEW day, Listed(day), day # << >>, now \in Nat, NEW cycle \in Nat \ {0},
         NEW weights \in Seq(Int), NEW hours \in Nat, NEW night \in BOOLEAN
  PROVE  WaitsRightly(day, cycle, weights, hours, night)
<1> DEFINE n == SlotsNeeded(day, cycle)
           m == Len(day)
           deadline == now + hours * SlotLength
           options == Options(day, cycle, hours)
           Cost(i) == WeightedCost(Window(day, i, n), weights)
           best == {i \in options : \A k \in options : Cost(i) <= Cost(k)}
           first == FirstValidSlot(day, now)
           used == IF options # {} THEN Window(day, Min(best), n)
                   ELSE SubSeq(day, first, Min({first + n - 1, m}))
           result == Optimize(day, now, hours * SlotLength, cycle, weights)
           immediate == SubSeq(SubSeq(day, first, m), 1, n)
           postponed == ShouldDelayStart(result, now, hours, night)
           inTime == InTime(day, cycle, deadline)
<1>1. /\ result.window = used
      /\ result.start = Later(used[1].from, now)
      /\ result.end = Later(used[1].from, now) + cycle
      /\ result.cost = SumPrices(used)
      /\ result.current = IF options = {} THEN SumPrices(used) ELSE ImmediateCost(day, n, now)
  BY DEF Optimize, Options
<1>2. NeededFor(day, cycle, n) /\ n \in 1 .. m /\ m \in Nat /\ day \in Seq(AnySlot)
  <2>1. NeededFor(day, cycle, n)
    BY NeededIs
  <2>2. m \in Nat /\ day \in Seq(AnySlot)
    BY DEF Listed
  <2>3. QED
    BY <2>1, <2>2 DEF NeededFor
<1>3. \A i \in 1 .. m : day[i].from \in Int
  BY SlotsInOrder
<1>4. first \in 1 .. m
  BY <1>2, FirstValidIs
<1>5. /\ \A i \in options : i \in 1 .. m - n + 1 /\ Later(day[i].from, now) + cycle <= deadline
      /\ inTime \subseteq options
  BY OptionsAre
<1>6. options # {} => Min(best) \in options /\ \A k \in options : Cost(Min(best)) <= Cost(k)
  <2>1. FoundFirst(day, cycle, weights, hours)
    BY BestIsFound
  <2>2. QED
    BY <2>1 DEF FoundFirst
<1>7. WaitsRightly(day, cycle, weights, hours, night) <=>
        /\ result.start >= now
        /\ postponed =>
             /\ result.start > now /\ result.end <= deadline
             /\ result.window = Touched(day, result.start, cycle)
             /\ 0 < SumPrices(immediate)
             /\ SumPrices(result.window) < SumPrices(immediate)
             /\ ~night /\ hours <= 3 => 6 * SumPrices(result.window) <= 5 * SumPrices(immediate)
        /\ \A i \in inTime :
             WeightedCost(result.window, weights)
               <= WeightedCost(Touched(day, day[i].from, cycle), weights)
  BY DEF WaitsRightly
<1> HIDE DEF result, immediate, options, inTime, best
<1>8. CASE options = {}
  <2> DEFINE e == Min({first + n - 1, m})
  <2>1. e \in first .. m
    <3>1. {first + n - 1, m} \in SUBSET Nat /\ {first + n - 1, m} # {} /\ first + n - 1 \in first .. first + n - 1
      BY <1>2, <1>4
    <3>2. e \in {first + n - 1, m}
      BY <3>1, LeastOf
    <3>3. m \in {first + n - 1, m} => e <= m
      BY <3>1, LeastOf
    <3>4. QED
      BY <1>2, <1>4, <3>1, <3>2, <3>3
  <2> HIDE DEF e
  <2>2. SubSeq(day, first, e) \in Seq(AnySlot) /\ SubSeq(day, first, e)[1] = day[first]
    <3>1. /\ first \in 1 .. Len(day) + 1 /\ e \in 0 .. Len(day) /\ first <= e + 1
          /\ 1 \in 1 .. e - first + 1 /\ first + 1 - 1 = first
      BY <1>2, <1>4, <2>1
    <3>2. /\ SubSeq(day, first, e) \in Seq(AnySlot)
          /\ \A k \in 1 .. e - first + 1 : SubSeq(day, first, e)[k] = day[first + k - 1]
      BY <1>2, <3>1, SubSeqFacts
    <3>3. QED
      BY <3>1, <3>2
  <2>3. used = SubSeq(day, first, e)
    BY <1>8 DEF e
  <2> HIDE DEF used
  <2>4. used[1].from \in Int /\ SumPrices(used) \in Int
    BY <1>3, <1>4, <2>2, <2>3, SumIsInt
  <2>5. result.start >= now
    BY <1>1, <2>4 DEF Later
  <2>6. ~postponed
    <3>1. ASSUME postponed
          PROVE  FALSE
      <4>1. result.current = result.cost /\ result.current \in Int /\ result.cost \in Int
        BY <1>1, <1>8, <2>4
      <4>2. result.cost < result.current
        BY <3>1, <4>1, SavingsAre
      <4>3. QED
        BY <4>1, <4>2
    <3>2. QED
      BY <3>1
  <2>7. inTime = {}
    BY <1>5, <1>8
  <2>8. QED
    BY <1>7, <2>5, <2>6, <2>7
<1>9. CASE options # {}
  <2> DEFINE b == Min(best)
  <2>1. /\ b \in options /\ b \in 1 .. m - n + 1 /\ b \in 1 .. m
        /\ \A k \in options : Cost(b) <= Cost(k)
        /\ Later(day[b].from, now) + cycle <= deadline
    <3>1. b \in options /\ \A k \in options : Cost(b) <= Cost(k)
      BY <1>6, <1>9
    <3>2. b \in 1 .. m - n + 1 /\ Later(day[b].from, now) + cycle <= deadline
      BY <1>5, <3>1
    <3>3. b \in 1 .. m
      BY <1>2, <3>2
    <3>4. QED
      BY <3>1, <3>2, <3>3
  <2>2. used = Window(day, b, n)
    BY <1>9
  <2> HIDE DEF used, b
  <2>3. used \in Seq(AnySlot) /\ used[1] = day[b]
    BY <1>2, <2>1, <2>2, WindowFacts
  <2>4. day[b].from \in Int /\ SumPrices(used) \in Int
    BY <1>3, <2>1, <2>3, SumIsInt
  <2>5. /\ result.start = Later(day[b].from, now) /\ result.end <= deadline /\ result.start >= now
        /\ result.start > now => result.start = day[b].from
    BY <1>1, <2>1, <2>3, <2>4 DEF Later
  <2>6. /\ ImmediateCost(day, n, now) \in Int
        /\ ImmediateCost(day, n, now) # 0 => ImmediateCost(day, n, now) = SumPrices(immediate)
    BY <1>2, ImmediateIs DEF immediate
  <2>7. ASSUME postponed
        PROVE  /\ result.start > now /\ result.end <= deadline
               /\ result.window = Touched(day, result.start, cycle)
               /\ 0 < SumPrices(immediate)
               /\ SumPrices(result.window) < SumPrices(immediate)
               /\ ~night /\ hours <= 3 => 6 * SumPrices(result.window) <= 5 * SumPrices(immediate)
    <3>1. result.current = ImmediateCost(day, n, now) /\ result.current \in Int /\ result.cost \in Int
      BY <1>1, <1>9, <2>4, <2>6
    <3>2. /\ result.start > now /\ 0 < result.current /\ result.cost < result.current
          /\ ~night /\ hours <= 3 => 6 * result.cost <= 5 * result.current
      BY <2>7, <3>1, SavingsAre
    <3>3. result.current = SumPrices(immediate)
      BY <2>6, <3>1, <3>2
    <3>4. Touched(day, result.start, cycle) = used
      <4>1. Touched(day, day[b].from, cycle) = Window(day, b, n)
        BY <1>2, <2>1, TouchedIs
      <4>2. QED
        BY <2>2, <2>5, <3>2, <4>1
    <3>5. QED
      BY <1>1, <2>5, <3>2, <3>3, <3>4
  <2>8. ASSUME NEW i \in inTime
        PROVE  WeightedCost(result.window, weights)
                 <= WeightedCost(Touched(day, day[i].from, cycle), weights)
    <3>1. i \in options /\ i \in 1 .. m - n + 1
      BY <1>5
    <3>2. Touched(day, day[i].from, cycle) = Window(day, i, n)
      BY <1>2, <3>1, TouchedIs
    <3>3. Cost(b) <= Cost(i)
      BY <2>1, <3>1
    <3>4. QED
      BY <1>1, <2>2, <3>2, <3>3
  <2>9. QED
    BY <1>7, <2>5, <2>7, <2>8
<1>10. QED
  BY <1>8, <1>9

-------------------------------------------------------------------------------
(* Types.  Beyond them: every list anywhere is a beginning of the sensor's *)
(* list as it is now or was before, which only gets longer.                *)

RunKinds == {"extreme prices", "negative prices"}

Part(list) == list \in Seq(Slot) /\ Listed(list) /\ Len(list) <= Len(known)

JobOK(j) ==
  /\ j \in [pc : {"idle", "handle", "asked", "fetch", "store"}, list : Seq(Slot) \union {Missing}]
  /\ j.list = Missing => j.pc = "handle"
  /\ j.list # Missing => Part(j.list)

CheckOK(k) ==
  /\ k \in [pc : {"idle", "started", "send"}, run : Run \union {None}]
  /\ (k.pc = "send") <=> (k.run # None)

GoodJobs ==
  {j \in [pc : {"idle", "handle", "asked", "fetch", "store"}, list : Seq(Slot) \union {Missing}] : JobOK(j)}

GoodChecks ==
  {k \in [pc : {"idle", "started", "send"}, run : Run \union {None}] : CheckOK(k)}

TypeInv ==
  /\ now \in 0 .. Horizon
  /\ Part(known) /\ Len(known) <= MaxSlots
  /\ due \in {"none", "startup", "change"}
  /\ Part(index)
  /\ job \in [Callers -> GoodJobs]
  /\ check \in [Announcers -> GoodChecks]
  /\ lastAlertedRunFrom \in 0 .. Horizon \union {None}
  /\ alerts \in Seq(Run)
  /\ faults \in 0 .. MaxFaults

LEMMA TypeInvIsType == TypeInv => TypeOK
BY DEF TypeInv, TypeOK, Part, GoodJobs, JobOK, GoodChecks, CheckOK

LEMMA HorizonType ==
  /\ Horizon \in Nat
  /\ \A i \in 0 .. MaxSlots : i * SlotLength \in 0 .. Horizon
  /\ Slot \subseteq AnySlot
<1>1. MaxSlots \in Int /\ SlotLength \in Nat \ {0} /\ 0 \in Int /\ MaxSlots \in Nat
  BY SlotsAssumption
<1>2. Horizon \in Nat
  BY <1>1 DEF Horizon
<1>3. ASSUME NEW i \in 0 .. MaxSlots
      PROVE  i * SlotLength \in 0 .. Horizon
  <2>1. i \in Int /\ i <= MaxSlots /\ 0 <= i
    BY <1>1
  <2>2. i * SlotLength <= MaxSlots * SlotLength /\ 0 * SlotLength <= i * SlotLength
    BY <1>1, <2>1, Products, Zenon
  <2>3. QED
    BY <1>1, <2>1, <2>2 DEF Horizon
<1>4. Slot \subseteq AnySlot
  <2>1. 0 .. Horizon \subseteq Int /\ Prices \subseteq Int
    BY <1>2, SlotsAssumption
  <2>2. QED
    BY <2>1 DEF Slot, AnySlot
<1>5. QED
  BY <1>2, <1>3, <1>4

LEMMA IdleOK ==
  ASSUME known \in Seq(Slot)
  PROVE  Part(<< >>) /\ JobOK(Idle)
<1>1. << >> \in Seq(Slot)
  OBVIOUS
<1>2. Missing \notin Seq(Slot)
  BY PlaceholderAssumption
<1>3. << >> # Missing
  BY <1>1, <1>2, Zenon
<1>4. Part(<< >>)
  BY DEF Part, Listed
<1>5. QED
  BY <1>1, <1>3, <1>4 DEF JobOK, Idle

LEMMA WaitingOK == CheckOK(Waiting)
BY DEF CheckOK, Waiting

LEMMA TypeInit == Init => TypeInv
<1> SUFFICES ASSUME Init
             PROVE  TypeInv
  OBVIOUS
<1>0. known = << >> /\ known \in Seq(Slot)
  BY DEF Init
<1>1. Len(known) = 0 /\ Part(<< >>) /\ JobOK(Idle)
  BY <1>0, IdleOK
<1>2. job = [c \in Callers |-> Idle] /\ check = [a \in Announcers |-> Waiting]
  BY DEF Init
<1>3. Idle \in [pc : {"idle", "handle", "asked", "fetch", "store"}, list : Seq(Slot) \union {Missing}]
  BY <1>1 DEF JobOK
<1>4. Waiting \in [pc : {"idle", "started", "send"}, run : Run \union {None}]
  BY DEF Waiting
<1>5. now \in 0 .. Horizon /\ faults \in 0 .. MaxFaults /\ Len(known) <= MaxSlots
  BY <1>1, HorizonType, SlotsAssumption DEF Init
<1>6. QED
  BY <1>1, <1>2, <1>3, <1>4, <1>5, WaitingOK DEF Init, TypeInv, GoodJobs, GoodChecks

LEMMA PartGrows ==
  ASSUME NEW list, Part(list), known \in Seq(Slot), Len(known') \in Int, Len(known) <= Len(known')
  PROVE  Part(list)'
<1>1. Len(list) \in Int /\ Len(known) \in Int
  BY DEF Part
<1>2. QED
  BY <1>1 DEF Part, Listed

LEMMA JobsGrow ==
  ASSUME known \in Seq(Slot), Len(known') \in Int, Len(known) <= Len(known')
  PROVE  GoodJobs \subseteq GoodJobs'
<1> SUFFICES ASSUME NEW j \in GoodJobs
             PROVE  j \in GoodJobs'
  OBVIOUS
<1>1. j.list # Missing => Part(j.list)'
  BY PartGrows DEF GoodJobs, JobOK
<1>2. QED
  BY <1>1 DEF GoodJobs, JobOK

LEMMA CompareType ==
  ASSUME TypeInv, NEW c \in Callers, NEW slots, Part(slots), slots # Missing, Compare(c, slots)
  PROVE  job' \in [Callers -> GoodJobs]
<1>1. JobOK(Idle)
  BY IdleOK DEF TypeInv, Part
<1>2. Idle \in GoodJobs
  BY <1>1 DEF GoodJobs, JobOK
<1>3. [pc |-> "store", list |-> slots] \in GoodJobs
  BY DEF GoodJobs, JobOK, Part
<1>4. QED
  BY <1>2, <1>3 DEF Compare, TypeInv

\* The run the announcer finds is one that the sensor lists.
LEMMA RunType ==
  ASSUME TypeInv
  PROVE  FirstExtremeRun(NewPriceIndex(index), now, Midnight(now)) \in Run \union {None}
<1> DEFINE idx == NewPriceIndex(index)
           n == Len(index)
<1>1. /\ Listed(index) /\ index \in Seq(AnySlot) /\ now \in Int /\ n \in Nat /\ n <= MaxSlots
      /\ \A i \in 1 .. n : index[i].from = (i - 1) * SlotLength /\ index[i].till = i * SlotLength
      /\ SlotLength \in Nat \ {0} /\ MaxSlots \in Nat
  <2>1. Listed(index) /\ n <= Len(known) /\ Len(known) <= MaxSlots /\ known \in Seq(Slot)
    BY DEF TypeInv, Part
  <2>2. now \in Int /\ SlotLength \in Nat \ {0} /\ MaxSlots \in Nat
    BY SlotsAssumption, HorizonType DEF TypeInv
  <2>3. index \in Seq(AnySlot)
        /\ \A i \in 1 .. n : index[i].from = (i - 1) * SlotLength /\ index[i].till = i * SlotLength
    BY <2>1 DEF Listed
  <2>4. n \in Nat /\ Len(known) \in Nat
    BY <2>1, <2>3
  <2> HIDE DEF n
  <2>5. n <= MaxSlots
    BY <2>1, <2>2, <2>4
  <2>6. QED
    BY <2>1, <2>2, <2>3, <2>4, <2>5
<1>2. idx.slots = index
  BY <1>1, IndexKeepsSlots
<1>3. Midnight(now) \in Int
  <2>1. now \div Day \in Int
    BY <1>1, DayAssumption, DivMod, Zenon
  <2>2. QED
    BY <2>1, DayAssumption DEF Midnight
<1> HIDE DEF idx
<1>4. \A p, q \in 1 .. n : RunFromTo(index, p, q) \in Run \/ ~(p <= q)
  <2> SUFFICES ASSUME NEW p \in 1 .. n, NEW q \in 1 .. n, p <= q
               PROVE  RunFromTo(index, p, q) \in Run
    OBVIOUS
  <2>1. index[p].from = (p - 1) * SlotLength
    BY <1>1
  <2>2. (p - 1) * SlotLength + (q - p + 1) * SlotLength = q * SlotLength
    BY <1>1
  <2>3. p - 1 \in 0 .. MaxSlots /\ q \in 0 .. MaxSlots
    BY <1>1
  <2>4. (p - 1) * SlotLength \in 0 .. Horizon /\ q * SlotLength \in 0 .. Horizon
    BY <2>3, HorizonType
  <2>5. QED
    BY <2>1, <2>2, <2>4 DEF RunFromTo, Run
<1>5. QED
  <2> DEFINE deadline == Midnight(now)
             run == FirstExtremeRun(idx, now, deadline)
             Q(p, q) == Qualifies(index, idx, now, deadline, p, q)
  <2>1. n = Len(index) /\ Listed(index) /\ now \in Int /\ deadline \in Int
    BY <1>1, <1>3
  <2> HIDE DEF n, deadline
  <2>2. \/ run = None /\ \A p, q \in 1 .. n : ~Q(p, q)
        \/ \E p, q \in 1 .. n :
             /\ Q(p, q) /\ run = RunFromTo(index, p, q)
             /\ \A r, t \in 1 .. n : Q(r, t) => p <= r /\ (r = p => t <= q)
    BY <1>2, <2>1, RunFacts
  <2>3. QED
    BY <1>4, <2>2 DEF Qualifies, idx, deadline

LEMMA TypeNext == TypeInv /\ [Next]_vars => TypeInv'
<1> SUFFICES ASSUME TypeInv, [Next]_vars
             PROVE  TypeInv'
  OBVIOUS
<1>0. /\ known \in Seq(Slot) /\ Len(known) \in Nat /\ Missing \notin Seq(Slot)
      /\ Part(known) /\ Part(<< >>) /\ << >> \in Seq(Slot) /\ Idle \in GoodJobs
      /\ MaxFaults \in Nat
  <2>1. known \in Seq(Slot) /\ Part(known)
    BY DEF TypeInv, Part
  <2>2. JobOK(Idle) /\ Part(<< >>)
    BY <2>1, IdleOK
  <2>3. Idle \in GoodJobs
    BY <2>2 DEF GoodJobs, JobOK
  <2>4. Missing \notin Seq(Slot)
    BY PlaceholderAssumption
  <2>5. MaxFaults \in Nat
    BY SlotsAssumption
  <2>6. << >> \in Seq(Slot) /\ Len(known) \in Nat
    BY <2>1
  <2>7. QED
    BY <2>1, <2>2, <2>3, <2>4, <2>5, <2>6
\* What is in hand is good as long as the sensor's list is the same.
<1>s. ASSUME UNCHANGED known
      PROVE  /\ \A list : Part(list)' <=> Part(list)
             /\ GoodJobs' = GoodJobs
  BY <1>s DEF GoodJobs, JobOK, Part, Listed
\* What Home Assistant answers is the list, an empty one, or none.
<1>a. ASSUME NEW raw \in {known, << >>, Missing}, Attributes(raw)
      PROVE  faults' \in 0 .. MaxFaults
  BY <1>0, <1>a DEF Attributes, TypeInv
<1>1. ASSUME NEW c \in Callers, Handle(c)
      PROVE  TypeInv'
  <2>1. job[c] \in GoodJobs
    BY DEF TypeInv
  <2>2. UNCHANGED <<now, known, due, index, check, lastAlertedRunFrom, alerts, faults>>
    BY <1>1 DEF Handle
  <2>3. job' \in [Callers -> GoodJobs]
    <3>1. CASE job[c].list = Missing
      <4>1. [pc |-> "fetch", list |-> << >>] \in GoodJobs
        BY <1>0 DEF GoodJobs, JobOK
      <4>2. job' = [job EXCEPT ![c] = [pc |-> "fetch", list |-> << >>]]
        BY <1>1, <3>1 DEF Handle
      <4>3. QED
        BY <4>1, <4>2 DEF TypeInv
    <3>2. CASE job[c].list # Missing
      <4>1. Part(job[c].list) /\ Compare(c, job[c].list)
        BY <1>1, <2>1, <3>2 DEF Handle, GoodJobs, JobOK
      <4>2. QED
        BY <3>2, <4>1, CompareType
    <3>3. QED
      BY <3>1, <3>2
  <2>4. QED
    BY <1>s, <2>2, <2>3 DEF TypeInv
<1>2. ASSUME NEW c \in Callers, Fetch(c)
      PROVE  TypeInv'
  <2>1. UNCHANGED <<now, known, due, index, check, lastAlertedRunFrom, alerts>>
    BY <1>2 DEF Fetch
  <2>2. PICK raw \in {known, << >>, Missing} :
           /\ Attributes(raw)
           /\ IF raw = Missing THEN job' = [job EXCEPT ![c] = Idle] ELSE Compare(c, raw)
    BY <1>2 DEF Fetch
  <2>3. job' \in [Callers -> GoodJobs]
    <3>1. CASE raw = Missing
      BY <1>0, <2>2, <3>1 DEF TypeInv
    <3>2. CASE raw # Missing
      <4>1. Part(raw) /\ Compare(c, raw)
        BY <1>0, <2>2, <3>2
      <4>2. QED
        BY <3>2, <4>1, CompareType
    <3>3. QED
      BY <3>1, <3>2
  <2>4. faults' \in 0 .. MaxFaults
    BY <1>a, <2>2
  <2>5. QED
    BY <1>s, <2>1, <2>3, <2>4 DEF TypeInv
<1>3. ASSUME NEW c \in Callers, UpdateIndex(c)
      PROVE  TypeInv'
  <2>1. UNCHANGED <<now, known, due, check, lastAlertedRunFrom, alerts, faults>>
    BY <1>3 DEF UpdateIndex
  <2>2. job[c] \in GoodJobs /\ job[c].pc = "store"
    BY <1>3 DEF UpdateIndex, TypeInv
  <2>3. Part(index')
    BY <1>3, <2>2 DEF UpdateIndex, GoodJobs, JobOK
  <2>4. job' \in [Callers -> GoodJobs]
    BY <1>0, <1>3 DEF UpdateIndex, TypeInv
  <2>5. Part(index)'
    BY <2>1, <2>3 DEF Part, Listed
  <2>6. QED
    BY <1>s, <2>1, <2>4, <2>5 DEF TypeInv
<1>4. ASSUME NEW c \in Callers, Ask(c) \/ GetPriceSlots(c)
      PROVE  TypeInv'
  <2>1. UNCHANGED <<now, known, due, index, check, lastAlertedRunFrom, alerts, faults>>
    BY <1>4 DEF Ask, GetPriceSlots
  <2>2. [pc |-> "asked", list |-> << >>] \in GoodJobs /\ [pc |-> "fetch", list |-> << >>] \in GoodJobs
    BY <1>0 DEF GoodJobs, JobOK
  <2>3. \E j \in GoodJobs : job' = [job EXCEPT ![c] = j]
    <3>1. CASE Ask(c)
      BY <2>2, <3>1 DEF Ask
    <3>2. CASE GetPriceSlots(c)
      BY <1>0, <2>2, <3>2 DEF GetPriceSlots
    <3>3. QED
      BY <1>4, <3>1, <3>2
  <2>4. job' \in [Callers -> GoodJobs]
    BY <2>3 DEF TypeInv
  <2>5. QED
    BY <1>s, <2>1, <2>4 DEF TypeInv
<1>5. ASSUME NEW c \in Callers, Deliver(c)
      PROVE  TypeInv'
  <2>1. UNCHANGED <<now, known, index, lastAlertedRunFrom, alerts>> /\ due' = "none"
    BY <1>5 DEF Deliver
  <2>2. PICK raw \in {known, << >>, Missing} :
           Attributes(raw) /\ job' = [job EXCEPT ![c] = [pc |-> "handle", list |-> raw]]
    BY <1>5 DEF Deliver
  <2>3. [pc |-> "handle", list |-> raw] \in GoodJobs
    BY <1>0 DEF GoodJobs, JobOK
  <2>4. job' \in [Callers -> GoodJobs]
    BY <2>2, <2>3 DEF TypeInv
  <2>5. faults' \in 0 .. MaxFaults
    BY <1>a, <2>2
  <2>6. check' \in [Announcers -> GoodChecks]
    <3>1. CASE UNCHANGED check
      BY <3>1 DEF TypeInv
    <3>2. CASE \E a \in Announcers : check[a].pc = "idle" /\ check' = [check EXCEPT ![a].pc = "started"]
      <4>1. PICK a \in Announcers : check[a].pc = "idle" /\ check' = [check EXCEPT ![a].pc = "started"]
        BY <3>2
      <4>2. check[a] \in GoodChecks
        BY DEF TypeInv
      <4>3. [check[a] EXCEPT !.pc = "started"] \in GoodChecks
        BY <4>1, <4>2 DEF GoodChecks, CheckOK
      <4>4. QED
        BY <4>1, <4>3 DEF TypeInv
    <3>3. QED
      BY <1>5, <3>1, <3>2 DEF Deliver
  <2>7. QED
    BY <1>s, <2>1, <2>4, <2>5, <2>6 DEF TypeInv, GoodChecks, CheckOK
<1>6. ASSUME NEW a \in Announcers, HandlePriceUpdate(a)
      PROVE  TypeInv'
  <2> DEFINE run == FirstExtremeRun(NewPriceIndex(index), now, Midnight(now))
  <2>1. run \in Run \union {None}
    BY RunType
  <2>2. UNCHANGED <<now, known, due, index, job, lastAlertedRunFrom, alerts, faults>>
    BY <1>6 DEF HandlePriceUpdate
  <2>3. \/ check' = [check EXCEPT ![a] = Waiting]
        \/ run # None /\ check' = [check EXCEPT ![a] = [pc |-> "send", run |-> run]]
    BY <1>6 DEF HandlePriceUpdate
  <2> HIDE DEF run
  <2>4. Waiting \in GoodChecks
    BY DEF Waiting, GoodChecks, CheckOK
  <2>5. run # None => [pc |-> "send", run |-> run] \in GoodChecks
    BY <2>1 DEF GoodChecks, CheckOK
  <2>6. check' \in [Announcers -> GoodChecks]
    BY <2>3, <2>4, <2>5 DEF TypeInv
  <2>7. QED
    BY <1>s, <2>2, <2>6 DEF TypeInv, GoodChecks, CheckOK
<1>7. ASSUME NEW a \in Announcers, NotifyAlert(a) \/ NotifyFails(a)
      PROVE  TypeInv'
  <2>1. UNCHANGED <<now, known, due, index, job, faults>> /\ check' = [check EXCEPT ![a] = Waiting]
    BY <1>7 DEF NotifyAlert, NotifyFails
  <2>2. Waiting \in GoodChecks
    BY DEF Waiting, GoodChecks, CheckOK
  <2>3. check[a] \in GoodChecks /\ check[a].pc = "send"
    BY <1>7 DEF NotifyAlert, NotifyFails, TypeInv
  <2>4. check[a].run \in Run
    BY <2>3 DEF GoodChecks, CheckOK
  <2>5. check' \in [Announcers -> GoodChecks]
    BY <2>1, <2>2 DEF TypeInv
  <2>6. check[a].run.from \in 0 .. Horizon
    BY <2>4 DEF Run
  <2>7. alerts' \in Seq(Run) /\ lastAlertedRunFrom' \in 0 .. Horizon \union {None}
    <3>1. CASE NotifyAlert(a)
      <4>1. alerts \in Seq(Run)
        BY DEF TypeInv
      <4>2. alerts' = Append(alerts, check[a].run) /\ lastAlertedRunFrom' = check[a].run.from
        BY <3>1 DEF NotifyAlert
      <4>3. alerts' \in Seq(Run)
        BY <2>4, <4>1, <4>2
      <4>4. QED
        BY <2>6, <4>2, <4>3
    <3>2. CASE NotifyFails(a)
      <4>1. UNCHANGED <<alerts, lastAlertedRunFrom>>
        BY <3>2 DEF NotifyFails
      <4>2. QED
        BY <4>1 DEF TypeInv
    <3>3. QED
      BY <1>7, <3>1, <3>2
  <2>8. QED
    BY <1>s, <2>1, <2>5, <2>7 DEF TypeInv, GoodChecks, CheckOK
<1>8. CASE Publish
  <2> DEFINE n == Len(known)
             from == n * SlotLength
  <2>1. PICK price \in Prices :
           known' = Append(known, [from |-> from, till |-> from + SlotLength, price |-> price])
    BY <1>8 DEF Publish
  <2>2. UNCHANGED <<now, index, job, check, lastAlertedRunFrom, alerts, faults>> /\ n < MaxSlots
    BY <1>8 DEF Publish
  <2>3. due' \in {"none", "startup", "change"}
    BY <1>8 DEF Publish, ValueMayChange, TypeInv
  <2> DEFINE slot == [from |-> from, till |-> from + SlotLength, price |-> price]
  <2>4. slot \in Slot /\ from + SlotLength = (n + 1) * SlotLength
    <3>1. n \in 0 .. MaxSlots /\ n + 1 \in 0 .. MaxSlots /\ n \in Nat /\ SlotLength \in Nat \ {0}
      BY <1>0, <2>2, SlotsAssumption
    <3>2. n * SlotLength \in 0 .. Horizon /\ (n + 1) * SlotLength \in 0 .. Horizon
      BY <3>1, HorizonType
    <3>3. from + SlotLength = (n + 1) * SlotLength
      BY <3>1
    <3>4. QED
      BY <3>2, <3>3 DEF Slot
  <2>5. slot.from = from /\ slot.till = from + SlotLength
    OBVIOUS
  <2> HIDE DEF slot
  <2>6. known' = Append(known, slot)
    BY <2>1 DEF slot
  <2>7. /\ known' \in Seq(Slot) /\ Len(known') = n + 1 /\ known'[n + 1] = slot
        /\ \A i \in 1 .. n : known'[i] = known[i]
    BY <1>0, <2>4, <2>6
  <2>8. Part(known)'
    <3>1. ASSUME NEW i \in 1 .. Len(known')
          PROVE  known'[i].from = (i - 1) * SlotLength /\ known'[i].till = i * SlotLength
      <4>1. CASE i \in 1 .. n
        BY <1>0, <2>7, <4>1 DEF Part, Listed
      <4>2. CASE i = n + 1
        <5>1. i - 1 = n
          BY <1>0, <4>2
        <5>2. QED
          BY <2>4, <2>5, <2>7, <4>2, <5>1
      <4>3. QED
        BY <1>0, <2>7, <4>1, <4>2
    <3>2. known' \in Seq(AnySlot)
      BY <2>7, HorizonType
    <3>3. Len(known') <= Len(known')
      BY <1>0, <2>7
    <3>4. QED
      BY <2>7, <3>1, <3>2, <3>3 DEF Part, Listed
  <2>9. Len(known') \in Int /\ n <= Len(known') /\ Len(known') <= MaxSlots
    BY <1>0, <2>2, <2>7, SlotsAssumption
  <2>10. GoodJobs \subseteq GoodJobs'
    BY <1>0, <2>9, JobsGrow
  <2>11. Part(index)'
    <3>1. Part(index)
      BY DEF TypeInv
    <3>2. Len(index) \in Int /\ Len(known) \in Int
      BY <1>0, <3>1 DEF Part
    <3>3. QED
      BY <2>2, <2>9, <3>1, <3>2 DEF Part, Listed
  <2>12. job' \in [Callers -> GoodJobs']
    <3>1. job \in [Callers -> GoodJobs]
      BY DEF TypeInv
    <3>2. QED
      BY <2>2, <2>10, <3>1
  <2>13. QED
    BY <2>2, <2>3, <2>8, <2>9, <2>11, <2>12 DEF TypeInv, GoodChecks, CheckOK
<1>9. CASE Tick
  <2>1. UNCHANGED <<known, index, job, check, lastAlertedRunFrom, alerts, faults>> /\ now' \in 0 .. Horizon
    BY <1>9, HorizonType DEF Tick, TypeInv
  <2>2. due' \in {"none", "startup", "change"}
    BY <1>9 DEF Tick, ValueMayChange, TypeInv
  <2>3. QED
    BY <1>s, <2>1, <2>2 DEF TypeInv, GoodChecks, CheckOK
<1>10. CASE Restart
  <2>1. /\ UNCHANGED <<now, known>> /\ due' = "startup" /\ index' = << >>
        /\ job' = [c \in Callers |-> Idle] /\ check' = [a \in Announcers |-> Waiting]
        /\ lastAlertedRunFrom' = None /\ alerts' = << >>
    BY <1>10 DEF Restart
  <2>2. faults' \in 0 .. MaxFaults
    BY <1>0, <1>10 DEF Restart, TypeInv
  <2>3. Waiting \in GoodChecks
    BY DEF Waiting, GoodChecks, CheckOK
  <2>4. job' \in [Callers -> GoodJobs] /\ check' \in [Announcers -> GoodChecks]
    BY <1>0, <2>1, <2>3
  <2>5. Part(index)'
    BY <1>0, <2>1 DEF Part, Listed
  <2>6. alerts' \in Seq(Run)
    BY <2>1
  <2>7. QED
    BY <1>s, <2>1, <2>2, <2>4, <2>5, <2>6 DEF TypeInv, GoodChecks, CheckOK
<1>11. CASE UNCHANGED vars
  BY <1>s, <1>11 DEF vars, TypeInv, GoodChecks, CheckOK
<1>12. QED
  BY <1>1, <1>2, <1>3, <1>4, <1>5, <1>6, <1>7, <1>8, <1>9, <1>10, <1>11 DEF Next

\* Types, and every list of prices in the cache, in the hands of a caller or at the
\* sensor is a gapless beginning of the sensor's list (applyParsedPrices, GetPriceSlots).
THEOREM TypeCorrect == Spec => []TypeOK
<1>1. TypeInv => TypeOK
  BY TypeInvIsType
<1>2. QED
  BY <1>1, TypeInit, TypeNext, PTL DEF Spec

\* The alert names the first run of extreme prices that is long enough, and the whole of
\* it (HandlePriceUpdate), whatever the prices, and for lists and days of any length.
THEOREM AlertsNameTheFirstRun == Spec => []RunIsFirst
<1>1. TypeInv => RunIsFirst
  <2> SUFFICES ASSUME TypeInv, Settled, NEW further \in BoundedSeq(Prices, 2)
               PROVE  NamesFirstRun(Extended(further))
    BY DEF RunIsFirst
  <2>1. Listed(index) /\ index # << >> /\ now \in Int
    BY HorizonType DEF TypeInv, Part, Settled
  <2>2. Listed(Extended(further))
    BY <2>1, DayIsListed
  <2>3. QED
    BY <2>1, <2>2, FirstRunOfDay
<1>2. QED
  BY <1>1, TypeInit, TypeNext, PTL DEF Spec

\* The cheapest window that the tool names is the cheapest (FindCheapestWindow), whatever
\* the prices and for lists of any length.
THEOREM CheapestIsNamed == Spec => []WindowIsCheapest
<1>1. TypeInv => WindowIsCheapest
  <2> SUFFICES ASSUME TypeInv, Settled, NEW duration \in Durations, NEW within \in duration .. Horizon
               PROVE  NamesCheapest(index, duration, within)
    BY DEF WindowIsCheapest
  <2>1. Listed(index) /\ now \in Int /\ Horizon \in Int
    BY HorizonType DEF TypeInv, Part
  <2>2. duration \in Int /\ within \in Int /\ duration <= within
    BY <2>1 DEF Durations
  <2>3. QED
    BY <2>1, <2>2, CheapestOfDay
<1>2. QED
  BY <1>1, TypeInit, TypeNext, PTL DEF Spec

\* The answers of the tools describe one and the same day, whatever the prices and
\* however long the day: its windows, their averages, the range, and the next price.
THEOREM SummaryIsTrue == Spec => []SummaryCoversDay
<1>1. TypeInv => SummaryCoversDay
  <2> SUFFICES ASSUME TypeInv, Settled, NEW further \in BoundedSeq(Prices, 1)
               PROVE  DescribesDay(Extended(further))
    BY DEF SummaryCoversDay
  <2>1. Listed(index) /\ index # << >> /\ now \in Nat
    BY HorizonType DEF TypeInv, Part, Settled
  <2>2. Listed(Extended(further)) /\ Extended(further) # << >>
    <3>1. 1 \in Nat
      OBVIOUS
    <3>2. QED
      BY <2>1, <3>1, DayIsListed
  <2>3. QED
    BY <2>1, <2>2, DayIsDescribed
<1>2. QED
  BY <1>1, TypeInit, TypeNext, PTL DEF Spec

\* A level is the rank of a price among the day's (levels.go), whatever the prices and
\* however long the day.
THEOREM LevelsAreRanks == Spec => []LevelsRankPrices
<1>1. TypeInv => LevelsRankPrices
  <2> SUFFICES ASSUME TypeInv, Settled, NEW further \in BoundedSeq(Prices, 3)
               PROVE  RanksPrices(Extended(further))
    BY DEF LevelsRankPrices
  <2>1. Listed(index) /\ index # << >> /\ 3 \in Nat
    BY DEF TypeInv, Part, Settled
  <2>2. Listed(Extended(further)) /\ Extended(further) # << >>
    BY <2>1, DayIsListed
  <2>3. QED
    BY <2>2, LevelsOfDay DEF Listed
<1>2. QED
  BY <1>1, TypeInit, TypeNext, PTL DEF Spec

\* The announcement on request says what is the case (announcer.go, formatter.go), whatever
\* the prices and however long the day.
THEOREM AnnouncementHolds == Spec => []AnnouncementIsTrue
<1>1. TypeInv => AnnouncementIsTrue
  <2> SUFFICES ASSUME TypeInv, Settled, NEW further \in BoundedSeq(Prices, 2),
                      NEW morning \in BOOLEAN
               PROVE  TellsTheTruth(Extended(further), morning)
    BY DEF AnnouncementIsTrue
  <2>1. Listed(index) /\ index # << >> /\ now \in Nat /\ 2 \in Nat
    BY HorizonType DEF TypeInv, Part, Settled
  <2>2. Listed(Extended(further)) /\ Extended(further) # << >>
    BY <2>1, DayIsListed
  <2>3. QED
    BY <2>1, <2>2, AnnouncementOfDay
<1>2. QED
  BY <1>1, TypeInit, TypeNext, PTL DEF Spec

\* A start that is postponed is worth the wait, and no start in time is better
\* (component.go, optimizer.go), however many slots are known and however long they are.
THEOREM WaitingPays == Spec => []PostponedStartIsBest
<1>1. TypeInv => PostponedStartIsBest
  <2> SUFFICES ASSUME TypeInv, Settled, NEW cycle \in Cycles, NEW weights \in Weights,
                      NEW hours \in Hours, NEW night \in BOOLEAN
               PROVE  WaitsRightly(index, cycle, weights, hours, night)
    BY DEF PostponedStartIsBest
  <2>1. Listed(index) /\ index # << >> /\ now \in Nat
    BY HorizonType DEF TypeInv, Part, Settled
  <2>2. cycle \in Nat \ {0}
    BY SlotsAssumption DEF Cycles
  <2>3. weights \in Seq(Int)
    <3>1. <<4, 1>> \in Seq(Int) /\ <<0, 3, 1>> \in Seq(Int)
      OBVIOUS
    <3>2. weights = <<4, 1>> \/ weights = <<0, 3, 1>>
      BY DEF Weights
    <3>3. QED
      BY <3>1, <3>2, Zenon
  <2>4. hours \in Nat
    BY SlotsAssumption DEF Hours
  <2>5. QED
    BY <2>1, <2>2, <2>3, <2>4, WaitIsRight
<1>2. QED
  BY <1>1, TypeInit, TypeNext, PTL DEF Spec

\* A list gets longer by its last element.
LEMMA AppendFacts ==
  ASSUME NEW S, NEW list \in Seq(S), NEW e
  PROVE  /\ Append(list, e) \in Seq(S \union {e})
         /\ Len(Append(list, e)) = Len(list) + 1
         /\ \A i \in 1 .. Len(list) : Append(list, e)[i] = list[i]
         /\ Append(list, e)[Len(list) + 1] = e
<1> DEFINE Both == S \union {e}
<1>1. list \in Seq(Both) /\ e \in Both
  OBVIOUS
<1> HIDE DEF Both
<1>2. QED
  BY <1>1 DEF Both

\* The last alert sent is the one remembered, and an announcer about to send holds a
\* run that starts at another time.
EchoInv(a) ==
  /\ DOMAIN check = {a} /\ "pc" \in DOMAIN check[a]
  /\ \E S : alerts \in Seq(S)
  /\ NoEcho
  /\ alerts # << >> => lastAlertedRunFrom = alerts[Len(alerts)].from
  /\ check[a].pc = "send" => check[a].run.from # lastAlertedRunFrom

LEMMA EchoInit ==
  ASSUME NEW a, Announcers = {a}, Init
  PROVE  EchoInv(a)
<1>1. alerts = << >> /\ alerts \in Seq({})
  BY DEF Init
<1>2. DOMAIN check = {a} /\ "pc" \in DOMAIN check[a] /\ check[a].pc = "idle"
  BY DEF Init, Waiting
<1>3. NoEcho
  BY <1>1 DEF NoEcho
<1>4. QED
  BY <1>1, <1>2, <1>3 DEF EchoInv

LEMMA EchoNext ==
  ASSUME NEW a, Announcers = {a}, EchoInv(a), [Next]_vars
  PROVE  EchoInv(a)'
\* Everybody but the announcer leaves its memory alone, and starts it at most.
<1>1. ASSUME UNCHANGED <<alerts, lastAlertedRunFrom>>, DOMAIN check' = {a}, "pc" \in DOMAIN check'[a],
             check'[a].pc = "send" => check'[a].run.from # lastAlertedRunFrom
      PROVE  EchoInv(a)'
  BY <1>1 DEF EchoInv, NoEcho
<1>2. ASSUME UNCHANGED <<check, alerts, lastAlertedRunFrom>>
      PROVE  EchoInv(a)'
  BY <1>1, <1>2 DEF EchoInv
<1>3. ASSUME NEW c \in Callers,
             Handle(c) \/ Fetch(c) \/ UpdateIndex(c) \/ Ask(c) \/ GetPriceSlots(c)
      PROVE  EchoInv(a)'
  BY <1>2, <1>3 DEF Handle, Fetch, UpdateIndex, Ask, GetPriceSlots
<1>4. ASSUME NEW c \in Callers, Deliver(c)
      PROVE  EchoInv(a)'
  <2>1. \/ UNCHANGED check
        \/ check' = [check EXCEPT ![a].pc = "started"]
    BY <1>4 DEF Deliver
  <2>2. UNCHANGED <<alerts, lastAlertedRunFrom>>
    BY <1>4 DEF Deliver
  <2>3. CASE UNCHANGED check
    BY <1>2, <2>2, <2>3
  <2>4. CASE check' = [check EXCEPT ![a].pc = "started"]
    <3>1. DOMAIN check' = {a} /\ check'[a] = [check[a] EXCEPT !.pc = "started"]
      BY <2>4 DEF EchoInv
    <3>2. check'[a].pc = "started" /\ DOMAIN check'[a] = DOMAIN check[a]
      BY <3>1 DEF EchoInv
    <3>3. QED
      BY <1>1, <2>2, <3>1, <3>2 DEF EchoInv
  <2>5. QED
    BY <2>1, <2>3, <2>4
<1>5. ASSUME HandlePriceUpdate(a)
      PROVE  EchoInv(a)'
  <2> DEFINE run == FirstExtremeRun(NewPriceIndex(index), now, Midnight(now))
  <2>1. \/ check' = [check EXCEPT ![a] = Waiting]
        \/ /\ check' = [check EXCEPT ![a] = [pc |-> "send", run |-> run]]
           /\ run.from # lastAlertedRunFrom
    BY <1>5 DEF HandlePriceUpdate
  <2>2. UNCHANGED <<alerts, lastAlertedRunFrom>>
    BY <1>5 DEF HandlePriceUpdate
  <2> HIDE DEF run
  <2>3. DOMAIN check' = {a} /\ "pc" \in DOMAIN check'[a]
    BY <2>1 DEF EchoInv, Waiting
  <2>4. check'[a].pc = "send" => check'[a].run.from # lastAlertedRunFrom
    BY <2>1 DEF EchoInv, Waiting
  <2>5. QED
    BY <1>1, <2>2, <2>3, <2>4
<1>6. ASSUME NotifyAlert(a)
      PROVE  EchoInv(a)'
  <2> DEFINE run == check[a].run
  <2>1. /\ check[a].pc = "send"
        /\ alerts' = Append(alerts, run)
        /\ lastAlertedRunFrom' = run.from
        /\ check' = [check EXCEPT ![a] = Waiting]
    BY <1>6 DEF NotifyAlert
  <2>2. run.from # lastAlertedRunFrom
    BY <2>1 DEF EchoInv
  <2>3. PICK S : alerts \in Seq(S)
    BY DEF EchoInv
  <2> HIDE DEF run
  <2>4. /\ alerts' \in Seq(S \union {run})
        /\ Len(alerts') = Len(alerts) + 1
        /\ \A i \in 1 .. Len(alerts) : alerts'[i] = alerts[i]
        /\ alerts'[Len(alerts) + 1] = run
    BY <2>1, <2>3, AppendFacts
  <2>5. NoEcho'
    <3> SUFFICES ASSUME NEW i \in 2 .. Len(alerts')
                 PROVE  alerts'[i].from # alerts'[i - 1].from
      BY DEF NoEcho
    <3>1. Len(alerts) \in Nat
      BY <2>3
    <3>2. CASE i <= Len(alerts)
      BY <2>4, <3>1, <3>2 DEF EchoInv, NoEcho
    <3>3. CASE i = Len(alerts) + 1
      <4>1. alerts # << >> /\ i - 1 = Len(alerts) /\ i - 1 \in 1 .. Len(alerts)
        BY <2>3, <3>1, <3>3
      <4>2. alerts'[i - 1].from = lastAlertedRunFrom
        BY <2>4, <4>1 DEF EchoInv
      <4>3. QED
        BY <2>2, <2>4, <3>3, <4>2
    <3>4. QED
      BY <2>4, <3>1, <3>2, <3>3
  <2>6. DOMAIN check' = {a} /\ "pc" \in DOMAIN check'[a] /\ check'[a].pc # "send"
    BY <2>1 DEF EchoInv, Waiting
  <2>7. lastAlertedRunFrom' = alerts'[Len(alerts')].from
    BY <2>1, <2>4
  <2>8. QED
    BY <2>4, <2>5, <2>6, <2>7 DEF EchoInv
<1>7. ASSUME NotifyFails(a)
      PROVE  EchoInv(a)'
  <2>1. DOMAIN check' = {a} /\ "pc" \in DOMAIN check'[a] /\ check'[a].pc # "send"
    BY <1>7 DEF NotifyFails, EchoInv, Waiting
  <2>2. QED
    BY <1>1, <1>7, <2>1 DEF NotifyFails
<1>8. ASSUME Publish \/ Tick
      PROVE  EchoInv(a)'
  BY <1>2, <1>8 DEF Publish, Tick
<1>9. ASSUME Restart
      PROVE  EchoInv(a)'
  <2>1. alerts' = << >> /\ << >> \in Seq({})
    BY <1>9 DEF Restart
  <2>2. DOMAIN check' = {a} /\ "pc" \in DOMAIN check'[a] /\ check'[a].pc = "idle"
    BY <1>9 DEF Restart, Waiting
  <2>3. NoEcho'
    BY <2>1 DEF NoEcho
  <2>4. QED
    BY <2>1, <2>2, <2>3 DEF EchoInv
<1>10. CASE UNCHANGED vars
  BY <1>2, <1>10 DEF vars
<1>11. QED
  BY <1>3, <1>4, <1>5, <1>6, <1>7, <1>8, <1>9, <1>10 DEF Next

\* Where announcements do not overlap, two alerts in a row never name the same start:
\* for any lists of prices, any number of callers that change the cache meanwhile, and
\* however often a notification fails or is suppressed (HandlePriceUpdate).
THEOREM NoAlertEchoes ==
  ASSUME NEW a, Announcers = {a}
  PROVE  Spec => []NoEcho
<1>1. Init => EchoInv(a)
  BY EchoInit
<1>2. EchoInv(a) /\ [Next]_vars => EchoInv(a)'
  BY EchoNext
<1>3. EchoInv(a) => NoEcho
  BY DEF EchoInv
<1> HIDE DEF EchoInv
<1>4. QED
  BY <1>1, <1>2, <1>3, PTL DEF Spec

=============================================================================
