------------------------------ MODULE PriceIndex ------------------------------
(***************************************************************************)
(* The queries of internal/domain/pricing/index.go and levels.go: what the *)
(* announcer, the optimizer's callers and the MCP tools ask of a list of   *)
(* price slots.  A list is kept in the order in which the sensor sent it.  *)
(* Times and prices are integers and arithmetic is exact; an average is    *)
(* compared by cross-multiplication and a median is kept doubled.          *)
(***************************************************************************)
EXTENDS Integers, SequencesExt

CheapPercentile == 35
ExpensivePercentile == 70

Holds(slot, t) == slot.from <= t /\ t < slot.till

SumPrices(slots) == FoldLeft(LAMBDA sum, slot : sum + slot.price, 0, slots)

-------------------------------------------------------------------------------
\* Construction

\* The k-th lowest price: what stands there once the prices are sorted.
Ranked(slots, k) ==
  LET UpTo(price) == {i \in DOMAIN slots : slots[i].price <= price}
  IN Min({price \in {slots[i].price : i \in DOMAIN slots} : Cardinality(UpTo(price)) >= k})

\* math.Round((n - 1) * pct), from 1 instead of 0.
PercentileRank(n, pct) == (2 * pct * (n - 1) + 100) \div 200 + 1

NewPriceIndex(slots) ==
  LET n == Len(slots)
      mid == n \div 2
  IN IF n = 0
       THEN [slots |-> << >>, median2 |-> 0, cheap |-> 0, exp |-> 0]
       ELSE [slots |-> slots,
             median2 |-> IF n % 2 = 0 THEN Ranked(slots, mid) + Ranked(slots, mid + 1)
                                      ELSE 2 * Ranked(slots, mid + 1),
             cheap |-> Ranked(slots, PercentileRank(n, CheapPercentile)),
             exp |-> Ranked(slots, PercentileRank(n, ExpensivePercentile))]

-------------------------------------------------------------------------------
\* Queries

\* Mutant: a price at the threshold is not cheap.
LevelStrict(idx, slot) ==
  IF slot.price < idx.cheap THEN "cheap"
  ELSE IF slot.price >= idx.exp THEN "expensive"
  ELSE "average"

Level(idx, slot) ==
  IF idx.cheap = 0 /\ idx.exp = 0 THEN "unknown"
  ELSE IF slot.price <= idx.cheap THEN "cheap"
  ELSE IF slot.price >= idx.exp THEN "expensive"
  ELSE "average"

IsExtreme(idx, slot, spike) ==
  slot.price < 0 \/ 2 * slot.price > idx.median2 * spike

\* The slots at these positions, in their order: SelectSeq, in a form that can be
\* reasoned about.
Picked(slots, positions) ==
  LET Nth(k) == CHOOSE i \in positions : Cardinality({j \in positions : j <= i}) = k
  IN [k \in 1 .. Cardinality(positions) |-> slots[Nth(k)]]

\* The loop skips a slot that is over and stops at the first that starts too late.
SlotsInRange(slots, from, deadline) ==
  LET ahead == {i \in DOMAIN slots : slots[i].till > from}
      late == {i \in ahead : slots[i].from >= deadline}
  IN Picked(slots, {i \in ahead : \A j \in late : i < j})

\* Mutant: a block that has just reached the duration goes on.
BlockBeyond(slots, i, duration) ==
  LET ends == {j \in i .. Len(slots) : slots[j].till - slots[i].from > duration}
  IN SubSeq(slots, i, IF ends = {} THEN Len(slots) ELSE Min(ends))

\* The block that begins at slot i: it ends at the first slot that completes the
\* duration, or at the last slot of all.
Block(slots, i, duration) ==
  LET Done(j) == slots[j].till - slots[i].from >= duration
      ends == {j \in i .. Len(slots) : Done(j)}
  IN SubSeq(slots, i, IF ends = {} THEN Len(slots) ELSE Min(ends))

CheaperOnAverage(a, b) == SumPrices(a) * Len(b) < SumPrices(b) * Len(a)

\* << >> when there is no block to choose from.
FindCheapestWindow(slots, duration, from, deadline) ==
  LET candidates == SlotsInRange(slots, from, deadline)
      blocks == [i \in DOMAIN candidates |-> Block(candidates, i, duration)]
      fits == {i \in DOMAIN blocks : Last(blocks[i]).till <= deadline}
      best == {i \in fits : \A k \in fits : ~CheaperOnAverage(blocks[k], blocks[i])}
  IN IF fits = {} THEN << >> ELSE blocks[Min(best)]

\* Stretches of candidates on which F has the same value, as pairs of positions.
Stretches(candidates, F(_)) ==
  {s \in (DOMAIN candidates) \X (DOMAIN candidates) :
     LET Same(i) == F(candidates[i]) = F(candidates[s[1]])
     IN /\ s[1] <= s[2]
        /\ \A i \in s[1] .. s[2] : Same(i)
        /\ s[1] > 1 => ~Same(s[1] - 1)
        /\ s[2] < Len(candidates) => ~Same(s[2] + 1)}

\* The windows Summary lists; runs at an average level are not listed.
Summary(idx, from, deadline) ==
  LET candidates == SlotsInRange(idx.slots, from, deadline)
      Kind(slot) == <<Level(idx, slot), slot.price < 0>>
      Windows(P(_)) ==
        {[from |-> candidates[s[1]].from, till |-> candidates[s[2]].till] :
           s \in {r \in Stretches(candidates, Kind) : P(candidates[r[1]])}}
  IN [negative |-> Windows(LAMBDA slot : slot.price < 0),
      cheap |-> Windows(LAMBDA slot : slot.price >= 0 /\ Level(idx, slot) = "cheap"),
      expensive |-> Windows(LAMBDA slot : slot.price >= 0 /\ Level(idx, slot) = "expensive")]

===============================================================================
