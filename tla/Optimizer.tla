------------------------------- MODULE Optimizer -------------------------------
(***************************************************************************)
(* Optimizer.Optimize of internal/domain/optimizer: when to start a cycle  *)
(* of a given length within the slots known.  The cost of a stage is its   *)
(* power times the hours times the average price of its slots; power and   *)
(* slot length are the same for every window compared, so a cost is here a *)
(* sum of prices, and SumPrices is the cost of a whole window.             *)
(***************************************************************************)
EXTENDS PriceIndex

\* Mutant: the last slot, touched in part, is left out.
SlotsNeededWhole(slots, cycle) ==
  Min({Len(slots), cycle \div (slots[1].till - slots[1].from)})

\* Every slot counts as long as the first.
SlotsNeeded(slots, cycle) ==
  LET len == slots[1].till - slots[1].from
      ceil == (cycle + len - 1) \div len
  IN IF ceil > Len(slots) THEN Len(slots) ELSE ceil

\* The slots of stage k (from 1): a proportional share, cut down to whole slots.
StageSlots(window, stages, k) ==
  SubSeq(window, ((k - 1) * Len(window)) \div stages + 1, (k * Len(window)) \div stages)

\* calculateCostForWindow: weights are integers here (quarters in the profiles).
WeightedCost(window, weights) ==
  FoldLeft(+, 0, [k \in DOMAIN weights |->
                    weights[k] * SumPrices(StageSlots(window, Len(weights), k))])

Window(slots, i, n) == SubSeq(slots, i, i + n - 1)

Later(s, t) == IF s > t THEN s ELSE t

\* The first slot that is not over before now; the first of all if there is none.
FirstValidSlot(slots, now) ==
  LET i == SelectInSeq(slots, LAMBDA slot : slot.till >= now)
  IN IF i = 0 THEN 1 ELSE i

\* The starting slots findBestWindow evaluates: the loop passes over slots that
\* are over and breaks at the first start whose cycle ends after the deadline.
Evaluated(slots, n, cycle, now, deadline) ==
  LET ahead == {i \in 1 .. Len(slots) - n + 1 : slots[i].till >= now}
      Late(i) == Later(slots[i].from, now) + cycle > deadline
  IN {i \in ahead : \A j \in ahead : j <= i => ~Late(j)}

\* createImmediateResult and calculateSavings.
ImmediateCost(slots, n, now) ==
  LET i == FirstValidSlot(slots, now)
  IN IF i + n - 1 <= Len(slots) THEN SumPrices(Window(slots, i, n)) ELSE 0

\* slots is not empty (validateRequest); earliest is the later of now and StartAfter.
Optimize(slots, earliest, maxDelay, cycle, weights) ==
  LET n == SlotsNeeded(slots, cycle)
      options == Evaluated(slots, n, cycle, earliest, earliest + maxDelay)
      Cost(i) == WeightedCost(Window(slots, i, n), weights)
      best == {i \in options : \A k \in options : Cost(i) <= Cost(k)}
      first == FirstValidSlot(slots, earliest)
      used == IF options # {} THEN Window(slots, Min(best), n)
              ELSE SubSeq(slots, first, Min({first + n - 1, Len(slots)}))
  IN [window |-> used,
      start |-> Later(used[1].from, earliest),
      end |-> Later(used[1].from, earliest) + cycle,
      cost |-> SumPrices(used),
      current |-> IF options = {} THEN SumPrices(used) ELSE ImmediateCost(slots, n, earliest)]

-------------------------------------------------------------------------------
(* Whether the dishwasher waits for the start that Optimize found.  A      *)
(* percentage is kept in hundredths.                                       *)

\* Savings are nought where the cost of an immediate start is unknown, zero or negative.
SavesAtLeast(result, percent) ==
  IF result.current > 0 THEN 10000 * (result.current - result.cost) >= percent * result.current
  ELSE percent <= 0

\* scaleFactor * exp(-decayRate * hours), rounded down.
Decay[hours \in Nat] == IF hours = 0 THEN 2500 ELSE (Decay[hours - 1] * 8607) \div 10000

CalculateDynamicThreshold(hours) == IF hours <= 0 THEN 10000 ELSE 200 + Decay[hours]

ShouldDelay(result, hours) ==
  hours > 0 /\ SavesAtLeast(result, CalculateDynamicThreshold(hours))

\* shouldDelayStart: at night any savings will do.  A unit of time is five minutes at least.
ShouldDelayStart(result, now, hours, night) ==
  /\ result.start > now
  /\ \/ night /\ result.current > 0 /\ result.cost < result.current
     \/ ShouldDelay(result, hours)

===============================================================================
