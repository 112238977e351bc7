---------------------------- MODULE CheapestHours ----------------------------
(***************************************************************************)
(* Optimizer.OptimizeCheapestHours of internal/domain/optimizer: should a  *)
(* device that can be switched at any time charge now?  Time is in units,  *)
(* HourLength of them to an hour; a list of price slots is a set of        *)
(* records, since nothing here depends on its order.  Averages and         *)
(* percentages are compared by cross-multiplication.                       *)
(***************************************************************************)
EXTENDS Integers, FiniteSetsExt

CONSTANTS
  HourLength, DayHours,        \* units in an hour, hours in a day
  StartHour,                   \* the hour of the day at time 0
  TotalDuration, WindowSize,   \* how long to charge, how far to look ahead
  CriticalHoursStart, CriticalHoursEnd,
  DrainRate,                   \* how long a full battery lasts
  Full, Healthy,               \* 100 and 60 percent
  MinBatteryPercent,
  PreChargeHours               \* 4 in the source

ASSUME RequestAssumption ==
  /\ HourLength \in Nat \ {0} /\ DayHours \in Nat \ {0} /\ StartHour \in 0 .. DayHours - 1
  /\ TotalDuration \in Nat \ {0} /\ WindowSize \in Nat \ {0}
  /\ TotalDuration <= WindowSize
  /\ {CriticalHoursStart, CriticalHoursEnd} \subseteq 0 .. DayHours
  /\ DrainRate \in Nat /\ Full \in Nat \ {0}
  /\ {Healthy, MinBatteryPercent} \subseteq 0 .. Full
  /\ PreChargeHours \in Nat

Hour(t) == (StartHour + t \div HourLength) % DayHours

Holds(slot, now) == slot.from <= now /\ now < slot.till

SumOfPrices(slots) == MapThenSumSet(LAMBDA slot : slot.price, slots)

Duration(slots) == MapThenSumSet(LAMBDA slot : slot.till - slot.from, slots)

Future(slots, now) == {slot \in slots : slot.from >= now}

\* 0 when no slot holds the present.
CurrentPrice(slots, now) == SumOfPrices({slot \in slots : Holds(slot, now)})

HasCriticalHours == CriticalHoursStart > 0 \/ CriticalHoursEnd > 0

\* A period whose end is not after its start goes over midnight.
InCriticalHours(hour) ==
  IF CriticalHoursStart < CriticalHoursEnd
    THEN CriticalHoursStart <= hour /\ hour < CriticalHoursEnd
    ELSE CriticalHoursStart <= hour \/ hour < CriticalHoursEnd

HoursUntilCritical(hour) ==
  CriticalHoursStart - hour + (IF hour > CriticalHoursStart THEN DayHours ELSE 0)

-------------------------------------------------------------------------------
\* Outside the critical hours

WindowSlots(slots, now) ==
  {slot \in slots : \/ Holds(slot, now)
                    \/ slot.from > now /\ slot.from < now + WindowSize}

\* What the loop over the slots sorted by price may select: slots of the same
\* price may be in either order (sort.Slice is not stable).
CheapestSelections(window) ==
  {sel \in SUBSET window :
     /\ \A s \in sel, t \in window \ sel : s.price <= t.price
     /\ sel = window \/ Duration(sel) >= TotalDuration
     /\ \E last \in sel :
          /\ \A s \in sel : s.price <= last.price
          /\ Duration(sel \ {last}) < TotalDuration}

\* The slots whose average stands for the critical hours: what is left of them
\* in the list, or the present slot.
CriticalSlots(slots, now) ==
  LET critical == {slot \in Future(slots, now) : InCriticalHours(Hour(slot.from))}
  IN IF critical # {} THEN critical ELSE {slot \in slots : Holds(slot, now)}

\* current / average < 0.80, as floating point division has it: a negative
\* average turns the comparison round, and a zero average leaves the sign.
SignificantlyCheaper(current, total, count) ==
  \/ total > 0 /\ 5 * current * count < 4 * total
  \/ total < 0 /\ 5 * current * count > 4 * total
  \/ total = 0 /\ current < 0

\* Mutant: the hour that is PreChargeHours away is too far.
ShouldPreChargeNowLater(slots, now) ==
  LET critical == CriticalSlots(slots, now)
      current == CurrentPrice(slots, now)
      total == SumOfPrices(critical)
      count == Cardinality(critical)
  IN \/ SignificantlyCheaper(current, total, count)
     \/ current * count < total /\ HoursUntilCritical(Hour(now)) < PreChargeHours

ShouldPreChargeNow(slots, now) ==
  LET critical == CriticalSlots(slots, now)
      current == CurrentPrice(slots, now)
      total == SumOfPrices(critical)
      count == Cardinality(critical)
  IN \/ SignificantlyCheaper(current, total, count)
     \/ current * count < total /\ HoursUntilCritical(Hour(now)) <= PreChargeHours

-------------------------------------------------------------------------------
\* During the critical hours

\* A quarter and 15% above the lowest price to come; a lowest or highest price
\* of zero stands for a list without future prices.
CheapToday(slots, now, level) ==
  LET prices == {slot.price : slot \in Future(slots, now)}
      above == CurrentPrice(slots, now) - Min(prices)
      range == Max(prices) - Min(prices)
  IN /\ prices # {} /\ Min(prices) # 0 /\ Max(prices) # 0
     /\ IF level < Healthy THEN 4 * above <= range ELSE 20 * above <= 3 * range

\* The level expected at the end of the critical hours is below the minimum.
WillRunOut(now, level) ==
  LET remaining == CriticalHoursEnd - Hour(now)
  IN /\ DrainRate > 0 /\ remaining > 0
     /\ level * DrainRate - Full * remaining * HourLength < MinBatteryPercent * DrainRate

\* Mutant: a low battery too waits for a cheap price.
ChargeBySensorCheaply(slots, now, level, weekend) ==
  IF weekend THEN WillRunOut(now, level) ELSE CheapToday(slots, now, level)

ChargeBySensor(slots, now, level, weekend) ==
  \/ level < MinBatteryPercent
  \/ ~weekend /\ CheapToday(slots, now, level)
  \/ weekend /\ WillRunOut(now, level)

\* Mutant: the estimate waits for the whole of DrainRate.
ChargeByEstimationLate(now) ==
  DrainRate > 0 /\ (Hour(now) - CriticalHoursStart) * HourLength > DrainRate

ChargeByEstimation(now) ==
  DrainRate > 0 /\ 2 * (Hour(now) - CriticalHoursStart) * HourLength > DrainRate

-------------------------------------------------------------------------------
\* The decisions: the possible values of ChargeNow, none when an error is returned

SelectionHolds(slots, now) ==
  {\E slot \in sel : Holds(slot, now) : sel \in CheapestSelections(WindowSlots(slots, now))}

OptimizeOpportunistic(slots, now) ==
  IF WindowSlots(slots, now) = {} THEN {} ELSE SelectionHolds(slots, now)

PreCharging(slots, now) ==
  IF WindowSlots(slots, now) = {} THEN {}
  ELSE {cheap \/ ShouldPreChargeNow(slots, now) : cheap \in SelectionHolds(slots, now)}

\* A level of zero means that no level is known.
CriticalHoursCharging(slots, now, level, weekend) ==
  {IF level > 0 THEN ChargeBySensor(slots, now, level, weekend) ELSE ChargeByEstimation(now)}

OptimizeCheapestHours(slots, now, level, weekend) ==
  IF ~HasCriticalHours THEN OptimizeOpportunistic(slots, now)
  ELSE IF InCriticalHours(Hour(now)) THEN CriticalHoursCharging(slots, now, level, weekend)
  ELSE PreCharging(slots, now)

===============================================================================
